\* One approval, two requests that race for it, two workers that may be given
\* the same message, two faults.
SPECIFICATION FairSpec
CONSTANTS
    a1 = a1
    q1 = q1
    q2 = q2
    w1 = w1
    w2 = w2
    NoApproval = NoApproval
    Approvals = {a1}
    Requests = {q1, q2}
    Workers = {w1, w2}
    MaxDeliveries = 2
    MaxFaults = 2
INVARIANTS
    TypeOK
    EffectAtMostOnce
    EffectNeedsApproval
    ResumedAtMostOnce
    CompletedMeansEffect
PROPERTIES
    ApprovedIsResumed
    DecisionsAreFinal
    KeepsPromise
\* Users need not ask for anything, and decided approvals stay decided.
CHECK_DEADLOCK FALSE
