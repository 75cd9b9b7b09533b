\* One group of two consumers, two events, two entries, two faults.
SPECIFICATION Spec
CONSTANTS
    projector = projector
    runtime = runtime
    c1 = c1
    c2 = c2
    c3 = c3
    Groups = {projector}
    Consumers = {c1, c2}
    GroupOf <- OneGroup
    Events = {"created", "completed"}
    DeadLetterGroups = {projector}
    ReclaimCount = 5
    MaxStream = 2
    MaxFaults = 2
INVARIANTS
    TypeOK
    HandledAtMostOnce
    DeadLetteredAtMostOnce
    NothingDroppedWithoutFault
\* Once every consumer has stopped or died and nobody publishes, it is over.
CHECK_DEADLOCK FALSE
