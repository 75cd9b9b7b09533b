\* Two checkpoints, two resumes, two runners, one fault.
SPECIFICATION FairSpec
CONSTANTS
    Length = 4
    Kind <- TwoGates
    Needs <- TwoGatesNeeds
    Requests = {q1, q2}
    Runners = {w1, w2}
    Projectors = {p1}
    MaxFaults = 1
INVARIANTS
    TypeOK
    RowIsTrue
    RepeatsNeedResumes
PROPERTIES
    ResumeSettles
\* A workflow that waits or ended and is resumed no more is at rest.
CHECK_DEADLOCK FALSE
