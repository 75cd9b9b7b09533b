\* Two consumers: a claim outlives the consumer that died holding it.
SPECIFICATION Spec
CONSTANTS
    projector = projector
    runtime = runtime
    c1 = c1
    c2 = c2
    c3 = c3
    Groups = {projector}
    Consumers = {c1, c2}
    GroupOf <- OneGroup
    Events = {"created"}
    DeadLetterGroups = {projector}
    ReclaimCount = 5
    MaxStream = 1
    MaxFaults = 1
INVARIANT
    AckedMeansProcessed
CHECK_DEADLOCK FALSE
