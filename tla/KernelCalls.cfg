\* A campaign, a publication and a guest; a budget of two, calls of one or two.
SPECIFICATION FairSpec
CONSTANTS
    Agents <- Registry
    Program <- ProgramsOf
    Allowlist <- AllowlistOf
    PersonaTools <- AllowlistOf
    Consults <- ConsultsOf
    Snapshots <- SnapshotsOf
    MaxDepth = 1
    Budget = 2
    CallTokens = {1, 2}
    MaxTasks = 4
    MaxFaults = 2
    MaxRestarts = 1
INVARIANTS
    TypeOK
    BudgetHolds
    CallersOutliveCallees
PROPERTY
    EveryTaskReports
\* Once every task has reported, nothing is left to do.
CHECK_DEADLOCK FALSE
