\* Chat: two workspaces, two runs, two polls at once, one fault or impatient
\* act.  Panels: all ten of them, two calls in hand.
SPECIFICATION FairSpec
CONSTANTS
    Pages = {"chat", "panel"}
    Workspaces = {"w1", "w2"}
    Pollers = {1, 2}
    Loaders = {1, 2}
    MaxRuns = 2
    MaxFaults = 1
    Organisations = {"a", "b"}
    WorkspacesOf <- MCWorkspacesOf
    RoleIn <- MCRoleIn
    Slots = {1, 2}
INVARIANTS
    TypeOK
    RepliesAreShown
    DraftsStayHome
    
PROPERTY
    SendingEnds
\* The user need not do anything more.
CHECK_DEADLOCK FALSE
