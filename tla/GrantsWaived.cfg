\* A package is installed before the grants of its workspace are seeded.
SPECIFICATION Spec
CONSTANTS
    s1 = s1
    s2 = s2
    Slots = {s1, s2}
    Focus = {"grants"}
    MaxFaults = 1
    Plans = {"free", "pro"}
    Notifications <- MCNotifications
    MaxDeliveries = 3
    Defaults <- MCDefaults
    Overrides <- MCOverrides
    AgentPackages = {"nova"}
    MaxRuns = 4
    MaxTokens = 1
    MaxMinutes = 1
    MaxHits = 3
    Workspaces = {"default"}
    Seeds <- TwoSeeds
    Agents = {"pulse"}
    DefaultEnabled = {"pulse", "social-publish"}
    NeedApproval = {"social-publish"}
    Choices <- MCChoices
    Memories = {"m1", "m2"}
    Uses <- MCUses
    Limit = 1
    Providers = {"facebook", "instagram"}
    t1 = t1
    t2 = t2
    States = {t1, t2}
    Pages = {"a"}
    Allotech = {}
    Listings = {{}}
    Platforms = {"linkedin"}
    WithInstagram = {}
    Persons = {"ann"}
    Owner = "ann"
    Accounts = {"u1", "u2"}
    Founder = "u1"
    Invitations = {"i1"}
INVARIANT
    NewWorkspacesAskApproval
CHECK_DEADLOCK FALSE
