\* Two calls in hand in every service; seven services, one at a time.
SPECIFICATION Spec
CONSTANTS
    s1 = s1
    s2 = s2
    Slots = {s1, s2}
    Focus = {"billing", "quotas", "grants", "memory", "vault", "publish", "tenancy"}
    MaxFaults = 1
    Plans = {"free", "pro"}
    Notifications <- MCNotifications
    MaxDeliveries = 3
    Defaults <- MCDefaults
    Overrides <- MCOverrides
    AgentPackages = {"nova"}
    MaxRuns = 4
    MaxTokens = 1
    MaxMinutes = 1
    MaxHits = 3
    Workspaces = {"default"}
    Seeds <- TwoSeeds
    Agents = {"pulse"}
    DefaultEnabled = {"pulse", "social-publish"}
    NeedApproval = {"social-publish"}
    Choices <- MCChoices
    Memories = {"m1", "m2"}
    Uses <- MCUses
    Limit = 1
    Providers = {"facebook", "instagram"}
    t1 = t1
    t2 = t2
    States = {t1, t2}
    Pages = {"a", "b"}
    Allotech = {"a"}
    Listings = {{}, {"a", "b"}}
    Platforms = {"linkedin", "facebook", "instagram", "other"}
    WithInstagram = {"a"}
    Persons = {"ann"}
    Owner = "ann"
    Accounts = {"u1", "u2"}
    Founder = "u1"
    Invitations = {"i1"}
SYMMETRY Symmetry
CONSTRAINT Intact
INVARIANTS
    TypeOK
    EventsApplyOnce
    
    SnapshotsAreComplete
    MemoryHolds
    ConnectionsHold
    PostsAreTheirPages
    PurgedStayGone
    InvitationsAdmitOnce
\* Requests and calls need not come; a service may have nothing left to do.
CHECK_DEADLOCK FALSE
