------------------------------ MODULE Services ---------------------------
(***************************************************************************)
(* The services around the runs, side by side: they share no state, so the *)
(* initial state picks one of them and the others rest.                    *)
(***************************************************************************)
EXTENDS Naturals, Sequences, FiniteSets

CONSTANTS
    Focus,  \* the services to explore
    Slots,  \* the calls in hand of each of them
    MaxFaults,
    \* Billing, Quotas
    Plans, Notifications, MaxDeliveries,
    Defaults, Overrides, AgentPackages, MaxRuns, MaxTokens, MaxMinutes, MaxHits,
    \* CapabilityGrants, MemoryIndex
    Workspaces, Seeds, Agents, DefaultEnabled, NeedApproval, Choices,
    Memories, Uses, Limit,
    \* ConnectorVault, Publishing, Tenancy
    Providers, States, Pages, Allotech, Listings,
    Platforms, WithInstagram,
    Persons, Owner, Accounts, Founder, Invitations

VARIABLES
    focus,
    billPlan, billing, events, delivery, applied, gate, billFaults,
    plan, override, request, runs, tokens, installed, minute, hits, peak,
    workspace, package, grant, grantOp, asked,
    semantic, record, vector, memoryOp, raced, failed,
    pending, row, secret, vaultOp, issued, chosen, trouble, vaultFaults,
    bundle, execution, posted,
    user, org, role, seat, invite, accountOp, admitted, torn

billVars == <<billPlan, billing, events, delivery, applied, gate, billFaults>>
quotaVars == <<plan, override, request, runs, tokens, installed, minute, hits, peak>>
grantVars == <<workspace, package, grant, grantOp, asked>>
memoryVars == <<semantic, record, vector, memoryOp, raced, failed>>
vaultVars == <<pending, row, secret, vaultOp, issued, chosen, trouble, vaultFaults>>
postVars == <<bundle, execution, posted>>
accountVars == <<user, org, role, seat, invite, accountOp, admitted, torn>>

B == INSTANCE Billing WITH Requests <- Slots, plan <- billPlan, faults <- billFaults
Q == INSTANCE Quotas WITH Requests <- Slots
G == INSTANCE CapabilityGrants WITH Operations <- Slots, op <- grantOp
M == INSTANCE MemoryIndex WITH Operations <- Slots, op <- memoryOp
V == INSTANCE ConnectorVault WITH Operations <- Slots, op <- vaultOp, faults <- vaultFaults
P == INSTANCE Publishing
T == INSTANCE Tenancy WITH Operations <- Slots, op <- accountOp

\* What the proofs take of the constants; "none" stands for a null column.
ASSUME ServicesAssumption ==
    /\ IsFiniteSet(Slots) /\ Slots # {} /\ MaxFaults \in Nat
    /\ {MaxRuns, MaxTokens, MaxMinutes, MaxHits} \subseteq Nat
    /\ "free" \in Plans /\ \A n \in Notifications : n.plan \in Plans
    /\ "free" \in DOMAIN Defaults
    /\ \A p \in DOMAIN Defaults : Defaults[p] \in [Q!Dimensions -> Nat]
    /\ \A o \in Overrides : o.dimension \in Q!Dimensions /\ o.limit \in Nat
    /\ Seeds \in Seq(G!Capabilities) \ {<<>>} /\ Agents \subseteq G!Capabilities
    /\ \A x \in Choices : /\ x.c \in G!Capabilities /\ x.enabled \in BOOLEAN
                          /\ x.approval \in {"keep", "waived", "required"}
    /\ WithInstagram \subseteq Pages /\ Listings \subseteq SUBSET Pages
    /\ "none" \notin Pages
    /\ Owner \in Persons /\ "none" \notin Persons /\ Founder \in Accounts

Init ==
    /\ focus \in Focus
    /\ B!Init /\ Q!Init /\ G!Init /\ M!Init /\ V!Init /\ P!Init /\ T!Init
    \* Whether recall is semantic matters where memory is explored.
    /\ focus # "memory" => ~semantic

Next ==
    /\ UNCHANGED focus
    /\ \/ /\ focus = "billing" /\ B!Next
          /\ UNCHANGED <<quotaVars, grantVars, memoryVars, vaultVars, postVars, accountVars>>
       \/ /\ focus = "quotas" /\ Q!Next
          /\ UNCHANGED <<billVars, grantVars, memoryVars, vaultVars, postVars, accountVars>>
       \/ /\ focus = "grants" /\ G!Next
          /\ UNCHANGED <<billVars, quotaVars, memoryVars, vaultVars, postVars, accountVars>>
       \/ /\ focus = "memory" /\ M!Next
          /\ UNCHANGED <<billVars, quotaVars, grantVars, vaultVars, postVars, accountVars>>
       \/ /\ focus = "vault" /\ V!Next
          /\ UNCHANGED <<billVars, quotaVars, grantVars, memoryVars, postVars, accountVars>>
       \/ /\ focus = "publish" /\ P!Next
          /\ UNCHANGED <<billVars, quotaVars, grantVars, memoryVars, vaultVars, accountVars>>
       \/ /\ focus = "tenancy" /\ T!Next
          /\ UNCHANGED <<billVars, quotaVars, grantVars, memoryVars, vaultVars, postVars>>

Spec == Init /\ [][Next]_<<focus, billVars, quotaVars, grantVars, memoryVars, vaultVars,
                           postVars, accountVars>>

-----------------------------------------------------------------------------
(* The properties of the services; their modules say more about each.      *)

\* The state of the service explored is well-formed (see the modules' TypeOK).
TypeOK ==
    /\ focus = "billing" => B!TypeOK
    /\ focus = "quotas"  => Q!TypeOK
    /\ focus = "grants"  => G!TypeOK
    /\ focus = "memory"  => M!TypeOK
    /\ focus = "vault"   => V!TypeOK
    /\ focus = "publish" => P!TypeOK
    /\ focus = "tenancy" => T!TypeOK

\* A payment event takes effect at most once, and is not lost once the
\* provider was told ok, unless a delivery of it failed (applyWebhookEvent).
EventsApplyOnce == B!EventsApplyOnce

\* Concurrent creations exceed the runs quota by less than one each
\* (assertCanCreateRun, then the insert of the run).
QuotasHold == Q!QuotasHold

\* A run is dispatched with a decision on every first-party capability,
\* however seeding is interleaved (ensureFirstPartyCapabilityGrants).
SnapshotsAreComplete == G!SnapshotsAreComplete

\* A recall returns nothing that was forgotten before it began; index and rows
\* agree but for calls under way, failures and the race of forget with
\* remember (semanticRecall, remember, forget).
MemoryHolds == M!ForgottenStaysForgotten /\ M!StoresAgree

\* A connected row has its secret unless a disconnect crossed or stopped, and
\* both Meta connections hold the page that was selected (handleCallback,
\* selectMetaPage, listMetaPages).
ConnectionsHold == V!ConnectedMeansUsable /\ V!SelectionHolds

\* What is reported as published was posted, by the token of its page
\* (ToolRuntime.execute, social-publish).
PostsAreTheirPages == P!PostsAreTheirPages

\* A purged account stays without identity and membership (hardPurgeUser).
PurgedStayGone == T!PurgedStayGone

\* An invitation admits once, and never once revoked (accept).
InvitationsAdmitOnce == T!InvitationsAdmitOnce

\* "New workspaces only": unless an editor chose otherwise, the grant of a
\* capability that needs approval requires it (see CapabilityGrants).
NewWorkspacesAskApproval == G!NewWorkspacesAskApproval
==========================================================================
