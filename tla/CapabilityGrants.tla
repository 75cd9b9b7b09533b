------------------------- MODULE CapabilityGrants ------------------------
(***************************************************************************)
(* The packages an organisation has installed, the capability grants of    *)
(* its workspaces, and the snapshots of both that a run is dispatched      *)
(* with.  Seeding is lazy: whoever needs the grants of a workspace first   *)
(* creates the missing ones, one after the other, with no transaction.     *)
(*                                                                         *)
(* Abstracted: versions and pins, roles, everything else about packages:   *)
(* a capability and the package that ships it are one element.             *)
(***************************************************************************)
EXTENDS Naturals, Sequences

CONSTANTS
    Workspaces,
    Seeds,          \* first-party capabilities, in the order they are seeded
    Agents,         \* those of kind agent
    DefaultEnabled, \* enabled when seeded
    NeedApproval,   \* require approval when seeded
    Choices,        \* what an editor may set: [c, enabled, approval]
    Operations      \* slots: API calls in hand

Capabilities == {Seeds[i] : i \in 1..Len(Seeds)}
NoGrant == [exists |-> FALSE, enabled |-> FALSE, approval |-> FALSE]
Grant(e, a) == [exists |-> TRUE, enabled |-> e, approval |-> a]

VARIABLES
    workspace,  \* workspaces created
    package,    \* package[c]: the tenant_packages row: absent, installed, uninstalled
    grant,      \* grant[w][c]: the capability_grants row
    op,         \* op[o]: an API call in hand
    asked       \* history: [w, c] pairs whose approval flag an editor chose

vars == <<workspace, package, grant, op, asked>>

Idle == [pc |-> "idle", call |-> "none", w |-> "none", c |-> "none", todo |-> <<>>,
         enabled |-> FALSE, approval |-> "keep", grants |-> {}, packed |-> FALSE]

\* The organisation exists with its default workspace once that is created.
Init ==
    /\ workspace = {}
    /\ package = [c \in Capabilities |-> "absent"]
    /\ grant = [w \in Workspaces |-> [c \in Capabilities |-> NoGrant]]
    /\ op = [o \in Operations |-> Idle]
    /\ asked = {}

Set(o, x) == op' = [op EXCEPT ![o] = x]
Exists(w, c) == grant[w][c].exists
SetGrant(w, c, g) == grant' = [grant EXCEPT ![w][c] = g]

-----------------------------------------------------------------------------
(* What callers start *)

\* The transaction of organizations.create or workspaces.create has committed.
Create(o, w) ==
    /\ op[o].pc = "idle" /\ w \notin workspace
    /\ workspace' = workspace \cup {w}
    /\ Set(o, [Idle EXCEPT !.pc = "packages", !.call = "create", !.w = w, !.todo = Seeds])
    /\ UNCHANGED <<package, grant, asked>>

\* packages.list seeds both again.
ListPackages(o, w) ==
    /\ op[o].pc = "idle" /\ w \in workspace
    /\ Set(o, [Idle EXCEPT !.pc = "packages", !.call = "list", !.w = w, !.todo = Seeds])
    /\ UNCHANGED <<workspace, package, grant, asked>>

\* grants.setEnabled, by an editor.
SetEnabled(o, w, x) ==
    /\ op[o].pc = "idle" /\ w \in workspace
    /\ Set(o, [Idle EXCEPT !.pc = "find", !.call = "set", !.w = w, !.todo = Seeds,
                           !.c = x.c, !.enabled = x.enabled, !.approval = x.approval])
    /\ UNCHANGED <<workspace, package, grant, asked>>

\* createRun has committed the run and asks for the snapshots of agent c.
Dispatch(o, w, c) ==
    /\ op[o].pc = "idle" /\ w \in workspace
    /\ Set(o, [Idle EXCEPT !.pc = "find", !.call = "run", !.w = w, !.c = c, !.todo = Seeds])
    /\ UNCHANGED <<workspace, package, grant, asked>>

Install(o, w, c) ==
    /\ op[o].pc = "idle" /\ w \in workspace
    /\ Set(o, [Idle EXCEPT !.pc = "install", !.call = "install", !.w = w, !.c = c])
    /\ UNCHANGED <<workspace, package, grant, asked>>

Uninstall(c) ==
    /\ package[c] # "absent"
    /\ package' = [package EXCEPT ![c] = "uninstalled"]
    /\ UNCHANGED <<workspace, grant, op, asked>>

-----------------------------------------------------------------------------
(* Seeding *)

\* Where a call goes on once everything is seeded.
Seeded(x) == CASE x.call = "set" -> [x EXCEPT !.pc = "upsert"]
               [] x.call = "run" -> [x EXCEPT !.pc = "snapshot"]
               [] OTHER          -> Idle

\* Mutant (TypeOK): a call goes on to seed when nothing is left to seed.
NextSeedForever(x) == [x EXCEPT !.todo = Tail(@), !.pc = "find"]

NextSeed(x) == LET y == [x EXCEPT !.todo = Tail(@), !.pc = "find"]
               IN  IF y.todo = <<>> THEN Seeded(y) ELSE y

\* ensureFirstPartyTenantPackages: upsert with an empty update.
SeedPackage(o) ==
    LET c == Head(op[o].todo)  rest == Tail(op[o].todo) IN
    /\ op[o].pc = "packages"
    /\ package' = [package EXCEPT ![c] = IF @ = "absent" THEN "installed" ELSE @]
    /\ Set(o, IF rest = <<>> THEN [op[o] EXCEPT !.pc = "find", !.todo = Seeds]
              ELSE [op[o] EXCEPT !.todo = rest])
    /\ UNCHANGED <<workspace, grant, asked>>

\* Mutant (SnapshotsAreComplete): a workspace with a grant is taken for seeded.
FindAnyGrant(o) ==
    /\ op[o].pc = "find"
    /\ Set(o, IF \E c \in Capabilities : Exists(op[o].w, c) THEN Seeded(op[o])
              ELSE [op[o] EXCEPT !.pc = "create"])
    /\ UNCHANGED <<workspace, package, grant, asked>>

\* ensureFirstPartyCapabilityGrants, for one capability: look it up ...
FindGrant(o) ==
    /\ op[o].pc = "find"
    /\ Set(o, IF Exists(op[o].w, Head(op[o].todo)) THEN NextSeed(op[o])
              ELSE [op[o] EXCEPT !.pc = "create"])
    /\ UNCHANGED <<workspace, package, grant, asked>>

\* ... and create it; if somebody else has, the unique index fails the call.
CreateGrant(o) ==
    LET c == Head(op[o].todo) IN
    /\ op[o].pc = "create"
    /\ IF Exists(op[o].w, c) THEN UNCHANGED grant /\ Set(o, Idle)
       ELSE /\ SetGrant(op[o].w, c, Grant(c \in DefaultEnabled, c \in NeedApproval))
            /\ Set(o, NextSeed(op[o]))
    /\ UNCHANGED <<workspace, package, asked>>

-----------------------------------------------------------------------------
(* What the calls do *)

\* upsertCapabilityGrant; an approval flag that is not given stays, or is false.
Upserted(old, e, a) ==
    Grant(e, IF a = "keep" THEN old.exists /\ old.approval ELSE a = "required")

UpsertGrant(o) ==
    LET x == op[o] IN
    /\ x.pc = "upsert"
    /\ SetGrant(x.w, x.c, Upserted(grant[x.w][x.c], x.enabled, x.approval))
    /\ asked' = IF x.approval = "keep" THEN asked ELSE asked \cup {<<x.w, x.c>>}
    /\ Set(o, Idle)
    /\ UNCHANGED <<workspace, package>>

\* installTenantPackage: the package row, then the grant, enabled or not as seeded.
InstallPackage(o) ==
    /\ op[o].pc = "install"
    /\ package' = [package EXCEPT ![op[o].c] = "installed"]
    /\ Set(o, [op[o] EXCEPT !.pc = "enable"])
    /\ UNCHANGED <<workspace, grant, asked>>

InstallGrant(o) ==
    LET x == op[o] IN
    /\ x.pc = "enable"
    /\ SetGrant(x.w, x.c, Upserted(grant[x.w][x.c], x.c \in DefaultEnabled, "keep"))
    /\ Set(o, Idle)
    /\ UNCHANGED <<workspace, package, asked>>

\* listCapabilityGrants, and assertAgentEnabled on what it returned.
SnapshotGrants(o) ==
    LET rows == {c \in Capabilities : Exists(op[o].w, c)} IN
    /\ op[o].pc = "snapshot"
    /\ Set(o, IF op[o].c \in rows /\ grant[op[o].w][op[o].c].enabled
              THEN [op[o] EXCEPT !.pc = "ready", !.grants = rows] ELSE Idle)
    /\ UNCHANGED <<workspace, package, grant, asked>>

\* buildPackagesSnapshot runs beside the seeding and the other snapshot.
SnapshotPackages(o) ==
    /\ op[o].call = "run" /\ ~op[o].packed
    /\ Set(o, IF package[op[o].c] = "installed" THEN [op[o] EXCEPT !.packed = TRUE] ELSE Idle)
    /\ UNCHANGED <<workspace, package, grant, asked>>

\* The task is published with both snapshots.
SendTask(o) ==
    /\ op[o].pc = "ready" /\ op[o].packed
    /\ Set(o, Idle)
    /\ UNCHANGED <<workspace, package, grant, asked>>

\* A call fails or the process dies.
Abandon(o) ==
    /\ op[o].pc # "idle"
    /\ Set(o, Idle)
    /\ UNCHANGED <<workspace, package, grant, asked>>

Call(o) ==
    \E w \in Workspaces :
        \/ Create(o, w) \/ ListPackages(o, w)
        \/ \E c \in Capabilities : Install(o, w, c)
        \/ \E x \in Choices : SetEnabled(o, w, x)
        \/ \E c \in Agents : Dispatch(o, w, c)

Work(o) ==
    \/ SeedPackage(o) \/ FindGrant(o) \/ CreateGrant(o) \/ UpsertGrant(o)
    \/ InstallPackage(o) \/ InstallGrant(o)
    \/ SnapshotGrants(o) \/ SnapshotPackages(o) \/ SendTask(o)

Next ==
    \/ \E o \in Operations : Call(o) \/ Work(o) \/ Abandon(o)
    \/ \E c \in Capabilities : Uninstall(c)

Spec == Init /\ [][Next]_vars

-----------------------------------------------------------------------------
(* Properties *)

TypeOK ==
    /\ workspace \subseteq Workspaces
    /\ package \in [Capabilities -> {"absent", "installed", "uninstalled"}]
    /\ grant \in [Workspaces -> [Capabilities ->
                    [exists : BOOLEAN, enabled : BOOLEAN, approval : BOOLEAN]]]
    /\ \A o \in Operations :
          /\ op[o].pc \in {"idle", "packages", "find", "create", "upsert", "install",
                           "enable", "snapshot", "ready"}
          /\ op[o].pc \in {"packages", "find", "create"} => op[o].todo # <<>>
          /\ op[o].grants \subseteq Capabilities
    /\ asked \subseteq Workspaces \X Capabilities

\* However many calls seed a workspace at once, and wherever earlier ones gave
\* up, a run is dispatched with a decision on every first-party capability
\* (ensureFirstPartyCapabilityGrants before each snapshot).
SnapshotsAreComplete ==
    \A o \in Operations : op[o].pc = "ready" => op[o].grants = Capabilities

\* "New workspaces only": the grant of a capability that needs approval
\* requires it, unless an editor chose otherwise.
NewWorkspacesAskApproval ==
    \A w \in Workspaces, c \in NeedApproval :
        Exists(w, c) /\ <<w, c>> \notin asked => grant[w][c].approval
==========================================================================
