-------------------------- MODULE WorkspaceProofs --------------------------
(***************************************************************************)
(* Proofs about what a workspace works with: its capability grants, the    *)
(* publishing tool, the memory gateway and its connections (Services, with *)
(* CapabilityGrants, Publishing, MemoryIndex and ConnectorVault).  Each has*)
(* an invariant of its own, which holds whatever the other services do.    *)
(***************************************************************************)
EXTENDS OrganisationProofs

-----------------------------------------------------------------------------
(* Capability grants (CapabilityGrants) *)

GrantRow == [exists : BOOLEAN, enabled : BOOLEAN, approval : BOOLEAN]
GrantPoints == {"idle", "packages", "find", "create", "upsert", "install", "enable",
                "snapshot", "ready"}
GrantCall == [pc : GrantPoints, call : {"none", "create", "list", "set", "run", "install"},
              w : Workspaces \cup {"none"}, c : G!Capabilities \cup {"none"},
              todo : Seq(G!Capabilities), enabled : BOOLEAN,
              approval : {"keep", "waived", "required"},
              grants : SUBSET G!Capabilities, packed : BOOLEAN]

GrantsTyped ==
    /\ workspace \subseteq Workspaces
    /\ package \in [G!Capabilities -> {"absent", "installed", "uninstalled"}]
    /\ grant \in [Workspaces -> [G!Capabilities -> GrantRow]]
    /\ grantOp \in [Slots -> GrantCall]
    /\ asked \subseteq Workspaces \X G!Capabilities

\* Every capability has its row in w, or is among those still to be seeded.
Covered(gr, w, todo) ==
    \A c \in G!Capabilities : gr[w][c].exists \/ \E i \in 1..Len(todo) : todo[i] = c

\* A call in hand, with the grants gr.
Orderly(x, gr) ==
    /\ x.pc # "idle" => x.w \in Workspaces
    /\ x.call \in {"set", "run", "install"} => x.c \in G!Capabilities
    /\ x.pc \in {"install", "enable"} => x.call = "install"
    /\ x.pc = "upsert" => x.call = "set"
    /\ x.pc \in {"snapshot", "ready"} => x.call = "run"
    /\ x.call = "run" => x.pc # "idle"
    /\ x.pc \in {"packages", "find", "create"} => x.todo # <<>>
    /\ x.pc \in {"find", "create"} => Covered(gr, x.w, x.todo)
    /\ x.pc = "snapshot" => \A c \in G!Capabilities : gr[x.w][c].exists
    /\ x.pc = "ready" => x.grants = G!Capabilities

GrantsInv == GrantsTyped /\ \A o \in Slots : Orderly(grantOp[o], grant)

\* What the head and the tail of a list hold.
LEMMA HeadOrTail ==
  ASSUME NEW S, NEW s \in Seq(S), s # <<>>
  PROVE  /\ Head(s) \in S /\ Tail(s) \in Seq(S)
         /\ \A i \in 1..Len(s) :
               s[i] = Head(s) \/ \E j \in 1..Len(Tail(s)) : Tail(s)[j] = s[i]
<1>1. Len(s) \in Nat /\ Len(s) > 0 /\ Head(s) = s[1] /\ Tail(s) \in Seq(S)
      /\ Len(Tail(s)) = Len(s) - 1 /\ Head(s) \in S
  OBVIOUS
<1>2. \A j \in 1..(Len(s) - 1) : Tail(s)[j] = s[j + 1]
  OBVIOUS
<1>3. ASSUME NEW i \in 1..Len(s), i # 1
      PROVE  \E j \in 1..Len(Tail(s)) : Tail(s)[j] = s[i]
  <2>1. i - 1 \in 1..(Len(s) - 1) /\ (i - 1) + 1 = i
    BY <1>1, <1>3
  <2>2. Tail(s)[i - 1] = s[i]
    BY <1>2, <2>1
  <2> QED BY <1>1, <2>1, <2>2
<1> QED BY <1>1, <1>3

\* No workspace has a grant to begin with.
LEMMA GrantsStart == G!Init => GrantsInv
<1> SUFFICES ASSUME G!Init PROVE GrantsInv
  OBVIOUS
<1> USE ServicesAssumption DEF G!Init
<1>1. G!Idle \in GrantCall
  BY DEF G!Idle, GrantCall, GrantPoints
<1>2. G!NoGrant \in GrantRow
  BY DEF G!NoGrant, GrantRow
<1>3. GrantsTyped
  BY <1>1, <1>2 DEF GrantsTyped
<1>4. \A o \in Slots : Orderly(grantOp[o], grant)
  BY DEF Orderly, G!Idle
<1> QED BY <1>3, <1>4 DEF GrantsInv

\* Rows are written, never deleted.
GrantsStay ==
    /\ grant' \in [Workspaces -> [G!Capabilities -> GrantRow]]
    /\ \A w \in Workspaces, c \in G!Capabilities : grant[w][c].exists => grant'[w][c].exists

\* Call o goes on as x.
GrantGoes(o, x) ==
    grantOp' = [grantOp EXCEPT ![o] = x] /\ x \in GrantCall /\ Orderly(x, grant')

\* That is all a step has to show.
LEMMA GrantGoesKeeps ==
  ASSUME GrantsInv, NEW o \in Slots, NEW x, GrantGoes(o, x), GrantsStay,
         workspace' \subseteq Workspaces,
         package' \in [G!Capabilities -> {"absent", "installed", "uninstalled"}],
         asked' \subseteq Workspaces \X G!Capabilities
  PROVE  GrantsInv'
<1>1. GrantsTyped'
  BY DEF GrantsInv, GrantsTyped, GrantGoes, GrantsStay
<1>2. ASSUME NEW y \in GrantCall, Orderly(y, grant) PROVE Orderly(y, grant')
  <2>1. y.pc # "idle" => y.w \in Workspaces
    BY <1>2 DEF Orderly
  <2>2. y.pc \in {"find", "create"} => Covered(grant', y.w, y.todo)
    BY <1>2, <2>1 DEF Orderly, Covered, GrantsStay
  <2>3. y.pc = "snapshot" => \A c \in G!Capabilities : grant'[y.w][c].exists
    BY <1>2, <2>1 DEF Orderly, GrantsStay
  <2> QED BY <1>2, <2>2, <2>3 DEF Orderly
<1>3. ASSUME NEW p \in Slots PROVE Orderly(grantOp'[p], grant')
  <2>1. CASE p = o
    BY <2>1 DEF GrantGoes, GrantsInv, GrantsTyped
  <2>2. CASE p # o
    <3>1. grantOp'[p] = grantOp[p] /\ grantOp[p] \in GrantCall /\ Orderly(grantOp[p], grant)
      BY <2>2 DEF GrantGoes, GrantsInv, GrantsTyped
    <3> QED BY <1>2, <3>1
  <2> QED BY <2>1, <2>2
<1> QED BY <1>1, <1>3 DEF GrantsInv

\* A call that is over.
LEMMA IdleOrderly == G!Idle \in GrantCall /\ \A gr : Orderly(G!Idle, gr)
<1>1. G!Idle \in GrantCall
  BY DEF G!Idle, GrantCall, GrantPoints
<1>2. ASSUME NEW gr PROVE Orderly(G!Idle, gr)
  BY DEF Orderly, G!Idle
<1> QED BY <1>1, <1>2

\* What a call in hand holds.
LEMMA CallFacts ==
  ASSUME GrantsInv, NEW o \in Slots
  PROVE  /\ grantOp[o] \in GrantCall /\ Orderly(grantOp[o], grant)
         /\ workspace \subseteq Workspaces
         /\ package \in [G!Capabilities -> {"absent", "installed", "uninstalled"}]
         /\ grant \in [Workspaces -> [G!Capabilities -> GrantRow]]
         /\ asked \subseteq Workspaces \X G!Capabilities
BY DEF GrantsInv, GrantsTyped

\* Before anything is seeded, everything is to be.
LEMMA SeedsCover == \A gr, w : Covered(gr, w, Seeds)
BY DEF Covered, G!Capabilities

\* A call begins.
LEMMA BeginsKeeps ==
  ASSUME GrantsInv, NEW o \in Slots, NEW w \in Workspaces,
         \/ G!Create(o, w) \/ G!ListPackages(o, w)
         \/ \E c \in G!Capabilities : G!Install(o, w, c)
         \/ \E x \in Choices : G!SetEnabled(o, w, x)
         \/ \E c \in Agents : G!Dispatch(o, w, c)
  PROVE  GrantsInv'
<1>1. UNCHANGED <<package, grant, asked>> /\ workspace' \subseteq Workspaces
  BY DEF GrantsInv, GrantsTyped, G!Create, G!ListPackages, G!Install, G!SetEnabled, G!Dispatch
<1>2. PICK x : /\ grantOp' = [grantOp EXCEPT ![o] = x]
               /\ x \in GrantCall /\ x.w = w
               /\ \/ x.pc = "packages" /\ x.call \in {"create", "list"} /\ x.todo = Seeds
                  \/ /\ x.pc = "find" /\ x.call \in {"set", "run"} /\ x.todo = Seeds
                     /\ x.c \in G!Capabilities
                  \/ x.pc = "install" /\ x.call = "install" /\ x.c \in G!Capabilities
  <2>1. CASE G!Create(o, w)
    <3> WITNESS [G!Idle EXCEPT !.pc = "packages", !.call = "create", !.w = w, !.todo = Seeds]
    <3> QED BY <2>1, ServicesAssumption DEF G!Create, G!Set, G!Idle, GrantCall, GrantPoints
  <2>2. CASE G!ListPackages(o, w)
    <3> WITNESS [G!Idle EXCEPT !.pc = "packages", !.call = "list", !.w = w, !.todo = Seeds]
    <3> QED BY <2>2, ServicesAssumption DEF G!ListPackages, G!Set, G!Idle, GrantCall,
                                            GrantPoints
  <2>3. ASSUME NEW c \in G!Capabilities, G!Install(o, w, c)
        PROVE  \E x : /\ grantOp' = [grantOp EXCEPT ![o] = x]
                      /\ x \in GrantCall /\ x.w = w
                      /\ x.pc = "install" /\ x.call = "install" /\ x.c \in G!Capabilities
    <3> WITNESS [G!Idle EXCEPT !.pc = "install", !.call = "install", !.w = w, !.c = c]
    <3> QED BY <2>3, IdleOrderly DEF G!Install, G!Set, GrantCall, GrantPoints
  <2>4. ASSUME NEW y \in Choices, G!SetEnabled(o, w, y)
        PROVE  \E x : /\ grantOp' = [grantOp EXCEPT ![o] = x]
                      /\ x \in GrantCall /\ x.w = w
                      /\ x.pc = "find" /\ x.call = "set" /\ x.todo = Seeds
                      /\ x.c \in G!Capabilities
    <3> WITNESS [G!Idle EXCEPT !.pc = "find", !.call = "set", !.w = w, !.todo = Seeds,
                     !.c = y.c, !.enabled = y.enabled, !.approval = y.approval]
    <3> QED BY <2>4, ServicesAssumption DEF G!SetEnabled, G!Set, G!Idle, GrantCall,
                                            GrantPoints
  <2>5. ASSUME NEW c \in Agents, G!Dispatch(o, w, c)
        PROVE  \E x : /\ grantOp' = [grantOp EXCEPT ![o] = x]
                      /\ x \in GrantCall /\ x.w = w
                      /\ x.pc = "find" /\ x.call = "run" /\ x.todo = Seeds
                      /\ x.c \in G!Capabilities
    <3> WITNESS [G!Idle EXCEPT !.pc = "find", !.call = "run", !.w = w, !.c = c, !.todo = Seeds]
    <3> QED BY <2>5, ServicesAssumption DEF G!Dispatch, G!Set, G!Idle, GrantCall, GrantPoints
  <2> QED BY <2>1, <2>2, <2>3, <2>4, <2>5
<1>3. Orderly(x, grant')
  BY <1>2, SeedsCover, ServicesAssumption DEF Orderly
<1>4. GrantsStay
  BY <1>1, CallFacts DEF GrantsStay
<1>5. GrantGoes(o, x)
  BY <1>2, <1>3 DEF GrantGoes
<1> QED BY <1>1, <1>4, <1>5, CallFacts, GrantGoesKeeps

\* Where a call goes on once a capability has its row: to the next one, or on
\* with what it is for, when all have theirs.
LEMMA NextSeedOrderly ==
  ASSUME NEW x \in GrantCall, NEW gr, x.w \in Workspaces, x.pc \in {"find", "create"},
         Orderly(x, gr), gr[x.w][Head(x.todo)].exists
  PROVE  G!NextSeed(x) \in GrantCall /\ Orderly(G!NextSeed(x), gr)
<1> DEFINE y == [x EXCEPT !.todo = Tail(x.todo), !.pc = "find"]
<1>1. /\ x.todo \in Seq(G!Capabilities) /\ x.todo # <<>> /\ Covered(gr, x.w, x.todo)
      /\ x.call \in {"none", "create", "list", "set", "run", "install"}
      /\ x.call \in {"set", "run", "install"} => x.c \in G!Capabilities
  BY DEF GrantCall, Orderly
<1>2. /\ Tail(x.todo) \in Seq(G!Capabilities)
      /\ Covered(gr, x.w, Tail(x.todo))
  BY <1>1, HeadOrTail DEF Covered
<1>3. /\ y \in GrantCall /\ y.pc = "find" /\ y.w = x.w /\ y.c = x.c /\ y.call = x.call
      /\ y.todo = Tail(x.todo)
  BY <1>2 DEF GrantCall, GrantPoints
<1>4. G!NextSeed(x) = IF y.todo = <<>> THEN G!Seeded(y) ELSE y
  BY DEF G!NextSeed
<1>5. CASE y.todo # <<>>
  <2> HIDE DEF y
  <2>1. Orderly(y, gr)
    BY <1>1, <1>2, <1>3, <1>5 DEF Orderly
  <2> QED BY <1>3, <1>4, <1>5, <2>1
<1>6. CASE y.todo = <<>>
  <2> HIDE DEF y
  <2>1. \A c \in G!Capabilities : gr[y.w][c].exists
    <3>1. Covered(gr, x.w, <<>>)
      BY <1>2, <1>3, <1>6
    <3>2. \A i \in 1..Len(<<>>) : FALSE
      OBVIOUS
    <3>3. \A c \in G!Capabilities : gr[x.w][c].exists
      BY <3>1, <3>2 DEF Covered
    <3> QED BY <3>3, <1>3
  <2>2. CASE y.call = "set"
    <3> DEFINE z == [y EXCEPT !.pc = "upsert"]
    <3>1. /\ z \in GrantCall /\ z.pc = "upsert" /\ z.call = "set" /\ z.w = y.w
          /\ z.c = y.c
      BY <1>3, <2>2 DEF GrantCall, GrantPoints
    <3>2. G!Seeded(y) = z
      BY <2>2 DEF G!Seeded
    <3> HIDE DEF z
    <3>3. Orderly(z, gr)
      BY <1>1, <1>3, <2>2, <3>1 DEF Orderly
    <3> QED BY <1>4, <1>6, <3>1, <3>2, <3>3
  <2>3. CASE y.call = "run"
    <3> DEFINE z == [y EXCEPT !.pc = "snapshot"]
    <3>1. /\ z \in GrantCall /\ z.pc = "snapshot" /\ z.call = "run" /\ z.w = y.w
          /\ z.c = y.c
      BY <1>3, <2>3 DEF GrantCall, GrantPoints
    <3>2. G!Seeded(y) = z
      BY <2>3 DEF G!Seeded
    <3> HIDE DEF z
    <3>3. Orderly(z, gr)
      BY <1>1, <1>3, <2>1, <2>3, <3>1 DEF Orderly
    <3> QED BY <1>4, <1>6, <3>1, <3>2, <3>3
  <2>4. CASE y.call \notin {"set", "run"}
    <3>1. G!Seeded(y) = G!Idle
      BY <2>4 DEF G!Seeded
    <3> QED BY <1>4, <1>6, <3>1, IdleOrderly
  <2> QED BY <2>2, <2>3, <2>4
<1> QED BY <1>5, <1>6

\* One package row more is there.
LEMMA SeedPackageKeeps ==
  ASSUME GrantsInv, NEW o \in Slots, G!SeedPackage(o) PROVE GrantsInv'
<1> DEFINE y == grantOp[o]
           rest == Tail(y.todo)
           x == IF rest = <<>> THEN [y EXCEPT !.pc = "find", !.todo = Seeds]
                ELSE [y EXCEPT !.todo = rest]
<1>1. /\ y.pc = "packages" /\ y \in GrantCall /\ Orderly(y, grant)
      /\ y.todo \in Seq(G!Capabilities) /\ y.todo # <<>>
      /\ grantOp' = [grantOp EXCEPT ![o] = x]
      /\ UNCHANGED <<workspace, grant, asked>>
  BY CallFacts DEF G!SeedPackage, G!Set, Orderly, GrantCall
<1>2. Head(y.todo) \in G!Capabilities /\ rest \in Seq(G!Capabilities)
  BY <1>1, HeadOrTail
<1>3. package' \in [G!Capabilities -> {"absent", "installed", "uninstalled"}]
  BY <1>2, CallFacts DEF G!SeedPackage
<1>4. /\ x \in GrantCall /\ x.w = y.w /\ x.c = y.c /\ x.call = y.call
      /\ \/ x.pc = "find" /\ x.todo = Seeds
         \/ x.pc = "packages" /\ x.todo # <<>>
  <2> HIDE DEF rest
  <2> QED BY <1>1, <1>2, ServicesAssumption DEF GrantCall, GrantPoints
<1> HIDE DEF x
<1>5. Orderly(x, grant)
  BY <1>1, <1>4, SeedsCover, ServicesAssumption DEF Orderly
<1>6. GrantsStay /\ GrantGoes(o, x)
  BY <1>1, <1>4, <1>5, CallFacts DEF GrantsStay, GrantGoes
<1> QED BY <1>1, <1>3, <1>6, CallFacts, GrantGoesKeeps

\* A seeding call looks whether the capability has its row.
LEMMA FindGrantKeeps ==
  ASSUME GrantsInv, NEW o \in Slots, G!FindGrant(o) PROVE GrantsInv'
<1> DEFINE y == grantOp[o]
           z == [y EXCEPT !.pc = "create"]
           x == IF grant[y.w][Head(y.todo)].exists THEN G!NextSeed(y) ELSE z
<1>1. /\ y.pc = "find" /\ y \in GrantCall /\ Orderly(y, grant) /\ y.w \in Workspaces
      /\ grantOp' = [grantOp EXCEPT ![o] = x]
      /\ UNCHANGED <<workspace, package, grant, asked>>
  BY CallFacts DEF G!FindGrant, G!Set, G!Exists, Orderly
<1>2. z \in GrantCall /\ Orderly(z, grant)
  <2>1. /\ z \in GrantCall /\ z.pc = "create" /\ z.w = y.w /\ z.c = y.c
        /\ z.call = y.call /\ z.todo = y.todo
    BY <1>1 DEF GrantCall, GrantPoints
  <2> HIDE DEF y, z
  <2> QED BY <1>1, <2>1 DEF Orderly
<1>3. grant[y.w][Head(y.todo)].exists =>
         G!NextSeed(y) \in GrantCall /\ Orderly(G!NextSeed(y), grant)
  BY <1>1, NextSeedOrderly
<1>4. x \in GrantCall /\ Orderly(x, grant)
  BY <1>2, <1>3
<1> HIDE DEF x
<1>5. GrantsStay /\ GrantGoes(o, x)
  BY <1>1, <1>4, CallFacts DEF GrantsStay, GrantGoes
<1> QED BY <1>1, <1>5, CallFacts, GrantGoesKeeps

\* A row is written: the others stay, and so does what it was written over.
LEMMA SetGrantStays ==
  ASSUME GrantsInv, NEW w \in Workspaces, NEW c \in G!Capabilities, NEW g \in GrantRow,
         g.exists, G!SetGrant(w, c, g)
  PROVE  GrantsStay /\ grant'[w][c] = g
BY CallFacts DEF GrantsInv, GrantsTyped, G!SetGrant, GrantsStay

\* It creates the row; if somebody else has, the call fails.
LEMMA CreateGrantKeeps ==
  ASSUME GrantsInv, NEW o \in Slots, G!CreateGrant(o) PROVE GrantsInv'
<1> DEFINE y == grantOp[o]
           c == Head(y.todo)
<1>1. /\ y.pc = "create" /\ y \in GrantCall /\ Orderly(y, grant) /\ y.w \in Workspaces
      /\ y.todo \in Seq(G!Capabilities) /\ y.todo # <<>>
      /\ UNCHANGED <<workspace, package, asked>>
  BY CallFacts DEF G!CreateGrant, Orderly, GrantCall
<1>2. c \in G!Capabilities
  BY <1>1, HeadOrTail
<1>3. CASE G!Exists(y.w, c)
  <2>1. grant' = grant /\ grantOp' = [grantOp EXCEPT ![o] = G!Idle]
    BY <1>3 DEF G!CreateGrant, G!Set
  <2>2. GrantsStay /\ GrantGoes(o, G!Idle)
    BY <2>1, IdleOrderly, CallFacts DEF GrantsStay, GrantGoes
  <2> QED BY <1>1, <2>2, CallFacts, GrantGoesKeeps
<1>4. CASE ~G!Exists(y.w, c)
  <2> DEFINE g == G!Grant(c \in DefaultEnabled, c \in NeedApproval)
  <2>1. G!SetGrant(y.w, c, g) /\ grantOp' = [grantOp EXCEPT ![o] = G!NextSeed(y)]
    BY <1>4 DEF G!CreateGrant, G!Set
  <2>2. g \in GrantRow /\ g.exists
    BY DEF G!Grant, GrantRow
  <2> HIDE DEF g
  <2>3. GrantsStay /\ grant'[y.w][c] = g
    BY <1>1, <1>2, <2>1, <2>2, SetGrantStays
  <2>4. Orderly(y, grant')
    BY <1>1, <2>3 DEF Orderly, Covered, GrantsStay
  <2>5. G!NextSeed(y) \in GrantCall /\ Orderly(G!NextSeed(y), grant')
    BY <1>1, <2>2, <2>3, <2>4, NextSeedOrderly
  <2>6. GrantGoes(o, G!NextSeed(y))
    BY <2>1, <2>5 DEF GrantGoes
  <2> QED BY <1>1, <2>3, <2>6, CallFacts, GrantGoesKeeps
<1> QED BY <1>3, <1>4

\* What is upserted is a row.
LEMMA UpsertedRow ==
  ASSUME NEW old \in GrantRow, NEW e \in BOOLEAN, NEW a
  PROVE  G!Upserted(old, e, a) \in GrantRow /\ G!Upserted(old, e, a).exists
BY DEF G!Upserted, G!Grant, GrantRow

\* An editor's choice, or an installation, is written and the call is over.
LEMMA UpsertKeeps ==
  ASSUME GrantsInv, NEW o \in Slots, G!UpsertGrant(o) \/ G!InstallGrant(o)
  PROVE  GrantsInv'
<1> DEFINE y == grantOp[o]
<1>1. /\ y \in GrantCall /\ y.w \in Workspaces /\ y.c \in G!Capabilities
      /\ y.enabled \in BOOLEAN /\ y.approval \in {"keep", "waived", "required"}
      /\ UNCHANGED <<workspace, package>>
      /\ grantOp' = [grantOp EXCEPT ![o] = G!Idle]
  BY CallFacts DEF G!UpsertGrant, G!InstallGrant, G!Set, Orderly, GrantCall
<1>2. PICK e \in BOOLEAN, a \in {"keep", "waived", "required"} :
         G!SetGrant(y.w, y.c, G!Upserted(grant[y.w][y.c], e, a))
  <2>1. CASE G!UpsertGrant(o)
    BY <1>1, <2>1 DEF G!UpsertGrant
  <2>2. CASE G!InstallGrant(o)
    <3>1. (y.c \in DefaultEnabled) \in BOOLEAN
      OBVIOUS
    <3>2. G!SetGrant(y.w, y.c, G!Upserted(grant[y.w][y.c], y.c \in DefaultEnabled, "keep"))
      BY <2>2 DEF G!InstallGrant
    <3> QED BY <3>1, <3>2
  <2> QED BY <2>1, <2>2
<1>3. grant[y.w][y.c] \in GrantRow
  BY <1>1, CallFacts
<1>4. GrantsStay
  BY <1>1, <1>2, <1>3, UpsertedRow, SetGrantStays
<1>5. asked' \subseteq Workspaces \X G!Capabilities
  BY <1>1, CallFacts DEF G!UpsertGrant, G!InstallGrant
<1>6. GrantGoes(o, G!Idle)
  BY <1>1, IdleOrderly DEF GrantGoes
<1> QED BY <1>1, <1>4, <1>5, <1>6, CallFacts, GrantGoesKeeps

\* The package row is written; the grant is next.
LEMMA InstallPackageKeeps ==
  ASSUME GrantsInv, NEW o \in Slots, G!InstallPackage(o) PROVE GrantsInv'
<1> DEFINE y == grantOp[o]
           x == [y EXCEPT !.pc = "enable"]
<1>1. /\ y.pc = "install" /\ y \in GrantCall /\ Orderly(y, grant)
      /\ grantOp' = [grantOp EXCEPT ![o] = x]
      /\ UNCHANGED <<workspace, grant, asked>>
      /\ package' = [package EXCEPT ![y.c] = "installed"]
  BY CallFacts DEF G!InstallPackage, G!Set
<1>2. package' \in [G!Capabilities -> {"absent", "installed", "uninstalled"}]
  BY <1>1, CallFacts
<1>3. x \in GrantCall /\ x.pc = "enable" /\ x.w = y.w /\ x.c = y.c /\ x.call = y.call
  BY <1>1 DEF GrantCall, GrantPoints
<1> HIDE DEF x, y
<1>4. Orderly(x, grant)
  BY <1>1, <1>3 DEF Orderly
<1>5. GrantsStay /\ GrantGoes(o, x)
  BY <1>1, <1>3, <1>4, CallFacts DEF GrantsStay, GrantGoes
<1> QED BY <1>1, <1>2, <1>5, CallFacts, GrantGoesKeeps

\* The grants are read: all are there.
LEMMA SnapshotGrantsKeeps ==
  ASSUME GrantsInv, NEW o \in Slots, G!SnapshotGrants(o) PROVE GrantsInv'
<1> DEFINE y == grantOp[o]
           rows == {c \in G!Capabilities : grant[y.w][c].exists}
           x == [y EXCEPT !.pc = "ready", !.grants = rows]
<1>1. /\ y.pc = "snapshot" /\ y \in GrantCall /\ Orderly(y, grant)
      /\ grantOp' = [grantOp EXCEPT ![o] = x] \/ grantOp' = [grantOp EXCEPT ![o] = G!Idle]
      /\ UNCHANGED <<workspace, package, grant, asked>>
  BY CallFacts DEF G!SnapshotGrants, G!Set, G!Exists
<1>2. rows = G!Capabilities
  BY <1>1 DEF Orderly
<1> HIDE DEF rows
<1>3. /\ x \in GrantCall /\ x.pc = "ready" /\ x.w = y.w /\ x.c = y.c /\ x.call = y.call
      /\ x.grants = rows
  BY <1>1, <1>2 DEF GrantCall, GrantPoints
<1> HIDE DEF x, y
<1>4. Orderly(x, grant)
  BY <1>1, <1>2, <1>3 DEF Orderly
<1>5. GrantsStay /\ (GrantGoes(o, x) \/ GrantGoes(o, G!Idle))
  BY <1>1, <1>3, <1>4, IdleOrderly, CallFacts DEF GrantsStay, GrantGoes
<1> QED BY <1>1, <1>5, CallFacts, GrantGoesKeeps

\* The packages are read beside.
LEMMA SnapshotPackagesKeeps ==
  ASSUME GrantsInv, NEW o \in Slots, G!SnapshotPackages(o) PROVE GrantsInv'
<1> DEFINE y == grantOp[o]
           x == [y EXCEPT !.packed = TRUE]
<1>1. /\ y \in GrantCall /\ Orderly(y, grant)
      /\ grantOp' = [grantOp EXCEPT ![o] = x] \/ grantOp' = [grantOp EXCEPT ![o] = G!Idle]
      /\ UNCHANGED <<workspace, package, grant, asked>>
  BY CallFacts DEF G!SnapshotPackages, G!Set
<1>2. /\ x \in GrantCall /\ x.pc = y.pc /\ x.w = y.w /\ x.c = y.c /\ x.call = y.call
      /\ x.grants = y.grants /\ x.todo = y.todo
  BY <1>1 DEF GrantCall, GrantPoints
<1> HIDE DEF x, y
<1>3. Orderly(x, grant)
  BY <1>1, <1>2 DEF Orderly
<1>4. GrantsStay /\ (GrantGoes(o, x) \/ GrantGoes(o, G!Idle))
  BY <1>1, <1>2, <1>3, IdleOrderly, CallFacts DEF GrantsStay, GrantGoes
<1> QED BY <1>1, <1>4, CallFacts, GrantGoesKeeps

\* The task is sent, or the call fails: it is over.
LEMMA GrantCallEndsKeeps ==
  ASSUME GrantsInv, NEW o \in Slots, G!SendTask(o) \/ G!Abandon(o) PROVE GrantsInv'
<1>1. UNCHANGED <<workspace, package, grant, asked>> /\ GrantGoes(o, G!Idle)
  BY IdleOrderly DEF G!SendTask, G!Abandon, G!Set, GrantGoes
<1>2. GrantsStay
  BY <1>1, CallFacts DEF GrantsStay
<1> QED BY <1>1, <1>2, CallFacts, GrantGoesKeeps

\* Each step of the grants keeps the invariant.
LEMMA GrantsStep == GrantsInv /\ G!Next => GrantsInv'
<1> SUFFICES ASSUME GrantsInv, G!Next PROVE GrantsInv'
  OBVIOUS
<1>1. ASSUME NEW o \in Slots, G!Call(o) PROVE GrantsInv'
  <2>1. PICK w \in Workspaces :
           \/ G!Create(o, w) \/ G!ListPackages(o, w)
           \/ \E c \in G!Capabilities : G!Install(o, w, c)
           \/ \E x \in Choices : G!SetEnabled(o, w, x)
           \/ \E c \in Agents : G!Dispatch(o, w, c)
    BY <1>1 DEF G!Call
  <2> QED BY <2>1, BeginsKeeps
<1>2. ASSUME NEW o \in Slots, G!Work(o) PROVE GrantsInv'
  BY <1>2, SeedPackageKeeps, FindGrantKeeps, CreateGrantKeeps, UpsertKeeps,
     InstallPackageKeeps, SnapshotGrantsKeeps, SnapshotPackagesKeeps, GrantCallEndsKeeps
     DEF G!Work
<1>3. ASSUME NEW o \in Slots, G!Abandon(o) PROVE GrantsInv'
  BY <1>3, GrantCallEndsKeeps
<1>4. ASSUME NEW c \in G!Capabilities, G!Uninstall(c) PROVE GrantsInv'
  BY <1>4 DEF G!Uninstall, GrantsInv, GrantsTyped, Orderly, Covered
<1> QED BY <1>1, <1>2, <1>3, <1>4 DEF G!Next

\* And so does a step of another service.
LEMMA GrantsRest == GrantsInv /\ UNCHANGED grantVars => GrantsInv'
BY DEF GrantsInv, GrantsTyped, grantVars, Orderly, Covered

\* What it says.
LEMMA GrantsHold == GrantsInv => G!TypeOK /\ G!SnapshotsAreComplete
<1> SUFFICES ASSUME GrantsInv PROVE G!TypeOK /\ G!SnapshotsAreComplete
  OBVIOUS
<1>1. ASSUME NEW o \in Slots
      PROVE  /\ grantOp[o].pc \in GrantPoints
             /\ grantOp[o].pc \in {"packages", "find", "create"} => grantOp[o].todo # <<>>
             /\ grantOp[o].grants \subseteq G!Capabilities
             /\ grantOp[o].pc = "ready" => grantOp[o].grants = G!Capabilities
  <2> DEFINE y == grantOp[o]
  <2>1. y \in GrantCall /\ Orderly(y, grant)
    BY CallFacts
  <2> HIDE DEF y
  <2>2. /\ y.pc \in GrantPoints
        /\ y.pc \in {"packages", "find", "create"} => y.todo # <<>>
        /\ y.grants \subseteq G!Capabilities
        /\ y.pc = "ready" => y.grants = G!Capabilities
    BY <2>1 DEF GrantCall, Orderly
  <2> QED BY <2>2 DEF y
<1>2. G!TypeOK
  BY <1>1 DEF G!TypeOK, GrantsInv, GrantsTyped, GrantRow, GrantPoints
<1>3. G!SnapshotsAreComplete
  BY <1>1 DEF G!SnapshotsAreComplete
<1> QED BY <1>2, <1>3

-----------------------------------------------------------------------------
(* The publishing tool (Publishing) *)

PostPoints == {"idle", "context", "send", "author", "media", "status", "publish", "over"}
Executions == [pc : PostPoints, platform : Platforms \cup {"none"},
               token : Pages \cup {"user", "none"}, page : Pages \cup {"none"},
               told : {"none", "published", "failed", "timeout"}]

PostsTyped ==
    /\ DOMAIN bundle = P!Connectors /\ \A p \in P!Connectors : bundle[p] \in P!Bundles(p)
    /\ execution \in Executions

\* The token is that of the page, the user's where there is none.
Matched(token, page) == token = IF page = "none" THEN "user" ELSE page

\* Token and page of the execution x, with the post it has made.
Honest(x, post) ==
    /\ x.pc = "context" => x.platform \in P!Meta /\ x.page = "none"
    /\ x.pc = "send" =>
          \/ Matched(x.token, x.page)
          \/ x.page = "none" /\ x.platform \in P!Meta
    /\ x.pc \in {"author", "media", "status", "publish"} => Matched(x.token, x.page)
    /\ x.told = "published" => post # P!NoPost
    /\ post # P!NoPost => Matched(post.by, post.on)

PostsInv == PostsTyped /\ Honest(execution, posted)

\* Nothing is posted to begin with.
LEMMA PostsStart == P!Init => PostsInv
<1> SUFFICES ASSUME P!Init PROVE PostsInv
  OBVIOUS
<1> DEFINE off == [connected |-> FALSE, page |-> "none"]
<1>1. PostsTyped
  <2>1. bundle \in [P!Connectors -> {off}]
    BY DEF P!Init, P!None
  <2>2. \A p \in P!Connectors : off \in P!Bundles(p)
    BY DEF P!Bundles, P!None
  <2> HIDE DEF off
  <2>3. DOMAIN bundle = P!Connectors /\ \A p \in P!Connectors : bundle[p] \in P!Bundles(p)
    BY <2>1, <2>2
  <2>4. execution \in Executions
    BY DEF P!Init, P!Idle, P!None, Executions, PostPoints
  <2> QED BY <2>3, <2>4 DEF PostsTyped
<1>2. Honest(execution, posted)
  BY DEF P!Init, Honest, P!Idle, P!None
<1> QED BY <1>1, <1>2 DEF PostsInv

\* A bundle that is connected has a token to its page.
LEMMA TokensMatch ==
  ASSUME PostsInv, NEW p \in P!Connectors
  PROVE  /\ bundle[p].page \in Pages \cup {"none"}
         /\ p \notin P!Meta => bundle[p].page = "none"
         /\ Matched(P!TokenOf(bundle[p]), bundle[p].page)
         /\ P!TokenOf(bundle[p]) \in Pages \cup {"user"}
BY DEF PostsInv, PostsTyped, P!Bundles, Matched, P!TokenOf, P!None

\* Connections change; an execution has what it has read.
LEMMA RewriteKeeps == ASSUME PostsInv, NEW p \in P!Connectors, P!Rewrite(p) PROVE PostsInv'
BY DEF P!Rewrite, PostsInv, PostsTyped, Honest

\* The first reading of the vault.
LEMMA ResolveKeeps ==
  ASSUME PostsInv, NEW platform \in Platforms, P!Resolve(platform) PROVE PostsInv'
<1> DEFINE b == bundle[P!ProviderFor(platform)]
           start == [P!Idle EXCEPT !.platform = platform]
           x == IF b.connected
                THEN [start EXCEPT !.pc = IF platform \in P!Meta THEN "context" ELSE "send",
                                   !.token = P!TokenOf(b)]
                ELSE [start EXCEPT !.pc = "over", !.told = "failed"]
<1>1. execution' = x /\ posted' = P!NoPost /\ UNCHANGED bundle
  BY DEF P!Resolve
<1>2. P!ProviderFor(platform) \in P!Connectors
  BY DEF P!ProviderFor, P!Connectors, P!Meta
<1>3. platform \notin P!Meta => P!ProviderFor(platform) \notin P!Meta
  BY DEF P!ProviderFor, P!Meta
<1>4. P!TokenOf(b) \in Pages \cup {"user"} /\ Matched(P!TokenOf(b), b.page)
      /\ (platform \notin P!Meta => b.page = "none")
  BY <1>2, <1>3, TokensMatch
<1> HIDE DEF b
<1>5. x \in Executions
  BY <1>4 DEF P!Idle, P!None, Executions, PostPoints
<1>6. Honest(x, P!NoPost)
  <2>1. /\ x.pc \in {"context", "send", "over"} /\ x.page = "none"
        /\ x.told \in {"none", "failed"} /\ (x.pc # "over" => x.platform = platform)
        /\ x.pc = "context" => platform \in P!Meta
        /\ x.pc = "send" => platform \notin P!Meta /\ x.token = P!TokenOf(b)
    BY DEF P!Idle, P!None
  <2>2. x.pc = "send" => Matched(x.token, x.page)
    <3>1. ASSUME x.pc = "send" PROVE Matched(x.token, x.page)
      <4>1. platform \notin P!Meta /\ x.token = P!TokenOf(b) /\ x.page = b.page
        BY <1>4, <2>1, <3>1
      <4> QED BY <1>4, <4>1
    <3> QED BY <3>1
  <2>3. x.pc = "context" => x.platform \in P!Meta /\ x.page = "none"
    BY <2>1
  <2> HIDE DEF x
  <2>4. x.pc \notin {"author", "media", "status", "publish"} /\ x.told # "published"
    BY <2>1
  <2> QED BY <2>2, <2>3, <2>4 DEF Honest
<1>7. PostsTyped'
  BY <1>1, <1>5 DEF PostsInv, PostsTyped
<1> QED BY <1>1, <1>6, <1>7 DEF PostsInv

\* The second, which may find the connection gone.
LEMMA ContextKeeps == ASSUME PostsInv, P!Context PROVE PostsInv'
<1> DEFINE y == execution
           b == bundle[y.platform]
           u == [y EXCEPT !.pc = "send", !.token = P!TokenOf(b), !.page = b.page]
           v == [y EXCEPT !.pc = "send"]
<1>1. /\ y \in Executions /\ Honest(y, posted) /\ y.pc = "context"
      /\ execution' \in {u, v} /\ UNCHANGED <<bundle, posted>>
  BY DEF P!Context, P!Go, PostsInv, PostsTyped
<1>2. y.platform \in P!Meta /\ y.platform \in P!Connectors /\ y.page = "none"
  BY <1>1 DEF Honest, P!Meta, P!Connectors
<1>3. P!TokenOf(b) \in Pages \cup {"user"} /\ Matched(P!TokenOf(b), b.page)
      /\ b.page \in Pages \cup {"none"}
  BY <1>2, TokensMatch
<1> HIDE DEF b
<1>4. /\ u \in Executions /\ u.pc = "send" /\ u.token = P!TokenOf(b) /\ u.page = b.page
      /\ u.told = y.told
  BY <1>1, <1>3 DEF Executions, PostPoints
<1>5. /\ v \in Executions /\ v.pc = "send" /\ v.page = "none" /\ v.platform \in P!Meta
      /\ v.told = y.told
  BY <1>1, <1>2 DEF Executions, PostPoints
<1> HIDE DEF u, v
<1> HIDE DEF y
<1>6. Honest(u, posted) /\ Honest(v, posted)
  <2>1. /\ y.told = "published" => posted # P!NoPost
        /\ posted # P!NoPost => Matched(posted.by, posted.on)
    BY <1>1 DEF Honest
  <2>2. Matched(u.token, u.page)
    BY <1>3, <1>4
  <2>3. Honest(u, posted)
    <3>1. u.pc = "send" /\ (u.told = "published" => posted # P!NoPost)
      BY <1>4, <2>1
    <3> QED BY <2>1, <2>2, <3>1 DEF Honest
  <2>4. Honest(v, posted)
    BY <1>5, <2>1 DEF Honest
  <2> QED BY <2>3, <2>4
<1>7. execution' \in Executions /\ Honest(execution', posted)
  BY <1>1, <1>4, <1>5, <1>6
<1>8. PostsTyped'
  BY <1>1, <1>7 DEF PostsInv, PostsTyped
<1> QED BY <1>1, <1>7, <1>8 DEF PostsInv

\* A platform whose page is missing is refused; so what is sent on has the
\* token of its page.
LEMMA SendKeeps == ASSUME PostsInv, NEW image \in BOOLEAN, P!Send(image) PROVE PostsInv'
<1> DEFINE y == execution
           over == [y EXCEPT !.pc = "over", !.told = IF @ = P!None THEN "failed" ELSE @]
<1>1. y \in Executions /\ Honest(y, posted) /\ y.pc = "send" /\ UNCHANGED <<bundle, posted>>
  BY DEF P!Send, PostsInv, PostsTyped
<1>2. \/ execution' = over
      \/ ~P!Refused /\ \E pc \in {"author", "publish", "media"} :
                          execution' = [y EXCEPT !.pc = pc]
  <2>1. CASE P!Refused
    BY <2>1 DEF P!Send, P!Finish
  <2>2. CASE ~P!Refused /\ y.platform = "linkedin"
    BY <2>2 DEF P!Send, P!Go
  <2>3. CASE ~P!Refused /\ y.platform # "linkedin" /\ y.platform = "facebook"
    BY <2>3 DEF P!Send, P!Go
  <2>4. CASE ~P!Refused /\ y.platform \notin {"linkedin", "facebook"}
    BY <2>4 DEF P!Send, P!Go, P!Finish
  <2> QED BY <2>1, <2>2, <2>3, <2>4
<1>3. CASE execution' = over
  <2>1. /\ over \in Executions /\ over.pc = "over"
        /\ over.told = "published" => y.told = "published"
    BY <1>1 DEF Executions, PostPoints, P!None
  <2> HIDE DEF over, y
  <2>2. Honest(over, posted)
    BY <1>1, <2>1 DEF Honest
  <2> QED BY <1>1, <1>3, <2>1, <2>2 DEF PostsInv, PostsTyped
<1>4. ASSUME ~P!Refused, NEW pc \in {"author", "publish", "media"},
             execution' = [y EXCEPT !.pc = pc]
      PROVE  PostsInv'
  <2>1. Matched(y.token, y.page)
    BY <1>1, <1>4, ServicesAssumption DEF P!Refused, Honest, P!Meta, P!None
  <2> DEFINE x == [y EXCEPT !.pc = pc]
  <2>2. /\ x \in Executions /\ x.pc = pc /\ x.token = y.token /\ x.page = y.page
        /\ x.told = y.told
    BY <1>1 DEF Executions, PostPoints
  <2>3. execution' = x
    BY <1>4
  <2> HIDE DEF x, y
  <2>4. Honest(x, posted)
    BY <1>1, <2>1, <2>2 DEF Honest
  <2> QED BY <1>1, <2>2, <2>3, <2>4 DEF PostsInv, PostsTyped
<1> QED BY <1>2, <1>3, <1>4

\* What the tool does next, or the end of the caller's patience.
LEMMA PostGoesOnKeeps ==
  ASSUME PostsInv, P!Author \/ P!Media \/ P!Status \/ P!TimeIsUp PROVE PostsInv'
<1> DEFINE y == execution
<1>1. y \in Executions /\ Honest(y, posted) /\ UNCHANGED <<bundle, posted>>
  BY DEF P!Author, P!Media, P!Status, P!TimeIsUp, PostsInv, PostsTyped
<1>2. PICK x : /\ execution' = x /\ x \in Executions
               /\ x.token = y.token /\ x.page = y.page /\ x.platform = y.platform
               /\ x.told = "published" => y.told = "published"
               /\ \/ x.pc = y.pc
                  \/ x.pc = "over"
                  \/ /\ x.pc \in {"status", "publish"}
                     /\ y.pc \in {"author", "media", "status"}
  <2>1. PICK pc \in PostPoints, told \in {"failed", "timeout"} :
           /\ execution' = [y EXCEPT !.pc = pc, !.told = IF @ = P!None THEN told ELSE @]
              \/ execution' = [y EXCEPT !.pc = pc]
           /\ \/ pc = y.pc \/ pc = "over"
              \/ pc \in {"status", "publish"} /\ y.pc \in {"author", "media", "status"}
    <3>1. CASE P!TimeIsUp
      <4>1. execution' = [y EXCEPT !.pc = y.pc, !.told = IF @ = P!None THEN "timeout" ELSE @]
        BY <1>1, <3>1 DEF P!TimeIsUp, Executions
      <4>2. y.pc \in PostPoints
        BY <1>1 DEF Executions
      <4> QED BY <4>1, <4>2
    <3>2. CASE P!Author \/ P!Media \/ P!Status
      BY <3>2 DEF P!Author, P!Media, P!Status, P!Go, P!Finish, PostPoints
    <3> QED BY <3>1, <3>2
  <2> DEFINE u == [y EXCEPT !.pc = pc, !.told = IF @ = P!None THEN told ELSE @]
             v == [y EXCEPT !.pc = pc]
  <2>2. /\ u \in Executions /\ u.pc = pc /\ u.token = y.token /\ u.page = y.page
        /\ u.platform = y.platform /\ (u.told = "published" => y.told = "published")
    BY <1>1 DEF Executions, P!None
  <2>3. /\ v \in Executions /\ v.pc = pc /\ v.token = y.token /\ v.page = y.page
        /\ v.platform = y.platform /\ v.told = y.told
    BY <1>1 DEF Executions
  <2>4. execution' = u \/ execution' = v
    BY <2>1
  <2> HIDE DEF u, v
  <2> QED BY <2>1, <2>2, <2>3, <2>4
<1> HIDE DEF y
<1>3. Honest(x, posted)
  BY <1>1, <1>2 DEF Honest
<1> QED BY <1>1, <1>2, <1>3 DEF PostsInv, PostsTyped

\* The post is made, and its answer may be lost.
LEMMA PublishKeeps == ASSUME PostsInv, P!Publish PROVE PostsInv'
<1> DEFINE y == execution
           x(out) == [y EXCEPT !.pc = "over", !.told = IF @ = P!None THEN out ELSE @]
           post == [by |-> y.token, on |-> y.page]
<1>1. /\ y \in Executions /\ Honest(y, posted) /\ y.pc = "publish" /\ UNCHANGED bundle
      /\ \/ posted' = post /\ execution' \in {x("published"), x("failed")}
         \/ posted' = posted /\ execution' = x("failed")
  BY DEF P!Publish, P!Accept, P!Finish, PostsInv, PostsTyped
<1>2. \A out \in {"published", "failed"} :
         /\ x(out) \in Executions /\ x(out).pc = "over"
         /\ out = "failed" /\ x(out).told = "published" => y.told = "published"
  BY <1>1 DEF Executions, PostPoints, P!None
<1>3. Matched(y.token, y.page)
  BY <1>1 DEF Honest
<1>4. y.token # "none"
  BY <1>3 DEF Matched
<1>5. post # P!NoPost /\ Matched(post.by, post.on)
  BY <1>3, <1>4 DEF P!NoPost, P!None
<1> HIDE DEF x, y, post
<1>6. execution' \in Executions /\ execution'.pc = "over"
  BY <1>1, <1>2
<1>9. Honest(execution', posted')
  <2>1. CASE posted' = post
    BY <1>5, <1>6, <2>1 DEF Honest
  <2>2. CASE posted' = posted /\ execution' = x("failed")
    BY <1>1, <1>2, <1>6, <2>2 DEF Honest
  <2> QED BY <1>1, <2>1, <2>2
<1> QED BY <1>1, <1>6, <1>9 DEF PostsInv, PostsTyped

\* Each step of the tool keeps the invariant.
LEMMA PostsStep == PostsInv /\ P!Next => PostsInv'
BY RewriteKeeps, ResolveKeeps, ContextKeeps, SendKeeps, PostGoesOnKeeps, PublishKeeps
   DEF P!Next

\* And so does a step of another service.
LEMMA PostsRest == PostsInv /\ UNCHANGED postVars => PostsInv'
BY DEF PostsInv, PostsTyped, Honest, postVars

\* What it says.
LEMMA PostsHold == PostsInv => P!TypeOK /\ P!PostsAreTheirPages
BY DEF PostsInv, PostsTyped, Honest, Matched, Executions, PostPoints, P!TypeOK,
       P!PostsAreTheirPages, P!None

-----------------------------------------------------------------------------
(* The memory gateway and its index (MemoryIndex) *)

MemoryValues ==
    {"none"} \cup {u.context.run : u \in Uses} \cup {u.context.conversation : u \in Uses}
        \cup {u.context.user : u \in Uses}
MemoryRow == [state : {"absent", "live", "forgotten"},
              scope : {"none"} \cup {u.scope : u \in Uses}, run : MemoryValues,
              conversation : MemoryValues, user : MemoryValues, pinned : BOOLEAN]
MemoryPoints == {"idle", "index", "unindex", "pin", "search", "query", "fetch", "returned"}
MemoryCall == [pc : MemoryPoints, m : Memories \cup {"none"}, use : Uses \cup {"none"},
               hits : SUBSET Memories, out : SUBSET Memories, forgotten : SUBSET Memories]

MemoryTyped ==
    /\ semantic \in BOOLEAN
    /\ record \in [Memories -> MemoryRow]
    /\ vector \subseteq Memories /\ raced \subseteq vector /\ failed \subseteq Memories
    /\ memoryOp \in [Slots -> MemoryCall]

\* A call in hand, with the rows rec: what it deletes from the index is
\* forgotten, as is what was so before it began, which it does not return.
Mindful(x, rec) ==
    /\ x.pc \in {"index", "unindex", "pin"} => x.m \in Memories
    /\ x.pc = "unindex" => rec[x.m].state = "forgotten"
    /\ \A m \in x.forgotten : rec[m].state = "forgotten"
    /\ x.out \cap x.forgotten = {}

MemoryInv ==
    /\ MemoryTyped
    /\ \A o \in Slots : Mindful(memoryOp[o], record)
    /\ M!StoresAgree

\* A call that is over.
LEMMA MemoryIdle == M!Idle \in MemoryCall /\ \A rec : Mindful(M!Idle, rec)
<1>1. M!Idle \in MemoryCall
  BY DEF M!Idle, M!None, MemoryCall, MemoryPoints
<1>2. /\ M!Idle.pc = "idle" /\ M!Idle.forgotten = {} /\ M!Idle.out = {}
  BY DEF M!Idle
<1>3. ASSUME NEW rec PROVE Mindful(M!Idle, rec)
  BY <1>2 DEF Mindful
<1> QED BY <1>1, <1>3

\* Nothing is remembered to begin with.
LEMMA MemoryStart == M!Init => MemoryInv
<1> SUFFICES ASSUME M!Init PROVE MemoryInv
  OBVIOUS
<1>1. M!NoRecord \in MemoryRow /\ M!NoRecord.state = "absent"
  BY DEF M!NoRecord, M!None, MemoryRow, MemoryValues
<1>2. MemoryTyped
  BY <1>1, MemoryIdle DEF M!Init, MemoryTyped
<1>3. \A o \in Slots : Mindful(memoryOp[o], record)
  BY MemoryIdle DEF M!Init
<1>4. M!StoresAgree
  BY <1>1 DEF M!Init, M!StoresAgree, M!Forgotten, M!Live
<1> QED BY <1>2, <1>3, <1>4 DEF MemoryInv

\* What a call in hand is.
LEMMA MemoryFacts ==
  ASSUME MemoryInv, NEW o \in Slots
  PROVE  /\ memoryOp[o] \in MemoryCall /\ Mindful(memoryOp[o], record)
         /\ record \in [Memories -> MemoryRow] /\ vector \subseteq Memories
BY DEF MemoryInv, MemoryTyped

\* Call o goes on as x.
MemoryGoes(o, x) ==
    memoryOp' = [memoryOp EXCEPT ![o] = x] /\ x \in MemoryCall /\ Mindful(x, record')

\* What is forgotten stays so.
RowsAge ==
    /\ record' \in [Memories -> MemoryRow]
    /\ \A m \in Memories : record[m].state = "forgotten" => record'[m].state = "forgotten"

\* That is all a step has to show of the calls.
LEMMA MemoryGoesKeeps ==
  ASSUME MemoryInv, NEW o \in Slots, NEW x, MemoryGoes(o, x), RowsAge, semantic' = semantic,
         vector' \subseteq Memories, raced' \subseteq vector', failed' \subseteq Memories
  PROVE  MemoryTyped' /\ \A p \in Slots : Mindful(memoryOp'[p], record')
<1>1. MemoryTyped'
  BY DEF MemoryInv, MemoryTyped, MemoryGoes, RowsAge
<1>2. ASSUME NEW p \in Slots PROVE Mindful(memoryOp'[p], record')
  <2>1. CASE p = o
    BY <2>1 DEF MemoryGoes, MemoryInv, MemoryTyped
  <2>2. CASE p # o
    <3> DEFINE y == memoryOp[p]
    <3>1. memoryOp'[p] = y /\ y \in MemoryCall /\ Mindful(y, record)
      BY <2>2 DEF MemoryGoes, MemoryInv, MemoryTyped
    <3> HIDE DEF y
    <3>2. y.forgotten \subseteq Memories
      BY <3>1 DEF MemoryCall
    <3>3. Mindful(y, record')
      BY <3>1, <3>2 DEF Mindful, RowsAge
    <3> QED BY <3>1, <3>3
  <2> QED BY <2>1, <2>2
<1> QED BY <1>1, <1>2

\* What other calls do to an entry, they go on doing.
LEMMA DoingStays ==
  ASSUME MemoryInv, NEW o \in Slots, NEW x, MemoryGoes(o, x)
  PROVE  /\ \A pc, m : M!Doing(pc, m) /\ ~(memoryOp[o].pc = pc /\ memoryOp[o].m = m)
                          => M!Doing(pc, m)'
         /\ M!Doing(x.pc, x.m)'
BY DEF MemoryInv, MemoryTyped, MemoryGoes, M!Doing

\* A step that leaves index and rows alone, but for pins, keeps them agreeing.
LEMMA QuietAgrees ==
  ASSUME MemoryInv, NEW o \in Slots, NEW x, MemoryGoes(o, x),
         memoryOp[o].pc \notin {"index", "unindex"},
         UNCHANGED <<semantic, vector, raced, failed>>,
         \A m \in Memories : /\ record'[m].state = record[m].state
                            /\ record'[m].scope = record[m].scope
  PROVE  M!StoresAgree'
<1>1. \A pc \in {"index", "unindex"}, m \in Memories : M!Doing(pc, m) => M!Doing(pc, m)'
  BY DoingStays
<1> QED BY <1>1 DEF MemoryInv, M!StoresAgree, M!Forgotten, M!Live

\* A memory is remembered: its row is live, and the index comes next.
LEMMA RememberKeeps ==
  ASSUME MemoryInv, NEW o \in Slots, NEW m \in Memories, NEW u \in Uses, M!Remember(o, m, u)
  PROVE  MemoryInv'
<1> DEFINE b == M!Bind(u)
           y == [M!Idle EXCEPT !.pc = "index", !.m = m]
           indexed == M!Layer(u.scope) = "L4" /\ semantic
           x == IF indexed THEN y ELSE M!Idle
<1>1. /\ memoryOp[o].pc = "idle" /\ record[m].state = "absent"
      /\ record' = [record EXCEPT ![m] = b]
      /\ memoryOp' = [memoryOp EXCEPT ![o] = x]
      /\ UNCHANGED <<semantic, vector, raced, failed>>
  BY DEF M!Remember, M!Set
<1>2. b \in MemoryRow /\ b.state = "live" /\ b.scope = u.scope
  BY DEF M!Bind, M!None, MemoryRow, MemoryValues
<1> HIDE DEF b
<1>3. RowsAge /\ record'[m] = b /\ \A n \in Memories \ {m} : record'[n] = record[n]
  BY <1>1, <1>2, MemoryFacts DEF RowsAge
<1>4. /\ y \in MemoryCall /\ y.pc = "index" /\ y.m = m /\ y.forgotten = {} /\ y.out = {}
  BY MemoryIdle DEF M!Idle, MemoryCall, MemoryPoints
<1>5. \A rec : Mindful(y, rec)
  <2> HIDE DEF y
  <2> QED BY <1>4 DEF Mindful
<1>6. MemoryGoes(o, x)
  BY <1>1, <1>4, <1>5, MemoryIdle DEF MemoryGoes
<1>7. indexed => M!Doing("index", m)'
  BY <1>4, <1>6, DoingStays
<1>8. \A pc \in {"index", "unindex"}, n \in Memories : M!Doing(pc, n) => M!Doing(pc, n)'
  BY <1>1, <1>6, DoingStays
<1>9. M!StoresAgree'
  <2>1. ASSUME NEW n \in Memories \ failed
        PROVE  /\ n \in vector /\ record'[n].state = "forgotten" =>
                     n \in raced \/ M!Doing("unindex", n)'
               /\ semantic /\ record'[n].state = "live" /\ M!Layer(record'[n].scope) = "L4" =>
                     n \in vector \/ M!Doing("index", n)'
    <3>1. CASE n = m
      BY <1>2, <1>3, <1>7, <3>1
    <3>2. CASE n # m
      BY <1>3, <1>8, <3>2 DEF MemoryInv, M!StoresAgree, M!Forgotten, M!Live
    <3> QED BY <3>1, <3>2
  <2> QED BY <1>1, <2>1 DEF M!StoresAgree, M!Forgotten, M!Live
<1> HIDE DEF x
<1>10. /\ vector' \subseteq Memories /\ raced' \subseteq vector' /\ failed' \subseteq Memories
       /\ semantic' = semantic
  BY <1>1 DEF MemoryInv, MemoryTyped
<1> QED BY <1>3, <1>6, <1>9, <1>10, MemoryGoesKeeps DEF MemoryInv

\* The call is over; or it fails, and its record is one of the failed.
LEMMA WrittenKeeps ==
  ASSUME MemoryInv, NEW o \in Slots,
         \/ M!Index(o) \/ M!IndexFails(o) \/ M!Unindex(o) \/ M!UnindexFails(o)
  PROVE  MemoryInv'
<1> DEFINE y == memoryOp[o]
<1>1. /\ y.pc \in {"index", "unindex"} /\ y.m \in Memories /\ record' = record
      /\ y.pc = "unindex" => record[y.m].state = "forgotten"
      /\ memoryOp' = [memoryOp EXCEPT ![o] = M!Idle] /\ semantic' = semantic
  BY MemoryFacts DEF M!Index, M!IndexFails, M!Unindex, M!UnindexFails, M!Set, Mindful
<1>2. RowsAge /\ MemoryGoes(o, M!Idle)
  BY <1>1, MemoryIdle, MemoryFacts DEF RowsAge, MemoryGoes
<1>3. \A pc \in {"index", "unindex"}, n \in Memories \ {y.m} :
         M!Doing(pc, n) => M!Doing(pc, n)'
  BY <1>2, DoingStays
<1>4. \A pc \in {"index", "unindex"}, n \in Memories :
         pc # y.pc /\ M!Doing(pc, n) => M!Doing(pc, n)'
  BY <1>2, DoingStays
<1>5. /\ vector' \subseteq Memories /\ raced' \subseteq vector' /\ failed' \subseteq Memories
      /\ failed \subseteq failed'
      /\ \A n \in Memories \ {y.m} :
            (n \in vector' <=> n \in vector) /\ (n \in raced' <=> n \in raced)
      /\ \/ y.m \in failed'
         \/ y.pc = "index" /\ y.m \in vector' /\ (y.m \in M!Forgotten => y.m \in raced')
         \/ y.pc = "unindex" /\ y.m \notin vector'
  BY <1>1 DEF MemoryInv, MemoryTyped, M!Index, M!IndexFails, M!Unindex, M!UnindexFails,
              M!OneFault
<1> HIDE DEF y
<1>6. M!StoresAgree'
  <2>1. ASSUME NEW n \in Memories \ failed'
        PROVE  /\ n \in vector' /\ record[n].state = "forgotten" =>
                     n \in raced' \/ M!Doing("unindex", n)'
               /\ semantic /\ record[n].state = "live" /\ M!Layer(record[n].scope) = "L4" =>
                     n \in vector' \/ M!Doing("index", n)'
    <3>1. CASE n = y.m
      BY <1>1, <1>4, <1>5, <3>1 DEF M!Forgotten
    <3>2. CASE n # y.m
      BY <1>3, <1>5, <3>2 DEF MemoryInv, M!StoresAgree, M!Forgotten, M!Live
    <3> QED BY <3>1, <3>2
  <2> QED BY <1>1, <2>1 DEF M!StoresAgree, M!Forgotten, M!Live
<1> QED BY <1>1, <1>2, <1>5, <1>6, MemoryGoesKeeps DEF MemoryInv

\* The row is marked as forgotten; the index comes next.
LEMMA ForgetKeeps ==
  ASSUME MemoryInv, NEW o \in Slots, NEW m \in Memories, M!Forget(o, m)
  PROVE  MemoryInv'
<1> DEFINE x == [M!Idle EXCEPT !.pc = "unindex", !.m = m]
<1>1. /\ memoryOp[o].pc = "idle"
      /\ record' = [record EXCEPT ![m].state = "forgotten"]
      /\ memoryOp' = [memoryOp EXCEPT ![o] = x]
      /\ UNCHANGED <<semantic, vector, raced, failed>>
  BY DEF M!Forget, M!Set
<1>2. /\ record' \in [Memories -> MemoryRow]
      /\ record'[m].state = "forgotten" /\ \A n \in Memories \ {m} : record'[n] = record[n]
  BY <1>1, MemoryFacts DEF MemoryRow
<1>3. /\ x \in MemoryCall /\ x.pc = "unindex" /\ x.m = m /\ x.forgotten = {} /\ x.out = {}
  BY MemoryIdle DEF M!Idle, MemoryCall, MemoryPoints
<1> HIDE DEF x
<1>4. RowsAge
  BY <1>2 DEF RowsAge
<1>5. MemoryGoes(o, x)
  BY <1>1, <1>2, <1>3 DEF MemoryGoes, Mindful
<1>6. M!Doing("unindex", m)'
  BY <1>3, <1>5, DoingStays
<1>7. \A pc \in {"index", "unindex"}, n \in Memories : M!Doing(pc, n) => M!Doing(pc, n)'
  BY <1>1, <1>5, DoingStays
<1>8. M!StoresAgree'
  <2>1. ASSUME NEW n \in Memories \ failed
        PROVE  /\ n \in vector /\ record'[n].state = "forgotten" =>
                     n \in raced \/ M!Doing("unindex", n)'
               /\ semantic /\ record'[n].state = "live" /\ M!Layer(record'[n].scope) = "L4" =>
                     n \in vector \/ M!Doing("index", n)'
    <3>1. CASE n = m
      BY <1>2, <1>6, <3>1
    <3>2. CASE n # m
      BY <1>2, <1>7, <3>2 DEF MemoryInv, M!StoresAgree, M!Forgotten, M!Live
    <3> QED BY <3>1, <3>2
  <2> QED BY <1>1, <2>1 DEF M!StoresAgree, M!Forgotten, M!Live
<1>9. /\ vector' \subseteq Memories /\ raced' \subseteq vector' /\ failed' \subseteq Memories
      /\ semantic' = semantic
  BY <1>1 DEF MemoryInv, MemoryTyped
<1> QED BY <1>4, <1>5, <1>8, <1>9, MemoryGoesKeeps DEF MemoryInv

\* Pins and recalls leave index and rows as they agree.
LEMMA QuietKeeps ==
  ASSUME MemoryInv, NEW o \in Slots, NEW x, MemoryGoes(o, x),
         memoryOp[o].pc \notin {"index", "unindex"},
         UNCHANGED <<semantic, vector, raced, failed>>,
         record' \in [Memories -> MemoryRow],
         \A m \in Memories : /\ record'[m].state = record[m].state
                            /\ record'[m].scope = record[m].scope
  PROVE  MemoryInv'
<1>1. RowsAge
  BY DEF RowsAge
<1>2. /\ vector' \subseteq Memories /\ raced' \subseteq vector' /\ failed' \subseteq Memories
      /\ semantic' = semantic
  BY DEF MemoryInv, MemoryTyped
<1>3. MemoryTyped' /\ \A p \in Slots : Mindful(memoryOp'[p], record')
  BY <1>1, <1>2, MemoryGoesKeeps
<1>4. M!StoresAgree'
  BY QuietAgrees
<1> QED BY <1>3, <1>4 DEF MemoryInv

\* A row is looked up and then pinned.
LEMMA PinKeeps ==
  ASSUME MemoryInv, NEW o \in Slots,
         M!Pin(o) \/ \E m \in Memories : M!StartPin(o, m)
  PROVE  MemoryInv'
<1>1. CASE M!Pin(o)
  <2>1. /\ memoryOp[o].pc = "pin" /\ memoryOp[o].m \in Memories
        /\ record' = [record EXCEPT ![memoryOp[o].m].pinned = TRUE]
        /\ memoryOp' = [memoryOp EXCEPT ![o] = M!Idle]
        /\ UNCHANGED <<semantic, vector, raced, failed>>
    BY <1>1, MemoryFacts DEF M!Pin, M!Set, Mindful
  <2>2. /\ record' \in [Memories -> MemoryRow]
        /\ \A m \in Memories :
              record'[m].state = record[m].state /\ record'[m].scope = record[m].scope
    <3> DEFINE m == memoryOp[o].m
               r == [record[m] EXCEPT !.pinned = TRUE]
    <3>1. record \in [Memories -> MemoryRow] /\ record[m] \in MemoryRow
      BY <2>1, MemoryFacts
    <3>2. /\ r \in MemoryRow
          /\ r.state = record[m].state /\ r.scope = record[m].scope
      BY <3>1 DEF MemoryRow
    <3>3. record' = [record EXCEPT ![m] = r]
      BY <2>1
    <3> HIDE DEF r
    <3> QED BY <2>1, <3>1, <3>2, <3>3
  <2>3. MemoryGoes(o, M!Idle)
    BY <2>1, MemoryIdle DEF MemoryGoes
  <2> QED BY <2>1, <2>2, <2>3, QuietKeeps
<1>2. ASSUME NEW m \in Memories, M!StartPin(o, m) PROVE MemoryInv'
  <2> DEFINE x == [M!Idle EXCEPT !.pc = "pin", !.m = m]
  <2>1. /\ memoryOp[o].pc = "idle" /\ memoryOp' = [memoryOp EXCEPT ![o] = x]
        /\ UNCHANGED <<semantic, record, vector, raced, failed>>
    BY <1>2 DEF M!StartPin, M!Set
  <2>2. /\ x \in MemoryCall /\ x.pc = "pin" /\ x.m = m /\ x.forgotten = {} /\ x.out = {}
    BY MemoryIdle DEF M!Idle, MemoryCall, MemoryPoints
  <2> HIDE DEF x
  <2>3. MemoryGoes(o, x)
    BY <2>1, <2>2 DEF MemoryGoes, Mindful
  <2> QED BY <2>1, <2>3, MemoryFacts, QuietKeeps
<1> QED BY <1>1, <1>2

\* What a recall does with the rows it does not change.
LEMMA RecallGoesKeeps ==
  ASSUME MemoryInv, NEW o \in Slots, NEW x \in MemoryCall,
         memoryOp[o].pc \notin {"index", "unindex"},
         memoryOp' = [memoryOp EXCEPT ![o] = x],
         UNCHANGED <<semantic, record, vector, raced, failed>>,
         x.pc \notin {"index", "unindex", "pin"},
         \A m \in x.forgotten : record[m].state = "forgotten",
         x.out \cap x.forgotten = {}
  PROVE  MemoryInv'
<1>1. MemoryGoes(o, x)
  BY DEF MemoryGoes, Mindful
<1> QED BY <1>1, MemoryFacts, QuietKeeps

\* A recall begins, with what is forgotten by then.
LEMMA RecallKeeps ==
  ASSUME MemoryInv, NEW o \in Slots, NEW u \in Uses, M!Recall(o, u) PROVE MemoryInv'
<1> DEFINE x == [M!Idle EXCEPT !.use = u, !.forgotten = M!Forgotten,
                     !.pc = IF M!Layer(u.scope) = "L4" /\ semantic THEN "search" ELSE "query"]
<1>1. /\ memoryOp[o].pc = "idle" /\ memoryOp' = [memoryOp EXCEPT ![o] = x]
      /\ UNCHANGED <<semantic, record, vector, raced, failed>>
  BY DEF M!Recall, M!Set
<1>2. M!Forgotten \subseteq Memories
      /\ \A m \in M!Forgotten : record[m].state = "forgotten"
  BY DEF M!Forgotten
<1>3. /\ x \in MemoryCall /\ x.pc \in {"search", "query"} /\ x.out = {}
      /\ x.forgotten = M!Forgotten
  BY <1>2, MemoryIdle DEF M!Idle, MemoryCall, MemoryPoints
<1> HIDE DEF x
<1> QED BY <1>1, <1>2, <1>3, RecallGoesKeeps

\* It returns rows that are live: none of those.
LEMMA RecallGoesOnKeeps ==
  ASSUME MemoryInv, NEW o \in Slots,
         \/ M!Query(o) \/ M!Search(o) \/ M!EndRecall(o) \/ M!Answer(o)
         \/ \E m \in Memories : M!Fetch(o, m)
  PROVE  MemoryInv'
<1> DEFINE y == memoryOp[o]
<1>1. /\ y \in MemoryCall /\ Mindful(y, record) /\ y.pc \notin {"index", "unindex", "pin"}
      /\ UNCHANGED <<semantic, record, vector, raced, failed>>
  BY MemoryFacts DEF M!Query, M!Search, M!EndRecall, M!Answer, M!Fetch
<1>2. /\ y.hits \subseteq Memories /\ y.out \subseteq Memories
      /\ \A m \in y.forgotten : record[m].state = "forgotten"
      /\ y.out \cap y.forgotten = {}
  BY <1>1 DEF MemoryCall, Mindful
<1>3. CASE M!Answer(o)
  <2>1. /\ memoryOp' = [memoryOp EXCEPT ![o] = M!Idle]
        /\ M!Idle \in MemoryCall /\ M!Idle.pc = "idle"
        /\ M!Idle.out = {} /\ M!Idle.forgotten = {}
    BY <1>3, MemoryIdle DEF M!Answer, M!Set, M!Idle
  <2> QED BY <1>1, <2>1, RecallGoesKeeps
<1>4. ASSUME ~M!Answer(o) PROVE MemoryInv'
  <2>1. PICK x : /\ x \in MemoryCall /\ x.pc \notin {"index", "unindex", "pin"}
                 /\ memoryOp' = [memoryOp EXCEPT ![o] = x]
                 /\ x.forgotten = y.forgotten
                 /\ \A m \in x.out : m \in y.out \/ record[m].state = "live"
    <3>1. CASE M!Query(o)
      <4>1. PICK S : /\ S \in M!Nearest(M!Selected(y.use))
                     /\ memoryOp' = [memoryOp EXCEPT ![o] =
                                        [y EXCEPT !.out = S, !.pc = "returned"]]
        BY <3>1 DEF M!Query, M!Set
      <4>2. S \subseteq Memories /\ \A m \in S : record[m].state = "live"
        BY <4>1 DEF M!Nearest, M!Selected, M!Live
      <4> WITNESS [y EXCEPT !.out = S, !.pc = "returned"]
      <4> QED BY <1>1, <4>1, <4>2 DEF MemoryCall, MemoryPoints
    <3>2. CASE M!Search(o)
      <4>1. PICK S : /\ S \in SUBSET Memories
                     /\ memoryOp' = [memoryOp EXCEPT ![o] =
                                        [y EXCEPT !.hits = S, !.pc = "fetch"]]
        BY <3>2, MemoryFacts DEF M!Search, M!Set, M!Nearest
      <4> WITNESS [y EXCEPT !.hits = S, !.pc = "fetch"]
      <4> QED BY <1>1, <4>1 DEF MemoryCall, MemoryPoints
    <3>3. CASE M!EndRecall(o)
      <4> WITNESS [y EXCEPT !.pc = "returned"]
      <4> QED BY <1>1, <3>3 DEF M!EndRecall, M!Set, MemoryCall, MemoryPoints
    <3>4. ASSUME NEW m \in Memories, M!Fetch(o, m)
          PROVE  \E x : /\ x \in MemoryCall /\ x.pc \notin {"index", "unindex", "pin"}
                        /\ memoryOp' = [memoryOp EXCEPT ![o] = x]
                        /\ x.forgotten = y.forgotten
                        /\ \A n \in x.out : n \in y.out \/ record[n].state = "live"
      <4> DEFINE out == IF m \in M!Fetched(o) THEN y.out \cup {m} ELSE y.out
      <4>1. /\ out \subseteq Memories
            /\ \A n \in out : n \in y.out \/ record[n].state = "live"
        BY <1>2 DEF M!Fetched, M!Live
      <4>2. memoryOp' = [memoryOp EXCEPT ![o] =
                            [y EXCEPT !.hits = y.hits \ {m}, !.out = out]]
        BY <3>4 DEF M!Fetch, M!Set
      <4> HIDE DEF out
      <4> WITNESS [y EXCEPT !.hits = y.hits \ {m}, !.out = out]
      <4> QED BY <1>1, <1>2, <4>1, <4>2 DEF MemoryCall
    <3> QED BY <1>4, <3>1, <3>2, <3>3, <3>4
  <2>2. x.out \cap x.forgotten = {}
    BY <1>2, <2>1
  <2> QED BY <1>1, <1>2, <2>1, <2>2, RecallGoesKeeps
<1> QED BY <1>3, <1>4

\* Each step of the gateway keeps the invariant.
LEMMA MemoryStep == MemoryInv /\ M!Next => MemoryInv'
<1> SUFFICES ASSUME MemoryInv, NEW o \in Slots, M!Step(o) PROVE MemoryInv'
  BY DEF M!Next
<1>1. \/ \E m \in Memories, u \in Uses : M!Remember(o, m, u)
      \/ M!Index(o) \/ M!IndexFails(o) \/ M!Unindex(o) \/ M!UnindexFails(o)
      \/ \E m \in Memories : M!Forget(o, m)
      \/ M!Pin(o) \/ \E m \in Memories : M!StartPin(o, m)
      \/ \E u \in Uses : M!Recall(o, u)
      \/ M!Query(o) \/ M!Search(o) \/ M!EndRecall(o) \/ M!Answer(o)
      \/ \E m \in Memories : M!Fetch(o, m)
  BY DEF M!Step
<1> QED BY <1>1, RememberKeeps, WrittenKeeps, ForgetKeeps, PinKeeps, RecallKeeps,
           RecallGoesOnKeeps

\* And so does a step of another service.
LEMMA MemoryRest == MemoryInv /\ UNCHANGED memoryVars => MemoryInv'
BY DEF MemoryInv, MemoryTyped, Mindful, memoryVars, M!StoresAgree, M!Forgotten, M!Live,
       M!Doing

\* What it says.
LEMMA MemoriesHold == MemoryInv => M!TypeOK /\ MemoryHolds
<1> SUFFICES ASSUME MemoryInv PROVE M!TypeOK /\ MemoryHolds
  OBVIOUS
<1>1. \A m \in Memories : record[m].state \in {"absent", "live", "forgotten"}
  BY DEF MemoryInv, MemoryTyped, MemoryRow
<1>2. \A o \in Slots : /\ memoryOp[o].pc \in MemoryPoints
                       /\ memoryOp[o].m \in Memories \cup {"none"}
                       /\ memoryOp[o].hits \subseteq Memories
                       /\ memoryOp[o].out \subseteq Memories
                       /\ memoryOp[o].out \cap memoryOp[o].forgotten = {}
  BY DEF MemoryInv, MemoryTyped, MemoryCall, Mindful
<1>3. M!TypeOK
  BY <1>1, <1>2 DEF M!TypeOK, MemoryInv, MemoryTyped, MemoryPoints, M!None
<1>4. MemoryHolds
  BY <1>2 DEF MemoryHolds, M!ForgottenStaysForgotten, MemoryInv
<1> QED BY <1>3, <1>4

-----------------------------------------------------------------------------
(* The connections and the vault (ConnectorVault) *)

\* References named after provider p, the rows saved under them, and bundles:
\* the page that is selected is one of theirs, and whoever has pages is a user.
Own(p) == States \X {p}
RowsOf(p) == {V!NoRow} \cup [status : {"connected", "revoked"}, id : Own(p), ref : Own(p)]
AnyRow == {V!NoRow} \cup [status : {"connected", "revoked"}, id : V!Refs, ref : V!Refs]
VaultBundle == [user : BOOLEAN, pages : SUBSET Pages, page : Pages \cup {"none"}]
Whole(b) == b.page \in b.pages \cup {"none"} /\ (b.user \/ b = V!NoBundle)

VaultPoints == {"idle", "fetch", "find", "read", "put", "save", "erase", "mark", "again",
                "delete"}
VaultCall == [pc : VaultPoints, call : {"none", "connect", "disconnect", "select", "list"},
              state : States \cup {"none"}, page : Pages \cup {"none"}, todo : Seq(Providers),
              row : AnyRow, bundle : VaultBundle]

VaultTyped ==
    /\ pending \in [States -> Providers \cup {"none"}] /\ issued \subseteq States
    /\ row = [p \in Providers |-> row[p]] /\ \A p \in Providers : row[p] \in RowsOf(p)
    /\ secret \in [V!Refs -> VaultBundle] /\ \A r \in V!Refs : Whole(secret[r])
    /\ vaultOp \in [Slots -> VaultCall]
    /\ chosen \in Pages \cup {"none"}
    /\ trouble \in [Providers -> {"none", "crossed", "torn"}] /\ vaultFaults \in 0..MaxFaults

\* What a call in hand holds at each point of it.
Consistent(x) ==
    /\ x.pc = "idle" => x.call = "none"
    /\ x.pc # "idle" => x.call # "none" /\ x.todo # <<>>
    /\ x.call = "connect" => x.pc \in {"fetch", "find", "put", "save"} /\ x.state \in States
    /\ x.call = "disconnect" => x.pc \in {"find", "erase", "mark", "again", "delete"}
    /\ x.call = "select" => x.pc \in {"find", "read", "put", "save"} /\ x.page \in Pages
    /\ x.call = "list" => x.pc \in {"read", "fetch", "find", "put", "save"}
    /\ x.pc \in {"put", "save", "erase", "mark"} => x.row \in RowsOf(Head(x.todo))
    /\ x.pc = "read" /\ x.call = "select" => x.row \in RowsOf(Head(x.todo))
    /\ x.pc \in {"read", "put", "save"} /\ x.call # "connect" => x.row.status = "connected"
    /\ x.pc \in {"erase", "mark"} => x.row # V!NoRow
    /\ Whole(x.bundle)
    /\ x.pc \in {"fetch", "put", "save"} => x.bundle.user
    /\ x.pc = "find" /\ x.call \in {"connect", "list"} => x.bundle.user

\* Two calls on one connection, one of them a disconnect, tear it.
Apart(p) ==
    \A o1, o2 \in Slots :
        /\ o1 # o2 /\ V!Touches(o1, p) /\ V!Touches(o2, p)
        /\ "disconnect" \in {vaultOp[o1].call, vaultOp[o2].call}
        => trouble[p] = "torn"

\* The secret is there when its row is about to be saved.
Written(o) ==
    vaultOp[o].pc = "save" /\ trouble[V!Provider(o)] # "torn" => secret[V!RefFor(o)].user

VaultInv ==
    /\ VaultTyped
    /\ \A o \in Slots : Consistent(vaultOp[o]) /\ Written(o)
    /\ \A p \in Providers : Apart(p)
    /\ V!ConnectedMeansUsable

\* The elements of a list, of its head and of its tail.
LEMMA ListElements ==
  ASSUME NEW S, NEW s \in Seq(S)
  PROVE  /\ V!ToSet(s) \subseteq S
         /\ s # <<>> => /\ Head(s) \in S /\ Tail(s) \in Seq(S) /\ Len(s) \in Nat \ {0}
                        /\ V!ToSet(s) = {Head(s)} \cup V!ToSet(Tail(s))
         /\ Len(s) = 1 => V!ToSet(Tail(s)) = {}
         /\ s # <<>> /\ Len(s) # 1 => Tail(s) # <<>>
<1>1. V!ToSet(s) \subseteq S
  BY DEF V!ToSet
<1>2. ASSUME s # <<>>
      PROVE  /\ Head(s) \in S /\ Tail(s) \in Seq(S) /\ Len(s) \in Nat \ {0}
             /\ V!ToSet(s) = {Head(s)} \cup V!ToSet(Tail(s))
             /\ Len(s) = 1 => V!ToSet(Tail(s)) = {}
             /\ Len(s) # 1 => Tail(s) # <<>>
  <2>1. /\ Head(s) \in S /\ Tail(s) \in Seq(S) /\ Len(s) \in Nat \ {0} /\ Head(s) = s[1]
        /\ Len(Tail(s)) = Len(s) - 1 /\ DOMAIN s = 1..Len(s)
        /\ DOMAIN Tail(s) = 1..(Len(s) - 1)
        /\ \A i \in 1..(Len(s) - 1) : Tail(s)[i] = s[i + 1]
    BY <1>2
  <2>2. ASSUME NEW i \in 1..Len(s) PROVE s[i] \in {Head(s)} \cup V!ToSet(Tail(s))
    <3>1. CASE i = 1
      BY <2>1, <3>1
    <3>2. CASE i # 1
      <4>1. i - 1 \in DOMAIN Tail(s) /\ Tail(s)[i - 1] = s[i]
        BY <2>1, <3>2
      <4> QED BY <4>1 DEF V!ToSet
    <3> QED BY <3>1, <3>2
  <2>3. ASSUME NEW i \in DOMAIN Tail(s) PROVE Tail(s)[i] \in V!ToSet(s)
    <3>1. i + 1 \in DOMAIN s /\ Tail(s)[i] = s[i + 1]
      BY <2>1
    <3> QED BY <3>1 DEF V!ToSet
  <2>4. Head(s) \in V!ToSet(s)
    BY <2>1 DEF V!ToSet
  <2>5. V!ToSet(s) = {Head(s)} \cup V!ToSet(Tail(s))
    BY <2>1, <2>2, <2>3, <2>4 DEF V!ToSet
  <2>6. Len(s) = 1 => V!ToSet(Tail(s)) = {}
    BY <2>1 DEF V!ToSet
  <2>7. Len(s) # 1 => Tail(s) # <<>>
    <3>1. Len(s) # 1 => Len(Tail(s)) # 0
      BY <2>1
    <3>2. Len(<<>>) = 0
      OBVIOUS
    <3> QED BY <3>1, <3>2
  <2> QED BY <2>1, <2>5, <2>6, <2>7
<1>3. Len(s) = 1 => s # <<>>
  OBVIOUS
<1> QED BY <1>1, <1>2, <1>3

\* The Meta connections, in the order they are worked through.
Both == V!SetToSeq(V!Meta)

\* The one list of both Meta connections, each once.
LEMMA MetaList ==
  /\ Both \in Seq(V!Meta) /\ Len(Both) = V!Cardinality(V!Meta) /\ Len(Both) \in Nat
  /\ V!ToSet(Both) = V!Meta
  /\ \A i, j \in 1..Len(Both) : Both[i] = Both[j] => i = j
<1> DEFINE n == Cardinality(V!Meta)
           all == Both
<1>1. IsFiniteSet({"facebook", "instagram"})
  <2>1. IsFiniteSet({"facebook"})
    BY FS_Singleton
  <2>2. {"facebook", "instagram"} = {"facebook"} \cup {"instagram"}
    OBVIOUS
  <2> QED BY <2>1, <2>2, FS_AddElement
<1>2. IsFiniteSet(V!Meta)
  BY <1>1, FS_Subset DEF V!Meta
<1>3. n \in Nat /\ ExistsBijection(1..n, V!Meta)
  BY <1>2, FS_CardinalityType
<1>4. V!Cardinality(V!Meta) = n
  BY DEF V!Cardinality, Cardinality, V!IsFiniteSet, IsFiniteSet
<1> HIDE DEF n
<1>5. \E f \in [1..n -> V!Meta] : V!IsInjective(f)
  BY <1>3 DEF ExistsBijection, Bijection, Injection, IsInjective, V!IsInjective
<1>6. all \in [1..n -> V!Meta] /\ V!IsInjective(all)
  BY <1>4, <1>5 DEF V!SetToSeq, Both
<1> HIDE DEF all
<1>7. all \in Seq(V!Meta) /\ Len(all) = n /\ DOMAIN all = 1..n
  BY <1>3, <1>6
<1>8. Cardinality(1..n) = n
  BY <1>3, FS_Interval
<1>9. all \in Injection(1..n, V!Meta)
  BY <1>6 DEF Injection, IsInjective, V!IsInjective
<1>10. all \in Surjection(1..n, V!Meta)
  BY <1>2, <1>8, <1>9, FS_Injection DEF n
<1>11. V!ToSet(all) = V!Meta
  BY <1>7, <1>10 DEF Surjection, V!ToSet
<1>12. \A i, j \in 1..n : all[i] = all[j] => i = j
  BY <1>6, <1>7 DEF V!IsInjective
<1> QED BY <1>3, <1>4, <1>7, <1>11, <1>12 DEF all

\* What one authorisation saves.
LEMMA SavedFacts ==
  ASSUME NEW p \in Providers
  PROVE  /\ V!Saved(p) \in Seq(Providers) /\ V!Saved(p) # <<>>
         /\ V!ToSet(V!Saved(p)) = IF p \in V!Meta THEN V!Meta ELSE {p}
         /\ p \in V!Meta => V!Saved(p) = Both
<1>1. V!Meta \subseteq Providers
  BY DEF V!Meta
<1>2. CASE p \in V!Meta
  <2>1. V!Saved(p) = Both /\ Both \in Seq(V!Meta) /\ V!ToSet(Both) = V!Meta
    BY <1>2, MetaList DEF V!Saved, Both
  <2>2. Both \in Seq(Providers)
    BY <1>1, <2>1
  <2>3. Both # <<>>
    <3>1. V!ToSet(<<>>) = {}
      BY DEF V!ToSet
    <3> QED BY <1>2, <2>1, <3>1
  <2> QED BY <1>2, <2>1, <2>2, <2>3
<1>3. CASE p \notin V!Meta
  <2>1. V!Saved(p) = <<p>>
    BY <1>3 DEF V!Saved
  <2>2. <<p>> \in Seq(Providers) /\ <<p>> # <<>> /\ V!ToSet(<<p>>) = {p}
    BY DEF V!ToSet
  <2> QED BY <1>3, <2>1, <2>2
<1> QED BY <1>2, <1>3

\* Troubles only get worse, and they do for whom they are about; the Meta
\* connections share theirs.
LEMMA WorsenFacts ==
  ASSUME VaultTyped, NEW S, NEW x \in {"crossed", "torn"}, V!Worsen(S, x)
  PROVE  /\ trouble' \in [Providers -> {"none", "crossed", "torn"}]
         /\ S = {} => trouble' = trouble
         /\ \A p \in Providers :
               /\ trouble[p] = "torn" => trouble'[p] = "torn"
               /\ trouble[p] # "none" => trouble'[p] # "none"
               /\ p \in S => trouble'[p] # "none" /\ (x = "torn" => trouble'[p] = "torn")
               /\ p \in V!Meta /\ S \cap V!Meta # {} => trouble'[p] # "none"
<1>1. trouble \in [Providers -> {"none", "crossed", "torn"}]
  BY DEF VaultTyped
<1>2. \A p \in Providers : p \in V!ToSet(V!Saved(p))
         /\ (p \in V!Meta => V!ToSet(V!Saved(p)) = V!Meta)
  BY SavedFacts
<1>3. \A p \in Providers :
         trouble'[p] = IF trouble[p] = "torn" \/ V!ToSet(V!Saved(p)) \cap S = {}
                       THEN trouble[p] ELSE x
  BY DEF V!Worsen
<1>4. trouble' \in [Providers -> {"none", "crossed", "torn"}]
  BY <1>1 DEF V!Worsen
<1>5. S = {} => trouble' = trouble
  <2>1. S = {} => \A p \in Providers : trouble'[p] = trouble[p]
    BY <1>3
  <2> QED BY <1>1, <1>4, <2>1
<1>6. ASSUME NEW p \in Providers
      PROVE  /\ trouble[p] = "torn" => trouble'[p] = "torn"
             /\ trouble[p] # "none" => trouble'[p] # "none"
             /\ p \in S => trouble'[p] # "none" /\ (x = "torn" => trouble'[p] = "torn")
             /\ p \in V!Meta /\ S \cap V!Meta # {} => trouble'[p] # "none"
  BY <1>2, <1>3
<1> QED BY <1>4, <1>5, <1>6

\* What a call in hand is.
LEMMA VaultFacts ==
  ASSUME VaultInv, NEW o \in Slots
  PROVE  /\ vaultOp[o] \in VaultCall /\ Consistent(vaultOp[o]) /\ Written(o)
         /\ vaultOp[o].pc # "idle" =>
               /\ vaultOp[o].todo \in Seq(Providers) /\ vaultOp[o].todo # <<>>
               /\ V!Provider(o) \in Providers /\ V!Touches(o, V!Provider(o))
<1>1. vaultOp[o] \in VaultCall /\ Consistent(vaultOp[o]) /\ Written(o)
  BY DEF VaultInv, VaultTyped
<1>2. ASSUME vaultOp[o].pc # "idle"
      PROVE  /\ vaultOp[o].todo \in Seq(Providers) /\ vaultOp[o].todo # <<>>
             /\ V!Provider(o) \in Providers /\ V!Touches(o, V!Provider(o))
  <2>1. vaultOp[o].todo \in Seq(Providers) /\ vaultOp[o].todo # <<>>
    BY <1>1, <1>2 DEF VaultCall, Consistent
  <2>2. /\ Head(vaultOp[o].todo) \in Providers
        /\ Head(vaultOp[o].todo) \in V!ToSet(vaultOp[o].todo)
    BY <2>1, ListElements
  <2> QED BY <1>2, <2>1, <2>2 DEF V!Provider, V!Touches
<1> QED BY <1>1, <1>2

\* The reference a call writes is named after the connection it works on.
LEMMA RefIsOwn ==
  ASSUME VaultInv, NEW o \in Slots
  PROVE  /\ vaultOp[o].pc \in {"put", "save"} => V!RefFor(o) \in Own(V!Provider(o))
         /\ vaultOp[o].pc = "save" /\ vaultOp[o].call = "connect" =>
               V!IdFor(o) \in Own(V!Provider(o))
         /\ vaultOp[o].pc \in {"erase", "mark"} =>
               vaultOp[o].row.ref \in Own(V!Provider(o))
<1> DEFINE y == vaultOp[o]
           p == Head(y.todo)
<1>1. Consistent(y) /\ y \in VaultCall
  BY VaultFacts
<1>2. V!NoRow.status = "absent"
  BY DEF V!NoRow
<1>3. y.pc \in {"put", "save", "erase", "mark"} =>
         y.row = V!NoRow \/ (y.row.ref \in Own(p) /\ y.row.id \in Own(p))
  BY <1>1 DEF Consistent, RowsOf
<1> QED BY <1>1, <1>2, <1>3 DEF Consistent, V!RefFor, V!IdFor, V!Provider, Own

\* References of two connections differ.
LEMMA OwnApart ==
  /\ \A p, q, r : r \in Own(p) /\ r \in Own(q) => p = q
  /\ \A p \in Providers : Own(p) \subseteq V!Refs
  /\ \A p \in Providers : RowsOf(p) \subseteq AnyRow
  /\ \A p, r : r \in RowsOf(p) /\ r.status = "connected" => r # V!NoRow /\ r.ref \in Own(p)
<1>1. \A p, q, r : r \in Own(p) /\ r \in Own(q) => p = q
  BY DEF Own
<1>2. \A p \in Providers : Own(p) \subseteq V!Refs
  BY DEF Own, V!Refs
<1>3. \A p \in Providers : RowsOf(p) \subseteq AnyRow
  <2> TAKE p \in Providers
  <2>1. ASSUME NEW r \in [status : {"connected", "revoked"}, id : Own(p), ref : Own(p)]
        PROVE  r \in AnyRow
    BY <1>2 DEF AnyRow
  <2> QED BY <2>1 DEF RowsOf, AnyRow
<1>4. \A p, r : r \in RowsOf(p) /\ r.status = "connected" => r # V!NoRow /\ r.ref \in Own(p)
  <2>1. V!NoRow.status = "absent"
    BY DEF V!NoRow
  <2> QED BY <2>1 DEF RowsOf
<1> QED BY <1>1, <1>2, <1>3, <1>4

\* Call o goes on as x.
VaultGoes(o, x) ==
    vaultOp' = [vaultOp EXCEPT ![o] = x] /\ x \in VaultCall /\ Consistent(x)

\* It is over, or goes on with what it had to do.
Narrows(y, x) ==
    \/ x.pc = "idle"
    \/ y.pc # "idle" /\ x.call = y.call /\ V!ToSet(x.todo) \subseteq V!ToSet(y.todo)

\* Everything that is written stays in its type.
VaultStays ==
    /\ pending' \in [States -> Providers \cup {"none"}] /\ issued' \subseteq States
    /\ row' = [p \in Providers |-> row'[p]] /\ \A p \in Providers : row'[p] \in RowsOf(p)
    /\ secret' \in [V!Refs -> VaultBundle] /\ \A r \in V!Refs : Whole(secret'[r])
    /\ chosen' \in Pages \cup {"none"}
    /\ trouble' \in [Providers -> {"none", "crossed", "torn"}]
    /\ vaultFaults' \in 0..MaxFaults
    /\ \A p \in Providers : trouble[p] = "torn" => trouble'[p] = "torn"

\* No other call changes, and calls stay apart while they narrow.
LEMMA VaultGoesKeeps ==
  ASSUME VaultInv, NEW o \in Slots, NEW x, VaultGoes(o, x), VaultStays
  PROVE  /\ VaultTyped' /\ \A u \in Slots : Consistent(vaultOp'[u])
         /\ vaultOp'[o] = x /\ \A u \in Slots \ {o} : vaultOp'[u] = vaultOp[u]
         /\ Narrows(vaultOp[o], x) => (\A p \in Providers : Apart(p))'
<1>1. vaultOp'[o] = x /\ \A u \in Slots \ {o} : vaultOp'[u] = vaultOp[u]
  BY DEF VaultInv, VaultTyped, VaultGoes
<1>2. VaultTyped' /\ \A u \in Slots : Consistent(vaultOp'[u])
  BY <1>1 DEF VaultInv, VaultTyped, VaultGoes, VaultStays
<1>3. ASSUME Narrows(vaultOp[o], x), NEW p \in Providers PROVE Apart(p)'
  <2>1. \A u \in Slots :
           V!Touches(u, p)' => V!Touches(u, p) /\ vaultOp'[u].call = vaultOp[u].call
    BY <1>1, <1>3 DEF Narrows, V!Touches
  <2> QED BY <2>1 DEF VaultInv, VaultStays, Apart
<1> QED BY <1>1, <1>2, <1>3

\* Where neither rows nor secrets change, connections stay usable, unless a
\* disconnect gives up between the two.
LEMMA UsableRests ==
  ASSUME VaultInv, NEW o \in Slots, NEW x, VaultGoes(o, x), VaultStays,
         UNCHANGED <<row, secret>>, x.pc # "save",
         vaultOp[o].pc = "mark" => trouble'[V!Provider(o)] = "torn"
  PROVE  (\A u \in Slots : Written(u))' /\ V!ConnectedMeansUsable'
<1>1. vaultOp'[o] = x /\ \A u \in Slots \ {o} : vaultOp'[u] = vaultOp[u]
  BY VaultGoesKeeps
<1>2. ASSUME NEW u \in Slots PROVE Written(u)'
  <2>1. CASE u = o
    BY <1>1, <2>1 DEF Written
  <2>2. CASE u # o
    <3>1. vaultOp'[u] = vaultOp[u] /\ Written(u)
      BY <1>1, <2>2, VaultFacts
    <3>2. vaultOp[u].pc = "save" => V!Provider(u) \in Providers
      BY VaultFacts
    <3> QED BY <3>1, <3>2 DEF Written, V!RefFor, V!IdFor, V!Provider, VaultStays
  <2> QED BY <2>1, <2>2
<1>3. ASSUME NEW p \in Providers, row[p].status = "connected", trouble'[p] # "torn"
      PROVE  \/ V!Resolved(p) # V!NoBundle
             \/ \E u \in Slots : vaultOp'[u].pc = "mark" /\ Head(vaultOp'[u].todo) = p
  <2>1. trouble[p] # "torn"
    BY <1>3 DEF VaultStays
  <2>2. CASE V!Resolved(p) # V!NoBundle
    BY <2>2
  <2>3. CASE \E u \in Slots : vaultOp[u].pc = "mark" /\ V!Provider(u) = p
    <3>1. PICK u \in Slots : vaultOp[u].pc = "mark" /\ V!Provider(u) = p
      BY <2>3
    <3>2. u # o
      BY <1>3, <3>1
    <3> QED BY <1>1, <3>1, <3>2 DEF V!Provider
  <2> QED BY <1>3, <2>1, <2>2, <2>3 DEF VaultInv, V!ConnectedMeansUsable
<1>4. V!ConnectedMeansUsable'
  BY <1>3 DEF V!ConnectedMeansUsable, V!Resolved, V!Provider
<1> QED BY <1>2, <1>4

\* Without rows and secrets, a call goes on.
LEMMA VaultGoesOn ==
  ASSUME VaultInv, NEW o \in Slots, NEW x \in VaultCall, Consistent(x),
         vaultOp' = [vaultOp EXCEPT ![o] = x], Narrows(vaultOp[o], x), x.pc # "save",
         UNCHANGED <<pending, row, secret, issued>>, chosen' \in Pages \cup {"none"},
         VaultStays \/ UNCHANGED <<trouble, vaultFaults>>,
         vaultOp[o].pc = "mark" => trouble'[V!Provider(o)] = "torn"
  PROVE  VaultInv'
<1>1. VaultGoes(o, x)
  BY DEF VaultGoes
<1>2. VaultStays
  BY DEF VaultInv, VaultTyped, VaultStays
<1>3. /\ VaultTyped' /\ (\A u \in Slots : Consistent(vaultOp'[u]))
      /\ (\A p \in Providers : Apart(p))'
  BY <1>1, <1>2, VaultGoesKeeps
<1>4. (\A u \in Slots : Written(u))' /\ V!ConnectedMeansUsable'
  BY <1>1, <1>2, UsableRests
<1> QED BY <1>3, <1>4 DEF VaultInv

\* A call begins: if it crosses another and one of them is a disconnect, their
\* connections are torn.
LEMMA BeginKeepsVault ==
  ASSUME VaultInv, NEW o \in Slots, NEW x \in VaultCall, Consistent(x),
         x.pc \notin {"idle", "save"}, V!Begin(o, x),
         UNCHANGED <<row, secret, issued, vaultFaults>>, chosen' \in Pages \cup {"none"},
         pending' \in [States -> Providers \cup {"none"}]
  PROVE  VaultInv'
<1> DEFINE others == {u \in Slots : /\ \E p \in V!ToSet(x.todo) : V!Touches(u, p)
                                    /\ {x.call, vaultOp[u].call} # {"list", "select"}}
           tears == \E u \in others : "disconnect" \in {x.call, vaultOp[u].call}
           S == IF others = {} THEN {} ELSE V!ToSet(x.todo)
           how == IF tears THEN "torn" ELSE "crossed"
<1>1. /\ vaultOp[o].pc = "idle" /\ vaultOp' = [vaultOp EXCEPT ![o] = x]
      /\ V!Worsen(S, how)
  BY DEF V!Begin, V!Set
<1>2. VaultTyped /\ how \in {"crossed", "torn"}
  BY DEF VaultInv
<1> HIDE DEF S, how
<1>3. /\ trouble' \in [Providers -> {"none", "crossed", "torn"}]
      /\ \A p \in Providers : /\ trouble[p] = "torn" => trouble'[p] = "torn"
                              /\ p \in S /\ how = "torn" => trouble'[p] = "torn"
  BY <1>1, <1>2, WorsenFacts
<1>4. VaultGoes(o, x) /\ VaultStays
  BY <1>1, <1>3 DEF VaultGoes, VaultStays, VaultInv, VaultTyped
<1>5. /\ VaultTyped' /\ (\A u \in Slots : Consistent(vaultOp'[u]))
      /\ vaultOp'[o] = x /\ \A u \in Slots \ {o} : vaultOp'[u] = vaultOp[u]
  BY <1>4, VaultGoesKeeps
<1>6. (\A u \in Slots : Written(u))' /\ V!ConnectedMeansUsable'
  BY <1>1, <1>4, UsableRests
<1>7. ASSUME NEW p \in Providers, NEW u \in Slots \ {o}, V!Touches(u, p),
             p \in V!ToSet(x.todo), "disconnect" \in {x.call, vaultOp[u].call}
      PROVE  trouble'[p] = "torn"
  <2>1. u \in others
    BY <1>7
  <2>2. p \in S /\ how = "torn"
    BY <1>7, <2>1 DEF S, how
  <2> QED BY <1>3, <2>2
<1>8. ASSUME NEW p \in Providers PROVE Apart(p)'
  <2> SUFFICES ASSUME NEW o1 \in Slots, NEW o2 \in Slots, o1 # o2,
                      V!Touches(o1, p)', V!Touches(o2, p)',
                      "disconnect" \in {vaultOp'[o1].call, vaultOp'[o2].call}
               PROVE  trouble'[p] = "torn"
    BY DEF Apart
  <2>1. CASE o1 = o
    BY <1>5, <1>7, <2>1 DEF V!Touches
  <2>2. CASE o2 = o
    BY <1>5, <1>7, <2>2 DEF V!Touches
  <2>3. CASE o1 # o /\ o2 # o
    <3>1. V!Touches(o1, p) /\ V!Touches(o2, p)
          /\ "disconnect" \in {vaultOp[o1].call, vaultOp[o2].call}
      BY <1>5, <2>3 DEF V!Touches
    <3> QED BY <1>3, <3>1 DEF VaultInv, Apart
  <2> QED BY <2>1, <2>2, <2>3
<1> QED BY <1>5, <1>6, <1>8 DEF VaultInv

\* A call that is over, and bundles that are sound.
LEMMA VaultIdle ==
  /\ V!Idle \in VaultCall /\ Consistent(V!Idle) /\ V!Idle.pc = "idle"
  /\ Whole(V!NoBundle) /\ V!NoBundle \in VaultBundle /\ ~V!NoBundle.user
  /\ V!NoRow \in AnyRow /\ V!NoBundle.pages = {}
  /\ V!Bundle({}, V!None) \in VaultBundle /\ Whole(V!Bundle({}, V!None))
  /\ V!Bundle({}, V!None).user
<1>1. /\ Whole(V!NoBundle) /\ V!NoBundle \in VaultBundle /\ ~V!NoBundle.user
      /\ V!NoBundle.pages = {}
  BY DEF V!NoBundle, Whole, VaultBundle, V!None
<1>2. /\ V!Bundle({}, V!None) \in VaultBundle /\ Whole(V!Bundle({}, V!None))
      /\ V!Bundle({}, V!None).user
  BY DEF V!Bundle, Whole, VaultBundle, V!None
<1>3. V!NoRow \in AnyRow
  BY DEF AnyRow
<1>4. V!Idle \in VaultCall
  BY <1>1, <1>3 DEF V!Idle, V!None, VaultCall, VaultPoints
<1>5. Consistent(V!Idle) /\ V!Idle.pc = "idle"
  <2>1. /\ V!Idle.pc = "idle" /\ V!Idle.call = "none" /\ V!Idle.bundle = V!NoBundle
    BY DEF V!Idle, V!None
  <2> QED BY <1>1, <2>1 DEF Consistent
<1> QED BY <1>1, <1>2, <1>3, <1>4, <1>5

\* The troubles of one step, where there are none.
LEMMA VaultSame ==
  ASSUME VaultInv, UNCHANGED <<pending, issued, trouble, vaultFaults>>,
         row' = [p \in Providers |-> row'[p]], \A p \in Providers : row'[p] \in RowsOf(p),
         secret' \in [V!Refs -> VaultBundle], \A r \in V!Refs : Whole(secret'[r]),
         chosen' \in Pages \cup {"none"}
  PROVE  VaultStays
BY DEF VaultInv, VaultTyped, VaultStays

\* A call that is done with one connection goes on to the next, or is over.
LEMMA VaultAdvances ==
  ASSUME VaultInv, NEW o \in Slots, V!Advance(o), vaultOp[o].pc # "idle",
         vaultOp[o].call # "disconnect",
         vaultOp[o].call \in {"connect", "list"} => vaultOp[o].bundle.user
  PROVE  \E x \in VaultCall : /\ VaultGoes(o, x) /\ Narrows(vaultOp[o], x)
                              /\ x.pc \in {"idle", "find"}
<1> DEFINE y == vaultOp[o]
           x == [y EXCEPT !.pc = "find", !.todo = Tail(@), !.row = V!NoRow]
<1>1. y \in VaultCall /\ Consistent(y) /\ y.todo \in Seq(Providers) /\ y.todo # <<>>
  BY VaultFacts
<1>2. CASE Len(y.todo) = 1
  <2>1. vaultOp' = [vaultOp EXCEPT ![o] = V!Idle]
    BY <1>2 DEF V!Advance, V!Set
  <2> QED BY <2>1, VaultIdle DEF VaultGoes, Narrows
<1>3. CASE Len(y.todo) # 1
  <2>1. vaultOp' = [vaultOp EXCEPT ![o] = x]
    BY <1>3 DEF V!Advance, V!Set
  <2>2. /\ Tail(y.todo) \in Seq(Providers) /\ Tail(y.todo) # <<>>
        /\ V!ToSet(Tail(y.todo)) \subseteq V!ToSet(y.todo)
    BY <1>1, <1>3, ListElements
  <2>3. /\ x.pc = "find" /\ x.call = y.call /\ x.state = y.state /\ x.page = y.page
        /\ x.todo = Tail(y.todo) /\ x.bundle = y.bundle
    BY <1>1 DEF VaultCall
  <2>4. x \in VaultCall
    BY <1>1, <2>2, VaultIdle DEF VaultCall, VaultPoints
  <2> HIDE DEF x
  <2>5. Consistent(x)
    BY <1>1, <2>2, <2>3 DEF Consistent
  <2>6. Narrows(y, x)
    BY <2>2, <2>3 DEF Narrows
  <2> QED BY <2>1, <2>3, <2>4, <2>5, <2>6 DEF VaultGoes
<1> QED BY <1>2, <1>3

\* Advancing changes nothing else here.
LEMMA VaultPasses ==
  ASSUME VaultInv, NEW o \in Slots, V!Advance(o), vaultOp[o].pc \notin {"idle", "mark"},
         vaultOp[o].call # "disconnect",
         vaultOp[o].call \in {"connect", "list"} => vaultOp[o].bundle.user,
         UNCHANGED <<pending, row, secret, issued, trouble, vaultFaults>>,
         chosen' \in Pages \cup {"none"}
  PROVE  VaultInv'
<1>1. PICK x \in VaultCall : /\ VaultGoes(o, x) /\ Narrows(vaultOp[o], x)
                             /\ x.pc \in {"idle", "find"}
  BY VaultAdvances
<1> QED BY <1>1, VaultGoesOn DEF VaultGoes

-----------------------------------------------------------------------------
(* The actions of a connection *)

\* Authorisations are handed out, and forgotten.
LEMMA PendingKeepsVault ==
  ASSUME VaultInv, NEW s \in States,
         V!Expire(s) \/ \E p \in Providers : V!StartAuthorize(s, p)
  PROVE  VaultInv'
<1>1. /\ pending' \in [States -> Providers \cup {"none"}] /\ issued' \subseteq States
      /\ UNCHANGED <<row, secret, vaultOp, chosen, trouble, vaultFaults>>
  BY DEF V!Expire, V!StartAuthorize, VaultInv, VaultTyped, V!None
<1>2. VaultTyped'
  BY <1>1 DEF VaultInv, VaultTyped
<1> QED BY <1>1, <1>2 DEF VaultInv, Written, Apart, V!ConnectedMeansUsable, V!Resolved,
         V!Provider, V!RefFor, V!IdFor, V!Touches

\* A callback begins to connect.
LEMMA CallbackKeepsVault ==
  ASSUME VaultInv, NEW o \in Slots, NEW s \in States, V!Callback(o, s)
  PROVE  VaultInv'
<1> DEFINE x == [V!Idle EXCEPT !.pc = IF pending[s] \in V!Meta THEN "fetch" ELSE "find",
                               !.call = "connect", !.state = s,
                               !.todo = V!Saved(pending[s]),
                               !.bundle = V!Bundle({}, V!None)]
<1>1. /\ pending \in [States -> Providers \cup {"none"}] /\ pending[s] # "none"
      /\ chosen \in Pages \cup {"none"}
  BY DEF VaultInv, VaultTyped, V!Callback, V!None
<1>2. V!Saved(pending[s]) \in Seq(Providers) /\ V!Saved(pending[s]) # <<>>
  BY <1>1, SavedFacts
<1>3. /\ x.pc \in {"fetch", "find"} /\ x.call = "connect" /\ x.state = s
      /\ x.todo = V!Saved(pending[s]) /\ x.bundle = V!Bundle({}, V!None)
  BY DEF V!Idle
<1>4. x \in VaultCall
  BY <1>2, VaultIdle DEF VaultCall, VaultPoints
<1>5. /\ V!Begin(o, x) /\ UNCHANGED <<row, secret, issued, vaultFaults>>
      /\ pending' \in [States -> Providers \cup {"none"}] /\ chosen' \in Pages \cup {"none"}
  BY <1>1 DEF V!Callback, V!None
<1> HIDE DEF x
<1>6. Consistent(x)
  BY <1>2, <1>3, VaultIdle DEF Consistent
<1> QED BY <1>3, <1>4, <1>5, <1>6, BeginKeepsVault

\* A disconnect begins.
LEMMA DisconnectKeepsVault ==
  ASSUME VaultInv, NEW o \in Slots, NEW p \in Providers, V!Disconnect(o, p)
  PROVE  VaultInv'
<1> DEFINE x == [V!Idle EXCEPT !.pc = "find", !.call = "disconnect", !.todo = <<p>>]
<1>1. /\ x.pc = "find" /\ x.call = "disconnect" /\ x.todo = <<p>>
      /\ x.bundle = V!NoBundle
  BY DEF V!Idle
<1>2. <<p>> \in Seq(Providers) /\ <<p>> # <<>>
  OBVIOUS
<1>3. x \in VaultCall
  BY <1>2, VaultIdle DEF VaultCall, VaultPoints
<1>4. V!Begin(o, x) /\ UNCHANGED <<pending, row, secret, issued, chosen, vaultFaults>>
  BY DEF V!Disconnect
<1> HIDE DEF x
<1>5. Consistent(x)
  BY <1>1, <1>2, VaultIdle DEF Consistent
<1> QED BY <1>1, <1>3, <1>4, <1>5, BeginKeepsVault DEF VaultInv, VaultTyped

\* The list of both Meta connections names providers.
LEMMA BothAreProviders ==
  ASSUME V!Meta # {}
  PROVE  Both \in Seq(Providers) /\ Both # <<>> /\ Both = V!SetToSeq(V!Meta)
<1>1. PICK p \in V!Meta : p \in Providers
  BY DEF V!Meta
<1>2. V!Saved(p) = V!SetToSeq(V!Meta)
  BY <1>1 DEF V!Saved
<1> QED BY <1>1, <1>2, SavedFacts DEF Both

\* A selection begins.
LEMMA SelectPageKeepsVault ==
  ASSUME VaultInv, NEW o \in Slots, NEW page \in Pages, V!SelectPage(o, page)
  PROVE  VaultInv'
<1> DEFINE x == [V!Idle EXCEPT !.pc = "find", !.call = "select", !.page = page,
                               !.todo = V!SetToSeq(V!Meta)]
<1>1. V!SetToSeq(V!Meta) \in Seq(Providers) /\ V!SetToSeq(V!Meta) # <<>>
  BY BothAreProviders DEF V!SelectPage
<1>2. /\ x.pc = "find" /\ x.call = "select" /\ x.page = page
      /\ x.todo = V!SetToSeq(V!Meta) /\ x.bundle = V!NoBundle
  BY DEF V!Idle
<1>3. x \in VaultCall
  BY <1>1, VaultIdle DEF VaultCall, VaultPoints
<1>4. V!Begin(o, x) /\ UNCHANGED <<pending, row, secret, issued, chosen, vaultFaults>>
  BY DEF V!SelectPage
<1> HIDE DEF x
<1>5. Consistent(x)
  BY <1>1, <1>2, VaultIdle DEF Consistent
<1> QED BY <1>2, <1>3, <1>4, <1>5, BeginKeepsVault DEF VaultInv, VaultTyped

\* A list of pages begins.
LEMMA ListPagesKeepsVault ==
  ASSUME VaultInv, NEW o \in Slots, NEW p \in Providers, V!ListPages(o, p)
  PROVE  VaultInv'
<1> DEFINE x == [V!Idle EXCEPT !.pc = "read", !.call = "list",
                               !.todo = V!SetToSeq(V!Meta), !.row = row[p]]
<1>1. V!SetToSeq(V!Meta) \in Seq(Providers) /\ V!SetToSeq(V!Meta) # <<>>
  BY BothAreProviders DEF V!ListPages
<1>2. row[p].status = "connected" /\ row[p] \in AnyRow
  BY OwnApart DEF V!ListPages, VaultInv, VaultTyped
<1>3. /\ x.pc = "read" /\ x.call = "list" /\ x.row = row[p]
      /\ x.todo = V!SetToSeq(V!Meta) /\ x.bundle = V!NoBundle
  BY DEF V!Idle
<1>4. x \in VaultCall
  BY <1>1, <1>2, VaultIdle DEF VaultCall, VaultPoints
<1>5. V!Begin(o, x) /\ UNCHANGED <<pending, row, secret, issued, chosen, vaultFaults>>
  BY DEF V!ListPages
<1> HIDE DEF x
<1>6. Consistent(x)
  BY <1>1, <1>2, <1>3, VaultIdle DEF Consistent
<1> QED BY <1>3, <1>4, <1>5, <1>6, BeginKeepsVault DEF VaultInv, VaultTyped

\* What Meta lists is a bundle with its preferred page.
LEMMA ListedIsSound ==
  ASSUME NEW pages \in Listings
  PROVE  /\ V!Listed(pages) \in VaultBundle /\ Whole(V!Listed(pages))
         /\ V!Listed(pages).user /\ V!Listed(pages).pages = pages
<1>1. pages \subseteq Pages
  BY ServicesAssumption
<1>2. V!Cardinality({}) = 0
  BY FS_EmptySet DEF V!Cardinality, Cardinality, V!IsFiniteSet, IsFiniteSet
<1>3. V!Preferred(pages) \in pages \cup {"none"}
  <2>1. CASE pages \cap Allotech # {}
    BY <2>1 DEF V!Preferred
  <2>2. CASE pages \cap Allotech = {}
    BY <1>2, <2>2 DEF V!Preferred, V!None
  <2> QED BY <2>1, <2>2
<1> QED BY <1>1, <1>3 DEF V!Listed, V!Bundle, VaultBundle, Whole

\* Meta answers with pages.
LEMMA FetchPagesKeepsVault ==
  ASSUME VaultInv, NEW o \in Slots, NEW pages \in Listings, V!FetchPages(o, pages)
  PROVE  VaultInv'
<1> DEFINE y == vaultOp[o]
           x == [y EXCEPT !.pc = "find", !.row = V!NoRow, !.bundle = V!Listed(pages)]
<1>1. /\ y \in VaultCall /\ Consistent(y) /\ y.pc = "fetch"
      /\ UNCHANGED <<pending, row, secret, issued, chosen, trouble, vaultFaults>>
      /\ chosen' \in Pages \cup {"none"}
  BY VaultFacts DEF V!FetchPages, VaultInv, VaultTyped
<1>2. CASE vaultOp' = [vaultOp EXCEPT ![o] = x]
  <2>1. /\ x.pc = "find" /\ x.call = y.call /\ x.state = y.state /\ x.page = y.page
        /\ x.todo = y.todo /\ x.bundle = V!Listed(pages)
    BY <1>1 DEF VaultCall
  <2>2. x \in VaultCall
    BY <1>1, ListedIsSound, VaultIdle DEF VaultCall, VaultPoints
  <2> HIDE DEF x
  <2>3. Consistent(x)
    BY <1>1, <2>1, ListedIsSound DEF Consistent
  <2>4. Narrows(y, x)
    BY <1>1, <2>1 DEF Narrows
  <2> QED BY <1>1, <1>2, <2>1, <2>2, <2>3, <2>4, VaultGoesOn
<1>3. CASE vaultOp' = [vaultOp EXCEPT ![o] = V!Idle]
  BY <1>1, <1>3, VaultIdle, VaultGoesOn DEF Narrows
<1> QED BY <1>2, <1>3 DEF V!FetchPages, V!Set

\* A row is found, or none.
LEMMA FindKeepsVault ==
  ASSUME VaultInv, NEW o \in Slots, V!Find(o)
  PROVE  VaultInv'
<1> DEFINE y == vaultOp[o]
           p == V!Provider(o)
           found == row[p]
<1>1. /\ y \in VaultCall /\ Consistent(y) /\ y.pc = "find"
      /\ UNCHANGED <<pending, row, secret, issued, chosen, trouble, vaultFaults>>
      /\ chosen' \in Pages \cup {"none"}
  BY VaultFacts DEF V!Find, VaultInv, VaultTyped
<1>2. found \in RowsOf(p) /\ found \in AnyRow /\ p = Head(y.todo)
  BY <1>1, VaultFacts, OwnApart DEF VaultInv, VaultTyped, V!Provider
<1> HIDE DEF p, found
<1>3. ASSUME NEW pc \in {"put", "read", "again", "erase"},
             vaultOp' = [vaultOp EXCEPT ![o] = [y EXCEPT !.pc = pc, !.row = found]],
             pc = "put" => y.call # "disconnect" /\ y.bundle.user,
             pc = "put" /\ y.call # "connect" => found.status = "connected",
             pc = "read" => y.call = "select" /\ found.status = "connected",
             pc \in {"again", "erase"} => y.call = "disconnect",
             pc = "erase" => found # V!NoRow
      PROVE  VaultInv'
  <2> DEFINE x == [y EXCEPT !.pc = pc, !.row = found]
  <2>1. /\ x.pc = pc /\ x.call = y.call /\ x.state = y.state /\ x.page = y.page
        /\ x.todo = y.todo /\ x.row = found /\ x.bundle = y.bundle
    BY <1>1 DEF VaultCall
  <2>2. x \in VaultCall
    BY <1>1, <1>2 DEF VaultCall, VaultPoints
  <2>3. vaultOp' = [vaultOp EXCEPT ![o] = x]
    BY <1>3
  <2> HIDE DEF x
  <2>4. Consistent(x)
    BY <1>1, <1>2, <1>3, <2>1 DEF Consistent
  <2>5. Narrows(y, x)
    BY <1>1, <2>1 DEF Narrows
  <2> QED BY <1>1, <1>3, <2>1, <2>2, <2>3, <2>4, <2>5, VaultGoesOn
<1>4. CASE y.call = "connect"
  <2>1. vaultOp' = [vaultOp EXCEPT ![o] = [y EXCEPT !.pc = "put", !.row = found]]
    BY <1>4 DEF V!Find, V!Set, p, found
  <2> QED BY <1>1, <1>3, <1>4, <2>1 DEF Consistent
<1>5. CASE y.call = "disconnect"
  <2>1. CASE found = V!NoRow
    <3>1. vaultOp' = [vaultOp EXCEPT ![o] = [y EXCEPT !.pc = "again", !.row = found]]
      BY <1>5, <2>1 DEF V!Find, V!Set, p, found
    <3> QED BY <1>3, <1>5, <3>1
  <2>2. CASE found # V!NoRow
    <3>1. vaultOp' = [vaultOp EXCEPT ![o] = [y EXCEPT !.pc = "erase", !.row = found]]
      BY <1>5, <2>2 DEF V!Find, V!Set, p, found
    <3> QED BY <1>3, <1>5, <2>2, <3>1
  <2> QED BY <2>1, <2>2
<1>6. CASE y.call \in {"select", "list"}
  <2>1. CASE found.status # "connected"
    <3>1. V!Advance(o)
      BY <1>6, <2>1 DEF V!Find, p, found
    <3> QED BY <1>1, <1>6, <3>1, VaultPasses DEF Consistent
  <2>2. CASE found.status = "connected" /\ y.call = "select"
    <3>1. vaultOp' = [vaultOp EXCEPT ![o] = [y EXCEPT !.pc = "read", !.row = found]]
      BY <2>2 DEF V!Find, V!Set, p, found
    <3> QED BY <1>3, <2>2, <3>1
  <2>3. CASE found.status = "connected" /\ y.call = "list"
    <3>1. vaultOp' = [vaultOp EXCEPT ![o] = [y EXCEPT !.pc = "put", !.row = found]]
      BY <2>3 DEF V!Find, V!Set, p, found
    <3> QED BY <1>1, <1>3, <2>3, <3>1 DEF Consistent
  <2> QED BY <1>6, <2>1, <2>2, <2>3
<1>7. y.call \in {"connect", "disconnect", "select", "list"}
  BY <1>1 DEF VaultCall, Consistent
<1> QED BY <1>4, <1>5, <1>6, <1>7

\* A list reads the bundle.
LEMMA ReadToListKeepsVault ==
  ASSUME VaultInv, NEW o \in Slots, V!ReadToList(o)
  PROVE  VaultInv'
<1> DEFINE y == vaultOp[o]
           read == secret[y.row.ref]
           x == [y EXCEPT !.pc = "fetch", !.bundle = read]
<1>1. /\ y \in VaultCall /\ Consistent(y) /\ y.pc = "read" /\ y.call = "list"
      /\ UNCHANGED <<pending, row, secret, issued, chosen, trouble, vaultFaults>>
      /\ chosen' \in Pages \cup {"none"}
  BY VaultFacts DEF V!ReadToList, VaultInv, VaultTyped
<1>2. read \in VaultBundle /\ Whole(read)
  <2>1. y.row # V!NoRow
    BY <1>1 DEF Consistent, V!NoRow
  <2>2. y.row.ref \in V!Refs
    BY <1>1, <2>1 DEF VaultCall, AnyRow
  <2> QED BY <2>2 DEF VaultInv, VaultTyped
<1> HIDE DEF read
<1>3. CASE vaultOp' = [vaultOp EXCEPT ![o] = x] /\ read # V!NoBundle
  <2>1. /\ x.pc = "fetch" /\ x.call = y.call /\ x.state = y.state /\ x.page = y.page
        /\ x.todo = y.todo /\ x.bundle = read
    BY <1>1 DEF VaultCall
  <2>2. x \in VaultCall
    BY <1>1, <1>2 DEF VaultCall, VaultPoints
  <2> HIDE DEF x
  <2>3. Consistent(x)
    BY <1>1, <1>2, <1>3, <2>1 DEF Consistent, Whole
  <2>4. Narrows(y, x)
    BY <1>1, <2>1 DEF Narrows
  <2> QED BY <1>1, <1>3, <2>1, <2>2, <2>3, <2>4, VaultGoesOn
<1>4. CASE vaultOp' = [vaultOp EXCEPT ![o] = V!Idle]
  BY <1>1, <1>4, VaultIdle, VaultGoesOn DEF Narrows
<1> QED BY <1>3, <1>4 DEF V!ReadToList, V!Set, read

\* A selection reads the bundle, and chooses a page of it.
LEMMA ReadToSelectKeepsVault ==
  ASSUME VaultInv, NEW o \in Slots, V!ReadToSelect(o)
  PROVE  VaultInv'
<1> DEFINE y == vaultOp[o]
           read == secret[y.row.ref]
           b == [read EXCEPT !.page = y.page]
           x == [y EXCEPT !.pc = "put", !.bundle = b]
<1>1. /\ y \in VaultCall /\ Consistent(y) /\ y.pc = "read" /\ y.call = "select"
      /\ UNCHANGED <<pending, row, secret, issued, trouble, vaultFaults>>
      /\ chosen' \in Pages \cup {"none"}
  BY VaultFacts DEF V!ReadToSelect, VaultInv, VaultTyped, V!None
<1>2. read \in VaultBundle /\ Whole(read)
  <2>1. y.row # V!NoRow
    BY <1>1 DEF Consistent, V!NoRow
  <2>2. y.row.ref \in V!Refs
    BY <1>1, <2>1 DEF VaultCall, AnyRow
  <2> QED BY <2>2 DEF VaultInv, VaultTyped
<1> HIDE DEF read
<1>3. CASE V!Advance(o)
  BY <1>1, <1>3, VaultPasses
<1>4. CASE /\ vaultOp' = [vaultOp EXCEPT ![o] = x]
           /\ read # V!NoBundle /\ y.page \in read.pages
  <2>1. b \in VaultBundle /\ Whole(b) /\ b.user
    BY <1>1, <1>2, <1>4 DEF VaultBundle, Whole, VaultCall
  <2> HIDE DEF b
  <2>2. /\ x.pc = "put" /\ x.call = y.call /\ x.state = y.state /\ x.page = y.page
        /\ x.todo = y.todo /\ x.row = y.row /\ x.bundle = b
    BY <1>1 DEF VaultCall
  <2>3. x \in VaultCall
    BY <1>1, <2>1 DEF VaultCall, VaultPoints
  <2> HIDE DEF x
  <2>4. Consistent(x)
    BY <1>1, <2>1, <2>2 DEF Consistent
  <2>5. Narrows(y, x)
    BY <1>1, <2>2 DEF Narrows
  <2>6. vaultOp' = [vaultOp EXCEPT ![o] = x]
    BY <1>4
  <2> QED BY <1>1, <2>2, <2>3, <2>4, <2>5, <2>6, VaultGoesOn
<1>5. CASE vaultOp' = [vaultOp EXCEPT ![o] = V!Idle]
  BY <1>1, <1>5, VaultIdle, VaultGoesOn DEF Narrows
<1> QED BY <1>3, <1>4, <1>5 DEF V!ReadToSelect, V!Set, read

\* The secret is written: no reference loses one.
LEMMA PutKeepsVault ==
  ASSUME VaultInv, NEW o \in Slots, V!Put(o)
  PROVE  VaultInv'
<1> DEFINE y == vaultOp[o]
           ref == V!RefFor(o)
           x == [y EXCEPT !.pc = "save"]
<1>1. /\ y \in VaultCall /\ Consistent(y) /\ y.pc = "put"
      /\ secret' = [secret EXCEPT ![ref] = y.bundle]
      /\ UNCHANGED <<pending, row, issued, chosen, trouble, vaultFaults>>
  BY VaultFacts DEF V!Put
<1>2. /\ ref \in V!Refs /\ y.bundle \in VaultBundle /\ Whole(y.bundle) /\ y.bundle.user
      /\ y.call # "disconnect"
  BY <1>1, RefIsOwn, VaultFacts, OwnApart DEF Consistent, VaultCall
<1>3. /\ secret' \in [V!Refs -> VaultBundle] /\ (\A r \in V!Refs : Whole(secret'[r]))
      /\ \A r \in V!Refs : secret[r].user => secret'[r].user
      /\ secret'[ref].user
  BY <1>1, <1>2 DEF VaultInv, VaultTyped
<1>4. VaultStays
  BY <1>1, <1>3 DEF VaultInv, VaultTyped, VaultStays
<1>5. \E z \in VaultCall : /\ VaultGoes(o, z) /\ Narrows(y, z)
                           /\ z.pc \in {"idle", "find"} \/ z = x
  <2>1. CASE V!Advance(o)
    BY <1>1, <1>2, <2>1, VaultAdvances
  <2>2. CASE vaultOp' = [vaultOp EXCEPT ![o] = x]
    <3>1. /\ x.pc = "save" /\ x.call = y.call /\ x.state = y.state /\ x.page = y.page
          /\ x.todo = y.todo /\ x.row = y.row /\ x.bundle = y.bundle
      BY <1>1 DEF VaultCall
    <3>2. x \in VaultCall
      BY <1>1 DEF VaultCall, VaultPoints
    <3> HIDE DEF x
    <3>3. Consistent(x)
      BY <1>1, <3>1 DEF Consistent
    <3>4. Narrows(y, x)
      BY <1>1, <3>1 DEF Narrows
    <3> QED BY <2>2, <3>2, <3>3, <3>4 DEF VaultGoes
  <2> QED BY <2>1, <2>2 DEF V!Put, V!Set
<1>6. PICK z \in VaultCall : /\ VaultGoes(o, z) /\ Narrows(y, z)
                             /\ z.pc \in {"idle", "find"} \/ z = x
  BY <1>5
<1>7. /\ VaultTyped' /\ (\A u \in Slots : Consistent(vaultOp'[u]))
      /\ (\A p \in Providers : Apart(p))'
      /\ vaultOp'[o] = z /\ \A u \in Slots \ {o} : vaultOp'[u] = vaultOp[u]
  BY <1>4, <1>6, VaultGoesKeeps
<1>8. ASSUME NEW u \in Slots PROVE Written(u)'
  <2>1. CASE u = o
    <3>1. CASE z = x
      <4>1. /\ x.call = y.call /\ x.state = y.state /\ x.todo = y.todo /\ x.row = y.row
        BY <1>1 DEF VaultCall
      <4> HIDE DEF x
      <4>2. V!RefFor(o)' = ref
        BY <1>7, <3>1, <4>1 DEF V!RefFor, V!IdFor, V!Provider
      <4> QED BY <1>3, <2>1, <4>2 DEF Written
    <3>2. CASE z.pc \in {"idle", "find"}
      BY <1>7, <2>1, <3>2 DEF Written
    <3> QED BY <1>6, <3>1, <3>2
  <2>2. CASE u # o
    <3>1. vaultOp'[u] = vaultOp[u] /\ Written(u)
      BY <1>7, <2>2, VaultFacts
    <3>2. vaultOp[u].pc = "save" => V!RefFor(u) \in V!Refs
      BY RefIsOwn, VaultFacts, OwnApart
    <3> QED BY <1>1, <1>3, <3>1, <3>2 DEF Written, V!RefFor, V!IdFor, V!Provider
  <2> QED BY <2>1, <2>2
<1>9. ASSUME NEW p \in Providers, row[p].status = "connected", trouble[p] # "torn"
      PROVE  \/ secret'[row[p].ref] # V!NoBundle
             \/ \E u \in Slots : vaultOp'[u].pc = "mark" /\ Head(vaultOp'[u].todo) = p
  <2>1. row[p].ref \in V!Refs
    BY <1>9, OwnApart DEF VaultInv, VaultTyped
  <2>2. CASE V!Resolved(p) # V!NoBundle
    <3>1. secret[row[p].ref].user
      BY <1>9, <2>1, <2>2 DEF V!Resolved, VaultInv, VaultTyped, Whole
    <3> QED BY <1>3, <2>1, <3>1, VaultIdle
  <2>3. CASE \E u \in Slots : vaultOp[u].pc = "mark" /\ V!Provider(u) = p
    <3>1. PICK u \in Slots : vaultOp[u].pc = "mark" /\ V!Provider(u) = p
      BY <2>3
    <3> QED BY <1>1, <1>7, <3>1 DEF V!Provider
  <2> QED BY <1>9, <2>2, <2>3 DEF VaultInv, V!ConnectedMeansUsable
<1>10. V!ConnectedMeansUsable'
  BY <1>1, <1>9 DEF V!ConnectedMeansUsable, V!Resolved, V!Provider
<1> QED BY <1>7, <1>8, <1>10 DEF VaultInv

\* One row is written, and the secrets stay: its connection has its secret if
\* it shows as connected.
LEMMA RowIsWritten ==
  ASSUME VaultInv, NEW o \in Slots, NEW x, VaultGoes(o, x), Narrows(vaultOp[o], x),
         x.pc \notin {"save", "mark"}, vaultOp[o].pc # "idle",
         NEW r \in RowsOf(V!Provider(o)), row' = [row EXCEPT ![V!Provider(o)] = r],
         chosen' \in Pages \cup {"none"},
         UNCHANGED <<pending, secret, issued, trouble, vaultFaults>>,
         vaultOp[o].pc = "mark" => r.status # "connected",
         r.status = "connected" /\ trouble[V!Provider(o)] # "torn" =>
            \/ secret[r.ref].user
            \/ r = row[V!Provider(o)]
  PROVE  VaultInv'
<1> DEFINE p == V!Provider(o)
<1>1. p \in Providers
  BY VaultFacts
<1>2. /\ row' = [q \in Providers |-> row'[q]] /\ row'[p] = r
      /\ \A q \in Providers \ {p} : row'[q] = row[q]
  BY <1>1 DEF VaultInv, VaultTyped
<1> HIDE DEF p
<1>3. \A q \in Providers : row'[q] \in RowsOf(q)
  BY <1>2 DEF VaultInv, VaultTyped, p
<1>4. VaultStays
  BY <1>2, <1>3 DEF VaultInv, VaultTyped, VaultStays
<1>5. /\ VaultTyped' /\ (\A u \in Slots : Consistent(vaultOp'[u]))
      /\ (\A q \in Providers : Apart(q))'
      /\ vaultOp'[o] = x /\ \A u \in Slots \ {o} : vaultOp'[u] = vaultOp[u]
  BY <1>4, VaultGoesKeeps
<1>6. ASSUME NEW u \in Slots PROVE Written(u)'
  <2>1. CASE u = o
    BY <1>5, <2>1 DEF Written
  <2>2. CASE u # o
    <3>1. vaultOp'[u] = vaultOp[u] /\ Written(u)
      BY <1>5, <2>2, VaultFacts
    <3> QED BY <3>1 DEF Written, V!RefFor, V!IdFor, V!Provider
  <2> QED BY <2>1, <2>2
<1>7. ASSUME NEW q \in Providers, row'[q].status = "connected", trouble[q] # "torn"
      PROVE  \/ secret[row'[q].ref] # V!NoBundle
             \/ \E u \in Slots : vaultOp'[u].pc = "mark" /\ Head(vaultOp'[u].todo) = q
  <2>1. CASE q = p /\ secret[r.ref].user
    BY <1>2, <2>1, VaultIdle
  <2>2. CASE q # p \/ r = row[p]
    <3>1. row'[q] = row[q]
      BY <1>2, <2>2
    <3>2. ASSUME NEW u \in Slots, vaultOp[u].pc = "mark", V!Provider(u) = q
          PROVE  vaultOp'[u].pc = "mark" /\ Head(vaultOp'[u].todo) = q
      <4>1. u # o
        <5>1. CASE q # p
          BY <3>2, <5>1 DEF p
        <5>2. CASE q = p /\ r = row[p]
          BY <1>2, <1>7, <3>2, <5>2 DEF p
        <5> QED BY <2>2, <5>1, <5>2
      <4> QED BY <1>5, <3>2, <4>1 DEF V!Provider
    <3>3. \/ V!Resolved(q) # V!NoBundle
          \/ \E u \in Slots : vaultOp[u].pc = "mark" /\ V!Provider(u) = q
      BY <1>7, <3>1 DEF VaultInv, V!ConnectedMeansUsable
    <3> QED BY <1>7, <3>1, <3>2, <3>3 DEF V!Resolved
  <2>3. q = p => secret[r.ref].user \/ r = row[p]
    BY <1>2, <1>7 DEF p
  <2> QED BY <2>1, <2>2, <2>3
<1>8. V!ConnectedMeansUsable'
  BY <1>7 DEF V!ConnectedMeansUsable, V!Resolved, V!Provider
<1> QED BY <1>5, <1>6, <1>8 DEF VaultInv

\* What upsert leaves is a row of its connection.
LEMMA ConnectionRow ==
  ASSUME NEW p \in Providers, NEW old \in RowsOf(p), NEW id \in Own(p), NEW ref \in Own(p),
         NEW status \in {"connected", "revoked"}
  PROVE  [status |-> status, ref |-> ref, id |-> IF old = V!NoRow THEN id ELSE old.id]
            \in RowsOf(p)
<1> DEFINE n == IF old = V!NoRow THEN id ELSE old.id
<1>1. n \in Own(p)
  BY DEF RowsOf
<1> HIDE DEF n
<1>2. [status |-> status, ref |-> ref, id |-> n] \in RowsOf(p)
  BY <1>1 DEF RowsOf
<1> QED BY <1>2 DEF n

\* The row is saved, after its secret.
LEMMA SaveKeepsVault ==
  ASSUME VaultInv, NEW o \in Slots, V!Save(o)
  PROVE  VaultInv'
<1> DEFINE y == vaultOp[o]
           p == V!Provider(o)
           id == IF y.call = "connect" THEN V!IdFor(o) ELSE y.row.id
           r == [status |-> "connected", ref |-> V!RefFor(o),
                 id |-> IF row[p] = V!NoRow THEN id ELSE row[p].id]
<1>1. /\ y \in VaultCall /\ Consistent(y) /\ y.pc = "save" /\ Written(o)
      /\ UNCHANGED <<pending, secret, issued, trouble, vaultFaults>>
      /\ chosen' \in Pages \cup {"none"} /\ V!Advance(o) /\ p \in Providers
  <2>1. /\ y \in VaultCall /\ Consistent(y) /\ y.pc = "save" /\ Written(o)
        /\ p \in Providers
    BY VaultFacts DEF V!Save
  <2>2. y.page \in Pages \cup {"none"} /\ chosen \in Pages \cup {"none"}
    BY <2>1 DEF VaultCall, VaultInv, VaultTyped
  <2> QED BY <2>1, <2>2 DEF V!Save
<1>2. row' = [row EXCEPT ![p] = r]
  BY DEF V!Save, V!Upsert, V!RefFor
<1>3. y.bundle.user /\ y.call # "disconnect"
  BY <1>1 DEF Consistent
<1>4. row[p] \in RowsOf(p) /\ V!RefFor(o) \in Own(p)
  BY <1>1, RefIsOwn DEF VaultInv, VaultTyped
<1>5. id \in Own(p)
  <2>1. CASE y.call = "connect"
    BY <1>1, <2>1, RefIsOwn
  <2>2. CASE y.call # "connect"
    <3>1. y.row.status = "connected" /\ y.row \in RowsOf(p)
      BY <1>1, <2>2 DEF Consistent, V!Provider
    <3>2. y.row # V!NoRow
      BY <3>1, OwnApart
    <3> QED BY <2>2, <3>1, <3>2 DEF RowsOf
  <2> QED BY <2>1, <2>2
<1> HIDE DEF id, p
<1>6. r \in RowsOf(p) /\ r.ref = V!RefFor(o)
  BY <1>1, <1>4, <1>5, ConnectionRow
<1>7. trouble[p] # "torn" => secret[V!RefFor(o)].user
  BY <1>1 DEF Written, p
<1>8. PICK x \in VaultCall : VaultGoes(o, x) /\ Narrows(y, x) /\ x.pc \in {"idle", "find"}
  BY <1>1, <1>3, VaultAdvances
<1> HIDE DEF r
<1> QED BY <1>1, <1>2, <1>6, <1>7, <1>8, RowIsWritten DEF p

\* The secret goes first when a connection is given up, and the row follows.
LEMMA EraseKeepsVault ==
  ASSUME VaultInv, NEW o \in Slots, V!Erase(o)
  PROVE  VaultInv'
<1> DEFINE y == vaultOp[o]
           p == V!Provider(o)
           ref == y.row.ref
           x == [y EXCEPT !.pc = "mark"]
<1>1. /\ y \in VaultCall /\ Consistent(y) /\ y.pc = "erase" /\ p \in Providers
      /\ V!Touches(o, p) /\ ref \in Own(p) /\ ref \in V!Refs
      /\ secret' = [secret EXCEPT ![ref] = V!NoBundle]
      /\ vaultOp' = [vaultOp EXCEPT ![o] = x]
      /\ UNCHANGED <<pending, row, issued, chosen, trouble, vaultFaults>>
  BY VaultFacts, RefIsOwn, OwnApart DEF V!Erase, V!Set
<1>2. y.call = "disconnect"
  BY <1>1 DEF VaultCall, Consistent
<1> HIDE DEF p, ref
<1>3. /\ secret' \in [V!Refs -> VaultBundle] /\ (\A r \in V!Refs : Whole(secret'[r]))
      /\ \A r \in V!Refs : r \notin Own(p) => secret'[r] = secret[r]
  BY <1>1, VaultIdle DEF VaultInv, VaultTyped
<1>4. VaultStays
  BY <1>1, <1>3 DEF VaultInv, VaultTyped, VaultStays
<1>5. /\ x.pc = "mark" /\ x.call = y.call /\ x.state = y.state /\ x.page = y.page
      /\ x.todo = y.todo /\ x.row = y.row /\ x.bundle = y.bundle
  BY <1>1 DEF VaultCall
<1>6. x \in VaultCall
  BY <1>1 DEF VaultCall, VaultPoints
<1> HIDE DEF x
<1>7. Consistent(x) /\ Narrows(y, x)
  BY <1>1, <1>2, <1>5 DEF Consistent, Narrows
<1>8. /\ VaultTyped' /\ (\A u \in Slots : Consistent(vaultOp'[u]))
      /\ (\A q \in Providers : Apart(q))'
      /\ vaultOp'[o] = x /\ \A u \in Slots \ {o} : vaultOp'[u] = vaultOp[u]
  BY <1>1, <1>4, <1>6, <1>7, VaultGoesKeeps DEF VaultGoes
<1>9. ASSUME NEW u \in Slots PROVE Written(u)'
  <2>1. CASE u = o
    BY <1>5, <1>8, <2>1 DEF Written
  <2>2. CASE u # o /\ vaultOp[u].pc = "save"
    <3>1. vaultOp'[u] = vaultOp[u] /\ Written(u)
      BY <1>8, <2>2, VaultFacts
    <3>2. /\ V!RefFor(u) \in Own(V!Provider(u)) /\ V!RefFor(u) \in V!Refs
          /\ V!Provider(u) \in Providers /\ V!Touches(u, V!Provider(u))
      BY <2>2, RefIsOwn, VaultFacts, OwnApart
    <3>3. CASE V!Provider(u) = p
      <4>1. trouble[p] = "torn"
        BY <1>1, <1>2, <2>2, <3>2, <3>3 DEF VaultInv, Apart
      <4>2. Head(vaultOp'[u].todo) = p
        BY <3>1, <3>3 DEF V!Provider
      <4> QED BY <1>1, <4>1, <4>2 DEF Written, V!Provider
    <3>4. CASE V!Provider(u) # p
      <4>1. V!RefFor(u) \notin Own(p)
        BY <3>2, <3>4, OwnApart
      <4>2. secret'[V!RefFor(u)] = secret[V!RefFor(u)]
        BY <1>3, <3>2, <4>1
      <4>3. V!RefFor(u)' = V!RefFor(u) /\ V!Provider(u)' = V!Provider(u)
        BY <3>1 DEF V!RefFor, V!IdFor, V!Provider
      <4>4. Written(u)' <=> (/\ vaultOp[u].pc = "save" /\ trouble[V!Provider(u)] # "torn"
                             => secret'[V!RefFor(u)].user)
        BY <1>1, <3>1, <4>3 DEF Written
      <4> QED BY <3>1, <4>2, <4>4 DEF Written
    <3> QED BY <3>3, <3>4
  <2>3. CASE u # o /\ vaultOp[u].pc # "save"
    BY <1>8, <2>3 DEF Written
  <2> QED BY <2>1, <2>2, <2>3
<1>10. ASSUME NEW q \in Providers, row[q].status = "connected", trouble[q] # "torn"
       PROVE  \/ secret'[row[q].ref] # V!NoBundle
              \/ \E u \in Slots : vaultOp'[u].pc = "mark" /\ Head(vaultOp'[u].todo) = q
  <2>1. CASE q = p
    BY <1>5, <1>8, <2>1 DEF V!Provider, p
  <2>2. CASE q # p
    <3>1. row[q].ref \in Own(q) /\ row[q].ref \in V!Refs /\ row[q].ref \notin Own(p)
      BY <1>10, <2>2, OwnApart DEF VaultInv, VaultTyped
    <3>2. secret'[row[q].ref] = secret[row[q].ref]
      BY <1>3, <3>1
    <3>3. \/ V!Resolved(q) # V!NoBundle
          \/ \E u \in Slots : vaultOp[u].pc = "mark" /\ V!Provider(u) = q
      BY <1>10 DEF VaultInv, V!ConnectedMeansUsable
    <3>4. ASSUME NEW u \in Slots, vaultOp[u].pc = "mark", V!Provider(u) = q
          PROVE  vaultOp'[u].pc = "mark" /\ Head(vaultOp'[u].todo) = q
      <4>1. u # o
        BY <1>1, <3>4
      <4> QED BY <1>8, <3>4, <4>1 DEF V!Provider
    <3> QED BY <1>10, <3>2, <3>3, <3>4 DEF V!Resolved
  <2> QED BY <2>1, <2>2
<1>11. V!ConnectedMeansUsable'
  BY <1>1, <1>10 DEF V!ConnectedMeansUsable, V!Resolved, V!Provider
<1> QED BY <1>8, <1>9, <1>11 DEF VaultInv

\* The row is marked.
LEMMA MarkKeepsVault ==
  ASSUME VaultInv, NEW o \in Slots, V!Mark(o)
  PROVE  VaultInv'
<1> DEFINE y == vaultOp[o]
           p == V!Provider(o)
           r == [status |-> "revoked", ref |-> y.row.ref,
                 id |-> IF row[p] = V!NoRow THEN y.row.id ELSE row[p].id]
           x == [y EXCEPT !.pc = "again"]
<1>1. /\ y \in VaultCall /\ Consistent(y) /\ y.pc = "mark" /\ p \in Providers
      /\ row' = [row EXCEPT ![p] = r] /\ vaultOp' = [vaultOp EXCEPT ![o] = x]
      /\ UNCHANGED <<pending, secret, issued, chosen, trouble, vaultFaults>>
  BY VaultFacts DEF V!Mark, V!Set, V!Upsert
<1>2. y.call = "disconnect" /\ y.row \in RowsOf(p) /\ y.row # V!NoRow /\ row[p] \in RowsOf(p)
  BY <1>1 DEF VaultCall, Consistent, V!Provider, VaultInv, VaultTyped
<1> HIDE DEF p
<1>3. y.row.id \in Own(p) /\ y.row.ref \in Own(p)
  BY <1>2 DEF RowsOf
<1>4. r \in RowsOf(p) /\ r.status = "revoked"
  BY <1>1, <1>2, <1>3, ConnectionRow
<1> HIDE DEF r
<1>5. /\ x.pc = "again" /\ x.call = y.call /\ x.state = y.state /\ x.page = y.page
      /\ x.todo = y.todo /\ x.row = y.row /\ x.bundle = y.bundle
  BY <1>1 DEF VaultCall
<1>6. x \in VaultCall
  BY <1>1 DEF VaultCall, VaultPoints
<1> HIDE DEF x
<1>7. Consistent(x) /\ Narrows(y, x)
  BY <1>1, <1>2, <1>5 DEF Consistent, Narrows
<1>8. VaultGoes(o, x) /\ chosen' \in Pages \cup {"none"}
  BY <1>1, <1>6, <1>7 DEF VaultGoes, VaultInv, VaultTyped
<1> QED BY <1>1, <1>4, <1>5, <1>7, <1>8, RowIsWritten DEF p

\* It is looked up again.
LEMMA FindAgainKeepsVault ==
  ASSUME VaultInv, NEW o \in Slots, V!FindAgain(o)
  PROVE  VaultInv'
<1> DEFINE y == vaultOp[o]
           found == row[V!Provider(o)]
           x == [y EXCEPT !.pc = "delete", !.row = found]
<1>1. /\ y \in VaultCall /\ Consistent(y) /\ y.pc = "again"
      /\ UNCHANGED <<pending, row, secret, issued, chosen, trouble, vaultFaults>>
      /\ chosen' \in Pages \cup {"none"}
  BY VaultFacts DEF V!FindAgain, VaultInv, VaultTyped
<1>2. found \in AnyRow /\ y.call = "disconnect"
  BY <1>1, VaultFacts, OwnApart DEF VaultInv, VaultTyped, VaultCall, Consistent
<1> HIDE DEF found
<1>3. CASE vaultOp' = [vaultOp EXCEPT ![o] = x]
  <2>1. /\ x.pc = "delete" /\ x.call = y.call /\ x.state = y.state /\ x.page = y.page
        /\ x.todo = y.todo /\ x.bundle = y.bundle
    BY <1>1 DEF VaultCall
  <2>2. x \in VaultCall
    BY <1>1, <1>2 DEF VaultCall, VaultPoints
  <2> HIDE DEF x
  <2>3. Consistent(x) /\ Narrows(y, x)
    BY <1>1, <1>2, <2>1 DEF Consistent, Narrows
  <2> QED BY <1>1, <1>3, <2>1, <2>2, <2>3, VaultGoesOn
<1>4. CASE vaultOp' = [vaultOp EXCEPT ![o] = V!Idle]
  BY <1>1, <1>4, VaultIdle, VaultGoesOn DEF Narrows
<1> QED BY <1>3, <1>4 DEF V!FindAgain, V!Set, found

\* And deleted.
LEMMA DeleteKeepsVault ==
  ASSUME VaultInv, NEW o \in Slots, V!Delete(o)
  PROVE  VaultInv'
<1> DEFINE y == vaultOp[o]
           p == V!Provider(o)
           r == IF row[p].id = y.row.id THEN V!NoRow ELSE row[p]
<1>1. /\ y.pc = "delete" /\ p \in Providers
      /\ row' = [row EXCEPT ![p] = r] /\ vaultOp' = [vaultOp EXCEPT ![o] = V!Idle]
      /\ UNCHANGED <<pending, secret, issued, chosen, trouble, vaultFaults>>
  BY VaultFacts DEF V!Delete, V!Set
<1>2. r \in RowsOf(p) /\ (r.status = "connected" => r = row[p])
  BY <1>1 DEF VaultInv, VaultTyped, RowsOf, V!NoRow
<1> HIDE DEF p, r
<1>3. /\ VaultGoes(o, V!Idle) /\ Narrows(y, V!Idle) /\ V!Idle.pc = "idle"
      /\ chosen' \in Pages \cup {"none"}
  BY <1>1, VaultIdle DEF VaultGoes, Narrows, VaultInv, VaultTyped
<1> QED BY <1>1, <1>2, <1>3, RowIsWritten DEF p

\* A call stops: a disconnect between secret and row tears its connection.
LEMMA StopKeepsVault ==
  ASSUME VaultInv, NEW o \in Slots, V!Stop(o)
  PROVE  VaultInv'
<1> DEFINE y == vaultOp[o]
           S == IF V!HalfDone(o) THEN {V!Provider(o)} ELSE {}
           how == IF y.call = "disconnect" THEN "torn" ELSE "crossed"
<1>1. /\ y \in VaultCall /\ Consistent(y) /\ y.pc # "idle" /\ V!Provider(o) \in Providers
      /\ V!Worsen(S, how) /\ vaultOp' = [vaultOp EXCEPT ![o] = V!Idle]
      /\ UNCHANGED <<pending, row, secret, issued, chosen>>
      /\ vaultFaults < MaxFaults /\ vaultFaults' = vaultFaults + 1
  BY VaultFacts DEF V!Stop, V!Set
<1>2. VaultTyped /\ how \in {"crossed", "torn"} /\ MaxFaults \in Nat
  BY ServicesAssumption DEF VaultInv
<1>3. y.pc = "mark" => V!Provider(o) \in S /\ how = "torn"
  BY <1>1 DEF VaultCall, Consistent, V!HalfDone
<1> HIDE DEF S, how
<1>4. /\ trouble' \in [Providers -> {"none", "crossed", "torn"}]
      /\ \A p \in Providers : /\ trouble[p] = "torn" => trouble'[p] = "torn"
                              /\ p \in S /\ how = "torn" => trouble'[p] = "torn"
  BY <1>1, <1>2, WorsenFacts
<1>5. VaultStays /\ chosen' \in Pages \cup {"none"}
  BY <1>1, <1>2, <1>4 DEF VaultStays, VaultTyped
<1>6. y.pc = "mark" => trouble'[V!Provider(o)] = "torn"
  BY <1>1, <1>3, <1>4
<1> QED BY <1>1, <1>5, <1>6, VaultIdle, VaultGoesOn DEF Narrows

-----------------------------------------------------------------------------

\* Nothing is connected at first.
LEMMA VaultStart == V!Init => VaultInv
<1> SUFFICES ASSUME V!Init PROVE VaultInv
  OBVIOUS
<1>1. /\ \A o \in Slots : vaultOp[o] = V!Idle
      /\ \A p \in Providers : row[p] = V!NoRow
      /\ V!Idle.pc = "idle" /\ V!NoRow.status = "absent"
  BY VaultIdle DEF V!Init, V!NoRow
<1>2. VaultTyped
  BY VaultIdle, ServicesAssumption DEF V!Init, VaultTyped, V!None, RowsOf
<1> QED BY <1>1, <1>2, VaultIdle DEF VaultInv, Written, Apart, V!Touches,
         V!ConnectedMeansUsable

\* Every step of a connection keeps what is said of it.
LEMMA VaultStep == VaultInv /\ V!Next => VaultInv'
<1> SUFFICES ASSUME VaultInv, V!Next PROVE VaultInv'
  OBVIOUS
<1>1. ASSUME NEW s \in States, V!Expire(s) \/ \E p \in Providers : V!StartAuthorize(s, p)
      PROVE  VaultInv'
  BY <1>1, PendingKeepsVault
<1>2. ASSUME NEW o \in Slots, V!Step(o) PROVE VaultInv'
  BY <1>2, CallbackKeepsVault, DisconnectKeepsVault, ListPagesKeepsVault,
     SelectPageKeepsVault, FetchPagesKeepsVault, FindKeepsVault, ReadToListKeepsVault,
     ReadToSelectKeepsVault, PutKeepsVault, SaveKeepsVault, EraseKeepsVault,
     MarkKeepsVault, FindAgainKeepsVault, DeleteKeepsVault, StopKeepsVault DEF V!Step
<1> QED BY <1>1, <1>2 DEF V!Next

\* So does a step of another service.
LEMMA VaultRest == VaultInv /\ UNCHANGED vaultVars => VaultInv'
<1> SUFFICES ASSUME VaultInv, UNCHANGED vaultVars PROVE VaultInv'
  OBVIOUS
<1>1. UNCHANGED <<pending, row, secret, vaultOp, issued, chosen, trouble, vaultFaults>>
  BY DEF vaultVars
<1>2. VaultTyped'
  BY <1>1 DEF VaultInv, VaultTyped
<1> QED BY <1>1, <1>2 DEF VaultInv, Written, Apart, V!ConnectedMeansUsable, V!Resolved,
         V!Provider, V!RefFor, V!IdFor, V!Touches

\* What the module of the connections says of their types follows.
LEMMA VaultHolds == VaultInv => V!TypeOK /\ V!ConnectedMeansUsable
<1> SUFFICES ASSUME VaultInv PROVE V!TypeOK
  BY DEF VaultInv
<1>1. \A p \in Providers : row[p] \in [status : {"absent", "connected", "revoked"},
                                       id : V!Refs \cup {V!NoRef},
                                       ref : V!Refs \cup {V!NoRef}]
  <2> TAKE p \in Providers
  <2>1. row[p] \in RowsOf(p) /\ Own(p) \subseteq V!Refs
    BY OwnApart DEF VaultInv, VaultTyped
  <2> QED BY <2>1 DEF RowsOf, V!NoRow
<1>2. \A r \in V!Refs : /\ secret[r].page \in secret[r].pages \cup {V!None}
                        /\ secret[r].pages # {} => secret[r].user
  BY VaultIdle DEF VaultInv, VaultTyped, Whole, V!None
<1>3. \A o \in Slots : vaultOp[o].pc \in VaultPoints
                       /\ (vaultOp[o].pc # "idle" => vaultOp[o].todo # <<>>)
  BY DEF VaultInv, VaultTyped, VaultCall, Consistent
<1> QED BY <1>1, <1>2, <1>3 DEF V!TypeOK, VaultInv, VaultTyped, V!None, VaultPoints

-----------------------------------------------------------------------------
(* The page that is selected *)

\* Nothing has crossed or stopped between the Meta connections.
Calm == \A p \in V!Meta : trouble[p] = "none"

\* Call o has a Meta connection to work on.
Engaged(o) == \E p \in V!Meta : V!Touches(o, p)

\* What is left to do is the end of the list of both connections.
EndOfBoth(s) ==
    /\ s \in Seq(V!Meta) /\ Len(s) \in 1..Len(Both)
    /\ \A i \in 1..Len(s) : s[i] = Both[Len(Both) - Len(s) + i]

\* The call has not finished with any connection; those it has finished with;
\* those whose secret a list has still to write.
AtFirst(o) == Len(vaultOp[o].todo) = Len(Both)
Behind(o) == V!Meta \ V!ToSet(vaultOp[o].todo)
Unlisted(o) == V!ToSet(IF vaultOp[o].pc = "save" THEN Tail(vaultOp[o].todo)
                       ELSE vaultOp[o].todo)

\* Both connections have the same pages; they post on the page that is chosen.
SamePages ==
    \A p, q \in V!Meta : V!Resolved(p).user /\ V!Resolved(q).user =>
                            V!Resolved(p).pages = V!Resolved(q).pages
ChosenPosts ==
    chosen # "none" =>
        \A p \in V!Meta : V!Resolved(p).user => V!Resolved(p).page = chosen

\* A list finds no pages, and leaves those it was told.
Listing(o) ==
    /\ EndOfBoth(vaultOp[o].todo)
    /\ vaultOp[o].pc \in {"read", "fetch"} => AtFirst(o)
    /\ vaultOp[o].pc = "read" => \E q \in V!Meta : row[q] = vaultOp[o].row
    /\ vaultOp[o].pc # "read" =>
          /\ \A p \in Unlisted(o) : V!Resolved(p).pages = {}
          /\ \A p \in V!Meta \ Unlisted(o) :
                V!Resolved(p).user => V!Resolved(p).pages = vaultOp[o].bundle.pages
    /\ vaultOp[o].pc \in {"put", "save"} => row[V!Provider(o)] = vaultOp[o].row

\* A selection leaves its page, which is one of those there are.
Selecting(o) ==
    /\ EndOfBoth(vaultOp[o].todo)
    /\ \A p \in Behind(o) : V!Resolved(p).user =>
          V!Resolved(p).page = vaultOp[o].page /\ chosen = vaultOp[o].page
    /\ AtFirst(o) /\ vaultOp[o].pc # "save" => ChosenPosts
    /\ vaultOp[o].pc \in {"read", "put", "save"} => row[V!Provider(o)] = vaultOp[o].row
    /\ vaultOp[o].pc \in {"put", "save"} =>
          /\ vaultOp[o].bundle.page = vaultOp[o].page
          /\ vaultOp[o].page \in vaultOp[o].bundle.pages
          /\ vaultOp[o].bundle.pages = secret[vaultOp[o].row.ref].pages
    /\ vaultOp[o].pc = "save" => secret[vaultOp[o].row.ref] = vaultOp[o].bundle

\* An authorisation leaves one bundle with both.
Connecting(o) ==
    /\ EndOfBoth(vaultOp[o].todo)
    /\ chosen = "none"
    /\ vaultOp[o].pc = "fetch" => AtFirst(o)
    /\ \A p \in Behind(o) :
          V!Resolved(p).user => V!Resolved(p).pages = vaultOp[o].bundle.pages
    /\ AtFirst(o) /\ vaultOp[o].pc # "save" => SamePages
    /\ vaultOp[o].pc = "save" => secret[V!RefFor(o)] = vaultOp[o].bundle

Fits(o) ==
    /\ vaultOp[o].call = "list" => Listing(o)
    /\ vaultOp[o].call = "select" => Selecting(o)
    /\ vaultOp[o].call = "connect" /\ Engaged(o) => Connecting(o)

\* Two calls that may be at work together.
GoTogether(o1, o2) ==
    \/ {vaultOp[o1].call, vaultOp[o2].call} = {"list", "select"}
    \/ "disconnect" \in {vaultOp[o1].call, vaultOp[o2].call}

\* Nobody is choosing a page, or writing pages.
NobodySelects == \A o \in Slots : vaultOp[o].call # "select"
NobodyWrites ==
    \A o \in Slots : /\ vaultOp[o].call = "connect" => ~Engaged(o)
                     /\ vaultOp[o].call = "list" => vaultOp[o].pc = "read"

Selected ==
    /\ \A o1, o2 \in Slots : o1 # o2 /\ Engaged(o1) /\ Engaged(o2) => GoTogether(o1, o2)
    /\ \A o \in Slots : Fits(o)
    /\ NobodySelects => ChosenPosts
    /\ NobodyWrites => SamePages

SelectionInv == Calm => Selected

\* The end of the list of both, and what is left of it.
LEMMA EndsOfBoth ==
  ASSUME NEW s, EndOfBoth(s)
  PROVE  /\ s \in Seq(V!Meta) /\ s # <<>> /\ Len(s) \in Nat /\ Len(Both) \in Nat
         /\ Len(s) <= Len(Both)
         /\ Head(s) \in V!Meta /\ Head(s) \in V!ToSet(s) /\ V!ToSet(s) \subseteq V!Meta
         /\ V!ToSet(s) = {Head(s)} \cup V!ToSet(Tail(s)) /\ Head(s) \notin V!ToSet(Tail(s))
         /\ Len(s) = Len(Both) => V!ToSet(s) = V!Meta
         /\ Len(s) = 1 => V!ToSet(Tail(s)) = {}
         /\ Len(s) # 1 => EndOfBoth(Tail(s)) /\ Len(Tail(s)) # Len(Both)
<1> DEFINE n == Len(Both)
           m == Len(s)
<1>1. /\ Both \in Seq(V!Meta) /\ n \in Nat /\ V!ToSet(Both) = V!Meta
      /\ \A i, j \in 1..n : Both[i] = Both[j] => i = j
  BY MetaList
<1>2. /\ s \in Seq(V!Meta) /\ m \in 1..n /\ m \in Nat
      /\ \A i \in 1..m : s[i] = Both[n - m + i]
  BY <1>1 DEF EndOfBoth
<1>3. s # <<>>
  <2>1. Len(<<>>) = 0
    OBVIOUS
  <2> QED BY <1>1, <1>2, <2>1
<1>4. /\ Head(s) \in V!Meta /\ Tail(s) \in Seq(V!Meta) /\ V!ToSet(s) \subseteq V!Meta
      /\ V!ToSet(s) = {Head(s)} \cup V!ToSet(Tail(s))
      /\ m = 1 => V!ToSet(Tail(s)) = {}
  BY <1>2, <1>3, ListElements
<1>5. /\ Head(s) = s[1] /\ Len(Tail(s)) = m - 1 /\ DOMAIN Tail(s) = 1..(m - 1)
      /\ \A i \in 1..(m - 1) : Tail(s)[i] = s[i + 1]
  BY <1>2, <1>3
<1> HIDE DEF n, m
<1>6. Head(s) \notin V!ToSet(Tail(s))
  <2> SUFFICES ASSUME NEW i \in 1..(m - 1), Tail(s)[i] = Head(s) PROVE FALSE
    BY <1>5 DEF V!ToSet
  <2>1. i + 1 \in 1..m /\ 1 \in 1..m /\ n - m + 1 \in 1..n /\ n - m + (i + 1) \in 1..n
    BY <1>1, <1>2
  <2>2. Both[n - m + 1] = Both[n - m + (i + 1)]
    BY <1>2, <1>5, <2>1
  <2>3. n - m + 1 = n - m + (i + 1)
    BY <1>1, <2>1, <2>2
  <2> QED BY <1>1, <1>2, <2>3
<1>7. m = n => V!ToSet(s) = V!Meta
  <2>1. DOMAIN s = 1..m /\ DOMAIN Both = 1..n
    BY <1>1, <1>2 DEF m, n
  <2>2. m = n => \A i \in 1..n : s[i] = Both[i]
    BY <1>1, <1>2
  <2> QED BY <1>1, <2>1, <2>2 DEF V!ToSet
<1>8. ASSUME m # 1 PROVE EndOfBoth(Tail(s)) /\ Len(Tail(s)) # n
  <2>1. Len(Tail(s)) \in 1..n /\ Len(Tail(s)) # n
    BY <1>1, <1>2, <1>5, <1>8
  <2>2. ASSUME NEW i \in 1..(m - 1) PROVE Tail(s)[i] = Both[n - (m - 1) + i]
    <3> n \in Nat /\ m \in Nat /\ i \in Nat /\ i >= 1 /\ i <= m - 1
      BY <1>1, <1>2
    <3>1. i + 1 \in 1..m /\ n - m + (i + 1) = n - (m - 1) + i
      OBVIOUS
    <3> QED BY <1>2, <1>5, <3>1
  <2> QED BY <1>4, <1>5, <2>1, <2>2 DEF EndOfBoth, n
<1> QED BY <1>1, <1>2, <1>3, <1>4, <1>6, <1>7, <1>8 DEF m, n

\* The whole list is an end of it.
LEMMA BothEndsBoth ==
  ASSUME V!Meta # {}
  PROVE  EndOfBoth(Both)
<1>1. Both # <<>> /\ Both \in Seq(V!Meta) /\ Len(Both) \in Nat
  BY BothAreProviders, MetaList
<1>2. Len(Both) # 0
  BY <1>1
<1> QED BY <1>1, <1>2 DEF EndOfBoth

\* What a connection resolves to.
LEMMA ResolvedFacts ==
  ASSUME VaultInv, NEW p \in Providers
  PROVE  /\ V!Resolved(p) \in VaultBundle /\ Whole(V!Resolved(p)) /\ row[p] \in RowsOf(p)
         /\ row[p].status = "connected" =>
               row[p] # V!NoRow /\ row[p].ref \in Own(p) /\ row[p].ref \in V!Refs
                  /\ V!Resolved(p) = secret[row[p].ref]
         /\ row[p].status # "connected" => V!Resolved(p) = V!NoBundle
         /\ ~V!Resolved(p).user => V!Resolved(p).pages = {}
<1>1. row[p] \in RowsOf(p) /\ Own(p) \subseteq V!Refs
  BY OwnApart DEF VaultInv, VaultTyped
<1>2. CASE row[p].status = "connected"
  <2>1. row[p] # V!NoRow /\ row[p].ref \in Own(p) /\ row[p].ref \in V!Refs
    BY <1>1, <1>2, OwnApart
  <2>2. V!Resolved(p) = secret[row[p].ref]
    BY <1>2 DEF V!Resolved
  <2>3. V!Resolved(p) \in VaultBundle /\ Whole(V!Resolved(p))
    BY <2>1, <2>2 DEF VaultInv, VaultTyped
  <2> QED BY <1>1, <1>2, <2>1, <2>2, <2>3, VaultIdle DEF Whole
<1>3. CASE row[p].status # "connected"
  BY <1>1, <1>3, VaultIdle DEF V!Resolved
<1> QED BY <1>2, <1>3

\* Connection q is as it was; or it may have been given up.
Same(q) ==
    /\ row'[q] = row[q] /\ \A r \in Own(q) : secret'[r] = secret[r]
    /\ V!Resolved(q)' = V!Resolved(q)
Less(q) == ~V!Resolved(q)'.user \/ V!Resolved(q)' = V!Resolved(q)

\* A step for connection p is nothing to the others.
LEMMA OthersSame ==
  ASSUME VaultInv, NEW p, NEW q \in Providers, q # p,
         row'[q] = row[q], \A r \in V!Refs : r \notin Own(p) => secret'[r] = secret[r]
  PROVE  Same(q)
<1>1. \A r \in Own(q) : r \in V!Refs /\ r \notin Own(p)
  BY OwnApart
<1>2. \A r \in Own(q) : secret'[r] = secret[r]
  BY <1>1
<1>3. V!Resolved(q)' = V!Resolved(q)
  <2>1. row[q].status = "connected" => row[q].ref \in Own(q)
    BY ResolvedFacts
  <2> QED BY <1>2, <2>1 DEF V!Resolved, V!NoBundle
<1> QED BY <1>2, <1>3 DEF Same

\* Where neither rows nor secrets change, all connections are as they were.
LEMMA AllSame ==
  ASSUME UNCHANGED <<row, secret>>
  PROVE  \A q \in V!Meta : Same(q)
BY DEF Same, V!Resolved

\* A connection that is given up has nothing to agree with.
LEMMA LessAgrees ==
  ASSUME \A q \in V!Meta : Less(q)
  PROVE  /\ SamePages => SamePages'
         /\ chosen' = chosen /\ ChosenPosts => ChosenPosts'
<1>1. SamePages => SamePages'
  <2>1. SamePages' <=> \A p, q \in V!Meta :
           V!Resolved(p)'.user /\ V!Resolved(q)'.user =>
              V!Resolved(p)'.pages = V!Resolved(q)'.pages
    BY DEF SamePages, V!Meta
  <2> QED BY <2>1 DEF SamePages, Less
<1>2. chosen' = chosen /\ ChosenPosts => ChosenPosts'
  <2>1. ChosenPosts' <=> (chosen' # "none" => \A p \in V!Meta :
           V!Resolved(p)'.user => V!Resolved(p)'.page = chosen')
    BY DEF ChosenPosts, V!Meta
  <2> QED BY <2>1 DEF ChosenPosts, Less
<1> QED BY <1>1, <1>2

\* A call is not disturbed where the connections it works on are as they were.
LEMMA FitsRests ==
  ASSUME VaultInv, NEW u \in Slots, Fits(u), vaultOp'[u] = vaultOp[u],
         \/ chosen' = chosen
         \/ vaultOp[u].call # "select" /\ (vaultOp[u].call = "connect" => ~Engaged(u)),
         \A q \in V!Meta : Same(q) \/ (~V!Touches(u, q) /\ Less(q))
  PROVE  Fits(u)'
<1> DEFINE y == vaultOp[u]
<1>1. y \in VaultCall /\ Consistent(y)
  BY VaultFacts
<1>2. /\ (Behind(u))' = Behind(u) /\ (Unlisted(u))' = Unlisted(u) /\ AtFirst(u)' = AtFirst(u)
      /\ (Engaged(u))' = Engaged(u) /\ V!Provider(u)' = V!Provider(u)
      /\ V!RefFor(u)' = V!RefFor(u) /\ V!Meta' = V!Meta /\ Both' = Both
  BY DEF Behind, Unlisted, AtFirst, Engaged, V!Touches, V!Provider, V!RefFor, V!IdFor,
         V!Meta, Both
<1>3. \A q \in V!Meta : Less(q)
  BY DEF Same, Less
<1>4. \A q \in V!Meta : V!Touches(u, q) => Same(q)
  OBVIOUS
<1>5. EndOfBoth(y.todo) /\ y.pc # "idle" =>
         /\ V!Provider(u) \in V!Meta /\ Unlisted(u) \subseteq V!Meta
         /\ \A q \in Unlisted(u) : Same(q)
         /\ Same(V!Provider(u))
         /\ AtFirst(u) => \A q \in V!Meta : Same(q)
  <2> SUFFICES ASSUME EndOfBoth(y.todo), y.pc # "idle"
               PROVE  /\ V!Provider(u) \in V!Meta /\ Unlisted(u) \subseteq V!Meta
                      /\ \A q \in Unlisted(u) : Same(q)
                      /\ Same(V!Provider(u))
                      /\ AtFirst(u) => \A q \in V!Meta : Same(q)
    OBVIOUS
  <2>1. /\ Head(y.todo) \in V!Meta /\ V!ToSet(y.todo) \subseteq V!Meta
        /\ V!ToSet(y.todo) = {Head(y.todo)} \cup V!ToSet(Tail(y.todo))
        /\ Len(y.todo) = Len(Both) => V!ToSet(y.todo) = V!Meta
    BY EndsOfBoth
  <2>2. \A q \in V!ToSet(y.todo) : Same(q)
    BY <1>4, <2>1 DEF V!Touches
  <2> QED BY <2>1, <2>2 DEF V!Provider, Unlisted, AtFirst
<1>6. ASSUME y.call = "list" PROVE Listing(u)'
  <2>1. Listing(u) /\ y.pc # "idle"
    BY <1>1, <1>6 DEF Fits, Consistent
  <2>2. y.pc = "read" => \E q \in V!Meta : row'[q] = y.row
    BY <1>5, <2>1 DEF Listing, Same
  <2>3. y.pc # "read" =>
           /\ \A p \in Unlisted(u) : V!Resolved(p)'.pages = {}
           /\ \A p \in V!Meta \ Unlisted(u) :
                 V!Resolved(p)'.user => V!Resolved(p)'.pages = y.bundle.pages
    BY <1>3, <1>5, <2>1 DEF Listing, Same, Less
  <2>4. y.pc \in {"put", "save"} => row'[V!Provider(u)] = y.row
    BY <1>5, <2>1 DEF Listing, Same
  <2> QED BY <1>2, <2>1, <2>2, <2>3, <2>4 DEF Listing, EndOfBoth
<1>7. ASSUME y.call = "select" PROVE Selecting(u)'
  <2>1. Selecting(u) /\ y.pc # "idle" /\ chosen' = chosen
    BY <1>1, <1>7 DEF Fits, Consistent
  <2>2. \A p \in Behind(u) : V!Resolved(p)'.user =>
           V!Resolved(p)'.page = y.page /\ chosen' = y.page
    BY <1>3, <2>1 DEF Selecting, Less, Behind
  <2>3. AtFirst(u) /\ y.pc # "save" => ChosenPosts'
    BY <1>3, <2>1, LessAgrees DEF Selecting
  <2>4. Same(V!Provider(u)) /\ V!Provider(u) \in V!Meta
    BY <1>5, <2>1 DEF Selecting
  <2>5. y.pc \in {"put", "save"} => secret'[y.row.ref] = secret[y.row.ref]
    <3>1. y.pc \in {"put", "save"} => y.row.ref \in Own(V!Provider(u))
      BY <1>1, <1>7, OwnApart DEF Consistent, V!Provider
    <3> QED BY <2>4, <3>1 DEF Same
  <2> QED BY <1>2, <2>1, <2>2, <2>3, <2>4, <2>5 DEF Selecting, EndOfBoth, Same
<1>8. ASSUME y.call = "connect", Engaged(u) PROVE Connecting(u)'
  <2>1. Connecting(u) /\ y.pc # "idle" /\ chosen' = chosen
    BY <1>1, <1>8 DEF Fits, Consistent
  <2>2. \A p \in Behind(u) : V!Resolved(p)'.user => V!Resolved(p)'.pages = y.bundle.pages
    BY <1>3, <2>1 DEF Connecting, Less, Behind
  <2>3. AtFirst(u) /\ y.pc # "save" => SamePages'
    BY <1>3, <2>1, LessAgrees DEF Connecting
  <2>4. y.pc = "save" => secret'[V!RefFor(u)] = secret[V!RefFor(u)]
    <3>1. Same(V!Provider(u))
      BY <1>5, <2>1 DEF Connecting
    <3> QED BY <3>1, RefIsOwn DEF Same
  <2> QED BY <1>2, <2>1, <2>2, <2>3, <2>4 DEF Connecting, EndOfBoth
<1> QED BY <1>2, <1>6, <1>7, <1>8 DEF Fits

\* Lists and selections work on Meta connections; so may an authorisation.
LEMMA EngagedFacts ==
  ASSUME VaultInv, Selected, NEW o \in Slots
  PROVE  /\ vaultOp[o].call \in {"list", "select"} => Engaged(o)
         /\ vaultOp[o].pc # "idle" /\ V!Provider(o) \in V!Meta => Engaged(o)
         /\ \/ vaultOp[o].call \in {"list", "select"}
            \/ vaultOp[o].call = "connect" /\ Engaged(o)
            => /\ EndOfBoth(vaultOp[o].todo) /\ V!Provider(o) \in V!Meta
               /\ vaultOp[o].pc # "idle"
<1> DEFINE y == vaultOp[o]
<1>1. /\ y \in VaultCall /\ Consistent(y) /\ Fits(o)
      /\ y.pc # "idle" => V!Touches(o, V!Provider(o))
  BY VaultFacts DEF Selected
<1>2. y.call # "none" => y.pc # "idle"
  BY <1>1 DEF Consistent
<1>3. y.pc # "idle" /\ V!Provider(o) \in V!Meta => Engaged(o)
  BY <1>1 DEF Engaged
<1>4. \/ y.call \in {"list", "select"}
      \/ y.call = "connect" /\ Engaged(o)
      => EndOfBoth(y.todo)
  BY <1>1 DEF Fits, Listing, Selecting, Connecting
<1>5. EndOfBoth(y.todo) => V!Provider(o) \in V!Meta
  BY EndsOfBoth DEF V!Provider
<1> QED BY <1>2, <1>3, <1>4, <1>5

\* Beside an authorisation of Meta there are only disconnects, beside a list
\* only selections, and beside a selection only lists.
LEMMA Company ==
  ASSUME VaultInv, Selected, NEW o \in Slots, NEW u \in Slots, u # o
  PROVE  /\ vaultOp[o].call = "connect" /\ Engaged(o) =>
               /\ vaultOp[u].call \notin {"list", "select"}
               /\ vaultOp[u].call = "connect" => ~Engaged(u)
         /\ vaultOp[o].call = "list" =>
               /\ vaultOp[u].call # "list" /\ (vaultOp[u].call = "connect" => ~Engaged(u))
         /\ vaultOp[o].call = "select" =>
               /\ vaultOp[u].call # "select" /\ (vaultOp[u].call = "connect" => ~Engaged(u))
<1>1. Engaged(o) /\ Engaged(u) => GoTogether(o, u)
  BY DEF Selected
<1>2. /\ vaultOp[o].call \in {"list", "select"} => Engaged(o)
      /\ vaultOp[u].call \in {"list", "select"} => Engaged(u)
  BY EngagedFacts
<1> QED BY <1>1, <1>2 DEF GoTogether

\* While a list reads, both connections have the same pages.
LEMMA ReadersSame ==
  ASSUME VaultInv, Selected, NEW o \in Slots, vaultOp[o].call = "list", vaultOp[o].pc = "read"
  PROVE  SamePages
<1>1. NobodyWrites
  BY Company DEF NobodyWrites
<1> QED BY <1>1 DEF Selected

\* Calls without pages to write.
LEMMA FitsOtherwise ==
  ASSUME NEW o \in Slots
  PROVE  /\ vaultOp[o].call \notin {"list", "select", "connect"} => Fits(o)
         /\ vaultOp[o].call = "connect" /\ ~Engaged(o) => Fits(o)
         /\ vaultOp[o] = V!Idle => Fits(o)
         /\ V!Idle.call = "none" /\ V!Idle.pc = "idle"
<1>1. V!Idle.call = "none" /\ V!Idle.pc = "idle"
  BY DEF V!Idle, V!None
<1> QED BY <1>1 DEF Fits

\* One call goes on or is over.
LEMMA OneGoesOn ==
  ASSUME VaultInv, NEW o \in Slots, NEW x, vaultOp' = [vaultOp EXCEPT ![o] = x]
  PROVE  vaultOp'[o] = x /\ \A u \in Slots \ {o} : vaultOp'[u] = vaultOp[u]
BY DEF VaultInv, VaultTyped

\* No two calls come together that did not go together.
LEMMA SelectedKept ==
  ASSUME Selected, NEW o \in Slots, \A u \in Slots \ {o} : vaultOp'[u] = vaultOp[u],
         Narrows(vaultOp[o], vaultOp'[o]),
         (\A u \in Slots \ {o} : Fits(u))', Fits(o)',
         NobodySelects' => ChosenPosts', NobodyWrites' => SamePages'
  PROVE  Selected'
<1>1. \A u \in Slots : Engaged(u)' => Engaged(u) /\ vaultOp'[u].call = vaultOp[u].call
  BY DEF Engaged, Narrows, V!Touches, V!Meta
<1>2. (\A o1, o2 \in Slots : o1 # o2 /\ Engaged(o1) /\ Engaged(o2) => GoTogether(o1, o2))'
  BY <1>1 DEF Selected, GoTogether
<1>3. (\A u \in Slots : Fits(u))'
  OBVIOUS
<1> QED BY <1>2, <1>3 DEF Selected

\* The others are not disturbed: by a disconnect, because they are not at work
\* on its connection; by the choice of a page, because they make none.
LEMMA OthersFit ==
  ASSUME VaultInv, Calm, Selected, NEW o \in Slots,
         \A u \in Slots \ {o} : vaultOp'[u] = vaultOp[u],
         \A q \in V!Meta : \/ Same(q)
                           \/ /\ Less(q) /\ vaultOp[o].call = "disconnect"
                              /\ V!Touches(o, q),
         chosen' = chosen \/ vaultOp[o].call = "select"
  PROVE  (\A u \in Slots \ {o} : Fits(u))'
<1> SUFFICES ASSUME NEW u \in Slots, u # o PROVE Fits(u)'
  OBVIOUS
<1>1. \A q \in V!Meta : Same(q) \/ (~V!Touches(u, q) /\ Less(q))
  <2> SUFFICES ASSUME NEW q \in V!Meta, vaultOp[o].call = "disconnect", V!Touches(o, q),
                      V!Touches(u, q)
               PROVE  FALSE
    OBVIOUS
  <2>1. q \in Providers /\ Apart(q)
    BY DEF V!Meta, VaultInv
  <2>2. trouble[q] = "torn"
    BY <2>1 DEF Apart
  <2> QED BY <2>2 DEF Calm
<1>2. \/ chosen' = chosen
      \/ vaultOp[u].call # "select" /\ (vaultOp[u].call = "connect" => ~Engaged(u))
  BY Company
<1> QED BY <1>1, <1>2, FitsRests DEF Selected

\* Who does not select leaves what was chosen, who does not write pages leaves
\* them the same.
LEMMA OthersAgree ==
  ASSUME VaultInv, Selected, NEW o \in Slots,
         \A u \in Slots \ {o} : vaultOp'[u] = vaultOp[u], \A q \in V!Meta : Less(q)
  PROVE  /\ vaultOp[o].call # "select" /\ chosen' = chosen =>
               (NobodySelects' => ChosenPosts')
         /\ vaultOp[o].call # "list" /\ (vaultOp[o].call = "connect" => ~Engaged(o)) =>
               (NobodyWrites' => SamePages')
<1>1. vaultOp[o].call # "select" => (NobodySelects' => NobodySelects)
  BY DEF NobodySelects
<1>2. \A u \in Slots \ {o} : Engaged(u)' = Engaged(u)
  BY DEF Engaged, V!Touches, V!Meta
<1>3. vaultOp[o].call # "list" /\ (vaultOp[o].call = "connect" => ~Engaged(o)) =>
         (NobodyWrites' => NobodyWrites)
  BY <1>2 DEF NobodyWrites
<1> QED BY <1>1, <1>3, LessAgrees DEF Selected

\* A disconnect goes on or is over.
LEMMA DisconnectKeepsSelection ==
  ASSUME VaultInv, Calm, Selected, NEW o \in Slots, vaultOp[o].call = "disconnect",
         \A u \in Slots \ {o} : vaultOp'[u] = vaultOp[u],
         Narrows(vaultOp[o], vaultOp'[o]), vaultOp'[o].call \in {"disconnect", "none"},
         \A q \in V!Meta : Same(q) \/ (Less(q) /\ V!Touches(o, q)), chosen' = chosen
  PROVE  Selected'
<1>1. (\A u \in Slots \ {o} : Fits(u))'
  BY OthersFit
<1>2. \A q \in V!Meta : Less(q)
  BY DEF Same, Less
<1>3. Fits(o)'
  BY DEF Fits
<1> QED BY <1>1, <1>2, <1>3, OthersAgree, SelectedKept

\* Where Advance leads to.
LEMMA AdvanceLeads ==
  ASSUME VaultInv, NEW o \in Slots, V!Advance(o), vaultOp[o].pc # "idle"
  PROVE  /\ \A u \in Slots \ {o} : vaultOp'[u] = vaultOp[u]
         /\ Narrows(vaultOp[o], vaultOp'[o])
         /\ Len(vaultOp[o].todo) = 1 => vaultOp'[o] = V!Idle
         /\ Len(vaultOp[o].todo) # 1 =>
               /\ vaultOp'[o].pc = "find" /\ vaultOp'[o].call = vaultOp[o].call
               /\ vaultOp'[o].todo = Tail(vaultOp[o].todo)
               /\ vaultOp'[o].page = vaultOp[o].page
               /\ vaultOp'[o].bundle = vaultOp[o].bundle
<1> DEFINE y == vaultOp[o]
           x == [y EXCEPT !.pc = "find", !.todo = Tail(@), !.row = V!NoRow]
<1>1. y \in VaultCall /\ y.todo \in Seq(Providers) /\ y.todo # <<>>
  BY VaultFacts
<1>2. CASE Len(y.todo) = 1
  <2>1. vaultOp' = [vaultOp EXCEPT ![o] = V!Idle]
    BY <1>2 DEF V!Advance, V!Set
  <2> QED BY <1>2, <2>1, OneGoesOn, FitsOtherwise DEF Narrows
<1>3. CASE Len(y.todo) # 1
  <2>1. vaultOp' = [vaultOp EXCEPT ![o] = x]
    BY <1>3 DEF V!Advance, V!Set
  <2>2. V!ToSet(Tail(y.todo)) \subseteq V!ToSet(y.todo)
    BY <1>1, ListElements
  <2>3. /\ x.pc = "find" /\ x.call = y.call /\ x.page = y.page
        /\ x.todo = Tail(y.todo) /\ x.bundle = y.bundle
    BY <1>1 DEF VaultCall
  <2> HIDE DEF x
  <2>4. vaultOp'[o] = x /\ \A u \in Slots \ {o} : vaultOp'[u] = vaultOp[u]
    BY <2>1, OneGoesOn
  <2> QED BY <1>3, <2>2, <2>3, <2>4 DEF Narrows
<1> QED BY <1>2, <1>3

\* A list is done with one more connection.
LEMMA ListAdvances ==
  ASSUME VaultInv, Selected, NEW o \in Slots, vaultOp[o].call = "list", V!Advance(o),
         \A p \in V!ToSet(Tail(vaultOp[o].todo)) : V!Resolved(p)'.pages = {},
         \A p \in V!Meta \ V!ToSet(Tail(vaultOp[o].todo)) :
            V!Resolved(p)'.user => V!Resolved(p)'.pages = vaultOp[o].bundle.pages
  PROVE  Fits(o)' /\ (NobodyWrites' => SamePages')
<1> DEFINE y == vaultOp[o]
<1>1. EndOfBoth(y.todo) /\ y.pc # "idle"
  BY EngagedFacts
<1>2. CASE Len(y.todo) = 1
  <2>1. V!ToSet(Tail(y.todo)) = {} /\ vaultOp'[o] = V!Idle
    BY <1>1, <1>2, EndsOfBoth, AdvanceLeads
  <2>2. SamePages'
    BY <2>1 DEF SamePages, V!Meta
  <2> QED BY <2>1, <2>2, FitsOtherwise DEF Fits
<1>3. CASE Len(y.todo) # 1
  <2>1. /\ vaultOp'[o].pc = "find" /\ vaultOp'[o].call = "list"
        /\ vaultOp'[o].todo = Tail(y.todo) /\ vaultOp'[o].bundle = y.bundle
    BY <1>1, <1>3, AdvanceLeads
  <2>2. EndOfBoth(Tail(y.todo))
    BY <1>1, <1>3, EndsOfBoth
  <2>3. (Unlisted(o))' = V!ToSet(Tail(y.todo))
    BY <2>1 DEF Unlisted, V!ToSet
  <2>4. Listing(o)'
    BY <2>1, <2>2, <2>3 DEF Listing, EndOfBoth, V!Meta, Both
  <2> QED BY <2>1, <2>4 DEF Fits, NobodyWrites
<1> QED BY <1>2, <1>3

\* So is a selection.
LEMMA SelectAdvances ==
  ASSUME VaultInv, Selected, NEW o \in Slots, vaultOp[o].call = "select", V!Advance(o),
         \A p \in V!Meta \ V!ToSet(Tail(vaultOp[o].todo)) : V!Resolved(p)'.user =>
            V!Resolved(p)'.page = vaultOp[o].page /\ chosen' = vaultOp[o].page
  PROVE  Fits(o)' /\ (NobodySelects' => ChosenPosts')
<1> DEFINE y == vaultOp[o]
<1>1. EndOfBoth(y.todo) /\ y.pc # "idle"
  BY EngagedFacts
<1>2. CASE Len(y.todo) = 1
  <2>1. V!ToSet(Tail(y.todo)) = {} /\ vaultOp'[o] = V!Idle
    BY <1>1, <1>2, EndsOfBoth, AdvanceLeads
  <2>2. ChosenPosts'
    BY <2>1 DEF ChosenPosts, V!Meta
  <2> QED BY <2>1, <2>2, FitsOtherwise DEF Fits
<1>3. CASE Len(y.todo) # 1
  <2>1. /\ vaultOp'[o].pc = "find" /\ vaultOp'[o].call = "select"
        /\ vaultOp'[o].todo = Tail(y.todo) /\ vaultOp'[o].page = y.page
    BY <1>1, <1>3, AdvanceLeads
  <2>2. EndOfBoth(Tail(y.todo)) /\ Len(Tail(y.todo)) # Len(Both)
    BY <1>1, <1>3, EndsOfBoth
  <2>3. (Behind(o))' = V!Meta \ V!ToSet(Tail(y.todo)) /\ ~AtFirst(o)'
    BY <2>1, <2>2 DEF Behind, AtFirst, V!ToSet, V!Meta, Both
  <2>4. Selecting(o)'
    BY <2>1, <2>2, <2>3 DEF Selecting, EndOfBoth, V!Meta, Both
  <2> QED BY <2>1, <2>4 DEF Fits, NobodySelects
<1> QED BY <1>2, <1>3

\* So is an authorisation.
LEMMA ConnectAdvances ==
  ASSUME VaultInv, Selected, NEW o \in Slots, vaultOp[o].call = "connect", Engaged(o),
         V!Advance(o), chosen' = "none",
         \A p \in V!Meta \ V!ToSet(Tail(vaultOp[o].todo)) :
            V!Resolved(p)'.user => V!Resolved(p)'.pages = vaultOp[o].bundle.pages
  PROVE  Fits(o)' /\ (NobodyWrites' => SamePages')
<1> DEFINE y == vaultOp[o]
<1>1. EndOfBoth(y.todo) /\ y.pc # "idle"
  BY EngagedFacts
<1>2. CASE Len(y.todo) = 1
  <2>1. V!ToSet(Tail(y.todo)) = {} /\ vaultOp'[o] = V!Idle
    BY <1>1, <1>2, EndsOfBoth, AdvanceLeads
  <2>2. SamePages'
    BY <2>1 DEF SamePages, V!Meta
  <2> QED BY <2>1, <2>2, FitsOtherwise DEF Fits
<1>3. CASE Len(y.todo) # 1
  <2>1. /\ vaultOp'[o].pc = "find" /\ vaultOp'[o].call = "connect"
        /\ vaultOp'[o].todo = Tail(y.todo) /\ vaultOp'[o].bundle = y.bundle
    BY <1>1, <1>3, AdvanceLeads
  <2>2. EndOfBoth(Tail(y.todo)) /\ Len(Tail(y.todo)) # Len(Both)
    BY <1>1, <1>3, EndsOfBoth
  <2>3. (Behind(o))' = V!Meta \ V!ToSet(Tail(y.todo)) /\ ~AtFirst(o)'
    BY <2>1, <2>2 DEF Behind, AtFirst, V!ToSet, V!Meta, Both
  <2>4. Connecting(o)'
    BY <2>1, <2>2, <2>3 DEF Connecting, EndOfBoth, V!Meta, Both
  <2>5. Engaged(o)'
    <3>1. Head(Tail(y.todo)) \in V!Meta /\ Head(Tail(y.todo)) \in V!ToSet(Tail(y.todo))
      BY <2>2, EndsOfBoth
    <3> QED BY <2>1, <3>1 DEF Engaged, V!Touches, V!ToSet, V!Meta
  <2> QED BY <2>1, <2>4, <2>5 DEF Fits, NobodyWrites
<1> QED BY <1>2, <1>3

-----------------------------------------------------------------------------
(* The actions of a connection, and the page that is selected *)

\* A call begins where no other is at work, but that lists and selections go
\* together.
LEMMA BeginAlone ==
  ASSUME VaultInv, Calm', NEW o \in Slots, NEW x, V!Begin(o, x),
         NEW u \in Slots, u # o, NEW p \in V!Meta, V!Touches(u, p), p \in V!ToSet(x.todo)
  PROVE  {x.call, vaultOp[u].call} = {"list", "select"}
<1> SUFFICES ASSUME {x.call, vaultOp[u].call} # {"list", "select"} PROVE FALSE
  OBVIOUS
<1> DEFINE others == {v \in Slots : /\ \E q \in V!ToSet(x.todo) : V!Touches(v, q)
                                    /\ {x.call, vaultOp[v].call} # {"list", "select"}}
           tears == \E v \in others : "disconnect" \in {x.call, vaultOp[v].call}
           S == IF others = {} THEN {} ELSE V!ToSet(x.todo)
           how == IF tears THEN "torn" ELSE "crossed"
<1>1. V!Worsen(S, how) /\ how \in {"crossed", "torn"}
  BY DEF V!Begin
<1>2. u \in others
  OBVIOUS
<1>3. p \in S
  BY <1>2
<1>4. VaultTyped /\ p \in Providers
  BY DEF VaultInv, V!Meta
<1> HIDE DEF S, how
<1>5. trouble'[p] # "none"
  BY <1>1, <1>3, <1>4, WorsenFacts
<1> QED BY <1>5 DEF Calm, V!Meta

\* What a call that begins changes.
LEMMA BeginLeads ==
  ASSUME VaultInv, NEW o \in Slots, NEW x, V!Begin(o, x)
  PROVE  /\ vaultOp[o].pc = "idle" /\ vaultOp[o].call = "none"
         /\ vaultOp'[o] = x /\ \A u \in Slots \ {o} : vaultOp'[u] = vaultOp[u]
<1>1. vaultOp[o].pc = "idle" /\ vaultOp' = [vaultOp EXCEPT ![o] = x]
  BY DEF V!Begin, V!Set
<1> QED BY <1>1, OneGoesOn, VaultFacts DEF Consistent

\* Where it changes neither rows nor secrets nor the choice, it only has to fit
\* in itself.
LEMMA BeginKeepsSelection ==
  ASSUME VaultInv, Calm, Selected, Calm', NEW o \in Slots, NEW x, V!Begin(o, x),
         x.call \in {"connect", "disconnect", "list", "select"},
         UNCHANGED <<row, secret, chosen>>, Fits(o)',
         x.call = "connect" => V!ToSet(x.todo) \cap V!Meta = {},
         x.call \in {"list", "select"} => V!ToSet(x.todo) = V!Meta,
         x.call = "list" => x.pc = "read"
  PROVE  Selected'
<1>1. /\ vaultOp[o].pc = "idle" /\ vaultOp[o].call = "none"
      /\ vaultOp'[o] = x /\ \A u \in Slots \ {o} : vaultOp'[u] = vaultOp[u]
  BY BeginLeads
<1>2. \A q \in V!Meta : Same(q) /\ Less(q)
  BY AllSame DEF Same, Less
<1>3. (\A u \in Slots \ {o} : Fits(u))'
  BY <1>1, <1>2, OthersFit
<1>4. (NobodySelects' => ChosenPosts') /\ (NobodyWrites' => SamePages')
  BY <1>1, <1>2, OthersAgree
<1>5. \A u \in Slots \ {o} : Engaged(u)' = Engaged(u)
  BY <1>1 DEF Engaged, V!Touches, V!Meta
<1>6. ASSUME NEW u \in Slots, u # o, Engaged(u), Engaged(o)'
      PROVE  GoTogether(o, u)' /\ GoTogether(u, o)'
  <2>1. CASE x.call = "disconnect"
    BY <1>1, <2>1 DEF GoTogether
  <2>2. CASE x.call \in {"list", "select"}
    <3>1. PICK p \in V!Meta : V!Touches(u, p)
      BY <1>6 DEF Engaged
    <3>2. {x.call, vaultOp[u].call} = {"list", "select"}
      BY <1>6, <2>2, <3>1, BeginAlone
    <3> QED BY <1>1, <1>6, <3>2 DEF GoTogether
  <2>3. CASE x.call = "connect"
    BY <1>1, <1>6, <2>3 DEF Engaged, V!Touches, V!ToSet, V!Meta
  <2> QED BY <2>1, <2>2, <2>3
<1>7. (\A o1, o2 \in Slots : o1 # o2 /\ Engaged(o1) /\ Engaged(o2) => GoTogether(o1, o2))'
  <2> SUFFICES ASSUME NEW o1 \in Slots, NEW o2 \in Slots, o1 # o2, Engaged(o1)', Engaged(o2)'
               PROVE  GoTogether(o1, o2)'
    BY DEF GoTogether
  <2>1. CASE o1 # o /\ o2 # o
    <3>1. GoTogether(o1, o2)
      BY <1>5, <2>1 DEF Selected
    <3> QED BY <1>1, <2>1, <3>1 DEF GoTogether
  <2>2. CASE o1 = o \/ o2 = o
    BY <1>5, <1>6, <2>2
  <2> QED BY <2>1, <2>2
<1> QED BY <1>3, <1>4, <1>7 DEF Selected

\* A disconnect begins.
LEMMA DisconnectSelects ==
  ASSUME VaultInv, Calm, Selected, Calm', NEW o \in Slots, NEW p \in Providers,
         V!Disconnect(o, p)
  PROVE  Selected'
<1> DEFINE x == [V!Idle EXCEPT !.pc = "find", !.call = "disconnect", !.todo = <<p>>]
<1>1. V!Begin(o, x) /\ UNCHANGED <<row, secret, chosen>> /\ x.call = "disconnect"
  BY DEF V!Disconnect, V!Idle
<1> HIDE DEF x
<1>2. vaultOp'[o] = x
  BY <1>1, BeginLeads
<1>3. Fits(o)'
  BY <1>1, <1>2 DEF Fits
<1> QED BY <1>1, <1>3, BeginKeepsSelection

\* A selection begins: the page chosen before still receives the posts.
LEMMA SelectPageSelects ==
  ASSUME VaultInv, Calm, Selected, Calm', NEW o \in Slots, NEW page \in Pages,
         V!SelectPage(o, page)
  PROVE  Selected'
<1> DEFINE x == [V!Idle EXCEPT !.pc = "find", !.call = "select", !.page = page,
                               !.todo = V!SetToSeq(V!Meta)]
<1>1. /\ V!Begin(o, x) /\ UNCHANGED <<row, secret, chosen>> /\ V!Meta # {}
      /\ x.call = "select" /\ x.pc = "find" /\ x.todo = Both /\ x.page = page
  BY DEF V!SelectPage, V!Idle, Both
<1> HIDE DEF x
<1>2. EndOfBoth(Both) /\ V!ToSet(Both) = V!Meta
  BY <1>1, BothEndsBoth, MetaList
<1>3. vaultOp'[o] = x /\ vaultOp[o].call = "none"
  BY <1>1, BeginLeads
<1>4. NobodySelects
  <2> SUFFICES ASSUME NEW u \in Slots, vaultOp[u].call = "select" PROVE FALSE
    BY DEF NobodySelects
  <2>1. u # o /\ Engaged(u)
    BY <1>3, EngagedFacts
  <2>2. PICK p \in V!Meta : V!Touches(u, p)
    BY <2>1 DEF Engaged
  <2>3. {x.call, vaultOp[u].call} = {"list", "select"}
    BY <1>1, <1>2, <2>1, <2>2, BeginAlone
  <2> QED BY <1>1, <2>3
<1>5. ChosenPosts'
  <2>1. \A q \in V!Meta : Less(q)
    BY <1>1, AllSame DEF Same, Less
  <2> QED BY <1>1, <1>4, <2>1, LessAgrees DEF Selected
<1>6. (Behind(o))' = {}
  BY <1>1, <1>2, <1>3 DEF Behind, V!ToSet, V!Meta
<1>7. Fits(o)'
  BY <1>1, <1>2, <1>3, <1>5, <1>6 DEF Fits, Selecting, EndOfBoth, V!Meta, Both
<1> QED BY <1>1, <1>2, <1>7, BeginKeepsSelection

\* A list begins to read the bundle of a connection.
LEMMA ListPagesSelects ==
  ASSUME VaultInv, Calm, Selected, Calm', NEW o \in Slots, NEW p \in Providers,
         V!ListPages(o, p)
  PROVE  Selected'
<1> DEFINE x == [V!Idle EXCEPT !.pc = "read", !.call = "list",
                               !.todo = V!SetToSeq(V!Meta), !.row = row[p]]
<1>1. /\ V!Begin(o, x) /\ UNCHANGED <<row, secret, chosen>> /\ p \in V!Meta
      /\ x.call = "list" /\ x.pc = "read" /\ x.todo = Both /\ x.row = row[p]
  BY DEF V!ListPages, V!Idle, Both
<1> HIDE DEF x
<1>2. EndOfBoth(Both) /\ V!ToSet(Both) = V!Meta
  BY <1>1, BothEndsBoth, MetaList
<1>3. vaultOp'[o] = x
  BY <1>1, BeginLeads
<1>4. AtFirst(o)' /\ \E q \in V!Meta : row'[q] = x.row
  BY <1>1, <1>3 DEF AtFirst, Both, V!Meta
<1>5. Fits(o)'
  BY <1>1, <1>2, <1>3, <1>4 DEF Fits, Listing, EndOfBoth, V!Meta, Both
<1> QED BY <1>1, <1>2, <1>5, BeginKeepsSelection

\* An authorisation of Meta begins: nobody else is at work, and nothing is
\* chosen any more.
LEMMA CallbackSelects ==
  ASSUME VaultInv, Calm, Selected, Calm', NEW o \in Slots, NEW s \in States,
         V!Callback(o, s)
  PROVE  Selected'
<1> DEFINE x == [V!Idle EXCEPT !.pc = IF pending[s] \in V!Meta THEN "fetch" ELSE "find",
                               !.call = "connect", !.state = s,
                               !.todo = V!Saved(pending[s]),
                               !.bundle = V!Bundle({}, V!None)]
<1>1. /\ V!Begin(o, x) /\ UNCHANGED <<row, secret>>
      /\ chosen' = IF pending[s] \in V!Meta THEN "none" ELSE chosen
      /\ x.call = "connect" /\ x.todo = V!Saved(pending[s])
      /\ pending[s] \in V!Meta => x.pc = "fetch"
  BY DEF V!Callback, V!Idle, V!None
<1>2. pending[s] \in Providers
  BY DEF V!Callback, VaultInv, VaultTyped, V!None
<1> HIDE DEF x
<1>3. /\ vaultOp[o].call = "none" /\ vaultOp'[o] = x
      /\ \A u \in Slots \ {o} : vaultOp'[u] = vaultOp[u]
  BY <1>1, BeginLeads
<1>4. CASE pending[s] \notin V!Meta
  <2>1. V!ToSet(x.todo) \cap V!Meta = {}
    BY <1>1, <1>2, <1>4, SavedFacts
  <2>2. ~Engaged(o)'
    BY <1>3, <2>1 DEF Engaged, V!Touches, V!ToSet, V!Meta
  <2>3. Fits(o)'
    BY <1>1, <1>3, <2>2 DEF Fits
  <2> QED BY <1>1, <1>4, <2>1, <2>3, BeginKeepsSelection
<1>5. CASE pending[s] \in V!Meta
  <2>1. /\ x.todo = Both /\ EndOfBoth(Both) /\ V!ToSet(Both) = V!Meta
        /\ chosen' = "none" /\ x.pc = "fetch"
    BY <1>1, <1>2, <1>5, SavedFacts, BothEndsBoth, MetaList
  <2>2. \A u \in Slots \ {o} : ~Engaged(u)
    <3> SUFFICES ASSUME NEW u \in Slots, u # o, NEW p \in V!Meta, V!Touches(u, p)
                 PROVE  FALSE
      BY DEF Engaged
    <3>1. {x.call, vaultOp[u].call} = {"list", "select"}
      BY <1>1, <2>1, BeginAlone
    <3> QED BY <1>1, <3>1
  <2>3. \A u \in Slots : vaultOp[u].call \notin {"list", "select"}
    BY <1>3, <2>2, EngagedFacts
  <2>4. SamePages
    <3>1. NobodyWrites
      BY <1>3, <2>2, <2>3 DEF NobodyWrites
    <3> QED BY <3>1 DEF Selected
  <2>5. SamePages'
    <3>1. \A q \in V!Meta : Less(q)
      BY <1>1, AllSame DEF Same, Less
    <3> QED BY <2>4, <3>1, LessAgrees
  <2>6. (Behind(o))' = {}
    BY <1>3, <2>1 DEF Behind, V!ToSet, V!Meta
  <2>7. AtFirst(o)'
    BY <1>3, <2>1 DEF AtFirst, Both, V!Meta
  <2>8. Connecting(o)'
    BY <1>3, <2>1, <2>5, <2>6, <2>7 DEF Connecting, EndOfBoth, V!Meta, Both
  <2>9. \A u \in Slots \ {o} : ~Engaged(u)' /\ vaultOp'[u].call \notin {"list", "select"}
    BY <1>3, <2>2, <2>3 DEF Engaged, V!Touches, V!Meta
  <2>10. (\A u \in Slots : Fits(u))'
    BY <1>1, <1>3, <2>8, <2>9 DEF Fits
  <2>11. ChosenPosts'
    BY <2>1 DEF ChosenPosts
  <2>12. (\A o1, o2 \in Slots :
             o1 # o2 /\ Engaged(o1) /\ Engaged(o2) => GoTogether(o1, o2))'
    BY <2>9
  <2> QED BY <2>5, <2>10, <2>11, <2>12 DEF Selected
<1> QED BY <1>4, <1>5

\* A call goes on while all connections are as they were.
LEMMA GoesOnSelected ==
  ASSUME VaultInv, VaultInv', Calm, Selected, NEW o \in Slots,
         \A u \in Slots \ {o} : vaultOp'[u] = vaultOp[u],
         Narrows(vaultOp[o], vaultOp'[o]), \A q \in V!Meta : Same(q),
         chosen' = chosen \/ vaultOp[o].call = "select",
         vaultOp[o].call \in {"list", "select"} \/ (vaultOp[o].call = "connect" /\ Engaged(o))
            => Fits(o)',
         vaultOp[o].call = "select" => (NobodySelects' => ChosenPosts'),
         vaultOp[o].call = "list" \/ (vaultOp[o].call = "connect" /\ Engaged(o))
            => (NobodyWrites' => SamePages')
  PROVE  Selected'
<1>1. (\A u \in Slots \ {o} : Fits(u))' /\ \A q \in V!Meta : Less(q)
  BY OthersFit DEF Same, Less
<1>2. (NobodySelects' => ChosenPosts') /\ (NobodyWrites' => SamePages')
  BY <1>1, OthersAgree
<1>3. Engaged(o)' => Engaged(o)
  BY DEF Narrows, Engaged, V!Touches, V!Meta
<1>4. Fits(o)'
  <2>1. CASE vaultOp'[o].pc = "idle"
    <3>1. Consistent(vaultOp'[o])
      BY DEF VaultInv
    <3>2. vaultOp'[o].call = "none"
      BY <2>1, <3>1 DEF Consistent
    <3> QED BY <3>2 DEF Fits
  <2>2. CASE vaultOp'[o].pc # "idle"
    BY <1>3, <2>2 DEF Narrows, Fits
  <2> QED BY <2>1, <2>2
<1> QED BY <1>1, <1>2, <1>4, SelectedKept

\* What a list finds at first, and at the end of it.
LEMMA ListFacts ==
  ASSUME VaultInv, Selected, NEW o \in Slots, vaultOp[o].call = "list"
  PROVE  /\ Listing(o) /\ EndOfBoth(vaultOp[o].todo) /\ vaultOp[o].pc # "idle"
         /\ V!Provider(o) = Head(vaultOp[o].todo) /\ V!Provider(o) \in V!Meta
         /\ V!Provider(o) \in Providers
         /\ V!Provider(o) \notin V!ToSet(Tail(vaultOp[o].todo))
         /\ V!ToSet(vaultOp[o].todo)
               = {V!Provider(o)} \cup V!ToSet(Tail(vaultOp[o].todo))
         /\ V!ToSet(vaultOp[o].todo) \subseteq V!Meta
         /\ vaultOp[o].pc # "save" => Unlisted(o) = V!ToSet(vaultOp[o].todo)
         /\ vaultOp[o].pc = "save" => Unlisted(o) = V!ToSet(Tail(vaultOp[o].todo))
         /\ AtFirst(o) => V!ToSet(vaultOp[o].todo) = V!Meta
         /\ AtFirst(o) /\ vaultOp[o].pc # "save" =>
               SamePages /\ (vaultOp[o].pc # "read" =>
                                \A p \in V!Meta : V!Resolved(p).pages = {})
<1>1. Listing(o) /\ EndOfBoth(vaultOp[o].todo) /\ vaultOp[o].pc # "idle"
  BY EngagedFacts DEF Selected, Fits
<1>2. V!Provider(o) = Head(vaultOp[o].todo) /\ V!Meta \subseteq Providers
  BY DEF V!Provider, V!Meta
<1>3. /\ vaultOp[o].pc # "save" => Unlisted(o) = V!ToSet(vaultOp[o].todo)
      /\ vaultOp[o].pc = "save" => Unlisted(o) = V!ToSet(Tail(vaultOp[o].todo))
  BY DEF Unlisted
<1>4. AtFirst(o) => V!ToSet(vaultOp[o].todo) = V!Meta
  BY <1>1, EndsOfBoth DEF AtFirst
<1>5. ASSUME AtFirst(o), vaultOp[o].pc # "save"
      PROVE  SamePages /\ (vaultOp[o].pc # "read" =>
                              \A p \in V!Meta : V!Resolved(p).pages = {})
  <2>1. CASE vaultOp[o].pc = "read"
    BY <2>1, ReadersSame
  <2>2. CASE vaultOp[o].pc # "read"
    <3>1. \A p \in V!Meta : V!Resolved(p).pages = {}
      BY <1>1, <1>3, <1>4, <1>5, <2>2 DEF Listing
    <3> QED BY <3>1 DEF SamePages
  <2> QED BY <2>1, <2>2
<1> QED BY <1>1, <1>2, <1>3, <1>4, <1>5, EndsOfBoth

\* What a selection or an authorisation of Meta has behind it.
LEMMA BehindFacts ==
  ASSUME VaultInv, Selected, NEW o \in Slots,
         vaultOp[o].call = "select" \/ (vaultOp[o].call = "connect" /\ Engaged(o))
  PROVE  /\ vaultOp[o].call = "select" => Selecting(o)
         /\ vaultOp[o].call = "connect" => Connecting(o)
         /\ EndOfBoth(vaultOp[o].todo) /\ vaultOp[o].pc # "idle"
         /\ V!Provider(o) = Head(vaultOp[o].todo) /\ V!Provider(o) \in V!Meta
         /\ V!Provider(o) \in Providers
         /\ V!Provider(o) \notin Behind(o)
         /\ V!Meta \ V!ToSet(Tail(vaultOp[o].todo)) = Behind(o) \cup {V!Provider(o)}
         /\ AtFirst(o) => Behind(o) = {}
<1>1. /\ vaultOp[o].call = "select" => Selecting(o)
      /\ vaultOp[o].call = "connect" => Connecting(o)
      /\ EndOfBoth(vaultOp[o].todo) /\ vaultOp[o].pc # "idle"
  BY EngagedFacts DEF Selected, Fits
<1>2. V!Provider(o) = Head(vaultOp[o].todo) /\ V!Meta \subseteq Providers
  BY DEF V!Provider, V!Meta
<1> QED BY <1>1, <1>2, EndsOfBoth DEF Behind, AtFirst

\* Meta has answered.
LEMMA FetchPagesSelects ==
  ASSUME VaultInv, VaultInv', Calm, Selected, NEW o \in Slots, NEW pages \in Listings,
         V!FetchPages(o, pages)
  PROVE  Selected'
<1> DEFINE y == vaultOp[o]
           x == [y EXCEPT !.pc = "find", !.row = V!NoRow, !.bundle = V!Listed(pages)]
<1>1. /\ y \in VaultCall /\ Consistent(y) /\ y.pc = "fetch"
      /\ UNCHANGED <<row, secret, chosen>>
  BY VaultFacts DEF V!FetchPages
<1>2. \A q \in V!Meta : Same(q) /\ Less(q)
  BY <1>1, AllSame DEF Same, Less
<1>3. /\ x.pc = "find" /\ x.call = y.call /\ x.page = y.page
      /\ x.todo = y.todo /\ x.bundle = V!Listed(pages)
  BY <1>1 DEF VaultCall
<1> HIDE DEF x
<1>4. y.call \in {"list", "connect"}
  BY <1>1 DEF VaultCall, Consistent
<1>5. CASE vaultOp' = [vaultOp EXCEPT ![o] = x]
  <2>1. vaultOp'[o] = x /\ \A u \in Slots \ {o} : vaultOp'[u] = vaultOp[u]
    BY <1>5, OneGoesOn
  <2>2. Narrows(y, x)
    BY <1>1, <1>3 DEF Narrows
  <2>3. /\ AtFirst(o)' = AtFirst(o) /\ Behind(o)' = Behind(o) /\ Engaged(o)' = Engaged(o)
        /\ (Unlisted(o))' = Unlisted(o) /\ EndOfBoth(y.todo)' = EndOfBoth(y.todo)
    <3>1. /\ AtFirst(o)' = AtFirst(o) /\ Behind(o)' = Behind(o)
          /\ Engaged(o)' = Engaged(o)
      BY <1>1, <1>3, <2>1 DEF AtFirst, Behind, Engaged, V!Touches, V!ToSet, V!Meta, Both
    <3>2. (Unlisted(o))' = Unlisted(o)
      BY <1>1, <1>3, <2>1, SMTT(30) DEF Unlisted, V!ToSet
    <3>3. EndOfBoth(y.todo)' = EndOfBoth(y.todo)
      BY <1>3, <2>1 DEF EndOfBoth, V!Meta, Both
    <3> QED BY <3>1, <3>2, <3>3
  <2>4. CASE y.call = "list"
    <3>1. /\ Listing(o) /\ EndOfBoth(y.todo) /\ AtFirst(o) /\ Unlisted(o) = V!Meta
          /\ \A p \in V!Meta : V!Resolved(p).pages = {}
      BY <1>1, <2>4, ListFacts DEF Listing
    <3>2. \A p \in V!Meta : V!Resolved(p)'.pages = {}
      BY <1>2, <3>1 DEF Same
    <3>3. Listing(o)'
      BY <1>3, <2>1, <2>3, <3>1, <3>2 DEF Listing, V!Meta, EndOfBoth, Both
    <3>4. ~NobodyWrites'
      BY <1>3, <2>1, <2>4 DEF NobodyWrites
    <3> QED BY <1>1, <1>2, <1>3, <2>1, <2>2, <2>4, <3>3, <3>4, GoesOnSelected DEF Fits
  <2>5. CASE y.call = "connect"
    <3>1. ASSUME Engaged(o) PROVE Fits(o)' /\ ~NobodyWrites'
      <4>1. Connecting(o) /\ AtFirst(o) /\ Behind(o) = {} /\ SamePages
        BY <1>1, <2>5, <3>1, BehindFacts DEF Connecting
      <4>2. SamePages'
        BY <1>2, <4>1, LessAgrees
      <4>3. Connecting(o)'
        BY <1>1, <1>3, <2>1, <2>3, <4>1, <4>2 DEF Connecting, EndOfBoth, V!Meta, Both
      <4>4. ~NobodyWrites'
        BY <1>3, <2>1, <2>3, <2>5, <3>1 DEF NobodyWrites
      <4> QED BY <1>3, <2>1, <2>5, <4>3, <4>4 DEF Fits
    <3> QED BY <1>1, <1>2, <2>1, <2>2, <2>5, <3>1, GoesOnSelected
  <2> QED BY <1>4, <2>4, <2>5
<1>6. CASE y.call = "list" /\ vaultOp' = [vaultOp EXCEPT ![o] = V!Idle]
  <2>1. /\ vaultOp'[o] = V!Idle /\ \A u \in Slots \ {o} : vaultOp'[u] = vaultOp[u]
    BY <1>6, OneGoesOn
  <2>2. Narrows(y, V!Idle) /\ Fits(o)'
    BY <2>1, FitsOtherwise DEF Narrows, Fits
  <2>3. SamePages
    BY <1>1, <1>6, ListFacts DEF Listing
  <2>4. SamePages'
    BY <1>2, <2>3, LessAgrees
  <2> QED BY <1>1, <1>2, <1>6, <2>1, <2>2, <2>4, GoesOnSelected
<1> QED BY <1>5, <1>6 DEF V!FetchPages, V!Set, x

\* The row is looked up.
LEMMA FindSelects ==
  ASSUME VaultInv, VaultInv', Calm, Selected, NEW o \in Slots, V!Find(o)
  PROVE  Selected'
<1> DEFINE y == vaultOp[o]
           p == V!Provider(o)
           found == row[p]
<1>1. /\ y \in VaultCall /\ Consistent(y) /\ y.pc = "find" /\ p \in Providers
      /\ UNCHANGED <<row, secret, chosen>>
  BY VaultFacts DEF V!Find
<1>2. \A q \in V!Meta : Same(q) /\ Less(q)
  BY <1>1, AllSame DEF Same, Less
<1>3. y.call \in {"connect", "disconnect", "select", "list"}
  BY <1>1 DEF VaultCall, Consistent
<1> HIDE DEF p, found
<1>4. ASSUME NEW pc \in {"put", "read", "again", "erase"},
             vaultOp' = [vaultOp EXCEPT ![o] = [y EXCEPT !.pc = pc, !.row = found]],
             pc = "put" => y.call # "disconnect",
             pc \in {"put", "read"} /\ y.call # "connect" => found.status = "connected",
             pc = "put" => y.call # "select", pc = "read" => y.call = "select",
             pc \in {"again", "erase"} => y.call = "disconnect"
      PROVE  Selected'
  <2> DEFINE x == [y EXCEPT !.pc = pc, !.row = found]
  <2>1. /\ x.pc = pc /\ x.call = y.call /\ x.page = y.page
        /\ x.todo = y.todo /\ x.row = found /\ x.bundle = y.bundle
    BY <1>1 DEF VaultCall
  <2>2. vaultOp'[o] = x /\ \A u \in Slots \ {o} : vaultOp'[u] = vaultOp[u]
    BY <1>4, OneGoesOn
  <2> HIDE DEF x
  <2>3. Narrows(y, x)
    BY <1>1, <2>1 DEF Narrows
  <2>4. /\ AtFirst(o)' = AtFirst(o) /\ Behind(o)' = Behind(o) /\ Engaged(o)' = Engaged(o)
        /\ V!Provider(o)' = p
    BY <1>1, <1>4, <2>1, <2>2 DEF AtFirst, Behind, Engaged, V!Touches, V!ToSet, V!Meta, Both,
       V!Provider, p
  <2>5. CASE y.call = "list"
    <3>1. /\ Listing(o) /\ EndOfBoth(y.todo) /\ Unlisted(o) = V!ToSet(y.todo)
          /\ V!ToSet(y.todo) \subseteq V!Meta
      BY <1>1, <2>5, ListFacts
    <3>2. pc = "put"
      BY <1>4, <2>5
    <3>3. (Unlisted(o))' = Unlisted(o)
      BY <2>1, <2>2, <3>1, <3>2, SMTT(30) DEF Unlisted, V!ToSet
    <3>4. /\ \A q \in Unlisted(o) : V!Resolved(q)'.pages = {}
          /\ \A q \in V!Meta \ Unlisted(o) :
                V!Resolved(q)'.user => V!Resolved(q)'.pages = y.bundle.pages
      BY <1>1, <1>2, <3>1 DEF Listing, Same
    <3>5. row'[p] = x.row
      BY <1>1, <2>1 DEF found
    <3>6. Listing(o)'
      BY <2>1, <2>2, <2>4, <3>1, <3>2, <3>3, <3>4, <3>5 DEF Listing, EndOfBoth, V!Meta, Both
    <3>7. ~NobodyWrites'
      BY <2>1, <2>2, <2>5, <3>2 DEF NobodyWrites
    <3> QED BY <1>1, <1>2, <2>1, <2>2, <2>3, <2>5, <3>6, <3>7, GoesOnSelected DEF Fits
  <2>6. CASE y.call = "select"
    <3>1. Selecting(o) /\ EndOfBoth(y.todo)
      BY <2>6, BehindFacts
    <3>2. pc = "read"
      BY <1>4, <2>6
    <3>3. /\ \A q \in Behind(o) : V!Resolved(q)'.user =>
                V!Resolved(q)'.page = y.page /\ chosen' = y.page
          /\ AtFirst(o) => ChosenPosts'
      BY <1>1, <1>2, <3>1, LessAgrees DEF Selecting, Same, Behind
    <3>4. row'[p] = x.row
      BY <1>1, <2>1 DEF found
    <3>5. Selecting(o)'
      BY <2>1, <2>2, <2>4, <3>1, <3>2, <3>3, <3>4 DEF Selecting, EndOfBoth, V!Meta, Both
    <3>6. ~NobodySelects'
      BY <2>1, <2>2, <2>6 DEF NobodySelects
    <3> QED BY <1>1, <1>2, <2>1, <2>2, <2>3, <2>6, <3>5, <3>6, GoesOnSelected DEF Fits
  <2>7. CASE y.call = "connect"
    <3>1. ASSUME Engaged(o) PROVE Fits(o)' /\ ~NobodyWrites'
      <4>1. Connecting(o)
        BY <2>7, <3>1, BehindFacts
      <4>2. pc = "put"
        BY <1>4, <2>7
      <4>3. /\ \A q \in Behind(o) :
                  V!Resolved(q)'.user => V!Resolved(q)'.pages = y.bundle.pages
            /\ AtFirst(o) => SamePages'
        BY <1>1, <1>2, <4>1, LessAgrees DEF Connecting, Same, Behind
      <4>4. Connecting(o)'
        BY <1>1, <2>1, <2>2, <2>4, <4>1, <4>2, <4>3 DEF Connecting, EndOfBoth, V!Meta, Both
      <4>5. ~NobodyWrites'
        BY <2>1, <2>2, <2>4, <2>7, <3>1 DEF NobodyWrites
      <4> QED BY <2>1, <2>2, <2>7, <4>4, <4>5 DEF Fits
    <3> QED BY <1>1, <1>2, <2>2, <2>3, <2>7, <3>1, GoesOnSelected
  <2>8. CASE y.call = "disconnect"
    BY <1>1, <1>2, <2>1, <2>2, <2>3, <2>8, DisconnectKeepsSelection
  <2> QED BY <1>3, <2>5, <2>6, <2>7, <2>8
<1>5. ASSUME V!Advance(o), y.call \in {"select", "list"}, found.status # "connected"
      PROVE  Selected'
  <2>1. /\ \A u \in Slots \ {o} : vaultOp'[u] = vaultOp[u]
        /\ Narrows(vaultOp[o], vaultOp'[o])
    BY <1>1, <1>5, AdvanceLeads
  <2>2. ~V!Resolved(p).user /\ V!Resolved(p).pages = {}
    BY <1>1, <1>5, ResolvedFacts, VaultIdle DEF found
  <2>3. CASE y.call = "list"
    <3>1. /\ Listing(o) /\ Unlisted(o) = V!ToSet(y.todo) /\ p \in V!Meta
          /\ V!ToSet(y.todo) = {p} \cup V!ToSet(Tail(y.todo))
          /\ V!ToSet(y.todo) \subseteq V!Meta
      BY <1>1, <2>3, ListFacts DEF p
    <3>2. /\ \A q \in V!ToSet(Tail(y.todo)) : V!Resolved(q)'.pages = {}
          /\ \A q \in V!Meta \ V!ToSet(Tail(y.todo)) :
                V!Resolved(q)'.user => V!Resolved(q)'.pages = y.bundle.pages
      BY <1>1, <1>2, <2>2, <3>1 DEF Listing, Same
    <3>3. Fits(o)' /\ (NobodyWrites' => SamePages')
      BY <1>5, <2>3, <3>2, ListAdvances
    <3> QED BY <1>1, <1>2, <2>1, <2>3, <3>3, GoesOnSelected
  <2>4. CASE y.call = "select"
    <3>1. /\ Selecting(o) /\ p \in V!Meta
          /\ V!Meta \ V!ToSet(Tail(y.todo)) = Behind(o) \cup {p}
      BY <2>4, BehindFacts DEF p
    <3>2. \A q \in V!Meta \ V!ToSet(Tail(y.todo)) :
             V!Resolved(q)'.user => V!Resolved(q)'.page = y.page /\ chosen' = y.page
      BY <1>1, <1>2, <2>2, <3>1 DEF Selecting, Same
    <3>3. Fits(o)' /\ (NobodySelects' => ChosenPosts')
      BY <1>5, <2>4, <3>2, SelectAdvances
    <3> QED BY <1>1, <1>2, <2>1, <2>4, <3>3, GoesOnSelected
  <2> QED BY <1>5, <2>3, <2>4
<1>6. CASE y.call = "connect"
  <2>1. vaultOp' = [vaultOp EXCEPT ![o] = [y EXCEPT !.pc = "put", !.row = found]]
    BY <1>6 DEF V!Find, V!Set, p, found
  <2> QED BY <1>4, <1>6, <2>1
<1>7. CASE y.call = "disconnect"
  <2>1. CASE found = V!NoRow
    <3>1. vaultOp' = [vaultOp EXCEPT ![o] = [y EXCEPT !.pc = "again", !.row = found]]
      BY <1>7, <2>1 DEF V!Find, V!Set, p, found
    <3> QED BY <1>4, <1>7, <3>1
  <2>2. CASE found # V!NoRow
    <3>1. vaultOp' = [vaultOp EXCEPT ![o] = [y EXCEPT !.pc = "erase", !.row = found]]
      BY <1>7, <2>2 DEF V!Find, V!Set, p, found
    <3> QED BY <1>4, <1>7, <3>1
  <2> QED BY <2>1, <2>2
<1>8. CASE y.call \in {"select", "list"}
  <2>1. CASE found.status # "connected"
    <3>1. V!Advance(o)
      BY <1>8, <2>1 DEF V!Find, p, found
    <3> QED BY <1>5, <1>8, <2>1, <3>1
  <2>2. CASE found.status = "connected" /\ y.call = "select"
    <3>1. vaultOp' = [vaultOp EXCEPT ![o] = [y EXCEPT !.pc = "read", !.row = found]]
      BY <2>2 DEF V!Find, V!Set, p, found
    <3> QED BY <1>4, <2>2, <3>1
  <2>3. CASE found.status = "connected" /\ y.call = "list"
    <3>1. vaultOp' = [vaultOp EXCEPT ![o] = [y EXCEPT !.pc = "put", !.row = found]]
      BY <2>3 DEF V!Find, V!Set, p, found
    <3> QED BY <1>4, <2>3, <3>1
  <2> QED BY <1>8, <2>1, <2>2, <2>3
<1> QED BY <1>3, <1>6, <1>7, <1>8

\* A list reads: it goes on only where no connection has pages.
LEMMA ReadToListSelects ==
  ASSUME VaultInv, VaultInv', Calm, Selected, NEW o \in Slots, V!ReadToList(o)
  PROVE  Selected'
<1> DEFINE y == vaultOp[o]
           read == secret[y.row.ref]
           x == [y EXCEPT !.pc = "fetch", !.bundle = read]
<1>1. /\ y \in VaultCall /\ Consistent(y) /\ y.pc = "read" /\ y.call = "list"
      /\ UNCHANGED <<row, secret, chosen>>
  BY VaultFacts DEF V!ReadToList
<1>2. \A q \in V!Meta : Same(q) /\ Less(q)
  BY <1>1, AllSame DEF Same, Less
<1>3. /\ Listing(o) /\ AtFirst(o) /\ SamePages /\ EndOfBoth(y.todo)
      /\ V!ToSet(y.todo) = V!Meta
  BY <1>1, ListFacts DEF Listing
<1>4. SamePages'
  BY <1>2, <1>3, LessAgrees
<1> HIDE DEF read
<1>5. CASE vaultOp' = [vaultOp EXCEPT ![o] = x] /\ read # V!NoBundle /\ read.pages = {}
  <2>1. /\ x.pc = "fetch" /\ x.call = y.call /\ x.todo = y.todo /\ x.bundle = read
    BY <1>1 DEF VaultCall
  <2> HIDE DEF x
  <2>2. vaultOp'[o] = x /\ \A u \in Slots \ {o} : vaultOp'[u] = vaultOp[u]
    BY <1>5, OneGoesOn
  <2>3. Narrows(y, x)
    BY <1>1, <2>1 DEF Narrows
  <2>4. PICK q \in V!Meta : row[q] = y.row
    BY <1>1, <1>3 DEF Listing
  <2>5. q \in Providers /\ \A p \in V!Meta : p \in Providers
    BY DEF V!Meta
  <2>6. row[q].status = "connected"
    BY <1>1, <2>4 DEF Consistent
  <2>7. V!Resolved(q) = read /\ V!Resolved(q).user
    BY <1>5, <2>4, <2>5, <2>6, ResolvedFacts DEF read, Whole
  <2>8. \A p \in V!Meta : V!Resolved(p).pages = {}
    BY <1>3, <1>5, <2>5, <2>7, ResolvedFacts DEF SamePages
  <2>9. \A p \in V!Meta : V!Resolved(p)'.pages = {}
    BY <1>2, <2>8 DEF Same
  <2>10. (Unlisted(o))' = V!Meta /\ AtFirst(o)'
    BY <1>3, <2>1, <2>2 DEF Unlisted, V!ToSet, AtFirst, Both, V!Meta
  <2>11. Listing(o)'
    BY <1>3, <2>1, <2>2, <2>9, <2>10 DEF Listing, EndOfBoth, V!Meta, Both
  <2>12. Fits(o)'
    BY <1>1, <2>1, <2>2, <2>11 DEF Fits
  <2> QED BY <1>1, <1>2, <1>4, <2>2, <2>3, <2>12, GoesOnSelected
<1>6. CASE vaultOp' = [vaultOp EXCEPT ![o] = V!Idle]
  <2>1. /\ vaultOp'[o] = V!Idle /\ \A u \in Slots \ {o} : vaultOp'[u] = vaultOp[u]
    BY <1>6, OneGoesOn
  <2>2. Narrows(y, V!Idle) /\ Fits(o)'
    BY <2>1, FitsOtherwise DEF Narrows, Fits
  <2> QED BY <1>1, <1>2, <1>4, <2>1, <2>2, GoesOnSelected
<1> QED BY <1>5, <1>6 DEF V!ReadToList, V!Set, read

\* A selection reads: it goes on with its page, or passes over, or reports an
\* error and, if it has saved another connection before, nothing is chosen.
LEMMA ReadToSelectSelects ==
  ASSUME VaultInv, VaultInv', Calm, Selected, NEW o \in Slots, V!ReadToSelect(o)
  PROVE  Selected'
<1> DEFINE y == vaultOp[o]
           p == V!Provider(o)
           read == secret[y.row.ref]
           known == y.page \in read.pages
           b == [read EXCEPT !.page = y.page]
           x == [y EXCEPT !.pc = "put", !.bundle = b]
<1>1. /\ y \in VaultCall /\ Consistent(y) /\ y.pc = "read" /\ y.call = "select"
      /\ UNCHANGED <<row, secret>>
      /\ chosen' = IF read # V!NoBundle /\ ~known /\ Len(y.todo) < V!Cardinality(V!Meta)
                   THEN "none" ELSE chosen
  BY VaultFacts DEF V!ReadToSelect, V!None
<1>2. \A q \in V!Meta : Same(q) /\ Less(q)
  BY <1>1, AllSame DEF Same, Less
<1>3. /\ Selecting(o) /\ EndOfBoth(y.todo) /\ p \in V!Meta /\ p \in Providers
      /\ V!Meta \ V!ToSet(Tail(y.todo)) = Behind(o) \cup {p}
  BY <1>1, BehindFacts
<1>4. row[p] = y.row /\ row[p].status = "connected"
  BY <1>1, <1>3 DEF Selecting, Consistent
<1>5. read = V!Resolved(p) /\ read \in VaultBundle
  BY <1>3, <1>4, ResolvedFacts
<1> HIDE DEF read, p
<1>6. CASE V!Advance(o) /\ read = V!NoBundle
  <2>1. /\ \A u \in Slots \ {o} : vaultOp'[u] = vaultOp[u]
        /\ Narrows(vaultOp[o], vaultOp'[o])
    BY <1>1, <1>6, AdvanceLeads
  <2>2. ~V!Resolved(p).user /\ chosen' = chosen
    BY <1>1, <1>5, <1>6, VaultIdle
  <2>3. \A q \in V!Meta \ V!ToSet(Tail(y.todo)) :
           V!Resolved(q)'.user => V!Resolved(q)'.page = y.page /\ chosen' = y.page
    BY <1>2, <1>3, <2>2 DEF Selecting, Same
  <2>4. Fits(o)' /\ (NobodySelects' => ChosenPosts')
    BY <1>1, <1>6, <2>3, SelectAdvances
  <2> QED BY <1>1, <1>2, <2>1, <2>4, GoesOnSelected
<1>7. CASE vaultOp' = [vaultOp EXCEPT ![o] = x] /\ known
  <2>1. b.page = y.page /\ b.pages = read.pages
    BY <1>5 DEF VaultBundle
  <2> HIDE DEF b
  <2>2. /\ x.pc = "put" /\ x.call = y.call /\ x.todo = y.todo /\ x.bundle = b
        /\ x.page = y.page /\ x.row = y.row
    BY <1>1 DEF VaultCall
  <2>3. vaultOp'[o] = x /\ \A u \in Slots \ {o} : vaultOp'[u] = vaultOp[u]
    BY <1>7, OneGoesOn
  <2> HIDE DEF x
  <2>4. Narrows(y, x)
    BY <1>1, <2>2 DEF Narrows
  <2>5. /\ AtFirst(o)' = AtFirst(o) /\ Behind(o)' = Behind(o) /\ V!Provider(o)' = p
    BY <2>2, <2>3 DEF AtFirst, Behind, V!ToSet, V!Meta, Both, V!Provider, p
  <2>6. chosen' = chosen
    BY <1>1, <1>7
  <2>7. /\ \A q \in Behind(o) : V!Resolved(q)'.user =>
              V!Resolved(q)'.page = y.page /\ chosen' = y.page
        /\ AtFirst(o) => ChosenPosts'
    BY <1>1, <1>2, <1>3, <2>6, LessAgrees DEF Selecting, Same, Behind
  <2>8. row'[p] = x.row /\ b.pages = secret'[x.row.ref].pages
    BY <1>1, <1>4, <2>1, <2>2 DEF read
  <2>9. Selecting(o)'
    <3>1. EndOfBoth(vaultOp[o].todo)'
      BY <1>3, <2>2, <2>3 DEF EndOfBoth, V!Meta, Both
    <3>2. /\ vaultOp'[o].bundle.page = vaultOp'[o].page
          /\ vaultOp'[o].page \in vaultOp'[o].bundle.pages
          /\ vaultOp'[o].bundle.pages = secret'[vaultOp'[o].row.ref].pages
          /\ vaultOp'[o].pc = "put" /\ vaultOp'[o].page = y.page
          /\ row'[V!Provider(o)'] = vaultOp'[o].row
      BY <1>7, <2>1, <2>2, <2>3, <2>5, <2>8
    <3> QED BY <2>5, <2>7, <3>1, <3>2 DEF Selecting
  <2>10. Fits(o)' /\ ~NobodySelects'
    BY <1>1, <2>2, <2>3, <2>9 DEF Fits, NobodySelects
  <2> QED BY <1>1, <1>2, <2>3, <2>4, <2>10, GoesOnSelected
<1>8. CASE vaultOp' = [vaultOp EXCEPT ![o] = V!Idle] /\ read # V!NoBundle /\ ~known
  <2>1. /\ vaultOp'[o] = V!Idle /\ \A u \in Slots \ {o} : vaultOp'[u] = vaultOp[u]
    BY <1>8, OneGoesOn
  <2>2. Narrows(y, V!Idle) /\ Fits(o)'
    BY <2>1, FitsOtherwise DEF Narrows, Fits
  <2>3. ChosenPosts'
    <3>1. CASE Len(y.todo) < V!Cardinality(V!Meta)
      BY <1>1, <1>8, <3>1 DEF ChosenPosts
    <3>2. CASE ~(Len(y.todo) < V!Cardinality(V!Meta))
      <4>1. Len(y.todo) = Len(Both)
        <5>1. /\ Len(y.todo) \in Nat /\ Len(Both) \in Nat /\ Len(y.todo) <= Len(Both)
          BY <1>3, EndsOfBoth
        <5>2. ~(Len(y.todo) < Len(Both))
          BY <3>2, MetaList
        <5> QED BY <5>1, <5>2
      <4>2. ChosenPosts /\ chosen' = chosen
        BY <1>1, <1>3, <3>2, <4>1 DEF Selecting, AtFirst
      <4> QED BY <1>2, <4>2, LessAgrees
    <3> QED BY <3>1, <3>2
  <2> QED BY <1>1, <1>2, <2>1, <2>2, <2>3, GoesOnSelected
<1> QED BY <1>6, <1>7, <1>8 DEF V!ReadToSelect, V!Set, read

\* A secret is written.
LEMMA PutLeads ==
  ASSUME VaultInv, NEW o \in Slots, V!Put(o)
  PROVE  /\ vaultOp[o].pc = "put" /\ vaultOp[o].call \in {"connect", "list", "select"}
         /\ UNCHANGED <<row, chosen>>
         /\ V!Provider(o) \in Providers /\ V!RefFor(o) \in Own(V!Provider(o))
         /\ secret'[V!RefFor(o)] = vaultOp[o].bundle
         /\ \A q \in Providers \ {V!Provider(o)} : Same(q)
         /\ \A u \in Slots \ {o} : vaultOp'[u] = vaultOp[u]
         /\ Narrows(vaultOp[o], vaultOp'[o])
         /\ \/ V!Advance(o) /\ vaultOp[o].call = "list"
            \/ /\ vaultOp'[o].pc = "save" /\ vaultOp'[o].call = vaultOp[o].call
               /\ vaultOp'[o].todo = vaultOp[o].todo /\ vaultOp'[o].page = vaultOp[o].page
               /\ vaultOp'[o].row = vaultOp[o].row /\ vaultOp'[o].bundle = vaultOp[o].bundle
               /\ vaultOp'[o].state = vaultOp[o].state
<1> DEFINE y == vaultOp[o]
           p == V!Provider(o)
           ref == V!RefFor(o)
           x == [y EXCEPT !.pc = "save"]
<1>1. /\ y \in VaultCall /\ Consistent(y) /\ y.pc = "put" /\ UNCHANGED <<row, chosen>>
      /\ secret' = [secret EXCEPT ![ref] = y.bundle]
      /\ p \in Providers /\ ref \in Own(p) /\ ref \in V!Refs
  BY VaultFacts, RefIsOwn, OwnApart DEF V!Put
<1> HIDE DEF p, ref
<1>2. /\ secret'[ref] = y.bundle
      /\ \A r \in V!Refs : r \notin Own(p) => secret'[r] = secret[r]
  BY <1>1 DEF VaultInv, VaultTyped
<1>3. \A q \in Providers \ {p} : Same(q)
  BY <1>1, <1>2, OthersSame
<1>4. y.call \in {"connect", "list", "select"}
  BY <1>1 DEF VaultCall, Consistent
<1>5. CASE V!Advance(o) /\ y.call = "list"
  BY <1>1, <1>2, <1>3, <1>4, <1>5, AdvanceLeads DEF p, ref
<1>6. CASE vaultOp' = [vaultOp EXCEPT ![o] = x]
  <2>1. /\ x.pc = "save" /\ x.call = y.call /\ x.todo = y.todo /\ x.page = y.page
        /\ x.row = y.row /\ x.bundle = y.bundle /\ x.state = y.state
    BY <1>1 DEF VaultCall
  <2> HIDE DEF x
  <2>2. vaultOp'[o] = x /\ \A u \in Slots \ {o} : vaultOp'[u] = vaultOp[u]
    BY <1>6, OneGoesOn
  <2>3. Narrows(y, x)
    BY <1>1, <2>1 DEF Narrows
  <2> QED BY <1>1, <1>2, <1>3, <1>4, <2>1, <2>2, <2>3 DEF p, ref
<1> QED BY <1>5, <1>6 DEF V!Put, V!Set

\* A selection writes its page, and the pages there were.
LEMMA PutSelects ==
  ASSUME VaultInv, Calm, Selected, NEW o \in Slots, V!Put(o), vaultOp[o].call = "select"
  PROVE  Selected'
<1> DEFINE y == vaultOp[o]
<1>0. PICK p \in Providers : p = V!Provider(o)
  BY PutLeads
<1>1. /\ y.pc = "put" /\ UNCHANGED <<row, chosen>> /\ p \in Providers
      /\ secret'[V!RefFor(o)] = y.bundle
      /\ \A q \in Providers \ {p} : Same(q)
      /\ \A u \in Slots \ {o} : vaultOp'[u] = vaultOp[u]
      /\ Narrows(y, vaultOp'[o])
      /\ vaultOp'[o].pc = "save" /\ vaultOp'[o].call = "select"
      /\ vaultOp'[o].todo = y.todo /\ vaultOp'[o].page = y.page
      /\ vaultOp'[o].row = y.row /\ vaultOp'[o].bundle = y.bundle
  BY <1>0, PutLeads
<1>2. y \in VaultCall /\ Consistent(y)
  BY VaultFacts
<1>3. /\ Selecting(o) /\ EndOfBoth(y.todo) /\ p \in V!Meta /\ p \notin Behind(o)
      /\ \A q \in V!Meta : q \in Providers
  BY <1>0, BehindFacts DEF V!Meta
<1>4. V!RefFor(o) = y.row.ref /\ row[p] = y.row /\ row[p].status = "connected"
  BY <1>0, <1>1, <1>2, <1>3 DEF V!RefFor, Selecting, Consistent
<1>5. /\ V!Resolved(p) = secret[y.row.ref] /\ Whole(V!Resolved(p))
      /\ V!Resolved(p)' = secret'[y.row.ref]
  BY <1>1, <1>4, ResolvedFacts DEF V!Resolved
<1>6. /\ y.page \in y.bundle.pages /\ y.bundle.pages = V!Resolved(p).pages
      /\ y.bundle.page = y.page
  BY <1>1, <1>3, <1>5 DEF Selecting
<1>7. V!Resolved(p).user /\ y.bundle.user
  BY <1>1, <1>2, <1>5, <1>6, VaultIdle DEF Whole, Consistent
<1>8. /\ V!Resolved(p)' = y.bundle
      /\ \A q \in V!Meta : /\ V!Resolved(q)'.user = V!Resolved(q).user
                           /\ V!Resolved(q)'.pages = V!Resolved(q).pages
  <2>1. V!Resolved(p)' = y.bundle
    BY <1>1, <1>4, <1>5
  <2>2. \A q \in V!Meta \ {p} : V!Resolved(q)' = V!Resolved(q)
    BY <1>1, <1>3 DEF Same
  <2>3. V!Resolved(p)'.user = V!Resolved(p).user
    BY <1>2, <1>7, <2>1, <1>3, ResolvedFacts DEF VaultCall, VaultBundle
  <2> QED BY <1>6, <2>1, <2>2, <2>3
<1>9. (\A u \in Slots \ {o} : Fits(u))'
  <2> SUFFICES ASSUME NEW u \in Slots, u # o PROVE Fits(u)'
    OBVIOUS
  <2>1. /\ vaultOp'[u] = vaultOp[u] /\ vaultOp[u].call # "select"
        /\ vaultOp[u].call = "connect" => ~Engaged(u)
    BY <1>1, Company
  <2>2. CASE vaultOp[u].call = "list"
    <3>1. Listing(u) /\ Unlisted(u) \subseteq V!Meta
      BY <2>2, ListFacts
    <3>2. /\ (Unlisted(u))' = Unlisted(u) /\ AtFirst(u)' = AtFirst(u)
          /\ V!Provider(u)' = V!Provider(u)
      BY <2>1 DEF Unlisted, AtFirst, V!Provider, V!ToSet, Both, V!Meta
    <3>3. vaultOp[u].pc # "read" =>
             /\ \A q \in Unlisted(u) : V!Resolved(q)'.pages = {}
             /\ \A q \in V!Meta \ Unlisted(u) :
                   V!Resolved(q)'.user => V!Resolved(q)'.pages = vaultOp[u].bundle.pages
      BY <1>8, <3>1 DEF Listing
    <3>4. EndOfBoth(vaultOp[u].todo)'
      BY <2>1, <3>1 DEF Listing, EndOfBoth, V!Meta, Both
    <3>5. /\ vaultOp[u].pc = "read" => \E q \in V!Meta : row'[q] = vaultOp[u].row
          /\ vaultOp[u].pc \in {"put", "save"} => row'[V!Provider(u)] = vaultOp[u].row
      BY <1>1, <3>1 DEF Listing
    <3>6. vaultOp[u].pc \in {"read", "fetch"} => AtFirst(u)
      BY <3>1 DEF Listing
    <3>7. Listing(u)'
      BY <2>1, <3>2, <3>3, <3>4, <3>5, <3>6 DEF Listing, V!Meta
    <3> QED BY <2>1, <2>2, <3>7 DEF Fits
  <2>3. CASE vaultOp[u].call # "list"
    <3>1. Engaged(u)' = Engaged(u)
      BY <2>1 DEF Engaged, V!Touches, V!Meta
    <3> QED BY <2>1, <2>3, <3>1 DEF Fits
  <2> QED BY <2>2, <2>3
<1>10. NobodyWrites' => SamePages'
  <2>1. NobodyWrites' => NobodyWrites
    <3>1. \A u \in Slots \ {o} : Engaged(u)' = Engaged(u)
      BY <1>1 DEF Engaged, V!Touches, V!Meta
    <3> QED BY <1>1, <3>1 DEF NobodyWrites
  <2>2. SamePages => SamePages'
    BY <1>8 DEF SamePages, V!Meta
  <2> QED BY <2>1, <2>2 DEF Selected
<1>11. Selecting(o)'
  <2>1. Behind(o)' = Behind(o) /\ V!Provider(o)' = p
    BY <1>0, <1>1 DEF Behind, V!ToSet, V!Meta, V!Provider
  <2>2. \A q \in Behind(o) : V!Resolved(q)'.user =>
           V!Resolved(q)'.page = y.page /\ chosen' = y.page
    BY <1>1, <1>3 DEF Selecting, Same, Behind
  <2>3. EndOfBoth(vaultOp[o].todo)'
    BY <1>1, <1>3 DEF EndOfBoth, V!Meta, Both
  <2>4. /\ row'[V!Provider(o)'] = vaultOp'[o].row
        /\ secret'[vaultOp'[o].row.ref] = vaultOp'[o].bundle
    BY <1>1, <1>4, <2>1
  <2> QED BY <1>1, <1>6, <2>1, <2>2, <2>3, <2>4 DEF Selecting
<1>12. Fits(o)' /\ ~NobodySelects'
  BY <1>1, <1>11 DEF Fits, NobodySelects
<1> QED BY <1>1, <1>9, <1>10, <1>12, SelectedKept

\* An authorisation writes its bundle: no other call at work minds.
LEMMA PutConnects ==
  ASSUME VaultInv, VaultInv', Calm, Selected, NEW o \in Slots, V!Put(o),
         vaultOp[o].call = "connect"
  PROVE  Selected'
<1> DEFINE y == vaultOp[o]
<1>0. PICK p \in Providers : p = V!Provider(o)
  BY PutLeads
<1>1. /\ y.pc = "put" /\ UNCHANGED <<row, chosen>> /\ p \in Providers
      /\ secret'[V!RefFor(o)] = y.bundle
      /\ \A q \in Providers \ {p} : Same(q)
      /\ \A u \in Slots \ {o} : vaultOp'[u] = vaultOp[u]
      /\ Narrows(y, vaultOp'[o])
      /\ vaultOp'[o].pc = "save" /\ vaultOp'[o].call = "connect"
      /\ vaultOp'[o].todo = y.todo /\ vaultOp'[o].row = y.row
      /\ vaultOp'[o].bundle = y.bundle /\ vaultOp'[o].state = y.state
  BY <1>0, PutLeads
<1>2. \A q \in V!Meta : q \in Providers
  BY DEF V!Meta
<1>3. CASE ~Engaged(o)
  <2>1. p \notin V!Meta
    BY <1>0, <1>1, <1>3, EngagedFacts
  <2>2. \A q \in V!Meta : Same(q)
    BY <1>1, <1>2, <2>1
  <2> QED BY <1>1, <1>3, <2>2, GoesOnSelected
<1>4. CASE Engaged(o)
  <2>1. Connecting(o) /\ EndOfBoth(y.todo) /\ p \in V!Meta /\ p \notin Behind(o)
    BY <1>0, <1>4, BehindFacts
  <2>2. (\A u \in Slots \ {o} : Fits(u))'
    <3> SUFFICES ASSUME NEW u \in Slots, u # o PROVE Fits(u)'
      OBVIOUS
    <3>1. /\ vaultOp'[u] = vaultOp[u] /\ vaultOp[u].call \notin {"list", "select"}
          /\ vaultOp[u].call = "connect" => ~Engaged(u)
      BY <1>1, <1>4, Company
    <3>2. Engaged(u)' = Engaged(u)
      BY <3>1 DEF Engaged, V!Touches, V!Meta
    <3> QED BY <3>1, <3>2 DEF Fits
  <2>3. /\ Behind(o)' = Behind(o) /\ V!RefFor(o)' = V!RefFor(o) /\ Engaged(o)'
    BY <1>1, <1>4 DEF Behind, V!ToSet, V!Meta, V!RefFor, V!IdFor, V!Provider, Engaged,
       V!Touches
  <2>4. \A q \in Behind(o) : V!Resolved(q)'.user => V!Resolved(q)'.pages = y.bundle.pages
    BY <1>1, <1>2, <2>1 DEF Connecting, Same, Behind
  <2>5. EndOfBoth(vaultOp[o].todo)'
    BY <1>1, <2>1 DEF EndOfBoth, V!Meta, Both
  <2>6. Connecting(o)'
    BY <1>1, <2>1, <2>3, <2>4, <2>5 DEF Connecting
  <2>7. Fits(o)' /\ ~NobodyWrites'
    BY <1>1, <2>3, <2>6 DEF Fits, NobodyWrites
  <2>8. ChosenPosts'
    BY <1>1, <2>1 DEF Connecting, ChosenPosts
  <2> QED BY <1>1, <2>2, <2>7, <2>8, SelectedKept
<1> QED BY <1>3, <1>4

\* A list writes where there were no pages, so that none was chosen.
LEMMA PutLists ==
  ASSUME VaultInv, Calm, Selected, NEW o \in Slots, V!Put(o), vaultOp[o].call = "list"
  PROVE  Selected'
<1> DEFINE y == vaultOp[o]
<1>0. PICK p \in Providers : p = V!Provider(o)
  BY PutLeads
<1>1. /\ y.pc = "put" /\ UNCHANGED <<row, chosen>> /\ p \in Providers
      /\ V!RefFor(o) \in Own(p) /\ secret'[V!RefFor(o)] = y.bundle
      /\ \A q \in Providers \ {p} : Same(q)
      /\ \A u \in Slots \ {o} : vaultOp'[u] = vaultOp[u]
      /\ Narrows(y, vaultOp'[o])
  BY <1>0, PutLeads
<1>2. y \in VaultCall /\ Consistent(y) /\ V!Touches(o, p)
  BY <1>0, <1>1, VaultFacts
<1>3. /\ Listing(o) /\ EndOfBoth(y.todo) /\ p \in V!Meta
      /\ Unlisted(o) = V!ToSet(y.todo) /\ p \notin V!ToSet(Tail(y.todo))
      /\ V!ToSet(y.todo) = {p} \cup V!ToSet(Tail(y.todo))
      /\ V!ToSet(y.todo) \subseteq V!Meta
      /\ \A q \in V!Meta : q \in Providers
  BY <1>0, <1>1, ListFacts DEF V!Meta
<1>4. V!RefFor(o) = y.row.ref /\ row[p] = y.row /\ row[p].status = "connected"
  BY <1>0, <1>1, <1>2, <1>3 DEF V!RefFor, Listing, Consistent
<1>5. V!Resolved(p)' = y.bundle /\ V!Resolved(p) = secret[y.row.ref]
  BY <1>1, <1>4, ResolvedFacts DEF V!Resolved
<1>6. V!Resolved(p).user
  <2>1. ASSUME NEW u \in Slots, vaultOp[u].pc = "mark", V!Provider(u) = p PROVE FALSE
    <3>1. vaultOp[u].call = "disconnect" /\ V!Touches(u, p) /\ u # o
      BY <1>0, <1>1, <2>1, VaultFacts DEF Consistent, VaultCall
    <3>2. trouble[p] = "torn"
      BY <1>1, <1>2, <3>1 DEF VaultInv, Apart
    <3> QED BY <1>3, <3>2 DEF Calm
  <2>2. trouble[p] # "torn"
    BY <1>3 DEF Calm
  <2>3. V!Resolved(p) # V!NoBundle
    BY <1>1, <1>4, <2>1, <2>2 DEF VaultInv, V!ConnectedMeansUsable
  <2> QED BY <1>1, <2>3, ResolvedFacts DEF Whole
<1>7. V!Resolved(p).pages = {} /\ V!Resolved(p).page = "none"
  <2>1. V!Resolved(p).pages = {}
    BY <1>1, <1>3 DEF Listing
  <2> QED BY <1>1, <2>1, ResolvedFacts DEF Whole
<1>8. ChosenPosts => chosen' = "none"
  BY <1>1, <1>3, <1>6, <1>7 DEF ChosenPosts
<1>9. (\A u \in Slots \ {o} : Fits(u))'
  <2> SUFFICES ASSUME NEW u \in Slots, u # o PROVE Fits(u)'
    OBVIOUS
  <2>1. /\ vaultOp'[u] = vaultOp[u] /\ vaultOp[u].call # "list"
        /\ vaultOp[u].call = "connect" => ~Engaged(u)
    BY <1>1, Company
  <2>2. CASE vaultOp[u].call = "select"
    <3> DEFINE z == vaultOp[u]
    <3>1. /\ Selecting(u) /\ EndOfBoth(z.todo) /\ V!Provider(u) \in V!Meta
          /\ z \in VaultCall /\ Consistent(z) /\ z.page \in Pages
      BY <2>2, BehindFacts, VaultFacts DEF Consistent
    <3>2. z.page # "none"
      BY <3>1, ServicesAssumption
    <3>3. p \notin Behind(u)
      BY <1>6, <1>7, <3>1, <3>2 DEF Selecting
    <3>4. \A q \in Behind(u) : V!Resolved(q)'.user =>
             V!Resolved(q)'.page = z.page /\ chosen' = z.page
      BY <1>1, <1>3, <3>1, <3>3 DEF Selecting, Same, Behind
    <3>5. AtFirst(u) /\ z.pc # "save" => ChosenPosts'
      BY <1>8, <3>1 DEF Selecting, ChosenPosts
    <3>6. ASSUME z.pc \in {"put", "save"} PROVE secret'[z.row.ref] = secret[z.row.ref]
      <4>1. V!Provider(u) # p
        <5> SUFFICES ASSUME V!Provider(u) = p PROVE FALSE
          OBVIOUS
        <5>1. z.row = y.row /\ z.page \in z.bundle.pages
          BY <1>4, <3>1, <3>6 DEF Selecting
        <5>2. z.bundle.pages = V!Resolved(p).pages
          BY <1>5, <3>1, <3>6, <5>1 DEF Selecting
        <5> QED BY <1>7, <5>1, <5>2
      <4>2. z.row.ref \in Own(V!Provider(u))
        BY <2>2, <3>1, <3>6, OwnApart DEF Consistent, V!Provider
      <4> QED BY <1>1, <1>3, <3>1, <4>1, <4>2 DEF Same
    <3>7. /\ AtFirst(u)' = AtFirst(u) /\ Behind(u)' = Behind(u)
          /\ V!Provider(u)' = V!Provider(u)
      BY <2>1 DEF AtFirst, Behind, V!Provider, V!ToSet, V!Meta, Both
    <3>8. EndOfBoth(vaultOp[u].todo)'
      BY <2>1, <3>1 DEF EndOfBoth, V!Meta, Both
    <3>9. Selecting(u)'
      BY <1>1, <2>1, <3>1, <3>4, <3>5, <3>6, <3>7, <3>8 DEF Selecting
    <3> QED BY <2>1, <2>2, <3>9 DEF Fits
  <2>3. CASE vaultOp[u].call # "select"
    <3>1. Engaged(u)' = Engaged(u)
      BY <2>1 DEF Engaged, V!Touches, V!Meta
    <3> QED BY <2>1, <2>3, <3>1 DEF Fits
  <2> QED BY <2>2, <2>3
<1>10. NobodySelects' => ChosenPosts'
  <2>1. NobodySelects' => NobodySelects
    BY <1>1 DEF NobodySelects
  <2> QED BY <1>8, <2>1 DEF Selected, ChosenPosts
<1>11. /\ \A q \in V!ToSet(Tail(y.todo)) : V!Resolved(q)'.pages = {}
       /\ \A q \in V!Meta \ V!ToSet(Tail(y.todo)) :
             V!Resolved(q)'.user => V!Resolved(q)'.pages = y.bundle.pages
  BY <1>1, <1>3, <1>5 DEF Listing, Same
<1>12. CASE V!Advance(o)
  <2>1. Fits(o)' /\ (NobodyWrites' => SamePages')
    BY <1>11, <1>12, ListAdvances
  <2> QED BY <1>1, <1>9, <1>10, <2>1, SelectedKept
<1>13. CASE /\ vaultOp'[o].pc = "save" /\ vaultOp'[o].call = "list"
            /\ vaultOp'[o].todo = y.todo /\ vaultOp'[o].row = y.row
            /\ vaultOp'[o].bundle = y.bundle
  <2>1. (Unlisted(o))' = V!ToSet(Tail(y.todo)) /\ V!Provider(o)' = p
    BY <1>0, <1>13 DEF Unlisted, V!ToSet, V!Provider
  <2>2. EndOfBoth(vaultOp[o].todo)'
    BY <1>3, <1>13 DEF EndOfBoth, V!Meta, Both
  <2>3. row'[V!Provider(o)'] = vaultOp'[o].row
    BY <1>1, <1>4, <1>13, <2>1
  <2>4. /\ \A q \in (Unlisted(o))' : V!Resolved(q)'.pages = {}
        /\ \A q \in V!Meta \ (Unlisted(o))' :
              V!Resolved(q)'.user => V!Resolved(q)'.pages = vaultOp'[o].bundle.pages
    BY <1>11, <1>13, <2>1
  <2>5. Listing(o)'
    BY <1>13, <2>2, <2>3, <2>4 DEF Listing, V!Meta
  <2>6. Fits(o)' /\ ~NobodyWrites'
    BY <1>13, <2>5 DEF Fits, NobodyWrites
  <2> QED BY <1>1, <1>9, <1>10, <2>6, SelectedKept
<1> QED BY <1>12, <1>13, PutLeads

\* A row is saved.  One that a page call has read is as it was.
LEMMA SaveLeads ==
  ASSUME VaultInv, NEW o \in Slots, V!Save(o), NEW p, p = V!Provider(o)
  PROVE  /\ vaultOp[o].pc = "save" /\ p \in Providers /\ V!Advance(o)
         /\ vaultOp[o].call \in {"connect", "list", "select"}
         /\ UNCHANGED secret
         /\ chosen' = IF vaultOp[o].call = "select" THEN vaultOp[o].page ELSE chosen
         /\ row'[p].status = "connected" /\ row'[p].ref = V!RefFor(o)
         /\ \A q \in Providers \ {p} : Same(q)
         /\ vaultOp[o].call # "connect" /\ row[p] = vaultOp[o].row => Same(p)
<1> DEFINE y == vaultOp[o]
           id == IF y.call = "connect" THEN V!IdFor(o) ELSE y.row.id
           r == [status |-> "connected", ref |-> V!RefFor(o),
                 id |-> IF row[p] = V!NoRow THEN id ELSE row[p].id]
<1>1. /\ y \in VaultCall /\ Consistent(y) /\ y.pc = "save" /\ p \in Providers
      /\ UNCHANGED secret /\ V!Advance(o)
      /\ chosen' = IF y.call = "select" THEN y.page ELSE chosen
  BY VaultFacts DEF V!Save
<1>2. row' = [row EXCEPT ![p] = r]
  BY DEF V!Save, V!Upsert, V!RefFor
<1>3. row'[p] = r /\ \A q \in Providers \ {p} : row'[q] = row[q]
  BY <1>1, <1>2 DEF VaultInv, VaultTyped
<1>4. \A q \in Providers \ {p} : Same(q)
  BY <1>1, <1>3, OthersSame
<1>5. y.call \in {"connect", "list", "select"}
  BY <1>1 DEF VaultCall, Consistent
<1>6. ASSUME y.call # "connect", row[p] = y.row PROVE Same(p)
  <2>1. y.row.status = "connected" /\ V!RefFor(o) = y.row.ref
    BY <1>1, <1>6 DEF Consistent, V!RefFor
  <2>2. /\ row[p] # V!NoRow
        /\ row[p] \in [status : {"connected", "revoked"}, id : Own(p), ref : Own(p)]
    BY <1>1, <1>6, <2>1, ResolvedFacts DEF RowsOf
  <2>3. r = row[p]
    <3>1. r = [status |-> row[p].status, ref |-> row[p].ref, id |-> row[p].id]
      BY <1>6, <2>1, <2>2
    <3> QED BY <2>2, <3>1
  <2>4. row'[p] = row[p]
    BY <1>3, <2>3
  <2> QED BY <1>1, <2>4 DEF Same, V!Resolved
<1> QED BY <1>1, <1>3, <1>4, <1>5, <1>6

\* A page call saves its row: a selection has now chosen its page.
LEMMA SaveSelects ==
  ASSUME VaultInv, VaultInv', Calm, Selected, NEW o \in Slots, V!Save(o),
         vaultOp[o].call \in {"list", "select"}
  PROVE  Selected'
<1> DEFINE y == vaultOp[o]
<1>0. PICK p : p = V!Provider(o)
  OBVIOUS
<1>1. /\ y.pc = "save" /\ p \in Providers /\ V!Advance(o) /\ UNCHANGED secret
      /\ chosen' = IF y.call = "select" THEN y.page ELSE chosen
      /\ \A q \in Providers \ {p} : Same(q)
      /\ row[p] = y.row => Same(p)
  BY <1>0, SaveLeads
<1>2. y \in VaultCall /\ Consistent(y)
  BY VaultFacts
<1>3. /\ \A u \in Slots \ {o} : vaultOp'[u] = vaultOp[u]
      /\ Narrows(y, vaultOp'[o])
  BY <1>1, AdvanceLeads
<1>4. row[p] = y.row
  BY <1>0, <1>1, ListFacts, BehindFacts DEF Listing, Selecting
<1>5. \A q \in V!Meta : Same(q)
  BY <1>1, <1>4 DEF V!Meta
<1>6. CASE y.call = "list"
  <2>1. /\ Listing(o) /\ Unlisted(o) = V!ToSet(Tail(y.todo))
        /\ V!ToSet(y.todo) \subseteq V!Meta
        /\ V!ToSet(y.todo) = {p} \cup V!ToSet(Tail(y.todo))
    BY <1>0, <1>1, <1>6, ListFacts
  <2>2. /\ \A q \in V!ToSet(Tail(y.todo)) : V!Resolved(q)'.pages = {}
        /\ \A q \in V!Meta \ V!ToSet(Tail(y.todo)) :
              V!Resolved(q)'.user => V!Resolved(q)'.pages = y.bundle.pages
    BY <1>1, <1>5, <2>1 DEF Listing, Same
  <2>3. Fits(o)' /\ (NobodyWrites' => SamePages')
    BY <1>1, <1>6, <2>2, ListAdvances
  <2> QED BY <1>1, <1>3, <1>5, <1>6, <2>3, GoesOnSelected
<1>7. CASE y.call = "select"
  <2>1. /\ Selecting(o) /\ p \in V!Meta
        /\ V!Meta \ V!ToSet(Tail(y.todo)) = Behind(o) \cup {p}
    BY <1>0, <1>7, BehindFacts
  <2>2. V!Resolved(p).page = y.page /\ chosen' = y.page
    <3>1. y.row.status = "connected"
      BY <1>1, <1>2, <1>7 DEF Consistent
    <3>2. V!Resolved(p) = secret[y.row.ref]
      BY <1>1, <1>4, <3>1, ResolvedFacts
    <3> QED BY <1>1, <1>7, <2>1, <3>2 DEF Selecting
  <2>3. \A q \in V!Meta \ V!ToSet(Tail(y.todo)) :
           V!Resolved(q)'.user => V!Resolved(q)'.page = y.page /\ chosen' = y.page
    BY <1>5, <2>1, <2>2 DEF Selecting, Same, Behind
  <2>4. Fits(o)' /\ (NobodySelects' => ChosenPosts')
    BY <1>1, <1>7, <2>3, SelectAdvances
  <2> QED BY <1>1, <1>3, <1>5, <1>7, <2>4, GoesOnSelected
<1> QED BY <1>6, <1>7

\* An authorisation saves a connection.
LEMMA SaveConnects ==
  ASSUME VaultInv, VaultInv', Calm, Selected, NEW o \in Slots, V!Save(o),
         vaultOp[o].call = "connect"
  PROVE  Selected'
<1> DEFINE y == vaultOp[o]
<1>0. PICK p : p = V!Provider(o)
  OBVIOUS
<1>1. /\ y.pc = "save" /\ p \in Providers /\ V!Advance(o) /\ UNCHANGED <<secret, chosen>>
      /\ row'[p].status = "connected" /\ row'[p].ref = V!RefFor(o)
      /\ \A q \in Providers \ {p} : Same(q)
  BY <1>0, SaveLeads
<1>2. /\ \A u \in Slots \ {o} : vaultOp'[u] = vaultOp[u]
      /\ Narrows(y, vaultOp'[o])
  BY <1>1, AdvanceLeads
<1>3. \A q \in V!Meta : q \in Providers
  BY DEF V!Meta
<1>4. CASE ~Engaged(o)
  <2>1. p \notin V!Meta
    BY <1>0, <1>1, <1>4, EngagedFacts
  <2>2. \A q \in V!Meta : Same(q)
    BY <1>1, <1>3, <2>1
  <2> QED BY <1>1, <1>2, <1>4, <2>2, GoesOnSelected
<1>5. CASE Engaged(o)
  <2>1. /\ Connecting(o) /\ p \in V!Meta
        /\ V!Meta \ V!ToSet(Tail(y.todo)) = Behind(o) \cup {p}
    BY <1>0, <1>5, BehindFacts
  <2>2. (\A u \in Slots \ {o} : Fits(u))'
    <3> SUFFICES ASSUME NEW u \in Slots, u # o PROVE Fits(u)'
      OBVIOUS
    <3>1. /\ vaultOp'[u] = vaultOp[u] /\ vaultOp[u].call \notin {"list", "select"}
          /\ vaultOp[u].call = "connect" => ~Engaged(u)
      BY <1>2, <1>5, Company
    <3>2. Engaged(u)' = Engaged(u)
      BY <3>1 DEF Engaged, V!Touches, V!Meta
    <3> QED BY <3>1, <3>2 DEF Fits
  <2>3. V!Resolved(p)' = y.bundle
    <3>1. V!Resolved(p)' = secret'[row'[p].ref]
      BY <1>1 DEF V!Resolved
    <3> QED BY <1>1, <2>1, <3>1 DEF Connecting
  <2>4. p \notin Behind(o)
    BY <1>0, <1>5, BehindFacts
  <2>5. \A q \in V!Meta \ V!ToSet(Tail(y.todo)) :
           V!Resolved(q)'.user => V!Resolved(q)'.pages = y.bundle.pages
    BY <1>1, <1>3, <2>1, <2>3, <2>4 DEF Connecting, Same, Behind
  <2>6. chosen' = "none"
    BY <1>1, <2>1 DEF Connecting
  <2>7. Fits(o)' /\ (NobodyWrites' => SamePages')
    BY <1>1, <1>5, <2>5, <2>6, ConnectAdvances
  <2>8. ChosenPosts'
    BY <2>6 DEF ChosenPosts
  <2> QED BY <1>1, <1>2, <2>2, <2>7, <2>8, SelectedKept
<1> QED BY <1>4, <1>5

\* A disconnect erases the secret, ...
LEMMA EraseSelects ==
  ASSUME VaultInv, Calm, Selected, NEW o \in Slots, V!Erase(o)
  PROVE  Selected'
<1> DEFINE y == vaultOp[o]
           ref == y.row.ref
           x == [y EXCEPT !.pc = "mark"]
<1>0. PICK p : p = V!Provider(o)
  OBVIOUS
<1>1. /\ y \in VaultCall /\ Consistent(y) /\ y.pc = "erase" /\ p \in Providers
      /\ V!Touches(o, p) /\ ref \in Own(p) /\ ref \in V!Refs
      /\ secret' = [secret EXCEPT ![ref] = V!NoBundle]
      /\ vaultOp' = [vaultOp EXCEPT ![o] = x] /\ UNCHANGED <<row, chosen>>
  BY <1>0, VaultFacts, RefIsOwn, OwnApart DEF V!Erase, V!Set
<1>2. /\ x.pc = "mark" /\ x.call = y.call /\ x.todo = y.todo
      /\ y.call = "disconnect"
  BY <1>1 DEF VaultCall, Consistent
<1> HIDE DEF x, ref
<1>3. /\ vaultOp'[o] = x /\ \A u \in Slots \ {o} : vaultOp'[u] = vaultOp[u]
      /\ Narrows(y, x)
  BY <1>1, <1>2, OneGoesOn DEF Narrows
<1>4. /\ secret'[ref] = V!NoBundle
      /\ \A r \in V!Refs : r # ref => secret'[r] = secret[r]
  BY <1>1 DEF VaultInv, VaultTyped
<1>5. \A q \in Providers \ {p} : Same(q)
  BY <1>1, <1>4, OthersSame
<1>6. Less(p)
  <2>1. CASE row[p].status = "connected"
    <3>1. V!Resolved(p) = secret[row[p].ref] /\ row[p].ref \in V!Refs
      BY <1>1, <2>1, ResolvedFacts
    <3>2. V!Resolved(p)' = secret'[row[p].ref]
      BY <1>1, <2>1 DEF V!Resolved
    <3> QED BY <1>4, <3>1, <3>2, VaultIdle DEF Less
  <2>2. CASE row[p].status # "connected"
    BY <1>1, <2>2 DEF Less, V!Resolved, V!NoBundle
  <2> QED BY <2>1, <2>2
<1>7. \A q \in V!Meta : Same(q) \/ (Less(q) /\ V!Touches(o, q))
  BY <1>1, <1>5, <1>6 DEF V!Meta
<1> QED BY <1>1, <1>2, <1>3, <1>7, DisconnectKeepsSelection

\* ... and marks or deletes the row.
LEMMA RowGoesSelects ==
  ASSUME VaultInv, Calm, Selected, NEW o \in Slots, vaultOp[o].call = "disconnect",
         vaultOp[o].pc # "idle", \A u \in Slots \ {o} : vaultOp'[u] = vaultOp[u],
         Narrows(vaultOp[o], vaultOp'[o]), vaultOp'[o].call \in {"disconnect", "none"},
         UNCHANGED <<secret, chosen>>, NEW r, row' = [row EXCEPT ![V!Provider(o)] = r],
         r.status # "connected" \/ r = row[V!Provider(o)]
  PROVE  Selected'
<1>0. PICK p : p = V!Provider(o)
  OBVIOUS
<1>1. p \in Providers /\ V!Touches(o, p)
  BY <1>0, VaultFacts
<1>2. row'[p] = r /\ \A q \in Providers \ {p} : row'[q] = row[q]
  BY <1>0, <1>1 DEF VaultInv, VaultTyped
<1>3. \A q \in Providers \ {p} : Same(q)
  BY <1>1, <1>2, OthersSame
<1>4. Less(p)
  <2>1. CASE r.status # "connected"
    <3>1. V!Resolved(p)' = V!NoBundle
      BY <1>2, <2>1 DEF V!Resolved, V!NoBundle
    <3> QED BY <3>1, VaultIdle DEF Less
  <2>2. CASE r = row[p]
    BY <1>2, <2>2 DEF V!Resolved, V!NoBundle, Less
  <2> QED BY <1>0, <2>1, <2>2
<1>5. \A q \in V!Meta : Same(q) \/ (Less(q) /\ V!Touches(o, q))
  BY <1>1, <1>3, <1>4 DEF V!Meta
<1> QED BY <1>5, DisconnectKeepsSelection

\* The row is marked, ...
LEMMA MarkSelects ==
  ASSUME VaultInv, Calm, Selected, NEW o \in Slots, V!Mark(o)
  PROVE  Selected'
<1> DEFINE y == vaultOp[o]
           p == V!Provider(o)
           r == [status |-> "revoked", ref |-> y.row.ref,
                 id |-> IF row[p] = V!NoRow THEN y.row.id ELSE row[p].id]
           x == [y EXCEPT !.pc = "again"]
<1>1. /\ y \in VaultCall /\ Consistent(y) /\ y.pc = "mark"
      /\ row' = [row EXCEPT ![p] = r] /\ vaultOp' = [vaultOp EXCEPT ![o] = x]
      /\ UNCHANGED <<secret, chosen>>
  BY VaultFacts DEF V!Mark, V!Set, V!Upsert
<1>2. /\ x.pc = "again" /\ x.call = y.call /\ x.todo = y.todo
      /\ y.call = "disconnect" /\ r.status # "connected"
  BY <1>1 DEF VaultCall, Consistent
<1> HIDE DEF x, r
<1>3. /\ vaultOp'[o] = x /\ \A u \in Slots \ {o} : vaultOp'[u] = vaultOp[u]
      /\ Narrows(y, x)
  BY <1>1, <1>2, OneGoesOn DEF Narrows
<1> QED BY <1>1, <1>2, <1>3, RowGoesSelects

\* ... or deleted if it is still the row that was found.
LEMMA DeleteSelects ==
  ASSUME VaultInv, Calm, Selected, NEW o \in Slots, V!Delete(o)
  PROVE  Selected'
<1> DEFINE y == vaultOp[o]
           p == V!Provider(o)
           r == IF row[p].id = y.row.id THEN V!NoRow ELSE row[p]
<1>1. /\ y \in VaultCall /\ Consistent(y) /\ y.pc = "delete"
      /\ row' = [row EXCEPT ![p] = r] /\ vaultOp' = [vaultOp EXCEPT ![o] = V!Idle]
      /\ UNCHANGED <<secret, chosen>>
  BY VaultFacts DEF V!Delete, V!Set
<1>2. y.call = "disconnect" /\ (r.status # "connected" \/ r = row[p])
  BY <1>1 DEF VaultCall, Consistent, V!NoRow
<1> HIDE DEF r
<1>3. /\ vaultOp'[o] = V!Idle /\ \A u \in Slots \ {o} : vaultOp'[u] = vaultOp[u]
      /\ Narrows(y, V!Idle) /\ V!Idle.call = "none"
  BY <1>1, OneGoesOn, FitsOtherwise DEF Narrows
<1> QED BY <1>1, <1>2, <1>3, RowGoesSelects

\* In between it looks the row up again.
LEMMA FindAgainSelects ==
  ASSUME VaultInv, Calm, Selected, NEW o \in Slots, V!FindAgain(o)
  PROVE  Selected'
<1> DEFINE y == vaultOp[o]
           x == [y EXCEPT !.pc = "delete", !.row = row[V!Provider(o)]]
<1>1. /\ y \in VaultCall /\ Consistent(y) /\ y.pc = "again"
      /\ UNCHANGED <<row, secret, chosen>>
  BY VaultFacts DEF V!FindAgain
<1>2. /\ x.pc = "delete" /\ x.call = y.call /\ x.todo = y.todo
      /\ y.call = "disconnect"
  BY <1>1 DEF VaultCall, Consistent
<1>3. \A q \in V!Meta : Same(q)
  BY <1>1, AllSame
<1>4. CASE vaultOp' = [vaultOp EXCEPT ![o] = x]
  <2> HIDE DEF x
  <2>1. /\ vaultOp'[o] = x /\ \A u \in Slots \ {o} : vaultOp'[u] = vaultOp[u]
        /\ Narrows(y, x)
    BY <1>1, <1>2, <1>4, OneGoesOn DEF Narrows
  <2> QED BY <1>1, <1>2, <1>3, <2>1, DisconnectKeepsSelection
<1>5. CASE vaultOp' = [vaultOp EXCEPT ![o] = V!Idle]
  <2>1. /\ vaultOp'[o] = V!Idle /\ \A u \in Slots \ {o} : vaultOp'[u] = vaultOp[u]
        /\ Narrows(y, V!Idle) /\ V!Idle.call = "none"
    BY <1>5, OneGoesOn, FitsOtherwise DEF Narrows
  <2> QED BY <1>1, <1>2, <1>3, <2>1, DisconnectKeepsSelection
<1> QED BY <1>4, <1>5 DEF V!FindAgain, V!Set

\* A call stops, but not half-way.
LEMMA StopSelects ==
  ASSUME VaultInv, VaultInv', Calm, Selected, Calm', NEW o \in Slots, V!Stop(o)
  PROVE  Selected'
<1> DEFINE y == vaultOp[o]
           S == IF V!HalfDone(o) THEN {V!Provider(o)} ELSE {}
           how == IF y.call = "disconnect" THEN "torn" ELSE "crossed"
<1>1. /\ y.pc # "idle" /\ V!Worsen(S, how) /\ vaultOp' = [vaultOp EXCEPT ![o] = V!Idle]
      /\ UNCHANGED <<row, secret, chosen>>
  BY DEF V!Stop, V!Set
<1>2. VaultTyped /\ how \in {"crossed", "torn"}
  BY DEF VaultInv
<1>3. /\ vaultOp'[o] = V!Idle /\ \A u \in Slots \ {o} : vaultOp'[u] = vaultOp[u]
      /\ Narrows(y, V!Idle)
  BY <1>1, OneGoesOn, FitsOtherwise DEF Narrows
<1>4. \A q \in V!Meta : Same(q) /\ Less(q)
  BY <1>1, AllSame DEF Same, Less
<1>5. Fits(o)'
  BY <1>3, FitsOtherwise DEF Fits
<1> HIDE DEF how
<1>6. ASSUME V!Provider(o) \in V!Meta PROVE ~V!HalfDone(o)
  <2> SUFFICES ASSUME V!HalfDone(o) PROVE FALSE
    OBVIOUS
  <2>1. PICK p : p = V!Provider(o)
    OBVIOUS
  <2>2. p \in S /\ p \in Providers /\ p \in V!Meta
    BY <1>6, <2>1 DEF V!Meta
  <2> HIDE DEF S
  <2>3. trouble'[p] # "none"
    BY <1>1, <1>2, <2>2, WorsenFacts
  <2> QED BY <2>2, <2>3 DEF Calm, V!Meta
<1>7. ASSUME y.call \in {"list", "select"} \/ (y.call = "connect" /\ Engaged(o))
      PROVE  y.pc # "save" /\ AtFirst(o)
  <2>1. EndOfBoth(y.todo) /\ V!Provider(o) \in V!Meta /\ y.call # "disconnect"
    BY <1>7, EngagedFacts
  <2>2. y.pc # "save" /\ ~(Len(y.todo) < Len(V!Saved(V!Provider(o))))
    BY <1>6, <2>1 DEF V!HalfDone
  <2>3. V!Saved(V!Provider(o)) = Both
    BY <2>1 DEF V!Saved, Both
  <2>4. Len(y.todo) \in Nat /\ Len(Both) \in Nat /\ Len(y.todo) <= Len(Both)
    BY <2>1, EndsOfBoth
  <2> QED BY <2>2, <2>3, <2>4 DEF AtFirst
<1>8. y.call = "select" => ChosenPosts'
  <2>1. y.call = "select" => ChosenPosts
    BY <1>7, BehindFacts DEF Selecting
  <2> QED BY <1>1, <1>4, <2>1, LessAgrees
<1>9. y.call = "list" \/ (y.call = "connect" /\ Engaged(o)) => SamePages'
  <2>1. y.call = "list" => SamePages
    BY <1>7, ListFacts
  <2>2. y.call = "connect" /\ Engaged(o) => SamePages
    BY <1>7, BehindFacts DEF Connecting
  <2> QED BY <1>4, <2>1, <2>2, LessAgrees
<1> QED BY <1>1, <1>3, <1>4, <1>5, <1>8, <1>9, GoesOnSelected

-----------------------------------------------------------------------------

\* At first there is no page.
LEMMA SelectionStart == V!Init => SelectionInv
<1> SUFFICES ASSUME V!Init PROVE Selected
  BY DEF SelectionInv
<1>1. /\ \A o \in Slots : vaultOp[o].pc = "idle" /\ vaultOp[o].call = "none"
      /\ \A p \in V!Meta : V!Resolved(p) = V!NoBundle /\ chosen = "none"
  BY VaultIdle, FitsOtherwise DEF V!Init, V!Resolved, V!NoRow, V!Meta, V!None
<1>2. chosen = "none"
  BY DEF V!Init, V!None
<1> QED BY <1>1, <1>2, VaultIdle DEF Selected, Engaged, V!Touches, Fits, ChosenPosts, SamePages

\* Troubles only get worse.
LEMMA TroublesStay ==
  ASSUME VaultInv, V!Next, Calm'
  PROVE  Calm
<1> SUFFICES ASSUME NEW p \in V!Meta PROVE trouble[p] = "none"
  BY DEF Calm
<1>1. trouble'[p] = "none" /\ p \in Providers /\ VaultTyped
  BY DEF Calm, V!Meta, VaultInv
<1>2. ASSUME NEW S, NEW x \in {"crossed", "torn"}, V!Worsen(S, x) PROVE trouble[p] = "none"
  BY <1>1, <1>2, WorsenFacts
<1>3. ASSUME NEW o \in Slots, NEW x, V!Begin(o, x) PROVE trouble[p] = "none"
  BY <1>2, <1>3 DEF V!Begin
<1>4. ASSUME NEW o \in Slots, V!Stop(o) PROVE trouble[p] = "none"
  BY <1>2, <1>4 DEF V!Stop
<1>5. CASE UNCHANGED trouble
  BY <1>1, <1>5
<1>6. ASSUME NEW o \in Slots, V!Step(o), ~V!Stop(o)
      PROVE  UNCHANGED trouble \/ \E x : V!Begin(o, x)
  BY <1>6 DEF V!Step, V!Callback, V!Disconnect, V!ListPages, V!SelectPage, V!FetchPages,
     V!Find, V!ReadToList, V!ReadToSelect, V!Put, V!Save, V!Erase, V!Mark, V!FindAgain,
     V!Delete
<1>7. ASSUME NEW s \in States, V!Expire(s) \/ \E q \in Providers : V!StartAuthorize(s, q)
      PROVE  UNCHANGED trouble
  BY <1>7 DEF V!Expire, V!StartAuthorize
<1> QED BY <1>3, <1>4, <1>5, <1>6, <1>7 DEF V!Next

\* Every step of a connection keeps what is said of the page that is selected.
LEMMA SelectionStep == VaultInv /\ SelectionInv /\ V!Next => SelectionInv'
<1> SUFFICES ASSUME VaultInv, SelectionInv, V!Next, Calm' PROVE Selected'
  BY DEF SelectionInv
<1>1. Calm /\ Selected /\ VaultInv'
  BY TroublesStay, VaultStep DEF SelectionInv
<1>2. ASSUME NEW s \in States, V!Expire(s) \/ \E p \in Providers : V!StartAuthorize(s, p)
      PROVE  Selected'
  <2>1. UNCHANGED <<row, secret, vaultOp, chosen>>
    BY <1>2 DEF V!Expire, V!StartAuthorize
  <2>2. \A q \in V!Meta : Same(q) /\ Less(q)
    BY <2>1, AllSame DEF Same, Less
  <2>3. (\A u \in Slots : Fits(u))'
    BY <1>1, <2>1, <2>2, FitsRests DEF Selected
  <2>4. (SamePages => SamePages') /\ (ChosenPosts => ChosenPosts')
    BY <2>1, <2>2, LessAgrees
  <2> QED BY <1>1, <2>1, <2>3, <2>4 DEF Selected, Engaged, GoTogether, V!Touches,
           NobodySelects, NobodyWrites, V!Meta
<1>3. ASSUME NEW o \in Slots, V!Put(o) \/ V!Save(o) PROVE Selected'
  BY <1>1, <1>3, PutLeads, SaveLeads, PutSelects, PutConnects, PutLists, SaveSelects,
     SaveConnects
<1>4. ASSUME NEW o \in Slots, V!Step(o) PROVE Selected'
  BY <1>1, <1>3, <1>4, CallbackSelects, DisconnectSelects, ListPagesSelects,
     SelectPageSelects, FetchPagesSelects, FindSelects, ReadToListSelects,
     ReadToSelectSelects, EraseSelects, MarkSelects, FindAgainSelects, DeleteSelects,
     StopSelects DEF V!Step
<1> QED BY <1>2, <1>4 DEF V!Next

\* So does a step of another service.
LEMMA SelectionRest ==
  VaultInv /\ SelectionInv /\ UNCHANGED vaultVars => SelectionInv'
<1> SUFFICES ASSUME VaultInv, SelectionInv, UNCHANGED vaultVars, Calm' PROVE Selected'
  BY DEF SelectionInv
<1>1. UNCHANGED <<row, secret, vaultOp, chosen, trouble>>
  BY DEF vaultVars
<1>2. Calm
  BY <1>1 DEF Calm, V!Meta
<1>3. Selected
  BY <1>2 DEF SelectionInv
<1>4. \A q \in V!Meta : Same(q) /\ Less(q)
  BY <1>1, AllSame DEF Same, Less
<1>5. (\A u \in Slots : Fits(u))'
  BY <1>1, <1>3, <1>4, FitsRests DEF Selected
<1>6. (SamePages => SamePages') /\ (ChosenPosts => ChosenPosts')
  BY <1>1, <1>4, LessAgrees
<1> QED BY <1>1, <1>3, <1>5, <1>6 DEF Selected, Engaged, GoTogether, V!Touches,
         NobodySelects, NobodyWrites, V!Meta

\* What the module of the connections says of the selected page follows.
LEMMA SelectionFollows == VaultInv /\ SelectionInv => V!SelectionHolds
<1> SUFFICES ASSUME VaultInv, SelectionInv, chosen # "none", Calm, NobodySelects,
                    NEW p \in V!Meta, V!Resolved(p) # V!NoBundle
             PROVE  V!Resolved(p).page = chosen
  BY DEF V!SelectionHolds, Calm, NobodySelects, V!None
<1>1. ChosenPosts
  BY DEF SelectionInv, Selected
<1>2. p \in Providers
  BY DEF V!Meta
<1>3. V!Resolved(p).user
  BY <1>2, ResolvedFacts DEF Whole
<1> QED BY <1>1, <1>3 DEF ChosenPosts

-----------------------------------------------------------------------------
(* The services together *)

WorkspaceInv == GrantsInv /\ PostsInv /\ MemoryInv /\ VaultInv /\ SelectionInv

\* A step of any service, or none, keeps what is said of these four.
LEMMA WorkspaceStep ==
  WorkspaceInv /\ [Next]_servicesVars => WorkspaceInv'
<1> SUFFICES ASSUME WorkspaceInv, [Next]_servicesVars PROVE WorkspaceInv'
  OBVIOUS
<1>1. GrantsInv'
  <2>1. CASE G!Next
    BY <2>1, GrantsStep DEF WorkspaceInv
  <2>2. CASE UNCHANGED grantVars
    BY <2>2, GrantsRest DEF WorkspaceInv
  <2> QED BY <2>1, <2>2 DEF Next, servicesVars, grantVars
<1>2. PostsInv'
  <2>1. CASE P!Next
    BY <2>1, PostsStep DEF WorkspaceInv
  <2>2. CASE UNCHANGED postVars
    BY <2>2, PostsRest DEF WorkspaceInv
  <2> QED BY <2>1, <2>2 DEF Next, servicesVars, postVars
<1>3. MemoryInv'
  <2>1. CASE M!Next
    BY <2>1, MemoryStep DEF WorkspaceInv
  <2>2. CASE UNCHANGED memoryVars
    BY <2>2, MemoryRest DEF WorkspaceInv
  <2> QED BY <2>1, <2>2 DEF Next, servicesVars, memoryVars
<1>4. VaultInv' /\ SelectionInv'
  <2>1. CASE V!Next
    BY <2>1, VaultStep, SelectionStep DEF WorkspaceInv
  <2>2. CASE UNCHANGED vaultVars
    BY <2>2, VaultRest, SelectionRest DEF WorkspaceInv
  <2> QED BY <2>1, <2>2 DEF Next, servicesVars, vaultVars
<1> QED BY <1>1, <1>2, <1>3, <1>4 DEF WorkspaceInv

\* The invariant of grants, publishing, memory and connections holds throughout.
THEOREM WorkspaceHolds == Spec => []WorkspaceInv
<1>1. Init => WorkspaceInv
  BY GrantsStart, PostsStart, MemoryStart, VaultStart, SelectionStart DEF Init, WorkspaceInv
<1>2. WorkspaceInv /\ [Next]_servicesVars => WorkspaceInv'
  BY WorkspaceStep
<1> QED BY <1>1, <1>2, PTL DEF Spec, servicesVars

\* A run is dispatched with a decision on every first-party capability, for
\* any list of them, any number of workspaces and calls, and however seeding,
\* failures and choices of editors interleave
\* (ensureFirstPartyCapabilityGrants before each snapshot).
THEOREM SnapshotsComplete == Spec => []SnapshotsAreComplete
<1>1. WorkspaceInv => SnapshotsAreComplete
  BY GrantsHold DEF WorkspaceInv, SnapshotsAreComplete
<1> QED BY <1>1, WorkspaceHolds, PTL

\* What is reported as published was posted, and a post on a page was made by
\* the token of that page, for any pages, whatever happened to the connection
\* between and after the readings of the vault (resolveAccessToken,
\* resolveMetaPublishContext, social-publish).
THEOREM PostsByTheirPages == Spec => []PostsAreTheirPages
<1>1. WorkspaceInv => PostsAreTheirPages
  BY PostsHold DEF WorkspaceInv, PostsAreTheirPages
<1> QED BY <1>1, WorkspaceHolds, PTL

\* A recall returns nothing that was forgotten before it began, and index and
\* rows differ only by calls on their way, failures and the race of forget
\* with remember: for any number of memories and calls, any limit and uses
\* (semanticRecall, remember, forget).
THEOREM MemoriesStayForgotten == Spec => []MemoryHolds
<1>1. WorkspaceInv => MemoryHolds
  BY MemoriesHold DEF WorkspaceInv
<1> QED BY <1>1, WorkspaceHolds, PTL

\* Whatever calls are in hand, and wherever they cross or stop, the state of
\* every service is of its type: what was read before is still a row, a grant,
\* a bundle, and counts stay within their bounds, for all constants.
THEOREM ServicesTyped == Spec => []TypeOK
<1>1. OrganisationInv /\ WorkspaceInv => TypeOK
  BY BillingHolds, QuotasAreHeld, AccountsHold, GrantsHold, PostsHold, MemoriesHold,
     VaultHolds DEF OrganisationInv, WorkspaceInv, TypeOK
<1> QED BY <1>1, OrganisationHolds, WorkspaceHolds, PTL

\* A connection that shows as connected has its secret, however connects,
\* selections and lists cross and wherever they stop, unless a disconnect is at
\* work on it, crossed another call, or stopped half-way: for any providers,
\* pages and calls (handleCallback, selectMetaPage, listMetaPages, disconnect).
THEOREM ConnectionsUsable == Spec => []V!ConnectedMeansUsable
<1>1. WorkspaceInv => V!ConnectedMeansUsable
  BY VaultHolds DEF WorkspaceInv
<1> QED BY <1>1, WorkspaceHolds, PTL

\* With that, once no page is being chosen, every Meta connection that has a
\* secret posts on the page that was chosen last, whatever lists, selections,
\* authorisations and disconnects crossed, as long as none of them crossed or
\* stopped half-way on a Meta connection (selectMetaPage writes facebook, then
\* instagram, and listMetaPages writes both back).
THEOREM ConnectionsKept == Spec => []ConnectionsHold
<1>1. WorkspaceInv => ConnectionsHold
  BY VaultHolds, SelectionFollows DEF WorkspaceInv, ConnectionsHold
<1> QED BY <1>1, WorkspaceHolds, PTL
============================================================================
