------------------------ MODULE OrganisationProofs ------------------------
(***************************************************************************)
(* Theorems about what an organisation owns: its accounts and invitations  *)
(* (Tenancy), its quotas (Quotas) and its billing (Billing), as Services   *)
(* composes them, for any number of accounts, requests and notices.        *)
(*                                                                         *)
(* Each service has an invariant of its own.  Accounts: whoever holds an   *)
(* account that was anonymised when it was read holds one that is torn, so *)
(* every later write of an anonymised account tears it; what a purge has   *)
(* half done is in its hands.  Quotas: a request that has found room for a *)
(* run is ahead until it inserts it; runs and requests ahead together stay *)
(* below the peak and the slots.  Billing: an event is applied by the one  *)
(* delivery that recorded it.                                              *)
(***************************************************************************)
EXTENDS Services, FiniteSetTheorems, TLAPS

-----------------------------------------------------------------------------
(* Accounts, memberships and invitations (Tenancy) *)

\* Where a request has a person, where it has an account it read, and where a
\* purge has one.
Holding == {"profile", "link", "user", "org", "commit", "expire", "accept", "deleteMe",
            "restoreMe", "deleteOrg", "restoreOrg"}
Asking == {"email", "create"} \cup Holding
Purging == {"anonRead", "anonymize", "members", "seats"}
Points == {"idle", "purgeOrg", "dueUsers"} \cup Asking \cup Purging

Mail == Persons \cup {T!None}
AccountRow == [exists : BOOLEAN, email : Mail, clerk : Mail, deleted : BOOLEAN,
               grace : {"none", "running", "over"}, anonymized : BOOLEAN]
InviteRow == [status : {"absent", "PENDING", "REVOKED", "ACCEPTED", "EXPIRED"},
              email : Mail, late : BOOLEAN]
AccountCall == [pc : Points, call : {T!None, "purge"} \cup T!Calls, p : Mail,
                u : Accounts \cup {T!None}, i : Invitations \cup {T!None},
                early : BOOLEAN, due : SUBSET Accounts]

AccountsTyped ==
    /\ user \in [Accounts -> AccountRow]
    /\ org \in [exists : BOOLEAN, deleted : BOOLEAN, grace : {"none", "running", "over"}]
    /\ role \in [Accounts -> {T!None, "OWNER", "VIEWER"}] /\ seat \subseteq Accounts
    /\ invite \in [Invitations -> InviteRow]
    /\ accountOp \in [Slots -> AccountCall]
    /\ admitted \in [Invitations -> Nat] /\ torn \subseteq Accounts

\* A call in hand, with the rows us, memberships ro and torn accounts to: who
\* read an anonymised account, read a torn one.
Sound(x, us, ro, to) ==
    /\ x.call = "accept" => x.i \in Invitations
    /\ x.pc \in {"accept", "commit", "expire"} => x.call = "accept"
    /\ x.pc \in {"purgeOrg", "dueUsers"} \cup Purging => x.call = "purge"
    /\ x.pc \in Asking => x.p \in Persons /\ x.call \in T!Calls
    /\ x.pc \in Holding \cup Purging => x.u \in Accounts /\ us[x.u].exists
    /\ x.pc \in Holding => x.early \/ x.u \in to
    /\ x.pc \in {"members", "seats"} => us[x.u].anonymized
    /\ x.pc = "seats" => ro[x.u] = T!None \/ x.u \in to
    /\ \A u \in x.due : us[u].exists

CallsSound == \A o \in Slots : Sound(accountOp[o], user, role, torn)

\* What the purge of an account leaves of it, once it is done.
Gone(u) ==
    /\ user[u].deleted /\ user[u].email = T!None /\ user[u].clerk = T!None
    /\ (role[u] = T!None /\ u \notin seat) \/ T!Purging(u)

AccountsGone ==
    \A u \in Accounts :
        /\ user[u].deleted \/ user[u].anonymized => user[u].exists
        /\ u \notin torn /\ user[u].anonymized => Gone(u)

\* An invitation that may still be accepted has not been.
InvitesOpen ==
    \A i \in Invitations :
        /\ admitted[i] \in {0, 1}
        /\ ~org.exists => invite[i].status = "absent"
        /\ org.exists /\ invite[i].status \in {"absent", "PENDING", "REVOKED"}
              => admitted[i] = 0

AccountsInv == AccountsTyped /\ CallsSound /\ AccountsGone /\ InvitesOpen

\* The organisation begins with its founder's account.
LEMMA AccountsStart == T!Init => AccountsInv
<1> SUFFICES ASSUME T!Init PROVE AccountsInv
  OBVIOUS
<1> USE ServicesAssumption DEF T!Init
<1>1. AccountsTyped
  <2>1. T!NoUser \in AccountRow /\ T!NewUser(Owner) \in AccountRow
    BY DEF T!NoUser, T!NewUser, AccountRow, Mail
  <2>2. T!Idle \in AccountCall
    BY DEF T!Idle, T!None, AccountCall, Mail, Points
  <2>3. T!NoInvite \in InviteRow
    BY DEF T!NoInvite, InviteRow, Mail
  <2> QED BY <2>1, <2>2, <2>3 DEF AccountsTyped
<1>2. CallsSound
  BY DEF CallsSound, Sound, T!Idle, T!None, Asking, Holding, Purging
<1>3. AccountsGone
  BY DEF AccountsGone, T!NoUser, T!NewUser
<1>4. InvitesOpen
  BY DEF InvitesOpen, T!NoInvite
<1> QED BY <1>1, <1>2, <1>3, <1>4 DEF AccountsInv

\* How the rows of accounts change: nobody comes back to life, and whoever
\* gives an anonymised account a role tears it.
Onward ==
    /\ torn \subseteq torn'
    /\ \A u \in Accounts :
          /\ user[u].exists => user'[u].exists
          /\ user[u].anonymized =>
                user'[u].anonymized /\ (role'[u] \in {role[u], T!None} \/ u \in torn')

\* Call o goes on as x.
Goes(o, x) ==
    /\ accountOp' = [accountOp EXCEPT ![o] = x]
    /\ x \in AccountCall /\ Sound(x, user', role', torn')

\* Calls stay sound when one of them goes on.
LEMMA SoundStays ==
  ASSUME AccountsInv, AccountsTyped', Onward, NEW o \in Slots, NEW x, Goes(o, x)
  PROVE  CallsSound'
<1>1. ASSUME NEW q \in Slots, Sound(accountOp[q], user, role, torn)
      PROVE  Sound(accountOp[q], user', role', torn')
  <2>1. accountOp[q] \in AccountCall
    BY DEF AccountsInv, AccountsTyped
  <2> DEFINE y == accountOp[q]
  <2>2. y.due \subseteq Accounts /\ y \in AccountCall
    BY <2>1 DEF AccountCall
  <2>3. Sound(y, user, role, torn)
    BY <1>1
  <2> HIDE DEF y
  <2>4. Sound(y, user', role', torn')
    BY <2>2, <2>3 DEF Sound, Onward, Holding, Purging
  <2> QED BY <2>4 DEF y
<1>2. ASSUME NEW q \in Slots PROVE Sound(accountOp[q], user, role, torn)'
  <2>1. CASE q = o
    BY <2>1 DEF Goes, AccountsInv, AccountsTyped
  <2>2. CASE q # o
    <3>1. accountOp'[q] = accountOp[q]
      BY <2>2 DEF Goes, AccountsInv, AccountsTyped
    <3>2. Sound(accountOp[q], user', role', torn')
      BY <1>1 DEF AccountsInv, CallsSound
    <3> QED BY <3>1, <3>2
  <2> QED BY <2>1, <2>2
<1> QED BY <1>2 DEF CallsSound

\* Nothing but the calls in hand changes.
Quiet == UNCHANGED <<user, org, role, seat, invite, admitted, torn>>

\* A call that is not taking memberships away goes on quietly.
LEMMA QuietCall ==
  ASSUME AccountsInv, NEW o \in Slots, NEW x, Goes(o, x), Quiet,
         accountOp[o].pc \notin {"members", "seats"}
  PROVE  AccountsInv'
<1> USE DEF AccountsInv
<1>1. AccountsTyped'
  BY DEF AccountsTyped, Goes, Quiet
<1>2. Onward
  BY DEF Onward, Quiet
<1>3. CallsSound'
  BY <1>1, <1>2, SoundStays
<1>4. AccountsGone'
  <2>1. \A u \in Accounts : T!Purging(u) => T!Purging(u)'
    BY DEF T!Purging, Goes, AccountsTyped
  <2> QED BY <2>1 DEF AccountsGone, Gone, Quiet
<1>5. InvitesOpen'
  BY DEF InvitesOpen, Quiet
<1> QED BY <1>1, <1>3, <1>4, <1>5

\* An account found for a person is not anonymised, unless it was torn.
LEMMA Found ==
  ASSUME AccountsInv, NEW p \in Persons, NEW u \in Accounts,
         u \in T!Having("clerk", p) \/ u \in T!Having("email", p)
  PROVE  user[u].exists /\ (user[u].anonymized => u \in torn)
BY ServicesAssumption DEF T!Having, AccountsInv, AccountsGone, Gone, T!None

\* What becomes of request y once its account u is known, as x.
LEMMA ActingSound ==
  ASSUME NEW y \in AccountCall, y.p \in Persons, y.call \in T!Calls, NEW us, NEW ro, NEW to,
         Sound(y, us, ro, to), NEW u \in Accounts, us[u].exists,
         NEW x \in AccountRow, x.anonymized => u \in to
  PROVE  T!Acting(y, u, x) \in AccountCall /\ Sound(T!Acting(y, u, x), us, ro, to)
<1>1. CASE x.deleted /\ y.call \notin T!Restores
  <2>1. T!Acting(y, u, x) = T!Idle
    BY <1>1 DEF T!Acting
  <2>2. T!Idle \in AccountCall
    BY DEF T!Idle, T!None, AccountCall, Mail, Points
  <2>3. Sound(T!Idle, us, ro, to)
    BY DEF Sound, T!Idle, T!None, Asking, Holding, Purging
  <2> QED BY <2>1, <2>2, <2>3
<1>2. CASE ~(x.deleted /\ y.call \notin T!Restores)
  <2> DEFINE z == [y EXCEPT !.pc = y.call, !.u = u, !.early = ~x.anonymized]
  <2>1. T!Acting(y, u, x) = z
    BY <1>2 DEF T!Acting
  <2>2. /\ z.pc = y.call /\ z.u = u /\ z.early = ~x.anonymized
        /\ z.p = y.p /\ z.call = y.call /\ z.i = y.i /\ z.due = y.due
    BY DEF AccountCall
  <2>3. y.call \in Points /\ x.anonymized \in BOOLEAN
    BY DEF T!Calls, T!Restores, Points, Asking, Holding, AccountRow
  <2>4. z \in AccountCall
    BY <2>3 DEF AccountCall
  <2>5. /\ z.pc \in Holding /\ z.pc \notin {"members", "seats", "commit", "expire"}
        /\ z.pc \notin {"purgeOrg", "dueUsers"} \cup Purging
    BY <2>2 DEF T!Calls, T!Restores, Holding, Purging
  <2> HIDE DEF z
  <2>6. Sound(z, us, ro, to)
    BY <2>2, <2>5 DEF Sound, Holding
  <2> QED BY <2>1, <2>4, <2>6
<1> QED BY <1>1, <1>2

\* A call that is done is idle.
LEMMA IdleSound ==
  T!Idle \in AccountCall /\ \A us, ro, to : Sound(T!Idle, us, ro, to)
<1>1. T!Idle \in AccountCall
  BY DEF T!Idle, T!None, AccountCall, Mail, Points
<1>2. ASSUME NEW us, NEW ro, NEW to PROVE Sound(T!Idle, us, ro, to)
  BY DEF Sound, T!Idle, T!None, Asking, Holding, Purging
<1> QED BY <1>1, <1>2

\* Requests that find their account, or none, by identity or by email.
LEMMA RequestKeeps ==
  ASSUME AccountsInv, NEW o \in Slots, NEW p \in Persons, NEW call \in T!Calls,
         NEW i \in Invitations \cup {T!None}, T!Request(o, p, call, i)
  PROVE  AccountsInv'
<1> DEFINE y == [T!Idle EXCEPT !.p = p, !.call = call, !.i = i]
<1>1. /\ y.pc = "idle" /\ y.p = p /\ y.call = call /\ y.i = i /\ y.due = {}
      /\ y.early = FALSE /\ y.u = T!None
  BY DEF T!Idle
<1>2. y \in AccountCall
  BY IdleSound DEF AccountCall, Mail
<1>3. call = "accept" => i \in Invitations
  BY DEF T!Request
<1>4. accountOp[o].pc = "idle" /\ Quiet
  BY DEF T!Request, Quiet
<1>5. CASE T!Having("clerk", p) = {}
  <2> DEFINE x == [y EXCEPT !.pc = "email"]
  <2>1. accountOp' = [accountOp EXCEPT ![o] = x]
    BY <1>5 DEF T!Request, T!Set
  <2>2. x \in AccountCall /\ x.pc = "email" /\ x.p = p /\ x.call = call /\ x.i = i
        /\ x.due = {}
    BY <1>1, <1>2 DEF AccountCall, Points, Asking
  <2> HIDE DEF x, y
  <2>3. Sound(x, user', role', torn')
    BY <1>3, <2>2 DEF Sound, Asking, Holding, Purging
  <2> QED BY <1>4, <2>1, <2>2, <2>3, QuietCall DEF Goes
<1>6. ASSUME NEW u \in T!Having("clerk", p), T!Set(o, T!Acting(y, u, user[u]))
      PROVE  AccountsInv'
  <2>1. u \in Accounts /\ user[u].exists /\ (user[u].anonymized => u \in torn)
    BY Found DEF T!Having
  <2>2. user[u] \in AccountRow
    BY <2>1 DEF AccountsInv, AccountsTyped
  <2> HIDE DEF y
  <2>3. Sound(y, user, role, torn)
    BY <1>1, <1>3 DEF Sound, Asking, Holding, Purging
  <2>4. /\ T!Acting(y, u, user[u]) \in AccountCall
        /\ Sound(T!Acting(y, u, user[u]), user, role, torn)
    BY <1>1, <1>2, <2>1, <2>2, <2>3, ActingSound
  <2> QED BY <1>4, <1>6, <2>4, QuietCall DEF Goes, T!Set, Quiet
<1>7. ASSUME NEW u \in T!Having("clerk", p),
             T!Set(o, [y EXCEPT !.pc = "profile", !.u = u, !.early = ~user[u].anonymized])
      PROVE  AccountsInv'
  <2> DEFINE x == [y EXCEPT !.pc = "profile", !.u = u, !.early = ~user[u].anonymized]
  <2>1. u \in Accounts /\ user[u].exists /\ (user[u].anonymized => u \in torn)
    BY Found DEF T!Having
  <2>2. user[u].anonymized \in BOOLEAN
    BY <2>1 DEF AccountsInv, AccountsTyped, AccountRow
  <2>3. /\ x.pc = "profile" /\ x.p = p /\ x.call = call /\ x.i = i /\ x.due = {}
        /\ x.u = u /\ x.early = ~user[u].anonymized
    BY <1>1, <1>2 DEF AccountCall
  <2>4. x \in AccountCall
    BY <1>2, <2>1, <2>2 DEF AccountCall, Points, Asking, Holding
  <2> HIDE DEF x, y
  <2>5. Sound(x, user, role, torn)
    BY <1>3, <2>1, <2>3 DEF Sound, Asking, Holding, Purging
  <2> QED BY <1>4, <1>7, <2>4, <2>5, QuietCall DEF Goes, T!Set, Quiet, x
<1>8. CASE T!Having("clerk", p) # {}
  <2>1. PICK u \in T!Having("clerk", p) :
           \/ T!Set(o, T!Acting(y, u, user[u]))
           \/ T!Set(o, [y EXCEPT !.pc = "profile", !.u = u,
                                 !.early = ~user[u].anonymized])
    BY <1>8 DEF T!Request
  <2> QED BY <1>6, <1>7, <2>1
<1> QED BY <1>5, <1>8

\* A request goes on with the account of its email, or is to create one.
LEMMA FindByEmailKeeps ==
  ASSUME AccountsInv, NEW o \in Slots, T!FindByEmail(o) PROVE AccountsInv'
<1> DEFINE y == accountOp[o]
<1>1. y \in AccountCall /\ Sound(y, user, role, torn)
  BY DEF AccountsInv, AccountsTyped, CallsSound
<1>2. y.pc = "email" /\ Quiet
  BY DEF T!FindByEmail, Quiet
<1>3. y.p \in Persons /\ y.call \in T!Calls /\ (y.call = "accept" => y.i \in Invitations)
      /\ \A d \in y.due : user[d].exists
  BY <1>1, <1>2 DEF Sound, Asking
<1>4. CASE T!Having("email", y.p) = {}
  <2> DEFINE x == [y EXCEPT !.pc = "create"]
  <2>1. accountOp' = [accountOp EXCEPT ![o] = x]
    BY <1>4 DEF T!FindByEmail, T!Go, T!Set
  <2>2. x \in AccountCall /\ x.pc = "create" /\ x.p = y.p /\ x.call = y.call /\ x.i = y.i
        /\ x.due = y.due
    BY <1>1 DEF AccountCall, Points, Asking
  <2> HIDE DEF x, y
  <2>3. Sound(x, user', role', torn')
    BY <1>2, <1>3, <2>2 DEF Sound, Asking, Holding, Purging, Quiet
  <2> QED BY <1>2, <2>1, <2>2, <2>3, QuietCall DEF Goes, y
<1>5. ASSUME NEW u \in T!Having("email", y.p),
             T!Set(o, [y EXCEPT !.pc = "link", !.u = u, !.early = ~user[u].anonymized])
      PROVE  AccountsInv'
  <2> DEFINE x == [y EXCEPT !.pc = "link", !.u = u, !.early = ~user[u].anonymized]
  <2>1. u \in Accounts /\ user[u].exists /\ (user[u].anonymized => u \in torn)
    BY <1>3, Found DEF T!Having
  <2>2. user[u].anonymized \in BOOLEAN
    BY <2>1 DEF AccountsInv, AccountsTyped, AccountRow
  <2>3. /\ x.pc = "link" /\ x.p = y.p /\ x.call = y.call /\ x.i = y.i /\ x.due = y.due
        /\ x.u = u /\ x.early = ~user[u].anonymized
    BY <1>1 DEF AccountCall
  <2>4. x \in AccountCall
    BY <1>1, <2>1, <2>2 DEF AccountCall, Points, Asking, Holding
  <2>5. accountOp' = [accountOp EXCEPT ![o] = x]
    BY <1>5 DEF T!Set
  <2> HIDE DEF x, y
  <2>6. Sound(x, user, role, torn)
    BY <1>3, <2>1, <2>3 DEF Sound, Asking, Holding, Purging
  <2> QED BY <1>2, <2>4, <2>5, <2>6, QuietCall DEF Goes, Quiet, y
<1>6. CASE T!Having("email", y.p) # {}
  <2>1. PICK u \in T!Having("email", y.p) :
           T!Set(o, [y EXCEPT !.pc = "link", !.u = u, !.early = ~user[u].anonymized])
    BY <1>6 DEF T!FindByEmail
  <2> QED BY <1>5, <2>1
<1> QED BY <1>4, <1>6

\* What a request has read, and what a write of it tears.
LEMMA HoldingFacts ==
  ASSUME AccountsInv, NEW o \in Slots, accountOp[o].pc \in Holding
  PROVE  /\ accountOp[o] \in AccountCall /\ Sound(accountOp[o], user, role, torn)
         /\ accountOp[o].u \in Accounts /\ user[accountOp[o].u] \in AccountRow
         /\ user[accountOp[o].u].exists
         /\ accountOp[o].p \in Persons /\ accountOp[o].call \in T!Calls
         /\ T!Tear(o, accountOp[o].u) =>
               /\ torn \subseteq torn' /\ torn' \subseteq torn \cup {accountOp[o].u}
               /\ user[accountOp[o].u].anonymized => accountOp[o].u \in torn'
<1> DEFINE y == accountOp[o]
<1>1. y \in AccountCall /\ Sound(y, user, role, torn)
  BY DEF AccountsInv, AccountsTyped, CallsSound
<1>2. /\ y.u \in Accounts /\ user[y.u].exists /\ (y.early \/ y.u \in torn)
      /\ y.p \in Persons /\ y.call \in T!Calls
  BY <1>1 DEF Sound, Asking
<1>3. user[y.u] \in AccountRow
  BY <1>2 DEF AccountsInv, AccountsTyped
<1>4. ASSUME T!Tear(o, y.u)
      PROVE  /\ torn \subseteq torn' /\ torn' \subseteq torn \cup {y.u}
             /\ user[y.u].anonymized => y.u \in torn'
  BY <1>2, <1>4 DEF T!Tear
<1> QED BY <1>1, <1>2, <1>3, <1>4

\* A request writes the account it holds.
LEMMA WriteKeeps ==
  ASSUME AccountsInv, NEW o \in Slots, accountOp[o].pc \in Holding,
         NEW x \in AccountRow, x.exists, x.anonymized = user[accountOp[o].u].anonymized,
         user' = [user EXCEPT ![accountOp[o].u] = x], T!Tear(o, accountOp[o].u),
         UNCHANGED <<org, role, seat, invite, admitted>>, NEW z, Goes(o, z)
  PROVE  AccountsInv'
<1> DEFINE u == accountOp[o].u
<1>1. /\ u \in Accounts /\ user[u].exists
      /\ torn \subseteq torn' /\ torn' \subseteq torn \cup {u}
      /\ user[u].anonymized => u \in torn'
  BY HoldingFacts
<1>2. user'[u] = x /\ \A v \in Accounts \ {u} : user'[v] = user[v]
  BY <1>1 DEF AccountsInv, AccountsTyped
<1>3. AccountsTyped'
  BY <1>1 DEF AccountsInv, AccountsTyped, Goes
<1>4. Onward
  BY <1>1, <1>2 DEF Onward
<1>5. CallsSound'
  BY <1>3, <1>4, SoundStays
<1>6. \A v \in Accounts : T!Purging(v) => T!Purging(v)'
  BY DEF T!Purging, Goes, AccountsInv, AccountsTyped, Holding
<1>7. AccountsGone'
  <2> SUFFICES ASSUME NEW v \in Accounts
               PROVE  /\ user'[v].deleted \/ user'[v].anonymized => user'[v].exists
                      /\ v \notin torn' /\ user'[v].anonymized => Gone(v)'
    BY DEF AccountsGone
  <2>1. CASE v = u
    BY <1>1, <1>2, <2>1
  <2>2. CASE v # u
    BY <1>1, <1>2, <1>6, <2>2 DEF AccountsInv, AccountsGone, Gone
  <2> QED BY <2>1, <2>2
<1>8. InvitesOpen'
  BY DEF AccountsInv, InvitesOpen
<1> QED BY <1>3, <1>5, <1>7, <1>8 DEF AccountsInv

\* A unique index fails a write: the request looks once more, or ends.
LEMMA LostKeeps ==
  ASSUME AccountsInv, NEW o \in Slots, accountOp[o].pc \in {"link", "create"}, Quiet,
         T!Lost(o)
  PROVE  AccountsInv'
<1> DEFINE y == accountOp[o]
<1>1. y \in AccountCall /\ Sound(y, user, role, torn)
  BY DEF AccountsInv, AccountsTyped, CallsSound
<1>2. y.p \in Persons /\ y.call \in T!Calls
  BY <1>1 DEF Sound, Asking, Holding
<1>3. CASE T!End(o)
  BY <1>3, IdleSound, QuietCall DEF T!End, T!Set, Goes
<1>4. ASSUME NEW u \in T!Having("clerk", y.p) \cup T!Having("email", y.p),
             T!As(o, u, user[u])
      PROVE  AccountsInv'
  <2>1. u \in Accounts /\ user[u].exists /\ (user[u].anonymized => u \in torn)
    BY <1>2, Found DEF T!Having
  <2>2. user[u] \in AccountRow
    BY <2>1 DEF AccountsInv, AccountsTyped
  <2>3. /\ T!Acting(y, u, user[u]) \in AccountCall
        /\ Sound(T!Acting(y, u, user[u]), user, role, torn)
    BY <1>1, <1>2, <2>1, <2>2, ActingSound
  <2> QED BY <1>4, <2>3, QuietCall DEF Goes, T!As, T!Set, Quiet
<1> QED BY <1>3, <1>4 DEF T!Lost

\* The profile is written, or the account linked to an identity.
LEMMA WriteIdentityKeeps ==
  ASSUME AccountsInv, NEW o \in Slots, T!WriteIdentity(o) PROVE AccountsInv'
<1> DEFINE y == accountOp[o]
           u == y.u
           x == [user[u] EXCEPT !.email = y.p,
                                !.clerk = IF y.pc = "link" THEN y.p ELSE @]
<1>1. y.pc \in {"profile", "link"} /\ y.pc \in Holding
  BY DEF T!WriteIdentity, Holding
<1>2. /\ y \in AccountCall /\ Sound(y, user, role, torn) /\ u \in Accounts
      /\ user[u] \in AccountRow /\ user[u].exists /\ y.p \in Persons /\ y.call \in T!Calls
  BY <1>1, HoldingFacts
<1>3. CASE (T!Having("clerk", y.p) \cup T!Having("email", y.p)) \ {u} # {}
  <2>1. Quiet /\ (IF y.pc = "link" THEN T!Lost(o) ELSE T!End(o))
    BY <1>3 DEF T!WriteIdentity, Quiet
  <2>2. CASE y.pc = "link"
    BY <2>1, <2>2, LostKeeps
  <2>3. CASE y.pc # "link"
    BY <1>1, <2>1, <2>3, IdleSound, QuietCall DEF T!End, T!Set, Goes
  <2> QED BY <2>2, <2>3
<1>4. CASE ~((T!Having("clerk", y.p) \cup T!Having("email", y.p)) \ {u} # {})
  <2>1. /\ user' = [user EXCEPT ![u] = x] /\ T!Tear(o, u) /\ T!As(o, u, x)
        /\ UNCHANGED <<org, role, seat, invite, admitted>>
    BY <1>4 DEF T!WriteIdentity
  <2>2. /\ x \in AccountRow /\ x.exists = user[u].exists
        /\ x.anonymized = user[u].anonymized
    BY <1>2 DEF AccountRow, Mail
  <2>3. torn \subseteq torn' /\ (x.anonymized => u \in torn')
    BY <1>1, <2>1, <2>2, HoldingFacts
  <2> HIDE DEF x
  <2>4. Sound(y, user', role', torn')
    <3>1. \A v \in Accounts : /\ user[v].exists => user'[v].exists
                              /\ user[v].anonymized => user'[v].anonymized
      BY <1>2, <2>1, <2>2 DEF AccountsInv, AccountsTyped
    <3>2. y.due \subseteq Accounts
      BY <1>2 DEF AccountCall
    <3>3. role' = role /\ torn \subseteq torn'
      BY <2>1, <2>3
    <3> HIDE DEF y
    <3> QED BY <1>1, <1>2, <2>1, <3>1, <3>2, <3>3 DEF Sound, Holding, Purging
  <2>5. user'[u].exists
    BY <1>2, <2>1, <2>2 DEF AccountsInv, AccountsTyped
  <2>6. /\ T!Acting(y, u, x) \in AccountCall
        /\ Sound(T!Acting(y, u, x), user', role', torn')
    BY <1>2, <2>2, <2>3, <2>4, <2>5, ActingSound
  <2>7. Goes(o, T!Acting(y, u, x))
    BY <2>1, <2>6 DEF Goes, T!As, T!Set
  <2> QED BY <1>1, <1>2, <2>1, <2>2, <2>7, WriteKeeps
<1> QED BY <1>3, <1>4

\* An account is created for a person who has none.
LEMMA CreateKeeps ==
  ASSUME AccountsInv, NEW o \in Slots, T!Create(o) PROVE AccountsInv'
<1> DEFINE y == accountOp[o]
           p == y.p
<1>1. y.pc = "create" /\ y \in AccountCall /\ Sound(y, user, role, torn)
  BY DEF T!Create, AccountsInv, AccountsTyped, CallsSound
<1>2. p \in Persons /\ y.call \in T!Calls
  BY <1>1 DEF Sound, Asking
<1>3. CASE T!Having("clerk", p) \cup T!Having("email", p) # {}
  BY <1>1, <1>3, LostKeeps DEF T!Create, Quiet
<1>4. CASE ~(T!Having("clerk", p) \cup T!Having("email", p) # {})
  <2>1. PICK u \in Accounts : /\ ~user[u].exists
                              /\ user' = [user EXCEPT ![u] = T!NewUser(p)]
                              /\ T!As(o, u, T!NewUser(p))
    BY <1>4 DEF T!Create
  <2>2. UNCHANGED <<org, role, seat, invite, admitted, torn>>
    BY DEF T!Create
  <2> DEFINE x == T!NewUser(p)
  <2>3. x \in AccountRow /\ x.exists /\ ~x.anonymized /\ ~x.deleted
    BY <1>2 DEF T!NewUser, T!NoUser, T!None, AccountRow, Mail
  <2> HIDE DEF x
  <2>4. user'[u] = x /\ \A v \in Accounts \ {u} : user'[v] = user[v]
    BY <2>1 DEF AccountsInv, AccountsTyped, x
  <2>5. ~user[u].anonymized
    BY <2>1 DEF AccountsInv, AccountsGone
  <2>6. Onward
    BY <2>2, <2>3, <2>4, <2>5 DEF Onward
  <2>7. Sound(y, user', role', torn')
    <3>1. y.due \subseteq Accounts
      BY <1>1 DEF AccountCall
    <3>2. \A v \in Accounts : user[v].exists => user'[v].exists
      BY <2>6 DEF Onward
    <3> HIDE DEF y
    <3> QED BY <1>1, <3>1, <3>2 DEF Sound, Asking, Holding, Purging
  <2>8. /\ T!Acting(y, u, x) \in AccountCall
        /\ Sound(T!Acting(y, u, x), user', role', torn')
    BY <1>1, <1>2, <2>3, <2>4, <2>7, ActingSound
  <2>9. Goes(o, T!Acting(y, u, x))
    BY <2>1, <2>8 DEF Goes, T!As, T!Set, x
  <2>10. AccountsTyped'
    BY <2>1, <2>2, <2>3, <2>9 DEF AccountsInv, AccountsTyped, Goes, x
  <2>11. CallsSound'
    BY <2>6, <2>9, <2>10, SoundStays
  <2>12. \A v \in Accounts : T!Purging(v) => T!Purging(v)'
    BY <1>1, <2>9 DEF T!Purging, Goes, AccountsInv, AccountsTyped
  <2>13. AccountsGone'
    <3> SUFFICES ASSUME NEW v \in Accounts
                 PROVE  /\ user'[v].deleted \/ user'[v].anonymized => user'[v].exists
                        /\ v \notin torn' /\ user'[v].anonymized => Gone(v)'
      BY DEF AccountsGone
    <3>1. CASE v = u
      BY <2>3, <2>4, <3>1
    <3>2. CASE v # u
      BY <2>2, <2>4, <2>12, <3>2 DEF AccountsInv, AccountsGone, Gone
    <3> QED BY <3>1, <3>2
  <2>14. InvitesOpen'
    BY <2>2 DEF AccountsInv, InvitesOpen
  <2> QED BY <2>10, <2>11, <2>13, <2>14 DEF AccountsInv
<1> QED BY <1>3, <1>4

\* softDeleteMe and restoreMe look again.
LEMMA CheckUserKeeps ==
  ASSUME AccountsInv, NEW o \in Slots, T!CheckUser(o) PROVE AccountsInv'
<1> DEFINE y == accountOp[o]
           z == [y EXCEPT !.pc = "user", !.early = ~user[y.u].anonymized]
<1>1. y.pc \in {"deleteMe", "restoreMe"} /\ y.pc \in Holding /\ Quiet
  BY DEF T!CheckUser, Holding, Quiet
<1>2. y \in AccountCall /\ Sound(y, user, role, torn) /\ user[y.u] \in AccountRow
  BY <1>1, HoldingFacts
<1>3. CASE T!Set(o, T!Idle)
  BY <1>1, <1>3, IdleSound, QuietCall DEF T!Set, Goes
<1>4. CASE T!Set(o, z) /\ ~user[y.u].anonymized
  <2>1. "user" \in Points /\ (~user[y.u].anonymized) \in BOOLEAN
    BY DEF Points, Asking, Holding
  <2>2. /\ z \in AccountCall /\ z.pc = "user" /\ z.early = ~user[y.u].anonymized
        /\ z.p = y.p /\ z.u = y.u /\ z.call = y.call /\ z.i = y.i /\ z.due = y.due
    BY <1>2, <2>1 DEF AccountCall
  <2>3. accountOp' = [accountOp EXCEPT ![o] = z]
    BY <1>4 DEF T!Set
  <2> HIDE DEF z, y
  <2>4. Sound(z, user, role, torn)
    BY <1>1, <1>2, <1>4, <2>2 DEF Sound, Asking, Holding, Purging
  <2> QED BY <1>1, <2>2, <2>3, <2>4, QuietCall DEF Goes, Quiet, y
<1> QED BY <1>3, <1>4 DEF T!CheckUser

\* The account is deleted softly, or restored.
LEMMA WriteUserKeeps ==
  ASSUME AccountsInv, NEW o \in Slots, T!WriteUser(o) PROVE AccountsInv'
<1> DEFINE u == accountOp[o].u
           x == IF accountOp[o].call = "deleteMe" THEN T!Deleted(user[u])
                ELSE T!Restored(user[u])
<1>1. accountOp[o].pc = "user" /\ accountOp[o].pc \in Holding
  BY DEF T!WriteUser, Holding
<1>2. u \in Accounts /\ user[u] \in AccountRow /\ user[u].exists
  BY <1>1, HoldingFacts
<1>3. x \in AccountRow /\ x.exists /\ x.anonymized = user[u].anonymized
  BY <1>2 DEF T!Deleted, T!Restored, AccountRow
<1>4. /\ user' = [user EXCEPT ![u] = x] /\ T!Tear(o, u) /\ T!End(o)
      /\ UNCHANGED <<org, role, seat, invite, admitted>>
  BY <1>2 DEF T!WriteUser, AccountsInv, AccountsTyped
<1>5. Goes(o, T!Idle)
  BY <1>4, IdleSound DEF Goes, T!End, T!Set
<1> HIDE DEF x
<1> QED BY <1>1, <1>3, <1>4, <1>5, WriteKeeps

\* The organisation is looked at ...
LEMMA CheckOrgKeeps ==
  ASSUME AccountsInv, NEW o \in Slots, T!CheckOrg(o) PROVE AccountsInv'
<1> DEFINE y == accountOp[o]
           z == [y EXCEPT !.pc = "org"]
<1>1. y.pc \in {"deleteOrg", "restoreOrg"} /\ y.pc \in Holding /\ Quiet
  BY DEF T!CheckOrg, Holding, Quiet
<1>2. y \in AccountCall /\ Sound(y, user, role, torn)
  BY <1>1, HoldingFacts
<1>3. CASE T!End(o)
  BY <1>1, <1>3, IdleSound, QuietCall DEF T!End, T!Set, Goes
<1>4. CASE T!Go(o, "org")
  <2>1. "org" \in Points
    BY DEF Points, Asking, Holding
  <2>2. /\ z \in AccountCall /\ z.pc = "org" /\ z.early = y.early
        /\ z.p = y.p /\ z.u = y.u /\ z.call = y.call /\ z.i = y.i /\ z.due = y.due
    BY <1>2, <2>1 DEF AccountCall
  <2>3. accountOp' = [accountOp EXCEPT ![o] = z]
    BY <1>4 DEF T!Go, T!Set
  <2> HIDE DEF z, y
  <2>4. Sound(z, user, role, torn)
    BY <1>1, <1>2, <2>2 DEF Sound, Asking, Holding, Purging
  <2> QED BY <1>1, <2>2, <2>3, <2>4, QuietCall DEF Goes, Quiet, y
<1> QED BY <1>3, <1>4 DEF T!CheckOrg

\* The organisation changes; who is a member, and what is invited, does not.
LEMMA OrgKeeps ==
  ASSUME AccountsInv, org' \in [exists : BOOLEAN, deleted : BOOLEAN,
                                grace : {"none", "running", "over"}],
         org'.exists = org.exists,
         UNCHANGED <<user, role, seat, invite, admitted, torn>>,
         NEW o \in Slots, NEW x, Goes(o, x) \/ UNCHANGED accountOp,
         accountOp[o].pc \notin {"members", "seats"}
  PROVE  AccountsInv'
<1>1. AccountsTyped'
  BY DEF AccountsInv, AccountsTyped, Goes
<1>2. Onward
  BY DEF Onward
<1>3. CallsSound'
  <2>1. CASE Goes(o, x)
    BY <1>1, <1>2, <2>1, SoundStays
  <2>2. CASE UNCHANGED accountOp
    BY <2>2 DEF AccountsInv, CallsSound
  <2> QED BY <2>1, <2>2
<1>4. AccountsGone'
  <2>1. \A u \in Accounts : T!Purging(u) => T!Purging(u)'
    BY DEF T!Purging, Goes, AccountsInv, AccountsTyped
  <2> QED BY <2>1 DEF AccountsInv, AccountsGone, Gone
<1>5. InvitesOpen'
  BY DEF AccountsInv, InvitesOpen
<1> QED BY <1>1, <1>3, <1>4, <1>5 DEF AccountsInv

\* ... and deleted softly, or restored.
LEMMA WriteOrgKeeps ==
  ASSUME AccountsInv, NEW o \in Slots, T!WriteOrg(o) PROVE AccountsInv'
<1>1. org \in [exists : BOOLEAN, deleted : BOOLEAN, grace : {"none", "running", "over"}]
  BY DEF AccountsInv, AccountsTyped
<1>2. /\ org' \in [exists : BOOLEAN, deleted : BOOLEAN,
                   grace : {"none", "running", "over"}]
      /\ org'.exists = org.exists
  BY <1>1 DEF T!WriteOrg, T!Deleted, T!Restored
<1>3. Goes(o, T!Idle) /\ accountOp[o].pc = "org"
  BY IdleSound DEF T!WriteOrg, T!End, T!Set, Goes
<1> QED BY <1>2, <1>3, OrgKeeps DEF T!WriteOrg

\* A grace runs out.
LEMMA GraceKeeps == ASSUME AccountsInv, T!GraceElapses PROVE AccountsInv'
<1>1. UNCHANGED <<role, seat, invite, accountOp, admitted, torn>>
  BY DEF T!GraceElapses
<1>2. AccountsTyped'
  BY <1>1 DEF T!GraceElapses, AccountsInv, AccountsTyped, AccountRow
<1>3. \A u \in Accounts :
         /\ user'[u].exists = user[u].exists /\ user'[u].deleted = user[u].deleted
         /\ user'[u].anonymized = user[u].anonymized
         /\ user'[u].email = user[u].email /\ user'[u].clerk = user[u].clerk
  BY DEF T!GraceElapses, AccountsInv, AccountsTyped, AccountRow
<1>4. org'.exists = org.exists
  BY DEF T!GraceElapses, AccountsInv, AccountsTyped
<1>5. CallsSound'
  <2> SUFFICES ASSUME NEW o \in Slots PROVE Sound(accountOp[o], user', role, torn)
    BY <1>1 DEF CallsSound
  <2> DEFINE y == accountOp[o]
  <2>1. Sound(y, user, role, torn) /\ y.due \subseteq Accounts
    BY DEF AccountsInv, CallsSound, AccountsTyped, AccountCall
  <2> HIDE DEF y
  <2>2. Sound(y, user', role, torn)
    BY <1>3, <2>1 DEF Sound, Holding, Purging
  <2> QED BY <2>2 DEF y
<1>6. AccountsGone'
  BY <1>1, <1>3 DEF AccountsInv, AccountsGone, Gone, T!Purging
<1>7. InvitesOpen'
  BY <1>1, <1>4 DEF AccountsInv, InvitesOpen
<1> QED BY <1>2, <1>5, <1>6, <1>7 DEF AccountsInv

\* Who is no member yet is invited; his earlier invitations are revoked.
LEMMA InviteKeeps ==
  ASSUME AccountsInv, NEW i \in Invitations, NEW p \in Persons, T!Invite(i, p)
  PROVE  AccountsInv'
<1>1. UNCHANGED <<user, org, role, seat, accountOp, admitted, torn>>
  BY DEF T!Invite
<1>2. ASSUME NEW j \in Invitations
      PROVE  /\ invite'[j] \in InviteRow
             /\ invite'[j].status \in {"absent", "PENDING", "REVOKED"} =>
                   invite[j].status \in {"absent", "PENDING", "REVOKED"}
  <2>1. invite[j] \in InviteRow /\ invite[i].status = "absent"
    BY DEF AccountsInv, AccountsTyped, T!Invite
  <2> QED BY <2>1 DEF T!Invite, InviteRow, Mail
<1>3. AccountsTyped'
  <2>1. invite' \in [Invitations -> InviteRow]
    BY <1>2 DEF T!Invite
  <2> QED BY <1>1, <2>1 DEF AccountsInv, AccountsTyped
<1>4. CallsSound' /\ AccountsGone'
  BY <1>1 DEF AccountsInv, CallsSound, AccountsGone, Gone, T!Purging
<1>5. InvitesOpen'
  BY <1>1, <1>2 DEF AccountsInv, InvitesOpen, T!Invite
<1> QED BY <1>3, <1>4, <1>5 DEF AccountsInv

\* It is too late for an invitation.
LEMMA InviteExpiresKeeps ==
  ASSUME AccountsInv, NEW i \in Invitations, T!InviteExpires(i) PROVE AccountsInv'
<1>1. UNCHANGED <<user, org, role, seat, accountOp, admitted, torn>>
  BY DEF T!InviteExpires
<1>2. /\ invite' \in [Invitations -> InviteRow]
      /\ \A j \in Invitations : invite'[j].status = invite[j].status
  <2> DEFINE x == [invite[i] EXCEPT !.late = TRUE]
  <2>1. invite \in [Invitations -> InviteRow] /\ invite[i] \in InviteRow
    BY DEF AccountsInv, AccountsTyped
  <2>2. x \in InviteRow /\ x.status = invite[i].status
    BY <2>1 DEF InviteRow
  <2>3. invite' = [invite EXCEPT ![i] = x]
    BY DEF T!InviteExpires
  <2> HIDE DEF x
  <2> QED BY <2>1, <2>2, <2>3
<1>3. AccountsTyped'
  BY <1>1, <1>2 DEF AccountsInv, AccountsTyped
<1>4. CallsSound' /\ AccountsGone'
  BY <1>1 DEF AccountsInv, CallsSound, AccountsGone, Gone, T!Purging
<1>5. InvitesOpen'
  BY <1>1, <1>2 DEF AccountsInv, InvitesOpen
<1> QED BY <1>3, <1>4, <1>5 DEF AccountsInv

\* accept looks at the invitation.
LEMMA ReadInviteKeeps ==
  ASSUME AccountsInv, NEW o \in Slots, T!ReadInvite(o) PROVE AccountsInv'
<1> DEFINE y == accountOp[o]
<1>1. y.pc = "accept" /\ y.pc \in Holding /\ Quiet
  BY DEF T!ReadInvite, Holding, Quiet
<1>2. y \in AccountCall /\ Sound(y, user, role, torn)
  BY <1>1, HoldingFacts
<1>3. CASE T!End(o)
  BY <1>1, <1>3, IdleSound, QuietCall DEF T!End, T!Set, Goes
<1>4. ASSUME NEW pc \in {"expire", "commit"}, T!Go(o, pc) PROVE AccountsInv'
  <2> DEFINE z == [y EXCEPT !.pc = pc]
  <2>1. pc \in Points
    BY DEF Points, Asking, Holding
  <2>2. /\ z \in AccountCall /\ z.pc = pc /\ z.early = y.early
        /\ z.p = y.p /\ z.u = y.u /\ z.call = y.call /\ z.i = y.i /\ z.due = y.due
    BY <1>2, <2>1 DEF AccountCall
  <2>3. accountOp' = [accountOp EXCEPT ![o] = z]
    BY <1>4 DEF T!Go, T!Set
  <2> HIDE DEF z, y
  <2>4. Sound(z, user, role, torn)
    BY <1>1, <1>2, <2>2 DEF Sound, Asking, Holding, Purging
  <2> QED BY <1>1, <2>2, <2>3, <2>4, QuietCall DEF Goes, Quiet, y
<1> QED BY <1>3, <1>4 DEF T!ReadInvite

\* A call that has written an invitation is over; accounts are as before.
LEMMA InvitationWritten ==
  ASSUME AccountsInv, NEW o \in Slots, T!End(o), accountOp[o].pc \notin {"members", "seats"},
         UNCHANGED <<user, org, role, seat, torn>>, AccountsTyped'
  PROVE  CallsSound' /\ AccountsGone'
<1>1. Goes(o, T!Idle)
  BY IdleSound DEF T!End, T!Set, Goes
<1>2. Onward
  BY DEF Onward
<1>3. CallsSound'
  BY <1>1, <1>2, SoundStays
<1>4. \A u \in Accounts : T!Purging(u) => T!Purging(u)'
  BY <1>1 DEF T!Purging, Goes, AccountsInv, AccountsTyped
<1>5. AccountsGone'
  BY <1>4 DEF AccountsInv, AccountsGone, Gone
<1> QED BY <1>3, <1>5

\* An invitation found too late is marked so.
LEMMA MarkExpiredKeeps ==
  ASSUME AccountsInv, NEW o \in Slots, T!MarkExpired(o) PROVE AccountsInv'
<1> DEFINE i == accountOp[o].i
<1>1. accountOp[o].pc = "expire" /\ T!End(o) /\
      UNCHANGED <<user, org, role, seat, admitted, torn>>
  BY DEF T!MarkExpired
<1>2. i \in Invitations
  BY <1>1 DEF AccountsInv, CallsSound, Sound
<1>3. invite' \in [Invitations -> InviteRow] /\
      \A j \in Invitations : invite'[j].status \in {invite[j].status, "EXPIRED"}
                             /\ (invite[j].status = "absent" => invite'[j].status = "absent")
  BY <1>2 DEF T!MarkExpired, AccountsInv, AccountsTyped, InviteRow
<1>4. AccountsTyped'
  BY <1>1, <1>3, IdleSound DEF AccountsInv, AccountsTyped, T!End, T!Set
<1>5. CallsSound' /\ AccountsGone'
  BY <1>1, <1>4, InvitationWritten
<1>6. InvitesOpen'
  BY <1>1, <1>3 DEF AccountsInv, InvitesOpen
<1> QED BY <1>4, <1>5, <1>6 DEF AccountsInv

\* The transaction of accept.
LEMMA CommitKeeps ==
  ASSUME AccountsInv, NEW o \in Slots, T!Commit(o) PROVE AccountsInv'
<1> DEFINE i == accountOp[o].i
           u == accountOp[o].u
<1>1. accountOp[o].pc = "commit" /\ accountOp[o].pc \in Holding /\ T!End(o)
      /\ UNCHANGED <<user, org>>
  BY DEF T!Commit, Holding
<1>2. i \in Invitations
  BY <1>1 DEF AccountsInv, CallsSound, Sound
<1>3. CASE invite[i].status # "PENDING"
  <2>1. UNCHANGED <<invite, role, seat, admitted, torn>>
    BY <1>3 DEF T!Commit
  <2>2. Goes(o, T!Idle) /\ Quiet
    BY <1>1, <2>1, IdleSound DEF T!End, T!Set, Goes, Quiet
  <2> QED BY <1>1, <2>2, QuietCall
<1>4. CASE invite[i].status = "PENDING"
  <2>1. /\ invite' = [invite EXCEPT ![i].status = "ACCEPTED"]
        /\ role' = [role EXCEPT ![u] = IF @ = T!None THEN "VIEWER" ELSE @]
        /\ seat' = seat \cup {u}
        /\ admitted' = [admitted EXCEPT ![i] = @ + 1]
        /\ T!Tear(o, u)
    BY <1>4 DEF T!Commit
  <2>2. /\ u \in Accounts /\ user[u].exists
        /\ torn \subseteq torn' /\ torn' \subseteq torn \cup {u}
        /\ user[u].anonymized => u \in torn'
    BY <1>1, <2>1, HoldingFacts
  <2>3. invite' \in [Invitations -> InviteRow] /\ invite'[i].status = "ACCEPTED" /\
        \A j \in Invitations \ {i} : invite'[j] = invite[j]
    BY <1>2, <2>1 DEF AccountsInv, AccountsTyped, InviteRow
  <2>4. /\ admitted' \in [Invitations -> Nat] /\ admitted'[i] = admitted[i] + 1
        /\ \A j \in Invitations \ {i} : admitted'[j] = admitted[j]
    BY <1>2, <2>1 DEF AccountsInv, AccountsTyped
  <2>5. role' \in [Accounts -> {T!None, "OWNER", "VIEWER"}] /\
        \A v \in Accounts \ {u} : role'[v] = role[v]
    BY <2>1, <2>2 DEF AccountsInv, AccountsTyped
  <2>6. Goes(o, T!Idle)
    BY <1>1, IdleSound DEF T!End, T!Set, Goes
  <2>7. AccountsTyped'
    BY <1>1, <2>1, <2>2, <2>3, <2>4, <2>5, <2>6 DEF AccountsInv, AccountsTyped, Goes
  <2>8. Onward
    BY <1>1, <2>2, <2>5 DEF Onward
  <2>9. CallsSound'
    BY <2>6, <2>7, <2>8, SoundStays
  <2>10. \A v \in Accounts : T!Purging(v) => T!Purging(v)'
    BY <1>1, <2>6 DEF T!Purging, Goes, AccountsInv, AccountsTyped
  <2>11. AccountsGone'
    <3> SUFFICES ASSUME NEW v \in Accounts
                 PROVE  /\ user[v].deleted \/ user[v].anonymized => user[v].exists
                        /\ v \notin torn' /\ user[v].anonymized => Gone(v)'
      BY <1>1 DEF AccountsGone
    <3>1. CASE v = u
      BY <2>2, <3>1 DEF AccountsInv, AccountsGone
    <3>2. CASE v # u
      BY <1>1, <2>1, <2>2, <2>5, <2>10, <3>2 DEF AccountsInv, AccountsGone, Gone
    <3> QED BY <3>1, <3>2
  <2>12. InvitesOpen'
    BY <1>1, <1>2, <1>4, <2>3, <2>4 DEF AccountsInv, InvitesOpen
  <2> QED BY <2>7, <2>9, <2>11, <2>12 DEF AccountsInv
<1> QED BY <1>3, <1>4

\* A purge begins.
LEMMA StartPurgeKeeps ==
  ASSUME AccountsInv, NEW o \in Slots, T!StartPurge(o) PROVE AccountsInv'
<1>1. PICK pc \in {"purgeOrg", "dueUsers"} :
         accountOp' = [accountOp EXCEPT ![o] = [T!Idle EXCEPT !.call = "purge", !.pc = pc]]
  BY DEF T!StartPurge, T!Set
<1> DEFINE x == [T!Idle EXCEPT !.call = "purge", !.pc = pc]
<1>2. /\ x.pc = pc /\ x.call = "purge" /\ x.due = {}
      /\ x \in AccountCall
  BY IdleSound DEF T!Idle, AccountCall, Points
<1>3. accountOp[o].pc = "idle" /\ Quiet
  BY DEF T!StartPurge, Quiet
<1> HIDE DEF x
<1>4. Sound(x, user', role', torn')
  BY <1>2 DEF Sound, Asking, Holding, Purging
<1> QED BY <1>1, <1>2, <1>3, <1>4, QuietCall DEF Goes, x

\* A purge goes on to what is due, all of it accounts that exist, or ends.
LEMMA ContinueSound ==
  ASSUME NEW o \in Slots, accountOp[o] \in AccountCall, accountOp[o].call = "purge",
         NEW due \in SUBSET Accounts, T!Continue(o, due), NEW us, NEW ro, NEW to,
         \A u \in due : us[u].exists
  PROVE  \E x \in AccountCall :
            /\ accountOp' = [accountOp EXCEPT ![o] = x]
            /\ Sound(x, us, ro, to)
<1>1. CASE due = {}
  BY <1>1, IdleSound DEF T!Continue, T!End, T!Set
<1>2. CASE due # {}
  <2> DEFINE y == accountOp[o]
  <2>1. PICK u \in due :
           T!Set(o, [y EXCEPT !.pc = "anonRead", !.u = u, !.due = due \ {u}])
    BY <1>2 DEF T!Continue
  <2> DEFINE x == [y EXCEPT !.pc = "anonRead", !.u = u, !.due = due \ {u}]
  <2>2. /\ x.pc = "anonRead" /\ x.u = u /\ x.due = due \ {u} /\ x.call = "purge"
        /\ x \in AccountCall
    BY DEF AccountCall, Points, Purging
  <2>3. accountOp' = [accountOp EXCEPT ![o] = x]
    BY <2>1 DEF T!Set
  <2> HIDE DEF x
  <2>4. Sound(x, us, ro, to)
    BY <2>2 DEF Sound, Asking, Holding, Purging
  <2> QED BY <2>2, <2>3, <2>4
<1> QED BY <1>1, <1>2

\* A purge finds the accounts that are due ...
LEMMA DueUsersKeeps ==
  ASSUME AccountsInv, NEW o \in Slots, T!DueUsers(o) PROVE AccountsInv'
<1> DEFINE due == {u \in Accounts : user[u].deleted /\ user[u].grace = "over"
                                     /\ ~user[u].anonymized}
<1>1. /\ accountOp[o].pc = "dueUsers" /\ Quiet /\ T!Continue(o, due)
      /\ accountOp[o] \in AccountCall
  BY DEF T!DueUsers, Quiet, AccountsInv, AccountsTyped
<1>2. accountOp[o].call = "purge"
  BY <1>1 DEF AccountsInv, CallsSound, Sound
<1>3. due \in SUBSET Accounts /\ \A u \in due : user[u].exists
  BY DEF AccountsInv, AccountsGone
<1> HIDE DEF due
<1>4. PICK x \in AccountCall : /\ accountOp' = [accountOp EXCEPT ![o] = x]
                               /\ Sound(x, user, role, torn)
  BY <1>1, <1>2, <1>3, ContinueSound
<1> QED BY <1>1, <1>4, QuietCall DEF Goes, Quiet

\* What a purge has in hand.
LEMMA PurgingFacts ==
  ASSUME AccountsInv, NEW o \in Slots, accountOp[o].pc \in Purging
  PROVE  /\ accountOp[o] \in AccountCall /\ Sound(accountOp[o], user, role, torn)
         /\ accountOp[o].u \in Accounts /\ user[accountOp[o].u] \in AccountRow
         /\ user[accountOp[o].u].exists /\ accountOp[o].call = "purge"
         /\ accountOp[o].due \subseteq Accounts
         /\ \A u \in accountOp[o].due : user[u].exists
<1> DEFINE y == accountOp[o]
<1>1. y \in AccountCall /\ Sound(y, user, role, torn)
  BY DEF AccountsInv, AccountsTyped, CallsSound
<1>2. y.u \in Accounts /\ user[y.u].exists
  BY <1>1 DEF Sound
<1>3. user[y.u] \in AccountRow
  BY <1>2 DEF AccountsInv, AccountsTyped
<1> QED BY <1>1, <1>2, <1>3 DEF Sound, AccountCall, Purging

\* ... looks at one ...
LEMMA ReadDueKeeps ==
  ASSUME AccountsInv, NEW o \in Slots, T!ReadDue(o) PROVE AccountsInv'
<1> DEFINE y == accountOp[o]
           pc == IF user[y.u].anonymized THEN "members" ELSE "anonymize"
           z == [y EXCEPT !.pc = pc]
<1>1. y.pc = "anonRead" /\ y.pc \in Purging /\ Quiet
  BY DEF T!ReadDue, Purging, Quiet
<1>2. y \in AccountCall /\ Sound(y, user, role, torn)
  BY <1>1, PurgingFacts
<1>3. pc \in Points /\ pc \in {"members", "anonymize"}
      /\ (pc = "members" => user[y.u].anonymized)
  BY DEF Points, Purging
<1>4. accountOp' = [accountOp EXCEPT ![o] = z]
  BY DEF T!ReadDue, T!Go, T!Set
<1> HIDE DEF pc
<1>5. /\ z \in AccountCall /\ z.pc = pc /\ z.p = y.p /\ z.u = y.u /\ z.call = y.call
      /\ z.i = y.i /\ z.due = y.due
  BY <1>2, <1>3 DEF AccountCall
<1> HIDE DEF z, y
<1>6. Sound(z, user, role, torn)
  BY <1>1, <1>2, <1>3, <1>5 DEF Sound, Asking, Holding, Purging
<1> QED BY <1>1, <1>4, <1>5, <1>6, QuietCall DEF Goes, Quiet, y

\* ... and takes its identity away ...
LEMMA AnonymizeKeeps ==
  ASSUME AccountsInv, NEW o \in Slots, T!Anonymize(o) PROVE AccountsInv'
<1> DEFINE y == accountOp[o]
           u == y.u
           x == [user[u] EXCEPT !.email = T!None, !.clerk = T!None,
                                !.anonymized = TRUE, !.deleted = TRUE]
           z == [y EXCEPT !.pc = "members"]
<1>1. y.pc = "anonymize" /\ y.pc \in Purging
      /\ UNCHANGED <<org, role, seat, invite, admitted, torn>>
  BY DEF T!Anonymize, Purging
<1>2. /\ y \in AccountCall /\ Sound(y, user, role, torn) /\ u \in Accounts
      /\ user[u] \in AccountRow /\ user[u].exists
  BY <1>1, PurgingFacts
<1>3. user' = [user EXCEPT ![u] = x] /\ accountOp' = [accountOp EXCEPT ![o] = z]
  BY DEF T!Anonymize, T!Go, T!Set
<1>4. /\ x \in AccountRow /\ x.exists /\ x.anonymized /\ x.deleted
      /\ x.email = T!None /\ x.clerk = T!None
  BY <1>2 DEF AccountRow, Mail
<1> HIDE DEF x
<1>5. user'[u] = x /\ \A v \in Accounts \ {u} : user'[v] = user[v]
  BY <1>2, <1>3 DEF AccountsInv, AccountsTyped
<1>6. Onward
  BY <1>1, <1>4, <1>5 DEF Onward
<1>7. /\ z \in AccountCall /\ z.pc = "members" /\ z.p = y.p /\ z.u = u
      /\ z.call = y.call /\ z.i = y.i /\ z.due = y.due
  BY <1>2 DEF AccountCall, Points, Purging
<1>8. Sound(z, user', role', torn')
  <2>1. y.due \subseteq Accounts /\ \A v \in Accounts : user[v].exists => user'[v].exists
    BY <1>2, <1>6 DEF AccountCall, Onward
  <2>2. user'[z.u].anonymized /\ user'[z.u].exists /\ z.u \in Accounts
    BY <1>2, <1>4, <1>5, <1>7
  <2> HIDE DEF z, y, u
  <2> QED BY <1>1, <1>2, <1>7, <2>1, <2>2 DEF Sound, Asking, Holding, Purging
<1>9. Goes(o, z)
  BY <1>3, <1>7, <1>8 DEF Goes
<1>10. AccountsTyped'
  BY <1>1, <1>2, <1>3, <1>4, <1>9 DEF AccountsInv, AccountsTyped, Goes
<1>11. CallsSound'
  BY <1>6, <1>9, <1>10, SoundStays
<1>12. accountOp'[o] = z /\ \A v \in Accounts : T!Purging(v) => T!Purging(v)'
  BY <1>1, <1>3, <1>7 DEF T!Purging, AccountsInv, AccountsTyped
<1>13. accountOp'[o].pc = "members" /\ accountOp'[o].u = u
  BY <1>7, <1>12
<1>14. AccountsGone'
  <2> SUFFICES ASSUME NEW v \in Accounts
               PROVE  /\ user'[v].deleted \/ user'[v].anonymized => user'[v].exists
                      /\ v \notin torn' /\ user'[v].anonymized => Gone(v)'
    BY DEF AccountsGone
  <2>1. CASE v = u
    BY <1>4, <1>5, <1>13, <2>1 DEF Gone, T!Purging
  <2>2. CASE v # u
    BY <1>1, <1>5, <1>12, <2>2 DEF AccountsInv, AccountsGone, Gone
  <2> QED BY <2>1, <2>2
<1>15. InvitesOpen'
  BY <1>1 DEF AccountsInv, InvitesOpen
<1> QED BY <1>10, <1>11, <1>14, <1>15 DEF AccountsInv

\* ... and its memberships of the organisation ...
LEMMA MembershipsKeeps ==
  ASSUME AccountsInv, NEW o \in Slots, T!DeleteMemberships(o) PROVE AccountsInv'
<1> DEFINE y == accountOp[o]
           u == y.u
           z == [y EXCEPT !.pc = "seats"]
<1>1. y.pc = "members" /\ y.pc \in Purging
      /\ UNCHANGED <<user, org, seat, invite, admitted, torn>>
  BY DEF T!DeleteMemberships, Purging
<1>2. y \in AccountCall /\ Sound(y, user, role, torn) /\ u \in Accounts
  BY <1>1, PurgingFacts
<1>3. role' = [role EXCEPT ![u] = T!None] /\ accountOp' = [accountOp EXCEPT ![o] = z]
  BY DEF T!DeleteMemberships, T!Go, T!Set
<1>4. role'[u] = T!None /\ \A v \in Accounts \ {u} : role'[v] = role[v]
  BY <1>2, <1>3 DEF AccountsInv, AccountsTyped
<1>5. Onward
  BY <1>1, <1>4 DEF Onward
<1>6. /\ z \in AccountCall /\ z.pc = "seats" /\ z.p = y.p /\ z.u = u
      /\ z.call = y.call /\ z.i = y.i /\ z.due = y.due
  BY <1>2 DEF AccountCall, Points, Purging
<1>7. Sound(z, user', role', torn')
  <2>1. /\ role'[z.u] = T!None /\ UNCHANGED user /\ z.u \in Accounts
        /\ user[z.u].exists /\ user[z.u].anonymized
    BY <1>1, <1>2, <1>4, <1>6 DEF Sound
  <2> HIDE DEF z, y, u
  <2> QED BY <1>1, <1>2, <1>6, <2>1 DEF Sound, Asking, Holding, Purging
<1>8. Goes(o, z)
  BY <1>3, <1>6, <1>7 DEF Goes
<1>9. AccountsTyped'
  BY <1>1, <1>2, <1>3, <1>8 DEF AccountsInv, AccountsTyped, Goes
<1>10. CallsSound'
  BY <1>5, <1>8, <1>9, SoundStays
<1>11. \A v \in Accounts : T!Purging(v) => T!Purging(v)'
  BY <1>1, <1>3, <1>6 DEF T!Purging, AccountsInv, AccountsTyped
<1>12. AccountsGone'
  <2> SUFFICES ASSUME NEW v \in Accounts, v \notin torn, user[v].anonymized
               PROVE  Gone(v)'
    BY <1>1 DEF AccountsInv, AccountsGone
  <2>1. Gone(v)
    BY DEF AccountsInv, AccountsGone
  <2>2. role'[v] \in {role[v], T!None}
    BY <1>4
  <2> QED BY <1>1, <1>11, <2>1, <2>2 DEF Gone
<1>13. InvitesOpen'
  BY <1>1 DEF AccountsInv, InvitesOpen
<1> QED BY <1>9, <1>10, <1>12, <1>13 DEF AccountsInv

\* ... and workspaces: then it is gone, and the purge goes on.
LEMMA SeatsKeeps ==
  ASSUME AccountsInv, NEW o \in Slots, T!DeleteSeats(o) PROVE AccountsInv'
<1> DEFINE y == accountOp[o]
           u == y.u
<1>1. y.pc = "seats" /\ y.pc \in Purging /\ T!Continue(o, y.due)
      /\ UNCHANGED <<user, org, role, invite, admitted, torn>>
      /\ seat' = seat \ {u}
  BY DEF T!DeleteSeats, Purging
<1>2. /\ y \in AccountCall /\ Sound(y, user, role, torn) /\ u \in Accounts
      /\ y.call = "purge" /\ y.due \in SUBSET Accounts /\ \A v \in y.due : user[v].exists
  BY <1>1, PurgingFacts
<1>3. role[u] = T!None \/ u \in torn
  BY <1>1, <1>2 DEF Sound
<1>4. PICK z \in AccountCall : /\ accountOp' = [accountOp EXCEPT ![o] = z]
                               /\ Sound(z, user, role, torn)
  BY <1>1, <1>2, ContinueSound
<1>5. Goes(o, z) /\ Onward
  BY <1>1, <1>4 DEF Goes, Onward
<1>6. AccountsTyped'
  BY <1>1, <1>4 DEF AccountsInv, AccountsTyped
<1>7. CallsSound'
  BY <1>5, <1>6, SoundStays
<1>8. \A v \in Accounts \ {u} : T!Purging(v) => T!Purging(v)'
  BY <1>4 DEF T!Purging, AccountsInv, AccountsTyped
<1>9. AccountsGone'
  <2> SUFFICES ASSUME NEW v \in Accounts, v \notin torn, user[v].anonymized
               PROVE  Gone(v)'
    BY <1>1 DEF AccountsInv, AccountsGone
  <2>1. Gone(v)
    BY DEF AccountsInv, AccountsGone
  <2>2. CASE v = u
    BY <1>1, <1>3, <2>1, <2>2 DEF Gone
  <2>3. CASE v # u
    BY <1>1, <1>8, <2>1, <2>3 DEF Gone
  <2> QED BY <2>2, <2>3
<1>10. InvitesOpen'
  BY <1>1 DEF AccountsInv, InvitesOpen
<1> QED BY <1>6, <1>7, <1>9, <1>10 DEF AccountsInv

\* The organisation goes with its members and invitations.
LEMMA PurgeOrgKeeps ==
  ASSUME AccountsInv, NEW o \in Slots, T!PurgeOrg(o) PROVE AccountsInv'
<1> DEFINE y == accountOp[o]
           z == [y EXCEPT !.pc = "dueUsers"]
<1>1. y.pc = "purgeOrg" /\ UNCHANGED <<user, admitted, torn>>
  BY DEF T!PurgeOrg
<1>2. y \in AccountCall /\ Sound(y, user, role, torn)
  BY DEF AccountsInv, AccountsTyped, CallsSound
<1>3. CASE ~org.exists
  <2>1. Goes(o, T!Idle) /\ Quiet
    BY <1>3, IdleSound DEF T!PurgeOrg, T!End, T!Set, Goes, Quiet
  <2> QED BY <1>1, <2>1, QuietCall
<1>4. CASE org.exists
  <2>1. /\ org' = [exists |-> FALSE, deleted |-> FALSE, grace |-> "none"]
        /\ role' = [v \in Accounts |-> T!None] /\ seat' = {}
        /\ invite' = [i \in Invitations |-> T!NoInvite]
        /\ accountOp' = [accountOp EXCEPT ![o] = z]
    BY <1>4 DEF T!PurgeOrg, T!Go, T!Set
  <2>2. /\ z \in AccountCall /\ z.pc = "dueUsers" /\ z.p = y.p /\ z.u = y.u
        /\ z.call = y.call /\ z.i = y.i /\ z.due = y.due
    BY <1>2 DEF AccountCall, Points
  <2>3. Sound(z, user', role', torn')
    <3> HIDE DEF z, y
    <3> QED BY <1>1, <1>2, <2>2 DEF Sound, Asking, Holding, Purging
  <2>4. Goes(o, z) /\ Onward
    BY <1>1, <2>1, <2>2, <2>3 DEF Goes, Onward
  <2>5. T!NoInvite \in InviteRow /\ T!NoInvite.status = "absent"
    BY DEF T!NoInvite, InviteRow, Mail
  <2>6. AccountsTyped'
    BY <1>1, <2>1, <2>2, <2>5 DEF AccountsInv, AccountsTyped
  <2>7. CallsSound'
    BY <2>4, <2>6, SoundStays
  <2>8. AccountsGone'
    BY <1>1, <2>1 DEF AccountsInv, AccountsGone, Gone
  <2>9. InvitesOpen'
    BY <1>1, <2>1, <2>5 DEF AccountsInv, InvitesOpen
  <2> QED BY <2>6, <2>7, <2>8, <2>9 DEF AccountsInv
<1> QED BY <1>3, <1>4

\* A purge stops: the account it had in hand is torn.
LEMMA StopKeeps ==
  ASSUME AccountsInv, NEW o \in Slots, T!Stop(o) PROVE AccountsInv'
<1> DEFINE y == accountOp[o]
<1>1. /\ UNCHANGED <<user, org, role, seat, invite, admitted>>
      /\ torn' = IF y.pc \in {"members", "seats"} THEN torn \cup {y.u} ELSE torn
  BY DEF T!Stop
<1>2. y \in AccountCall /\ (y.pc \in {"members", "seats"} => y.u \in Accounts)
  BY DEF AccountsInv, AccountsTyped, CallsSound, Sound, Purging
<1>3. Goes(o, T!Idle) /\ Onward
  BY <1>1, IdleSound DEF T!Stop, T!End, T!Set, Goes, Onward
<1>4. AccountsTyped'
  BY <1>1, <1>2, <1>3 DEF AccountsInv, AccountsTyped, Goes
<1>5. CallsSound'
  BY <1>3, <1>4, SoundStays
<1>6. \A v \in Accounts \ torn' : T!Purging(v) => T!Purging(v)'
  BY <1>1, <1>3 DEF T!Purging, Goes, AccountsInv, AccountsTyped
<1>7. AccountsGone'
  BY <1>1, <1>6 DEF AccountsInv, AccountsGone, Gone
<1>8. InvitesOpen'
  BY <1>1 DEF AccountsInv, InvitesOpen
<1> QED BY <1>4, <1>5, <1>7, <1>8 DEF AccountsInv

\* Every step of the service keeps the invariant.
LEMMA AccountsStep == AccountsInv /\ T!Next => AccountsInv'
<1> SUFFICES ASSUME AccountsInv, T!Next PROVE AccountsInv'
  OBVIOUS
<1>1. ASSUME NEW i \in Invitations,
             T!InviteExpires(i) \/ \E p \in Persons : T!Invite(i, p)
      PROVE  AccountsInv'
  BY <1>1, InviteExpiresKeeps, InviteKeeps
<1>2. ASSUME NEW o \in Slots, T!Step(o) PROVE AccountsInv'
  <2>1. CASE \E p \in Persons, call \in T!Calls, i \in Invitations \cup {T!None} :
                T!Request(o, p, call, i)
    BY <2>1, RequestKeeps
  <2>2. CASE T!FindByEmail(o) \/ T!WriteIdentity(o) \/ T!Create(o)
    BY <2>2, FindByEmailKeeps, WriteIdentityKeeps, CreateKeeps
  <2>3. CASE T!CheckUser(o) \/ T!WriteUser(o) \/ T!CheckOrg(o) \/ T!WriteOrg(o)
    BY <2>3, CheckUserKeeps, WriteUserKeeps, CheckOrgKeeps, WriteOrgKeeps
  <2>4. CASE T!ReadInvite(o) \/ T!MarkExpired(o) \/ T!Commit(o)
    BY <2>4, ReadInviteKeeps, MarkExpiredKeeps, CommitKeeps
  <2>5. CASE T!StartPurge(o) \/ T!PurgeOrg(o) \/ T!DueUsers(o) \/ T!ReadDue(o)
             \/ T!Anonymize(o)
    BY <2>5, StartPurgeKeeps, PurgeOrgKeeps, DueUsersKeeps, ReadDueKeeps, AnonymizeKeeps
  <2>6. CASE T!DeleteMemberships(o) \/ T!DeleteSeats(o) \/ T!Stop(o)
    BY <2>6, MembershipsKeeps, SeatsKeeps, StopKeeps
  <2> QED BY <1>2, <2>1, <2>2, <2>3, <2>4, <2>5, <2>6 DEF T!Step
<1> QED BY <1>1, <1>2, GraceKeeps DEF T!Next

\* The invariant is about no other variable.
LEMMA AccountsRest == AccountsInv /\ UNCHANGED accountVars => AccountsInv'
BY DEF accountVars, AccountsInv, AccountsTyped, CallsSound, AccountsGone, Gone, T!Purging,
       InvitesOpen

\* What it says of the properties.
LEMMA AccountsHold ==
  AccountsInv => T!TypeOK /\ PurgedStayGone /\ InvitationsAdmitOnce
<1> SUFFICES ASSUME AccountsInv PROVE T!TypeOK /\ PurgedStayGone /\ InvitationsAdmitOnce
  OBVIOUS
<1>1. T!TypeOK
  BY DEF AccountsInv, AccountsTyped, AccountRow, InviteRow, AccountCall, Mail, T!TypeOK
<1>2. PurgedStayGone
  BY DEF AccountsInv, AccountsGone, Gone, PurgedStayGone, T!PurgedStayGone
<1>3. InvitationsAdmitOnce
  BY DEF AccountsInv, InvitesOpen, InvitationsAdmitOnce, T!InvitationsAdmitOnce
<1> QED BY <1>1, <1>2, <1>3

-----------------------------------------------------------------------------
(* Quotas and the rate limit (Quotas) *)

RunQuotas == <<"runs_per_month", "tokens_per_month">>
QuotaPoints == {"idle", "limit", "count", "rate", "incr", "admitted"}
Asked == [pc : QuotaPoints, kind : {"none", "run"} \cup AgentPackages,
          todo : {<<>>, RunQuotas, <<"tokens_per_month">>, <<"max_agents_installed">>},
          limit : Nat, window : Q!Windows]

QuotasTyped ==
    /\ plan \in DOMAIN Defaults /\ override \in [Q!Dimensions -> Nat]
    /\ request \in [Slots -> Asked]
    /\ runs \in 0..MaxRuns /\ tokens \in 0..MaxTokens /\ installed \subseteq AgentPackages
    /\ minute \in Q!Windows /\ hits \in [Q!Windows -> 0..MaxHits]
    /\ peak \in [Q!Dimensions -> Nat]

\* What a request has read of the runs quota was once in force.
Fair(x, pk) ==
    /\ x.pc # "idle" => x.kind \in {"run"} \cup AgentPackages
    /\ x.pc \in {"limit", "count"} => x.todo # <<>>
    /\ x.pc \in {"rate", "incr", "admitted"} => x.todo = <<>>
    /\ x.pc = "count" /\ x.todo = RunQuotas => x.limit <= pk["runs_per_month"]

RequestsFair == \A r \in Slots : Fair(request[r], peak)
PeakIsPeak == \A d \in Q!Dimensions : Q!LimitInForce(d) <= peak[d]

\* The requests that found room for their run and may still insert it.
Ahead(x) == x.kind = "run" /\ x.pc # "idle" /\ x.todo # RunQuotas
RunsAhead == {r \in Slots : Ahead(request[r])}

\* All of them may insert before anybody counts again.
RoomForAll ==
    runs + Cardinality(RunsAhead) < peak["runs_per_month"] + Cardinality(Slots)

QuotasInv == QuotasTyped /\ RequestsFair /\ PeakIsPeak /\ RoomForAll

\* Any limit is a number.
LEMMA LimitsAreNumbers ==
  ASSUME NEW p \in DOMAIN Defaults, NEW o \in [Q!Dimensions -> Nat], NEW d \in Q!Dimensions
  PROVE  Q!LimitOf(p, o, d) \in Nat
BY ServicesAssumption DEF Q!LimitOf

\* The quotas that are checked one after the other.
LEMMA QuotaLists ==
  /\ Tail(RunQuotas) = <<"tokens_per_month">> /\ Head(RunQuotas) = "runs_per_month"
  /\ Tail(<<"tokens_per_month">>) = <<>> /\ Tail(<<"max_agents_installed">>) = <<>>
  /\ RunQuotas # <<>> /\ RunQuotas # <<"tokens_per_month">>
  /\ RunQuotas # <<"max_agents_installed">>
  /\ <<"tokens_per_month">> # <<>> /\ <<"max_agents_installed">> # <<>>
<1>1. Tail(RunQuotas) = <<"tokens_per_month">> /\ Head(RunQuotas) = "runs_per_month"
  BY DEF RunQuotas
<1>2. Tail(<<"tokens_per_month">>) = <<>>
  OBVIOUS
<1>3. Tail(<<"max_agents_installed">>) = <<>>
  OBVIOUS
<1>4. Len(RunQuotas) = 2 /\ Len(<<>>) = 0 /\ Len(<<"tokens_per_month">>) = 1
      /\ Len(<<"max_agents_installed">>) = 1
  BY DEF RunQuotas
<1>5. RunQuotas # <<>>
  BY <1>4
<1>6. RunQuotas # <<"tokens_per_month">>
  BY <1>4
<1>7. RunQuotas # <<"max_agents_installed">>
  BY <1>4
<1>8. <<"tokens_per_month">> # <<>>
  BY <1>4
<1>9. <<"max_agents_installed">> # <<>>
  BY <1>4
<1> QED BY <1>1, <1>2, <1>3, <1>5, <1>6, <1>7, <1>8, <1>9

\* Every set of slots is finite, and no larger than all of them.
LEMMA SlotsCounted ==
  ASSUME NEW S \in SUBSET Slots
  PROVE  /\ IsFiniteSet(S) /\ Cardinality(S) \in Nat /\ Cardinality(Slots) \in Nat
         /\ Cardinality(S) <= Cardinality(Slots)
BY ServicesAssumption, FS_Subset, FS_CardinalityType

\* Runs and their peak are numbers.
LEMMA QuotaNumbers == QuotasInv => runs \in Nat /\ peak["runs_per_month"] \in Nat
<1> SUFFICES ASSUME QuotasInv PROVE runs \in Nat /\ peak["runs_per_month"] \in Nat
  OBVIOUS
<1>1. runs \in 0..MaxRuns /\ MaxRuns \in Nat
  BY ServicesAssumption DEF QuotasInv, QuotasTyped
<1>2. peak \in [Q!Dimensions -> Nat] /\ "runs_per_month" \in Q!Dimensions
  BY DEF QuotasInv, QuotasTyped, Q!Dimensions
<1> QED BY <1>1, <1>2

\* An organisation begins on the free plan.
LEMMA QuotasStart == Q!Init => QuotasInv
<1> SUFFICES ASSUME Q!Init PROVE QuotasInv
  OBVIOUS
<1> USE ServicesAssumption DEF Q!Init
<1>1. "runs_per_month" \in Q!Dimensions /\ 0 \in Q!Windows
  BY DEF Q!Dimensions, Q!Windows
<1>2. Q!Idle \in Asked
  BY <1>1 DEF Q!Idle, Asked, QuotaPoints
<1>3. QuotasTyped
  BY <1>1, <1>2 DEF QuotasTyped, Q!NoOverride
<1>4. RequestsFair
  BY DEF RequestsFair, Fair, Q!Idle
<1>5. PeakIsPeak
  BY <1>3 DEF QuotasTyped, PeakIsPeak, Q!LimitInForce, Q!LimitOf, Q!NoOverride
<1>6. RunsAhead = {}
  BY DEF RunsAhead, Ahead, Q!Idle
<1>7. Cardinality(RunsAhead) = 0
  BY <1>6, FS_EmptySet
<1>8. Cardinality(Slots) \in Nat /\ Cardinality(Slots) # 0
  BY FS_EmptySet, FS_CardinalityType
<1>9. RoomForAll
  BY <1>1, <1>3, <1>7, <1>8 DEF RoomForAll, QuotasTyped
<1> QED BY <1>3, <1>4, <1>5, <1>9 DEF QuotasInv

\* Request r becomes x.
Turns(r, x) ==
    request' = [request EXCEPT ![r] = x] /\ x \in Asked /\ Fair(x, peak')

\* While limits, runs and the clock stay as they are.
LEMMA TurnKeeps ==
  ASSUME QuotasInv, NEW r \in Slots, NEW x, Turns(r, x), Ahead(x) => Ahead(request[r]),
         UNCHANGED <<plan, override, runs, tokens, minute, peak>>,
         installed' \subseteq AgentPackages, hits' \in [Q!Windows -> 0..MaxHits]
  PROVE  QuotasInv'
<1>1. QuotasTyped'
  BY DEF QuotasInv, QuotasTyped, Turns
<1>2. RequestsFair'
  BY DEF QuotasInv, QuotasTyped, RequestsFair, Turns
<1>3. PeakIsPeak'
  BY DEF QuotasInv, PeakIsPeak, Q!LimitInForce
<1>4. RunsAhead' \subseteq RunsAhead /\ RunsAhead \subseteq Slots
  BY DEF RunsAhead, Turns, QuotasInv, QuotasTyped
<1>5. Cardinality(RunsAhead') <= Cardinality(RunsAhead)
      /\ Cardinality(RunsAhead') \in Nat /\ Cardinality(RunsAhead) \in Nat
  BY <1>4, SlotsCounted, FS_Subset, FS_CardinalityType
<1>6. peak["runs_per_month"] \in Nat /\ Cardinality(Slots) \in Nat /\ runs \in Nat
  BY ServicesAssumption, SlotsCounted DEF QuotasInv, QuotasTyped, Q!Dimensions
<1>7. RoomForAll'
  BY <1>5, <1>6 DEF QuotasInv, RoomForAll
<1> QED BY <1>1, <1>2, <1>3, <1>7 DEF QuotasInv

\* A request that begins, refused or over, is no more ahead than before.
LEMMA IdleTurn ==
  /\ Q!Idle \in Asked /\ ~Ahead(Q!Idle)
  /\ \A pk : Fair(Q!Idle, pk)
<1>1. 0 \in Q!Windows
  BY ServicesAssumption DEF Q!Windows
<1> QED BY <1>1 DEF Q!Idle, Asked, QuotaPoints, Ahead, Fair

\* assertCanCreateRun or assertCanInstallAgent begins.
LEMMA ArriveKeeps ==
  ASSUME QuotasInv, NEW r \in Slots, NEW kind \in {"run"} \cup AgentPackages,
         Q!Arrive(r, kind)
  PROVE  QuotasInv'
<1> DEFINE x == [Q!Idle EXCEPT !.pc = "limit", !.kind = kind, !.todo = Q!QuotasOf(kind)]
<1>1. /\ request' = [request EXCEPT ![r] = x]
      /\ UNCHANGED <<plan, override, runs, tokens, minute, peak, installed, hits>>
  BY DEF Q!Arrive, Q!SetRequest, Q!Only
<1>2. Q!QuotasOf(kind) \in {RunQuotas, <<"max_agents_installed">>}
      /\ (kind = "run" => Q!QuotasOf(kind) = RunQuotas)
  BY DEF Q!QuotasOf, RunQuotas
<1>3. /\ x.pc = "limit" /\ x.kind = kind /\ x.todo = Q!QuotasOf(kind)
      /\ x \in Asked
  BY <1>2, IdleTurn DEF Asked, QuotaPoints, Q!Idle
<1>4. Q!QuotasOf(kind) # <<>>
  BY <1>2, QuotaLists
<1> HIDE DEF x
<1>5. ~Ahead(x) /\ Fair(x, peak)
  BY <1>2, <1>3, <1>4 DEF Ahead, Fair
<1> HIDE DEF x
<1> QED BY <1>1, <1>3, <1>5, TurnKeeps DEF Turns, QuotasInv, QuotasTyped

\* What a request has in hand.
LEMMA AskedFacts ==
  ASSUME QuotasInv, NEW r \in Slots
  PROVE  /\ request[r] \in Asked /\ Fair(request[r], peak)
         /\ request[r].limit \in Nat /\ request[r].window \in Q!Windows
         /\ request[r].kind \in {"none", "run"} \cup AgentPackages
         /\ request[r].pc = "count" =>
               request[r].todo \in {RunQuotas, <<"tokens_per_month">>,
                                    <<"max_agents_installed">>}
BY DEF QuotasInv, QuotasTyped, RequestsFair, Asked, Fair

\* A limit is read.
LEMMA ReadLimitKeeps ==
  ASSUME QuotasInv, NEW r \in Slots, Q!ReadLimit(r) PROVE QuotasInv'
<1> DEFINE y == request[r]
           d == Head(y.todo)
           x == [y EXCEPT !.pc = "count", !.limit = Q!LimitInForce(d)]
<1>1. /\ y.pc = "limit" /\ request' = [request EXCEPT ![r] = x]
      /\ UNCHANGED <<plan, override, runs, tokens, minute, peak, installed, hits>>
  BY DEF Q!ReadLimit, Q!SetRequest, Q!Only
<1>2. /\ y \in Asked /\ Fair(y, peak)
      /\ y.todo \in {RunQuotas, <<"tokens_per_month">>, <<"max_agents_installed">>}
  BY <1>1, AskedFacts DEF Asked, Fair
<1>3. d \in Q!Dimensions /\ (y.todo = RunQuotas => d = "runs_per_month")
  BY <1>2 DEF RunQuotas, Q!Dimensions
<1>4. Q!LimitInForce(d) \in Nat /\ Q!LimitInForce(d) <= peak[d]
  BY <1>3, LimitsAreNumbers DEF QuotasInv, QuotasTyped, PeakIsPeak, Q!LimitInForce
<1>5. /\ x \in Asked /\ x.pc = "count" /\ x.todo = y.todo /\ x.kind = y.kind
      /\ x.limit = Q!LimitInForce(d)
  <2> HIDE DEF d
  <2>1. "count" \in QuotaPoints
    BY DEF QuotaPoints
  <2> QED BY <1>2, <1>4, <2>1 DEF Asked
<1>6. y.todo # <<>>
  BY <1>2 DEF RunQuotas
<1> HIDE DEF x
<1>7. Fair(x, peak)
  BY <1>1, <1>2, <1>3, <1>4, <1>5, <1>6 DEF Fair
<1>8. Ahead(x) => Ahead(y)
  BY <1>1, <1>5 DEF Ahead
<1>9. Turns(r, x)
  BY <1>1, <1>5, <1>7 DEF Turns
<1>10. installed' \subseteq AgentPackages /\ hits' \in [Q!Windows -> 0..MaxHits]
  BY <1>1 DEF QuotasInv, QuotasTyped
<1> QED BY <1>1, <1>8, <1>9, <1>10, TurnKeeps

\* There is room: the next quota, or the rate.  Whoever finds room for a run
\* puts at most every slot ahead, with fewer runs than a limit.
LEMMA CountKeeps ==
  ASSUME QuotasInv, NEW r \in Slots, Q!Count(r) PROVE QuotasInv'
<1> DEFINE y == request[r]
           rest == Tail(y.todo)
           x == [y EXCEPT !.todo = rest, !.limit = 0,
                          !.pc = IF rest = <<>> THEN "rate" ELSE "limit"]
<1>1. /\ y.pc = "count" /\ Q!Room(r) /\ request' = [request EXCEPT ![r] = x]
      /\ UNCHANGED <<plan, override, runs, tokens, minute, peak, installed, hits>>
  BY DEF Q!Count, Q!SetRequest, Q!Only
<1>2. /\ y \in Asked /\ Fair(y, peak)
      /\ y.todo \in {RunQuotas, <<"tokens_per_month">>, <<"max_agents_installed">>}
  BY <1>1, AskedFacts
<1>3. /\ y.todo = RunQuotas => rest = <<"tokens_per_month">>
      /\ y.todo # RunQuotas => rest = <<>>
  BY <1>2, QuotaLists
<1>4. rest \in {<<>>, <<"tokens_per_month">>} /\ rest # RunQuotas
  BY <1>3, QuotaLists
<1>5. /\ x \in Asked /\ x.todo = rest /\ x.kind = y.kind
      /\ x.pc = IF rest = <<>> THEN "rate" ELSE "limit"
  <2> HIDE DEF rest
  <2>1. {"rate", "limit"} \subseteq QuotaPoints
    BY DEF QuotaPoints
  <2> QED BY <1>2, <1>4, <2>1 DEF Asked
<1>6. Fair(x, peak)
  <2> HIDE DEF x, rest
  <2> QED BY <1>1, <1>2, <1>4, <1>5 DEF Fair
<1>7. CASE y.todo # RunQuotas
  <2>1. Ahead(x) => Ahead(y)
    BY <1>1, <1>5, <1>7 DEF Ahead
  <2> QED BY <1>1, <1>5, <1>6, <2>1, TurnKeeps DEF Turns, QuotasInv, QuotasTyped
<1>8. CASE y.todo = RunQuotas
  <2>1. y.limit \in Nat /\ y.limit <= peak["runs_per_month"]
    BY <1>1, <1>2, <1>8, AskedFacts DEF Fair
  <2>2. runs < y.limit
    BY <1>1, <1>8 DEF Q!Room, Q!Used, RunQuotas
  <2>3. RunsAhead' \subseteq Slots
    BY DEF RunsAhead
  <2>4. /\ Cardinality(RunsAhead') \in Nat /\ Cardinality(Slots) \in Nat
        /\ Cardinality(RunsAhead') <= Cardinality(Slots)
    BY <2>3, SlotsCounted
  <2>5. peak["runs_per_month"] \in Nat /\ runs \in Nat
    BY ServicesAssumption DEF QuotasInv, QuotasTyped, Q!Dimensions
  <2>6. RoomForAll'
    BY <1>1, <2>1, <2>2, <2>4, <2>5 DEF RoomForAll
  <2> HIDE DEF x
  <2>7. QuotasTyped'
    BY <1>1, <1>5 DEF QuotasInv, QuotasTyped
  <2>8. RequestsFair'
    BY <1>1, <1>6 DEF QuotasInv, QuotasTyped, RequestsFair
  <2>9. PeakIsPeak'
    BY <1>1 DEF QuotasInv, PeakIsPeak, Q!LimitInForce
  <2> QED BY <2>6, <2>7, <2>8, <2>9 DEF QuotasInv
<1> QED BY <1>7, <1>8

\* The rate limit is read, and the clock.
LEMMA ReadRateKeeps ==
  ASSUME QuotasInv, NEW r \in Slots, Q!ReadRate(r) PROVE QuotasInv'
<1> DEFINE y == request[r]
           x == [y EXCEPT !.pc = "incr", !.limit = Q!LimitInForce("api_rpm"),
                          !.window = minute]
<1>1. /\ y.pc = "rate" /\ request' = [request EXCEPT ![r] = x]
      /\ UNCHANGED <<plan, override, runs, tokens, minute, peak, installed, hits>>
  BY DEF Q!ReadRate, Q!SetRequest, Q!Only
<1>2. y \in Asked /\ Fair(y, peak) /\ minute \in Q!Windows
  BY AskedFacts DEF QuotasInv, QuotasTyped
<1>3. Q!LimitInForce("api_rpm") \in Nat
  BY LimitsAreNumbers DEF QuotasInv, QuotasTyped, Q!LimitInForce, Q!Dimensions
<1>4. x \in Asked /\ x.pc = "incr" /\ x.todo = y.todo /\ x.kind = y.kind
  <2>1. "incr" \in QuotaPoints
    BY DEF QuotaPoints
  <2> QED BY <1>2, <1>3, <2>1 DEF Asked
<1> HIDE DEF x
<1>5. Fair(x, peak) /\ (Ahead(x) => Ahead(y))
  BY <1>1, <1>2, <1>4 DEF Fair, Ahead
<1> QED BY <1>1, <1>4, <1>5, TurnKeeps DEF Turns, QuotasInv, QuotasTyped

\* The call is counted in its window, and let through or not.
LEMMA IncrementKeeps ==
  ASSUME QuotasInv, NEW r \in Slots, Q!Increment(r) PROVE QuotasInv'
<1> DEFINE y == request[r]
           x == [Q!Idle EXCEPT !.pc = "admitted", !.kind = y.kind]
<1>1. /\ y.pc = "incr" /\ hits[y.window] < MaxHits
      /\ hits' = [hits EXCEPT ![y.window] = @ + 1]
      /\ request' = [request EXCEPT ![r] = IF Q!Passes(r) THEN x ELSE Q!Idle]
      /\ UNCHANGED <<plan, override, runs, tokens, minute, peak, installed>>
  BY DEF Q!Increment, Q!SetRequest, Q!Only
<1>2. /\ Fair(y, peak) /\ y.window \in Q!Windows
      /\ y.kind \in {"none", "run"} \cup AgentPackages
  BY AskedFacts
<1>3. x.pc = "admitted" /\ x.kind = y.kind /\ x.todo = <<>>
  BY DEF Q!Idle
<1>4. x \in Asked
  BY <1>2, IdleTurn DEF Asked, QuotaPoints
<1> HIDE DEF x
<1>5. Fair(x, peak) /\ (Ahead(x) => Ahead(y))
  BY <1>1, <1>2, <1>3, QuotaLists DEF Fair, Ahead
<1>6. hits' \in [Q!Windows -> 0..MaxHits]
  BY <1>1, <1>2, ServicesAssumption DEF QuotasInv, QuotasTyped
<1>7. CASE Q!Passes(r)
  BY <1>1, <1>4, <1>5, <1>6, <1>7, TurnKeeps DEF Turns, QuotasInv, QuotasTyped
<1>8. CASE ~Q!Passes(r)
  BY <1>1, <1>6, <1>8, IdleTurn, TurnKeeps DEF Turns, QuotasInv, QuotasTyped
<1> QED BY <1>7, <1>8

\* Requests that end: refused, installed, given up.
LEMMA EndKeeps ==
  ASSUME QuotasInv, NEW r \in Slots,
         Q!Refuse(r) \/ Q!InstallAgent(r) \/ Q!Abandon(r) \/ Q!AbandonCounted(r)
  PROVE  QuotasInv'
<1>1. /\ request' = [request EXCEPT ![r] = Q!Idle]
      /\ UNCHANGED <<plan, override, runs, tokens, minute, peak>>
  BY DEF Q!Refuse, Q!InstallAgent, Q!Abandon, Q!AbandonCounted, Q!SetRequest, Q!Only
<1>2. installed' \subseteq AgentPackages
  <2>1. request[r].pc = "admitted" => request[r].kind \in {"run"} \cup AgentPackages
    BY AskedFacts DEF Fair
  <2> QED BY <2>1, AskedFacts DEF Q!Refuse, Q!InstallAgent, Q!Abandon, Q!AbandonCounted,
          Q!Only, QuotasInv, QuotasTyped
<1>3. hits' \in [Q!Windows -> 0..MaxHits]
  BY AskedFacts, ServicesAssumption DEF Q!Refuse, Q!InstallAgent, Q!Abandon,
     Q!AbandonCounted, Q!Only, QuotasInv, QuotasTyped
<1> QED BY <1>1, <1>2, <1>3, IdleTurn, TurnKeeps DEF Turns

\* The run is inserted: one run more, one request ahead less.
LEMMA InsertKeeps ==
  ASSUME QuotasInv, NEW r \in Slots, Q!InsertRun(r) PROVE QuotasInv'
<1>1. /\ request[r].pc = "admitted" /\ request[r].kind = "run" /\ runs < MaxRuns
      /\ runs' = runs + 1 /\ request' = [request EXCEPT ![r] = Q!Idle]
      /\ UNCHANGED <<plan, override, tokens, minute, peak, installed, hits>>
  BY DEF Q!InsertRun, Q!SetRequest, Q!Only
<1>2. QuotasTyped'
  <2>1. runs' \in 0..MaxRuns
    BY <1>1, ServicesAssumption DEF QuotasInv, QuotasTyped
  <2> QED BY <1>1, <2>1, IdleTurn DEF QuotasInv, QuotasTyped
<1>3. RequestsFair'
  BY <1>1, IdleTurn DEF QuotasInv, QuotasTyped, RequestsFair
<1>4. PeakIsPeak'
  BY <1>1 DEF QuotasInv, PeakIsPeak, Q!LimitInForce
<1>5. r \in RunsAhead
  BY <1>1, AskedFacts, QuotaLists DEF RunsAhead, Ahead, Fair
<1>6. RunsAhead' = RunsAhead \ {r} /\ RunsAhead \subseteq Slots
  BY <1>1, IdleTurn DEF RunsAhead, QuotasInv, QuotasTyped
<1>7. /\ Cardinality(RunsAhead') = Cardinality(RunsAhead) - 1
      /\ Cardinality(RunsAhead) \in Nat /\ Cardinality(Slots) \in Nat
  BY <1>5, <1>6, SlotsCounted, FS_RemoveElement
<1>8. peak["runs_per_month"] \in Nat /\ runs \in Nat
  BY ServicesAssumption DEF QuotasInv, QuotasTyped, Q!Dimensions
<1>9. RoomForAll'
  BY <1>1, <1>7, <1>8 DEF QuotasInv, RoomForAll
<1> QED BY <1>2, <1>3, <1>4, <1>9 DEF QuotasInv

\* A plan or an override is set: the peak only rises.
LEMMA SetOrgKeeps ==
  ASSUME QuotasInv, NEW p \in DOMAIN Defaults, NEW o \in [Q!Dimensions -> Nat],
         Q!SetOrg(p, o)
  PROVE  QuotasInv'
<1>1. /\ plan' = p /\ override' = o
      /\ UNCHANGED <<request, runs, tokens, installed, minute, hits>>
  BY DEF Q!SetOrg
<1>2. \A d \in Q!Dimensions : Q!LimitOf(p, o, d) \in Nat /\ peak[d] \in Nat
  BY LimitsAreNumbers DEF QuotasInv, QuotasTyped
<1>3. /\ peak' \in [Q!Dimensions -> Nat]
      /\ \A d \in Q!Dimensions : peak'[d] >= peak[d] /\ Q!LimitOf(p, o, d) <= peak'[d]
  BY <1>2 DEF Q!SetOrg
<1>4. /\ "runs_per_month" \in Q!Dimensions /\ peak["runs_per_month"] \in Nat
      /\ peak'["runs_per_month"] \in Nat
      /\ peak["runs_per_month"] <= peak'["runs_per_month"]
  BY <1>2, <1>3 DEF Q!Dimensions
<1>5. QuotasTyped'
  BY <1>1, <1>3 DEF QuotasInv, QuotasTyped
<1>6. RequestsFair'
  <2> SUFFICES ASSUME NEW r \in Slots PROVE Fair(request[r], peak')
    BY <1>1 DEF RequestsFair
  <2>1. Fair(request[r], peak) /\ request[r].limit \in Nat
    BY AskedFacts
  <2> QED BY <1>4, <2>1 DEF Fair
<1>7. PeakIsPeak'
  BY <1>1, <1>3 DEF PeakIsPeak, Q!LimitInForce
<1>8. RunsAhead' = RunsAhead /\ RunsAhead \subseteq Slots
  BY <1>1 DEF RunsAhead
<1>9. Cardinality(RunsAhead) \in Nat /\ Cardinality(Slots) \in Nat /\ runs \in Nat
  BY <1>8, SlotsCounted, ServicesAssumption DEF QuotasInv, QuotasTyped
<1>10. RoomForAll'
  BY <1>1, <1>4, <1>8, <1>9 DEF QuotasInv, RoomForAll
<1> QED BY <1>5, <1>6, <1>7, <1>10 DEF QuotasInv

\* What goes on meanwhile: runs are not added, limits stay.
LEMMA MeanwhileKeeps ==
  ASSUME QuotasInv,
         \/ Q!RecordUsage \/ Q!NextMinute \/ Q!NextMonth
         \/ \E p \in AgentPackages : Q!Uninstall(p)
         \/ \E w \in Q!Windows : Q!WindowExpires(w)
  PROVE  QuotasInv'
<1>1. UNCHANGED <<plan, override, peak, request>> /\ runs' \in {runs, 0}
  BY DEF Q!RecordUsage, Q!NextMinute, Q!NextMonth, Q!Uninstall, Q!WindowExpires, Q!Only
<1>2. QuotasTyped'
  <2> USE ServicesAssumption
  <2>1. tokens' \in 0..MaxTokens /\ runs' \in 0..MaxRuns
    BY DEF QuotasInv, QuotasTyped, Q!RecordUsage, Q!NextMinute, Q!NextMonth, Q!Uninstall,
           Q!WindowExpires, Q!Only
  <2>2. minute' \in Q!Windows
    BY DEF QuotasInv, QuotasTyped, Q!RecordUsage, Q!NextMinute, Q!NextMonth, Q!Uninstall,
           Q!WindowExpires, Q!Only, Q!Windows
  <2>3. hits' \in [Q!Windows -> 0..MaxHits] /\ installed' \subseteq AgentPackages
    BY DEF QuotasInv, QuotasTyped, Q!RecordUsage, Q!NextMinute, Q!NextMonth, Q!Uninstall,
           Q!WindowExpires, Q!Only
  <2> QED BY <1>1, <2>1, <2>2, <2>3 DEF QuotasInv, QuotasTyped
<1>3. RequestsFair' /\ PeakIsPeak'
  BY <1>1 DEF QuotasInv, RequestsFair, PeakIsPeak, Q!LimitInForce
<1>4. RunsAhead' = RunsAhead /\ RunsAhead \subseteq Slots
  BY <1>1 DEF RunsAhead
<1>5. /\ Cardinality(RunsAhead) \in Nat /\ Cardinality(Slots) \in Nat /\ runs \in Nat
      /\ peak["runs_per_month"] \in Nat
  BY <1>4, SlotsCounted, QuotaNumbers
<1>6. RoomForAll'
  BY <1>1, <1>4, <1>5 DEF QuotasInv, RoomForAll
<1> QED BY <1>2, <1>3, <1>6 DEF QuotasInv

\* Every step of the service keeps the invariant.
LEMMA QuotasStep == QuotasInv /\ Q!Next => QuotasInv'
<1> SUFFICES ASSUME QuotasInv, Q!Next PROVE QuotasInv'
  OBVIOUS
<1>1. plan \in DOMAIN Defaults /\ override \in [Q!Dimensions -> Nat]
  BY DEF QuotasInv, QuotasTyped
<1>2. ASSUME NEW p \in DOMAIN Defaults, Q!ChangePlan(p) PROVE QuotasInv'
  BY <1>1, <1>2, SetOrgKeeps DEF Q!ChangePlan
<1>3. ASSUME NEW o \in Overrides, Q!SetQuota(o) PROVE QuotasInv'
  <2>1. [override EXCEPT ![o.dimension] = o.limit] \in [Q!Dimensions -> Nat]
    BY <1>1, ServicesAssumption
  <2> QED BY <1>1, <1>3, <2>1, SetOrgKeeps DEF Q!SetQuota
<1>4. ASSUME NEW r \in Slots, Q!Serve(r) PROVE QuotasInv'
  BY <1>4, ArriveKeeps, ReadLimitKeeps, CountKeeps, ReadRateKeeps, IncrementKeeps,
     InsertKeeps, EndKeeps DEF Q!Serve
<1> QED BY <1>2, <1>3, <1>4, MeanwhileKeeps DEF Q!Next

\* The invariant is about no other variable.
LEMMA QuotasRest == QuotasInv /\ UNCHANGED quotaVars => QuotasInv'
BY DEF quotaVars, QuotasInv, QuotasTyped, RequestsFair, PeakIsPeak, RoomForAll, RunsAhead,
       Q!LimitInForce

\* What it says of the properties.
LEMMA QuotasAreHeld == QuotasInv => Q!TypeOK /\ QuotasHold
<1> SUFFICES ASSUME QuotasInv PROVE Q!TypeOK /\ QuotasHold
  OBVIOUS
<1>1. Q!TypeOK
  BY AskedFacts DEF QuotasInv, QuotasTyped, Q!TypeOK, Asked, QuotaPoints, Fair
<1>2. RunsAhead \subseteq Slots
  BY DEF RunsAhead
<1>3. /\ Cardinality(RunsAhead) \in Nat /\ Cardinality(Slots) \in Nat /\ runs \in Nat
      /\ peak["runs_per_month"] \in Nat
  BY <1>2, SlotsCounted, QuotaNumbers
<1>4. runs < peak["runs_per_month"] + Cardinality(Slots)
  BY <1>3 DEF QuotasInv, RoomForAll
<1>5. Q!Cardinality(Slots) = Cardinality(Slots)
  BY DEF Q!Cardinality, Cardinality, Q!IsFiniteSet, IsFiniteSet
<1>6. QuotasHold
  BY <1>4, <1>5 DEF QuotasHold, Q!QuotasHold
<1> QED BY <1>1, <1>6

-----------------------------------------------------------------------------
(* Plans, payment events and the gate (Billing) *)

BillingRow == [status : {"absent", "none", "active", "past_due", "unpaid_blocked",
                         "canceled"},
               grace : {"none", "running", "over"}, customer : BOOLEAN]
DeliveryPoints == {"free", "record", "plan", "billing", "answered", "failed"}
DeliveryRow == [pc : DeliveryPoints, notice : Notifications \cup {B!NoNotice}]

BillingTyped ==
    /\ billPlan \in Plans /\ billing \in BillingRow
    /\ billing.status = "past_due" => billing.grace # "none"
    /\ events \subseteq B!Ids /\ applied \in [B!Ids -> Nat]
    /\ delivery \in [B!Deliveries -> DeliveryRow]
    /\ \A d \in B!Deliveries : delivery[d].pc # "free" => delivery[d].notice \in Notifications
    /\ gate \in [Slots -> {"idle", "read", "block", "admitted"}]
    /\ billFaults \in 0..MaxFaults

\* Delivery d has recorded event i and is to apply it.
Applying(d, i) == delivery[d].notice.id = i /\ delivery[d].pc \in {"plan", "billing"}

\* Who recorded an event applies it, alone and once.
EventsRecorded ==
    /\ \A i \in B!Ids :
          /\ applied[i] \in {0, 1}
          /\ i \notin events => applied[i] = 0
          /\ i \in events => applied[i] = 1 \/ B!InHand(i)
    /\ \A d \in B!Deliveries : delivery[d].pc = "answered" => delivery[d].notice.id \in events
    /\ \A d \in B!Deliveries, i \in B!Ids :
          Applying(d, i) =>
              /\ i \in events /\ applied[i] = 0
              /\ \A e \in B!Deliveries : Applying(e, i) => e = d

BillingInv == BillingTyped /\ EventsRecorded

\* Nothing has been paid to begin with.
LEMMA BillingStart == B!Init => BillingInv
<1> SUFFICES ASSUME B!Init PROVE BillingInv
  OBVIOUS
<1> USE ServicesAssumption DEF B!Init
<1>1. B!FreeDelivery \in DeliveryRow /\ B!FreeDelivery.pc = "free"
  BY DEF B!FreeDelivery, DeliveryRow, DeliveryPoints
<1>2. BillingTyped
  BY <1>1 DEF BillingTyped, BillingRow
<1>3. EventsRecorded
  BY <1>1 DEF EventsRecorded, Applying
<1> QED BY <1>2, <1>3 DEF BillingInv

\* What a delivery in hand notifies.
LEMMA DeliveryFacts ==
  ASSUME BillingInv, NEW d \in B!Deliveries, delivery[d].pc # "free"
  PROVE  /\ delivery[d] \in DeliveryRow /\ delivery[d].notice \in Notifications
         /\ delivery[d].notice.id \in B!Ids /\ delivery[d].notice.plan \in Plans
BY ServicesAssumption DEF BillingInv, BillingTyped, B!Ids

\* Delivery d goes on to pc, or comes in with a notice.
Moves(d, pc, n) ==
    /\ delivery' = [delivery EXCEPT ![d] = [pc |-> pc, notice |-> n]]
    /\ pc \in DeliveryPoints \ {"free"} /\ n \in Notifications

\* What such a step does to the deliveries.
LEMMA MoveFacts ==
  ASSUME BillingInv, NEW d \in B!Deliveries, NEW pc, NEW n, Moves(d, pc, n)
  PROVE  /\ delivery' \in [B!Deliveries -> DeliveryRow]
         /\ delivery'[d].pc = pc /\ delivery'[d].notice = n
         /\ \A e \in B!Deliveries \ {d} : delivery'[e] = delivery[e]
         /\ \A e \in B!Deliveries :
               delivery'[e].pc # "free" => delivery'[e].notice \in Notifications
BY DEF BillingInv, BillingTyped, Moves, DeliveryRow

\* Writing only a field of a delivery's state.
LEMMA OnlyPoint ==
  ASSUME BillingInv, NEW d \in B!Deliveries, delivery[d].pc # "free",
         NEW pc \in DeliveryPoints \ {"free"}, delivery' = [delivery EXCEPT ![d].pc = pc]
  PROVE  Moves(d, pc, delivery[d].notice)
<1>1. delivery[d] \in DeliveryRow /\ delivery[d].notice \in Notifications
  BY DeliveryFacts
<1>2. [delivery[d] EXCEPT !.pc = pc] = [pc |-> pc, notice |-> delivery[d].notice]
  BY <1>1 DEF DeliveryRow
<1>3. delivery' = [delivery EXCEPT ![d] = [delivery[d] EXCEPT !.pc = pc]]
  BY DEF BillingInv, BillingTyped
<1> QED BY <1>1, <1>2, <1>3 DEF Moves

\* Steps that touch no event: the owner's, the gate's, and time.
LEMMA AsideKeeps ==
  ASSUME BillingInv, UNCHANGED <<events, delivery, applied, billFaults>>,
         billPlan' \in Plans, billing' \in BillingRow,
         billing'.status = "past_due" => billing'.grace # "none",
         gate' \in [Slots -> {"idle", "read", "block", "admitted"}]
  PROVE  BillingInv'
BY DEF BillingInv, BillingTyped, EventsRecorded, Applying, B!InHand

\* The owner checks out, cancels or chooses a plan; a grace runs out.
LEMMA OwnerKeeps ==
  ASSUME BillingInv, B!OwnerActs \/ B!GraceElapses PROVE BillingInv'
<1> USE DEF B!OwnerActs, B!StartCheckout, B!Cancel, B!ChoosePlan, B!GraceElapses
<1>1. billing \in BillingRow /\ (billing.status = "past_due" => billing.grace # "none")
  BY DEF BillingInv, BillingTyped
<1>2. billing' \in BillingRow /\ (billing'.status = "past_due" => billing'.grace # "none")
  BY <1>1 DEF BillingRow
<1>3. billPlan' \in Plans
  BY DEF BillingInv, BillingTyped
<1>4. gate' \in [Slots -> {"idle", "read", "block", "admitted"}]
  BY DEF BillingInv, BillingTyped
<1>5. UNCHANGED <<events, delivery, applied, billFaults>>
  OBVIOUS
<1> QED BY <1>2, <1>3, <1>4, <1>5, AsideKeeps

\* assertPaymentAllowsUsage reads the row, and may block it.
LEMMA GateKeeps ==
  ASSUME BillingInv, NEW r \in Slots, B!Request(r) PROVE BillingInv'
<1> USE DEF B!Request, B!Arrive, B!Read, B!Block, B!Leave
<1>1. billing \in BillingRow /\ (billing.status = "past_due" => billing.grace # "none")
  BY DEF BillingInv, BillingTyped
<1>2. billing' \in BillingRow /\ (billing'.status = "past_due" => billing'.grace # "none")
  BY <1>1 DEF BillingRow
<1>3. gate' \in [Slots -> {"idle", "read", "block", "admitted"}]
  BY DEF BillingInv, BillingTyped
<1>4. UNCHANGED <<billPlan, events, delivery, applied, billFaults>>
  OBVIOUS
<1>5. billPlan' \in Plans
  BY <1>4 DEF BillingInv, BillingTyped
<1> QED BY <1>2, <1>3, <1>4, <1>5, AsideKeeps

\* A notice comes in.
LEMMA NotifyKeeps ==
  ASSUME BillingInv, NEW d \in B!Deliveries, NEW n \in Notifications, B!Notify(d, n)
  PROVE  BillingInv'
<1>1. /\ delivery[d].pc = "free" /\ Moves(d, "record", n)
      /\ UNCHANGED <<billPlan, billing, events, applied, gate, billFaults>>
  BY DEF B!Notify, Moves, DeliveryPoints
<1>2. /\ delivery' \in [B!Deliveries -> DeliveryRow] /\ delivery'[d].pc = "record"
      /\ \A e \in B!Deliveries \ {d} : delivery'[e] = delivery[e]
      /\ \A e \in B!Deliveries :
            delivery'[e].pc # "free" => delivery'[e].notice \in Notifications
  BY <1>1, MoveFacts
<1>3. BillingTyped'
  BY <1>1, <1>2 DEF BillingInv, BillingTyped
<1>4. \A i \in B!Ids : B!InHand(i) => B!InHand(i)'
  BY <1>1, <1>2 DEF B!InHand
<1>5. \A e \in B!Deliveries, i \in B!Ids : Applying(e, i)' <=> Applying(e, i)
  BY <1>1, <1>2 DEF Applying
<1>6. EventsRecorded'
  BY <1>1, <1>2, <1>4, <1>5 DEF BillingInv, EventsRecorded
<1> QED BY <1>3, <1>6 DEF BillingInv

\* The event is recorded: whoever does so first applies it.
LEMMA RecordKeeps ==
  ASSUME BillingInv, NEW d \in B!Deliveries, B!RecordEvent(d) PROVE BillingInv'
<1> DEFINE n == delivery[d].notice
           pc == IF n.id \in events THEN "answered" ELSE "plan"
<1>1. /\ delivery[d].pc = "record" /\ events' = events \cup {n.id}
      /\ delivery' = [delivery EXCEPT ![d].pc = pc]
      /\ UNCHANGED <<billPlan, billing, applied, gate, billFaults>>
  BY DEF B!RecordEvent
<1>2. n \in Notifications /\ n.id \in B!Ids
  BY <1>1, DeliveryFacts
<1>3. Moves(d, pc, n)
  <2>1. pc \in DeliveryPoints \ {"free"}
    BY DEF DeliveryPoints
  <2> HIDE DEF pc
  <2> QED BY <1>1, <2>1, OnlyPoint
<1>4. /\ delivery' \in [B!Deliveries -> DeliveryRow]
      /\ delivery'[d].pc = pc /\ delivery'[d].notice = n
      /\ \A e \in B!Deliveries \ {d} : delivery'[e] = delivery[e]
      /\ \A e \in B!Deliveries :
            delivery'[e].pc # "free" => delivery'[e].notice \in Notifications
  <2> HIDE DEF pc
  <2> QED BY <1>3, MoveFacts
<1>5. BillingTyped'
  BY <1>1, <1>2, <1>4 DEF BillingInv, BillingTyped
<1>6. \A i \in B!Ids : B!InHand(i) => B!InHand(i)'
  BY <1>1, <1>4 DEF B!InHand
<1>7. n.id \notin events => \E e \in B!Deliveries : delivery'[e].notice.id = n.id
                                                   /\ delivery'[e].pc = "plan"
  BY <1>4
<1>8. \A i \in B!Ids : i \in events' => applied'[i] = 1 \/ B!InHand(i)'
  BY <1>1, <1>6, <1>7 DEF BillingInv, EventsRecorded, B!InHand
<1>9. \A e \in B!Deliveries :
         delivery'[e].pc = "answered" => delivery'[e].notice.id \in events'
  BY <1>1, <1>4 DEF BillingInv, EventsRecorded
<1>10. ASSUME NEW e \in B!Deliveries, NEW i \in B!Ids, Applying(e, i)'
       PROVE  Applying(e, i) \/ (e = d /\ i = n.id /\ n.id \notin events)
  BY <1>1, <1>4, <1>10 DEF Applying
<1>11. \A e \in B!Deliveries, i \in B!Ids :
          Applying(e, i)' =>
              /\ i \in events' /\ applied'[i] = 0
              /\ \A f \in B!Deliveries : Applying(f, i)' => f = e
  BY <1>1, <1>10 DEF BillingInv, EventsRecorded
<1>12. EventsRecorded'
  BY <1>1, <1>8, <1>9, <1>11 DEF BillingInv, EventsRecorded
<1> QED BY <1>5, <1>12 DEF BillingInv

\* The plan is written; billing follows.
LEMMA WritePlanKeeps ==
  ASSUME BillingInv, NEW d \in B!Deliveries, B!WritePlan(d) PROVE BillingInv'
<1> DEFINE n == delivery[d].notice
<1>1. /\ delivery[d].pc = "plan" /\ delivery' = [delivery EXCEPT ![d].pc = "billing"]
      /\ UNCHANGED <<billing, events, applied, gate, billFaults>>
  BY DEF B!WritePlan
<1>2. n \in Notifications /\ n.plan \in Plans
  BY <1>1, DeliveryFacts
<1>3. billPlan' \in Plans
  BY <1>2, ServicesAssumption DEF B!WritePlan, BillingInv, BillingTyped
<1>4. Moves(d, "billing", n)
  BY <1>1, OnlyPoint DEF DeliveryPoints
<1>5. /\ delivery' \in [B!Deliveries -> DeliveryRow]
      /\ delivery'[d].pc = "billing" /\ delivery'[d].notice = n
      /\ \A e \in B!Deliveries \ {d} : delivery'[e] = delivery[e]
      /\ \A e \in B!Deliveries :
            delivery'[e].pc # "free" => delivery'[e].notice \in Notifications
  BY <1>4, MoveFacts
<1>6. BillingTyped'
  BY <1>1, <1>3, <1>5 DEF BillingInv, BillingTyped
<1>7. \A i \in B!Ids : B!InHand(i) => B!InHand(i)'
  BY <1>1, <1>5 DEF B!InHand
<1>8. \A e \in B!Deliveries, i \in B!Ids : Applying(e, i)' <=> Applying(e, i)
  BY <1>1, <1>5 DEF Applying
<1>9. EventsRecorded'
  BY <1>1, <1>5, <1>7, <1>8 DEF BillingInv, EventsRecorded
<1> QED BY <1>6, <1>9 DEF BillingInv

\* The billing row is written: the event is applied.
LEMMA WriteBillingKeeps ==
  ASSUME BillingInv, NEW d \in B!Deliveries, B!WriteBilling(d) PROVE BillingInv'
<1> DEFINE n == delivery[d].notice
<1>1. /\ delivery[d].pc = "billing" /\ delivery' = [delivery EXCEPT ![d].pc = "answered"]
      /\ billing' = B!BillingAfter(n) /\ applied' = [applied EXCEPT ![n.id] = @ + 1]
      /\ UNCHANGED <<billPlan, events, gate, billFaults>>
  BY DEF B!WriteBilling
<1>2. n \in Notifications /\ n.id \in B!Ids
  BY <1>1, DeliveryFacts
<1>3. billing' \in BillingRow /\ (billing'.status = "past_due" => billing'.grace # "none")
  <2>1. billing \in BillingRow /\ (billing.status = "past_due" => billing.grace # "none")
    BY DEF BillingInv, BillingTyped
  <2> QED BY <1>1, <2>1 DEF B!BillingAfter, BillingRow
<1>4. Applying(d, n.id)
  BY <1>1 DEF Applying
<1>5. n.id \in events /\ applied[n.id] = 0
  BY <1>2, <1>4 DEF BillingInv, EventsRecorded
<1>6. /\ applied' \in [B!Ids -> Nat] /\ applied'[n.id] = 1
      /\ \A i \in B!Ids \ {n.id} : applied'[i] = applied[i]
  BY <1>1, <1>2, <1>5 DEF BillingInv, BillingTyped
<1>7. Moves(d, "answered", n)
  BY <1>1, OnlyPoint DEF DeliveryPoints
<1>8. /\ delivery' \in [B!Deliveries -> DeliveryRow]
      /\ delivery'[d].pc = "answered" /\ delivery'[d].notice = n
      /\ \A e \in B!Deliveries \ {d} : delivery'[e] = delivery[e]
      /\ \A e \in B!Deliveries :
            delivery'[e].pc # "free" => delivery'[e].notice \in Notifications
  BY <1>7, MoveFacts
<1>9. BillingTyped'
  BY <1>1, <1>3, <1>6, <1>8 DEF BillingInv, BillingTyped
<1>10. \A i \in B!Ids \ {n.id} : B!InHand(i) => B!InHand(i)'
  BY <1>1, <1>8 DEF B!InHand
<1>11. \A i \in B!Ids :
          /\ applied'[i] \in {0, 1}
          /\ i \notin events' => applied'[i] = 0
          /\ i \in events' => applied'[i] = 1 \/ B!InHand(i)'
  BY <1>1, <1>5, <1>6, <1>10 DEF BillingInv, EventsRecorded
<1>12. \A e \in B!Deliveries :
         delivery'[e].pc = "answered" => delivery'[e].notice.id \in events'
  BY <1>1, <1>5, <1>8 DEF BillingInv, EventsRecorded
<1>13. ASSUME NEW e \in B!Deliveries, NEW i \in B!Ids, Applying(e, i)'
       PROVE  Applying(e, i) /\ e # d
  BY <1>8, <1>13 DEF Applying
<1>14. ASSUME NEW e \in B!Deliveries, NEW i \in B!Ids, Applying(e, i)'
       PROVE  /\ i \in events' /\ applied'[i] = 0
              /\ \A f \in B!Deliveries : Applying(f, i)' => f = e
  <2>1. Applying(e, i) /\ e # d
    BY <1>13, <1>14
  <2>2. i # n.id
    BY <1>2, <1>4, <2>1 DEF BillingInv, EventsRecorded
  <2>3. i \in events' /\ applied'[i] = 0
    BY <1>1, <1>6, <2>1, <2>2 DEF BillingInv, EventsRecorded
  <2>4. \A f \in B!Deliveries : Applying(f, i)' => f = e
    BY <1>13, <2>1 DEF BillingInv, EventsRecorded
  <2> QED BY <2>3, <2>4
<1>15. EventsRecorded'
  BY <1>11, <1>12, <1>14 DEF EventsRecorded
<1> QED BY <1>9, <1>15 DEF BillingInv

\* A delivery fails: its event, if recorded, stays in its hand.
LEMMA DeliveryFailsKeeps ==
  ASSUME BillingInv, NEW d \in B!Deliveries, B!DeliveryFails(d) PROVE BillingInv'
<1> DEFINE n == delivery[d].notice
<1>1. /\ delivery[d].pc \in {"record", "plan", "billing"}
      /\ delivery' = [delivery EXCEPT ![d].pc = "failed"]
      /\ billFaults < MaxFaults /\ billFaults' = billFaults + 1
      /\ UNCHANGED <<billPlan, billing, applied, gate>>
  BY DEF B!DeliveryFails, B!OneFault
<1>2. n \in Notifications /\ n.id \in B!Ids
  BY <1>1, DeliveryFacts
<1>3. events \subseteq events' /\ events' \subseteq events \cup {n.id}
  BY DEF B!DeliveryFails
<1>4. Moves(d, "failed", n)
  BY <1>1, OnlyPoint DEF DeliveryPoints
<1>5. /\ delivery' \in [B!Deliveries -> DeliveryRow]
      /\ delivery'[d].pc = "failed" /\ delivery'[d].notice = n
      /\ \A e \in B!Deliveries \ {d} : delivery'[e] = delivery[e]
      /\ \A e \in B!Deliveries :
            delivery'[e].pc # "free" => delivery'[e].notice \in Notifications
  BY <1>4, MoveFacts
<1>6. BillingTyped'
  <2>1. billFaults' \in 0..MaxFaults
    BY <1>1, ServicesAssumption DEF BillingInv, BillingTyped
  <2> QED BY <1>1, <1>2, <1>3, <1>5, <2>1 DEF BillingInv, BillingTyped
<1>7. \A i \in B!Ids : B!InHand(i) \/ i = n.id => B!InHand(i)'
  BY <1>1, <1>5 DEF B!InHand
<1>8. \A i \in B!Ids :
          /\ applied'[i] \in {0, 1}
          /\ i \notin events' => applied'[i] = 0
          /\ i \in events' => applied'[i] = 1 \/ B!InHand(i)'
  BY <1>1, <1>3, <1>7 DEF BillingInv, EventsRecorded
<1>9. \A e \in B!Deliveries :
         delivery'[e].pc = "answered" => delivery'[e].notice.id \in events'
  BY <1>3, <1>5 DEF BillingInv, EventsRecorded
<1>10. \A e \in B!Deliveries, i \in B!Ids : Applying(e, i)' => Applying(e, i)
  BY <1>1, <1>5 DEF Applying
<1>11. EventsRecorded'
  BY <1>1, <1>3, <1>8, <1>9, <1>10 DEF BillingInv, EventsRecorded
<1> QED BY <1>6, <1>11 DEF BillingInv

\* Every step of the service keeps the invariant.
LEMMA BillingStep == BillingInv /\ B!Next => BillingInv'
<1> SUFFICES ASSUME BillingInv, B!Next PROVE BillingInv'
  OBVIOUS
<1>1. ASSUME NEW d \in B!Deliveries, B!Webhook(d) PROVE BillingInv'
  BY <1>1, NotifyKeeps, RecordKeeps, WritePlanKeeps, WriteBillingKeeps, DeliveryFailsKeeps
     DEF B!Webhook
<1> QED BY <1>1, OwnerKeeps, GateKeeps DEF B!Next

\* The invariant is about no other variable.
LEMMA BillingRest == BillingInv /\ UNCHANGED billVars => BillingInv'
BY DEF billVars, BillingInv, BillingTyped, EventsRecorded, Applying, B!InHand

\* What it says of the properties.
LEMMA BillingHolds == BillingInv => B!TypeOK /\ EventsApplyOnce
<1> SUFFICES ASSUME BillingInv PROVE B!TypeOK /\ EventsApplyOnce
  OBVIOUS
<1>1. B!TypeOK
  BY DEF BillingInv, BillingTyped, BillingRow, DeliveryRow, DeliveryPoints, B!TypeOK
<1>2. EventsApplyOnce
  BY DEF BillingInv, EventsRecorded, EventsApplyOnce, B!EventsApplyOnce
<1> QED BY <1>1, <1>2

-----------------------------------------------------------------------------
(* The services together *)

servicesVars == <<focus, billVars, quotaVars, grantVars, memoryVars, vaultVars, postVars,
                  accountVars>>

OrganisationInv == BillingInv /\ QuotasInv /\ AccountsInv

\* A step of any service, or none, keeps what is said of these three.
LEMMA OrganisationStep ==
  OrganisationInv /\ [Next]_servicesVars => OrganisationInv'
<1> SUFFICES ASSUME OrganisationInv, [Next]_servicesVars PROVE OrganisationInv'
  OBVIOUS
<1>1. BillingInv'
  <2>1. CASE B!Next
    BY <2>1, BillingStep DEF OrganisationInv
  <2>2. CASE UNCHANGED billVars
    BY <2>2, BillingRest DEF OrganisationInv
  <2> QED BY <2>1, <2>2 DEF Next, servicesVars, billVars
<1>2. QuotasInv'
  <2>1. CASE Q!Next
    BY <2>1, QuotasStep DEF OrganisationInv
  <2>2. CASE UNCHANGED quotaVars
    BY <2>2, QuotasRest DEF OrganisationInv
  <2> QED BY <2>1, <2>2 DEF Next, servicesVars, quotaVars
<1>3. AccountsInv'
  <2>1. CASE T!Next
    BY <2>1, AccountsStep DEF OrganisationInv
  <2>2. CASE UNCHANGED accountVars
    BY <2>2, AccountsRest DEF OrganisationInv
  <2> QED BY <2>1, <2>2 DEF Next, servicesVars, accountVars
<1> QED BY <1>1, <1>2, <1>3 DEF OrganisationInv

\* The invariant of billing, quotas and accounts holds throughout.
THEOREM OrganisationHolds == Spec => []OrganisationInv
<1>1. Init => OrganisationInv
  BY BillingStart, QuotasStart, AccountsStart DEF Init, OrganisationInv
<1>2. OrganisationInv /\ [Next]_servicesVars => OrganisationInv'
  BY OrganisationStep
<1> QED BY <1>1, <1>2, PTL DEF Spec, servicesVars

\* However often and concurrently the payment provider repeats an event, it is
\* applied at most once, and not lost once it was told ok unless a delivery
\* failed: for any notifications, plans and numbers of them in flight
\* (applyWebhookEvent, payment_events).
THEOREM PaymentsApplyOnce == Spec => []EventsApplyOnce
<1>1. OrganisationInv => EventsApplyOnce
  BY BillingHolds DEF OrganisationInv
<1> QED BY <1>1, OrganisationHolds, PTL

\* A month never holds as many runs as the highest limit ever in force and
\* the requests in hand together, for any limits and any number of requests
\* (assertCanCreateRun, then the insert of the run).
THEOREM RunQuotasHold == Spec => []QuotasHold
<1>1. OrganisationInv => QuotasHold
  BY QuotasAreHeld DEF OrganisationInv
<1> QED BY <1>1, OrganisationHolds, PTL

\* An account that is purged stays without identity and membership, whatever
\* its owner's requests had read before (hardPurgeUser, anonymizeUser,
\* ensureVerseUser): unless its purge stopped half-way or such a request wrote
\* it, for any number of accounts, requests and purges.
THEOREM PurgesAreFinal == Spec => []PurgedStayGone
<1>1. OrganisationInv => PurgedStayGone
  BY AccountsHold DEF OrganisationInv
<1> QED BY <1>1, OrganisationHolds, PTL

\* An invitation admits one account once, and nobody once it is revoked, for
\* any number of invitations and of requests that accept them (accept).
THEOREM InvitationsOnce == Spec => []InvitationsAdmitOnce
<1>1. OrganisationInv => InvitationsAdmitOnce
  BY AccountsHold DEF OrganisationInv
<1> QED BY <1>1, OrganisationHolds, PTL
============================================================================
