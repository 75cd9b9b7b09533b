----------------------------- MODULE Tenancy -----------------------------
(***************************************************************************)
(* One organisation, its members and the accounts of people: requests that *)
(* find or create the account of whoever is signed in, invitations, soft   *)
(* deletion with a grace, restoring, and the purge of what is due.         *)
(*                                                                         *)
(* Every request reads and then writes, one query after the other; only    *)
(* the acceptance and the creation of an invitation are transactions.      *)
(*                                                                         *)
(* Abstracted: profiles, roles but the owner's, audit rows, exports; an    *)
(* identity of the sign-in provider and its email are one person.          *)
(***************************************************************************)
EXTENDS Naturals, FiniteSets

CONSTANTS
    Persons, Owner,    \* Owner: the person who founded the organisation
    Accounts, Founder, \* ids of users rows; Founder: the owner's
    Invitations,       \* tokens
    Operations         \* slots: requests and purges in hand

None == "none"

VARIABLES
    user,      \* user[u]: the users row
    org,       \* the organizations row: [exists, deleted, grace]
    role,      \* role[u]: the memberships row
    seat,      \* accounts with a workspace_members row
    invite,    \* invite[i]: the invitations row
    op,        \* op[o]: what is in hand
    admitted,  \* history: admitted[i] = acceptances that committed
    torn       \* history: accounts purged half-way, or written by requests
               \* that had read them before they were anonymised

vars == <<user, org, role, seat, invite, op, admitted, torn>>

NoUser == [exists |-> FALSE, email |-> None, clerk |-> None, deleted |-> FALSE,
           grace |-> "none", anonymized |-> FALSE]
NewUser(p) == [NoUser EXCEPT !.exists = TRUE, !.email = p, !.clerk = p]
NoInvite == [status |-> "absent", email |-> None, late |-> FALSE]
Idle == [pc |-> "idle", call |-> None, p |-> None, u |-> None, i |-> None,
         early |-> FALSE, due |-> {}]

Init ==
    /\ user = [u \in Accounts |-> IF u = Founder THEN NewUser(Owner) ELSE NoUser]
    /\ org = [exists |-> TRUE, deleted |-> FALSE, grace |-> "none"]
    /\ role = [u \in Accounts |-> IF u = Founder THEN "OWNER" ELSE None]
    /\ seat = {Founder}
    /\ invite = [i \in Invitations |-> NoInvite]
    /\ op = [o \in Operations |-> Idle]
    /\ admitted = [i \in Invitations |-> 0] /\ torn = {}

Set(o, x) == op' = [op EXCEPT ![o] = x]
Go(o, pc) == Set(o, [op[o] EXCEPT !.pc = pc])
End(o) == Set(o, Idle)
\* A write to account u by o, which may have read it long ago.
Tear(o, u) == torn' = IF user[u].anonymized /\ op[o].early THEN torn \cup {u} ELSE torn
Having(field, p) == {u \in Accounts : user[u].exists /\ user[u][field] = p}

-----------------------------------------------------------------------------
(* AuthGuard: ensureVerseUser, and deleted accounts may only be restored *)

Restores == {"restoreMe", "restoreOrg"}
Calls == Restores \cup {"deleteMe", "deleteOrg", "accept"}

\* Account u, as x, is that of request y.
Acting(y, u, x) ==
    IF x.deleted /\ y.call \notin Restores THEN Idle
    ELSE [y EXCEPT !.pc = y.call, !.u = u, !.early = ~x.anonymized]
As(o, u, x) == Set(o, Acting(op[o], u, x))

\* A request of p looks for p's account by its identity; if the profile has
\* changed it is written next.
Request(o, p, call, i) ==
    LET found == Having("clerk", p)
        y == [Idle EXCEPT !.p = p, !.call = call, !.i = i]
    IN
    /\ op[o].pc = "idle" /\ ((call = "accept") <=> (i # None))
    /\ IF found = {} THEN Set(o, [y EXCEPT !.pc = "email"])
       ELSE \E u \in found :
               \/ Set(o, Acting(y, u, user[u]))
               \/ Set(o, [y EXCEPT !.pc = "profile", !.u = u, !.early = ~user[u].anonymized])
    /\ UNCHANGED <<user, org, role, seat, invite, admitted, torn>>

FindByEmail(o) ==
    LET found == Having("email", op[o].p) IN
    /\ op[o].pc = "email"
    /\ IF found = {} THEN Go(o, "create")
       ELSE \E u \in found : Set(o, [op[o] EXCEPT !.pc = "link", !.u = u,
                                                  !.early = ~user[u].anonymized])
    /\ UNCHANGED <<user, org, role, seat, invite, admitted, torn>>

\* Emails and identities are unique: a write that breaks this fails.  Linking
\* then looks for the account with the identity, creating for either.
Lost(o) ==
    LET clerk == Having("clerk", op[o].p)  email == Having("email", op[o].p)
        won == IF clerk = {} /\ op[o].pc = "create" THEN email ELSE clerk
    IN IF won = {} THEN End(o) ELSE \E u \in won : As(o, u, user[u])

WriteIdentity(o) ==
    LET u == op[o].u  p == op[o].p
        x == [user[u] EXCEPT !.email = p, !.clerk = IF op[o].pc = "link" THEN p ELSE @]
    IN
    /\ op[o].pc \in {"profile", "link"}
    /\ IF (Having("clerk", p) \cup Having("email", p)) \ {u} # {}
       THEN UNCHANGED <<user, torn>> /\ IF op[o].pc = "link" THEN Lost(o) ELSE End(o)
       ELSE user' = [user EXCEPT ![u] = x] /\ Tear(o, u) /\ As(o, u, x)
    /\ UNCHANGED <<org, role, seat, invite, admitted>>

Create(o) ==
    LET p == op[o].p IN
    /\ op[o].pc = "create"
    /\ IF Having("clerk", p) \cup Having("email", p) # {} THEN UNCHANGED user /\ Lost(o)
       ELSE \E u \in Accounts : ~user[u].exists /\ user' = [user EXCEPT ![u] = NewUser(p)]
                                /\ As(o, u, NewUser(p))
    /\ UNCHANGED <<org, role, seat, invite, admitted, torn>>

-----------------------------------------------------------------------------
(* Soft deletion and restoring, of accounts and of the organisation *)

Deleted(x) == [x EXCEPT !.deleted = TRUE, !.grace = "running"]
Restored(x) == [x EXCEPT !.deleted = FALSE, !.grace = "none"]

\* Mutant (PurgedStayGone): restoring does not ask whether it is too late.
RestoreAnyUser(o) ==
    LET x == user[op[o].u] IN
    /\ op[o].pc \in {"deleteMe", "restoreMe"}
    /\ Set(o, IF x.deleted = (op[o].call = "restoreMe")
              THEN [op[o] EXCEPT !.pc = "user", !.early = ~x.anonymized] ELSE Idle)
    /\ UNCHANGED <<user, org, role, seat, invite, admitted, torn>>

\* softDeleteMe and restoreMe: look again, and refuse or write.
CheckUser(o) ==
    LET x == user[op[o].u] IN
    /\ op[o].pc \in {"deleteMe", "restoreMe"}
    /\ Set(o, IF x.deleted = (op[o].call = "restoreMe") /\ ~x.anonymized
              THEN [op[o] EXCEPT !.pc = "user", !.early = ~x.anonymized] ELSE Idle)
    /\ UNCHANGED <<user, org, role, seat, invite, admitted, torn>>

WriteUser(o) ==
    LET u == op[o].u IN
    /\ op[o].pc = "user"
    /\ user' = [user EXCEPT ![u] = IF op[o].call = "deleteMe" THEN Deleted(@) ELSE Restored(@)]
    /\ Tear(o, u)
    /\ End(o)
    /\ UNCHANGED <<org, role, seat, invite, admitted>>

\* Owners only, of a deleted organisation too.
CheckOrg(o) ==
    /\ op[o].pc \in {"deleteOrg", "restoreOrg"}
    /\ IF org.exists /\ role[op[o].u] = "OWNER" /\ org.deleted = (op[o].call = "restoreOrg")
       THEN Go(o, "org") ELSE End(o)
    /\ UNCHANGED <<user, org, role, seat, invite, admitted, torn>>

\* The update fails if the row has been purged.
WriteOrg(o) ==
    /\ op[o].pc = "org"
    /\ org' = IF ~org.exists THEN org
              ELSE IF op[o].call = "deleteOrg" THEN Deleted(org) ELSE Restored(org)
    /\ End(o)
    /\ UNCHANGED <<user, role, seat, invite, admitted, torn>>

GraceElapses ==
    /\ \/ org.grace = "running" /\ org' = [org EXCEPT !.grace = "over"] /\ UNCHANGED user
       \/ \E u \in Accounts : user[u].grace = "running"
                              /\ user' = [user EXCEPT ![u].grace = "over"] /\ UNCHANGED org
    /\ UNCHANGED <<role, seat, invite, op, admitted, torn>>

-----------------------------------------------------------------------------
(* Invitations *)

\* create: who is no member yet is invited; what was pending is revoked.
Invite(i, p) ==
    /\ org.exists /\ ~org.deleted /\ invite[i].status = "absent"
    /\ \A u \in Having("email", p) : role[u] = None
    /\ invite' = [j \in Invitations |->
          IF j = i THEN [status |-> "PENDING", email |-> p, late |-> FALSE]
          ELSE IF invite[j].status = "PENDING" /\ invite[j].email = p
               THEN [invite[j] EXCEPT !.status = "REVOKED"] ELSE invite[j]]
    /\ UNCHANGED <<user, org, role, seat, op, admitted, torn>>

InviteExpires(i) ==
    /\ invite[i].status = "PENDING" /\ ~invite[i].late
    /\ invite' = [invite EXCEPT ![i].late = TRUE]
    /\ UNCHANGED <<user, org, role, seat, op, admitted, torn>>

ReadInvite(o) ==
    LET x == invite[op[o].i] IN
    /\ op[o].pc = "accept"
    /\ IF x.status # "PENDING" \/ (~x.late /\ x.email # op[o].p) THEN End(o)
       ELSE Go(o, IF x.late THEN "expire" ELSE "commit")
    /\ UNCHANGED <<user, org, role, seat, invite, admitted, torn>>

\* Whatever the row says by now, it is EXPIRED.
MarkExpired(o) ==
    LET i == op[o].i IN
    /\ op[o].pc = "expire"
    /\ invite' = IF invite[i].status = "absent" THEN invite
                 ELSE [invite EXCEPT ![i].status = "EXPIRED"]
    /\ End(o)
    /\ UNCHANGED <<user, org, role, seat, admitted, torn>>

\* Mutant (InvitationsAdmitOnce): what was read is relied on.
CommitAnyway(o) ==
    LET i == op[o].i  u == op[o].u IN
    /\ op[o].pc = "commit"
    /\ invite' = [invite EXCEPT ![i].status = "ACCEPTED"]
    /\ role' = [role EXCEPT ![u] = IF @ = None THEN "VIEWER" ELSE @]
    /\ seat' = seat \cup {u}
    /\ admitted' = [admitted EXCEPT ![i] = @ + 1]
    /\ Tear(o, u)
    /\ End(o)
    /\ UNCHANGED <<user, org>>

\* The transaction: only PENDING becomes ACCEPTED, and then the memberships.
Commit(o) ==
    LET i == op[o].i  u == op[o].u IN
    /\ op[o].pc = "commit"
    /\ IF invite[i].status # "PENDING" THEN UNCHANGED <<invite, role, seat, admitted, torn>>
       ELSE /\ invite' = [invite EXCEPT ![i].status = "ACCEPTED"]
            /\ role' = [role EXCEPT ![u] = IF @ = None THEN "VIEWER" ELSE @]
            /\ seat' = seat \cup {u}
            /\ admitted' = [admitted EXCEPT ![i] = @ + 1]
            /\ Tear(o, u)
    /\ End(o)
    /\ UNCHANGED <<user, org>>

-----------------------------------------------------------------------------
(* purgeDueSoftDeletes *)

StartPurge(o) ==
    /\ op[o].pc = "idle"
    /\ Set(o, [Idle EXCEPT !.call = "purge",
                           !.pc = IF org.exists /\ org.deleted /\ org.grace = "over"
                                  THEN "purgeOrg" ELSE "dueUsers"])
    /\ UNCHANGED <<user, org, role, seat, invite, admitted, torn>>

\* The organisation that was due; with it go members and invitations.
PurgeOrg(o) ==
    /\ op[o].pc = "purgeOrg"
    /\ IF ~org.exists THEN End(o) /\ UNCHANGED <<org, role, seat, invite>>
       ELSE /\ org' = [exists |-> FALSE, deleted |-> FALSE, grace |-> "none"]
            /\ role' = [u \in Accounts |-> None] /\ seat' = {}
            /\ invite' = [i \in Invitations |-> NoInvite]
            /\ Go(o, "dueUsers")
    /\ UNCHANGED <<user, admitted, torn>>

\* On to the next account of those that are due.
Continue(o, due) ==
    IF due = {} THEN End(o)
    ELSE \E u \in due : Set(o, [op[o] EXCEPT !.pc = "anonRead", !.u = u, !.due = due \ {u}])

DueUsers(o) ==
    /\ op[o].pc = "dueUsers"
    /\ Continue(o, {u \in Accounts : user[u].deleted /\ user[u].grace = "over"
                                     /\ ~user[u].anonymized})
    /\ UNCHANGED <<user, org, role, seat, invite, admitted, torn>>

ReadDue(o) ==
    /\ op[o].pc = "anonRead"
    /\ Go(o, IF user[op[o].u].anonymized THEN "members" ELSE "anonymize")
    /\ UNCHANGED <<user, org, role, seat, invite, admitted, torn>>

Anonymize(o) ==
    /\ op[o].pc = "anonymize"
    /\ user' = [user EXCEPT ![op[o].u] = [@ EXCEPT !.email = None, !.clerk = None,
                                            !.anonymized = TRUE, !.deleted = TRUE]]
    /\ Go(o, "members")
    /\ UNCHANGED <<org, role, seat, invite, admitted, torn>>

DeleteMemberships(o) ==
    /\ op[o].pc = "members"
    /\ role' = [role EXCEPT ![op[o].u] = None]
    /\ Go(o, "seats")
    /\ UNCHANGED <<user, org, seat, invite, admitted, torn>>

DeleteSeats(o) ==
    /\ op[o].pc = "seats"
    /\ seat' = seat \ {op[o].u}
    /\ Continue(o, op[o].due)
    /\ UNCHANGED <<user, org, role, invite, admitted, torn>>

\* A query of a purge fails or its process dies.  (A request that stops has
\* done nothing, or nothing but write a profile.)
Stop(o) ==
    /\ op[o].call = "purge"
    /\ torn' = IF op[o].pc \in {"members", "seats"} THEN torn \cup {op[o].u} ELSE torn
    /\ End(o)
    /\ UNCHANGED <<user, org, role, seat, invite, admitted>>

Step(o) ==
    \/ \E p \in Persons, call \in Calls, i \in Invitations \cup {None} : Request(o, p, call, i)
    \/ FindByEmail(o) \/ WriteIdentity(o) \/ Create(o)
    \/ CheckUser(o) \/ WriteUser(o) \/ CheckOrg(o) \/ WriteOrg(o)
    \/ ReadInvite(o) \/ MarkExpired(o) \/ Commit(o)
    \/ StartPurge(o) \/ PurgeOrg(o) \/ DueUsers(o) \/ ReadDue(o) \/ Anonymize(o)
    \/ DeleteMemberships(o) \/ DeleteSeats(o) \/ Stop(o)

Next ==
    \/ GraceElapses
    \/ \E i \in Invitations : InviteExpires(i) \/ \E p \in Persons : Invite(i, p)
    \/ \E o \in Operations : Step(o)

Spec == Init /\ [][Next]_vars

-----------------------------------------------------------------------------
(* Properties *)

TypeOK ==
    /\ \A u \in Accounts :
          user[u] \in [exists : BOOLEAN, email : Persons \cup {None},
                       clerk : Persons \cup {None}, deleted : BOOLEAN,
                       grace : {"none", "running", "over"}, anonymized : BOOLEAN]
    /\ org \in [exists : BOOLEAN, deleted : BOOLEAN, grace : {"none", "running", "over"}]
    /\ role \in [Accounts -> {None, "OWNER", "VIEWER"}] /\ seat \subseteq Accounts
    /\ \A i \in Invitations : invite[i].status \in
          {"absent", "PENDING", "REVOKED", "ACCEPTED", "EXPIRED"}
    /\ \A o \in Operations : op[o].u \in Accounts \cup {None} /\ op[o].due \subseteq Accounts
    /\ admitted \in [Invitations -> Nat] /\ torn \subseteq Accounts

\* An account that was purged stays without identity, deleted and out of every
\* organisation, except where its purge stopped half-way, or where a request
\* that had read it before writes it afterwards (hardPurgeUser, anonymizeUser).
Purging(u) == \E o \in Operations : op[o].pc \in {"members", "seats"} /\ op[o].u = u
PurgedStayGone ==
    \A u \in Accounts \ torn :
        user[u].anonymized =>
            /\ user[u].deleted /\ user[u].email = None /\ user[u].clerk = None
            /\ (role[u] = None /\ u \notin seat) \/ Purging(u)

\* An invitation admits one account, once, and none when it was revoked first
\* (accept: only a PENDING row becomes ACCEPTED).
InvitationsAdmitOnce ==
    \A i \in Invitations :
        admitted[i] <= 1 /\ (invite[i].status = "REVOKED" => admitted[i] = 0)
======================================================================
