-------------------------- MODULE ApprovedEffect --------------------------
(***************************************************************************)
(* What human approval promises: an approval request is decided once,      *)
(* a granted request is consumed once, and only a consumed request has an  *)
(* effect, once.  ApprovalFlow implements this specification.              *)
(***************************************************************************)
EXTENDS Naturals

CONSTANT Approvals

VARIABLES
    decision,   \* approval -> "open", "granted", "refused" or "consumed"
    effects     \* approval -> how often its side effect happened

TypeOK ==
    /\ decision \in [Approvals -> {"open", "granted", "refused", "consumed"}]
    /\ effects \in [Approvals -> {0, 1}]

Init ==
    /\ decision = [a \in Approvals |-> "open"]
    /\ effects = [a \in Approvals |-> 0]

Move(a, from, to) ==
    /\ decision[a] = from
    /\ decision' = [decision EXCEPT ![a] = to]
    /\ UNCHANGED effects

Grant(a) == Move(a, "open", "granted")
Consume(a) == Move(a, "granted", "consumed")

\* Rejection of one request, or the expiry of all that are overdue.
Refuse(S) ==
    /\ \A a \in S : decision[a] = "open"
    /\ decision' = [a \in Approvals |-> IF a \in S THEN "refused" ELSE decision[a]]
    /\ UNCHANGED effects

TakeEffect(a) ==
    /\ decision[a] = "consumed"
    /\ effects[a] = 0
    /\ effects' = [effects EXCEPT ![a] = 1]
    /\ UNCHANGED decision

Next ==
    \/ \E a \in Approvals : Grant(a) \/ Consume(a) \/ TakeEffect(a)
    \/ \E S \in SUBSET Approvals : Refuse(S)

Spec == Init /\ [][Next]_<<decision, effects>>
==========================================================================
