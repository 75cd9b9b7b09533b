----------------------------- MODULE Billing -----------------------------
(***************************************************************************)
(* The billing of one organisation: its plan, its billing row, the         *)
(* webhooks of the payment provider, and the gate that requests for runs   *)
(* and agents pass first (Quotas models the rest of their way).            *)
(*                                                                         *)
(* One action per database round trip.  Neither the effects of a webhook   *)
(* nor the gate's read and write are one transaction.                      *)
(*                                                                         *)
(* Abstracted: amounts, customer details, periods, audit rows.             *)
(***************************************************************************)
EXTENDS Naturals

CONSTANTS
    Plans,          \* plan ids, "free" among them
    Notifications,  \* what the provider may notify: [id, type, plan]
    MaxDeliveries,  \* bound: notifications received, repeated ones included
    Requests,       \* slots: requests at the gate
    MaxFaults       \* bound: calls that fail

Deliveries == 1..MaxDeliveries
Paying == {"checkout.completed", "payment.succeeded"}

VARIABLES
    plan,      \* planId of the organizations row
    billing,   \* the organization_billing row: [status, grace, customer]
    events,    \* payment_events: ids recorded
    delivery,  \* delivery[d]: a webhook in hand
    applied,   \* history: applied[id] = billing writes made for an event
    gate,      \* gate[r]: a request at the gate
    faults

vars == <<plan, billing, events, delivery, applied, gate, faults>>

Ids == {n.id : n \in Notifications}
NoNotice == [id |-> "none", type |-> "none", plan |-> "free"]
FreeDelivery == [pc |-> "free", notice |-> NoNotice]

OneFault == faults < MaxFaults /\ faults' = faults + 1

Init ==
    /\ plan = "free"
    /\ billing = [status |-> "absent", grace |-> "none", customer |-> FALSE]
    /\ events = {} /\ applied = [i \in Ids |-> 0]
    /\ delivery = [d \in Deliveries |-> FreeDelivery]
    /\ gate = [r \in Requests |-> "idle"]
    /\ faults = 0

-----------------------------------------------------------------------------
(* The owner, and time *)

\* startCheckout: the row exists and has a customer afterwards.
StartCheckout ==
    /\ billing' = [billing EXCEPT !.status = IF @ = "absent" THEN "none" ELSE @,
                                  !.customer = TRUE]
    /\ UNCHANGED <<plan, events, delivery, applied, gate, faults>>

\* cancel, at the end of the period: the provider answers status active.
Cancel ==
    /\ billing.customer
    /\ billing' = [billing EXCEPT !.status = "active"]
    /\ UNCHANGED <<plan, events, delivery, applied, gate, faults>>

\* An owner may also choose a plan without paying (PATCH quotas).
ChoosePlan(p) ==
    /\ plan' = p
    /\ UNCHANGED <<billing, events, delivery, applied, gate, faults>>

GraceElapses ==
    /\ billing.grace = "running"
    /\ billing' = [billing EXCEPT !.grace = "over"]
    /\ UNCHANGED <<plan, events, delivery, applied, gate, faults>>

-----------------------------------------------------------------------------
(* Webhooks *)

\* Notices name the organisation and its customer; they are numbered as they come.
Notify(d, n) ==
    /\ delivery[d].pc = "free" /\ \A e \in 1..(d - 1) : delivery[e].pc # "free"
    /\ delivery' = [delivery EXCEPT ![d] = [pc |-> "record", notice |-> n]]
    /\ UNCHANGED <<plan, billing, events, applied, gate, faults>>

\* Mutant (EventsApplyOnce): an event is recorded only where it came with a plan.
RecordPurchase(d) ==
    /\ delivery[d].pc = "record"
    /\ events' = IF delivery[d].notice.plan = "free" THEN events
                 ELSE events \cup {delivery[d].notice.id}
    /\ delivery' = [delivery EXCEPT ![d].pc =
                       IF delivery[d].notice.id \in events THEN "answered" ELSE "plan"]
    /\ UNCHANGED <<plan, billing, applied, gate, faults>>

\* The insert that makes webhooks idempotent: a known id is a duplicate.
RecordEvent(d) ==
    /\ delivery[d].pc = "record"
    /\ events' = events \cup {delivery[d].notice.id}
    /\ delivery' = [delivery EXCEPT ![d].pc =
                       IF delivery[d].notice.id \in events THEN "answered" ELSE "plan"]
    /\ UNCHANGED <<plan, billing, applied, gate, faults>>

WritePlan(d) ==
    LET n == delivery[d].notice IN
    /\ delivery[d].pc = "plan"
    /\ plan' = CASE n.type \in Paying /\ n.plan # "free" -> n.plan
                 [] n.type = "subscription.canceled"     -> "free"
                 [] OTHER                                -> plan
    /\ delivery' = [delivery EXCEPT ![d].pc = "billing"]
    /\ UNCHANGED <<billing, events, applied, gate, faults>>

\* subscription.updated changes nothing.
BillingAfter(n) ==
    CASE n.type \in Paying -> [status |-> "active", grace |-> "none", customer |-> TRUE]
      [] n.type = "payment.failed" ->
            [status |-> "past_due", grace |-> "running",
             customer |-> billing.customer \/ billing.status = "absent"]
      [] n.type = "subscription.canceled" -> [billing EXCEPT !.status = "canceled"]
      [] OTHER -> billing

WriteBilling(d) ==
    /\ delivery[d].pc = "billing"
    /\ billing' = BillingAfter(delivery[d].notice)
    /\ applied' = [applied EXCEPT ![delivery[d].notice.id] = @ + 1]
    /\ delivery' = [delivery EXCEPT ![d].pc = "answered"]
    /\ UNCHANGED <<plan, events, gate, faults>>

\* A call fails, done or not, or the process dies: the provider gets no ok.
DeliveryFails(d) ==
    /\ delivery[d].pc \in {"record", "plan", "billing"} /\ OneFault
    /\ \/ UNCHANGED events
       \/ delivery[d].pc = "record" /\ events' = events \cup {delivery[d].notice.id}
    /\ delivery' = [delivery EXCEPT ![d].pc = "failed"]
    /\ UNCHANGED <<plan, billing, applied, gate>>

-----------------------------------------------------------------------------
(* assertPaymentAllowsUsage *)

Arrive(r) ==
    /\ gate[r] = "idle" /\ gate' = [gate EXCEPT ![r] = "read"]
    /\ UNCHANGED <<plan, billing, events, delivery, applied, faults>>

Read(r) ==
    /\ gate[r] = "read"
    /\ gate' = [gate EXCEPT ![r] =
                   CASE billing.status = "unpaid_blocked" -> "idle"
                     [] billing.status = "past_due" /\ billing.grace # "running" -> "block"
                     [] OTHER -> "admitted"]
    /\ UNCHANGED <<plan, billing, events, delivery, applied, faults>>

\* The status is written without looking at the row again; the request ends.
Block(r) ==
    /\ gate[r] = "block" /\ gate' = [gate EXCEPT ![r] = "idle"]
    /\ billing' = [billing EXCEPT !.status = "unpaid_blocked"]
    /\ UNCHANGED <<plan, events, delivery, applied, faults>>

\* The request goes on, or ends because a call failed.
Leave(r) ==
    /\ gate[r] # "idle" /\ gate' = [gate EXCEPT ![r] = "idle"]
    /\ UNCHANGED <<plan, billing, events, delivery, applied, faults>>

OwnerActs == StartCheckout \/ Cancel \/ \E p \in Plans : ChoosePlan(p)

Webhook(d) ==
    \/ \E n \in Notifications : Notify(d, n)
    \/ RecordEvent(d) \/ WritePlan(d) \/ WriteBilling(d) \/ DeliveryFails(d)

Request(r) == Arrive(r) \/ Read(r) \/ Block(r) \/ Leave(r)

Next ==
    \/ OwnerActs \/ GraceElapses
    \/ \E d \in Deliveries : Webhook(d)
    \/ \E r \in Requests : Request(r)

Spec == Init /\ [][Next]_vars
-----------------------------------------------------------------------------
(* Properties *)

\* Types; a row that is past due has a grace.
TypeOK ==
    /\ plan \in Plans
    /\ billing \in [status : {"absent", "none", "active", "past_due", "unpaid_blocked",
                              "canceled"},
                    grace : {"none", "running", "over"}, customer : BOOLEAN]
    /\ billing.status = "past_due" => billing.grace # "none"
    /\ events \subseteq Ids /\ applied \in [Ids -> Nat]
    /\ \A d \in Deliveries :
          /\ delivery[d].pc \in {"free", "record", "plan", "billing", "answered", "failed"}
          /\ delivery[d].notice \in Notifications \cup {NoNotice}
    /\ gate \in [Requests -> {"idle", "read", "block", "admitted"}]
    /\ faults \in 0..MaxFaults

\* However often and however concurrently the provider repeats an event, its
\* effects happen at most once; once it has been told ok they have happened,
\* are on their way in another delivery, or a delivery of it failed
\* (payment_events: recorded first, applied afterwards, in no transaction).
InHand(i) == \E d \in Deliveries :
                delivery[d].notice.id = i /\ delivery[d].pc \in {"plan", "billing", "failed"}
EventsApplyOnce ==
    \A i \in Ids :
        /\ applied[i] <= 1
        /\ (\E d \in Deliveries : delivery[d].notice.id = i /\ delivery[d].pc = "answered")
              => applied[i] = 1 \/ InHand(i)
======================================================================
