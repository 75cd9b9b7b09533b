---------------------------- MODULE StreamsBus ----------------------------
(***************************************************************************)
(* One topic of the Redis Streams event bus (packages/bus): publishers     *)
(* append entries to a stream, every consumer group reads the stream       *)
(* through its own cursor and pending-entries list, and the consumers of a *)
(* group share the work.  dispatchEntry claims <group, event_id> in the    *)
(* idempotency store BEFORE it calls the handler, and acknowledges after.  *)
(*                                                                         *)
(* A subscription gets a fresh random consumer name, so a consumer that    *)
(* stopped or crashed never comes back: its replacement is another element *)
(* of Consumers.                                                           *)
(***************************************************************************)
EXTENDS Naturals, Sequences, FiniteSets

CONSTANTS
    Groups,            \* consumer groups subscribed to the topic
    Consumers,         \* subscriptions (one per process and subscribe call)
    GroupOf,           \* the group each subscription joined
    Events,            \* event ids; an event may be published more than once
    DeadLetterGroups,  \* groups whose bus dead-letters a failed handler
    ReclaimCount,      \* COUNT of XAUTOCLAIM (5 in the code)
    MaxStream,         \* bound: entries ever appended
    MaxFaults          \* bound: crashes plus failed Redis calls

ASSUME BusAssumption ==
    /\ GroupOf \in [Consumers -> Groups]
    /\ DeadLetterGroups \subseteq Groups
    /\ ReclaimCount \in Nat \ {0}
    /\ MaxStream \in Nat
    /\ MaxFaults \in Nat

VARIABLES
    \* Redis
    stream,        \* the stream: entry id -> event id
    cursor,        \* group -> last entry delivered by XREADGROUP ">"
    pending,       \* group -> delivered and not yet acknowledged entries
    idle,          \* group -> pending entries idle for at least 60 s
    claims,        \* idempotency keys <group, event> set with SET NX
    deadLetters,   \* <group, event> -> entries published to verse.dlq
    \* consumers
    pc,            \* where the consume loop of each consumer is
    batch,         \* entries in hand, still to be dispatched
    entry,         \* the entry being dispatched (0: none)
    \* what the handlers did
    starts,        \* <group, event> -> number of handler calls
    succeeded,     \* <group, event> whose handler returned
    faults         \* crashes and failed Redis calls so far

redis == <<stream, cursor, pending, idle, claims, deadLetters>>
handlers == <<starts, succeeded>>
vars == <<redis, pc, batch, entry, handlers, faults>>

Keys == Groups \X Events
Entries == 1..Len(stream)
\* Mutant (TypeOK): the parts of the idempotency key are swapped.
KeySwapped(g, e) == <<stream[e], g>>
Key(g, e) == <<g, stream[e]>>

Alive(c) == pc[c] \notin {"new", "stopped", "crashed"}
\* Inside dispatchEntry with the claim won and the entry not yet given up.
Working(c) == pc[c] \in {"handle", "ack", "deadLetter", "ackDead"}
Acked(g) == {e \in 1..cursor[g] : e \notin pending[g]}

TypeOK ==
    /\ stream \in Seq(Events)
    /\ cursor \in [Groups -> Nat]
    /\ pending \in [Groups -> SUBSET Nat]
    /\ idle \in [Groups -> SUBSET Nat]
    /\ claims \in SUBSET Keys
    /\ deadLetters \in [Keys -> Nat]
    /\ pc \in [Consumers -> {"new", "poll", "reclaim", "dispatch", "handle",
                             "ack", "deadLetter", "ackDead", "ackDuplicate",
                             "stopped", "crashed"}]
    /\ batch \in [Consumers -> SUBSET Nat]
    /\ entry \in [Consumers -> Nat]
    /\ starts \in [Keys -> Nat]
    /\ succeeded \in SUBSET Keys
    /\ faults \in Nat

Init ==
    /\ stream = <<>>
    /\ cursor = [g \in Groups |-> 0]
    /\ pending = [g \in Groups |-> {}]
    /\ idle = [g \in Groups |-> {}]
    /\ claims = {}
    /\ deadLetters = [k \in Keys |-> 0]
    /\ pc = [c \in Consumers |-> "new"]
    /\ batch = [c \in Consumers |-> {}]
    /\ entry = [c \in Consumers |-> 0]
    /\ starts = [k \in Keys |-> 0]
    /\ succeeded = {}
    /\ faults = 0

---------------------------------------------------------------------------
(* Publishing and the clock of the pending-entries list                    *)

\* XADD.  The same event may be appended again (a publisher that retries).
Publish(ev) ==
    /\ Len(stream) < MaxStream
    /\ stream' = Append(stream, ev)
    /\ UNCHANGED <<cursor, pending, idle, claims, deadLetters,
                   pc, batch, entry, handlers, faults>>

\* 60 s pass since a pending entry was last delivered, whatever its consumer
\* is doing with it: a slow handler does not refresh the timer.
IdleElapses(g, e) ==
    /\ e \in pending[g] \ idle[g]
    /\ idle' = [idle EXCEPT ![g] = @ \cup {e}]
    /\ UNCHANGED <<stream, cursor, pending, claims, deadLetters,
                   pc, batch, entry, handlers, faults>>

---------------------------------------------------------------------------
(* subscribe, unsubscribe and the consume loop                             *)

Subscribe(c) ==
    /\ pc[c] = "new"
    /\ pc' = [pc EXCEPT ![c] = "poll"]
    /\ UNCHANGED <<redis, batch, entry, handlers, faults>>

\* The unsubscribe function and close() let the loop finish its entry first.
Unsubscribe(c) ==
    /\ pc[c] = "poll"
    /\ pc' = [pc EXCEPT ![c] = "stopped"]
    /\ UNCHANGED <<redis, batch, entry, handlers, faults>>

\* XREADGROUP COUNT 1 ">" hands the group's next entry to this consumer.
Deliver(g) ==
    /\ cursor[g] < Len(stream)
    /\ cursor' = [cursor EXCEPT ![g] = @ + 1]
    /\ pending' = [pending EXCEPT ![g] = @ \cup {cursor[g] + 1}]

Read(c) ==
    /\ pc[c] = "poll"
    /\ Deliver(GroupOf[c])
    /\ batch' = [batch EXCEPT ![c] = {cursor[GroupOf[c]] + 1}]
    /\ pc' = [pc EXCEPT ![c] = "dispatch"]
    /\ UNCHANGED <<stream, idle, claims, deadLetters, entry, handlers, faults>>

\* Mutant (EveryEntryLeaves): reclaimPending is never called.
ReadNothingAndWait(c) ==
    /\ pc[c] = "poll"
    /\ cursor[GroupOf[c]] = Len(stream)
    /\ UNCHANGED vars

\* Nothing new within the poll interval: reclaimPending is next.
ReadNothing(c) ==
    /\ pc[c] = "poll"
    /\ cursor[GroupOf[c]] = Len(stream)
    /\ pc' = [pc EXCEPT ![c] = "reclaim"]
    /\ UNCHANGED <<redis, batch, entry, handlers, faults>>

\* XAUTOCLAIM from 0-0: the oldest idle entries, at most ReclaimCount.
Oldest(S, B) ==
    /\ B \subseteq S
    /\ \A e \in B, f \in S \ B : e < f
    /\ Cardinality(B) = IF Cardinality(S) < ReclaimCount
                        THEN Cardinality(S) ELSE ReclaimCount

Reclaim(c) ==
    LET g == GroupOf[c] IN
    /\ pc[c] = "reclaim"
    /\ \E B \in SUBSET idle[g] :
         /\ Oldest(idle[g], B)
         /\ batch' = [batch EXCEPT ![c] = B]
         /\ idle' = [idle EXCEPT ![g] = @ \ B]
         /\ pc' = [pc EXCEPT ![c] = IF B = {} THEN "poll" ELSE "dispatch"]
    /\ UNCHANGED <<stream, cursor, pending, claims, deadLetters,
                   entry, handlers, faults>>

---------------------------------------------------------------------------
(* dispatchEntry: claim, handle, acknowledge or dead-letter                *)

\* dispatchEntry returned: the next entry in hand, or the next poll.
Return(c) ==
    /\ pc' = [pc EXCEPT ![c] = IF batch[c] = {} THEN "poll" ELSE "dispatch"]
    /\ entry' = [entry EXCEPT ![c] = 0]
    /\ UNCHANGED batch

\* dispatchEntry threw: the rest of the entries in hand is dropped too.
Throw(c) ==
    /\ pc' = [pc EXCEPT ![c] = "poll"]
    /\ entry' = [entry EXCEPT ![c] = 0]
    /\ batch' = [batch EXCEPT ![c] = {}]

Fault ==
    /\ faults < MaxFaults
    /\ faults' = faults + 1

\* XACK of the entry in hand; a failed call may still have been applied.
Acknowledge(c) ==
    LET g == GroupOf[c] IN
    /\ pending' = [pending EXCEPT ![g] = @ \ {entry[c]}]
    /\ idle' = [idle EXCEPT ![g] = @ \ {entry[c]}]

\* Entries are dispatched in stream order.
NextInHand(c, e) ==
    /\ pc[c] = "dispatch"
    /\ e \in batch[c]
    /\ \A f \in batch[c] : e <= f

\* Mutant (HandledAtMostOnce): SET without NX.
ClaimUnconditional(c) ==
    \E e \in batch[c] :
        LET k == Key(GroupOf[c], e) IN
        /\ NextInHand(c, e)
        /\ claims' = claims \cup {k}
        /\ starts' = [starts EXCEPT ![k] = @ + 1]
        /\ entry' = [entry EXCEPT ![c] = e]
        /\ batch' = [batch EXCEPT ![c] = @ \ {e}]
        /\ pc' = [pc EXCEPT ![c] = "handle"]
        /\ UNCHANGED <<stream, cursor, pending, idle, deadLetters,
                       succeeded, faults>>

\* Mutant (SingleWorker): the key is checked now and set by nobody.
ClaimCheckedOnly(c) ==
    \E e \in batch[c] :
        LET k == Key(GroupOf[c], e) IN
        /\ NextInHand(c, e)
        /\ k \notin claims
        /\ starts' = [starts EXCEPT ![k] = @ + 1]
        /\ entry' = [entry EXCEPT ![c] = e]
        /\ batch' = [batch EXCEPT ![c] = @ \ {e}]
        /\ pc' = [pc EXCEPT ![c] = "handle"]
        /\ UNCHANGED <<redis, succeeded, faults>>

\* SET <group:event_id> NX returned OK: the handler is called.
ClaimWon(c) ==
    \E e \in batch[c] :
        LET k == Key(GroupOf[c], e) IN
        /\ NextInHand(c, e)
        /\ k \notin claims
        /\ claims' = claims \cup {k}
        /\ starts' = [starts EXCEPT ![k] = @ + 1]
        /\ entry' = [entry EXCEPT ![c] = e]
        /\ batch' = [batch EXCEPT ![c] = @ \ {e}]
        /\ pc' = [pc EXCEPT ![c] = "handle"]
        /\ UNCHANGED <<stream, cursor, pending, idle, deadLetters,
                       succeeded, faults>>

\* The key exists: the entry is acknowledged without calling the handler.
ClaimLost(c) ==
    \E e \in batch[c] :
        /\ NextInHand(c, e)
        /\ Key(GroupOf[c], e) \in claims
        /\ entry' = [entry EXCEPT ![c] = e]
        /\ batch' = [batch EXCEPT ![c] = @ \ {e}]
        /\ pc' = [pc EXCEPT ![c] = "ackDuplicate"]
        /\ UNCHANGED <<redis, handlers, faults>>

AckDuplicate(c) ==
    /\ pc[c] = "ackDuplicate"
    /\ Acknowledge(c)
    /\ Return(c)
    /\ UNCHANGED <<stream, cursor, claims, deadLetters, handlers, faults>>

HandlerReturns(c) ==
    /\ pc[c] = "handle"
    /\ succeeded' = succeeded \cup {Key(GroupOf[c], entry[c])}
    /\ pc' = [pc EXCEPT ![c] = "ack"]
    /\ UNCHANGED <<redis, batch, entry, starts, faults>>

Ack(c) ==
    /\ pc[c] = "ack"
    /\ Acknowledge(c)
    /\ Return(c)
    /\ UNCHANGED <<stream, cursor, claims, deadLetters, handlers, faults>>

\* Mutant (NothingDroppedWithoutFault): acknowledged without dead-lettering.
ToAcknowledge(c) ==
    /\ GroupOf[c] \in DeadLetterGroups
    /\ pc' = [pc EXCEPT ![c] = "ackDead"]
    /\ UNCHANGED <<batch, entry>>

\* The catch branch: dead-letter, or rethrow and leave the entry pending.
ToDeadLetters(c) ==
    /\ GroupOf[c] \in DeadLetterGroups
    /\ pc' = [pc EXCEPT ![c] = "deadLetter"]
    /\ UNCHANGED <<batch, entry>>

Rethrow(c) ==
    /\ GroupOf[c] \notin DeadLetterGroups
    /\ Throw(c)

HandlerThrows(c) ==
    /\ pc[c] = "handle"
    /\ ToDeadLetters(c) \/ Rethrow(c)
    /\ UNCHANGED <<redis, handlers, faults>>

PublishDeadLetter(c) ==
    /\ pc[c] = "deadLetter"
    /\ deadLetters' = [deadLetters EXCEPT ![Key(GroupOf[c], entry[c])] = @ + 1]
    /\ pc' = [pc EXCEPT ![c] = "ackDead"]
    /\ UNCHANGED <<stream, cursor, pending, idle, claims,
                   batch, entry, handlers, faults>>

AckDead(c) ==
    /\ pc[c] = "ackDead"
    /\ Acknowledge(c)
    /\ Return(c)
    /\ UNCHANGED <<stream, cursor, claims, deadLetters, handlers, faults>>

---------------------------------------------------------------------------
(* Faults: a Redis call fails (its effect may have been applied before the *)
(* reply was lost), or the consumer's process dies                         *)

ReadFails(c) ==
    /\ pc[c] = "poll"
    /\ Fault
    /\ Deliver(GroupOf[c])
    /\ UNCHANGED <<stream, idle, claims, deadLetters, pc, batch, entry, handlers>>

ReclaimFails(c) ==
    LET g == GroupOf[c] IN
    /\ pc[c] = "reclaim"
    /\ Fault
    /\ \E B \in SUBSET idle[g] :
         Oldest(idle[g], B) /\ idle' = [idle EXCEPT ![g] = @ \ B]
    /\ pc' = [pc EXCEPT ![c] = "poll"]
    /\ UNCHANGED <<stream, cursor, pending, claims, deadLetters, batch, entry, handlers>>

ClaimFails(c) ==
    \E e \in batch[c] :
        /\ NextInHand(c, e)
        /\ Fault
        /\ claims' \in {claims, claims \cup {Key(GroupOf[c], e)}}
        /\ Throw(c)
        /\ UNCHANGED <<stream, cursor, pending, idle, deadLetters, handlers>>

\* The XACK after the handler sits inside the same try as the handler: its
\* failure takes the catch branch although the handler has returned.
AckFails(c) ==
    /\ pc[c] = "ack"
    /\ Fault
    /\ Acknowledge(c) \/ UNCHANGED <<pending, idle>>
    /\ ToDeadLetters(c) \/ Rethrow(c)
    /\ UNCHANGED <<stream, cursor, claims, deadLetters, handlers>>

\* Mutant (DeadLetteredAtMostOnce): a failed dead letter is published again.
DeadLetterRetried(c) ==
    LET k == Key(GroupOf[c], entry[c]) IN
    /\ pc[c] = "deadLetter"
    /\ Fault
    /\ \E applied \in {0, 1} :
         deadLetters' = [deadLetters EXCEPT ![k] = @ + applied]
    /\ UNCHANGED <<stream, cursor, pending, idle, claims, pc, batch, entry, handlers>>

DeadLetterFails(c) ==
    LET k == Key(GroupOf[c], entry[c]) IN
    /\ pc[c] = "deadLetter"
    /\ Fault
    /\ \E applied \in {0, 1} :
         deadLetters' = [deadLetters EXCEPT ![k] = @ + applied]
    /\ Throw(c)
    /\ UNCHANGED <<stream, cursor, pending, idle, claims, handlers>>

LastAckFails(c) ==
    /\ pc[c] \in {"ackDead", "ackDuplicate"}
    /\ Fault
    /\ Acknowledge(c) \/ UNCHANGED <<pending, idle>>
    /\ Throw(c)
    /\ UNCHANGED <<stream, cursor, claims, deadLetters, handlers>>

Crash(c) ==
    /\ Alive(c)
    /\ Fault
    /\ pc' = [pc EXCEPT ![c] = "crashed"]
    /\ batch' = [batch EXCEPT ![c] = {}]
    /\ entry' = [entry EXCEPT ![c] = 0]
    /\ UNCHANGED <<redis, handlers>>

---------------------------------------------------------------------------
\* What the consume loop does by itself, call after call.
Loop(c) ==
    \/ Read(c) \/ ReadNothing(c) \/ Reclaim(c)
    \/ ClaimWon(c) \/ ClaimLost(c) \/ AckDuplicate(c)
    \/ HandlerReturns(c) \/ HandlerThrows(c)
    \/ Ack(c) \/ PublishDeadLetter(c) \/ AckDead(c)

Faulty(c) ==
    \/ ReadFails(c) \/ ReclaimFails(c) \/ ClaimFails(c) \/ AckFails(c)
    \/ DeadLetterFails(c) \/ LastAckFails(c) \/ Crash(c)

Next ==
    \/ \E ev \in Events : Publish(ev)
    \/ \E g \in Groups : \E e \in pending[g] : IdleElapses(g, e)
    \/ \E c \in Consumers : Subscribe(c) \/ Unsubscribe(c) \/ Loop(c) \/ Faulty(c)

\* A live loop keeps running and time passes; nobody is obliged to publish,
\* to subscribe, to unsubscribe or to fail.
Fairness ==
    /\ \A c \in Consumers : WF_vars(Loop(c))
    /\ \A g \in Groups : \A e \in 1..MaxStream : WF_vars(IdleElapses(g, e))

Spec == Init /\ [][Next]_vars
FairSpec == Spec /\ Fairness

---------------------------------------------------------------------------
(* Properties                                                              *)

\* A group calls its handler at most once per event, although the stream may
\* hold the event twice, a slow entry is reclaimed under its consumer's feet
\* and acknowledgements get lost (dispatchEntry claims before it handles).
HandledAtMostOnce ==
    \A k \in Keys : starts[k] <= 1

\* Two consumers never work on the same event of a group at the same time.
SingleWorker ==
    \A c, d \in Consumers :
        /\ c # d
        /\ Working(c) /\ Working(d)
        /\ GroupOf[c] = GroupOf[d]
        => stream[entry[c]] # stream[entry[d]]

\* An event is dead-lettered at most once per group, and only after its
\* handler was called: the catch branch runs under the same claim.
DeadLetteredAtMostOnce ==
    \A k \in Keys : deadLetters[k] <= starts[k]

\* An entry leaves a group's pending list only when somebody owns its event:
\* no path of dispatchEntry acknowledges an unclaimed entry, faults included.
AckedMeansClaimed ==
    \A g \in Groups : \A e \in Acked(g) : Key(g, e) \in claims

Processed(k) == k \in succeeded \/ deadLetters[k] > 0

\* The event of every acknowledged entry was handled or dead-lettered, or a
\* consumer is still at work on it: the bus drops nothing silently.
AckedMeansProcessed ==
    \A g \in Groups : \A e \in Acked(g) :
        \/ Processed(Key(g, e))
        \/ \E c \in Consumers :
              Working(c) /\ Key(GroupOf[c], entry[c]) = Key(g, e)

\* ... as long as every group dead-letters and no Redis call fails and no
\* consumer dies.
NothingDroppedWithoutFault ==
    faults = 0 /\ DeadLetterGroups = Groups => AckedMeansProcessed

\* If each group keeps a live consumer, every appended entry is eventually
\* acknowledged by every group: reclaimPending unsticks whatever a fault, a
\* rethrow or a crash left pending.
Served(g) == \E c \in Consumers : GroupOf[c] = g /\ Alive(c)
EveryEntryLeaves ==
    \A g \in Groups : <>[]Served(g) =>
        \A e \in 1..MaxStream : (e \in Entries) ~> (e \in Acked(g))
==========================================================================
