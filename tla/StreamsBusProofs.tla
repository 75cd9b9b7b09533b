------------------------- MODULE StreamsBusProofs -------------------------
(***************************************************************************)
(* Safety of the Redis Streams bus for any number of groups, consumers,    *)
(* events, entries and faults.                                             *)
(*                                                                         *)
(* The invariants of StreamsBus are not inductive: that a consumer's key   *)
(* is in the idempotency store while it works on it, and that the entry in *)
(* hand lies below the group's cursor, is what carries them from step to   *)
(* step.  InRange, Claimed and DeadLetters state that.                     *)
(***************************************************************************)
EXTENDS StreamsBus, TLAPS

\* The event of the entry a consumer is dispatching, under its group.
KeyOf(c) == Key(GroupOf[c], entry[c])

Busy(c) == Working(c) \/ pc[c] = "ackDuplicate"

\* Entry ids stay within what the group's cursor has passed.
InRange ==
    /\ \A g \in Groups :
         /\ cursor[g] <= Len(stream)
         /\ pending[g] \subseteq 1..cursor[g]
         /\ idle[g] \subseteq pending[g]
    /\ \A c \in Consumers :
         /\ batch[c] \subseteq 1..cursor[GroupOf[c]]
         /\ Busy(c) => entry[c] \in 1..cursor[GroupOf[c]]

Typed == TypeOK /\ InRange

\* The catch branch has not dead-lettered the event in hand yet.
NotDead(c) == pc[c] \in {"handle", "ack", "deadLetter"}

\* Whoever works on an event holds its claim, alone, and it started once.
Claimed ==
    /\ \A k \in Keys : /\ starts[k] <= 1
                       /\ starts[k] > 0 => k \in claims
    /\ \A c \in Consumers :
         /\ Working(c) => starts[KeyOf(c)] = 1
         /\ pc[c] = "ackDuplicate" => KeyOf(c) \in claims

DeadLetters ==
    /\ DeadLetteredAtMostOnce
    /\ \A c \in Consumers : NotDead(c) => deadLetters[KeyOf(c)] = 0

Safe == Claimed /\ DeadLetters /\ SingleWorker /\ AckedMeansClaimed

\* The part of the type invariant that giving an entry up touches.
LoopTyped ==
    /\ pending \in [Groups -> SUBSET Nat]
    /\ idle \in [Groups -> SUBSET Nat]
    /\ pc \in [Consumers -> {"new", "poll", "reclaim", "dispatch", "handle",
                             "ack", "deadLetter", "ackDead", "ackDuplicate",
                             "stopped", "crashed"}]
    /\ batch \in [Consumers -> SUBSET Nat]
    /\ entry \in [Consumers -> Nat]

USE BusAssumption

\* The stream starts empty and no consumer holds an entry.
LEMMA TypedInit == Init => Typed
BY DEF Init, Typed, TypeOK, InRange, Busy, Working, Keys

\* What an acknowledgement, applied or not, does to a group's entries.
LEMMA AcknowledgeShrinks ==
    ASSUME Typed, NEW c \in Consumers, Acknowledge(c) \/ UNCHANGED <<pending, idle>>
    PROVE  /\ pending' \in [Groups -> SUBSET Nat]
           /\ idle' \in [Groups -> SUBSET Nat]
           /\ \A g \in Groups : /\ pending'[g] \subseteq pending[g]
                                /\ idle'[g] \subseteq pending'[g]
<1> USE DEF Typed, TypeOK, InRange
<1> DEFINE g == GroupOf[c]
<1>1. CASE Acknowledge(c)
  <2>1. /\ pending' = [pending EXCEPT ![g] = pending[g] \ {entry[c]}]
        /\ idle' = [idle EXCEPT ![g] = idle[g] \ {entry[c]}]
    BY <1>1 DEF Acknowledge
  <2> QED
    BY <2>1
<1>2. CASE UNCHANGED <<pending, idle>>
  BY <1>2
<1> QED
  BY <1>1, <1>2

\* Giving an entry up, by return or by exception, keeps ids in range.
LEMMA GiveUp ==
    ASSUME Typed, NEW c \in Consumers, Return(c) \/ Throw(c),
           Acknowledge(c) \/ UNCHANGED <<pending, idle>>,
           UNCHANGED <<stream, cursor>>
    PROVE  InRange' /\ LoopTyped'
<1>1. /\ pc' = [pc EXCEPT ![c] = pc'[c]]
      /\ pc'[c] \in {"poll", "dispatch"}
      /\ entry' = [entry EXCEPT ![c] = 0]
      /\ batch' \in [Consumers -> SUBSET Nat]
      /\ \A d \in Consumers : batch'[d] \subseteq batch[d]
  BY DEF Typed, TypeOK, Return, Throw
<1>2. /\ pending' \in [Groups -> SUBSET Nat]
      /\ idle' \in [Groups -> SUBSET Nat]
      /\ \A g \in Groups : /\ pending'[g] \subseteq pending[g]
                           /\ idle'[g] \subseteq pending'[g]
  BY AcknowledgeShrinks
<1>3. \A d \in Consumers : Busy(d)' => d # c /\ Busy(d)
  BY <1>1 DEF Typed, TypeOK, Busy, Working
<1>4. \A d \in Consumers : d # c => entry'[d] = entry[d]
  BY <1>1 DEF Typed, TypeOK
<1>5. InRange'
  BY <1>1, <1>2, <1>3, <1>4 DEF Typed, TypeOK, InRange
<1>6. LoopTyped'
  BY <1>1, <1>2 DEF Typed, TypeOK, LoopTyped
<1> QED
  BY <1>5, <1>6

\* Every step keeps types and entries in range.
LEMMA TypedNext == Typed /\ [Next]_vars => Typed'
<1> SUFFICES ASSUME Typed, [Next]_vars PROVE Typed'
  OBVIOUS
<1> USE DEF Typed, TypeOK, InRange, Busy, Working, Keys, Key, redis, handlers
<1>1. ASSUME NEW ev \in Events, Publish(ev) PROVE Typed'
  BY <1>1 DEF Publish
<1>2. ASSUME NEW g \in Groups, NEW e \in pending[g], IdleElapses(g, e) PROVE Typed'
  BY <1>2 DEF IdleElapses
<1>3. ASSUME NEW c \in Consumers, Subscribe(c) \/ Unsubscribe(c) PROVE Typed'
  BY <1>3 DEF Subscribe, Unsubscribe
<1>4. ASSUME NEW c \in Consumers, Read(c) PROVE Typed'
  BY <1>4 DEF Read, Deliver
<1>5. ASSUME NEW c \in Consumers, ReadNothing(c) PROVE Typed'
  BY <1>5 DEF ReadNothing
<1>6. ASSUME NEW c \in Consumers, Reclaim(c) PROVE Typed'
  <2>1. PICK B \in SUBSET idle[GroupOf[c]] :
          /\ batch' = [batch EXCEPT ![c] = B]
          /\ idle' = [idle EXCEPT ![GroupOf[c]] = @ \ B]
          /\ pc' = [pc EXCEPT ![c] = IF B = {} THEN "poll" ELSE "dispatch"]
    BY <1>6 DEF Reclaim
  <2>2. UNCHANGED <<stream, cursor, pending, claims, deadLetters,
                    entry, handlers, faults>>
    BY <1>6 DEF Reclaim
  <2>3. /\ pc[c] = "reclaim"
        /\ \A d \in Consumers : d # c => pc'[d] = pc[d] /\ batch'[d] = batch[d]
        /\ pc'[c] \in {"poll", "dispatch"}
        /\ batch'[c] = B
    BY <1>6, <2>1 DEF Reclaim
  <2>4. /\ B \subseteq pending[GroupOf[c]]
        /\ \A g \in Groups : idle'[g] \subseteq idle[g]
    BY <2>1
  <2>5. TypeOK'
    BY <2>1, <2>2, <2>4
  <2>6. InRange'
    BY <2>2, <2>3, <2>4
  <2> QED
    BY <2>5, <2>6
<1>7. ASSUME NEW c \in Consumers, ClaimWon(c) PROVE Typed'
  BY <1>7 DEF ClaimWon, NextInHand
<1>8. ASSUME NEW c \in Consumers, ClaimLost(c) PROVE Typed'
  BY <1>8, SMTT(30) DEF ClaimLost, NextInHand
<1>9. ASSUME NEW c \in Consumers, AckDuplicate(c) \/ Ack(c) \/ AckDead(c) PROVE Typed'
  <2>1. Return(c) /\ Acknowledge(c) /\ UNCHANGED <<stream, cursor>>
    BY <1>9 DEF AckDuplicate, Ack, AckDead
  <2>2. UNCHANGED <<claims, deadLetters, starts, succeeded, faults>>
    BY <1>9 DEF AckDuplicate, Ack, AckDead
  <2>3. InRange' /\ LoopTyped'
    BY <2>1, GiveUp
  <2> QED
    BY <2>1, <2>2, <2>3 DEF LoopTyped
<1>10. ASSUME NEW c \in Consumers, HandlerReturns(c) PROVE Typed'
  BY <1>10 DEF HandlerReturns
<1>11. ASSUME NEW c \in Consumers, HandlerThrows(c) PROVE Typed'
  <2>1. CASE ToDeadLetters(c)
    BY <1>11, <2>1 DEF HandlerThrows, ToDeadLetters
  <2>2. CASE Rethrow(c)
    <3>1. InRange' /\ LoopTyped'
      BY <1>11, <2>2, GiveUp DEF HandlerThrows, Rethrow
    <3> QED
      BY <1>11, <3>1 DEF HandlerThrows, LoopTyped
  <2> QED
    BY <1>11, <2>1, <2>2 DEF HandlerThrows
<1>12. ASSUME NEW c \in Consumers, PublishDeadLetter(c) PROVE Typed'
  BY <1>12 DEF PublishDeadLetter
<1>13. ASSUME NEW c \in Consumers, ReadFails(c) PROVE Typed'
  BY <1>13 DEF ReadFails, Fault, Deliver
<1>14. ASSUME NEW c \in Consumers, ReclaimFails(c) PROVE Typed'
  BY <1>14 DEF ReclaimFails, Fault
<1>15. ASSUME NEW c \in Consumers, ClaimFails(c) PROVE Typed'
  <2>1. PICK e \in batch[c] :
          /\ claims' \in {claims, claims \cup {Key(GroupOf[c], e)}}
          /\ Throw(c)
    BY <1>15 DEF ClaimFails
  <2>2. Key(GroupOf[c], e) \in Keys
    BY <2>1
  <2>3. Throw(c) /\ UNCHANGED <<stream, cursor, pending, idle>>
    BY <1>15 DEF ClaimFails
  <2>4. InRange' /\ LoopTyped'
    BY <2>3, GiveUp
  <2>5. UNCHANGED <<deadLetters, starts, succeeded>> /\ faults' \in Nat
    BY <1>15 DEF ClaimFails, Fault
  <2>6. claims' \in SUBSET Keys
    BY <2>1, <2>2
  <2> QED
    BY <2>3, <2>4, <2>5, <2>6 DEF LoopTyped
<1>16. ASSUME NEW c \in Consumers, AckFails(c) PROVE Typed'
  <2>1. CASE ToDeadLetters(c)
    <3>1. /\ pc[c] = "ack"
          /\ pc' = [pc EXCEPT ![c] = "deadLetter"]
          /\ UNCHANGED <<stream, cursor, batch, entry, claims, deadLetters, handlers>>
          /\ faults' \in Nat
      BY <1>16, <2>1 DEF AckFails, Fault, ToDeadLetters
    <3>2. /\ pending' \in [Groups -> SUBSET Nat]
          /\ idle' \in [Groups -> SUBSET Nat]
          /\ \A g \in Groups : /\ pending'[g] \subseteq pending[g]
                               /\ idle'[g] \subseteq pending'[g]
      BY <1>16, AcknowledgeShrinks DEF AckFails
    <3>3. TypeOK'
      BY <3>1, <3>2
    <3>4. InRange'
      BY <3>1, <3>2
    <3> QED
      BY <3>3, <3>4
  <2>2. CASE Rethrow(c)
    <3>1. InRange' /\ LoopTyped'
      BY <1>16, <2>2, GiveUp DEF AckFails, Rethrow
    <3> QED
      BY <1>16, <3>1, SMTT(30) DEF AckFails, Fault, LoopTyped
  <2> QED
    BY <1>16, <2>1, <2>2 DEF AckFails
<1>17. ASSUME NEW c \in Consumers, DeadLetterFails(c) PROVE Typed'
  BY <1>17, SMTT(30) DEF DeadLetterFails, Fault, Throw
<1>18. ASSUME NEW c \in Consumers, LastAckFails(c) PROVE Typed'
  <2>1. InRange' /\ LoopTyped'
    BY <1>18, GiveUp DEF LastAckFails
  <2> QED
    BY <1>18, <2>1 DEF LastAckFails, Fault, LoopTyped
<1>19. ASSUME NEW c \in Consumers, Crash(c) PROVE Typed'
  BY <1>19 DEF Crash, Fault
<1>20. CASE UNCHANGED vars
  BY <1>20 DEF vars
<1> QED
  BY <1>1, <1>2, <1>3, <1>4, <1>5, <1>6, <1>7, <1>8, <1>9, <1>10, <1>11, <1>12,
     <1>13, <1>14, <1>15, <1>16, <1>17, <1>18, <1>19, <1>20
  DEF Next, Loop, Faulty

---------------------------------------------------------------------------
(* The claims                                                              *)

\* Nothing is claimed, handled or acknowledged yet.
LEMMA SafeInit == Init => Safe
BY DEF Init, Safe, Claimed, DeadLetters, DeadLetteredAtMostOnce, SingleWorker,
       AckedMeansClaimed, Acked, Working, NotDead, Keys

\* A step by which no consumer gets an event in hand or dead-letters it, and
\* after which only claimed entries are newly acknowledged, is harmless.
Carries(c) ==
    /\ Working(c)' => Working(c)
    /\ pc'[c] = "ackDuplicate" => pc[c] = "ackDuplicate"
    /\ NotDead(c)' => NotDead(c)
    /\ Busy(c)' => entry'[c] = entry[c]

\* Steps that claim, run and settle nothing cannot disturb Safe.
LEMMA Harmless ==
    ASSUME Typed, Safe, Typed',
           UNCHANGED <<stream, starts, deadLetters>>,
           claims \subseteq claims',
           \A c \in Consumers : Carries(c),
           \A g \in Groups : \A e \in Acked(g)' :
              e \in Acked(g) \/ Key(g, e) \in claims
    PROVE  Safe'
<1>1. \A c \in Consumers : Busy(c)' => KeyOf(c)' = KeyOf(c)
  BY DEF Carries, KeyOf, Key
<1>2. Claimed'
  BY <1>1 DEF Safe, Claimed, Carries, Busy
<1>3. DeadLetters'
  BY <1>1 DEF Safe, DeadLetters, DeadLetteredAtMostOnce, Carries, Busy, NotDead, Working
<1>4. SingleWorker'
  BY DEF Safe, SingleWorker, Carries, Busy
<1>5. AckedMeansClaimed'
  BY DEF Safe, AckedMeansClaimed, Key
<1> QED
  BY <1>2, <1>3, <1>4, <1>5 DEF Safe

\* Acknowledging the entry in hand acknowledges a claimed entry.
LEMMA AcksAreClaimed ==
    ASSUME Typed, Safe, NEW c \in Consumers, Busy(c), UNCHANGED <<stream, cursor>>,
           Acknowledge(c) \/ UNCHANGED <<pending, idle>>
    PROVE  \A g \in Groups : \A e \in Acked(g)' :
              e \in Acked(g) \/ Key(g, e) \in claims
<1>1. KeyOf(c) \in claims
  <2>1. KeyOf(c) \in Keys
    BY DEF Typed, TypeOK, InRange, KeyOf, Key, Keys
  <2> QED
    BY <2>1 DEF Safe, Claimed, Busy
<1>2. \A g \in Groups : \A e \in pending[g] :
         e \in pending'[g] \/ (g = GroupOf[c] /\ e = entry[c])
  BY DEF Acknowledge, Typed, TypeOK
<1> QED
  BY <1>1, <1>2 DEF Acked, KeyOf, Typed, TypeOK

\* A consumer that gives its entry up takes nothing in hand.
LEMMA GivesUp ==
    ASSUME Typed, NEW c \in Consumers, Return(c) \/ Throw(c)
    PROVE  \A d \in Consumers : Carries(d)
BY DEF Return, Throw, Carries, Busy, Working, NotDead, Typed, TypeOK

\* Every step keeps claims, handlings and dead letters apart.
LEMMA SafeNext == Typed /\ Safe /\ Typed' /\ [Next]_vars => Safe'
<1> SUFFICES ASSUME Typed, Safe, Typed', [Next]_vars PROVE Safe'
  OBVIOUS
<1> USE DEF redis, handlers
<1>1. ASSUME NEW ev \in Events, Publish(ev) PROVE Safe'
  <2>1. \A g \in Groups : \A e \in 1..cursor[g] : Key(g, e)' = Key(g, e)
    BY <1>1 DEF Publish, Typed, TypeOK, InRange, Key
  <2>2. \A c \in Consumers : Busy(c) => /\ KeyOf(c)' = KeyOf(c)
                                       /\ stream'[entry[c]] = stream[entry[c]]
    <3>1. UNCHANGED <<cursor, entry>> /\ stream' = Append(stream, ev)
      BY <1>1 DEF Publish
    <3>2. SUFFICES ASSUME NEW c \in Consumers, Busy(c)
                   PROVE  /\ KeyOf(c)' = KeyOf(c)
                          /\ stream'[entry[c]] = stream[entry[c]]
      OBVIOUS
    <3>3. entry[c] \in 1..cursor[GroupOf[c]] /\ entry[c] \in 1..Len(stream)
      BY <3>2 DEF Typed, TypeOK, InRange
    <3>4. stream'[entry[c]] = stream[entry[c]]
      BY <3>1, <3>3 DEF Typed, TypeOK
    <3> QED
      BY <3>1, <3>4 DEF KeyOf, Key
  <2>3. Claimed' /\ DeadLetters'
    BY <1>1, <2>2
    DEF Publish, Safe, Claimed, DeadLetters, DeadLetteredAtMostOnce, Busy, Working, NotDead
  <2>4. SingleWorker'
    <3>1. UNCHANGED <<pc, entry>>
      BY <1>1 DEF Publish
    <3>2. \A c \in Consumers : Working(c)' =>
             Working(c) /\ stream'[entry'[c]] = stream[entry[c]]
      BY <2>2, <3>1 DEF Working, Busy
    <3> QED
      BY <3>2 DEF Safe, SingleWorker
  <2>5. AckedMeansClaimed'
    BY <1>1, <2>1 DEF Publish, Safe, AckedMeansClaimed, Acked
  <2> QED
    BY <2>3, <2>4, <2>5 DEF Safe
<1>2. ASSUME NEW g \in Groups, NEW e \in pending[g], IdleElapses(g, e) PROVE Safe'
  BY <1>2, Harmless DEF IdleElapses, Carries, Acked, Busy, Working, NotDead
<1>3. ASSUME NEW c \in Consumers, Subscribe(c) \/ Unsubscribe(c) \/ ReadNothing(c)
      PROVE  Safe'
  BY <1>3, Harmless
  DEF Subscribe, Unsubscribe, ReadNothing, Carries, Acked, Busy, Working, NotDead,
      Typed, TypeOK
<1>4. ASSUME NEW c \in Consumers, Read(c) \/ ReadFails(c) PROVE Safe'
  <2>1. \A g \in Groups : \A e \in Acked(g)' : e \in Acked(g)
    <3>1. /\ cursor' = [cursor EXCEPT ![GroupOf[c]] = cursor[GroupOf[c]] + 1]
          /\ pending' = [pending EXCEPT ![GroupOf[c]] =
                            pending[GroupOf[c]] \cup {cursor[GroupOf[c]] + 1}]
      BY <1>4 DEF Read, ReadFails, Deliver
    <3>2. SUFFICES ASSUME NEW g \in Groups, NEW e \in Nat,
                          e \in 1..cursor'[g], e \notin pending'[g]
                   PROVE  e \in 1..cursor[g] /\ e \notin pending[g]
      BY <3>1 DEF Acked, Typed, TypeOK
    <3> QED
      BY <3>1, <3>2 DEF Typed, TypeOK
  <2>2. \A d \in Consumers : Carries(d)
    BY <1>4 DEF Read, ReadFails, Carries, Busy, Working, NotDead, Typed, TypeOK
  <2> QED
    BY <1>4, <2>1, <2>2, Harmless DEF Read, ReadFails
<1>5. ASSUME NEW c \in Consumers, Reclaim(c) \/ ReclaimFails(c) PROVE Safe'
  <2>1. \A d \in Consumers : Carries(d)
    BY <1>5 DEF Reclaim, ReclaimFails, Carries, Busy, Working, NotDead, Typed, TypeOK
  <2>2. UNCHANGED <<stream, cursor, pending, claims, starts, deadLetters>>
    BY <1>5 DEF Reclaim, ReclaimFails
  <2> QED
    BY <2>1, <2>2, Harmless DEF Acked
<1>6. ASSUME NEW c \in Consumers, ClaimWon(c) PROVE Safe'
  <2>1. PICK e \in batch[c] :
          LET k == Key(GroupOf[c], e) IN
          /\ k \notin claims
          /\ claims' = claims \cup {k}
          /\ starts' = [starts EXCEPT ![k] = @ + 1]
          /\ entry' = [entry EXCEPT ![c] = e]
          /\ pc' = [pc EXCEPT ![c] = "handle"]
          /\ pc[c] = "dispatch"
          /\ UNCHANGED <<stream, cursor, pending, deadLetters>>
    BY <1>6 DEF ClaimWon, NextInHand
  <2> DEFINE k == Key(GroupOf[c], e)
  <2>2. k \in Keys /\ starts[k] = 0 /\ deadLetters[k] = 0
    BY <2>1
    DEF Typed, TypeOK, InRange, Keys, Key, Safe, Claimed, DeadLetters,
        DeadLetteredAtMostOnce
  <2>3. KeyOf(c)' = k /\ Working(c)'
    BY <2>1 DEF KeyOf, Key, Working, Typed, TypeOK
  <2>4. \A d \in Consumers \ {c} :
          /\ pc'[d] = pc[d] /\ KeyOf(d)' = KeyOf(d)
          /\ Busy(d) => KeyOf(d) \in Keys /\ KeyOf(d) # k
    <3>1. \A d \in Consumers \ {c} : Busy(d) => KeyOf(d) \in Keys
      BY DEF Typed, TypeOK, InRange, KeyOf, Key, Keys
    <3>2. \A d \in Consumers \ {c} : Busy(d) => KeyOf(d) \in claims
      BY <3>1 DEF Safe, Claimed, Busy
    <3> QED
      BY <2>1, <3>1, <3>2 DEF KeyOf, Key, Typed, TypeOK
  <2>5. \A q \in Keys : starts'[q] = IF q = k THEN 1 ELSE starts[q]
    BY <2>1, <2>2 DEF Typed, TypeOK
  <2>6. Claimed'
    BY <2>1, <2>2, <2>3, <2>4, <2>5 DEF Safe, Claimed, Busy, Working, Typed, TypeOK
  <2>7. DeadLetters'
    BY <2>1, <2>2, <2>3, <2>4, <2>5
    DEF Safe, DeadLetters, DeadLetteredAtMostOnce, Busy, Working, NotDead, Typed, TypeOK
  <2>8. SingleWorker'
    BY <2>1, <2>3, <2>4 DEF Safe, SingleWorker, Busy, Working, KeyOf, Key
  <2>9. AckedMeansClaimed'
    BY <2>1 DEF Safe, AckedMeansClaimed, Acked, Key
  <2> QED
    BY <2>6, <2>7, <2>8, <2>9 DEF Safe
<1>7. ASSUME NEW c \in Consumers, ClaimLost(c) PROVE Safe'
  <2>1. PICK e \in batch[c] :
          /\ Key(GroupOf[c], e) \in claims
          /\ entry' = [entry EXCEPT ![c] = e]
          /\ pc' = [pc EXCEPT ![c] = "ackDuplicate"]
          /\ UNCHANGED <<stream, cursor, pending, claims, starts, deadLetters>>
    BY <1>7 DEF ClaimLost, NextInHand
  <2>2. KeyOf(c)' \in claims /\ ~Working(c)'
    BY <2>1 DEF KeyOf, Key, Working, Typed, TypeOK
  <2>3. \A d \in Consumers \ {c} : pc'[d] = pc[d] /\ KeyOf(d)' = KeyOf(d)
    BY <2>1 DEF KeyOf, Key, Typed, TypeOK
  <2>4. Claimed' /\ DeadLetters'
    BY <2>1, <2>2, <2>3
    DEF Safe, Claimed, DeadLetters, DeadLetteredAtMostOnce, Working, NotDead
  <2>5. SingleWorker' /\ AckedMeansClaimed'
    BY <2>1, <2>2, <2>3
    DEF Safe, SingleWorker, AckedMeansClaimed, Acked, Working, KeyOf, Key
  <2> QED
    BY <2>4, <2>5 DEF Safe
<1>8. ASSUME NEW c \in Consumers, AckDuplicate(c) \/ Ack(c) \/ AckDead(c) \/ LastAckFails(c)
      PROVE  Safe'
  <2>1. /\ Busy(c) /\ (Acknowledge(c) \/ UNCHANGED <<pending, idle>>)
        /\ UNCHANGED <<stream, cursor, claims, starts, deadLetters>>
    BY <1>8 DEF AckDuplicate, Ack, AckDead, LastAckFails, Busy, Working
  <2>2. Return(c) \/ Throw(c)
    BY <1>8 DEF AckDuplicate, Ack, AckDead, LastAckFails
  <2>3. \A d \in Consumers : Carries(d)
    BY <2>2, GivesUp
  <2> QED
    BY <2>1, <2>3, AcksAreClaimed, Harmless
<1>9. ASSUME NEW c \in Consumers, HandlerReturns(c) PROVE Safe'
  BY <1>9, Harmless
  DEF HandlerReturns, Carries, Acked, Busy, Working, NotDead, Typed, TypeOK
<1>10. ASSUME NEW c \in Consumers, HandlerThrows(c) \/ AckFails(c) PROVE Safe'
  <2>1. /\ Busy(c) /\ (Acknowledge(c) \/ UNCHANGED <<pending, idle>>)
        /\ UNCHANGED <<stream, cursor, claims, starts, deadLetters>>
    BY <1>10 DEF HandlerThrows, AckFails, Busy, Working
  <2>2. CASE ToDeadLetters(c)
    <3>1. \A d \in Consumers : Carries(d)
      BY <1>10, <2>2
      DEF HandlerThrows, AckFails, ToDeadLetters, Carries, Busy, Working, NotDead,
          Typed, TypeOK
    <3> QED
      BY <2>1, <3>1, AcksAreClaimed, Harmless
  <2>3. CASE Rethrow(c)
    <3>1. \A d \in Consumers : Carries(d)
      BY <2>3, GivesUp DEF Rethrow
    <3> QED
      BY <2>1, <3>1, AcksAreClaimed, Harmless
  <2> QED
    BY <1>10, <2>2, <2>3 DEF HandlerThrows, AckFails
<1>11. ASSUME NEW c \in Consumers, PublishDeadLetter(c) \/ DeadLetterFails(c) PROVE Safe'
  <2> DEFINE k == KeyOf(c)
  <2>1. PICK n \in {0, 1} : deadLetters' = [deadLetters EXCEPT ![k] = @ + n]
    BY <1>11 DEF PublishDeadLetter, DeadLetterFails, KeyOf
  <2>2. k \in Keys /\ starts[k] = 1 /\ deadLetters[k] = 0
    BY <1>11
    DEF PublishDeadLetter, DeadLetterFails, Working, NotDead, KeyOf, Key, Keys, Busy,
        Typed, TypeOK, InRange, Safe, Claimed, DeadLetters
  <2>3. UNCHANGED <<stream, cursor, pending, claims, starts>>
    BY <1>11 DEF PublishDeadLetter, DeadLetterFails
  <2>4. \A d \in Consumers : Carries(d)
    <3>1. CASE PublishDeadLetter(c)
      BY <3>1 DEF PublishDeadLetter, Carries, Busy, Working, NotDead, Typed, TypeOK
    <3>2. CASE DeadLetterFails(c)
      BY <3>2, GivesUp DEF DeadLetterFails
    <3> QED
      BY <1>11, <3>1, <3>2
  <2>5. ~NotDead(c)'
    BY <1>11 DEF PublishDeadLetter, DeadLetterFails, Throw, NotDead, Typed, TypeOK
  <2>6. \A d \in Consumers : Busy(d)' => KeyOf(d)' = KeyOf(d)
    BY <2>3, <2>4 DEF Carries, KeyOf, Key
  <2>7. Claimed' /\ SingleWorker' /\ AckedMeansClaimed'
    BY <2>3, <2>4, <2>6
    DEF Safe, Claimed, SingleWorker, AckedMeansClaimed, Acked, Carries, Busy, Key
  <2>8. \A d \in Consumers : NotDead(d)' => KeyOf(d)' = KeyOf(d) /\ KeyOf(d) # k
    <3>1. SUFFICES ASSUME NEW d \in Consumers, NotDead(d)' PROVE KeyOf(d) # k
      BY <2>6 DEF Busy, Working, NotDead
    <3>2. d # c /\ Working(d) /\ Working(c)
      BY <1>11, <2>4, <2>5, <3>1
      DEF Carries, NotDead, Working, PublishDeadLetter, DeadLetterFails
    <3> QED
      BY <3>2 DEF Safe, SingleWorker, KeyOf, Key
  <2>9. \A q \in Keys : deadLetters'[q] = IF q = k THEN n ELSE deadLetters[q]
    BY <2>1, <2>2 DEF Typed, TypeOK
  <2>10. \A d \in Consumers : NotDead(d)' => NotDead(d) /\ KeyOf(d) \in Keys
    BY <2>4 DEF Carries, Typed, TypeOK, InRange, Busy, Working, NotDead, KeyOf, Key, Keys
  <2>11. DeadLetters'
    BY <2>2, <2>3, <2>8, <2>9, <2>10 DEF Safe, DeadLetters, DeadLetteredAtMostOnce
  <2> QED
    BY <2>7, <2>11 DEF Safe
<1>12. ASSUME NEW c \in Consumers, ClaimFails(c) PROVE Safe'
  <2>1. /\ Throw(c) /\ claims \subseteq claims'
        /\ UNCHANGED <<stream, cursor, pending, starts, deadLetters>>
    BY <1>12 DEF ClaimFails
  <2>2. \A d \in Consumers : Carries(d)
    BY <2>1, GivesUp
  <2> QED
    BY <2>1, <2>2, Harmless DEF Acked
<1>13. ASSUME NEW c \in Consumers, Crash(c) PROVE Safe'
  BY <1>13, Harmless DEF Crash, Carries, Acked, Busy, Working, NotDead, Typed, TypeOK
<1>14. CASE UNCHANGED vars
  BY <1>14, Harmless DEF vars, Carries, Acked, Busy, Working, NotDead
<1> QED
  BY <1>1, <1>2, <1>3, <1>4, <1>5, <1>6, <1>7, <1>8, <1>9, <1>10, <1>11, <1>12,
     <1>13, <1>14
  DEF Next, Loop, Faulty

---------------------------------------------------------------------------
(* Nothing is dropped while nothing fails                                  *)

NoFault == faults = 0 /\ DeadLetterGroups = Groups

\* A consumer about to acknowledge has something to show for it.
Earned(c) ==
    /\ pc[c] = "ack" => KeyOf(c) \in succeeded
    /\ pc[c] = "ackDead" => deadLetters[KeyOf(c)] > 0

\* Until something fails, the event of every claim has been handled or
\* dead-lettered, or is in the hands of the consumer that claimed it.
Kept ==
    /\ \A c \in Consumers : Earned(c)
    /\ NoFault => \A k \in claims :
         Processed(k) \/ \E c \in Consumers : Working(c) /\ KeyOf(c) = k

\* No fault and no loss yet.
LEMMA KeptInit == Init => Kept
BY DEF Init, Kept, Earned

\* It is enough that processed events stay so, that nobody stops working on
\* an unprocessed event, and that a new claim is worked on.
LEMMA StillKept ==
    ASSUME Typed, Typed', Kept,
           NoFault' => NoFault,
           succeeded \subseteq succeeded',
           \A k \in Keys : deadLetters'[k] >= deadLetters[k],
           \A c \in Consumers :
              /\ Earned(c)'
              /\ NoFault' /\ Working(c) =>
                    \/ Working(c)' /\ KeyOf(c)' = KeyOf(c)
                    \/ Processed(KeyOf(c)),
           NoFault' => \A k \in claims' \ claims :
              \E c \in Consumers : Working(c)' /\ KeyOf(c)' = k
    PROVE  Kept'
<1>1. \A k \in Keys : Processed(k) => Processed(k)'
  BY DEF Processed, Typed, TypeOK
<1>2. ASSUME NoFault', NEW k \in claims'
      PROVE  Processed(k)' \/ \E c \in Consumers : Working(c)' /\ KeyOf(c)' = k
  <2>1. CASE k \notin claims
    BY <1>2, <2>1
  <2>2. CASE k \in claims
    <3>1. k \in Keys
      BY <2>2 DEF Typed, TypeOK
    <3>2. Processed(k) \/ \E c \in Consumers : Working(c) /\ KeyOf(c) = k
      BY <1>2, <2>2 DEF Kept
    <3> QED
      BY <1>1, <1>2, <3>1, <3>2
  <2> QED
    BY <2>1, <2>2
<1> QED
  BY <1>2 DEF Kept

\* Without a fault, what is claimed is handled or dead-lettered.
LEMMA KeptNext == Typed /\ Safe /\ Kept /\ Typed' /\ [Next]_vars => Kept'
<1> SUFFICES ASSUME Typed, Safe, Kept, Typed', [Next]_vars PROVE Kept'
  OBVIOUS
<1> USE DEF redis, handlers
<1>1. ASSUME NEW ev \in Events, Publish(ev) PROVE Kept'
  <2>1. \A c \in Consumers : Working(c) => KeyOf(c)' = KeyOf(c)
    <3>1. \A g \in Groups : \A e \in 1..cursor[g] : Key(g, e)' = Key(g, e)
      BY <1>1 DEF Publish, Typed, TypeOK, InRange, Key
    <3> QED
      BY <1>1, <3>1, ZenonT(40) DEF Publish, Typed, InRange, KeyOf, Key, Busy
  <2>2. \A c \in Consumers : Earned(c)'
    BY <1>1, <2>1 DEF Publish, Kept, Earned, Working
  <2>3. \A c \in Consumers : Working(c) => Working(c)'
    BY <1>1 DEF Publish, Working
  <2> QED
    BY <1>1, <2>1, <2>2, <2>3, StillKept DEF Publish, NoFault, Typed, TypeOK
<1>2. ASSUME NEW g \in Groups, NEW e \in pending[g], IdleElapses(g, e) PROVE Kept'
  BY <1>2 DEF IdleElapses, Kept, Earned, NoFault, Processed, Working, KeyOf, Key
<1>3. ASSUME NEW c \in Consumers,
             Subscribe(c) \/ Unsubscribe(c) \/ Read(c) \/ ReadNothing(c) \/ Reclaim(c)
      PROVE  Kept'
  <2>1. /\ UNCHANGED <<stream, claims, deadLetters, succeeded, entry, faults>>
        /\ \A d \in Consumers : d # c => pc'[d] = pc[d]
        /\ ~Working(c) /\ ~Working(c)'
    BY <1>3
    DEF Subscribe, Unsubscribe, Read, ReadNothing, Reclaim, Working, Typed, TypeOK
  <2> QED
    BY <2>1 DEF Kept, Earned, NoFault, Processed, Working, KeyOf, Key
<1>4. ASSUME NEW c \in Consumers, ClaimWon(c) PROVE Kept'
  <2>1. PICK e \in batch[c] :
          /\ claims' = claims \cup {Key(GroupOf[c], e)}
          /\ entry' = [entry EXCEPT ![c] = e]
          /\ pc' = [pc EXCEPT ![c] = "handle"]
          /\ pc[c] = "dispatch"
          /\ UNCHANGED <<stream, deadLetters, succeeded, faults>>
    BY <1>4 DEF ClaimWon, NextInHand
  <2>2. Working(c)' /\ KeyOf(c)' = Key(GroupOf[c], e)
    BY <2>1 DEF Working, KeyOf, Key, Typed, TypeOK
  <2>3. \A d \in Consumers : d # c =>
           /\ pc'[d] = pc[d] /\ KeyOf(d)' = KeyOf(d)
           /\ Working(d) => Working(d)'
    BY <2>1 DEF Working, KeyOf, Key, Typed, TypeOK
  <2>4. \A d \in Consumers : Earned(d)'
    BY <2>1, <2>3 DEF Kept, Earned, Typed, TypeOK
  <2>5. ~Working(c)
    BY <2>1 DEF Working
  <2>6. \A k \in claims' \ claims : Working(c)' /\ KeyOf(c)' = k
    BY <2>1, <2>2
  <2> QED
    BY <2>1, <2>3, <2>4, <2>5, <2>6, StillKept, SMTT(30) DEF NoFault, Typed, TypeOK
<1>5. ASSUME NEW c \in Consumers, ClaimLost(c) PROVE Kept'
  <2>1. /\ UNCHANGED <<stream, claims, deadLetters, succeeded, faults>>
        /\ pc[c] = "dispatch" /\ pc'[c] = "ackDuplicate"
        /\ \A d \in Consumers : d # c => pc'[d] = pc[d] /\ entry'[d] = entry[d]
    BY <1>5 DEF ClaimLost, NextInHand, Typed, TypeOK
  <2> QED
    BY <2>1 DEF Kept, Earned, NoFault, Processed, Working, KeyOf, Key
<1>6. ASSUME NEW c \in Consumers, AckDuplicate(c) \/ Ack(c) \/ AckDead(c) PROVE Kept'
  <2>1. /\ UNCHANGED <<stream, claims, deadLetters, succeeded, faults>>
        /\ pc'[c] \in {"poll", "dispatch"}
        /\ pc[c] \in {"ackDuplicate", "ack", "ackDead"}
        /\ \A d \in Consumers : d # c => pc'[d] = pc[d] /\ entry'[d] = entry[d]
    BY <1>6 DEF AckDuplicate, Ack, AckDead, Return, Typed, TypeOK
  <2>2. Working(c) => Processed(KeyOf(c))
    BY <2>1 DEF Kept, Earned, Processed, Working
  <2>3. \A d \in Consumers : d # c =>
           /\ KeyOf(d)' = KeyOf(d)
           /\ Working(d) => Working(d)'
    BY <2>1 DEF KeyOf, Key, Working
  <2>4. \A d \in Consumers : Earned(d)'
    BY <2>1, <2>3 DEF Kept, Earned
  <2> QED
    BY <2>1, <2>2, <2>3, <2>4, StillKept, SMTT(30) DEF NoFault, Typed, TypeOK
<1>7. ASSUME NEW c \in Consumers, HandlerReturns(c) PROVE Kept'
  <2>1. /\ UNCHANGED <<stream, claims, deadLetters, entry, faults>>
        /\ succeeded' = succeeded \cup {KeyOf(c)}
        /\ pc[c] = "handle" /\ pc'[c] = "ack"
        /\ \A d \in Consumers : d # c => pc'[d] = pc[d]
    BY <1>7 DEF HandlerReturns, KeyOf, Typed, TypeOK
  <2>2. \A d \in Consumers : KeyOf(d)' = KeyOf(d) /\ (Working(d) => Working(d)')
    BY <2>1 DEF KeyOf, Key, Working
  <2>3. \A d \in Consumers : Earned(d)'
    BY <2>1, <2>2 DEF Kept, Earned
  <2> QED
    BY <2>1, <2>2, <2>3, StillKept DEF NoFault, Typed, TypeOK
<1>8. ASSUME NEW c \in Consumers, HandlerThrows(c) PROVE Kept'
  <2>1. /\ UNCHANGED <<stream, claims, deadLetters, succeeded, faults>>
        /\ pc[c] = "handle" /\ pc'[c] \in {"deadLetter", "poll"}
        /\ pc'[c] = "poll" => GroupOf[c] \notin DeadLetterGroups
        /\ pc'[c] = "deadLetter" => entry' = entry
        /\ \A d \in Consumers : d # c => pc'[d] = pc[d] /\ entry'[d] = entry[d]
    BY <1>8 DEF HandlerThrows, ToDeadLetters, Rethrow, Throw, Typed, TypeOK
  <2>2. NoFault' => pc'[c] = "deadLetter"
    BY <2>1 DEF NoFault
  <2>3. \A d \in Consumers : d # c =>
           /\ KeyOf(d)' = KeyOf(d)
           /\ Working(d) => Working(d)'
    BY <2>1 DEF KeyOf, Key, Working
  <2>4. \A d \in Consumers : Earned(d)'
    BY <2>1, <2>3 DEF Kept, Earned
  <2>5. NoFault' => Working(c)' /\ KeyOf(c)' = KeyOf(c)
    BY <2>1, <2>2 DEF KeyOf, Key, Working
  <2> QED
    BY <2>1, <2>3, <2>4, <2>5, StillKept, SMTT(30) DEF NoFault, Typed, TypeOK
<1>9. ASSUME NEW c \in Consumers, PublishDeadLetter(c) PROVE Kept'
  <2>1. /\ UNCHANGED <<stream, claims, succeeded, entry, faults>>
        /\ deadLetters' = [deadLetters EXCEPT ![KeyOf(c)] = @ + 1]
        /\ pc[c] = "deadLetter" /\ pc'[c] = "ackDead"
        /\ \A d \in Consumers : d # c => pc'[d] = pc[d]
    BY <1>9 DEF PublishDeadLetter, KeyOf, Typed, TypeOK
  <2>2. \A d \in Consumers : KeyOf(d)' = KeyOf(d) /\ (Working(d) => Working(d)')
    BY <2>1 DEF KeyOf, Key, Working
  <2>3. KeyOf(c) \in Keys
    BY <2>1 DEF Typed, TypeOK, InRange, Busy, Working, KeyOf, Key, Keys
  <2>4. \A k \in Keys : deadLetters'[k] >= deadLetters[k]
    BY <2>1, <2>3 DEF Typed, TypeOK
  <2>5. deadLetters'[KeyOf(c)] > 0
    BY <2>1, <2>3 DEF Typed, TypeOK
  <2>6. \A d \in Consumers : d # c => Earned(d)'
    <3>1. \A d \in Consumers : pc[d] = "ackDead" => KeyOf(d) \in Keys
      BY DEF Typed, TypeOK, InRange, Busy, Working, KeyOf, Key, Keys
    <3> QED
      BY <2>1, <2>2, <2>4, <3>1 DEF Kept, Earned, Typed, TypeOK
  <2>7. Earned(c)'
    BY <2>1, <2>2, <2>5 DEF Earned
  <2> QED
    BY <2>1, <2>2, <2>4, <2>6, <2>7, StillKept DEF NoFault, Typed, TypeOK
<1>10. ASSUME NEW c \in Consumers, Faulty(c) PROVE Kept'
  <2>1. ~NoFault'
    BY <1>10
    DEF Faulty, ReadFails, ReclaimFails, ClaimFails, AckFails, DeadLetterFails,
        LastAckFails, Crash, Fault, NoFault, Typed, TypeOK
  <2>2. \A d \in Consumers : Earned(d)'
    <3>1. CASE DeadLetterFails(c)
      <4>1. /\ UNCHANGED <<stream, succeeded>>
            /\ pc'[c] = "poll"
            /\ \A d \in Consumers : d # c => pc'[d] = pc[d] /\ entry'[d] = entry[d]
        BY <3>1 DEF DeadLetterFails, Throw, Typed, TypeOK
      <4>2. \A k \in Keys : deadLetters'[k] >= deadLetters[k]
        BY <3>1 DEF DeadLetterFails, Typed, TypeOK
      <4>3. \A d \in Consumers : pc[d] = "ackDead" => KeyOf(d) \in Keys
        BY DEF Typed, TypeOK, InRange, Busy, Working, KeyOf, Key, Keys
      <4>4. \A d \in Consumers : d # c => KeyOf(d)' = KeyOf(d)
        BY <4>1 DEF KeyOf, Key
      <4>5. \A d \in Consumers : pc[d] = "ackDead" => deadLetters'[KeyOf(d)] > 0
        BY <4>2, <4>3 DEF Kept, Earned, Typed, TypeOK
      <4> QED
        BY <4>1, <4>4, <4>5 DEF Kept, Earned
    <3>2. CASE ~DeadLetterFails(c)
      <4>1. /\ UNCHANGED <<stream, succeeded, deadLetters>>
            /\ \A d \in Consumers : d # c => pc'[d] = pc[d] /\ entry'[d] = entry[d]
            /\ pc'[c] \in {"ack", "ackDead"} => pc'[c] = pc[c] /\ entry'[c] = entry[c]
        <5>1. CASE ReadFails(c) \/ ReclaimFails(c) \/ Crash(c)
          BY <5>1 DEF ReadFails, ReclaimFails, Crash, redis, handlers, Typed, TypeOK
        <5>2. CASE ClaimFails(c) \/ LastAckFails(c)
          BY <5>2 DEF ClaimFails, LastAckFails, Throw, Typed, TypeOK
        <5>3. CASE AckFails(c)
          BY <5>3 DEF AckFails, ToDeadLetters, Rethrow, Throw, Typed, TypeOK
        <5> QED
          BY <1>10, <3>2, <5>1, <5>2, <5>3 DEF Faulty
      <4> QED
        BY <4>1 DEF Kept, Earned, KeyOf, Key
    <3> QED
      BY <3>1, <3>2
  <2> QED
    BY <2>1, <2>2 DEF Kept
<1>11. CASE UNCHANGED vars
  BY <1>11 DEF vars, Kept, Earned, NoFault, Processed, Working, KeyOf, Key
<1> QED
  BY <1>1, <1>2, <1>3, <1>4, <1>5, <1>6, <1>7, <1>8, <1>9, <1>10, <1>11
  DEF Next, Loop

---------------------------------------------------------------------------
(* The theorems                                                            *)

IInv == Typed /\ Safe /\ Kept

\* IInv holds in every reachable state.
THEOREM Inductive == Spec => []IInv
<1>1. Init => IInv
  BY TypedInit, SafeInit, KeptInit DEF IInv
<1>2. IInv /\ [Next]_vars => IInv'
  BY TypedNext, SafeNext, KeptNext DEF IInv
<1> QED
  BY <1>1, <1>2, PTL DEF Spec

\* Every variable of the bus keeps its type (redis-streams-bus.ts).
THEOREM TypeCorrect == Spec => []TypeOK
<1>1. IInv => TypeOK
  BY DEF IInv, Typed
<1> QED
  BY <1>1, Inductive, PTL

\* dispatchEntry calls a group's handler at most once per event.
THEOREM HandlesAtMostOnce == Spec => []HandledAtMostOnce
<1>1. IInv => HandledAtMostOnce
  BY DEF IInv, Safe, Claimed, HandledAtMostOnce
<1> QED
  BY <1>1, Inductive, PTL

\* No two consumers of a group work on the same event at a time.
THEOREM WorksAlone == Spec => []SingleWorker
<1>1. IInv => SingleWorker
  BY DEF IInv, Safe
<1> QED
  BY <1>1, Inductive, PTL

\* An event reaches verse.dlq at most once per group, after its handler ran.
THEOREM DeadLettersAtMostOnce == Spec => []DeadLetteredAtMostOnce
<1>1. IInv => DeadLetteredAtMostOnce
  BY DEF IInv, Safe, DeadLetters
<1> QED
  BY <1>1, Inductive, PTL

\* Whatever dispatchEntry acknowledges was claimed by some consumer.
THEOREM AcksClaimedOnly == Spec => []AckedMeansClaimed
<1>1. IInv => AckedMeansClaimed
  BY DEF IInv, Safe
<1> QED
  BY <1>1, Inductive, PTL

\* Without a fault, and with dead-lettering on, no event is dropped.
THEOREM DropsNothing == Spec => []NothingDroppedWithoutFault
<1>1. IInv => NothingDroppedWithoutFault
  BY DEF IInv, Safe, Kept, AckedMeansClaimed, NothingDroppedWithoutFault,
         AckedMeansProcessed, NoFault, KeyOf
<1> QED
  BY <1>1, Inductive, PTL
==========================================================================
