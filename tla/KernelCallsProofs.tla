------------------------- MODULE KernelCallsProofs -------------------------
(***************************************************************************)
(* The budget of a run holds but for one call per life of the runtime and  *)
(* one per failed call, and agents work only for callers that wait, for    *)
(* any registry, programs, budget, and number of tasks, faults, restarts.  *)
(*                                                                         *)
(* Both arguments rest on the chain of model calls: a task is in it once,  *)
(* and only its head has tokens that are served and not yet recorded.  So  *)
(* the ledger is at most that call behind the provider, and a call is      *)
(* served only below the budget.  For callers: a caller stops waiting only *)
(* when a child was rejected, which stays so, or when all are done.        *)
(***************************************************************************)
EXTENDS KernelCalls, TLAPS

\* A record of a task: it has the fields of NoCall.
IsCall(t) ==
    t \in [state : {t.state}, agent : {t.agent}, parent : {t.parent}, via : {t.via},
           depth : {t.depth}, locked : {t.locked}, todo : {t.todo}, kids : {t.kids},
           owed : {t.owed}, result : {t.result}, reported : {t.reported}]

\* It has values of their types, and its agent is one that may run.
Fits(t) ==
    /\ IsCall(t)
    /\ t.state \in {"free", "announced", "working", "calling", "waiting",
                    "reporting", "done", "rejected"}
    /\ t.parent \in Tasks \cup {NoTask}
    /\ t.result \in Results /\ t.reported \subseteq Results
    /\ t.owed \in CallTokens \cup {0}
    /\ t.kids \subseteq Tasks
Employed(t) == t.agent \in Agents /\ t.depth \in 0..MaxDepth

\* A call that was rejected may have asked for anything.
CallTyped(t) ==
    /\ Fits(t)
    /\ t.state = "free" => t = NoCall
    /\ t.state \notin {"free", "rejected"} => Employed(t)
    /\ t.state = "calling" => Head(t.todo).call \in {"complete", "embed"}

\* A task is in the chain once, while it calls.
Chained ==
    /\ queue \in Seq(Tasks)
    /\ \A i, j \in 1..Len(queue) : queue[i] = queue[j] => i = j
    /\ \A k \in Tasks : task[k].owed > 0 => MyTurn(k)
    /\ \A k \in Tasks : task[k].state = "calling" <=> InQueue(k)

Typed ==
    /\ snapshot \in Snapshots
    /\ task = [k \in Tasks |-> task[k]] /\ \A k \in Tasks : CallTyped(task[k])
    /\ Chained
    /\ spent \in Nat /\ served \in Nat
    /\ faults \in 0..MaxFaults /\ restarts \in 0..MaxRestarts

\* Tokens of the head of the chain that were charged and not yet recorded.
Pending ==
    IF queue # <<>> /\ Current(Head(queue)).call = "complete"
    THEN task[Head(queue)].owed ELSE 0

\* The most that the ledger of one life can hold.
Life == Budget + MostTokens - 1

Ledger ==
    /\ spent <= Life
    /\ Pending > 0 => spent < Budget
    /\ served <= spent + Pending + restarts * Life + faults * MostTokens

\* The children that a task waits for, or waited for last, are its own.
Family ==
    /\ \A k \in Tasks : \A j \in task[k].kids :
          task[j].parent = k /\ task[j].state # "free"
    /\ CallersOutliveCallees

---------------------------------------------------------------------------
\* Task k goes on outside the chain: it is not rejected, a caller goes on
\* when its children have settled, and nobody appears under a caller.
Quiet(k, x) ==
    /\ task' = [task EXCEPT ![k] = x] /\ CallTyped(x)
    /\ UNCHANGED <<snapshot, queue, spent, served, restarts>>
    /\ faults' = faults \/ OneFault
    /\ task[k].state \notin {"calling", "rejected", "done"}
    /\ task[k].state = "waiting" => Settled(k)
    /\ x.state \notin {"free", "calling", "waiting"}
    /\ x.owed \in {0, task[k].owed} /\ x.kids \subseteq task[k].kids
    /\ \/ x.parent = task[k].parent /\ task[k].state # "free"
       \/ x.parent = NoTask /\ task[k].state = "free"

USE CallsAssumption

\* A call may use MostTokens, which is positive.
LEMMA MostIsMost ==
    /\ MostTokens \in Nat \ {0} /\ \A n \in CallTokens : n <= MostTokens
    /\ Life \in Nat
<1>1. \E n \in CallTokens : \A m \in CallTokens : m <= n
  BY DEF CallsAssumption
<1>2. MostTokens \in CallTokens /\ \A n \in CallTokens : n <= MostTokens
  BY <1>1 DEF MostTokens
<1> QED
  BY <1>2 DEF Life, CallsAssumption

\* What the helpers on the records of tasks do.
LEMMA Fields ==
    ASSUME NEW t, Fits(t), Employed(t)
    PROVE  /\ CallTyped(Advanced(t)) /\ Advanced(t).state = "working"
           /\ Advanced(t).parent = t.parent /\ Advanced(t).kids = {} /\ Advanced(t).owed = 0
           /\ CallTyped(Thrown(t)) /\ Thrown(t).state = "reporting"
           /\ Thrown(t).parent = t.parent /\ Thrown(t).kids = {} /\ Thrown(t).owed = 0
<1> DEFINE a == Advanced(t)
           b == Thrown(t)
<1>1. /\ a.state = "working" /\ a.agent = t.agent /\ a.parent = t.parent /\ a.depth = t.depth
      /\ a.kids = {} /\ a.owed = 0 /\ a.result = t.result /\ a.reported = t.reported
      /\ IsCall(a)
  BY DEF Fits, IsCall, Advanced
<1>2. /\ b.state = "reporting" /\ b.agent = t.agent /\ b.parent = t.parent
      /\ b.depth = t.depth /\ b.kids = {} /\ b.owed = 0 /\ b.result = "failed"
      /\ b.reported = t.reported /\ IsCall(b)
  BY DEF Fits, IsCall, Thrown
<1> HIDE DEF a, b
<1>3. CallTyped(a) /\ CallTyped(b)
  BY <1>1, <1>2 DEF CallTyped, Fits, Employed, Results
<1> QED
  BY <1>1, <1>2, <1>3 DEF a, b

\* An outcome is found, and its event is published.
LEMMA OutcomeFields ==
    ASSUME NEW t, CallTyped(t), t.state \notin {"free", "rejected"},
           NEW r \in Results, NEW sent \in SUBSET Results
    PROVE  /\ CallTyped(Ended(t, r)) /\ Ended(t, r).state = "reporting"
           /\ Ended(t, r).parent = t.parent /\ Ended(t, r).kids = t.kids
           /\ Ended(t, r).owed = t.owed
           /\ CallTyped(Sent(t, sent)) /\ Sent(t, sent).state = t.state
           /\ Sent(t, sent).parent = t.parent /\ Sent(t, sent).kids = t.kids
           /\ Sent(t, sent).owed = t.owed
<1> DEFINE a == Ended(t, r)
           b == Sent(t, sent)
<1>1. /\ a.state = "reporting" /\ a.agent = t.agent /\ a.parent = t.parent
      /\ a.depth = t.depth /\ a.kids = t.kids /\ a.owed = t.owed /\ a.result = r
      /\ a.reported = t.reported /\ IsCall(a)
  BY DEF CallTyped, Fits, IsCall, Ended
<1>2. /\ b.state = t.state /\ b.agent = t.agent /\ b.parent = t.parent /\ b.depth = t.depth
      /\ b.kids = t.kids /\ b.owed = t.owed /\ b.result = t.result
      /\ b.reported = t.reported \cup sent /\ b.todo = t.todo /\ IsCall(b)
  BY DEF CallTyped, Fits, IsCall, Sent
<1> HIDE DEF a, b
<1>3. CallTyped(a) /\ CallTyped(b)
  BY <1>1, <1>2 DEF CallTyped, Fits, Employed
<1> QED
  BY <1>1, <1>2, <1>3 DEF a, b

\* A task is admitted, and works, or is refused.
LEMMA AdmittedFields ==
    ASSUME NEW t, Fits(t), Employed(t), NEW x \in Admitted(t)
    PROVE  /\ CallTyped(x) /\ x.state \in {"working", "reporting"}
           /\ x.parent = t.parent /\ x.kids \subseteq t.kids /\ x.owed \in {0, t.owed}
<1>1. CASE x = Thrown(t)
  BY <1>1, Fields
<1>2. CASE \E p \in Program[t.agent] : x = [t EXCEPT !.state = "working", !.todo = p]
  <2>1. /\ x.state = "working" /\ x.agent = t.agent /\ x.parent = t.parent
        /\ x.depth = t.depth /\ x.kids = t.kids /\ x.owed = t.owed /\ x.result = t.result
        /\ x.reported = t.reported /\ IsCall(x)
    BY <1>2 DEF CallTyped, Fits, IsCall
  <2> QED
    BY <2>1 DEF CallTyped, Fits, Employed
<1> QED
  BY <1>1, <1>2 DEF Admitted

\* A task that nobody uses.
LEMMA FreeCall == CallTyped(NoCall)
BY DEF CallTyped, Fits, IsCall, NoCall, Results, Tasks, NoTask, CallsAssumption

\* The steps of a task outside the chain, delegation apart.
LEMMA QuietSteps ==
    ASSUME Typed, NEW k \in Tasks,
           \/ Start(k) \/ UseMemory(k) \/ InvokeSkill(k) \/ UseTool(k) \/ AwaitApproval(k)
           \/ CallThrows(k) \/ RefuseOrchestration(k) \/ Resume(k) \/ Return(k)
           \/ Report(k) \/ ReportFails(k)
    PROVE  \E x : Quiet(k, x)
<1> DEFINE t == task[k]
<1>1. CallTyped(t) /\ task = [j \in Tasks |-> task[j]]
  BY DEF Typed
<1>2. ASSUME NEW x, task' = [task EXCEPT ![k] = x],
             UNCHANGED <<snapshot, queue, spent, served, restarts>>,
             faults' = faults \/ OneFault,
             t.state \notin {"free", "calling", "rejected", "done"},
             t.state = "waiting" => Settled(k),
             CallTyped(x), x.state \notin {"free", "calling", "waiting"},
             x.owed \in {0, t.owed}, x.kids \subseteq t.kids, x.parent = t.parent
      PROVE  \E y : Quiet(k, y)
  BY <1>2 DEF Quiet
<1> HIDE DEF t
<1>3. ASSUME t.state \notin {"free", "rejected"}, NEW x \in {Advanced(t), Thrown(t)}
      PROVE  /\ CallTyped(x) /\ x.state \in {"working", "reporting"}
             /\ x.owed = 0 /\ x.kids = {} /\ x.parent = t.parent
  BY <1>1, <1>3, Fields DEF CallTyped
<1>4. CASE Start(k)
  <2>1. /\ t.state = "announced"
        /\ \E x \in Admitted(t) : task' = [task EXCEPT ![k] = x]
        /\ UNCHANGED <<snapshot, queue, spent, served, restarts, faults>>
    BY <1>4 DEF Start, t
  <2>2. PICK x \in Admitted(t) : task' = [task EXCEPT ![k] = x]
    BY <2>1
  <2>3. /\ CallTyped(x) /\ x.state \in {"working", "reporting"}
        /\ x.parent = t.parent /\ x.kids \subseteq t.kids /\ x.owed \in {0, t.owed}
    BY <1>1, <2>1, <2>2, AdmittedFields DEF CallTyped
  <2> QED
    BY <1>2, <2>1, <2>2, <2>3
<1>5. CASE UseMemory(k) \/ InvokeSkill(k) \/ UseTool(k) \/ RefuseOrchestration(k)
  <2>1. /\ t.state = "working"
        /\ \E x \in {Advanced(t), Thrown(t)} : task' = [task EXCEPT ![k] = x]
        /\ UNCHANGED <<snapshot, queue, spent, served, restarts, faults>>
    BY <1>5 DEF UseMemory, InvokeSkill, UseTool, RefuseOrchestration, Doing, t
  <2> QED
    BY <1>2, <1>3, <2>1
<1>6. CASE CallThrows(k)
  <2>1. /\ t.state = "working" /\ task' = [task EXCEPT ![k] = Thrown(t)] /\ OneFault
        /\ UNCHANGED <<snapshot, queue, spent, served, restarts>>
    BY <1>6 DEF CallThrows, t
  <2> QED
    BY <1>2, <1>3, <2>1
<1>7. CASE Resume(k)
  <2>1. /\ t.state = "waiting" /\ Settled(k)
        /\ \E x \in {Advanced(t), Thrown(t)} : task' = [task EXCEPT ![k] = x]
        /\ UNCHANGED <<snapshot, queue, spent, served, restarts, faults>>
    BY <1>7 DEF Resume, t
  <2> QED
    BY <1>2, <1>3, <2>1
<1>8. CASE AwaitApproval(k) \/ Return(k)
  <2>1. /\ t.state = "working"
        /\ \E r \in Results : task' = [task EXCEPT ![k] = Ended(t, r)]
        /\ UNCHANGED <<snapshot, queue, spent, served, restarts, faults>>
    BY <1>8 DEF AwaitApproval, Return, Doing, Results, t
  <2>2. PICK r \in Results : task' = [task EXCEPT ![k] = Ended(t, r)]
    BY <2>1
  <2>3. /\ CallTyped(Ended(t, r)) /\ Ended(t, r).state = "reporting"
        /\ Ended(t, r).parent = t.parent /\ Ended(t, r).kids = t.kids
        /\ Ended(t, r).owed = t.owed
    BY <1>1, <2>1, OutcomeFields
  <2> QED
    BY <1>2, <2>1, <2>2, <2>3
<1>9. CASE Report(k)
  <2> DEFINE s == Sent(t, {t.result})
             x == [s EXCEPT !.state = "done"]
  <2>1. /\ t.state = "reporting" /\ task' = [task EXCEPT ![k] = x]
        /\ UNCHANGED <<snapshot, queue, spent, served, restarts, faults>>
    BY <1>9 DEF Report, t
  <2>2. CallTyped(s) /\ s.parent = t.parent /\ s.kids = t.kids /\ s.owed = t.owed
        /\ s.state = t.state
    BY <1>1, <2>1, OutcomeFields DEF CallTyped, Fits
  <2> HIDE DEF s
  <2>3. /\ x.state = "done" /\ x.agent = s.agent /\ x.parent = s.parent /\ x.depth = s.depth
        /\ x.kids = s.kids /\ x.owed = s.owed /\ x.result = s.result
        /\ x.reported = s.reported /\ IsCall(x)
    BY <2>2 DEF CallTyped, Fits, IsCall
  <2> HIDE DEF x
  <2>4. CallTyped(x)
    BY <2>1, <2>2, <2>3 DEF CallTyped, Fits, Employed
  <2> QED
    BY <1>2, <2>1, <2>2, <2>3, <2>4
<1>10. CASE ReportFails(k)
  <2>1. PICK sent \in {{}, {t.result}} :
          task' = [task EXCEPT ![k] = IF Sent(t, sent).result = "completed"
                                      THEN Thrown(Sent(t, sent))
                                      ELSE [Sent(t, sent) EXCEPT !.state = "rejected"]]
    BY <1>10 DEF ReportFails, t
  <2> DEFINE s == Sent(t, sent)
             x == [s EXCEPT !.state = "rejected"]
  <2>2. /\ t.state = "reporting" /\ OneFault
        /\ UNCHANGED <<snapshot, queue, spent, served, restarts>>
    BY <1>10 DEF ReportFails, t
  <2>3. CallTyped(s) /\ s.parent = t.parent /\ s.kids = t.kids /\ s.owed = t.owed
        /\ s.state = t.state
    BY <1>1, <2>2, OutcomeFields DEF CallTyped, Fits
  <2>4. \/ task' = [task EXCEPT ![k] = Thrown(s)]
        \/ task' = [task EXCEPT ![k] = x]
    BY <2>1
  <2> HIDE DEF s
  <2>5. /\ CallTyped(Thrown(s)) /\ Thrown(s).state = "reporting"
        /\ Thrown(s).parent = s.parent /\ Thrown(s).kids = {} /\ Thrown(s).owed = 0
    BY <2>2, <2>3, Fields DEF CallTyped
  <2>6. /\ x.state = "rejected" /\ x.parent = s.parent /\ x.kids = s.kids /\ x.owed = s.owed
        /\ x.result = s.result /\ x.reported = s.reported /\ IsCall(x)
    BY <2>3 DEF CallTyped, Fits, IsCall
  <2> HIDE DEF x
  <2>7. CallTyped(x)
    BY <2>3, <2>6 DEF CallTyped, Fits
  <2> QED
    BY <1>2, <2>2, <2>3, <2>4, <2>5, <2>6, <2>7
<1> QED
  BY <1>4, <1>5, <1>6, <1>7, <1>8, <1>9, <1>10

\* The root task begins.
LEMMA QuietBegin ==
    ASSUME Typed, NEW a \in Agents, Begin(a) PROVE \E x : Quiet(Root, x)
<1> DEFINE t == [NoCall EXCEPT !.agent = a]
<1>1. /\ t.state = "free" /\ t.agent = a /\ t.parent = NoTask /\ t.depth = 0 /\ t.kids = {}
      /\ t.owed = 0 /\ t.result = "none" /\ t.reported = {} /\ IsCall(t)
  BY DEF NoCall, IsCall
<1>2. /\ task[Root].state = "free"
      /\ \E x \in Admitted(t) : task' = [task EXCEPT ![Root] = x]
      /\ UNCHANGED <<snapshot, queue, spent, served, restarts, faults>>
  BY DEF Begin
<1> HIDE DEF t
<1>3. Fits(t) /\ Employed(t)
  BY <1>1 DEF Fits, Employed, Results, NoTask, CallsAssumption
<1>4. PICK x \in Admitted(t) : task' = [task EXCEPT ![Root] = x]
  BY <1>2
<1>5. /\ CallTyped(x) /\ x.state \in {"working", "reporting"}
      /\ x.parent = t.parent /\ x.kids \subseteq t.kids /\ x.owed \in {0, t.owed}
  BY <1>1, <1>3, <1>4, AdmittedFields
<1> QED
  BY <1>1, <1>2, <1>4, <1>5 DEF Quiet

---------------------------------------------------------------------------
(* What keeps the family                                                   *)

\* One task goes on: it is not rejected before, nor waiting after.
LEMMA FamilyKept ==
    ASSUME Typed, Family, NEW k \in Tasks, NEW x, task' = [task EXCEPT ![k] = x],
           task[k].state \notin {"rejected", "done"},
           task[k].state = "waiting" => Settled(k),
           x.state \notin {"free", "waiting"}, x.kids \subseteq task[k].kids,
           \/ x.parent = task[k].parent /\ task[k].state # "free"
           \/ x.parent = NoTask /\ task[k].state = "free"
    PROVE  Family'
<1>1. (\A j \in Tasks : j # k => task'[j] = task[j]) /\ task'[k] = x
  BY DEF Typed
<1>2. \A j \in Tasks : task[j].kids \subseteq Tasks /\ task[j].parent \in Tasks \cup {NoTask}
  BY DEF Typed, CallTyped, Fits
<1>3. ASSUME NEW p \in Tasks, NEW j \in task'[p].kids
      PROVE  task'[j].parent = p /\ task'[j].state # "free"
  <2>1. j \in task[p].kids /\ j \in Tasks
    BY <1>1, <1>2, <1>3
  <2>2. task[j].parent = p /\ task[j].state # "free"
    BY <2>1 DEF Family
  <2> QED
    BY <1>1, <2>1, <2>2
<1>4. ASSUME NEW j \in Tasks, Running(j)', task'[j].parent # NoTask
      PROVE  \/ /\ task'[task'[j].parent].state = "waiting"
                /\ j \in task'[task'[j].parent].kids
             \/ \E i \in Tasks :
                   task'[i].parent = task'[j].parent /\ task'[i].state = "rejected"
  <2>1. task'[j].parent = task[j].parent /\ Running(j)
    BY <1>1, <1>4 DEF Running
  <2> DEFINE p == task[j].parent
  <2>2. p \in Tasks
    BY <1>2, <1>4, <2>1
  <2>3. \/ task[p].state = "waiting" /\ j \in task[p].kids
        \/ \E i \in Tasks : task[i].parent = p /\ task[i].state = "rejected"
    BY <1>4, <2>1 DEF Family, CallersOutliveCallees
  <2>4. ASSUME NEW i \in Tasks, task[i].parent = p, task[i].state = "rejected"
        PROVE  task'[i].parent = p /\ task'[i].state = "rejected"
    BY <1>1, <2>4
  <2>5. CASE task[p].state = "waiting" /\ j \in task[p].kids /\ p # k
    BY <1>1, <2>1, <2>2, <2>5
  <2>6. CASE task[p].state = "waiting" /\ j \in task[p].kids /\ p = k
    <3>1. task[j].state # "done"
      BY <2>1 DEF Running
    <3>2. PICK i \in task[k].kids : task[i].state = "rejected"
      BY <2>6, <3>1 DEF Settled
    <3>3. i \in Tasks /\ task[i].parent = p
      BY <1>2, <2>6, <3>2 DEF Family
    <3> QED
      BY <2>1, <2>4, <3>2, <3>3
  <2> QED
    BY <2>1, <2>3, <2>4, <2>5, <2>6
<1> QED
  BY <1>3, <1>4 DEF Family, CallersOutliveCallees

---------------------------------------------------------------------------
(* The chain and the ledger                                                *)

\* The head of the chain is a calling task.
LEMMA HeadCalls ==
    ASSUME Typed, queue # <<>>
    PROVE  /\ Head(queue) \in Tasks /\ Head(queue) = queue[1]
           /\ task[Head(queue)].state = "calling" /\ Len(queue) \in Nat \ {0}
<1>1. /\ Len(queue) \in Nat \ {0} /\ Head(queue) = queue[1] /\ queue[1] \in Tasks
  BY DEF Typed, Chained
<1>2. InQueue(Head(queue))
  BY <1>1 DEF InQueue
<1> QED
  BY <1>1, <1>2 DEF Typed, Chained

\* A task outside the chain owes nothing.
LEMMA OnlyCallersOwe ==
    ASSUME Typed, NEW k \in Tasks, task[k].state # "calling" PROVE task[k].owed = 0
<1>1. task[k].owed \in Nat
  BY DEF Typed, CallTyped, Fits, CallsAssumption
<1>2. task[k].owed > 0 => MyTurn(k)
  BY DEF Typed, Chained
<1> QED
  BY <1>1, <1>2, HeadCalls DEF MyTurn

\* What is pending is one call.
LEMMA PendingBounds ==
    ASSUME Typed PROVE Pending \in Nat /\ Pending <= MostTokens
<1>1. queue # <<>> => task[Head(queue)].owed \in CallTokens \cup {0}
  BY HeadCalls DEF Typed, CallTyped, Fits
<1>2. Pending = 0 \/ Pending \in CallTokens
  BY <1>1 DEF Pending
<1>3. CallTokens \subseteq Nat
  BY DEF CallsAssumption
<1>4. CASE Pending = 0
  BY <1>4, MostIsMost
<1>5. CASE Pending \in CallTokens
  <2>1. Pending \in Nat /\ Pending <= MostTokens
    BY <1>3, <1>5, MostIsMost
  <2> QED
    BY <2>1
<1> QED
  BY <1>2, <1>4, <1>5

\* One life, or one fault, more.
LEMMA OneMore == \A n, m \in Nat : (n + 1) * m = n * m + m /\ n * m \in Nat
OBVIOUS

\* A task goes on outside the chain.
LEMMA QuietKeeps ==
    ASSUME Typed, Ledger, Family, NEW k \in Tasks, NEW x, Quiet(k, x)
    PROVE  Typed' /\ Ledger' /\ Family'
<1>1. /\ \A j \in Tasks : j # k => task'[j] = task[j]
      /\ task'[k] = x /\ task' = [j \in Tasks |-> task'[j]]
      /\ UNCHANGED <<snapshot, queue, spent, served, restarts>>
  BY DEF Typed, Quiet
<1>2. x.owed = 0 /\ x.state # "calling" /\ task[k].state # "calling"
  BY OnlyCallersOwe DEF Quiet
<1>3. \A j : (MyTurn(j)' <=> MyTurn(j)) /\ (InQueue(j)' <=> InQueue(j))
  BY <1>1 DEF MyTurn, InQueue
<1>4. Chained'
  BY <1>1, <1>2, <1>3 DEF Typed, Chained
<1>5. faults' \in 0..MaxFaults /\ (faults' = faults \/ faults' = faults + 1)
  BY DEF Quiet, OneFault, Typed, CallsAssumption
<1>6. Typed'
  BY <1>1, <1>4, <1>5 DEF Typed, Quiet
<1>7. Pending' = Pending
  BY <1>1, <1>2, HeadCalls DEF Pending, Current
<1>8. faults * MostTokens <= faults' * MostTokens
  BY <1>5, OneMore, MostIsMost DEF Typed
<1>9. Ledger'
  <2>3. /\ faults * MostTokens \in Nat /\ restarts * Life \in Nat
        /\ faults' * MostTokens \in Nat
    BY <1>5, OneMore, MostIsMost DEF Typed
  <2>4. spent + Pending + restarts * Life + faults * MostTokens
          <= spent + Pending + restarts * Life + faults' * MostTokens
    BY <1>8, <2>3, PendingBounds DEF Typed
  <2> QED
    BY <1>1, <1>7, <2>3, <2>4, PendingBounds DEF Ledger, Typed, Life
<1>10. Family'
  BY FamilyKept DEF Quiet
<1> QED
  BY <1>6, <1>9, <1>10

\* A model call enters the chain.
LEMMA EnqueueKeeps ==
    ASSUME Typed, Ledger, Family, NEW k \in Tasks, Enqueue(k)
    PROVE  Typed' /\ Ledger' /\ Family'
<1> DEFINE x == [task[k] EXCEPT !.state = "calling"]
<1>1. /\ task[k].state = "working" /\ task' = [task EXCEPT ![k] = x]
      /\ queue' = Append(queue, k) /\ UNCHANGED <<snapshot, spent, served, faults, restarts>>
      /\ Head(task[k].todo).call \in {"complete", "embed"}
  BY DEF Enqueue, Doing, Current
<1>2. /\ x.state = "calling" /\ x.agent = task[k].agent /\ x.parent = task[k].parent
      /\ x.depth = task[k].depth /\ x.kids = task[k].kids /\ x.owed = task[k].owed
      /\ x.result = task[k].result /\ x.reported = task[k].reported /\ x.todo = task[k].todo
      /\ IsCall(x)
  BY DEF Typed, CallTyped, Fits, IsCall
<1> HIDE DEF x
<1>3. CallTyped(x)
  BY <1>1, <1>2 DEF Typed, CallTyped, Fits, Employed
<1>4. /\ \A j \in Tasks : j # k => task'[j] = task[j]
      /\ task'[k] = x /\ task' = [j \in Tasks |-> task'[j]]
  BY <1>1 DEF Typed
<1>5. x.owed = 0 /\ ~ InQueue(k)
  BY <1>1, <1>2, OnlyCallersOwe DEF Typed, Chained
<1>6. /\ queue \in Seq(Tasks) /\ queue' \in Seq(Tasks) /\ Len(queue') = Len(queue) + 1
      /\ Len(queue) \in Nat /\ queue'[Len(queue) + 1] = k
      /\ \A i \in 1..Len(queue) : queue'[i] = queue[i]
      /\ queue' # <<>> /\ Head(queue') = queue'[1]
      /\ queue # <<>> => Head(queue') = Head(queue)
      /\ queue = <<>> => Head(queue') = k
  BY <1>1 DEF Typed, Chained
<1>7. \A j : InQueue(j)' <=> InQueue(j) \/ j = k
  BY <1>6 DEF InQueue
<1>8. \A i, j \in 1..Len(queue') : queue'[i] = queue'[j] => i = j
  <2> SUFFICES ASSUME NEW i \in 1..Len(queue'), NEW j \in 1..Len(queue'),
                      queue'[i] = queue'[j]
               PROVE  i = j
    OBVIOUS
  <2>1. CASE i \in 1..Len(queue) /\ j \in 1..Len(queue)
    BY <1>6, <2>1 DEF Typed, Chained
  <2>2. CASE i \notin 1..Len(queue) \/ j \notin 1..Len(queue)
    BY <1>5, <1>6, <2>2 DEF InQueue
  <2> QED
    BY <2>1, <2>2
<1>9. \A j \in Tasks : task'[j].owed > 0 => MyTurn(j)'
  BY <1>4, <1>5, <1>6, SMTT(30) DEF MyTurn, Typed, Chained
<1>10. \A j \in Tasks : task'[j].state = "calling" <=> InQueue(j)'
  BY <1>2, <1>4, <1>7 DEF Typed, Chained
<1>11. Typed'
  BY <1>1, <1>3, <1>4, <1>6, <1>8, <1>9, <1>10 DEF Typed, Chained
<1>12. Pending' = Pending
  <2>1. CASE queue = <<>>
    BY <1>4, <1>5, <1>6, <2>1 DEF Pending
  <2>2. CASE queue # <<>>
    BY <1>1, <1>4, <1>6, <2>2, HeadCalls DEF Pending, Current
  <2> QED
    BY <2>1, <2>2
<1>13. Ledger'
  BY <1>1, <1>12 DEF Ledger, Life
<1>14. Family'
  BY <1>1, <1>2, FamilyKept
<1> QED
  BY <1>11, <1>13, <1>14

\* A call at the head of the chain is over.
LEMMA SettleTyped ==
    ASSUME Typed, Family, NEW k \in Tasks, MyTurn(k),
           NEW x \in {Advanced(task[k]), Thrown(task[k])}, Settle(k, x),
           UNCHANGED <<snapshot, served, restarts>>,
           spent' \in Nat, faults' \in 0..MaxFaults
    PROVE  Typed' /\ Family' /\ Pending' = 0
<1>1. /\ task[k].state = "calling" /\ queue # <<>> /\ queue[1] = k
      /\ task' = [task EXCEPT ![k] = x] /\ queue' = Tail(queue)
  BY HeadCalls DEF MyTurn, Settle
<1>2. /\ CallTyped(x) /\ x.state \in {"working", "reporting"} /\ x.owed = 0
      /\ x.parent = task[k].parent /\ x.kids = {}
  BY <1>1, Fields, SMTT(30) DEF Typed, CallTyped
<1>3. /\ \A j \in Tasks : j # k => task'[j] = task[j]
      /\ task'[k] = x /\ task' = [j \in Tasks |-> task'[j]]
  BY <1>1 DEF Typed
<1>4. /\ queue \in Seq(Tasks) /\ queue' \in Seq(Tasks) /\ Len(queue') = Len(queue) - 1
      /\ Len(queue) \in Nat \ {0}
      /\ \A i \in 1..Len(queue') : queue'[i] = queue[i + 1]
  BY <1>1 DEF Typed, Chained
<1>5. \A i, j \in 1..Len(queue) : queue[i] = queue[j] => i = j
  BY DEF Typed, Chained
<1>6. \A i, j \in 1..Len(queue') : queue'[i] = queue'[j] => i = j
  <2> SUFFICES ASSUME NEW i \in 1..Len(queue'), NEW j \in 1..Len(queue'),
                      queue'[i] = queue'[j]
               PROVE  i = j
    OBVIOUS
  <2>1. i + 1 \in 1..Len(queue) /\ j + 1 \in 1..Len(queue) /\ queue[i + 1] = queue[j + 1]
    BY <1>4, SMTT(30)
  <2>2. i + 1 = j + 1
    BY <1>5, <2>1
  <2> QED
    BY <2>2
<1>7. \A j \in Tasks : InQueue(j)' <=> InQueue(j) /\ j # k
  <2>1. ASSUME NEW j \in Tasks, InQueue(j)' PROVE InQueue(j) /\ j # k
    <3>1. PICK i \in 1..Len(queue') : queue'[i] = j
      BY <2>1 DEF InQueue
    <3>2. i + 1 \in 1..Len(queue) /\ queue[i + 1] = j /\ 1 \in 1..Len(queue) /\ i + 1 # 1
      BY <1>4, <3>1
    <3> QED
      BY <1>1, <1>5, <3>2 DEF InQueue
  <2>2. ASSUME NEW j \in Tasks, InQueue(j), j # k PROVE InQueue(j)'
    <3>1. PICK i \in 1..Len(queue) : queue[i] = j
      BY <2>2 DEF InQueue
    <3>2. i - 1 \in 1..Len(queue') /\ queue'[i - 1] = j
      BY <1>1, <1>4, <2>2, <3>1
    <3> QED
      BY <3>2 DEF InQueue
  <2> QED
    BY <2>1, <2>2
<1>8. \A j \in Tasks : task'[j].owed = 0
  <2>1. ASSUME NEW j \in Tasks, j # k PROVE task[j].owed = 0
    <3>1. task[j].owed \in Nat /\ ~ MyTurn(j)
      BY <2>1 DEF MyTurn, Typed, CallTyped, Fits, CallsAssumption
    <3> QED
      BY <3>1 DEF Typed, Chained
  <2> QED
    BY <1>2, <1>3, <2>1
<1>9. \A j \in Tasks : task'[j].state = "calling" <=> InQueue(j)'
  BY <1>2, <1>3, <1>7 DEF Typed, Chained
<1>10. Typed'
  <2>1. \A j \in Tasks : task'[j].owed > 0 => MyTurn(j)'
    BY <1>8
  <2> QED
    BY <1>2, <1>3, <1>4, <1>6, <1>9, <2>1 DEF Typed, Chained
<1>11. Pending' = 0
  <2>1. queue' # <<>> => Head(queue') \in Tasks
    BY <1>4
  <2> QED
    BY <1>8, <2>1 DEF Pending
<1>12. Family'
  BY <1>1, <1>2, FamilyKept
<1> QED
  BY <1>10, <1>11, <1>12

\* A call is refused, recorded or lost.
LEMMA SettleKeeps ==
    ASSUME Typed, Ledger, Family, NEW k \in Tasks,
           RefuseCall(k) \/ Record(k) \/ RefuseEmbed(k) \/ CallFails(k)
    PROVE  Typed' /\ Ledger' /\ Family'
<1>1. /\ MyTurn(k) /\ \E x \in {Advanced(task[k]), Thrown(task[k])} : Settle(k, x)
      /\ UNCHANGED <<snapshot, served, restarts>>
  BY DEF RefuseCall, Record, RefuseEmbed, CallFails
<1>2. /\ task[k].owed \in Nat /\ task[k].owed <= MostTokens /\ MostTokens \in Nat \ {0}
      /\ spent \in Nat /\ served \in Nat /\ faults \in Nat /\ restarts \in Nat
      /\ Budget \in Nat /\ Life \in Nat
      /\ faults * MostTokens \in Nat /\ restarts * Life \in Nat
      /\ (faults + 1) * MostTokens = faults * MostTokens + MostTokens
  BY MostIsMost, OneMore DEF Typed, CallTyped, Fits, CallsAssumption
<1>3. spent' \in Nat /\ faults' \in 0..MaxFaults
  BY <1>2 DEF RefuseCall, Record, RefuseEmbed, CallFails, OneFault, Typed
<1>4. Typed' /\ Family' /\ Pending' = 0
  BY <1>1, <1>3, SettleTyped
<1>5. Pending = IF Current(k).call = "complete" THEN task[k].owed ELSE 0
  BY <1>1 DEF MyTurn, Pending
<1>6. CASE RefuseCall(k) \/ RefuseEmbed(k)
  <2>1. Pending = 0 /\ UNCHANGED <<spent, served, restarts, faults>>
    BY <1>5, <1>6 DEF RefuseCall, RefuseEmbed
  <2> QED
    BY <1>4, <2>1 DEF Ledger, Life
<1>7. CASE Record(k)
  <2>1. /\ spent' = spent + task[k].owed /\ task[k].owed > 0
        /\ UNCHANGED <<served, restarts, faults>>
        /\ Current(k).call = "embed" => spent < Budget
    BY <1>2, <1>7 DEF Record, Exhausted
  <2>2. Current(k).call \in {"complete", "embed"}
    BY <1>1, HeadCalls DEF MyTurn, Current, Typed, CallTyped, Fits
  <2>3. spent < Budget
    BY <1>5, <2>1, <2>2 DEF Ledger
  <2>4. spent' <= Life
    BY <1>2, <2>1, <2>3 DEF Life
  <2>5. spent + Pending <= spent'
    BY <1>2, <1>5, <2>1
  <2> QED
    BY <1>2, <1>4, <1>5, <2>1, <2>4, <2>5 DEF Ledger, Life
<1>8. CASE CallFails(k)
  <2>1. UNCHANGED <<spent, served, restarts>> /\ faults' = faults + 1
    BY <1>8 DEF CallFails, OneFault
  <2>2. Pending <= MostTokens /\ Pending \in Nat
    BY PendingBounds
  <2>3. faults' * MostTokens = faults * MostTokens + MostTokens
    BY <1>2, <2>1
  <2> QED
    BY <1>2, <1>4, <2>1, <2>2, <2>3 DEF Ledger, Life
<1> QED
  BY <1>4, <1>6, <1>7, <1>8

\* The provider answers.
LEMMA ServeKeeps ==
    ASSUME Typed, Ledger, Family, NEW k \in Tasks, NEW n \in CallTokens, Serve(k, n)
    PROVE  Typed' /\ Ledger' /\ Family'
<1> DEFINE x == [task[k] EXCEPT !.owed = n]
<1>1. /\ MyTurn(k) /\ task[k].owed = 0 /\ task' = [task EXCEPT ![k] = x]
      /\ queue # <<>> /\ Head(queue) = k /\ task[k].state = "calling"
      /\ UNCHANGED <<snapshot, queue, spent, faults, restarts>>
  BY HeadCalls DEF Serve, MyTurn
<1>2. /\ x.state = task[k].state /\ x.agent = task[k].agent /\ x.parent = task[k].parent
      /\ x.depth = task[k].depth /\ x.kids = task[k].kids /\ x.owed = n
      /\ x.result = task[k].result /\ x.reported = task[k].reported /\ x.todo = task[k].todo
      /\ IsCall(x)
  BY DEF Typed, CallTyped, Fits, IsCall
<1> HIDE DEF x
<1>3. CallTyped(x)
  BY <1>1, <1>2 DEF Typed, CallTyped, Fits, Employed
<1>4. /\ \A j \in Tasks : j # k => task'[j] = task[j]
      /\ task'[k] = x /\ task' = [j \in Tasks |-> task'[j]]
  BY <1>1 DEF Typed
<1>5. \A j : (MyTurn(j)' <=> MyTurn(j)) /\ (InQueue(j)' <=> InQueue(j))
  BY <1>1 DEF MyTurn, InQueue
<1>6. Chained'
  BY <1>1, <1>2, <1>4, <1>5 DEF Typed, Chained
<1>7. n \in Nat /\ spent \in Nat /\ served \in Nat /\ Budget \in Nat
  BY DEF Typed, CallsAssumption
<1>8. served' = IF Current(k).call = "complete" THEN served + n ELSE served
  BY DEF Serve
<1>9. Typed'
  BY <1>1, <1>3, <1>4, <1>6, <1>7, <1>8 DEF Typed
<1>10. Current(k)' = Current(k)
  BY <1>2, <1>4 DEF Current
<1>11. Pending = 0 /\ Pending' = IF Current(k).call = "complete" THEN n ELSE 0
  BY <1>1, <1>2, <1>4, <1>10 DEF Pending
<1>12. Current(k).call = "complete" => spent < Budget
  BY <1>7 DEF Serve, Exhausted
<1>13. restarts * Life \in Nat /\ faults * MostTokens \in Nat
  BY OneMore, MostIsMost DEF Typed
<1>14. Ledger'
  BY <1>1, <1>7, <1>8, <1>11, <1>12, <1>13 DEF Ledger, Life
<1>15. Family'
  BY <1>1, <1>2, FamilyKept
<1> QED
  BY <1>9, <1>14, <1>15

---------------------------------------------------------------------------
(* Delegation, restarts, and the whole                                     *)

\* The children of a caller: those that are announced may run.
Children(k, targets, rejected, child) ==
    \A a \in targets :
        /\ IsCall(child[a]) /\ child[a].parent = k /\ child[a].kids = {} /\ child[a].owed = 0
        /\ child[a].result = "none" /\ child[a].reported = {}
        /\ a \notin rejected => child[a].agent \in Agents /\ child[a].depth \in 0..MaxDepth

\* A caller starts its children and waits.
LEMMA SpawnKeeps ==
    ASSUME Typed, Ledger, Family, NEW k \in Tasks, NEW targets, NEW rejected, NEW child,
           task[k].state = "working", Spawn(k, targets, rejected, child),
           Children(k, targets, rejected, child),
           UNCHANGED <<snapshot, queue, spent, served, restarts>>,
           faults' = faults \/ OneFault
    PROVE  Typed' /\ Ledger' /\ Family'
<1>1. PICK id \in [targets -> Unused] :
        task' = [j \in Tasks |->
              IF j = k THEN [task[k] EXCEPT !.state = "waiting",
                                            !.kids = {id[a] : a \in targets}]
              ELSE IF \E a \in targets : j = id[a]
              THEN LET a == CHOOSE b \in targets : j = id[b]
                   IN  [child[a] EXCEPT
                           !.state = IF a \in rejected THEN "rejected" ELSE "announced"]
              ELSE task[j]]
  <2> DEFINE f == CHOOSE g \in Slots(targets) : TRUE
  <2>1. f \in Slots(targets)
    BY DEF Spawn
  <2>2. f \in [targets -> Unused]
    BY <2>1 DEF Slots
  <2> QED
    BY <2>2 DEF Spawn
<1> DEFINE New == {id[a] : a \in targets}
           born(a) == [child[a] EXCEPT
                         !.state = IF a \in rejected THEN "rejected" ELSE "announced"]
<1> DEFINE x == [task[k] EXCEPT !.state = "waiting", !.kids = New]
<1>2. \A j \in New : j \in Tasks /\ task[j].state = "free" /\ j # k
  BY <1>1 DEF Unused
<1>3. /\ task' = [j \in Tasks |-> task'[j]] /\ task'[k] = x
      /\ \A j \in Tasks \ ({k} \cup New) : task'[j] = task[j]
  BY <1>1
<1>4. \A j \in New : \E a \in targets : task'[j] = born(a)
  <2>1. SUFFICES ASSUME NEW j \in New PROVE \E a \in targets : task'[j] = born(a)
    OBVIOUS
  <2> DEFINE a == CHOOSE b \in targets : j = id[b]
  <2>2. a \in targets /\ \E b \in targets : j = id[b]
    BY <2>1
  <2>3. task'[j] = born(a)
    BY <1>1, <1>2, <2>1, <2>2
  <2> QED
    BY <2>2, <2>3
<1>5. /\ x.state = "waiting" /\ x.agent = task[k].agent /\ x.parent = task[k].parent
      /\ x.depth = task[k].depth /\ x.kids = New /\ x.owed = task[k].owed
      /\ x.result = task[k].result /\ x.reported = task[k].reported /\ IsCall(x)
  <2> HIDE DEF New
  <2> QED
    BY ZenonT(40) DEF Typed, CallTyped, Fits, IsCall
<1>6. \A a \in targets :
        /\ born(a).state = IF a \in rejected THEN "rejected" ELSE "announced"
        /\ born(a).agent = child[a].agent /\ born(a).parent = k
        /\ born(a).depth = child[a].depth /\ born(a).kids = {} /\ born(a).owed = 0
        /\ born(a).result = "none" /\ born(a).reported = {} /\ IsCall(born(a))
  BY DEF Children, IsCall
<1> HIDE DEF x, born, New
<1>7. CallTyped(x)
  BY <1>2, <1>5 DEF Typed, CallTyped, Fits, Employed
<1>8. \A a \in targets : CallTyped(born(a))
  BY <1>6 DEF Children, CallTyped, Fits, Employed, Results
<1>9. \A j \in Tasks : CallTyped(task'[j])
  BY <1>3, <1>4, <1>7, <1>8 DEF Typed
<1>10. \A j \in New : /\ task'[j].state \in {"announced", "rejected"} /\ task'[j].owed = 0
                      /\ task'[j].parent = k /\ task'[j].kids = {}
  BY <1>4, <1>6
<1>11. task[k].owed = 0
  BY OnlyCallersOwe
<1>12. \A j : (MyTurn(j)' <=> MyTurn(j)) /\ (InQueue(j)' <=> InQueue(j))
  BY DEF MyTurn, InQueue
<1>13. Chained'
  <2>1. \A j \in Tasks : task'[j].owed > 0 => MyTurn(j)'
    BY <1>3, <1>5, <1>10, <1>11, <1>12 DEF Typed, Chained
  <2>2. \A j \in Tasks : task'[j].state = "calling" <=> task[j].state = "calling"
    BY <1>2, <1>3, <1>5, <1>10
  <2> QED
    BY <1>12, <2>1, <2>2 DEF Typed, Chained
<1>14. faults' \in 0..MaxFaults /\ (faults' = faults \/ faults' = faults + 1)
  BY DEF OneFault, Typed, CallsAssumption
<1>15. Typed'
  BY <1>3, <1>9, <1>13, <1>14 DEF Typed
<1>16. Pending' = Pending
  BY <1>2, <1>3, HeadCalls DEF Pending, Current
<1>17. Ledger'
  <2>1. faults * MostTokens <= faults' * MostTokens
    BY <1>14, OneMore, MostIsMost DEF Typed
  <2>2. /\ faults * MostTokens \in Nat /\ restarts * Life \in Nat
        /\ faults' * MostTokens \in Nat
    BY <1>14, OneMore, MostIsMost DEF Typed
  <2>3. spent + Pending + restarts * Life + faults * MostTokens
          <= spent + Pending + restarts * Life + faults' * MostTokens
    BY <2>1, <2>2, PendingBounds DEF Typed
  <2> QED
    BY <1>16, <2>2, <2>3, PendingBounds DEF Ledger, Typed, Life
<1>18. \A p \in Tasks : \A j \in task'[p].kids :
          task'[j].parent = p /\ task'[j].state # "free"
  <2> SUFFICES ASSUME NEW p \in Tasks, NEW j \in task'[p].kids
               PROVE  task'[j].parent = p /\ task'[j].state # "free"
    OBVIOUS
  <2>1. CASE p = k
    BY <1>3, <1>5, <1>10, <2>1
  <2>2. CASE p # k
    <3>1. task'[p] = task[p]
      BY <1>3, <1>10, <2>2
    <3>2. j \in Tasks /\ task[j].parent = p /\ task[j].state # "free"
      BY <3>1 DEF Family, Typed, CallTyped, Fits
    <3> QED
      BY <1>2, <1>3, <1>5, <3>2
  <2> QED
    BY <2>1, <2>2
<1>19. ASSUME NEW j \in Tasks, Running(j)', task'[j].parent # NoTask
       PROVE  \/ /\ task'[task'[j].parent].state = "waiting"
                 /\ j \in task'[task'[j].parent].kids
              \/ \E i \in Tasks :
                    task'[i].parent = task'[j].parent /\ task'[i].state = "rejected"
  <2>1. CASE j \in New
    BY <1>3, <1>5, <1>10, <2>1
  <2>2. CASE j \notin New
    <3>1. task'[j].parent = task[j].parent /\ Running(j)
      BY <1>3, <1>5, <1>19, <2>2 DEF Running
    <3>2. task[j].parent \in Tasks
      BY <1>19, <3>1 DEF Typed, CallTyped, Fits
    <3>3. CASE /\ task[task[j].parent].state = "waiting"
               /\ j \in task[task[j].parent].kids
      BY <1>2, <1>3, <3>1, <3>2, <3>3
    <3>4. ASSUME NEW i \in Tasks, task[i].parent = task[j].parent, task[i].state = "rejected"
          PROVE  task'[i].parent = task'[j].parent /\ task'[i].state = "rejected"
      BY <1>2, <1>3, <3>1, <3>4
    <3> QED
      BY <1>19, <3>1, <3>3, <3>4 DEF Family, CallersOutliveCallees
  <2> QED
    BY <2>1, <2>2
<1> QED
  BY <1>15, <1>17, <1>18, <1>19 DEF Family, CallersOutliveCallees

\* Delegations and consultations.
LEMMA CallersKeep ==
    ASSUME Typed, Ledger, Family, NEW k \in Tasks, Orchestrate(k) \/ AnnounceFails(k)
    PROVE  Typed' /\ Ledger' /\ Family'
<1>1. faults' = faults \/ OneFault
  BY DEF Orchestrate, AnnounceFails
<1>2. PICK fails : DelegateTo(k, fails) \/ AskFor(k, fails)
  BY DEF Orchestrate, AnnounceFails
<1>3. Employed(task[k]) /\ task[k].state = "working"
  BY <1>2 DEF DelegateTo, AskFor, Doing, Typed, CallTyped
<1>4. \A a : /\ IsCall(Delegated(k, a)) /\ Delegated(k, a).parent = k
             /\ Delegated(k, a).kids = {} /\ Delegated(k, a).owed = 0
             /\ Delegated(k, a).result = "none" /\ Delegated(k, a).reported = {}
             /\ Delegated(k, a).agent = a /\ Delegated(k, a).depth = task[k].depth + 1
  BY DEF IsCall, Delegated, NoCall
<1>5. \A a : /\ IsCall(Consulted(k, a)) /\ Consulted(k, a).parent = k
             /\ Consulted(k, a).kids = {} /\ Consulted(k, a).owed = 0
             /\ Consulted(k, a).result = "none" /\ Consulted(k, a).reported = {}
             /\ Consulted(k, a).agent = a /\ Consulted(k, a).depth = task[k].depth
  BY DEF IsCall, Consulted, NoCall
<1> DEFINE targets == Current(k).on
<1>6. CASE DelegateTo(k, fails)
  <2> DEFINE rejected == fails \cup {a \in targets : ~MayDelegate(k, a)}
             child == [a \in targets |-> Delegated(k, a)]
  <2>1. \A a \in targets : a \notin rejected => a \in Agents /\ task[k].depth < MaxDepth
    BY DEF MayDelegate, DelegationAllowList
  <2>2. Children(k, targets, rejected, child)
    <3>1. \A a \in targets : child[a] = Delegated(k, a)
      OBVIOUS
    <3>2. task[k].depth < MaxDepth => task[k].depth + 1 \in 0..MaxDepth
      BY <1>3 DEF Employed, CallsAssumption
    <3> HIDE DEF child, rejected, targets
    <3>3. ASSUME NEW a \in targets
          PROVE  /\ IsCall(child[a]) /\ child[a].parent = k /\ child[a].kids = {}
                 /\ child[a].owed = 0 /\ child[a].result = "none" /\ child[a].reported = {}
                 /\ child[a].agent = a /\ child[a].depth = task[k].depth + 1
      BY <1>4, <3>1
    <3>4. ASSUME NEW a \in targets
          PROVE  a \notin rejected => child[a].agent \in Agents
      BY <2>1, <3>2, <3>3
    <3>5. ASSUME NEW a \in targets
          PROVE  a \notin rejected => child[a].depth \in 0..MaxDepth
      BY <2>1, <3>2, <3>3
    <3> QED
      BY <3>3, <3>4, <3>5 DEF Children
  <2>3. /\ Spawn(k, targets, rejected, child)
        /\ UNCHANGED <<snapshot, queue, spent, served, restarts>>
    BY <1>6 DEF DelegateTo
  <2> QED
    BY <1>1, <1>3, <2>2, <2>3, SpawnKeeps
<1>7. CASE AskFor(k, fails)
  <2> DEFINE rejected == fails \cup {a \in targets : ~MayAsk(k, a)}
             child == [a \in targets |-> Consulted(k, a)]
  <2>1. \A a \in targets : a \notin rejected => a \in Agents
    BY <1>3 DEF MayAsk, Employed, CallsAssumption
  <2>2. Children(k, targets, rejected, child)
    <3>1. \A a \in targets : child[a] = Consulted(k, a)
      OBVIOUS
    <3> HIDE DEF child, rejected, targets
    <3>2. ASSUME NEW a \in targets
          PROVE  /\ IsCall(child[a]) /\ child[a].parent = k /\ child[a].kids = {}
                 /\ child[a].owed = 0 /\ child[a].result = "none" /\ child[a].reported = {}
                 /\ child[a].agent = a /\ child[a].depth = task[k].depth
      BY <1>5, <3>1
    <3>3. ASSUME NEW a \in targets
          PROVE  a \notin rejected => child[a].agent \in Agents
      BY <2>1, <3>2
    <3>4. ASSUME NEW a \in targets PROVE child[a].depth \in 0..MaxDepth
      BY <1>3, <3>2 DEF Employed
    <3> QED
      BY <3>2, <3>3, <3>4 DEF Children
  <2>3. /\ Spawn(k, targets, rejected, child)
        /\ UNCHANGED <<snapshot, queue, spent, served, restarts>>
    BY <1>7 DEF AskFor
  <2> QED
    BY <1>1, <1>3, <2>2, <2>3, SpawnKeeps
<1> QED
  BY <1>2, <1>6, <1>7

\* The runtime dies: its tasks, chain and ledger are gone, and with them at
\* most one call more than the ledger knew.
LEMMA RestartKeeps ==
    ASSUME Typed, Ledger, Restart PROVE Typed' /\ Ledger' /\ Family'
<1>1. /\ task' = [k \in Tasks |-> NoCall] /\ queue' = <<>> /\ spent' = 0
      /\ UNCHANGED <<snapshot, served, faults>>
      /\ restarts' = restarts + 1 /\ restarts' \in 0..MaxRestarts
  BY DEF Restart, Typed, CallsAssumption
<1>2. NoCall.state = "free" /\ NoCall.owed = 0 /\ NoCall.kids = {}
  BY DEF NoCall
<1>3. \A k : ~ InQueue(k)'
  BY <1>1 DEF InQueue
<1>4. Typed'
  <2>1. queue' \in Seq(Tasks)
    BY <1>1
  <2>2. \A i, j \in 1..Len(queue') : queue'[i] = queue'[j] => i = j
    BY <1>1
  <2>3. \A k \in Tasks : task'[k].owed > 0 => MyTurn(k)'
    BY <1>1, <1>2
  <2>4. \A k \in Tasks : task'[k].state = "calling" <=> InQueue(k)'
    BY <1>1, <1>2, <1>3
  <2> QED
    BY <1>1, <2>1, <2>2, <2>3, <2>4, FreeCall DEF Typed, Chained
<1>5. Pending' = 0
  BY <1>1 DEF Pending
<1>6. Ledger'
  <2>1. spent + Pending <= Life
    BY PendingBounds, MostIsMost DEF Ledger, Life, Typed, CallsAssumption
  <2>2. /\ restarts' * Life = restarts * Life + Life
        /\ restarts * Life \in Nat /\ faults * MostTokens \in Nat
    <3>1. restarts \in Nat /\ faults \in Nat /\ Life \in Nat /\ MostTokens \in Nat
      BY MostIsMost, CallsAssumption DEF Typed
    <3>2. (restarts + 1) * Life = restarts * Life + Life /\ restarts * Life \in Nat
      BY <3>1, OneMore
    <3>3. faults * MostTokens \in Nat
      BY <3>1, OneMore
    <3>4. restarts' = restarts + 1
      BY <1>1
    <3> HIDE DEF Life, MostTokens
    <3> QED BY <3>2, <3>3, <3>4, Zenon
  <2>3. served <= Life + restarts * Life + faults * MostTokens
    BY <2>1, <2>2, PendingBounds, MostIsMost DEF Ledger, Typed
  <2>4. faults' * MostTokens = faults * MostTokens /\ served' = served /\ Life \in Nat
    BY <1>1, MostIsMost
  <2>5. served \in Nat /\ spent' = 0
    BY <1>1 DEF Typed
  <2>6. served' <= spent' + Pending' + restarts' * Life + faults' * MostTokens
    BY <1>5, <2>2, <2>3, <2>4, <2>5
  <2> QED
    BY <1>5, <2>4, <2>5, <2>6 DEF Ledger, Life
<1>7. Family'
  BY <1>1, <1>2 DEF Family, CallersOutliveCallees, Running
<1> QED
  BY <1>4, <1>6, <1>7

CallsInv == Typed /\ Ledger /\ Family

\* At first nothing runs and nothing was charged.
LEMMA CallsInit == Init => CallsInv
<1> SUFFICES ASSUME Init PROVE CallsInv
  OBVIOUS
<1>1. /\ task = [k \in Tasks |-> NoCall] /\ queue = <<>>
      /\ spent = 0 /\ served = 0 /\ faults = 0 /\ restarts = 0 /\ snapshot \in Snapshots
  BY DEF Init
<1>2. NoCall.state = "free" /\ NoCall.owed = 0 /\ NoCall.kids = {}
  BY DEF NoCall
<1>3. Chained
  BY <1>1, <1>2 DEF Chained, InQueue
<1>4. Typed
  BY <1>1, <1>3, FreeCall DEF Typed, CallsAssumption
<1>5. Ledger
  BY <1>1, MostIsMost DEF Ledger, Pending, CallsAssumption
<1>6. Family
  BY <1>1, <1>2 DEF Family, CallersOutliveCallees, Running
<1> QED
  BY <1>4, <1>5, <1>6 DEF CallsInv

\* Every step keeps the chain, the ledger and the family.
LEMMA CallsStep == CallsInv /\ [Next]_vars => CallsInv'
<1> SUFFICES ASSUME CallsInv, [Next]_vars PROVE CallsInv'
  OBVIOUS
<1> USE DEF CallsInv
<1>1. ASSUME NEW a \in Agents, Begin(a) PROVE CallsInv'
  <2>1. Root \in Tasks
    BY DEF Root, Tasks, CallsAssumption
  <2> QED
    BY <1>1, <2>1, QuietBegin, QuietKeeps
<1>2. ASSUME NEW k \in Tasks, TaskStep(k) \/ AwaitApproval(k) \/ Fault(k) PROVE CallsInv'
  <2>1. CASE \/ Start(k) \/ UseMemory(k) \/ InvokeSkill(k) \/ UseTool(k) \/ AwaitApproval(k)
             \/ CallThrows(k) \/ RefuseOrchestration(k) \/ Resume(k) \/ Return(k)
             \/ Report(k) \/ ReportFails(k)
    BY <2>1, QuietSteps, QuietKeeps
  <2>2. CASE Enqueue(k)
    BY <2>2, EnqueueKeeps
  <2>3. CASE RefuseCall(k) \/ Record(k) \/ RefuseEmbed(k) \/ CallFails(k)
    BY <2>3, SettleKeeps
  <2>4. CASE \E n \in CallTokens : Serve(k, n)
    BY <2>4, ServeKeeps
  <2>5. CASE Orchestrate(k) \/ AnnounceFails(k)
    BY <2>5, CallersKeep
  <2> QED
    BY <1>2, <2>1, <2>2, <2>3, <2>4, <2>5 DEF TaskStep, Fault
<1>3. CASE Restart
  BY <1>3, RestartKeeps
<1>4. CASE UNCHANGED vars
  <2> USE <1>4 DEF vars
  <2>1. Typed'
    BY DEF Typed, Chained, MyTurn, InQueue
  <2>2. Ledger'
    BY DEF Ledger, Pending, Current, Life
  <2>3. Family'
    BY DEF Family, CallersOutliveCallees, Running
  <2> QED
    BY <2>1, <2>2, <2>3
<1> QED
  BY <1>1, <1>2, <1>3, <1>4 DEF Next

\* The invariant holds in every reachable state.
LEMMA CallsHold == Spec => []CallsInv
<1> QED
  BY CallsInit, CallsStep, PTL DEF Spec

\* Tasks, ledger and chain have their types; whoever runs is a registered
\* agent within the delegation depth; only the head of the chain owes tokens.
THEOREM TypesHold == Spec => []TypeOK
<1>1. CallsInv => TypeOK
  <2> SUFFICES ASSUME CallsInv PROVE TypeOK
    OBVIOUS
  <2>1. ASSUME NEW k \in Tasks
        PROVE  task[k].state # "rejected" =>
                  task[k].agent \in Agents \cup {"none"} /\ task[k].depth \in 0..MaxDepth
    <3>1. NoCall.agent = "none" /\ NoCall.depth = 0
      BY DEF NoCall
    <3> QED
      BY <3>1 DEF CallsInv, Typed, CallTyped, Employed, CallsAssumption
  <2> QED
    BY <2>1 DEF CallsInv, Typed, CallTyped, Fits, Chained, TypeOK
<1> QED
  BY <1>1, CallsHold, PTL

\* However many agents of a run call models in parallel, the provider charges
\* less than one call over the budget in each life of the runtime, and at
\* most one call for each failed one: calls wait for their turn, are checked
\* when it comes, and are recorded before the next.
THEOREM BudgetsHold == Spec => []BudgetHolds
<1>1. CallsInv => BudgetHolds
  <2> SUFFICES ASSUME CallsInv PROVE BudgetHolds
    OBVIOUS
  <2>1. /\ spent \in Nat /\ served \in Nat /\ Budget \in Nat /\ restarts \in Nat
        /\ MostTokens \in Nat \ {0} /\ Life \in Nat /\ Budget + MostTokens = Life + 1
        /\ restarts * Life \in Nat /\ faults * MostTokens \in Nat
    BY OneMore, MostIsMost DEF CallsInv, Typed, CallsAssumption, Life
  <2>2. spent + Pending <= Life
    BY <2>1, PendingBounds DEF CallsInv, Ledger, Life
  <2>3. served <= (restarts + 1) * Life + faults * MostTokens
    <3>1. (restarts + 1) * Life = restarts * Life + Life
      BY <2>1, OneMore
    <3> QED
      BY <2>1, <2>2, <3>1, PendingBounds DEF CallsInv, Ledger
  <2>4. (restarts + 1) * (Life + 1) = (restarts + 1) * Life + (restarts + 1)
    BY <2>1
  <2> QED
    BY <2>1, <2>3, <2>4 DEF BudgetHolds
<1> QED
  BY <1>1, CallsHold, PTL

\* An agent works only while its caller waits for it, or after a sibling was
\* rejected, whatever programs the agents run.
THEOREM CallersOutlive == Spec => []CallersOutliveCallees
<1>1. CallsInv => CallersOutliveCallees
  BY DEF CallsInv, Family
<1> QED
  BY <1>1, CallsHold, PTL

===========================================================================
