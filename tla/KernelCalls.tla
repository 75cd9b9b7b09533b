--------------------------- MODULE KernelCalls ---------------------------
(***************************************************************************)
(* One run inside one agent runtime: the tasks of its agents, the kernel   *)
(* calls they make, and the budget those calls are charged to.             *)
(*                                                                         *)
(* A task is a call of executeAgentTask (the root) or executeAgentInProcess *)
(* (a delegated or consulted agent).  Its agent makes the kernel calls of  *)
(* one of its programs in order; a call that throws ends the program.      *)
(* Model calls of a run form a promise chain (CostEngine.runExclusive):    *)
(* `queue' holds the tasks whose call is in it, the running one first.     *)
(*                                                                         *)
(* Abstracted: the content of calls, the memory, and the tool runtime      *)
(* (ApprovalFlow models it): a permitted tool call returns, throws, or     *)
(* waits for approval.  Tokens stand for both budget dimensions.           *)
(***************************************************************************)
EXTENDS Integers, Sequences

CONSTANTS
    Agents,        \* keys of the agent registry
    Program,       \* Program[a]: call sequences agent a may make
    Allowlist,     \* Allowlist[a]: tools stamped on its kernel context
    PersonaTools,  \* PersonaTools[a]: tools of its resolved persona
    Consults,      \* Consults[a]: its can_consult list
    Snapshots,     \* [granted, installed] pairs a run may be dispatched with
    MaxDepth,      \* maxDelegationDepth
    Budget,        \* max_tokens of the run's budget snapshot
    CallTokens,    \* tokens one model call may use
    MaxTasks,      \* bound: tasks of the run
    MaxFaults,     \* bound: calls that fail for no reason of the model's
    MaxRestarts    \* bound: deaths of the runtime

ASSUME CallsAssumption ==
    /\ MaxDepth \in Nat /\ Budget \in Nat /\ MaxFaults \in Nat /\ MaxRestarts \in Nat
    /\ MaxTasks \in Nat \ {0}
    /\ CallTokens \subseteq Nat \ {0}
    /\ \E n \in CallTokens : \A m \in CallTokens : m <= n
    /\ \A a \in Agents : Consults[a] \subseteq Agents

VARIABLES
    snapshot,  \* the run's frozen grants and packages
    task,      \* task[k]: the k-th task of the run, or free
    queue,     \* tasks whose model call is in the run's chain
    spent,     \* the run's ledger, in the memory of the runtime
    served,    \* tokens the provider has charged for, over all lives
    faults, restarts

vars == <<snapshot, task, queue, spent, served, faults, restarts>>

Tasks == 1..MaxTasks
Root == 1
NoTask == 0
Results == {"none", "completed", "failed", "waiting_approval"}

NoCall == [state |-> "free", agent |-> "none", parent |-> NoTask, via |-> "root",
           depth |-> 0, locked |-> FALSE, todo |-> <<>>, kids |-> {}, owed |-> 0,
           result |-> "none", reported |-> {}]

Running(k) == task[k].state \notin {"free", "done", "rejected"}
Current(k) == Head(task[k].todo)
Doing(k, calls) ==
    task[k].state = "working" /\ task[k].todo # <<>> /\ Current(k).call \in calls

Advanced(t) == [t EXCEPT !.state = "working", !.todo = Tail(@), !.owed = 0, !.kids = {}]
Ended(t, r) == [t EXCEPT !.state = "reporting", !.result = r]
Thrown(t)   == [t EXCEPT !.state = "reporting", !.result = "failed", !.owed = 0, !.kids = {}]
OneFault == faults < MaxFaults /\ faults' = faults + 1

-----------------------------------------------------------------------------
(* Permission engine and package gate, on the snapshots of the run. *)

MayRun(a) == a \in snapshot.granted
Installed(c) == c \in snapshot.installed
MayInvoke(s) == Installed(s) /\ s \in snapshot.granted
MayUse(a, t) == t \in PersonaTools[a] \cap Allowlist[a] \cap snapshot.granted

\* The checks a task passes before its agent is called.
Admitted(t) ==
    IF MayRun(t.agent) /\ Installed(t.agent)
    THEN {[t EXCEPT !.state = "working", !.todo = p] : p \in Program[t.agent]}
    ELSE {Thrown(t)}

-----------------------------------------------------------------------------
Init ==
    /\ snapshot \in Snapshots
    /\ task = [k \in Tasks |-> NoCall]
    /\ queue = <<>> /\ spent = 0 /\ served = 0 /\ faults = 0 /\ restarts = 0

\* executeAgentTask: the runtime takes the task of the run's root agent.
Begin(a) ==
    /\ task[Root].state = "free"
    /\ \E t \in Admitted([NoCall EXCEPT !.agent = a]) : task' = [task EXCEPT ![Root] = t]
    /\ UNCHANGED <<snapshot, queue, spent, served, faults, restarts>>

\* A started child reaches its checks, then its agent.
Start(k) ==
    /\ task[k].state = "announced"
    /\ \E t \in Admitted(task[k]) : task' = [task EXCEPT ![k] = t]
    /\ UNCHANGED <<snapshot, queue, spent, served, faults, restarts>>

-----------------------------------------------------------------------------
(* Model calls *)

Enqueue(k) ==
    /\ Doing(k, {"complete", "embed"})
    /\ task' = [task EXCEPT ![k].state = "calling"]
    /\ queue' = Append(queue, k)
    /\ UNCHANGED <<snapshot, spent, served, faults, restarts>>

InQueue(k) == \E i \in 1..Len(queue) : queue[i] = k

\* Mutant (BudgetHolds): the calls of a run are not serialised.
AnyTurn(k) == InQueue(k)

\* Mutant (TypeOK): a call that throws keeps its place in the chain.
StayAndThrow(k, t) == task' = [task EXCEPT ![k] = t]
                      /\ queue' = IF t.result = "failed" THEN queue ELSE Tail(queue)

MyTurn(k) == queue # <<>> /\ Head(queue) = k

Exhausted == spent >= Budget
\* The call at the head of the chain is over; the next one's turn comes.
Settle(k, t) == task' = [task EXCEPT ![k] = t] /\ queue' = Tail(queue)

\* assertCanStartLlmCall refuses; nothing was sent.
RefuseCall(k) ==
    /\ MyTurn(k) /\ Current(k).call = "complete" /\ task[k].owed = 0
    /\ Exhausted
    /\ Settle(k, Thrown(task[k]))
    /\ UNCHANGED <<snapshot, spent, served, faults, restarts>>

\* The provider answers; its tokens are charged.  embed is served without a
\* check, by the stub provider, which charges nothing.
Serve(k, n) ==
    /\ MyTurn(k) /\ task[k].owed = 0
    /\ Current(k).call = "complete" => ~Exhausted
    /\ task' = [task EXCEPT ![k].owed = n]
    /\ served' = IF Current(k).call = "complete" THEN served + n ELSE served
    /\ UNCHANGED <<snapshot, queue, spent, faults, restarts>>

\* recordLlmUsage, after the usage event: charge first, then compare.
Record(k) ==
    /\ MyTurn(k) /\ task[k].owed > 0
    /\ Current(k).call = "embed" => ~Exhausted
    /\ spent' = spent + task[k].owed
    /\ Settle(k, IF spent' > Budget THEN Thrown(task[k]) ELSE Advanced(task[k]))
    /\ UNCHANGED <<snapshot, served, faults, restarts>>

\* embed checks the budget after the call.
RefuseEmbed(k) ==
    /\ MyTurn(k) /\ task[k].owed > 0
    /\ Current(k).call = "embed" /\ Exhausted
    /\ Settle(k, Thrown(task[k]))
    /\ UNCHANGED <<snapshot, spent, served, faults, restarts>>

\* The provider fails, or the usage event of a served call cannot be
\* published: the call throws and the ledger never hears of it.
CallFails(k) ==
    /\ MyTurn(k) /\ OneFault
    /\ Settle(k, Thrown(task[k]))
    /\ UNCHANGED <<snapshot, spent, served, restarts>>

-----------------------------------------------------------------------------
(* Memory, skills and tools *)

UseMemory(k) ==
    /\ Doing(k, {"remember", "recall"})
    /\ task' = [task EXCEPT ![k] = Advanced(@)]
    /\ UNCHANGED <<snapshot, queue, spent, served, faults, restarts>>

InvokeSkill(k) ==
    /\ Doing(k, {"skill"})
    /\ \E s \in Current(k).on :
          task' = [task EXCEPT ![k] = IF MayInvoke(s) THEN Advanced(@) ELSE Thrown(@)]
    /\ UNCHANGED <<snapshot, queue, spent, served, faults, restarts>>

UseTool(k) ==
    /\ Doing(k, {"tool"})
    /\ \E x \in Current(k).on :
          task' = [task EXCEPT ![k] = IF MayUse(@.agent, x) THEN Advanced(@) ELSE Thrown(@)]
    /\ UNCHANGED <<snapshot, queue, spent, served, faults, restarts>>

\* A permitted tool call that needs approval: WAITING_APPROVAL is thrown.
AwaitApproval(k) ==
    /\ Doing(k, {"tool"})
    /\ \E x \in Current(k).on : MayUse(task[k].agent, x)
    /\ task' = [task EXCEPT ![k] = Ended(@, "waiting_approval")]
    /\ UNCHANGED <<snapshot, queue, spent, served, faults, restarts>>

\* A call of a working agent throws: persona, memory, tool or event bus.
CallThrows(k) ==
    /\ task[k].state = "working" /\ OneFault
    /\ task' = [task EXCEPT ![k] = Thrown(@)]
    /\ UNCHANGED <<snapshot, queue, spent, served, restarts>>

-----------------------------------------------------------------------------
(* Delegation and consultation *)

DelegationAllowList(a) == IF a = "adam" THEN Agents \ {"adam"} ELSE {}

MayDelegate(k, a) ==
    a \in DelegationAllowList(task[k].agent) /\ task[k].depth < MaxDepth
MayAsk(k, a) == a \in Consults[task[k].agent]

Unused == {k \in Tasks \ {Root} : task[k].state = "free"}

\* Ways to give each target a task of its own.
Slots(targets) ==
    {f \in [targets -> Unused] : \A a, b \in targets : a # b => f[a] # f[b]}

Delegated(k, a) == [NoCall EXCEPT !.agent = a, !.parent = k, !.via = "delegate",
                                  !.depth = task[k].depth + 1]

Consulted(k, a) == [NoCall EXCEPT !.agent = a, !.parent = k, !.via = "consult",
                                  !.depth = task[k].depth, !.locked = TRUE]

\* The caller k starts child[a] for each target a; the promises of `rejected'
\* reject before their agent runs, the others are announced on the bus.
Spawn(k, targets, rejected, child) ==
    /\ Slots(targets) # {}
    /\ LET id == CHOOSE f \in Slots(targets) : TRUE
       IN  task' = [j \in Tasks |->
              IF j = k THEN [task[k] EXCEPT !.state = "waiting",
                                            !.kids = {id[a] : a \in targets}]
              ELSE IF \E a \in targets : j = id[a]
              THEN LET a == CHOOSE b \in targets : j = id[b]
                   IN  [child[a] EXCEPT
                           !.state = IF a \in rejected THEN "rejected" ELSE "announced"]
              ELSE task[j]]

\* One host.delegate per target; a failed announcement rejects its promise.
DelegateTo(k, fails) ==
    /\ Doing(k, {"delegate", "tryDelegate", "delegateMany"}) /\ ~task[k].locked
    /\ fails \subseteq Current(k).on
    /\ LET targets == Current(k).on
       IN  Spawn(k, targets, fails \cup {a \in targets : ~MayDelegate(k, a)},
                 [a \in targets |-> Delegated(k, a)])
    /\ UNCHANGED <<snapshot, queue, spent, served, restarts>>

AskFor(k, fails) ==
    /\ Doing(k, {"ask"}) /\ ~task[k].locked
    /\ fails \subseteq Current(k).on
    /\ LET targets == Current(k).on
       IN  Spawn(k, targets, fails \cup {a \in targets : ~MayAsk(k, a)},
                 [a \in targets |-> Consulted(k, a)])
    /\ UNCHANGED <<snapshot, queue, spent, served, restarts>>

Orchestrate(k) == UNCHANGED faults /\ (DelegateTo(k, {}) \/ AskFor(k, {}))

AnnounceFails(k) ==
    /\ OneFault
    /\ \E fails \in SUBSET Agents \ {{}} : DelegateTo(k, fails) \/ AskFor(k, fails)

\* assertOrchestrationUnlocked.
RefuseOrchestration(k) ==
    /\ Doing(k, {"delegate", "tryDelegate", "delegateMany", "ask"}) /\ task[k].locked
    /\ task' = [task EXCEPT ![k] =
                   IF Current(k).call = "tryDelegate" THEN Advanced(@) ELSE Thrown(@)]
    /\ UNCHANGED <<snapshot, queue, spent, served, faults, restarts>>

\* Mutant (CallersOutliveCallees): the first child to settle settles them all.
FirstSettles(k) == \E j \in task[k].kids : task[j].state \in {"done", "rejected"}

\* Mutant (EveryTaskReports): a caller waits for completed children only.
CompletedOnly(k) ==
    \/ \E j \in task[k].kids : task[j].state = "rejected"
    \/ \A j \in task[k].kids : task[j].state = "done" /\ task[j].result = "completed"

\* Promise.all over the children, or the one child.
Settled(k) ==
    \/ \E j \in task[k].kids : task[j].state = "rejected"
    \/ \A j \in task[k].kids : task[j].state = "done"

AllCompleted(k) ==
    \A j \in task[k].kids : task[j].state = "done" /\ task[j].result = "completed"

\* The shipped agents throw unless every child completed; Adam's publication
\* turns any failure into a reply.
Resume(k) ==
    /\ task[k].state = "waiting" /\ Settled(k)
    /\ task' = [task EXCEPT ![k] =
                   IF AllCompleted(k) \/ Current(k).call = "tryDelegate"
                   THEN Advanced(@) ELSE Thrown(@)]
    /\ UNCHANGED <<snapshot, queue, spent, served, faults, restarts>>

-----------------------------------------------------------------------------
(* Outcomes *)

Return(k) ==
    /\ task[k].state = "working" /\ task[k].todo = <<>>
    /\ task' = [task EXCEPT ![k] = Ended(@, "completed")]
    /\ UNCHANGED <<snapshot, queue, spent, served, faults, restarts>>

\* The events of a task on the bus.
Sent(t, results) == [t EXCEPT !.reported = @ \cup results]

\* The outcome is published, then returned to the caller.
Report(k) ==
    /\ task[k].state = "reporting"
    /\ task' = [task EXCEPT ![k] = [Sent(task[k], {task[k].result}) EXCEPT !.state = "done"]]
    /\ UNCHANGED <<snapshot, queue, spent, served, faults, restarts>>

\* Publishing fails, with the event on the bus or not: a completed outcome is
\* published inside the try block and becomes a failed one; otherwise the
\* task's promise rejects.
ReportFails(k) ==
    /\ task[k].state = "reporting" /\ OneFault
    /\ \E sent \in {{}, {task[k].result}} :
          LET t == Sent(task[k], sent)
          IN  task' = [task EXCEPT ![k] = IF t.result = "completed" THEN Thrown(t)
                                         ELSE [t EXCEPT !.state = "rejected"]]
    /\ UNCHANGED <<snapshot, queue, spent, served, restarts>>

\* The runtime dies; the run goes on in a new one, with an empty ledger.
Restart ==
    /\ restarts < MaxRestarts /\ restarts' = restarts + 1
    /\ task' = [k \in Tasks |-> NoCall]
    /\ queue' = <<>> /\ spent' = 0
    /\ UNCHANGED <<snapshot, served, faults>>

-----------------------------------------------------------------------------
TaskStep(k) ==
    \/ Start(k) \/ Enqueue(k) \/ RefuseCall(k) \/ (\E n \in CallTokens : Serve(k, n))
    \/ Record(k) \/ RefuseEmbed(k) \/ UseMemory(k) \/ InvokeSkill(k) \/ UseTool(k)
    \/ Orchestrate(k) \/ RefuseOrchestration(k) \/ Resume(k) \/ Return(k) \/ Report(k)

Fault(k) == CallFails(k) \/ CallThrows(k) \/ AnnounceFails(k) \/ ReportFails(k)

Next ==
    \/ \E a \in Agents : Begin(a)
    \/ \E k \in Tasks : TaskStep(k) \/ AwaitApproval(k) \/ Fault(k)
    \/ Restart

Spec == Init /\ [][Next]_vars

\* Every promise of a live runtime settles: the provider answers or fails.
FairSpec == Spec /\ \A k \in Tasks : WF_vars(TaskStep(k))

-----------------------------------------------------------------------------
(* Properties *)

\* Types; only the first call of the chain has tokens outstanding, and only
\* calling tasks are in the chain.  A call that was rejected may have asked
\* for anything; who runs is registered and within the delegation depth.
TypeOK ==
    /\ snapshot \in Snapshots
    /\ \A k \in Tasks :
          /\ task[k].state \in {"free", "announced", "working", "calling", "waiting",
                                "reporting", "done", "rejected"}
          /\ task[k].parent \in Tasks \cup {NoTask}
          /\ task[k].state # "rejected" =>
                task[k].agent \in Agents \cup {"none"} /\ task[k].depth \in 0..MaxDepth
          /\ task[k].result \in Results /\ task[k].reported \subseteq Results
          /\ task[k].owed \in CallTokens \cup {0}
          /\ task[k].owed > 0 => MyTurn(k)
          /\ task[k].state = "calling" <=> InQueue(k)
    /\ spent \in Nat /\ served \in Nat
    /\ faults \in 0..MaxFaults /\ restarts \in 0..MaxRestarts

\* However many agents of a run call the model in parallel, what the provider
\* charges exceeds the budget by less than one call per life of the runtime,
\* and by one call per failed one (cost-engine.ts, runExclusive).
MostTokens == CHOOSE n \in CallTokens : \A m \in CallTokens : m <= n
BudgetHolds ==
    served < (restarts + 1) * (Budget + MostTokens) + faults * MostTokens

\* An agent works only while its caller waits for it, unless the promise of
\* one of its siblings rejected (delegateMany gives up at the first rejection
\* and leaves the others running).
CallersOutliveCallees ==
    \A k \in Tasks : Running(k) /\ task[k].parent # NoTask =>
        LET caller == task[task[k].parent]
        IN  \/ caller.state = "waiting" /\ k \in caller.kids
            \/ \E j \in Tasks : task[j].parent = task[k].parent /\ task[j].state = "rejected"

\* A task that started publishes an outcome, or a call failed or the runtime
\* died: no refusal, queue or wait leaves it without one.
EveryTaskReports ==
    \A k \in Tasks :
        Running(k) ~> (task[k].reported # {} \/ faults > 0 \/ restarts > 0)
==========================================================================
