--------------------------- MODULE RunLifecycle ---------------------------
(***************************************************************************)
(* The row of one run and the rows of its steps, and everybody who writes  *)
(* them: the run endpoints (create, append step, patch status), the        *)
(* approve and reject endpoints, the projector that applies agent events,  *)
(* and the agent runtime that inserts child steps itself.                  *)
(*                                                                         *)
(* No handler locks the rows: each reads the run and the highest seq, and  *)
(* writes later on the strength of what it read.  A handler is a slot that *)
(* runs one request or one event at a time, one action per round trip; the *)
(* only guards between handlers are the unique (run, seq) index and the    *)
(* primary key of the steps.                                               *)
(***************************************************************************)
EXTENDS Naturals, FiniteSets

CONSTANTS
    Root,          \* the step of the agent the run was created for
    Children,      \* steps of delegated or consulted agents
    Manual,        \* steps appended through POST /runs/:id/steps
    PlanSteps,     \* steps listed in the plans agents return
    PlanOf,        \* agent step -> the plan steps its outcome carries
    AgentOf,       \* step -> the agent it is assigned to
    Handlers,      \* requests and events the API may be serving at once
    PatchTargets,  \* statuses users ask PATCH /runs/:id/status for
    MaxAttempts,   \* attempts of ensureChildRunStep (5 in the code)
    MaxFaults      \* bound: handlers that die halfway

AgentSteps == {Root} \cup Children
Steps == AgentSteps \cup Manual \cup PlanSteps
Terminal == {"completed", "failed"}
Open == {"queued", "running", "waiting_approval"}
RunStatus == Open \cup Terminal
Outcomes == {"waiting_approval", "completed", "failed"}
Events == ({"delegated"} \X Children) \cup (Outcomes \X AgentSteps)

ASSUME RunAssumption ==
    /\ Root \notin Children \cup Manual \cup PlanSteps
    /\ Children \cap (Manual \cup PlanSteps) = {}
    /\ Manual \cap PlanSteps = {}
    /\ IsFiniteSet(Steps)
    /\ PlanOf \in [AgentSteps -> SUBSET PlanSteps]
    /\ \A s, t \in AgentSteps : s # t => PlanOf[s] \cap PlanOf[t] = {}
    /\ PatchTargets \subseteq RunStatus
    /\ MaxAttempts \in Nat
    /\ MaxFaults \in Nat

VARIABLES
    \* database
    runStatus,   \* runs.status ("none": not created)
    seq,         \* step -> run_steps.seq (0: no row)
    stepStatus,  \* step -> run_steps.status ("none": no row)
    \* agent event topics
    published,   \* agent events published
    consumed,    \* agent events a projector has started on
    \* processes
    agent,       \* agent step -> where the agent runtime is with it
    tops,        \* child -> highest seq its runtime read
    attempts,    \* child -> insertions that hit the unique index
    handler,     \* handler slot -> what it does, to what, from what it read
    faults

rows == <<runStatus, seq, stepStatus>>
bus == <<published, consumed>>
runtime == <<agent, tops, attempts>>
vars == <<rows, bus, runtime, handler, faults>>

Present == {s \in Steps : seq[s] > 0}
\* Mutant (RetriesArePaidFor): the highest seq of the agent steps only.
IsAgentTop(n) == n = Cardinality(Present \cap AgentSteps)
IsTop(n) == /\ \A s \in Present : seq[s] <= n
            /\ n = 0 \/ \E s \in Present : seq[s] = n
Seqs == 0..Cardinality(Steps)

\* parent_step_id IS NULL
\* Mutant (EndsForAReason): children end the run as well.
AnyStep(s) == TRUE
IsRootStep(s) == s \in {Root} \cup Manual

AllowedNext ==  \* RUN_STATUS_TRANSITIONS
    [queued |-> {"running", "failed"},
     running |-> {"waiting_approval", "completed", "failed"},
     waiting_approval |-> {"running", "completed", "failed"},
     completed |-> {},
     failed |-> {}]

Free == [pc |-> "free", job |-> "none", step |-> Root, to |-> "none",
         seen |-> "none", top |-> 0, plan |-> {}]
Jobs == {"none", "patch", "append", "approve", "reject", "child"} \cup Outcomes

TypeOK ==
    /\ runStatus \in RunStatus \cup {"none"}
    /\ seq \in [Steps -> Nat]
    /\ stepStatus \in [Steps -> RunStatus \cup {"none"}]
    /\ published \in SUBSET Events
    /\ consumed \in SUBSET published
    /\ agent \in [AgentSteps ->
                    {"none", "created", "lookup", "insert", "running", "waiting",
                     "resumed", "refused", "ended", "executed", "abandoned"}]
    /\ tops \in [Children -> Nat]
    /\ attempts \in [Children -> Nat]
    /\ handler \in [Handlers ->
                      [pc : {"free", "write", "insert", "decide", "lookup",
                             "raced", "childRun", "find", "outcome", "plan", "start"},
                       job : Jobs,
                       step : Steps,
                       to : RunStatus \cup {"none"},
                       seen : RunStatus \cup {"none"},
                       top : Nat,
                       plan : SUBSET PlanSteps]]
    /\ faults \in Nat

Init ==
    /\ runStatus = "none"
    /\ seq = [s \in Steps |-> 0]
    /\ stepStatus = [s \in Steps |-> "none"]
    /\ published = {}
    /\ consumed = {}
    /\ agent = [s \in AgentSteps |-> "none"]
    /\ tops = [c \in Children |-> 0]
    /\ attempts = [c \in Children |-> 0]
    /\ handler = [h \in Handlers |-> Free]
    /\ faults = 0

---------------------------------------------------------------------------
(* Handler plumbing                                                        *)

\* A handler starts by reading the run.
Begin(h, job) ==
    /\ handler[h].pc = "free"
    /\ runStatus # "none"
    /\ handler' = [handler EXCEPT ![h] = [job EXCEPT !.seen = runStatus]]

At(h, pc) == handler[h].pc = pc
Goto(h, pc) == handler' = [handler EXCEPT ![h].pc = pc]
Done(h) == handler' = [handler EXCEPT ![h] = Free]

Fault ==
    /\ faults < MaxFaults
    /\ faults' = faults + 1

\* INSERT of one step row: fails on the primary key or on (run, seq).
CanInsert(s, n) == seq[s] = 0 /\ \A t \in Present : seq[t] # n
InsertRow(s, n, status) ==
    /\ seq' = [seq EXCEPT ![s] = n]
    /\ stepStatus' = [stepStatus EXCEPT ![s] = status]

---------------------------------------------------------------------------
(* The run endpoints                                                       *)

\* createRun: run and root step in one transaction.
CreateRun ==
    /\ runStatus = "none"
    /\ runStatus' = "queued"
    /\ InsertRow(Root, 1, "queued")
    /\ agent' = [agent EXCEPT ![Root] = "created"]
    /\ UNCHANGED <<bus, tops, attempts, handler, faults>>

\* Grants, packages and persona are checked, then the task is published.
DispatchAgentTask ==
    /\ agent[Root] = "created"
    /\ agent' = [agent EXCEPT ![Root] = "running"]
    /\ UNCHANGED <<rows, bus, tops, attempts, handler, faults>>

\* A check throws after the commit (or there is no target agent): the run
\* stays as created and no agent will ever report on it.
DispatchRefused ==
    /\ agent[Root] = "created"
    /\ agent' = [agent EXCEPT ![Root] = "ended"]
    /\ UNCHANGED <<rows, bus, tops, attempts, handler, faults>>

\* patchStatus: legal from the status read, written unconditionally later.
PatchStatus(h, to) ==
    /\ runStatus # "none" /\ to \in AllowedNext[runStatus]
    /\ Begin(h, [Free EXCEPT !.pc = "write", !.job = "patch", !.to = to])
    /\ UNCHANGED <<rows, bus, runtime, faults>>

\* createStep: read the highest seq, insert the next one (or answer 500).
CreateStep(h, m) ==
    /\ seq[m] = 0
    /\ \A k \in Handlers : handler[k].step # m
    /\ \E n \in Seqs :
         /\ IsTop(n)
         /\ Begin(h, [Free EXCEPT !.pc = "insert", !.job = "append", !.step = m,
                                  !.top = n])
    /\ UNCHANGED <<rows, bus, runtime, faults>>

InsertStep(h) ==
    LET s == handler[h].step
        n == handler[h].top + 1 IN
    /\ At(h, "insert") /\ handler[h].job = "append"
    /\ IF CanInsert(s, n) THEN InsertRow(s, n, "queued")
       ELSE UNCHANGED <<seq, stepStatus>>
    /\ Done(h)
    /\ UNCHANGED <<runStatus, bus, runtime, faults>>

\* approve and reject: the run is read first, then the approval of step s is
\* decided (module ApprovalFlow), then run and step are written.
\* Mutant (TypeOK): the verdict is written where a status belongs.
DecisionVerbatim(h, verdict, s) ==
    /\ agent[s] = "waiting"
    /\ Begin(h, [Free EXCEPT !.pc = "decide", !.job = verdict, !.step = s, !.to = verdict])
    /\ UNCHANGED <<rows, bus, runtime, faults>>

Decision(h, verdict, s) ==
    /\ agent[s] = "waiting"
    /\ Begin(h, [Free EXCEPT !.pc = "decide", !.job = verdict, !.step = s,
                             !.to = IF verdict = "approve" THEN "running" ELSE "failed"])
    /\ UNCHANGED <<rows, bus, runtime, faults>>

\* Mutant (NewcomersRespectEnd, TerminalIsFinal): the status is not looked at.
MayAlwaysWrite(h) == TRUE

MayWrite(h) ==
    IF handler[h].job = "approve" THEN handler[h].seen = "waiting_approval"
    ELSE handler[h].seen \in Open

Decide(h) ==
    LET s == handler[h].step
        approved == handler[h].job = "approve" IN
    /\ At(h, "decide")
    /\ IF agent[s] = "waiting"
       THEN /\ agent' = [agent EXCEPT ![s] = IF approved THEN "resumed" ELSE "refused"]
            /\ IF MayWrite(h) THEN Goto(h, "write") ELSE Done(h)
       ELSE Done(h) /\ UNCHANGED agent
    /\ UNCHANGED <<rows, bus, tops, attempts, faults>>

\* The unconditional UPDATE at the end of these handlers; approve and reject
\* also write the step.
WriteStatus(h) ==
    /\ At(h, "write")
    /\ runStatus' = handler[h].to
    /\ IF handler[h].job \in {"approve", "reject"} /\ seq[handler[h].step] > 0
       THEN stepStatus' = [stepStatus EXCEPT ![handler[h].step] = handler[h].to]
       ELSE UNCHANGED stepStatus
    /\ Done(h)
    /\ UNCHANGED <<seq, bus, runtime, faults>>

---------------------------------------------------------------------------
(* The agent runtime                                                       *)

Publish(e) == published' = published \cup {e}

\* delegate / ask: publish task.delegated, then insert the child step here
\* too, because the projector may be slow.
Delegate(c) ==
    /\ agent[Root] = "running"
    /\ agent[c] = "none"
    /\ Publish(<<"delegated", c>>)
    /\ agent' = [agent EXCEPT ![c] = "lookup"]
    /\ UNCHANGED <<rows, consumed, tops, attempts, handler, faults>>

EnsureLookup(c) ==
    /\ agent[c] = "lookup"
    /\ IF seq[c] > 0
       THEN agent' = [agent EXCEPT ![c] = "running"] /\ UNCHANGED tops
       ELSE /\ agent' = [agent EXCEPT ![c] = "insert"]
            /\ \E n \in Seqs : IsTop(n) /\ tops' = [tops EXCEPT ![c] = n]
    /\ UNCHANGED <<rows, bus, attempts, handler, faults>>

EnsureInsert(c) ==
    /\ agent[c] = "insert"
    /\ CanInsert(c, tops[c] + 1)
    /\ InsertRow(c, tops[c] + 1, "running")
    /\ agent' = [agent EXCEPT ![c] = "running"]
    /\ UNCHANGED <<runStatus, bus, tops, attempts, handler, faults>>

\* Unique violation: try again, or go on without the row after the last try.
EnsureConflict(c) ==
    /\ agent[c] = "insert"
    /\ ~CanInsert(c, tops[c] + 1)
    /\ attempts' = [attempts EXCEPT ![c] = @ + 1]
    /\ agent' = [agent EXCEPT ![c] =
                   IF attempts[c] + 1 < MaxAttempts THEN "lookup" ELSE "running"]
    /\ UNCHANGED <<rows, bus, tops, handler, faults>>

\* A database call of ensureChildRunStep fails otherwise: delegate throws to
\* its caller, the child never runs, its task.delegated stays published.
DelegationFails(c) ==
    /\ agent[c] \in {"lookup", "insert"}
    /\ Fault
    /\ agent' = [agent EXCEPT ![c] = "abandoned"]
    /\ UNCHANGED <<rows, bus, tops, attempts, handler>>

\* An agent reports; the root agent does so after its children returned (a
\* child that waits for approval has returned an error to it).
ChildrenReturned ==
    \A c \in Children : agent[c] \notin {"lookup", "insert", "running"}

ReportOutcome(s, o) ==
    /\ agent[s] = "running"
    /\ s = Root => ChildrenReturned
    /\ Publish(<<o, s>>)
    /\ agent' = [agent EXCEPT ![s] = IF o = "waiting_approval" THEN "waiting" ELSE "ended"]
    /\ UNCHANGED <<rows, consumed, tops, attempts, handler, faults>>

\* executeApprovalResume reports the approved tool call, with an empty plan.
ReportResumed(s, o) ==
    /\ agent[s] = "resumed"
    /\ o \in Terminal
    /\ Publish(<<o, s>>)
    /\ agent' = [agent EXCEPT ![s] = "executed"]
    /\ UNCHANGED <<rows, consumed, tops, attempts, handler, faults>>

---------------------------------------------------------------------------
(* The projector: each event is handled at most once (module StreamsBus),  *)
(* in any order across topics and replicas; whatever a handler throws is   *)
(* logged and swallowed, so the event is gone                              *)

Consume(e) == consumed' = consumed \cup {e}
Unread(e) == e \in published \ consumed

\* projectChildAgentStep
ProjectDelegated(h, c) ==
    /\ Unread(<<"delegated", c>>)
    /\ Consume(<<"delegated", c>>)
    /\ Begin(h, [Free EXCEPT !.pc = "lookup", !.job = "child", !.step = c])
    /\ UNCHANGED <<rows, published, runtime, faults>>

ChildLookup(h) ==
    LET c == handler[h].step IN
    /\ At(h, "lookup")
    /\ IF seq[c] > 0 THEN Done(h)
       ELSE \E n \in Seqs :
              /\ IsTop(n)
              /\ handler' = [handler EXCEPT ![h].pc = "insert", ![h].top = n]
    /\ UNCHANGED <<rows, bus, runtime, faults>>

ChildInsert(h) ==
    LET c == handler[h].step
        n == handler[h].top + 1 IN
    /\ At(h, "insert") /\ handler[h].job = "child"
    /\ IF CanInsert(c, n) THEN InsertRow(c, n, "running") /\ Goto(h, "childRun")
       ELSE Goto(h, "raced") /\ UNCHANGED <<seq, stepStatus>>
    /\ UNCHANGED <<runStatus, bus, runtime, faults>>

\* A violation is forgiven when the child's row is there by now, else thrown.
ChildRaced(h) ==
    /\ At(h, "raced")
    /\ IF seq[handler[h].step] > 0 THEN Goto(h, "childRun") ELSE Done(h)
    /\ UNCHANGED <<rows, bus, runtime, faults>>

ChildRun(h) ==
    /\ At(h, "childRun")
    /\ IF handler[h].seen = "queued" THEN runStatus' = "running"
       ELSE UNCHANGED runStatus
    /\ Done(h)
    /\ UNCHANGED <<seq, stepStatus, bus, runtime, faults>>

\* projectAgentTaskCompleted: the step is looked up by id, else the first step
\* of the same agent stands in; without either the handler throws.
StandIn(s) ==
    {t \in Present : /\ AgentOf[t] = AgentOf[s]
                     /\ \A u \in Present : AgentOf[u] = AgentOf[s] => seq[t] <= seq[u]}
Targets(s) == IF seq[s] > 0 THEN {s} ELSE StandIn(s)

ProjectOutcome(h, s, o) ==
    /\ Unread(<<o, s>>)
    /\ Consume(<<o, s>>)
    /\ Begin(h, [Free EXCEPT !.pc = "find", !.job = o, !.step = s, !.to = o,
                             !.plan = IF agent[s] = "ended" THEN PlanOf[s] ELSE {}])
    /\ UNCHANGED <<rows, published, runtime, faults>>

FindStep(h) ==
    /\ At(h, "find")
    /\ \E t \in Targets(handler[h].step) :
         handler' = [handler EXCEPT ![h].pc = "outcome", ![h].step = t]
    /\ UNCHANGED <<rows, bus, runtime, faults>>

StepMissing(h) ==
    /\ At(h, "find")
    /\ Targets(handler[h].step) = {}
    /\ Done(h)
    /\ UNCHANGED <<rows, bus, runtime, faults>>

SetStep(s, status) == stepStatus' = [stepStatus EXCEPT ![s] = status]

\* Failed: the step fails, and the run with it when the step has no parent.
ApplyFailed(h) ==
    LET s == handler[h].step IN
    /\ At(h, "outcome") /\ handler[h].job = "failed"
    /\ SetStep(s, "failed")
    /\ IF IsRootStep(s) /\ handler[h].seen \in Open THEN Goto(h, "write") ELSE Done(h)
    /\ UNCHANGED <<runStatus, seq, bus, runtime, faults>>

\* Waiting: the step waits, and the run with it, whatever the step.
ApplyWaiting(h) ==
    /\ At(h, "outcome") /\ handler[h].job = "waiting_approval"
    /\ SetStep(handler[h].step, "waiting_approval")
    /\ IF handler[h].seen \in {"queued", "running"} THEN Goto(h, "write") ELSE Done(h)
    /\ UNCHANGED <<runStatus, seq, bus, runtime, faults>>

\* Completed: read the highest seq, then insert the plan and complete the step
\* in one transaction, then start and finish the run.
ReadTop(h) ==
    /\ At(h, "outcome") /\ handler[h].job = "completed"
    /\ \E n \in Seqs :
         /\ IsTop(n)
         /\ handler' = [handler EXCEPT ![h].pc = "plan", ![h].top = n]
    /\ UNCHANGED <<rows, bus, runtime, faults>>

Numberings(plan, n) ==
    {f \in [plan -> (n + 1)..(n + Cardinality(plan))] :
        \A p, q \in plan : p # q => f[p] # f[q]}
PlanFits(plan, n) ==
    /\ \A p \in plan : seq[p] = 0
    /\ \A t \in Present : seq[t] \notin (n + 1)..(n + Cardinality(plan))

\* Mutant (FinalReportEndsRun): only a running run is completed.
ConcludeRunning(h, status) ==
    handler' = [handler EXCEPT ![h] =
                  IF IsRootStep(@.step) /\ status = "running"
                  THEN [@ EXCEPT !.pc = "write", !.seen = status] ELSE Free]

\* The root step's run goes on to be completed, on the status read or set.
Conclude(h, status) ==
    handler' = [handler EXCEPT ![h] =
                  IF IsRootStep(@.step) /\ status \in Open
                  THEN [@ EXCEPT !.pc = "write", !.seen = status] ELSE Free]

InsertPlan(h) ==
    LET plan == handler[h].plan IN
    /\ At(h, "plan")
    /\ PlanFits(plan, handler[h].top)
    /\ \E f \in Numberings(plan, handler[h].top) :
         seq' = [t \in Steps |-> IF t \in plan THEN f[t] ELSE seq[t]]
    /\ stepStatus' = [t \in Steps |->
                         IF t \in plan THEN "queued"
                         ELSE IF t = handler[h].step THEN "completed" ELSE stepStatus[t]]
    /\ IF handler[h].seen = "queued" THEN Goto(h, "start")
       ELSE Conclude(h, handler[h].seen)
    /\ UNCHANGED <<runStatus, bus, runtime, faults>>

\* A step was inserted since the highest seq was read: the transaction aborts,
\* the exception is swallowed and the run is never finished by this event.
PlanConflict(h) ==
    /\ At(h, "plan")
    /\ ~PlanFits(handler[h].plan, handler[h].top)
    /\ Done(h)
    /\ UNCHANGED <<rows, bus, runtime, faults>>

StartRun(h) ==
    /\ At(h, "start")
    /\ runStatus' = "running"
    /\ Conclude(h, "running")
    /\ UNCHANGED <<seq, stepStatus, bus, runtime, faults>>

\* The process dies, or a call of the handler throws, between two steps.
HandlerDies(h) ==
    /\ handler[h].pc # "free"
    /\ Fault
    /\ Done(h)
    /\ UNCHANGED <<rows, bus, runtime>>

---------------------------------------------------------------------------
Continue(h) ==
    \/ InsertStep(h) \/ Decide(h) \/ WriteStatus(h)
    \/ ChildLookup(h) \/ ChildInsert(h) \/ ChildRaced(h) \/ ChildRun(h)
    \/ FindStep(h) \/ StepMissing(h)
    \/ ApplyFailed(h) \/ ApplyWaiting(h) \/ ReadTop(h)
    \/ InsertPlan(h) \/ PlanConflict(h) \/ StartRun(h)

Project(h) ==
    \/ \E c \in Children : ProjectDelegated(h, c)
    \/ \E s \in AgentSteps, o \in Outcomes : ProjectOutcome(h, s, o)

Request(h) ==
    \/ \E to \in PatchTargets : PatchStatus(h, to)
    \/ \E m \in Manual : CreateStep(h, m)
    \/ \E s \in AgentSteps, v \in {"approve", "reject"} : Decision(h, v, s)

AgentRuntime ==
    \/ \E c \in Children :
          \/ Delegate(c) \/ EnsureLookup(c) \/ EnsureInsert(c) \/ EnsureConflict(c)
          \/ DelegationFails(c)
    \/ \E s \in AgentSteps, o \in Outcomes : ReportOutcome(s, o) \/ ReportResumed(s, o)

Next ==
    \/ CreateRun \/ DispatchAgentTask \/ DispatchRefused
    \/ AgentRuntime
    \/ \E h \in Handlers : Continue(h) \/ Project(h) \/ Request(h) \/ HandlerDies(h)

\* Handlers that started run on and published events are consumed; agents and
\* users owe nothing.
Fairness ==
    /\ \A h \in Handlers : WF_vars(Continue(h))
    /\ WF_vars(\E h \in Handlers : Project(h))

Spec == Init /\ [][Next]_vars
FairSpec == Spec /\ Fairness

---------------------------------------------------------------------------
(* Properties                                                              *)

\* A run ends only for a reason: it is completed only if the root agent
\* reported completion, failed only if the root agent reported failure or an
\* approval was refused (no patches); a child's outcome never ends the run.
EndsForAReason ==
    PatchTargets = {} =>
        /\ runStatus = "completed" => <<"completed", Root>> \in published
        /\ runStatus = "failed" =>
              \/ <<"failed", Root>> \in published
              \/ \E s \in AgentSteps : agent[s] = "refused"

\* A handler that started after the run had ended never writes its status.
Writing(h) ==
    \/ handler[h].pc \in {"write", "start"}
    \/ handler[h].pc = "childRun" /\ handler[h].seen = "queued"
NewcomersRespectEnd ==
    \A h \in Handlers : Writing(h) => handler[h].seen \notin Terminal

\* A retry of ensureChildRunStep is always paid for by a row somebody else
\* inserted, so five attempts lose only against five concurrent insertions.
RetriesArePaidFor ==
    \A c \in Children : attempts[c] < Cardinality(Present) \/ attempts[c] = 0

\* When handlers run one at a time and nothing fails, the root agent's final
\* report ends the run in whatever order the events of the run arrive.
FinalReportEndsRun ==
    Cardinality(Handlers) = 1 =>
        \A o \in Terminal :
            (<<o, Root>> \in published) ~> (runStatus \in Terminal \/ faults > 0)

\* "Terminal: completed, failed": what RUN_STATUS_TRANSITIONS and docs/runs.md
\* promise of the status, and concurrent handlers with a stale read break.
TerminalIsFinal ==
    [][(runStatus \in Terminal) => (runStatus' = runStatus)]_runStatus
==========================================================================
