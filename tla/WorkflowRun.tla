---------------------------- MODULE WorkflowRun ----------------------------
(***************************************************************************)
(* One run of a declarative workflow: the API that starts and resumes it   *)
(* (WorkflowsService), the runner that consumes verse.workflow.tasks       *)
(* (workflow-runner) and advances the engine (WorkflowEngine), and the     *)
(* projection of the specialists' events onto the platform run.            *)
(*                                                                         *)
(* The engine keeps its progress in memory and stores it when it pauses or *)
(* ends; the row is written by start, by every resume and by every runner, *)
(* each without looking at it again.  The bus hands a task to one runner   *)
(* at most once (StreamsBus!HandledAtMostOnce) and may lose it to a crash. *)
(* The projection is one read and one write here; RunLifecycle has its     *)
(* steps.                                                                  *)
(***************************************************************************)
EXTENDS Naturals, FiniteSets

CONSTANTS
    Length,      \* steps of the definition, 1..Length in definition order
    Kind,        \* kind of each step
    Needs,       \* steps that must complete before a step
    Requests,    \* HTTP calls of resume
    Runners,     \* tasks that agent runtimes can process at once
    Projectors,  \* events that API replicas can project at once
    MaxFaults    \* bound: process deaths and failed calls

Steps == 1..Length
Kinds == {"memory_remember", "fan_out", "delegate", "checkpoint", "noop"}

\* The engine does not look for cycles (it would call such a workflow
\* completed when nothing is ready); the definitions it is given have none:
\* in every set of steps one needs none of the others.
\* A resume call is told from the start task.
ASSUME WorkflowAssumption ==
    /\ Length \in Nat
    /\ Kind \in [Steps -> Kinds]
    /\ Needs \in [Steps -> SUBSET Steps]
    /\ \A S \in SUBSET Steps : S # {} => \E s \in S : Needs[s] \cap S = {}
    /\ "start" \notin Requests
    /\ MaxFaults \in Nat

VARIABLES
    row,         \* workflow_runs: status and engineState.completed_step_ids
    run,         \* runs.status of the platform run
    svc,         \* where the start call is
    req,         \* where each resume call is
    tasks,       \* tasks published and not yet delivered
    runner,      \* runner -> where it is, its task and engine state
    executions,  \* step -> times its handler was called
    stray,       \* fan_out steps given up on while specialists were running
    events,      \* specialists' events published and not yet projected
    projector,   \* projector -> the event it projects, the run it read
    faults

api == <<svc, req>>
engine == <<runner, executions, stray>>
projection == <<events, projector>>
vars == <<row, run, api, tasks, engine, projection, faults>>

Checkpoints == {s \in Steps : Kind[s] = "checkpoint"}
\* Steps that call agents through the OrchestrationHost.
Orchestrating == {s \in Steps : Kind[s] \in {"fan_out", "delegate"}}
FanOuts == {s \in Steps : Kind[s] = "fan_out"}
Fallible == {s \in Steps : Kind[s] = "memory_remember"} \cup Orchestrating

Tasks == {"start"} \cup Requests
EngineStatus == {"running", "waiting_checkpoint", "completed", "failed"}
RunStatus == {"none", "queued", "running", "waiting_approval", "completed", "failed"}
Outcomes == {"completed", "failed", "waiting_approval"}
Reports == Outcomes \cup {"delegated"}
Over == {"completed", "failed"}

Idle == [pc |-> "idle", task |-> "start", step |-> 0, done |-> {},
         status |-> "running", told |-> {}]
NoEvent == [what |-> "none", seen |-> "none"]

TypeOK ==
    /\ row \in [status : {"none", "queued"} \cup EngineStatus,
                completed : SUBSET Steps]
    /\ run \in RunStatus
    /\ svc \in {"idle", "publish", "mark", "done", "died"}
    /\ req \in [Requests -> {"idle", "write", "publish", "done", "refused", "died"}]
    /\ tasks \in SUBSET Tasks
    /\ runner \in [Runners ->
                     [pc : {"idle", "load", "advance", "execute", "saveRow", "saveRun"},
                      task : Tasks,
                      step : Steps \cup {0},
                      done : SUBSET Steps,
                      status : EngineStatus,
                      told : SUBSET Reports]]
    /\ executions \in [Steps -> Nat]
    /\ stray \in SUBSET FanOuts
    /\ events \in SUBSET Reports
    /\ projector \in [Projectors ->
                        [what : Reports \cup {"none"}, seen : RunStatus]]
    /\ faults \in Nat

Init ==
    /\ row = [status |-> "none", completed |-> {}]
    /\ run = "none"
    /\ svc = "idle"
    /\ req = [q \in Requests |-> "idle"]
    /\ tasks = {}
    /\ runner = [w \in Runners |-> Idle]
    /\ executions = [s \in Steps |-> 0]
    /\ stray = {}
    /\ events = {}
    /\ projector = [p \in Projectors |-> NoEvent]
    /\ faults = 0

Fault ==
    /\ faults < MaxFaults
    /\ faults' = faults + 1

---------------------------------------------------------------------------
(* WorkflowsService.start                                                  *)

\* The transaction that creates the run, its first step and the workflow row.
Start ==
    /\ svc = "idle"
    /\ svc' = "publish"
    /\ row' = [row EXCEPT !.status = "queued"]
    /\ run' = "queued"
    /\ UNCHANGED <<req, tasks, engine, projection, faults>>

PublishStart ==
    /\ svc = "publish"
    /\ svc' = "mark"
    /\ tasks' = tasks \cup {"start"}
    /\ UNCHANGED <<row, run, req, engine, projection, faults>>

\* The row is marked running after the task was published: whatever a runner
\* has stored meanwhile keeps its progress and loses its status.
MarkRunning ==
    /\ svc = "mark"
    /\ svc' = "done"
    /\ row' = [row EXCEPT !.status = "running"]
    /\ UNCHANGED <<run, req, tasks, engine, projection, faults>>

StartDies ==
    /\ svc \in {"publish", "mark"}
    /\ Fault
    /\ svc' = "died"
    /\ UNCHANGED <<row, run, req, tasks, engine, projection>>

---------------------------------------------------------------------------
(* WorkflowsService.resume                                                 *)

\* "paused" would be accepted too; nothing writes it.
Accept(q) ==
    /\ req[q] = "idle"
    /\ row.status = "waiting_checkpoint"
    /\ req' = [req EXCEPT ![q] = "write"]
    /\ UNCHANGED <<row, run, svc, tasks, engine, projection, faults>>

RefuseResume(q) ==
    /\ req[q] = "idle"
    /\ row.status \notin {"none", "waiting_checkpoint"}
    /\ req' = [req EXCEPT ![q] = "refused"]
    /\ UNCHANGED <<row, run, svc, tasks, engine, projection, faults>>

WriteRunning(q) ==
    /\ req[q] = "write"
    /\ req' = [req EXCEPT ![q] = "publish"]
    /\ row' = [row EXCEPT !.status = "running"]
    /\ UNCHANGED <<run, svc, tasks, engine, projection, faults>>

PublishResume(q) ==
    /\ req[q] = "publish"
    /\ req' = [req EXCEPT ![q] = "done"]
    /\ tasks' = tasks \cup {q}
    /\ UNCHANGED <<row, run, svc, engine, projection, faults>>

ResumeDies(q) ==
    /\ req[q] \in {"write", "publish"}
    /\ Fault
    /\ req' = [req EXCEPT ![q] = "died"]
    /\ UNCHANGED <<row, run, svc, tasks, engine, projection>>

---------------------------------------------------------------------------
(* handleWorkflowTask and WorkflowEngine.advance                           *)

\* The bus delivers a task; a start begins from the engine's initial state.
Deliver(w, t) ==
    /\ runner[w].pc = "idle"
    /\ t \in tasks
    /\ tasks' = tasks \ {t}
    /\ runner' = [runner EXCEPT ![w] =
                    [Idle EXCEPT !.pc = IF t = "start" THEN "advance" ELSE "load",
                                 !.task = t]]
    /\ UNCHANGED <<row, run, api, executions, stray, projection, faults>>

\* Mutants (RepeatsNeedResumes, ResumeSettles): a resume starts over; a task
\* whose workflow is already running is left to whoever runs it.
LoadNothing(w) ==
    /\ runner[w].pc = "load"
    /\ runner' = [runner EXCEPT ![w].pc = "advance"]
    /\ UNCHANGED <<row, run, api, tasks, executions, stray, projection, faults>>
LoadUnlessRunning(w) ==
    /\ runner[w].pc = "load"
    /\ runner' = [runner EXCEPT ![w] =
                    IF row.status = "running" THEN Idle
                    ELSE [@ EXCEPT !.pc = "advance", !.done = row.completed]]
    /\ UNCHANGED <<row, run, api, tasks, executions, stray, projection, faults>>

\* A resume continues from the engine state of the row.
Load(w) ==
    /\ runner[w].pc = "load"
    /\ runner' = [runner EXCEPT ![w] =
                    [@ EXCEPT !.pc = "advance", !.done = row.completed]]
    /\ UNCHANGED <<row, run, api, tasks, executions, stray, projection, faults>>

\* Mutant (RowIsTrue): the needs of a step are not looked at.
NotCompleted(done) == Steps \ done
Ready(done) == {s \in Steps \ done : Needs[s] \subseteq done}

\* One ready step at a time, the first in definition order.  Every kind has a
\* handler, and a turn of the loop completes a step, so the engine's bound of
\* 3 * Length turns is not met.
CallStep(w) ==
    /\ runner[w].pc = "advance"
    /\ \E s \in Ready(runner[w].done) :
          /\ \A t \in Ready(runner[w].done) : s <= t
          /\ runner' = [runner EXCEPT ![w] =
                          [@ EXCEPT !.pc = "execute", !.step = s, !.told = {}]]
          /\ executions' = [executions EXCEPT ![s] = @ + 1]
    /\ UNCHANGED <<row, run, api, tasks, stray, projection, faults>>

\* A specialist called by the step is announced or reports its outcome.
SpecialistReports(w, what) ==
    /\ runner[w].pc = "execute"
    /\ runner[w].step \in Orchestrating
    /\ what \notin runner[w].told
    /\ what # "delegated" => "delegated" \in runner[w].told
    /\ runner' = [runner EXCEPT ![w].told = @ \cup {what}]
    /\ events' = events \cup {what}
    /\ UNCHANGED <<row, run, api, tasks, executions, stray, projector, faults>>

Pauses(s) == s \in Checkpoints

\* The handler returns: for agents, all of them have completed.
StepReturns(w) ==
    LET x == runner[w]
        s == x.step
    IN
    /\ x.pc = "execute"
    /\ s \in Orchestrating => x.told = {"delegated", "completed"}
    /\ runner' = [runner EXCEPT ![w] =
                    [x EXCEPT
                        !.done = x.done \cup {s},
                        !.pc = IF Pauses(s) THEN "saveRow" ELSE "advance",
                        !.status = IF Pauses(s) THEN "waiting_checkpoint" ELSE x.status]]
    /\ UNCHANGED <<row, run, api, tasks, executions, stray, projection, faults>>

\* The handler throws; the step is not recorded.  When one call of a fan_out
\* throws, the others run on.
StepFails(w) ==
    /\ runner[w].pc = "execute"
    /\ runner[w].step \in Fallible
    /\ runner' = [runner EXCEPT ![w] = [@ EXCEPT !.pc = "saveRow", !.status = "failed"]]
    /\ \/ UNCHANGED stray
       \/ stray' = stray \cup ({runner[w].step} \cap FanOuts)
    /\ UNCHANGED <<row, run, api, tasks, executions, projection, faults>>

StrayReports(s, what) ==
    /\ s \in stray
    /\ events' = events \cup {what}
    /\ UNCHANGED <<row, run, api, tasks, engine, projector, faults>>

\* No step is ready: taken for completion.
Finish(w) ==
    /\ runner[w].pc = "advance"
    /\ Ready(runner[w].done) = {}
    /\ runner' = [runner EXCEPT ![w] =
                    [@ EXCEPT !.pc = "saveRow", !.status = "completed"]]
    /\ UNCHANGED <<row, run, api, tasks, executions, stray, projection, faults>>

\* persistEngineState: the workflow row, then the platform run.
SaveRow(w) ==
    /\ runner[w].pc = "saveRow"
    /\ row' = [status |-> runner[w].status, completed |-> runner[w].done]
    /\ runner' = [runner EXCEPT ![w].pc = "saveRun"]
    /\ UNCHANGED <<run, api, tasks, executions, stray, projection, faults>>

\* Mutant (TypeOK): the run gets the status of the workflow.
SameStatus(status) == status
RunStatusOf(status) == IF status \in Over THEN status ELSE "running"

\* workflow.run.updated, published next, has no consumer.
SaveRun(w) ==
    /\ runner[w].pc = "saveRun"
    /\ run' = RunStatusOf(runner[w].status)
    /\ runner' = [runner EXCEPT ![w] = Idle]
    /\ UNCHANGED <<row, api, tasks, executions, stray, projection, faults>>

\* The runtime dies, or a database call throws: the task is gone.
RunnerDies(w) ==
    /\ runner[w].pc # "idle"
    /\ Fault
    /\ runner' = [runner EXCEPT ![w] = Idle]
    /\ UNCHANGED <<row, run, api, tasks, executions, stray, projection>>

---------------------------------------------------------------------------
(* The API projects the events of the specialists onto the platform run    *)

\* The runner calls agents under a fresh step id.  ensureChildRunStep and
\* projectChildAgentStep drop a parent that has no row, so every specialist's
\* step is a root step.
StepRows == {"workflow.start"}
CallerStep == "random"
IsRootStep == CallerStep \notin StepRows

Project(p, what) ==
    /\ projector[p] = NoEvent
    /\ what \in events
    /\ events' = events \ {what}
    /\ projector' = [projector EXCEPT ![p] = [what |-> what, seen |-> run]]
    /\ UNCHANGED <<row, run, api, tasks, engine, faults>>

Projected(what, seen) ==
    CASE what = "delegated" /\ seen = "queued" -> "running"
      [] what = "waiting_approval" /\ seen \in {"queued", "running"} -> what
      [] what \in Over /\ IsRootStep
            /\ seen \in {"queued", "running", "waiting_approval"} -> what
      [] OTHER -> run

ProjectorWrites(p) ==
    /\ projector[p] # NoEvent
    /\ run' = Projected(projector[p].what, projector[p].seen)
    /\ projector' = [projector EXCEPT ![p] = NoEvent]
    /\ UNCHANGED <<row, api, tasks, engine, events, faults>>

---------------------------------------------------------------------------
(* Specification                                                           *)

ApiStep ==
    \/ PublishStart \/ MarkRunning
    \/ \E q \in Requests : WriteRunning(q) \/ PublishResume(q)

RunnerStep(w) ==
    \/ Load(w) \/ CallStep(w) \/ StepReturns(w) \/ StepFails(w)
    \/ Finish(w) \/ SaveRow(w) \/ SaveRun(w)
    \/ \E what \in Reports : SpecialistReports(w, what)

Next ==
    \/ Start \/ StartDies \/ ApiStep
    \/ \E q \in Requests : Accept(q) \/ RefuseResume(q) \/ ResumeDies(q)
    \/ \E w \in Runners :
          RunnerStep(w) \/ RunnerDies(w) \/ \E t \in Tasks : Deliver(w, t)
    \/ \E s \in FanOuts, what \in Reports : StrayReports(s, what)
    \/ \E p \in Projectors :
          ProjectorWrites(p) \/ \E what \in Reports : Project(p, what)

\* Started requests and runners run on (specialists return or fail), and
\* tasks are delivered.  Users and failures owe nothing.
Fairness ==
    /\ WF_vars(ApiStep)
    /\ \A w \in Runners : WF_vars(RunnerStep(w))
    /\ WF_vars(\E w \in Runners, t \in Tasks : Deliver(w, t))

Spec == Init /\ [][Next]_vars
FairSpec == Spec /\ Fairness

---------------------------------------------------------------------------
(* Properties                                                              *)

Accepted == {q \in Requests : req[q] \notin {"idle", "refused"}}

\* The row can be trusted whatever raced for it: the steps it lists were
\* executed, with everything they need, "completed" means all steps, and a
\* waiting workflow has passed a checkpoint.
RowIsTrue ==
    /\ \A s \in row.completed : executions[s] > 0 /\ Needs[s] \subseteq row.completed
    /\ row.status = "completed" => row.completed = Steps
    /\ row.status = "waiting_checkpoint" => row.completed \cap Checkpoints # {}

\* "No automatic retries": a step is executed again only if two calls of
\* resume were let through, and never more often than that.  What ran before
\* the first checkpoint runs once.
RepeatsNeedResumes ==
    \A s \in Steps :
        executions[s] <= IF Accepted = {} THEN 1 ELSE Cardinality(Accepted)

\* While nothing fails, a resumed workflow pauses again or ends.
ResumeSettles ==
    \A q \in Requests :
        (req[q] = "publish" /\ row.status = "running")
            ~> (row.status \in Over \cup {"waiting_checkpoint"} \/ faults > 0)

==========================================================================
