------------------------- MODULE WorkflowRunProofs -------------------------
(***************************************************************************)
(* What the workflow row says is true, and steps are executed again only   *)
(* for resumes that were let through, for every workflow without cycles    *)
(* and any number of requests, runners, projections and faults.            *)
(*                                                                         *)
(* The first argument follows the engine state: what a runner holds as     *)
(* completed was executed together with its needs, and the row is only     *)
(* ever written from such a state.  The second accounts for executions: a  *)
(* task is delivered once and calls a step at most once; the start task is *)
(* through before a resume can be accepted, and what it executed is in the *)
(* row from then on.                                                       *)
(***************************************************************************)
EXTENDS WorkflowRun, FiniteSetTheorems, TLAPS

\* What a runner may hold.
RunnerStates ==
    [pc : {"idle", "load", "advance", "execute", "saveRow", "saveRun"},
     task : Tasks,
     step : Steps \cup {0},
     done : SUBSET Steps,
     status : EngineStatus,
     told : SUBSET Reports]

\* A runner that waits for a handler called it for a step: step 0 is none.
AtSteps == \A w \in Runners : runner[w].pc = "execute" => runner[w].step \in Steps

\* Steps that were executed, each with the steps it needs.
Closed(done, times) ==
    \A s \in done : times[s] > 0 /\ Needs[s] \subseteq done

\* An engine state, or a row, whose status agrees with its completed steps.
Agree(status, done) ==
    /\ status = "completed" => done = Steps
    /\ status = "waiting_checkpoint" => done \cap Checkpoints # {}

\* The engine state of a runner x can be stored.
Storable(x, times) ==
    /\ Closed(x.done, times)
    /\ x.pc = "execute" => x.step \in Ready(x.done) /\ times[x.step] > 0
    /\ x.pc \in {"saveRow", "saveRun"} => Agree(x.status, x.done)

RowInv ==
    /\ Closed(row.completed, executions)
    /\ Agree(row.status, row.completed)
    /\ \A w \in Runners : Storable(runner[w], executions)

---------------------------------------------------------------------------
\* A runner in state x can still call the handler of s for its task.
MayCall(x, s) ==
    \/ x.pc = "load"
    \/ x.pc = "advance" /\ s \notin x.done
    \/ x.pc = "execute" /\ s \notin x.done \cup {x.step}

Published(t) ==
    IF t = "start" THEN svc \in {"mark", "done", "died"} ELSE req[t] = "done"

\* Each task is delivered once, to one runner.
HandedOnce ==
    /\ \A t \in tasks : Published(t)
    /\ \A w \in Runners : runner[w].pc # "idle" =>
          Published(runner[w].task) /\ runner[w].task \notin tasks
    /\ \A w, v \in Runners :
          w # v /\ runner[w].pc # "idle" /\ runner[v].pc # "idle" =>
             runner[w].task # runner[v].task

\* Resumes that will not call the handler of s any more.
Spent(s) ==
    {q \in Requests :
        /\ req[q] = "done" /\ q \notin tasks
        /\ \A w \in Runners : runner[w].task = q => ~ MayCall(runner[w], s)}

\* The start task calls no handler any more, and has written the row.
StartIsOver ==
    /\ Published("start") /\ "start" \notin tasks
    /\ \A w \in Runners : runner[w].task = "start" => runner[w].pc \in {"idle", "saveRun"}

\* Before any resume only the start task calls handlers, each once; when it
\* waits at a checkpoint, every step it executed is completed.
StartRunsOnce(s) ==
    /\ \/ executions[s] = 0
       \/ /\ executions[s] = 1 /\ Published("start") /\ "start" \notin tasks
          /\ \A w \in Runners : ~ MayCall(runner[w], s)
    /\ \A w \in Runners :
          runner[w].pc = "saveRow" /\ runner[w].status = "waiting_checkpoint" =>
             executions[s] = 0 \/ s \in runner[w].done
    /\ row.status = "waiting_checkpoint" => executions[s] = 0 \/ s \in row.completed

\* What the start task executed stays completed for every resume.
Kept(s) ==
    /\ executions[s] = 1 /\ s \in row.completed
    /\ \A w \in Runners :
          runner[w].pc \in {"advance", "execute", "saveRow"} => s \in runner[w].done

StartGoesFirst ==
    Accepted # {} \/ row.status = "waiting_checkpoint" => StartIsOver

CallsAreAccounted ==
    /\ Accepted = {} => \A s \in Steps : StartRunsOnce(s)
    /\ Accepted # {} =>
          \A s \in Steps : executions[s] <= Cardinality(Spent(s)) \/ Kept(s)

CountInv == HandedOnce /\ IsFiniteSet(Accepted) /\ StartGoesFirst /\ CallsAreAccounted

USE WorkflowAssumption

---------------------------------------------------------------------------
(* Types                                                                   *)

\* Nothing is stored and nobody runs.
LEMMA TypeInit == Init => TypeOK /\ AtSteps
BY DEF Init, AtSteps, TypeOK, Idle, NoEvent, Steps, Tasks, EngineStatus, RunStatus

\* An idle runner is in a state of a runner.
LEMMA IdleTyped == Idle \in RunnerStates
BY DEF Idle, RunnerStates, Tasks, EngineStatus

\* The ready steps are steps.
LEMMA ReadyAreSteps ==
    ASSUME NEW done \in SUBSET Steps, NEW s \in Ready(done)
    PROVE  s \in Steps /\ s \notin done /\ Needs[s] \subseteq done
BY DEF Ready

\* The start call.
LEMMA TypeStart ==
    ASSUME TypeOK, Start \/ PublishStart \/ MarkRunning \/ StartDies
    PROVE  TypeOK'
BY DEF TypeOK, Start, PublishStart, MarkRunning, StartDies, Fault, api, engine,
       projection, EngineStatus, RunStatus, Tasks

\* The resume calls.
LEMMA TypeResume ==
    ASSUME TypeOK, NEW q \in Requests,
           Accept(q) \/ RefuseResume(q) \/ WriteRunning(q) \/ PublishResume(q)
             \/ ResumeDies(q)
    PROVE  TypeOK'
BY DEF TypeOK, Accept, RefuseResume, WriteRunning, PublishResume, ResumeDies, Fault,
       api, engine, projection, EngineStatus, Tasks

\* A runner's step leaves it in a state of a runner.
LEMMA RunnerTyped ==
    ASSUME TypeOK, AtSteps, NEW w \in Runners,
           \/ RunnerStep(w) \/ RunnerDies(w) \/ \E t \in Tasks : Deliver(w, t)
    PROVE  runner' \in [Runners -> RunnerStates] /\ AtSteps'
<1>1. runner \in [Runners -> RunnerStates]
  BY DEF TypeOK, RunnerStates
<1>2. ASSUME NEW x \in RunnerStates, runner' = [runner EXCEPT ![w] = x],
             x.pc = "execute" => x.step \in Steps
      PROVE  runner' \in [Runners -> RunnerStates] /\ AtSteps'
  BY <1>1, <1>2 DEF AtSteps
<1> DEFINE y == runner[w]
<1>3. y \in RunnerStates
  BY <1>1
<1>4. ASSUME NEW t \in Tasks, Deliver(w, t)
      PROVE  runner' \in [Runners -> RunnerStates] /\ AtSteps'
  <2>1. [Idle EXCEPT !.pc = IF t = "start" THEN "advance" ELSE "load", !.task = t]
          \in RunnerStates
    BY IdleTyped DEF RunnerStates
  <2> QED
    BY <1>2, <1>4, <2>1 DEF Deliver, Idle
<1>5. CASE Load(w)
  <2>1. [y EXCEPT !.pc = "advance", !.done = row.completed] \in RunnerStates
    BY <1>3 DEF RunnerStates, TypeOK
  <2> QED
    BY <1>2, <1>3, <1>5, <2>1 DEF Load, RunnerStates
<1>6. CASE CallStep(w)
  <2>1. PICK s \in Ready(y.done) :
          runner' = [runner EXCEPT ![w] = [@ EXCEPT !.pc = "execute", !.step = s, !.told = {}]]
    BY <1>6 DEF CallStep
  <2>2. s \in Steps
    BY <1>3, <2>1 DEF Ready
  <2>3. [y EXCEPT !.pc = "execute", !.step = s, !.told = {}] \in RunnerStates
    BY <1>3, <2>2 DEF RunnerStates
  <2> QED
    BY <1>2, <1>3, <2>1, <2>2, <2>3 DEF RunnerStates
<1>7. CASE StepReturns(w)
  <2> DEFINE x == [y EXCEPT
                     !.done = y.done \cup {y.step},
                     !.pc = IF Pauses(y.step) THEN "saveRow" ELSE "advance",
                     !.status = IF Pauses(y.step) THEN "waiting_checkpoint" ELSE y.status]
  <2>1. y.step \in Steps
    BY <1>7 DEF StepReturns, AtSteps
  <2>2. x \in RunnerStates /\ x.pc # "execute"
    BY <1>3, <2>1 DEF RunnerStates, EngineStatus
  <2>3. runner' = [runner EXCEPT ![w] = x]
    BY <1>7 DEF StepReturns
  <2> QED
    BY <1>2, <2>2, <2>3
<1>8. CASE StepFails(w) \/ Finish(w)
  <2> DEFINE x(status) == [y EXCEPT !.pc = "saveRow", !.status = status]
  <2>1. \A status \in EngineStatus :
          x(status) \in RunnerStates /\ x(status).pc # "execute"
    BY <1>3 DEF RunnerStates
  <2>2. \E status \in EngineStatus : runner' = [runner EXCEPT ![w] = x(status)]
    BY <1>8 DEF StepFails, Finish, EngineStatus
  <2> QED
    BY <1>2, <2>1, <2>2
<1>11. CASE SaveRow(w)
  BY <1>1, <1>11 DEF SaveRow, RunnerStates, AtSteps
<1>9. CASE SaveRun(w) \/ RunnerDies(w)
  BY <1>2, <1>9, IdleTyped DEF SaveRun, RunnerDies, Idle
<1>10. ASSUME NEW what \in Reports, SpecialistReports(w, what)
       PROVE  runner' \in [Runners -> RunnerStates] /\ AtSteps'
  BY <1>1, <1>10, SMTT(30) DEF SpecialistReports, RunnerStates, AtSteps
<1> QED
  BY <1>4, <1>5, <1>6, <1>7, <1>8, <1>9, <1>10, <1>11 DEF RunnerStep

\* A runner takes a task, calls steps and stores the state.
LEMMA TypeRunner ==
    ASSUME TypeOK, AtSteps, NEW w \in Runners,
           \/ RunnerStep(w) \/ RunnerDies(w) \/ \E t \in Tasks : Deliver(w, t)
    PROVE  TypeOK' /\ AtSteps'
<1>1. runner' \in [Runners -> RunnerStates] /\ AtSteps'
  BY RunnerTyped
<1> USE <1>1 DEF TypeOK, RunnerStates, api, engine, projection
<1>2. ASSUME NEW t \in Tasks, Deliver(w, t) PROVE TypeOK'
  BY <1>2 DEF Deliver
<1>3. CASE Load(w) \/ Finish(w)
  BY <1>3 DEF Load, Finish
<1>4. CASE CallStep(w)
  BY <1>4, ReadyAreSteps DEF CallStep
<1>5. CASE StepReturns(w)
  BY <1>5 DEF StepReturns
<1>6. CASE StepFails(w)
  BY <1>6 DEF StepFails
<1>7. CASE SaveRow(w)
  BY <1>7 DEF SaveRow
<1>8. CASE SaveRun(w)
  BY <1>8 DEF SaveRun, RunStatusOf, RunStatus, Over
<1>9. CASE RunnerDies(w)
  BY <1>9 DEF RunnerDies, Fault
<1>10. ASSUME NEW what \in Reports, SpecialistReports(w, what) PROVE TypeOK'
  BY <1>10 DEF SpecialistReports
<1> QED
  BY <1>2, <1>3, <1>4, <1>5, <1>6, <1>7, <1>8, <1>9, <1>10 DEF RunnerStep

\* Events are published and projected.
LEMMA TypeEvents ==
    ASSUME TypeOK,
           \/ \E s \in FanOuts, what \in Reports : StrayReports(s, what)
           \/ \E p \in Projectors :
                 ProjectorWrites(p) \/ \E what \in Reports : Project(p, what)
    PROVE  TypeOK'
<1>1. CASE \E s \in FanOuts, what \in Reports : StrayReports(s, what)
  BY <1>1 DEF StrayReports, TypeOK, api, engine
<1>2. ASSUME NEW p \in Projectors, NEW what \in Reports, Project(p, what) PROVE TypeOK'
  <2>1. projector' \in [Projectors -> [what : Reports \cup {"none"}, seen : RunStatus]]
    BY <1>2 DEF Project, TypeOK
  <2> QED
    BY <1>2, <2>1 DEF Project, TypeOK, api, engine
<1>3. ASSUME NEW p \in Projectors, ProjectorWrites(p) PROVE TypeOK'
  <2>1. projector[p].what \in Reports \cup {"none"} /\ run \in RunStatus
    BY DEF TypeOK
  <2>2. run' \in RunStatus
    BY <1>3, <2>1 DEF ProjectorWrites, Projected, RunStatus, Over
  <2>3. NoEvent \in [what : Reports \cup {"none"}, seen : RunStatus]
    BY DEF NoEvent, RunStatus
  <2> QED
    BY <1>3, <2>2, <2>3 DEF ProjectorWrites, TypeOK, api, engine
<1> QED
  BY <1>1, <1>2, <1>3

\* Every step keeps the types.
LEMMA TypeStep == TypeOK /\ AtSteps /\ [Next]_vars => TypeOK' /\ AtSteps'
<1> SUFFICES ASSUME TypeOK, AtSteps, [Next]_vars PROVE TypeOK' /\ AtSteps'
  OBVIOUS
<1>1. CASE UNCHANGED vars
  BY <1>1 DEF TypeOK, AtSteps, vars, api, engine, projection
<1>2. CASE \E w \in Runners :
             RunnerStep(w) \/ RunnerDies(w) \/ \E t \in Tasks : Deliver(w, t)
  BY <1>2, TypeRunner
<1>3. CASE Start \/ PublishStart \/ MarkRunning \/ StartDies
  BY <1>3, TypeStart
     DEF AtSteps, Start, PublishStart, MarkRunning, StartDies, engine
<1>4. ASSUME NEW q \in Requests,
             Accept(q) \/ RefuseResume(q) \/ WriteRunning(q) \/ PublishResume(q)
               \/ ResumeDies(q)
      PROVE  TypeOK' /\ AtSteps'
  BY <1>4, TypeResume
     DEF AtSteps, Accept, RefuseResume, WriteRunning, PublishResume, ResumeDies, engine
<1>5. CASE \/ \E s \in FanOuts, what \in Reports : StrayReports(s, what)
           \/ \E p \in Projectors :
                 ProjectorWrites(p) \/ \E what \in Reports : Project(p, what)
  BY <1>5, TypeEvents DEF AtSteps, StrayReports, ProjectorWrites, Project, engine
<1> QED
  BY <1>1, <1>2, <1>3, <1>4, <1>5 DEF Next, ApiStep

\* Rows, runs, calls and engine states have their types in every reachable
\* state; a task that is held is the start or a resume.
THEOREM TypesHold == Spec => []TypeOK
<1> QED
  BY TypeInit, TypeStep, PTL DEF Spec

---------------------------------------------------------------------------
(* The row is true                                                         *)

Inv == TypeOK /\ AtSteps /\ RowInv

\* Nothing is completed at first.
LEMMA RowInit == Init => RowInv
BY DEF Init, RowInv, Closed, Agree, Storable, Idle

\* When no step is ready all steps are completed: of the others, one would
\* need none of the others.
LEMMA NothingReadyIsAll ==
    ASSUME NEW done \in SUBSET Steps, Ready(done) = {} PROVE done = Steps
<1>1. SUFFICES ASSUME Steps \ done # {} PROVE FALSE
  OBVIOUS
<1>2. PICK s \in Steps \ done : Needs[s] \cap (Steps \ done) = {}
  BY <1>1 DEF WorkflowAssumption
<1>3. Needs[s] \subseteq done
  BY <1>2
<1> QED
  BY <1>2, <1>3 DEF Ready

\* What is storable stays storable while more steps are executed.
LEMMA StorableGrows ==
    ASSUME NEW x \in RunnerStates, NEW before \in [Steps -> Nat],
           NEW after \in [Steps -> Nat], \A s \in Steps : before[s] <= after[s]
    PROVE  /\ \A done \in SUBSET Steps : Closed(done, before) => Closed(done, after)
           /\ Storable(x, before) => Storable(x, after)
<1>1. \A s \in Steps : before[s] > 0 => after[s] > 0
  OBVIOUS
<1>2. \A done \in SUBSET Steps : Closed(done, before) => Closed(done, after)
  BY <1>1 DEF Closed
<1> QED
  BY <1>1, <1>2 DEF Storable, Ready, RunnerStates

\* A runner's update, and a row that agrees, keep the invariant.
LEMMA RowUpdate ==
    ASSUME TypeOK, RowInv, TypeOK', NEW w \in Runners, NEW x \in RunnerStates,
           runner' = [runner EXCEPT ![w] = x],
           \A s \in Steps : executions[s] <= executions'[s],
           Storable(x, executions'),
           row' = row \/ row' = [status |-> runner[w].status, completed |-> runner[w].done],
           row' # row => runner[w].pc = "saveRow"
    PROVE  RowInv'
<1>1. executions \in [Steps -> Nat] /\ executions' \in [Steps -> Nat]
  BY DEF TypeOK
<1>2. runner \in [Runners -> RunnerStates] /\ row.completed \in SUBSET Steps
  BY DEF TypeOK, RunnerStates
<1>3. \A v \in Runners : Storable(runner'[v], executions')
  <2>1. ASSUME NEW v \in Runners, v # w PROVE Storable(runner[v], executions')
    BY <1>1, <1>2, StorableGrows DEF RowInv
  <2> QED
    BY <1>2, <2>1
<1>4. Closed(row'.completed, executions') /\ Agree(row'.status, row'.completed)
  <2>1. CASE row' = row
    BY <1>1, <1>2, <2>1, StorableGrows DEF RowInv
  <2>2. CASE row' # row
    <3>1. Storable(runner[w], executions')
      BY <1>1, <1>2, StorableGrows DEF RowInv
    <3> QED
      BY <2>2, <3>1 DEF Storable
  <2> QED
    BY <2>1, <2>2
<1> QED
  BY <1>3, <1>4 DEF RowInv

\* A runner takes a task, calls steps and stores the state.
LEMMA RowRunner ==
    ASSUME Inv, TypeOK', NEW w \in Runners,
           \/ RunnerStep(w) \/ RunnerDies(w) \/ \E t \in Tasks : Deliver(w, t)
    PROVE  RowInv'
<1> DEFINE y == runner[w]
<1>1. TypeOK /\ RowInv /\ y \in RunnerStates /\ executions \in [Steps -> Nat]
  BY DEF Inv, TypeOK, RunnerStates
<1>2. Storable(y, executions)
  BY DEF Inv, RowInv
<1>3. \A s \in Steps : executions[s] <= executions[s]
  BY <1>1
<1>4. Storable(Idle, executions)
  BY DEF Storable, Idle, Closed
<1>5. ASSUME NEW x \in RunnerStates, runner' = [runner EXCEPT ![w] = x],
             UNCHANGED executions, Storable(x, executions),
             row' = row \/ row' = [status |-> y.status, completed |-> y.done],
             row' # row => y.pc = "saveRow"
      PROVE  RowInv'
  BY <1>1, <1>3, <1>5, RowUpdate
<1>6. ASSUME NEW t \in Tasks, Deliver(w, t) PROVE RowInv'
  <2> DEFINE x == [Idle EXCEPT !.pc = IF t = "start" THEN "advance" ELSE "load",
                               !.task = t]
  <2>1. x \in RunnerStates /\ Storable(x, executions)
    BY IdleTyped DEF RunnerStates, Storable, Closed, Idle
  <2>2. runner' = [runner EXCEPT ![w] = x] /\ UNCHANGED <<row, executions>>
    BY <1>6 DEF Deliver
  <2> QED
    BY <1>5, <2>1, <2>2
<1>7. CASE Load(w)
  <2> DEFINE x == [y EXCEPT !.pc = "advance", !.done = row.completed]
  <2>1. x \in RunnerStates /\ x.pc = "advance" /\ x.done = row.completed
    BY <1>1 DEF RunnerStates, TypeOK
  <2>2. Storable(x, executions)
    BY <1>1, <2>1 DEF Storable, RowInv
  <2>3. runner' = [runner EXCEPT ![w] = x] /\ UNCHANGED <<row, executions>>
    BY <1>7 DEF Load
  <2> QED
    BY <1>5, <2>1, <2>2, <2>3
<1>8. CASE CallStep(w)
  <2>1. PICK s \in Ready(y.done) :
          /\ runner' = [runner EXCEPT ![w] = [@ EXCEPT !.pc = "execute", !.step = s,
                                                       !.told = {}]]
          /\ executions' = [executions EXCEPT ![s] = @ + 1]
    BY <1>8 DEF CallStep
  <2> DEFINE x == [y EXCEPT !.pc = "execute", !.step = s, !.told = {}]
  <2>2. s \in Steps
    BY <1>1, <2>1 DEF Ready, RunnerStates
  <2>3. x \in RunnerStates /\ x.pc = "execute" /\ x.done = y.done /\ x.step = s
    BY <1>1, <2>2 DEF RunnerStates
  <2>4. /\ \A r \in Steps : executions[r] <= executions'[r]
        /\ executions' \in [Steps -> Nat] /\ executions'[s] > 0
    BY <1>1, <2>1, <2>2
  <2>5. Storable(y, executions')
    BY <1>1, <1>2, <2>4, StorableGrows
  <2>6. Storable(x, executions')
    BY <2>1, <2>3, <2>4, <2>5 DEF Storable
  <2>7. runner' = [runner EXCEPT ![w] = x] /\ row' = row
    BY <1>8, <2>1 DEF CallStep
  <2> HIDE DEF x
  <2> QED
    BY <1>1, <2>3, <2>4, <2>6, <2>7, RowUpdate
<1>9. CASE StepReturns(w)
  <2> DEFINE x == [y EXCEPT
                     !.done = y.done \cup {y.step},
                     !.pc = IF Pauses(y.step) THEN "saveRow" ELSE "advance",
                     !.status = IF Pauses(y.step) THEN "waiting_checkpoint" ELSE y.status]
  <2>1. y.step \in Ready(y.done) /\ executions[y.step] > 0 /\ Closed(y.done, executions)
    BY <1>2, <1>9 DEF StepReturns, Storable
  <2>2. y.step \in Steps /\ Needs[y.step] \subseteq y.done
    BY <2>1 DEF Ready
  <2>3. /\ x \in RunnerStates /\ x.done = y.done \cup {y.step} /\ x.pc # "execute"
        /\ x.pc = "saveRow" => x.status = "waiting_checkpoint" /\ y.step \in Checkpoints
        /\ x.pc # "saveRun"
    BY <1>1, <2>2 DEF RunnerStates, EngineStatus, Pauses
  <2>4. Closed(x.done, executions)
    BY <2>1, <2>2, <2>3 DEF Closed
  <2>5. Storable(x, executions)
    BY <2>3, <2>4 DEF Storable, Agree
  <2>6. runner' = [runner EXCEPT ![w] = x] /\ UNCHANGED <<row, executions>>
    BY <1>9 DEF StepReturns
  <2> QED
    BY <1>5, <2>3, <2>5, <2>6, ZenonT(40)
<1>10. CASE StepFails(w)
  <2> DEFINE x == [y EXCEPT !.pc = "saveRow", !.status = "failed"]
  <2>1. x \in RunnerStates /\ x.pc = "saveRow" /\ x.status = "failed" /\ x.done = y.done
    BY <1>1 DEF RunnerStates, EngineStatus
  <2>2. Storable(x, executions)
    BY <1>2, <2>1 DEF Storable, Agree
  <2>3. runner' = [runner EXCEPT ![w] = x] /\ UNCHANGED <<row, executions>>
    BY <1>10 DEF StepFails
  <2> QED
    BY <1>5, <2>1, <2>2, <2>3
<1>11. CASE Finish(w)
  <2> DEFINE x == [y EXCEPT !.pc = "saveRow", !.status = "completed"]
  <2>1. x \in RunnerStates /\ x.pc = "saveRow" /\ x.status = "completed" /\ x.done = y.done
    BY <1>1 DEF RunnerStates, EngineStatus
  <2>2. y.done = Steps
    BY <1>1, <1>11, NothingReadyIsAll DEF Finish, RunnerStates
  <2>3. Storable(x, executions)
    BY <1>2, <2>1, <2>2 DEF Storable, Agree
  <2>4. runner' = [runner EXCEPT ![w] = x] /\ UNCHANGED <<row, executions>>
    BY <1>11 DEF Finish
  <2> QED
    BY <1>5, <2>1, <2>3, <2>4
<1>12. CASE SaveRow(w)
  <2> DEFINE x == [y EXCEPT !.pc = "saveRun"]
  <2>1. /\ x \in RunnerStates /\ x.pc = "saveRun"
        /\ x.status = y.status /\ x.done = y.done
    BY <1>1 DEF RunnerStates
  <2>2. Storable(x, executions)
    BY <1>2, <1>12, <2>1 DEF Storable, SaveRow
  <2>3. /\ runner' = [runner EXCEPT ![w] = x] /\ UNCHANGED executions
        /\ row' = [status |-> y.status, completed |-> y.done] /\ y.pc = "saveRow"
    BY <1>12 DEF SaveRow
  <2> QED
    BY <1>5, <2>1, <2>2, <2>3
<1>13. CASE SaveRun(w) \/ RunnerDies(w)
  BY <1>4, <1>5, <1>13, IdleTyped DEF SaveRun, RunnerDies
<1>14. ASSUME NEW what \in Reports, SpecialistReports(w, what) PROVE RowInv'
  <2> DEFINE x == [y EXCEPT !.told = @ \cup {what}]
  <2>1. /\ x \in RunnerStates /\ x.pc = y.pc /\ x.step = y.step
        /\ x.status = y.status /\ x.done = y.done
    BY <1>1 DEF RunnerStates
  <2>2. Storable(x, executions)
    BY <1>2, <2>1 DEF Storable
  <2>3. runner' = [runner EXCEPT ![w] = x] /\ UNCHANGED <<row, executions>>
    BY <1>1, <1>14 DEF SpecialistReports, RunnerStates
  <2> QED
    BY <1>5, <2>1, <2>2, <2>3
<1> QED
  BY <1>6, <1>7, <1>8, <1>9, <1>10, <1>11, <1>12, <1>13, <1>14 DEF RunnerStep

\* Every step keeps the invariant: the API gives the row only statuses that
\* say nothing of the steps.
LEMMA InvStep == Inv /\ [Next]_vars => Inv'
<1> SUFFICES ASSUME Inv, [Next]_vars PROVE Inv'
  OBVIOUS
<1>1. TypeOK' /\ AtSteps'
  BY TypeStep DEF Inv
<1> SUFFICES RowInv'
  BY <1>1 DEF Inv
<1>2. ASSUME UNCHANGED <<runner, executions>>, row'.completed = row.completed,
             row'.status \in {row.status, "queued", "running"}
      PROVE  RowInv'
  BY <1>2 DEF Inv, RowInv, Agree
<1>3. CASE UNCHANGED vars
  BY <1>2, <1>3 DEF vars, engine
<1>4. CASE \E w \in Runners :
             RunnerStep(w) \/ RunnerDies(w) \/ \E t \in Tasks : Deliver(w, t)
  BY <1>1, <1>4, RowRunner
<1>5. CASE Start \/ PublishStart \/ MarkRunning \/ StartDies
  BY <1>2, <1>5
     DEF Inv, TypeOK, Start, PublishStart, MarkRunning, StartDies, engine
<1>6. ASSUME NEW q \in Requests,
             Accept(q) \/ RefuseResume(q) \/ WriteRunning(q) \/ PublishResume(q)
               \/ ResumeDies(q)
      PROVE  RowInv'
  BY <1>2, <1>6
     DEF Inv, TypeOK, Accept, RefuseResume, WriteRunning, PublishResume, ResumeDies, engine
<1>7. CASE \/ \E s \in FanOuts, what \in Reports : StrayReports(s, what)
           \/ \E p \in Projectors :
                 ProjectorWrites(p) \/ \E what \in Reports : Project(p, what)
  BY <1>2, <1>7 DEF StrayReports, ProjectorWrites, Project, engine
<1> QED
  BY <1>1, <1>3, <1>4, <1>5, <1>6, <1>7 DEF Next, ApiStep, Inv

\* The row can be trusted whatever raced for it: start, resumes and runners
\* write it without looking at it, and still the steps it lists were executed
\* with everything they need, "completed" means all steps, and a waiting
\* workflow has passed a checkpoint.
THEOREM RowsAreTrue == Spec => []RowIsTrue
<1>1. Init => Inv
  BY TypeInit, RowInit DEF Inv
<1>2. Inv => RowIsTrue
  BY DEF Inv, RowInv, RowIsTrue, Closed, Agree
<1> QED
  BY <1>1, <1>2, InvStep, PTL DEF Spec

---------------------------------------------------------------------------
(* Steps are executed again only for resumes                               *)

\* Runner w carries on with its task, in state x: it may call fewer steps
\* than before, has completed more, and stores what it has.
Carry(w, x) ==
    /\ runner' = [runner EXCEPT ![w] = x] /\ UNCHANGED <<svc, req, tasks>>
    /\ runner[w].pc # "idle"
    /\ x.pc = "idle" \/ x.task = runner[w].task
    /\ runner[w].pc = "saveRun" => x.pc = "idle"
    /\ \A s \in Steps : MayCall(x, s) => MayCall(runner[w], s)
    /\ x.pc \in {"advance", "execute", "saveRow"} =>
          \/ runner[w].pc \in {"advance", "execute"} /\ runner[w].done \subseteq x.done
          \/ runner[w].pc = "load" /\ x.done = row.completed
    /\ x.pc = "saveRow" /\ x.status = "waiting_checkpoint" =>
          runner[w].pc = "execute" /\ x.done = runner[w].done \cup {runner[w].step}
    /\ \/ row' = row
       \/ /\ runner[w].pc = "saveRow" /\ x.pc = "saveRun"
          /\ row' = [status |-> runner[w].status, completed |-> runner[w].done]

\* It calls the handler of step s.
Calls(w, x, s) ==
    /\ executions' = [executions EXCEPT ![s] = @ + 1]
    /\ runner[w].pc = "advance" /\ s \notin runner[w].done
    /\ x.pc = "execute" /\ x.step = s

\* Every step of a runner is of that form.
LEMMA RunnersCarryOn ==
    ASSUME TypeOK, AtSteps, NEW w \in Runners, RunnerStep(w) \/ RunnerDies(w)
    PROVE  \E x \in RunnerStates :
              /\ Carry(w, x)
              /\ executions' = executions \/ \E s \in Steps : Calls(w, x, s)
<1> DEFINE y == runner[w]
<1>1. y \in RunnerStates /\ runner \in [Runners -> RunnerStates]
  BY DEF TypeOK, RunnerStates
<1> DEFINE Goal == \E x \in RunnerStates :
                      /\ Carry(w, x)
                      /\ executions' = executions \/ \E s \in Steps : Calls(w, x, s)
<1>2. CASE Load(w)
  <2> DEFINE x == [y EXCEPT !.pc = "advance", !.done = row.completed]
  <2>1. /\ x \in RunnerStates /\ x.pc = "advance" /\ x.done = row.completed
        /\ x.task = y.task
    BY <1>1 DEF RunnerStates, TypeOK
  <2>2. /\ runner' = [runner EXCEPT ![w] = x] /\ y.pc = "load"
        /\ UNCHANGED <<row, api, tasks, executions>>
    BY <1>2 DEF Load
  <2> HIDE DEF x
  <2>3. Carry(w, x)
    BY <2>1, <2>2 DEF Carry, MayCall, api
  <2> QED
    BY <2>1, <2>2, <2>3
<1>3. CASE CallStep(w)
  <2>1. PICK s \in Ready(y.done) :
          /\ runner' = [runner EXCEPT ![w] = [@ EXCEPT !.pc = "execute", !.step = s,
                                                       !.told = {}]]
          /\ executions' = [executions EXCEPT ![s] = @ + 1]
    BY <1>3 DEF CallStep
  <2> DEFINE x == [y EXCEPT !.pc = "execute", !.step = s, !.told = {}]
  <2>2. s \in Steps /\ s \notin y.done
    BY <1>1, <2>1 DEF Ready, RunnerStates
  <2>3. /\ x \in RunnerStates /\ x.pc = "execute" /\ x.done = y.done /\ x.step = s
        /\ x.task = y.task
    BY <1>1, <2>2 DEF RunnerStates
  <2>4. /\ runner' = [runner EXCEPT ![w] = x] /\ y.pc = "advance"
        /\ UNCHANGED <<row, api, tasks>>
    BY <1>3, <2>1 DEF CallStep
  <2> HIDE DEF x
  <2>5. Carry(w, x)
    BY <2>3, <2>4 DEF Carry, MayCall, api
  <2>6. Calls(w, x, s)
    BY <2>1, <2>2, <2>3, <2>4 DEF Calls
  <2> QED
    BY <2>2, <2>3, <2>5, <2>6
<1>4. CASE StepReturns(w)
  <2> DEFINE x == [y EXCEPT
                     !.done = y.done \cup {y.step},
                     !.pc = IF Pauses(y.step) THEN "saveRow" ELSE "advance",
                     !.status = IF Pauses(y.step) THEN "waiting_checkpoint" ELSE y.status]
  <2>1. y.step \in Steps
    BY <1>4 DEF StepReturns, AtSteps
  <2>2. /\ x \in RunnerStates /\ x.done = y.done \cup {y.step} /\ x.task = y.task
        /\ x.pc \in {"advance", "saveRow"}
    BY <1>1, <2>1 DEF RunnerStates, EngineStatus
  <2>3. /\ runner' = [runner EXCEPT ![w] = x] /\ y.pc = "execute"
        /\ UNCHANGED <<row, api, tasks, executions>>
    BY <1>4 DEF StepReturns
  <2> HIDE DEF x
  <2>4. Carry(w, x)
    BY <2>2, <2>3 DEF Carry, MayCall, api
  <2> QED
    BY <2>2, <2>3, <2>4
<1>5. CASE StepFails(w) \/ Finish(w)
  <2> DEFINE x(status) == [y EXCEPT !.pc = "saveRow", !.status = status]
  <2>1. PICK status \in {"failed", "completed"} : runner' = [runner EXCEPT ![w] = x(status)]
    BY <1>5 DEF StepFails, Finish
  <2>2. /\ x(status) \in RunnerStates /\ x(status).done = y.done /\ x(status).task = y.task
        /\ x(status).pc = "saveRow" /\ x(status).status # "waiting_checkpoint"
    BY <1>1 DEF RunnerStates, EngineStatus
  <2>3. y.pc \in {"advance", "execute"} /\ UNCHANGED <<row, api, tasks, executions>>
    BY <1>5 DEF StepFails, Finish
  <2> HIDE DEF x
  <2>4. Carry(w, x(status))
    BY <2>1, <2>2, <2>3 DEF Carry, MayCall, api
  <2> QED
    BY <2>2, <2>3, <2>4
<1>6. CASE SaveRow(w)
  <2> DEFINE x == [y EXCEPT !.pc = "saveRun"]
  <2>1. x \in RunnerStates /\ x.pc = "saveRun" /\ x.task = y.task
    BY <1>1 DEF RunnerStates
  <2>2. /\ runner' = [runner EXCEPT ![w] = x] /\ y.pc = "saveRow"
        /\ row' = [status |-> y.status, completed |-> y.done]
        /\ UNCHANGED <<api, tasks, executions>>
    BY <1>6 DEF SaveRow
  <2> HIDE DEF x
  <2>3. Carry(w, x)
    BY <2>1, <2>2 DEF Carry, MayCall, api
  <2> QED
    BY <2>1, <2>2, <2>3
<1>7. CASE SaveRun(w) \/ RunnerDies(w)
  <2>1. Idle \in RunnerStates /\ Idle.pc = "idle"
    BY IdleTyped DEF Idle
  <2>2. /\ runner' = [runner EXCEPT ![w] = Idle] /\ y.pc # "idle"
        /\ UNCHANGED <<row, api, tasks, executions>>
    BY <1>7 DEF SaveRun, RunnerDies
  <2>3. Carry(w, Idle)
    BY <2>1, <2>2 DEF Carry, MayCall, api
  <2> QED
    BY <2>1, <2>2, <2>3
<1>8. ASSUME NEW what \in Reports, SpecialistReports(w, what) PROVE Goal
  <2> DEFINE x == [y EXCEPT !.told = @ \cup {what}]
  <2>1. /\ x \in RunnerStates /\ x.pc = y.pc /\ x.step = y.step
        /\ x.done = y.done /\ x.task = y.task
    BY <1>1 DEF RunnerStates
  <2>2. /\ runner' = [runner EXCEPT ![w] = x] /\ y.pc = "execute"
        /\ UNCHANGED <<row, api, tasks, executions>>
    BY <1>1, <1>8 DEF SpecialistReports, RunnerStates
  <2> HIDE DEF x
  <2>3. Carry(w, x)
    BY <2>1, <2>2 DEF Carry, MayCall, api
  <2> QED
    BY <2>1, <2>2, <2>3
<1> QED
  BY <1>2, <1>3, <1>4, <1>5, <1>6, <1>7, <1>8 DEF RunnerStep

\* Nothing is accepted and nothing was called at first.
LEMMA CountInit == Init => CountInv
<1> SUFFICES ASSUME Init PROVE CountInv
  OBVIOUS
<1>1. Accepted = {} /\ tasks = {} /\ row.status = "none"
  BY DEF Init, Accepted
<1>2. \A w \in Runners : runner[w].pc = "idle"
  BY DEF Init, Idle
<1>3. \A s \in Steps : executions[s] = 0
  BY DEF Init
<1>4. IsFiniteSet({})
  BY FS_EmptySet
<1> QED
  BY <1>1, <1>2, <1>3, <1>4
     DEF CountInv, HandedOnce, StartGoesFirst, CallsAreAccounted, StartRunsOnce

\* Resumes that are spent were accepted.
LEMMA SpentFinite ==
    ASSUME IsFiniteSet(Accepted), NEW s
    PROVE  /\ IsFiniteSet(Spent(s)) /\ Cardinality(Spent(s)) \in Nat
           /\ Cardinality(Spent(s)) <= Cardinality(Accepted)
<1>1. Spent(s) \subseteq Accepted
  BY DEF Spent, Accepted
<1> QED
  BY <1>1, FS_Subset, FS_CardinalityType

\* More resumes are spent, and one more where a handler was called.
LEMMA SpentGrows ==
    ASSUME IsFiniteSet(Accepted), IsFiniteSet(Accepted'), NEW s,
           Spent(s) \subseteq Spent(s)'
    PROVE  /\ Cardinality(Spent(s)) <= Cardinality(Spent(s)')
           /\ \A q : q \in Spent(s)' /\ q \notin Spent(s) =>
                 Cardinality(Spent(s)) + 1 <= Cardinality(Spent(s)')
<1>1. IsFiniteSet(Spent(s)) /\ IsFiniteSet(Spent(s)')
  <2>1. Spent(s)' \subseteq Accepted'
    BY DEF Spent, Accepted
  <2> QED
    BY <2>1, SpentFinite, FS_Subset
<1>2. Cardinality(Spent(s)) <= Cardinality(Spent(s)')
  BY <1>1, FS_Subset
<1>3. ASSUME NEW q, q \in Spent(s)', q \notin Spent(s)
      PROVE  Cardinality(Spent(s)) + 1 <= Cardinality(Spent(s)')
  <2>1. /\ IsFiniteSet(Spent(s) \cup {q})
        /\ Cardinality(Spent(s) \cup {q}) = Cardinality(Spent(s)) + 1
    BY <1>1, <1>3, FS_AddElement
  <2>2. Spent(s) \cup {q} \subseteq Spent(s)'
    BY <1>3
  <2> QED
    BY <1>1, <2>1, <2>2, FS_Subset
<1> QED
  BY <1>2, <1>3

\* A task that a runner holds before any resume is the start.
LEMMA OnlyStart ==
    ASSUME TypeOK, HandedOnce, Accepted = {}, NEW w \in Runners, runner[w].pc # "idle"
    PROVE  /\ runner[w].task = "start" /\ Published("start") /\ "start" \notin tasks
           /\ \A v \in Runners : v # w => runner[v].pc = "idle"
<1>1. ASSUME NEW v \in Runners, runner[v].pc # "idle" PROVE runner[v].task = "start"
  <2>1. Published(runner[v].task) /\ runner[v].task \in Tasks
    BY <1>1 DEF HandedOnce, TypeOK
  <2> QED
    BY <2>1 DEF Published, Accepted, Tasks
<1> QED
  BY <1>1 DEF HandedOnce

\* A runner carries on.
LEMMA CountCarry ==
    ASSUME TypeOK, TypeOK', CountInv, NEW w \in Runners, NEW x \in RunnerStates,
           Carry(w, x), executions' = executions \/ \E s \in Steps : Calls(w, x, s)
    PROVE  CountInv'
<1> DEFINE y == runner[w]
<1>1. /\ runner \in [Runners -> RunnerStates] /\ y \in RunnerStates
      /\ executions \in [Steps -> Nat] /\ executions' \in [Steps -> Nat]
  BY DEF TypeOK, RunnerStates
<1>2. /\ \A v \in Runners : v # w => runner'[v] = runner[v]
      /\ runner'[w] = x /\ UNCHANGED <<svc, req, tasks>>
  BY <1>1 DEF Carry
<1>3. Accepted' = Accepted /\ IsFiniteSet(Accepted) /\ IsFiniteSet(Accepted')
  BY <1>2 DEF Accepted, CountInv
<1>4. \A t : Published(t)' = Published(t)
  BY <1>2 DEF Published
<1>5. HandedOnce'
  BY <1>2, <1>4 DEF HandedOnce, CountInv, Carry
<1>6. StartIsOver => StartIsOver'
  BY <1>2, <1>4 DEF StartIsOver, Carry
<1>7. StartGoesFirst'
  <2>1. CASE Accepted # {} \/ row' = row
    BY <1>3, <1>6, <2>1 DEF CountInv, StartGoesFirst
  <2>2. CASE Accepted = {} /\ row' # row
    <3>1. x.pc = "saveRun" /\ \A v \in Runners : v # w => runner[v].pc = "idle"
      BY <2>2, OnlyStart DEF Carry, CountInv
    <3>2. Published("start") /\ "start" \notin tasks
      BY <2>2, OnlyStart DEF Carry, CountInv
    <3> QED
      BY <1>2, <1>4, <3>1, <3>2 DEF StartGoesFirst, StartIsOver
  <2> QED
    BY <2>1, <2>2
<1>8. ASSUME Accepted = {}, NEW s \in Steps PROVE StartRunsOnce(s)'
  <2>1. /\ y.task = "start" /\ Published("start") /\ "start" \notin tasks
        /\ \A v \in Runners : v # w => runner[v].pc = "idle"
    BY <1>8, OnlyStart DEF Carry, CountInv
  <2>2. \A v \in Runners : v # w => ~ MayCall(runner[v], s)
    BY <2>1 DEF MayCall
  <2>3. StartRunsOnce(s)
    BY <1>8 DEF CountInv, CallsAreAccounted
  <2>4. CASE executions'[s] = executions[s]
    <3>1. executions[s] = 1 => ~ MayCall(x, s)
      BY <2>3 DEF StartRunsOnce, Carry
    <3>2. x.pc = "saveRow" /\ x.status = "waiting_checkpoint" =>
             executions[s] = 0 \/ s \in x.done
      BY <2>3 DEF StartRunsOnce, Carry, MayCall
    <3>3. row'.status = "waiting_checkpoint" => executions[s] = 0 \/ s \in row'.completed
      BY <2>3 DEF StartRunsOnce, Carry
    <3> QED
      BY <1>2, <1>4, <2>1, <2>2, <2>3, <2>4, <3>1, <3>2, <3>3 DEF StartRunsOnce
  <2>5. CASE Calls(w, x, s)
    <3>1. executions'[s] = 1
      BY <1>1, <2>3, <2>5 DEF StartRunsOnce, Calls, MayCall
    <3>2. ~ MayCall(x, s) /\ x.pc # "saveRow"
      BY <2>5 DEF Calls, MayCall
    <3>3. row'.status # "waiting_checkpoint"
      BY <2>1, <2>5 DEF Calls, Carry, CountInv, StartGoesFirst, StartIsOver
    <3> QED
      BY <1>2, <1>4, <2>1, <2>2, <3>1, <3>2, <3>3 DEF StartRunsOnce
  <2> QED
    BY <1>1, <2>4, <2>5 DEF Calls
<1>9. ASSUME Accepted # {}, NEW s \in Steps
      PROVE  executions'[s] <= Cardinality(Spent(s)') \/ Kept(s)'
  <2>1. Spent(s) \subseteq Spent(s)'
    BY <1>2 DEF Spent, Carry, MayCall
  <2>2. StartIsOver /\ (executions[s] <= Cardinality(Spent(s)) \/ Kept(s))
    BY <1>9 DEF CountInv, StartGoesFirst, CallsAreAccounted
  <2>3. Cardinality(Spent(s)) \in Nat /\ Cardinality(Spent(s)') \in Nat
    BY <1>3, SpentFinite, <2>1, FS_CardinalityType, FS_Subset DEF Spent, Accepted
  <2>4. CASE Kept(s)
    <3>1. ~ Calls(w, x, s)
      BY <2>4 DEF Kept, Calls
    <3>2. executions'[s] = 1
      BY <1>1, <2>4, <3>1 DEF Kept, Calls
    <3>3. s \in row'.completed
      BY <2>4 DEF Kept, Carry
    <3>4. x.pc \in {"advance", "execute", "saveRow"} => s \in x.done
      BY <2>4 DEF Kept, Carry
    <3> QED
      BY <1>2, <2>4, <3>2, <3>3, <3>4 DEF Kept
  <2>5. CASE executions[s] <= Cardinality(Spent(s)) /\ executions'[s] = executions[s]
    BY <1>1, <1>3, <2>1, <2>3, <2>5, SpentGrows
  <2>6. CASE executions[s] <= Cardinality(Spent(s)) /\ Calls(w, x, s)
    <3>1. executions'[s] = executions[s] + 1
      BY <1>1, <2>6 DEF Calls
    <3>2. y.task \in Requests /\ req[y.task] = "done" /\ y.task \notin tasks
      BY <1>1, <2>2, <2>6 DEF Calls, StartIsOver, CountInv, HandedOnce, Published, Tasks,
         RunnerStates
    <3>3. y.task \notin Spent(s)
      BY <2>6 DEF Spent, Calls, MayCall
    <3>4. \A v \in Runners : runner'[v].task = y.task => ~ MayCall(runner'[v], s)
      BY <1>2, <2>6 DEF CountInv, HandedOnce, Calls, MayCall
    <3>5. y.task \in Spent(s)'
      BY <1>2, <3>2, <3>4 DEF Spent
    <3> QED
      BY <1>1, <1>3, <2>1, <2>3, <2>6, <3>1, <3>3, <3>5, SpentGrows
  <2> QED
    BY <1>1, <2>2, <2>4, <2>5, <2>6 DEF Calls
<1> QED
  BY <1>3, <1>5, <1>7, <1>8, <1>9 DEF CountInv, CallsAreAccounted

\* The bus delivers a task.
LEMMA CountDeliver ==
    ASSUME TypeOK, CountInv, NEW w \in Runners, NEW t \in Tasks, Deliver(w, t)
    PROVE  CountInv'
<1> DEFINE x == [Idle EXCEPT !.pc = IF t = "start" THEN "advance" ELSE "load",
                             !.task = t]
<1>1. /\ x.task = t /\ x.pc \in {"advance", "load"} /\ (x.pc = "advance" <=> t = "start")
      /\ runner[w].pc = "idle" /\ t \in tasks /\ tasks' = tasks \ {t}
      /\ UNCHANGED <<row, svc, req, executions>>
  BY DEF Deliver, Idle, api
<1>2. (\A v \in Runners : v # w => runner'[v] = runner[v]) /\ runner'[w] = x
  BY DEF Deliver, TypeOK
<1> HIDE DEF x
<1>3. Accepted' = Accepted /\ IsFiniteSet(Accepted) /\ IsFiniteSet(Accepted')
  BY <1>1 DEF Accepted, CountInv
<1>4. \A r : Published(r)' = Published(r)
  BY <1>1 DEF Published
<1>5. Published(t) /\ \A v \in Runners : runner[v].pc # "idle" => runner[v].task # t
  BY <1>1 DEF CountInv, HandedOnce
<1>6. HandedOnce'
  BY <1>1, <1>2, <1>4, <1>5 DEF HandedOnce, CountInv
<1>7. t = "start" => Accepted = {} /\ row.status # "waiting_checkpoint"
  BY <1>1 DEF CountInv, StartGoesFirst, StartIsOver
<1>8. t # "start" => Accepted # {}
  BY <1>5 DEF Published, Accepted, Tasks
<1>9. StartGoesFirst'
  BY <1>1, <1>2, <1>3, <1>4, <1>7 DEF CountInv, StartGoesFirst, StartIsOver
<1>10. ASSUME Accepted = {}, NEW s \in Steps PROVE StartRunsOnce(s)'
  <2>1. t = "start" /\ StartRunsOnce(s)
    BY <1>8, <1>10 DEF CountInv, CallsAreAccounted
  <2>2. executions[s] = 0
    BY <1>1, <2>1 DEF StartRunsOnce
  <2> QED
    BY <1>1, <1>2, <2>2 DEF StartRunsOnce
<1>11. ASSUME Accepted # {}, NEW s \in Steps
       PROVE  executions'[s] <= Cardinality(Spent(s)') \/ Kept(s)'
  <2>1. executions[s] <= Cardinality(Spent(s)) \/ Kept(s)
    BY <1>11 DEF CountInv, CallsAreAccounted
  <2>2. x.pc = "load"
    BY <1>1, <1>7, <1>11
  <2>3. Spent(s) \subseteq Spent(s)'
    BY <1>1, <1>2 DEF Spent
  <2>4. Cardinality(Spent(s)) \in Nat /\ Cardinality(Spent(s)') \in Nat
    BY <1>3, SpentFinite, FS_CardinalityType, FS_Subset DEF Spent, Accepted
  <2>5. executions[s] \in Nat /\ Cardinality(Spent(s)) <= Cardinality(Spent(s)')
    BY <1>3, <2>3, SpentGrows DEF TypeOK
  <2>6. Kept(s) => Kept(s)'
    BY <1>1, <1>2, <2>2 DEF Kept
  <2> QED
    BY <1>1, <2>1, <2>4, <2>5, <2>6
<1> QED
  BY <1>3, <1>6, <1>9, <1>10, <1>11 DEF CountInv, CallsAreAccounted

\* The calls move on: nothing is delivered or executed, and what was
\* published or accepted stays so.
LEMMA CountCalls ==
    ASSUME TypeOK, TypeOK', CountInv, UNCHANGED <<runner, executions>>,
           row'.completed = row.completed,
           row'.status = "waiting_checkpoint" => row.status = "waiting_checkpoint",
           \A t \in Tasks : Published(t) => Published(t)',
           \A t \in tasks' : t \in tasks \/ (~ Published(t) /\ Published(t)' /\ t \in Tasks),
           tasks \subseteq tasks', Accepted \subseteq Accepted',
           \/ Accepted' = Accepted
           \/ row.status = "waiting_checkpoint" /\ \E q : Accepted' = Accepted \cup {q}
    PROVE  CountInv'
<1>1. \A t \in tasks' : Published(t)'
  BY DEF CountInv, HandedOnce, TypeOK
<1>2. \A t \in Tasks : Published(t) => (t \in tasks' <=> t \in tasks)
  OBVIOUS
<1>3. HandedOnce'
  BY <1>1, <1>2 DEF CountInv, HandedOnce, TypeOK
<1>4. IsFiniteSet(Accepted')
  BY FS_AddElement DEF CountInv
<1>5. StartIsOver => StartIsOver'
  BY <1>2 DEF StartIsOver, Tasks
<1>6. StartGoesFirst'
  BY <1>5 DEF CountInv, StartGoesFirst
<1>7. ASSUME Accepted' = {}, NEW s \in Steps PROVE StartRunsOnce(s)'
  <2>1. StartRunsOnce(s)
    BY <1>7 DEF CountInv, CallsAreAccounted
  <2> QED
    BY <1>2, <2>1 DEF StartRunsOnce, Tasks
<1>8. ASSUME Accepted' # {}, NEW s \in Steps
      PROVE  executions'[s] <= Cardinality(Spent(s)') \/ Kept(s)'
  <2>1. executions[s] \in Nat /\ executions'[s] = executions[s]
    BY DEF TypeOK
  <2>2. Spent(s) \subseteq Spent(s)'
    <3>1. \A q \in Requests : req[q] = "done" <=> Published(q)
      BY DEF Published
    <3>2. \A q \in Requests : req'[q] = "done" <=> Published(q)'
      BY DEF Published
    <3> QED
      BY <1>2, <3>1, <3>2 DEF Spent, Tasks
  <2>3. Cardinality(Spent(s)) \in Nat /\ Cardinality(Spent(s)') \in Nat
    BY <1>4, SpentFinite, FS_CardinalityType, FS_Subset DEF Spent, Accepted, CountInv
  <2>4. Kept(s) => Kept(s)'
    BY DEF Kept
  <2>5. CASE Accepted # {}
    <3>1. executions[s] <= Cardinality(Spent(s)) \/ Kept(s)
      BY <2>5 DEF CountInv, CallsAreAccounted
    <3> QED
      BY <1>4, <2>1, <2>2, <2>3, <2>4, <3>1, SpentGrows DEF CountInv
  <2>6. CASE Accepted = {}
    <3>1. /\ row.status = "waiting_checkpoint" /\ StartIsOver
          /\ StartRunsOnce(s)
      BY <1>8, <2>6 DEF CountInv, StartGoesFirst, CallsAreAccounted
    <3>2. \A w \in Runners : runner[w].pc \in {"idle", "saveRun"}
      BY <2>6, <3>1, OnlyStart DEF StartIsOver, CountInv
    <3>3. executions[s] = 0 \/ Kept(s)
      BY <3>1, <3>2 DEF StartRunsOnce, Kept
    <3> QED
      BY <2>1, <2>3, <2>4, <3>3
  <2> QED
    BY <2>5, <2>6
<1> QED
  BY <1>3, <1>4, <1>6, <1>7, <1>8 DEF CountInv, CallsAreAccounted

CountedInv == TypeOK /\ AtSteps /\ CountInv

\* Every step keeps the account.
LEMMA CountStep == CountedInv /\ [Next]_vars => CountedInv'
<1> SUFFICES ASSUME CountedInv, [Next]_vars PROVE CountedInv'
  OBVIOUS
<1> USE DEF CountedInv
<1>1. TypeOK' /\ AtSteps'
  BY TypeStep
<1> SUFFICES CountInv'
  BY <1>1
<1>2. ASSUME UNCHANGED <<row, svc, req, tasks, runner, executions>> PROVE CountInv'
  BY <1>1, <1>2, CountCalls DEF Published, Accepted
<1>3. CASE UNCHANGED vars
  BY <1>2, <1>3 DEF vars, engine, api
<1>4. ASSUME NEW w \in Runners, RunnerStep(w) \/ RunnerDies(w) PROVE CountInv'
  BY <1>1, <1>4, RunnersCarryOn, CountCarry
<1>5. ASSUME NEW w \in Runners, NEW t \in Tasks, Deliver(w, t) PROVE CountInv'
  BY <1>5, CountDeliver
<1>6. CASE Start \/ PublishStart \/ MarkRunning \/ StartDies
  <2>1. /\ UNCHANGED <<runner, executions>> /\ row'.completed = row.completed
        /\ row'.status = "waiting_checkpoint" => row.status = "waiting_checkpoint"
        /\ Accepted' = Accepted /\ tasks \subseteq tasks'
    BY <1>6 DEF TypeOK, Start, PublishStart, MarkRunning, StartDies, engine, Accepted
  <2>2. /\ \A t \in Tasks : Published(t) => Published(t)'
        /\ \A t \in tasks' : t \in tasks \/ (~ Published(t) /\ Published(t)' /\ t \in Tasks)
    BY <1>6 DEF Start, PublishStart, MarkRunning, StartDies, engine, Published, Tasks
  <2> QED
    BY <1>1, <2>1, <2>2, CountCalls
<1>7. ASSUME NEW q \in Requests,
             Accept(q) \/ RefuseResume(q) \/ WriteRunning(q) \/ PublishResume(q)
               \/ ResumeDies(q)
      PROVE  CountInv'
  <2>1. /\ UNCHANGED <<runner, executions, svc>> /\ row'.completed = row.completed
        /\ row'.status = "waiting_checkpoint" => row.status = "waiting_checkpoint"
        /\ tasks \subseteq tasks'
    BY <1>7 DEF TypeOK, Accept, RefuseResume, WriteRunning, PublishResume, ResumeDies,
       engine
  <2>2. /\ \A r \in Requests : r # q => req'[r] = req[r]
        /\ req[q] # "done"
    BY <1>7 DEF TypeOK, Accept, RefuseResume, WriteRunning, PublishResume, ResumeDies, api
  <2>3. /\ \A t \in Tasks : Published(t) => Published(t)'
        /\ \A t \in tasks' : t \in tasks \/ (~ Published(t) /\ Published(t)' /\ t \in Tasks)
    <3>1. tasks' = tasks \/ (tasks' = tasks \cup {q} /\ req'[q] = "done")
      BY <1>7 DEF TypeOK, Accept, RefuseResume, WriteRunning, PublishResume, ResumeDies,
         api
    <3> QED
      BY <2>1, <2>2, <3>1 DEF Published, Tasks
  <2>4. /\ Accepted \subseteq Accepted'
        /\ \/ Accepted' = Accepted
           \/ row.status = "waiting_checkpoint" /\ Accepted' = Accepted \cup {q}
    <3>1. CASE Accept(q)
      BY <3>1 DEF TypeOK, Accept, Accepted
    <3>2. CASE ~ Accept(q)
      <4>1. req'[q] \in {"idle", "refused"} <=> req[q] \in {"idle", "refused"}
        BY <1>7, <3>2 DEF TypeOK, RefuseResume, WriteRunning, PublishResume, ResumeDies, api
      <4> QED
        BY <2>2, <4>1 DEF Accepted
    <3> QED
      BY <3>1, <3>2
  <2> QED
    BY <1>1, <2>1, <2>3, <2>4, CountCalls
<1>8. CASE \/ \E s \in FanOuts, what \in Reports : StrayReports(s, what)
           \/ \E p \in Projectors :
                 ProjectorWrites(p) \/ \E what \in Reports : Project(p, what)
  BY <1>2, <1>8 DEF StrayReports, ProjectorWrites, Project, engine, api
<1> QED
  BY <1>3, <1>4, <1>5, <1>6, <1>7, <1>8 DEF Next, ApiStep

\* "No automatic retries": however many resumes, runners and deaths there
\* are, what ran before the first checkpoint runs once, and a step is
\* executed no more often than resumes were let through.
THEOREM RepeatsAreResumed == Spec => []RepeatsNeedResumes
<1>1. Init => CountedInv
  BY TypeInit, CountInit DEF CountedInv
<1>2. CountedInv => RepeatsNeedResumes
  <2> SUFFICES ASSUME CountedInv, NEW s \in Steps
               PROVE  executions[s] <= IF Accepted = {} THEN 1 ELSE Cardinality(Accepted)
    BY DEF RepeatsNeedResumes
  <2>1. executions[s] \in Nat /\ IsFiniteSet(Accepted)
    BY DEF CountedInv, CountInv, TypeOK
  <2>2. CASE Accepted = {}
    BY <2>2 DEF CountedInv, CountInv, CallsAreAccounted, StartRunsOnce
  <2>3. CASE Accepted # {}
    <3>1. Cardinality(Accepted) \in Nat /\ Cardinality(Accepted) > 0
      BY <2>1, <2>3, FS_EmptySet, FS_CardinalityType
    <3>2. executions[s] <= Cardinality(Spent(s)) \/ executions[s] = 1
      BY <2>3 DEF CountedInv, CountInv, CallsAreAccounted, Kept
    <3> QED
      BY <2>1, <2>3, <3>1, <3>2, SpentFinite
  <2> QED
    BY <2>2, <2>3
<1> QED
  BY <1>1, <1>2, CountStep, PTL DEF Spec

==========================================================================
