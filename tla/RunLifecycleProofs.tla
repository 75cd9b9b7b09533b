------------------------ MODULE RunLifecycleProofs ------------------------
(***************************************************************************)
(* A run ends for a reason and stays ended for whoever starts later, and   *)
(* retries of inserting a step are lost only to rows that were inserted,   *)
(* for any number of steps, handlers, patches, attempts and faults.        *)
(*                                                                         *)
(* The argument: a handler writes a status only if the run was open when   *)
(* the handler read it, so newcomers leave an ended run alone; and what it *)
(* is about to write was reported by the step it found, or decided by a    *)
(* user, before it started.  Rows are never removed and whoever inserts    *)
(* does so right above the highest seq: so the numbers have no gaps, and   *)
(* each retry reads a higher one than the last.                            *)
(***************************************************************************)
EXTENDS RunLifecycle, FiniteSetTheorems, TLAPS

\* What a handler slot may hold.
HandlerStates ==
    [pc : {"free", "write", "insert", "decide", "lookup",
           "raced", "childRun", "find", "outcome", "plan", "start"},
     job : Jobs,
     step : Steps,
     to : RunStatus \cup {"none"},
     seen : RunStatus \cup {"none"},
     top : Nat,
     plan : SUBSET PlanSteps]

\* No step without a parent is assigned to the agent of a child: a child's
\* report never finds the root step, or an appended one, in place of its own.
ChildrenHaveOwnAgents ==
    \A c \in Children, t \in {Root} \cup Manual : AgentOf[c] # AgentOf[t]

\* Why the run may have ended: its root agent said so, or a user refused.
ReasonFor(status, events, agents) ==
    \/ <<status, Root>> \in events
    \/ status = "failed" /\ \E s \in AgentSteps : agents[s] = "refused"

\* What a handler in state x will make of the run if it carries on.
Sound(x, events, agents) ==
    /\ x.pc = "find" =>
          /\ x.to = x.job /\ x.step \in AgentSteps
          /\ <<x.job, x.step>> \in events
    /\ x.pc \in {"outcome", "plan", "start"} =>
          /\ x.to = x.job
          /\ IsRootStep(x.step) => <<x.job, Root>> \in events
    /\ x.pc = "decide" =>
          /\ x.step \in AgentSteps
          /\ x.to = IF x.job = "approve" THEN "running" ELSE "failed"
    /\ x.pc = "write" /\ x.to \in Terminal => ReasonFor(x.to, events, agents)
    /\ x.pc \in {"find", "outcome", "plan", "start", "decide", "write"} => x.to # "none"

Reasons ==
    /\ runStatus \in Terminal => ReasonFor(runStatus, published, agent)
    /\ runStatus = "none" => \A s \in AgentSteps : agent[s] = "none"
    /\ \A h \in Handlers : Sound(handler[h], published, agent)

USE RunAssumption

---------------------------------------------------------------------------
(* Types                                                                   *)

\* The rows do not exist yet, and all handlers are free.
LEMMA TypeInit == Init => TypeOK
BY DEF Init, TypeOK, Free, Steps, AgentSteps, Jobs

\* The highest seq is a number.
LEMMA SeqsAreNumbers == Seqs \subseteq Nat
BY FS_CardinalityType DEF Seqs

\* A free handler, or one that starts, is in a state of a handler.
LEMMA FreeTyped == Free \in HandlerStates
BY DEF Free, HandlerStates, Steps, AgentSteps, Jobs

\* Reading the run adds its status to what the handler holds.
LEMMA BeginTyped ==
    ASSUME TypeOK, NEW h \in Handlers, NEW j \in HandlerStates, Begin(h, j)
    PROVE  handler' \in [Handlers -> HandlerStates]
<1>1. runStatus \in RunStatus
  BY DEF Begin, TypeOK
<1>2. [j EXCEPT !.seen = runStatus] \in HandlerStates
  BY <1>1 DEF HandlerStates
<1> QED
  BY <1>2 DEF Begin, TypeOK, HandlerStates

\* A handler moves on to another point, or is done.
LEMMA SlotTyped ==
    ASSUME TypeOK, NEW h \in Handlers,
           \/ Done(h)
           \/ \E l \in {"write", "childRun", "raced", "start", "insert", "decide"} : Goto(h, l)
           \/ \E x \in HandlerStates : handler' = [handler EXCEPT ![h] = x]
           \/ \E status \in RunStatus : Conclude(h, status)
    PROVE  handler' \in [Handlers -> HandlerStates]
<1>1. handler \in [Handlers -> HandlerStates]
  BY DEF TypeOK, HandlerStates
<1>2. CASE Done(h)
  BY <1>1, <1>2, FreeTyped DEF Done
<1>3. ASSUME NEW l \in {"write", "childRun", "raced", "start", "insert", "decide"},
             Goto(h, l)
      PROVE  handler' \in [Handlers -> HandlerStates]
  <2>1. [handler[h] EXCEPT !.pc = l] \in HandlerStates
    BY <1>1 DEF HandlerStates
  <2> QED
    BY <1>1, <1>3, <2>1 DEF Goto
<1>4. ASSUME NEW x \in HandlerStates, handler' = [handler EXCEPT ![h] = x]
      PROVE  handler' \in [Handlers -> HandlerStates]
  BY <1>1, <1>4
<1>5. ASSUME NEW status \in RunStatus, Conclude(h, status)
      PROVE  handler' \in [Handlers -> HandlerStates]
  <2>1. [handler[h] EXCEPT !.pc = "write", !.seen = status] \in HandlerStates
    BY <1>1, ZenonT(40) DEF HandlerStates
  <2> QED
    BY <1>1, <1>5, <2>1, FreeTyped DEF Conclude
<1> QED
  BY <1>2, <1>3, <1>4, <1>5

\* The run endpoints start.
LEMMA TypeRequest ==
    ASSUME TypeOK, NEW h \in Handlers, Request(h) PROVE TypeOK'
<1>1. /\ handler' \in [Handlers -> HandlerStates]
      /\ UNCHANGED <<rows, bus, runtime, faults>>
  <2>1. ASSUME NEW to \in PatchTargets, PatchStatus(h, to)
        PROVE  handler' \in [Handlers -> HandlerStates]
    <3>1. [Free EXCEPT !.pc = "write", !.job = "patch", !.to = to] \in HandlerStates
      BY FreeTyped DEF HandlerStates, Jobs
    <3> QED
      BY <2>1, <3>1, BeginTyped DEF PatchStatus
  <2>2. ASSUME NEW m \in Manual, CreateStep(h, m)
        PROVE  handler' \in [Handlers -> HandlerStates]
    <3>1. PICK n \in Seqs :
            Begin(h, [Free EXCEPT !.pc = "insert", !.job = "append", !.step = m, !.top = n])
      BY <2>2 DEF CreateStep
    <3>2. [Free EXCEPT !.pc = "insert", !.job = "append", !.step = m, !.top = n]
            \in HandlerStates
      BY FreeTyped, SeqsAreNumbers DEF HandlerStates, Jobs, Steps
    <3> QED
      BY <3>1, <3>2, BeginTyped
  <2>3. ASSUME NEW s \in AgentSteps, NEW v \in {"approve", "reject"}, Decision(h, v, s)
        PROVE  handler' \in [Handlers -> HandlerStates]
    <3> DEFINE j == [Free EXCEPT !.pc = "decide", !.job = v, !.step = s,
                                 !.to = IF v = "approve" THEN "running" ELSE "failed"]
    <3>1. j \in HandlerStates
      BY FreeTyped, ZenonT(40) DEF HandlerStates, Jobs, Steps, RunStatus, Open, Terminal
    <3>2. Begin(h, j)
      BY <2>3 DEF Decision
    <3> QED
      BY <3>1, <3>2, BeginTyped
  <2> QED
    BY <2>1, <2>2, <2>3 DEF Request, PatchStatus, CreateStep, Decision
<1> QED
  BY <1>1 DEF TypeOK, HandlerStates, rows, bus, runtime

\* The projector starts on an event.
LEMMA TypeProject ==
    ASSUME TypeOK, NEW h \in Handlers, Project(h) PROVE TypeOK'
<1>1. /\ handler' \in [Handlers -> HandlerStates]
      /\ consumed' \in SUBSET published
      /\ UNCHANGED <<rows, published, runtime, faults>>
  <2>1. ASSUME NEW c \in Children, ProjectDelegated(h, c)
        PROVE  /\ handler' \in [Handlers -> HandlerStates]
               /\ consumed' \in SUBSET published
    <3>1. [Free EXCEPT !.pc = "lookup", !.job = "child", !.step = c] \in HandlerStates
      BY FreeTyped DEF HandlerStates, Jobs, Steps, AgentSteps
    <3> QED
      BY <2>1, <3>1, BeginTyped DEF ProjectDelegated, Unread, Consume, TypeOK
  <2>2. ASSUME NEW s \in AgentSteps, NEW o \in Outcomes, ProjectOutcome(h, s, o)
        PROVE  /\ handler' \in [Handlers -> HandlerStates]
               /\ consumed' \in SUBSET published
    <3> DEFINE j == [Free EXCEPT !.pc = "find", !.job = o, !.step = s, !.to = o,
                                 !.plan = IF agent[s] = "ended" THEN PlanOf[s] ELSE {}]
    <3>1. PlanOf[s] \subseteq PlanSteps
      OBVIOUS
    <3>2. j \in HandlerStates
      <4>1. o \in Jobs /\ o \in RunStatus /\ s \in Steps
        BY DEF Jobs, Steps, Outcomes, RunStatus, Open, Terminal
      <4> QED
        BY FreeTyped, <3>1, <4>1 DEF HandlerStates
    <3>3. Begin(h, j)
      BY <2>2 DEF ProjectOutcome
    <3> QED
      BY <2>2, <3>2, <3>3, BeginTyped DEF ProjectOutcome, Unread, Consume, TypeOK
  <2> QED
    BY <2>1, <2>2 DEF Project, ProjectDelegated, ProjectOutcome
<1> QED
  BY <1>1 DEF TypeOK, HandlerStates, rows, bus, runtime

\* A handler carries on.
LEMMA TypeContinue ==
    ASSUME TypeOK, NEW h \in Handlers, Continue(h) \/ HandlerDies(h) PROVE TypeOK'
<1> DEFINE HandlersOK == handler' \in [Handlers -> HandlerStates]
<1> USE DEF rows, bus, runtime
<1>1. ASSUME HandlersOK, UNCHANGED <<rows, bus, runtime>>, faults' \in Nat PROVE TypeOK'
  BY <1>1 DEF TypeOK, HandlerStates
<1>2. ASSUME HandlersOK, UNCHANGED <<bus, runtime, faults>>,
             runStatus' \in RunStatus \cup {"none"},
             seq' \in [Steps -> Nat],
             stepStatus' \in [Steps -> RunStatus \cup {"none"}]
      PROVE  TypeOK'
  BY <1>2 DEF TypeOK, HandlerStates
<1>3. /\ handler[h] \in HandlerStates
      /\ {"queued", "running", "waiting_approval", "completed", "failed"} = RunStatus
  BY DEF TypeOK, HandlerStates, RunStatus, Open, Terminal
<1>4. CASE InsertStep(h)
  BY <1>2, <1>3, <1>4, SlotTyped, SMTT(30) DEF InsertStep, InsertRow, TypeOK, HandlerStates
<1>5. CASE Decide(h)
  <2>1. HandlersOK
    BY <1>5, SlotTyped DEF Decide
  <2>2. agent' \in [AgentSteps -> {"none", "created", "lookup", "insert", "running",
                     "waiting", "resumed", "refused", "ended", "executed", "abandoned"}]
    BY <1>5 DEF Decide, TypeOK
  <2> QED
    BY <1>5, <2>1, <2>2 DEF Decide, TypeOK, HandlerStates
<1>6. CASE WriteStatus(h)
  <2>1. HandlersOK
    BY <1>6, SlotTyped DEF WriteStatus
  <2>2. handler[h].to \in RunStatus \cup {"none"}
    BY <1>3 DEF HandlerStates
  <2> QED
    BY <1>2, <1>6, <2>1, <2>2 DEF WriteStatus, TypeOK
<1>7. CASE ChildLookup(h)
  <2>1. CASE Done(h)
    BY <1>1, <1>7, <2>1, SlotTyped DEF ChildLookup, TypeOK
  <2>2. CASE ~Done(h)
    <3>1. PICK n \in Seqs :
            handler' = [handler EXCEPT ![h] = [handler[h] EXCEPT !.pc = "insert", !.top = n]]
      BY <1>7, <2>2 DEF ChildLookup
    <3>2. [handler[h] EXCEPT !.pc = "insert", !.top = n] \in HandlerStates
      BY <1>3, SeqsAreNumbers DEF HandlerStates
    <3> QED
      BY <1>1, <1>7, <3>1, <3>2, SlotTyped DEF ChildLookup, TypeOK
  <2> QED
    BY <2>1, <2>2
<1>8. CASE ChildInsert(h)
  <2>1. HandlersOK
    BY <1>8, SlotTyped DEF ChildInsert
  <2>2. /\ seq' \in [Steps -> Nat]
        /\ stepStatus' \in [Steps -> RunStatus \cup {"none"}]
    BY <1>3, <1>8, SMTT(30) DEF ChildInsert, InsertRow, TypeOK, HandlerStates
  <2> QED
    BY <1>2, <1>8, <2>1, <2>2 DEF ChildInsert, TypeOK
<1>9. CASE ChildRaced(h) \/ StepMissing(h) \/ PlanConflict(h) \/ HandlerDies(h)
  <2>1. HandlersOK
    BY <1>9, SlotTyped DEF ChildRaced, StepMissing, PlanConflict, HandlerDies
  <2> QED
    BY <1>1, <1>9, <2>1
    DEF ChildRaced, StepMissing, PlanConflict, HandlerDies, Fault, TypeOK
<1>10. CASE ChildRun(h)
  <2>1. HandlersOK
    BY <1>10, SlotTyped DEF ChildRun
  <2> QED
    BY <1>2, <1>3, <1>10, <2>1 DEF ChildRun, TypeOK
<1>11. CASE FindStep(h)
  <2>1. PICK t \in Targets(handler[h].step) :
          handler' = [handler EXCEPT ![h] = [handler[h] EXCEPT !.pc = "outcome", !.step = t]]
    BY <1>11 DEF FindStep
  <2>2. t \in Steps
    BY <1>3, <2>1 DEF Targets, StandIn, Present, HandlerStates
  <2>3. [handler[h] EXCEPT !.pc = "outcome", !.step = t] \in HandlerStates
    BY <1>3, <2>2 DEF HandlerStates
  <2>4. HandlersOK
    BY <2>1, <2>3, SlotTyped
  <2> QED
    BY <1>1, <1>11, <2>4 DEF FindStep, TypeOK
<1>12. CASE ApplyFailed(h) \/ ApplyWaiting(h)
  <2>1. HandlersOK
    BY <1>12, SlotTyped DEF ApplyFailed, ApplyWaiting
  <2>2. stepStatus' \in [Steps -> RunStatus \cup {"none"}]
    BY <1>3, <1>12 DEF ApplyFailed, ApplyWaiting, SetStep, TypeOK
  <2> QED
    BY <1>2, <1>12, <2>1, <2>2 DEF ApplyFailed, ApplyWaiting, TypeOK
<1>13. CASE ReadTop(h)
  <2>1. PICK n \in Seqs :
          handler' = [handler EXCEPT ![h] = [handler[h] EXCEPT !.pc = "plan", !.top = n]]
    BY <1>13 DEF ReadTop
  <2>2. [handler[h] EXCEPT !.pc = "plan", !.top = n] \in HandlerStates
    BY <1>3, SeqsAreNumbers DEF HandlerStates
  <2>3. HandlersOK
    BY <2>1, <2>2, SlotTyped
  <2> QED
    BY <1>1, <1>13, <2>3 DEF ReadTop, TypeOK
<1>14. CASE InsertPlan(h)
  <2> DEFINE plan == handler[h].plan
             n == handler[h].top
  <2>1. plan \subseteq PlanSteps /\ n \in Nat
    BY <1>3 DEF HandlerStates
  <2>2. Cardinality(plan) \in Nat
    BY <2>1, FS_Subset, FS_CardinalityType DEF Steps
  <2>3. seq' \in [Steps -> Nat]
    <3>1. PICK f \in Numberings(plan, n) :
            seq' = [t \in Steps |-> IF t \in plan THEN f[t] ELSE seq[t]]
      BY <1>14 DEF InsertPlan
    <3>2. f \in [plan -> (n + 1)..(n + Cardinality(plan))]
      BY DEF Numberings
    <3>3. (n + 1)..(n + Cardinality(plan)) \subseteq Nat
      BY <2>1, <2>2
    <3> HIDE DEF plan, n
    <3> QED
      BY <3>1, <3>2, <3>3 DEF TypeOK
  <2>4. stepStatus' \in [Steps -> RunStatus \cup {"none"}]
    BY <1>3, <1>14 DEF InsertPlan, TypeOK
  <2>5. HandlersOK
    <3>1. handler[h].seen \in RunStatus \/ handler[h].seen = "none"
      BY <1>3 DEF HandlerStates
    <3>2. CASE handler[h].seen # "none"
      BY <1>14, <3>1, <3>2, SlotTyped DEF InsertPlan
    <3>3. CASE handler[h].seen = "none"
      <4>1. Done(h)
        BY <1>14, <3>3 DEF InsertPlan, Conclude, Done, Open, TypeOK
      <4> QED
        BY <4>1, SlotTyped
    <3> QED
      BY <3>2, <3>3
  <2>6. UNCHANGED <<runStatus, bus, runtime, faults>>
    BY <1>14 DEF InsertPlan
  <2> QED
    BY <1>2, <2>3, <2>4, <2>5, <2>6 DEF TypeOK
<1>15. CASE StartRun(h)
  <2>1. HandlersOK
    BY <1>3, <1>15, SlotTyped DEF StartRun
  <2> QED
    BY <1>2, <1>3, <1>15, <2>1 DEF StartRun, TypeOK
<1> QED
  BY <1>4, <1>5, <1>6, <1>7, <1>8, <1>9, <1>10, <1>11, <1>12, <1>13, <1>14, <1>15
  DEF Continue

\* The agents and the dispatch of the run.
LEMMA TypeAgents ==
    ASSUME TypeOK, CreateRun \/ DispatchAgentTask \/ DispatchRefused \/ AgentRuntime
    PROVE  TypeOK'
<1> USE DEF TypeOK, rows, bus, runtime, InsertRow, Publish, AgentSteps, Steps, RunStatus, Open
<1>1. CASE CreateRun
  BY <1>1 DEF CreateRun
<1>2. CASE DispatchAgentTask \/ DispatchRefused
  BY <1>2 DEF DispatchAgentTask, DispatchRefused
<1>3. ASSUME NEW c \in Children, Delegate(c) PROVE TypeOK'
  BY <1>3 DEF Delegate, Events
<1>4. ASSUME NEW c \in Children, EnsureLookup(c) PROVE TypeOK'
  <2>1. tops' \in [Children -> Nat]
    BY <1>4, SeqsAreNumbers DEF EnsureLookup
  <2> QED
    BY <1>4, <2>1 DEF EnsureLookup
<1>5. ASSUME NEW c \in Children, EnsureInsert(c) PROVE TypeOK'
  BY <1>5 DEF EnsureInsert
<1>6. ASSUME NEW c \in Children, EnsureConflict(c) PROVE TypeOK'
  BY <1>6 DEF EnsureConflict
<1>7. ASSUME NEW c \in Children, DelegationFails(c) PROVE TypeOK'
  BY <1>7 DEF DelegationFails, Fault
<1>8. ASSUME NEW s \in AgentSteps, NEW o \in Outcomes,
             ReportOutcome(s, o) \/ ReportResumed(s, o)
      PROVE  TypeOK'
  BY <1>8 DEF ReportOutcome, ReportResumed, Events, Outcomes, Terminal
<1> QED
  BY <1>1, <1>2, <1>3, <1>4, <1>5, <1>6, <1>7, <1>8 DEF AgentRuntime

\* Every step keeps the types.
LEMMA TypeNext == TypeOK /\ [Next]_vars => TypeOK'
<1> SUFFICES ASSUME TypeOK, [Next]_vars PROVE TypeOK'
  OBVIOUS
<1>1. CASE UNCHANGED vars
  BY <1>1 DEF TypeOK, vars, rows, bus, runtime
<1>2. CASE Next
  BY <1>2, TypeRequest, TypeProject, TypeContinue, TypeAgents DEF Next
<1> QED
  BY <1>1, <1>2

\* The rows, events, agents and handlers of a run stay what they may be: in
\* particular no handler ever writes a status that runs.status does not know.
THEOREM TypesHold == Spec => []TypeOK
BY TypeInit, TypeNext, PTL DEF Spec

---------------------------------------------------------------------------
(* Newcomers                                                               *)

\* A handler may write only if the run it read was open.
LEMMA NewcomersNext ==
    TypeOK /\ NewcomersRespectEnd /\ [Next]_vars => NewcomersRespectEnd'
<1> SUFFICES ASSUME TypeOK, NewcomersRespectEnd, [Next]_vars
             PROVE  NewcomersRespectEnd'
  OBVIOUS
<1> DEFINE Ok(x) == x.pc \in {"write", "start"} \/ (x.pc = "childRun" /\ x.seen = "queued")
                       => x.seen \notin Terminal
<1>0. /\ \A h \in Handlers : Ok(handler[h])
      /\ (\A h \in Handlers : Ok(handler'[h])) => NewcomersRespectEnd'
  BY DEF NewcomersRespectEnd, Writing
<1>1. ASSUME UNCHANGED handler PROVE NewcomersRespectEnd'
  BY <1>0, <1>1
<1>2. ASSUME NEW h \in Handlers, NEW x, handler' = [handler EXCEPT ![h] = x], Ok(x)
      PROVE  NewcomersRespectEnd'
  BY <1>0, <1>2 DEF TypeOK
<1>3. ASSUME NEW h \in Handlers, Request(h) PROVE NewcomersRespectEnd'
  <2>1. ASSUME NEW to \in PatchTargets, PatchStatus(h, to) PROVE NewcomersRespectEnd'
    <3>1. runStatus \notin Terminal
      BY <2>1 DEF PatchStatus, AllowedNext, TypeOK, Terminal
    <3> QED
      BY <1>2, <2>1, <3>1 DEF PatchStatus, Begin, Free
  <2>2. ASSUME NEW m \in Manual, CreateStep(h, m) PROVE NewcomersRespectEnd'
    BY <1>2, <2>2 DEF CreateStep, Begin, Free
  <2>3. ASSUME NEW s \in AgentSteps, NEW v \in {"approve", "reject"}, Decision(h, v, s)
        PROVE  NewcomersRespectEnd'
    BY <1>2, <2>3 DEF Decision, Begin, Free
  <2> QED
    BY <1>3, <2>1, <2>2, <2>3 DEF Request
<1>4. ASSUME NEW h \in Handlers, Project(h) PROVE NewcomersRespectEnd'
  <2>1. ASSUME NEW c \in Children, ProjectDelegated(h, c) PROVE NewcomersRespectEnd'
    BY <1>2, <2>1 DEF ProjectDelegated, Begin, Free
  <2>2. ASSUME NEW s \in AgentSteps, NEW o \in Outcomes, ProjectOutcome(h, s, o)
        PROVE  NewcomersRespectEnd'
    BY <1>2, <2>2 DEF ProjectOutcome, Begin, Free
  <2> QED
    BY <1>4, <2>1, <2>2 DEF Project
<1>5. ASSUME NEW h \in Handlers, Done(h) PROVE NewcomersRespectEnd'
  BY <1>2, <1>5 DEF Done, Free
<1>6. ASSUME NEW h \in Handlers, NEW l, Goto(h, l),
             l \notin {"write", "start", "childRun"} \/ handler[h].seen \notin Terminal
      PROVE  NewcomersRespectEnd'
  <2> DEFINE x == [handler[h] EXCEPT !.pc = l]
  <2>1. x.pc = l /\ x.seen = handler[h].seen
    BY DEF TypeOK
  <2>2. Ok(x)
    BY <1>6, <2>1
  <2>3. handler' = [handler EXCEPT ![h] = x]
    BY <1>6 DEF Goto
  <2> HIDE DEF x
  <2> QED
    BY <1>2, <2>2, <2>3
<1>7. ASSUME NEW h \in Handlers, NEW status, Conclude(h, status) PROVE NewcomersRespectEnd'
  <2> DEFINE x == [handler[h] EXCEPT !.pc = "write", !.seen = status]
  <2>1. x.seen = status /\ x.pc = "write"
    BY DEF TypeOK
  <2>2. status \in Open => Ok(x)
    BY <2>1 DEF Open, Terminal
  <2>3. Ok(Free)
    BY DEF Free
  <2>4. \/ handler' = [handler EXCEPT ![h] = Free]
        \/ status \in Open /\ handler' = [handler EXCEPT ![h] = x]
    BY <1>7 DEF Conclude, TypeOK
  <2> HIDE DEF x
  <2> QED
    BY <1>2, <2>2, <2>3, <2>4
<1>8. ASSUME NEW h \in Handlers, Continue(h) \/ HandlerDies(h) PROVE NewcomersRespectEnd'
  <2>1. CASE InsertStep(h) \/ WriteStatus(h) \/ ChildRun(h) \/ StepMissing(h)
             \/ PlanConflict(h) \/ HandlerDies(h)
    BY <1>5, <2>1
    DEF InsertStep, WriteStatus, ChildRun, StepMissing, PlanConflict, HandlerDies
  <2>2. CASE Decide(h)
    <3>1. MayWrite(h) => handler[h].seen \notin Terminal
      BY DEF MayWrite, Open, Terminal
    <3> QED
      BY <1>5, <1>6, <2>2, <3>1 DEF Decide
  <2>3. CASE ChildLookup(h)
    <3>1. CASE Done(h)
      BY <1>5, <3>1
    <3>2. CASE ~Done(h)
      <4>1. PICK n \in Seqs :
              handler' = [handler EXCEPT ![h] = [handler[h] EXCEPT !.pc = "insert", !.top = n]]
        BY <2>3, <3>2 DEF ChildLookup
      <4>2. [handler[h] EXCEPT !.pc = "insert", !.top = n].pc = "insert"
        BY DEF TypeOK
      <4> QED
        BY <1>2, <4>1, <4>2
    <3> QED
      BY <3>1, <3>2
  <2>4. CASE ChildInsert(h) \/ ChildRaced(h)
    <3>1. CASE Goto(h, "childRun")
      <4>1. handler[h].seen = "queued" => handler[h].seen \notin Terminal
        BY DEF Terminal
      <4>2. [handler[h] EXCEPT !.pc = "childRun"].pc = "childRun"
            /\ [handler[h] EXCEPT !.pc = "childRun"].seen = handler[h].seen
        BY DEF TypeOK
      <4>3. handler' = [handler EXCEPT ![h] = [handler[h] EXCEPT !.pc = "childRun"]]
        BY <3>1 DEF Goto
      <4> QED
        BY <1>2, <4>1, <4>2, <4>3
    <3>2. CASE ~Goto(h, "childRun")
      BY <1>5, <1>6, <2>4, <3>2 DEF ChildInsert, ChildRaced
    <3> QED
      BY <3>1, <3>2
  <2>5. CASE FindStep(h)
    <3>1. PICK t \in Targets(handler[h].step) :
            handler' = [handler EXCEPT ![h] = [handler[h] EXCEPT !.pc = "outcome", !.step = t]]
      BY <2>5 DEF FindStep
    <3>2. [handler[h] EXCEPT !.pc = "outcome", !.step = t].pc = "outcome"
      BY DEF TypeOK
    <3> QED
      BY <1>2, <3>1, <3>2
  <2>6. CASE ReadTop(h)
    <3>1. PICK n \in Seqs :
            handler' = [handler EXCEPT ![h] = [handler[h] EXCEPT !.pc = "plan", !.top = n]]
      BY <2>6 DEF ReadTop
    <3>2. [handler[h] EXCEPT !.pc = "plan", !.top = n].pc = "plan"
      BY DEF TypeOK
    <3> QED
      BY <1>2, <3>1, <3>2
  <2>7. CASE ApplyFailed(h) \/ ApplyWaiting(h)
    <3>1. handler[h].seen \in Open => handler[h].seen \notin Terminal
      BY DEF Open, Terminal
    <3>2. {"queued", "running"} \subseteq Open
      BY DEF Open
    <3> QED
      BY <1>5, <1>6, <2>7, <3>1, <3>2 DEF ApplyFailed, ApplyWaiting
  <2>8. CASE InsertPlan(h)
    <3>1. handler[h].seen = "queued" => handler[h].seen \notin Terminal
      BY DEF Terminal
    <3> QED
      BY <1>6, <1>7, <2>8, <3>1 DEF InsertPlan
  <2>9. CASE StartRun(h)
    BY <1>7, <2>9 DEF StartRun
  <2> QED
    BY <1>8, <2>1, <2>2, <2>3, <2>4, <2>5, <2>6, <2>7, <2>8, <2>9 DEF Continue
<1>9. CASE CreateRun \/ DispatchAgentTask \/ DispatchRefused \/ AgentRuntime
  BY <1>1, <1>9
  DEF CreateRun, DispatchAgentTask, DispatchRefused, AgentRuntime, Delegate, EnsureLookup,
      EnsureInsert, EnsureConflict, DelegationFails, ReportOutcome, ReportResumed
<1>10. CASE UNCHANGED vars
  BY <1>1, <1>10 DEF vars
<1> QED
  BY <1>3, <1>4, <1>8, <1>9, <1>10 DEF Next

\* Whoever reads the run after it has ended, an endpoint or the projector,
\* leaves its status alone, whatever it read, found and inserted in between.
THEOREM NewcomersAlwaysRespectEnd == Spec => []NewcomersRespectEnd
<1>1. Init => NewcomersRespectEnd
  BY DEF Init, NewcomersRespectEnd, Writing, Free
<1> QED
  BY <1>1, NewcomersNext, TypesHold, PTL DEF Spec

---------------------------------------------------------------------------
(* Reasons                                                                 *)

\* A reason stays one: events are never withdrawn, a refusal is final.
LEMMA ReasonsStay ==
    ASSUME TypeOK, Reasons, [Next]_vars
    PROVE  /\ published \subseteq published'
           /\ \A s \in AgentSteps : agent[s] = "refused" => agent'[s] = "refused"
<1> USE DEF rows, bus, runtime, Publish
<1>1. CASE UNCHANGED vars
  BY <1>1 DEF vars
<1>2. CASE CreateRun \/ DispatchAgentTask \/ DispatchRefused
  BY <1>2 DEF CreateRun, DispatchAgentTask, DispatchRefused, TypeOK, Reasons, AgentSteps
<1>3. CASE AgentRuntime
  BY <1>3
  DEF AgentRuntime, Delegate, EnsureLookup, EnsureInsert, EnsureConflict, DelegationFails,
      ReportOutcome, ReportResumed, TypeOK, AgentSteps
<1>4. ASSUME NEW h \in Handlers, Continue(h) PROVE UNCHANGED published
  BY <1>4
  DEF Continue, InsertStep, Decide, WriteStatus, ChildLookup, ChildInsert, ChildRaced,
      ChildRun, FindStep, StepMissing, ApplyFailed, ApplyWaiting, ReadTop, InsertPlan,
      PlanConflict, StartRun
<1>5. ASSUME NEW h \in Handlers, Continue(h)
      PROVE  \A s \in AgentSteps : agent[s] = "refused" => agent'[s] = "refused"
  <2>1. CASE Decide(h)
    BY <2>1 DEF Decide, TypeOK
  <2>2. CASE ~Decide(h)
    BY <1>5, <2>2
    DEF Continue, InsertStep, WriteStatus, ChildLookup, ChildInsert, ChildRaced,
        ChildRun, FindStep, StepMissing, ApplyFailed, ApplyWaiting, ReadTop, InsertPlan,
        PlanConflict, StartRun
  <2> QED
    BY <2>1, <2>2
<1>6. ASSUME NEW h \in Handlers, Project(h) \/ Request(h) \/ HandlerDies(h)
      PROVE  UNCHANGED <<published, agent>>
  BY <1>6
  DEF Project, ProjectDelegated, ProjectOutcome, Request, PatchStatus, CreateStep,
      Decision, HandlerDies
<1> QED
  BY <1>1, <1>2, <1>3, <1>4, <1>5, <1>6 DEF Next

\* Hence what a handler holds stays sound while others step.
LEMMA SoundStays ==
    ASSUME TypeOK, Reasons, [Next]_vars
    PROVE  /\ \A status : ReasonFor(status, published, agent)
                            => ReasonFor(status, published', agent')
           /\ \A x : Sound(x, published, agent) => Sound(x, published', agent')
<1>1. \A status : ReasonFor(status, published, agent)
                    => ReasonFor(status, published', agent')
  BY ReasonsStay DEF ReasonFor
<1> QED
  BY <1>1, ReasonsStay DEF Sound

\* The status of the run, written for a reason.
LEMMA StatusReasoned ==
    ASSUME TypeOK, Reasons, [Next]_vars
    PROVE  /\ runStatus' \in Terminal => ReasonFor(runStatus', published', agent')
           /\ runStatus' = "none" => \A s \in AgentSteps : agent'[s] = "none"
<1> USE DEF rows, bus, runtime
<1>1. ASSUME UNCHANGED runStatus
      PROVE  runStatus' \in Terminal => ReasonFor(runStatus', published', agent')
  BY <1>1, SoundStays DEF Reasons
<1>2. ASSUME UNCHANGED <<runStatus, agent>>
      PROVE  runStatus' = "none" => \A s \in AgentSteps : agent'[s] = "none"
  BY <1>2 DEF Reasons
<1>3. ASSUME runStatus' \in {"queued", "running"}
      PROVE  runStatus' \notin Terminal /\ runStatus' # "none"
  BY <1>3 DEF Terminal
<1>4. CASE UNCHANGED vars
  BY <1>1, <1>2, <1>4 DEF vars
<1>5. CASE CreateRun
  BY <1>3, <1>5 DEF CreateRun
<1>6. CASE DispatchAgentTask \/ DispatchRefused \/ AgentRuntime
  <2>1. UNCHANGED runStatus
    BY <1>6
    DEF DispatchAgentTask, DispatchRefused, AgentRuntime, Delegate, EnsureLookup,
        EnsureInsert, EnsureConflict, DelegationFails, ReportOutcome, ReportResumed
  <2>2. runStatus # "none"
    BY <1>6
    DEF DispatchAgentTask, DispatchRefused, AgentRuntime, Delegate, EnsureLookup,
        EnsureInsert, EnsureConflict, DelegationFails, ReportOutcome, ReportResumed,
        Reasons, AgentSteps
  <2> QED
    BY <1>1, <2>1, <2>2
<1>7. ASSUME NEW h \in Handlers, Project(h) \/ Request(h) \/ HandlerDies(h)
      PROVE  UNCHANGED <<runStatus, agent>>
  BY <1>7
  DEF Project, ProjectDelegated, ProjectOutcome, Request, PatchStatus, CreateStep,
      Decision, HandlerDies
<1>8. ASSUME NEW h \in Handlers, Continue(h)
      PROVE  /\ runStatus' \in Terminal => ReasonFor(runStatus', published', agent')
             /\ runStatus' = "none" => \A s \in AgentSteps : agent'[s] = "none"
  <2>1. CASE WriteStatus(h)
    <3>1. runStatus' = handler[h].to /\ handler[h].pc = "write"
      BY <2>1 DEF WriteStatus, At
    <3>2. Sound(handler[h], published, agent)
      BY DEF Reasons
    <3>3. /\ runStatus' # "none"
          /\ runStatus' \in Terminal => ReasonFor(runStatus', published, agent)
      BY <3>1, <3>2 DEF Sound
    <3> QED
      BY <3>3, SoundStays
  <2>2. CASE ChildRun(h) \/ StartRun(h)
    <3>1. UNCHANGED <<runStatus, agent>> \/ runStatus' = "running"
      BY <2>2 DEF ChildRun, StartRun
    <3> QED
      BY <1>1, <1>2, <1>3, <3>1
  <2>3. CASE Decide(h)
    <3>1. UNCHANGED runStatus
      BY <2>3 DEF Decide
    <3>2. runStatus = "none" => UNCHANGED agent
      BY <2>3 DEF Decide, Reasons, AgentSteps, TypeOK
    <3> QED
      BY <1>1, <1>2, <3>1, <3>2
  <2>4. CASE ~(WriteStatus(h) \/ ChildRun(h) \/ StartRun(h) \/ Decide(h))
    <3>1. UNCHANGED <<runStatus, agent>>
      BY <1>8, <2>4
      DEF Continue, InsertStep, ChildLookup, ChildInsert, ChildRaced, FindStep,
          StepMissing, ApplyFailed, ApplyWaiting, ReadTop, InsertPlan, PlanConflict
    <3> QED
      BY <1>1, <1>2, <3>1
  <2> QED
    BY <2>1, <2>2, <2>3, <2>4
<1> QED
  BY <1>1, <1>2, <1>4, <1>5, <1>6, <1>7, <1>8 DEF Next

\* What the handlers hold is sound.
LEMMA HandlersSound ==
    ASSUME TypeOK, Reasons, [Next]_vars, PatchTargets = {}, ChildrenHaveOwnAgents
    PROVE  \A h \in Handlers : Sound(handler'[h], published', agent')
<1> DEFINE Goal == \A h \in Handlers : Sound(handler'[h], published', agent')
           Spot(h, l) == [handler[h] EXCEPT !.pc = l]
<1> USE DEF rows, bus, runtime
<1>1. ASSUME UNCHANGED handler PROVE Goal
  BY <1>1, SoundStays DEF Reasons
<1>2. ASSUME NEW h \in Handlers, NEW x, handler' = [handler EXCEPT ![h] = x],
             Sound(x, published', agent')
      PROVE  Goal
  BY <1>2, SoundStays DEF Reasons, TypeOK
<1>3. ASSUME NEW h \in Handlers, Done(h) PROVE Goal
  <2>1. Sound(Free, published', agent')
    BY DEF Sound, Free
  <2> QED
    BY <1>2, <1>3, <2>1 DEF Done
<1>4. \A h \in Handlers : \A l :
         /\ Spot(h, l).pc = l /\ Spot(h, l).to = handler[h].to
         /\ Spot(h, l).job = handler[h].job /\ Spot(h, l).step = handler[h].step
  BY DEF TypeOK
<1>5. ASSUME NEW h \in Handlers, Request(h) PROVE Goal
  <2>1. \A to \in PatchTargets : ~PatchStatus(h, to)
    OBVIOUS
  <2>2. ASSUME NEW m \in Manual, CreateStep(h, m) PROVE Goal
    <3>1. PICK n \in Seqs :
            Begin(h, [Free EXCEPT !.pc = "insert", !.job = "append", !.step = m, !.top = n])
      BY <2>2 DEF CreateStep
    <3> DEFINE x == [[Free EXCEPT !.pc = "insert", !.job = "append", !.step = m, !.top = n]
                        EXCEPT !.seen = runStatus]
    <3>2. x.pc = "insert"
      BY DEF Free
    <3>3. handler' = [handler EXCEPT ![h] = x]
      BY <3>1 DEF Begin
    <3> HIDE DEF x
    <3>4. Sound(x, published', agent')
      BY <3>2 DEF Sound
    <3> QED
      BY <1>2, <3>3, <3>4
  <2>3. ASSUME NEW s \in AgentSteps, NEW v \in {"approve", "reject"}, Decision(h, v, s)
        PROVE  Goal
    <3> DEFINE x == [[Free EXCEPT !.pc = "decide", !.job = v, !.step = s,
                                  !.to = IF v = "approve" THEN "running" ELSE "failed"]
                        EXCEPT !.seen = runStatus]
    <3>1. /\ x.pc = "decide" /\ x.job = v /\ x.step = s
          /\ x.to = IF v = "approve" THEN "running" ELSE "failed"
      BY DEF Free
    <3>2. handler' = [handler EXCEPT ![h] = x]
      BY <2>3 DEF Decision, Begin
    <3> HIDE DEF x
    <3>3. Sound(x, published', agent')
      BY <3>1 DEF Sound
    <3> QED
      BY <1>2, <3>2, <3>3
  <2> QED
    BY <1>5, <2>1, <2>2, <2>3 DEF Request
<1>6. ASSUME NEW h \in Handlers, Project(h) PROVE Goal
  <2>1. ASSUME NEW c \in Children, ProjectDelegated(h, c) PROVE Goal
    <3> DEFINE x == [[Free EXCEPT !.pc = "lookup", !.job = "child", !.step = c]
                        EXCEPT !.seen = runStatus]
    <3>1. x.pc = "lookup"
      BY DEF Free
    <3>2. handler' = [handler EXCEPT ![h] = x]
      BY <2>1 DEF ProjectDelegated, Begin
    <3> HIDE DEF x
    <3>3. Sound(x, published', agent')
      BY <3>1 DEF Sound
    <3> QED
      BY <1>2, <3>2, <3>3
  <2>2. ASSUME NEW s \in AgentSteps, NEW o \in Outcomes, ProjectOutcome(h, s, o) PROVE Goal
    <3> DEFINE x == [[Free EXCEPT !.pc = "find", !.job = o, !.step = s, !.to = o,
                                  !.plan = IF agent[s] = "ended" THEN PlanOf[s] ELSE {}]
                        EXCEPT !.seen = runStatus]
    <3>1. x.pc = "find" /\ x.job = o /\ x.to = o /\ x.step = s
      BY DEF Free
    <3>2. handler' = [handler EXCEPT ![h] = x]
      BY <2>2 DEF ProjectOutcome, Begin
    <3> HIDE DEF x
    <3>3. <<o, s>> \in published' /\ o # "none"
      BY <2>2 DEF ProjectOutcome, Unread, Outcomes
    <3>4. Sound(x, published', agent')
      BY <3>1, <3>3 DEF Sound
    <3> QED
      BY <1>2, <3>2, <3>4
  <2> QED
    BY <1>6, <2>1, <2>2 DEF Project
<1>7. ASSUME NEW h \in Handlers, Goto(h, "write"),
             handler[h].to # "none",
             handler[h].to \in Terminal => ReasonFor(handler[h].to, published', agent')
      PROVE  Goal
  <2>1. Sound(Spot(h, "write"), published', agent')
    BY <1>4, <1>7 DEF Sound
  <2> HIDE DEF Spot
  <2> QED
    BY <1>2, <1>7, <2>1 DEF Goto, Spot
<1>8. ASSUME NEW h \in Handlers, Decide(h) PROVE Goal
  <2>1. CASE Done(h)
    BY <1>3, <2>1
  <2>2. CASE ~Done(h)
    <3>1. /\ handler[h].pc = "decide" /\ Goto(h, "write")
          /\ agent' = [agent EXCEPT ![handler[h].step] =
                          IF handler[h].job = "approve" THEN "resumed" ELSE "refused"]
          /\ agent[handler[h].step] = "waiting"
      BY <1>8, <2>2 DEF Decide, At
    <3>2. handler[h].to = IF handler[h].job = "approve" THEN "running" ELSE "failed"
      BY <3>1 DEF Reasons, Sound
    <3>3. CASE handler[h].job = "approve"
      BY <1>7, <3>1, <3>2, <3>3 DEF Terminal
    <3>4. CASE handler[h].job # "approve"
      <4>1. \E s \in AgentSteps : agent'[s] = "refused"
        <5>1. handler[h].step \in AgentSteps
          BY <3>1, <3>2 DEF Reasons, Sound
        <5> QED
          BY <3>1, <3>4, <5>1 DEF TypeOK
      <4> QED
        BY <1>7, <3>1, <3>2, <3>4, <4>1 DEF ReasonFor
    <3> QED
      BY <3>3, <3>4
  <2> QED
    BY <2>1, <2>2
<1>9. ASSUME NEW h \in Handlers, FindStep(h) PROVE Goal
  <2> DEFINE s == handler[h].step
             o == handler[h].job
  <2>1. PICK t \in Targets(s) :
          handler' = [handler EXCEPT ![h] = [handler[h] EXCEPT !.pc = "outcome", !.step = t]]
    BY <1>9 DEF FindStep
  <2>2. handler[h].to = o /\ s \in AgentSteps /\ <<o, s>> \in published /\ o # "none"
    BY <1>9 DEF FindStep, At, Reasons, Sound
  <2>3. IsRootStep(t) => s = Root
    <3>1. CASE t = s
      BY <2>2, <3>1 DEF IsRootStep, AgentSteps
    <3>2. CASE t # s
      <4>1. AgentOf[t] = AgentOf[s]
        BY <2>1, <3>2 DEF Targets, StandIn
      <4> QED
        BY <2>2, <4>1 DEF ChildrenHaveOwnAgents, IsRootStep, AgentSteps
    <3> QED
      BY <3>1, <3>2
  <2>4. published' = published
    BY <1>9 DEF FindStep
  <2> DEFINE x == [handler[h] EXCEPT !.pc = "outcome", !.step = t]
  <2>5. x.pc = "outcome" /\ x.step = t /\ x.job = o /\ x.to = handler[h].to
    BY DEF TypeOK
  <2> HIDE DEF x
  <2>6. Sound(x, published', agent')
    BY <2>2, <2>3, <2>4, <2>5 DEF Sound
  <2> QED
    BY <1>2, <2>1, <2>6 DEF x
<1>10. ASSUME NEW h \in Handlers, handler[h].pc \in {"outcome", "plan", "start"},
              IsRootStep(handler[h].step)
       PROVE  /\ handler[h].to = handler[h].job /\ handler[h].to # "none"
              /\ ReasonFor(handler[h].to, published', agent')
  <2>1. Sound(handler[h], published, agent)
    BY DEF Reasons
  <2>2. ReasonFor(handler[h].to, published, agent)
    BY <1>10, <2>1 DEF Sound, ReasonFor
  <2> QED
    BY <1>10, <2>1, <2>2, SoundStays DEF Sound
<1>11. ASSUME NEW h \in Handlers, ApplyFailed(h) PROVE Goal
  BY <1>3, <1>7, <1>10, <1>11 DEF ApplyFailed, At
<1>12. ASSUME NEW h \in Handlers, ApplyWaiting(h) PROVE Goal
  <2>1. handler[h].to = "waiting_approval"
    BY <1>12 DEF ApplyWaiting, At, Reasons, Sound
  <2> QED
    BY <1>3, <1>7, <1>12, <2>1 DEF ApplyWaiting, Terminal
<1>13. ASSUME NEW h \in Handlers, handler[h].pc \in {"outcome", "plan", "start"},
              NEW x, handler' = [handler EXCEPT ![h] = x], x.pc \in {"plan", "start"},
              x.to = handler[h].to, x.job = handler[h].job, x.step = handler[h].step
       PROVE  Goal
  <2>1. Sound(x, published, agent)
    BY <1>13 DEF Reasons, Sound
  <2> QED
    BY <1>2, <1>13, <2>1, SoundStays
<1>14. ASSUME NEW h \in Handlers, ReadTop(h) PROVE Goal
  <2>1. PICK n \in Seqs :
          handler' = [handler EXCEPT ![h] = [handler[h] EXCEPT !.pc = "plan", !.top = n]]
    BY <1>14 DEF ReadTop
  <2> DEFINE x == [handler[h] EXCEPT !.pc = "plan", !.top = n]
  <2>2. /\ x.pc = "plan" /\ x.step = handler[h].step
        /\ x.job = handler[h].job /\ x.to = handler[h].to
    BY DEF TypeOK
  <2> HIDE DEF x
  <2> QED
    BY <1>13, <1>14, <2>1, <2>2 DEF x, ReadTop, At
<1>15. ASSUME NEW h \in Handlers, NEW status, Conclude(h, status),
              handler[h].pc \in {"outcome", "plan", "start"}
       PROVE  Goal
  <2> DEFINE x == [handler[h] EXCEPT !.pc = "write", !.seen = status]
  <2>1. x.pc = "write" /\ x.to = handler[h].to
    BY DEF TypeOK
  <2> HIDE DEF x
  <2>2. \/ Done(h)
        \/ IsRootStep(handler[h].step) /\ handler' = [handler EXCEPT ![h] = x]
    BY <1>15 DEF Conclude, Done, TypeOK, x
  <2>3. IsRootStep(handler[h].step) => Sound(x, published', agent')
    BY <1>10, <1>15, <2>1 DEF Sound
  <2> QED
    BY <1>2, <1>3, <2>2, <2>3
<1>16. ASSUME NEW h \in Handlers, InsertPlan(h) \/ StartRun(h) PROVE Goal
  <2>1. CASE Goto(h, "start") /\ handler[h].pc = "plan"
    <3> HIDE DEF Spot
    <3> QED
      BY <1>4, <1>13, <2>1 DEF Goto, Spot
  <2>2. CASE ~Goto(h, "start") \/ handler[h].pc # "plan"
    BY <1>15, <1>16, <2>2 DEF InsertPlan, StartRun, At
  <2> QED
    BY <2>1, <2>2
<1>17. ASSUME NEW h \in Handlers, ChildLookup(h) \/ ChildInsert(h) \/ ChildRaced(h) PROVE Goal
  <2>1. CASE Done(h)
    BY <1>3, <2>1
  <2>2. CASE ~Done(h)
    <3>1. PICK x : handler' = [handler EXCEPT ![h] = x]
                   /\ x.pc \in {"insert", "childRun", "raced"}
      <4>1. ASSUME NEW l \in {"childRun", "raced"}, Goto(h, l)
            PROVE  \E x : handler' = [handler EXCEPT ![h] = x]
                          /\ x.pc \in {"insert", "childRun", "raced"}
        <5>1. handler' = [handler EXCEPT ![h] = Spot(h, l)]
          BY <4>1 DEF Goto
        <5>2. Spot(h, l).pc \in {"insert", "childRun", "raced"}
          BY <1>4
        <5> HIDE DEF Spot
        <5> QED
          BY <5>1, <5>2
      <4>2. ASSUME ChildLookup(h)
            PROVE  \E x : handler' = [handler EXCEPT ![h] = x]
                          /\ x.pc \in {"insert", "childRun", "raced"}
        BY <4>2, <2>2 DEF ChildLookup, TypeOK
      <4> QED
        BY <1>17, <2>2, <4>1, <4>2 DEF ChildInsert, ChildRaced
    <3>2. Sound(x, published', agent')
      BY <3>1 DEF Sound
    <3> QED
      BY <1>2, <3>1, <3>2
  <2> QED
    BY <2>1, <2>2
<1>18. ASSUME NEW h \in Handlers,
              \/ InsertStep(h) \/ WriteStatus(h) \/ ChildRun(h)
              \/ StepMissing(h) \/ PlanConflict(h) \/ HandlerDies(h)
       PROVE  Goal
  BY <1>3, <1>18 DEF InsertStep, WriteStatus, ChildRun, StepMissing, PlanConflict, HandlerDies
<1>19. ASSUME NEW h \in Handlers, Continue(h) PROVE Goal
  BY <1>8, <1>9, <1>11, <1>12, <1>14, <1>16, <1>17, <1>18, <1>19 DEF Continue
<1>20. CASE CreateRun \/ DispatchAgentTask \/ DispatchRefused \/ AgentRuntime
            \/ UNCHANGED vars
  BY <1>1, <1>20
  DEF CreateRun, DispatchAgentTask, DispatchRefused, AgentRuntime, Delegate, EnsureLookup,
      EnsureInsert, EnsureConflict, DelegationFails, ReportOutcome, ReportResumed, vars
<1> QED
  BY <1>5, <1>6, <1>18, <1>19, <1>20 DEF Next

\* Nobody patches the run and no child shares the agent of a step that could
\* stand in for its own: then a run is completed only when its root agent
\* reported completion, and failed only when the root agent reported failure
\* or a user refused an approval; no child's report ends it.
THEOREM RunsEndForAReason ==
    ASSUME ChildrenHaveOwnAgents PROVE Spec => []EndsForAReason
<1>1. CASE PatchTargets = {}
  <2>1. Init => Reasons
    BY DEF Init, Reasons, Sound, Free, Terminal
  <2>2. TypeOK /\ Reasons /\ [Next]_vars => Reasons'
    BY <1>1, StatusReasoned, HandlersSound DEF Reasons
  <2>3. Reasons => EndsForAReason
    BY DEF Reasons, EndsForAReason, ReasonFor, Terminal
  <2> QED
    BY <2>1, <2>2, <2>3, TypesHold, PTL DEF Spec
<1>2. CASE PatchTargets # {}
  <2>1. EndsForAReason
    BY <1>2 DEF EndsForAReason
  <2> QED
    BY <2>1, PTL
<1> QED
  BY <1>1, <1>2

---------------------------------------------------------------------------
(* Retries                                                                 *)

\* n was the highest seq when it was read, and rows stay.
Known(n, sq) == n = 0 \/ \E s \in Steps : sq[s] = n

\* The rows are numbered 1, 2, ... without a gap.
Dense(sq) == \A s \in Steps : \A k \in 1..sq[s] : \E t \in Steps : sq[t] = k

\* What a handler in state x inserts above was once the highest seq, and what it
\* writes is a status.
Numbered(x, sq) ==
    /\ x.pc \in {"insert", "plan"} => Known(x.top, sq)
    /\ x.pc \in {"find", "outcome", "plan", "start", "decide", "write"} => x.to # "none"

\* Every retry was lost to a row above the seq read for it.
Outrun(c) ==
    /\ attempts[c] = 0 \/ \E s \in Steps : seq[s] > attempts[c]
    /\ agent[c] = "insert" => /\ attempts[c] < tops[c]
                              /\ Known(tops[c], seq)
                              /\ seq[c] = 0 \/ seq[c] > tops[c]

\* Without a run nothing has happened.
Untouched ==
    /\ \A s \in Steps : seq[s] = 0
    /\ \A s \in AgentSteps : agent[s] = "none"
    /\ \A h \in Handlers : handler[h].pc = "free"

SeqInv ==
    /\ Dense(seq)
    /\ IF runStatus = "none" THEN Untouched ELSE seq[Root] > 0
    /\ \A h \in Handlers : Numbered(handler[h], seq)
    /\ \A c \in Children : Outrun(c)

\* Rows are added under numbers nobody has, and none is changed.
Grows ==
    \A s \in Steps : \/ seq'[s] = seq[s]
                     \/ seq[s] = 0 /\ \A t \in Steps : seq[t] # seq'[s]

\* What was read as the highest seq is still one of the rows.
LEMMA KnownStays ==
    ASSUME TypeOK, Grows, NEW n \in Nat, Known(n, seq) PROVE Known(n, seq')
<1>1. CASE n = 0
  BY <1>1 DEF Known
<1>2. CASE n # 0
  <2>1. PICK s \in Steps : seq[s] = n
    BY <1>2 DEF Known
  <2>2. seq'[s] = n
    BY <1>2, <2>1 DEF Grows
  <2> QED BY <2>2 DEF Known
<1> QED BY <1>1, <1>2

\* A child's retries are paid for whatever rows are added.
LEMMA OutrunStays ==
    ASSUME TypeOK, TypeOK', Dense(seq), Grows, NEW c \in Children, Outrun(c),
           attempts'[c] = attempts[c], tops'[c] = tops[c],
           agent'[c] = "insert" => agent[c] = "insert"
    PROVE  Outrun(c)'
<1>1. /\ attempts[c] \in Nat /\ tops[c] \in Nat /\ c \in Steps
      /\ \A s \in Steps : seq[s] \in Nat /\ seq'[s] \in Nat
  BY DEF TypeOK, Steps, AgentSteps
<1>2. attempts'[c] = 0 \/ \E s \in Steps : seq'[s] > attempts'[c]
  <2>1. CASE attempts[c] = 0
    BY <2>1
  <2>2. CASE attempts[c] # 0
    <3>1. PICK s \in Steps : seq[s] > attempts[c]
      BY <2>2 DEF Outrun
    <3>2. seq'[s] = seq[s]
      BY <1>1, <3>1 DEF Grows
    <3> QED BY <3>1, <3>2
  <2> QED BY <2>1, <2>2
<1>3. ASSUME agent'[c] = "insert"
      PROVE  /\ attempts'[c] < tops'[c] /\ Known(tops'[c], seq')
             /\ seq'[c] = 0 \/ seq'[c] > tops'[c]
  <2>1. /\ attempts[c] < tops[c] /\ Known(tops[c], seq)
        /\ seq[c] = 0 \/ seq[c] > tops[c]
    BY <1>3 DEF Outrun
  <2>2. Known(tops[c], seq')
    BY <1>1, <2>1, KnownStays
  <2>3. ASSUME seq'[c] # 0, ~(seq'[c] > tops[c]) PROVE FALSE
    <3>1. seq[c] = 0 /\ \A t \in Steps : seq[t] # seq'[c]
      BY <1>1, <2>1, <2>3 DEF Grows
    <3>2. PICK s \in Steps : seq[s] = tops[c]
      BY <1>1, <2>1 DEF Known
    <3>3. seq'[c] \in 1..seq[s]
      BY <1>1, <2>3, <3>2
    <3> QED BY <3>1, <3>3 DEF Dense
  <2> QED BY <2>1, <2>2, <2>3
<1> QED BY <1>2, <1>3 DEF Outrun

\* One row is inserted above what was read as the highest seq.
LEMMA InsertGrows ==
    ASSUME TypeOK, Dense(seq), NEW s \in Steps, NEW n \in Nat, Known(n, seq),
           CanInsert(s, n + 1), seq' = [seq EXCEPT ![s] = n + 1]
    PROVE  Grows /\ Dense(seq')
<1>1. /\ seq[s] = 0 /\ seq'[s] = n + 1
      /\ \A t \in Steps : seq[t] \in Nat /\ seq[t] # n + 1
      /\ \A t \in Steps \ {s} : seq'[t] = seq[t]
  BY DEF TypeOK, CanInsert, Present
<1>2. Grows
  BY <1>1 DEF Grows
<1>3. ASSUME NEW r \in Steps, NEW k \in 1..seq'[r] PROVE \E t \in Steps : seq'[t] = k
  <2>1. CASE k = n + 1
    BY <1>1, <2>1
  <2>2. CASE k # n + 1
    <3>1. \E u \in Steps : k \in 1..seq[u]
      <4>1. CASE r # s
        BY <1>1, <1>3, <4>1
      <4>2. CASE r = s
        <5>1. k \in 1..n
          BY <1>1, <1>3, <2>2, <4>2
        <5> QED BY <5>1 DEF Known
      <4> QED BY <4>1, <4>2
    <3>2. PICK t \in Steps : seq[t] = k
      BY <3>1 DEF Dense
    <3>3. seq'[t] = k
      BY <1>1, <1>3, <3>2
    <3> QED BY <3>3
  <2> QED BY <2>1, <2>2
<1> QED BY <1>2, <1>3 DEF Dense

\* A plan takes each of the numbers it is given.
LEMMA NumberingsAreOnto ==
    ASSUME NEW plan \in SUBSET PlanSteps, NEW n \in Nat, NEW f \in Numberings(plan, n)
    PROVE  /\ Cardinality(plan) \in Nat
           /\ f \in [plan -> (n + 1)..(n + Cardinality(plan))]
           /\ \A k \in (n + 1)..(n + Cardinality(plan)) : \E p \in plan : f[p] = k
<1> DEFINE m == Cardinality(plan)
           T == (n + 1)..(n + m)
<1>1. IsFiniteSet(plan) /\ m \in Nat
  BY FS_Subset, FS_CardinalityType DEF Steps
<1>2. IsFiniteSet(T) /\ Cardinality(T) = m
  <2>1. n + 1 \in Int /\ n + m \in Int
    BY <1>1
  <2>2. /\ IsFiniteSet(T)
        /\ Cardinality(T) = IF n + 1 > n + m THEN 0 ELSE (n + m) - (n + 1) + 1
    BY <2>1, FS_Interval
  <2> HIDE DEF T
  <2> QED BY <1>1, <2>2
<1>3. f \in [plan -> T] /\ \A p, q \in plan : p # q => f[p] # f[q]
  BY DEF Numberings
<1> HIDE DEF T, m
<1>4. f \in Injection(plan, T)
  BY <1>3 DEF Injection, IsInjective
<1>5. f \in Surjection(plan, T)
  BY <1>2, <1>4, FS_Injection DEF m
<1>6. \A k \in T : \E p \in plan : f[p] = k
  BY <1>5 DEF Surjection
<1> QED BY <1>1, <1>3, <1>6 DEF T, m

\* A plan is inserted above what was read as the highest seq.
LEMMA PlanGrows ==
    ASSUME TypeOK, Dense(seq), NEW plan \in SUBSET PlanSteps, NEW n \in Nat, Known(n, seq),
           PlanFits(plan, n), NEW f \in Numberings(plan, n),
           seq' = [t \in Steps |-> IF t \in plan THEN f[t] ELSE seq[t]]
    PROVE  Grows /\ Dense(seq')
<1> DEFINE m == Cardinality(plan)
<1>1. /\ m \in Nat /\ f \in [plan -> (n + 1)..(n + m)]
      /\ \A k \in (n + 1)..(n + m) : \E p \in plan : f[p] = k
  BY NumberingsAreOnto
<1>2. plan \subseteq Steps /\ \A t \in Steps : seq[t] \in Nat
  BY DEF Steps, TypeOK
<1>3. \A p \in plan : seq[p] = 0 /\ seq'[p] = f[p] /\ f[p] \in (n + 1)..(n + m)
  BY <1>1, <1>2 DEF PlanFits
<1>4. \A t \in Steps \ plan : seq'[t] = seq[t]
  OBVIOUS
<1>5. \A t \in Steps : seq[t] \notin (n + 1)..(n + m)
  BY <1>1, <1>2 DEF PlanFits, Present
<1> HIDE DEF m
<1>6. Grows
  BY <1>3, <1>4, <1>5 DEF Grows
<1>7. ASSUME NEW r \in Steps, NEW k \in 1..seq'[r] PROVE \E t \in Steps : seq'[t] = k
  <2>1. CASE k \in (n + 1)..(n + m)
    BY <1>1, <1>2, <1>3, <2>1
  <2>2. CASE k \notin (n + 1)..(n + m)
    <3>1. \E u \in Steps : k \in 1..seq[u]
      <4>1. CASE r \notin plan
        BY <1>4, <1>7, <4>1
      <4>2. CASE r \in plan
        <5>1. k \in 1..n
          BY <1>1, <1>3, <1>7, <2>2, <4>2
        <5> QED BY <5>1 DEF Known
      <4> QED BY <4>1, <4>2
    <3>2. PICK t \in Steps : seq[t] = k
      BY <3>1 DEF Dense
    <3>3. t \notin plan
      BY <1>2, <1>3, <1>7, <3>2
    <3> QED BY <1>4, <3>2, <3>3
  <2> QED BY <2>1, <2>2
<1> QED BY <1>6, <1>7 DEF Dense

\* There are at least as many rows as the highest number says.
LEMMA RowsCount ==
    ASSUME TypeOK, Dense(seq), NEW s \in Steps
    PROVE  Cardinality(Present) \in Nat /\ seq[s] <= Cardinality(Present)
<1> DEFINE m == seq[s]
           g == [k \in 1..m |-> CHOOSE t \in Steps : seq[t] = k]
<1>1. m \in Nat /\ IsFiniteSet(Present) /\ Cardinality(Present) \in Nat
  BY FS_Subset, FS_CardinalityType DEF TypeOK, Present
<1>2. \A k \in 1..m : g[k] \in Steps /\ seq[g[k]] = k
  BY DEF Dense
<1>3. g \in [1..m -> Present]
  <2> SUFFICES ASSUME NEW k \in 1..m PROVE g[k] \in Present
    OBVIOUS
  <2>1. g[k] \in Steps /\ seq[g[k]] > 0
    BY <1>1, <1>2
  <2> HIDE DEF g
  <2> QED BY <2>1 DEF Present
<1>4. g \in Injection(1..m, Present)
  <2> HIDE DEF g
  <2> QED BY <1>2, <1>3 DEF Injection, IsInjective
<1>5. Cardinality(1..m) <= Cardinality(Present)
  BY <1>1, <1>4, FS_Injection
<1>6. Cardinality(1..m) = m
  <2> HIDE DEF m
  <2>1. 1 \in Int /\ m \in Int
    BY <1>1
  <2>2. Cardinality(1..m) = IF 1 > m THEN 0 ELSE m - 1 + 1
    BY <2>1, FS_Interval
  <2> QED BY <1>1, <2>2
<1> QED BY <1>1, <1>5, <1>6

\* A handler in state x and those that wait keep what is said of them.
LEMMA SlotsStay ==
    ASSUME TypeOK, SeqInv, Grows, NEW h \in Handlers, NEW x, Numbered(x, seq'),
           handler' = [handler EXCEPT ![h] = x]
    PROVE  \A k \in Handlers : Numbered(handler'[k], seq')
<1> SUFFICES ASSUME NEW k \in Handlers PROVE Numbered(handler'[k], seq')
  OBVIOUS
<1>1. CASE k = h
  BY <1>1 DEF TypeOK
<1>2. CASE k # h
  <2>1. handler'[k] = handler[k] /\ Numbered(handler[k], seq) /\ handler[k].top \in Nat
    BY <1>2 DEF TypeOK, SeqInv
  <2>2. Known(handler[k].top, seq) => Known(handler[k].top, seq')
    BY <2>1, KnownStays
  <2> QED BY <2>1, <2>2 DEF Numbered
<1> QED BY <1>1, <1>2

\* A handler h goes on as x, once the run is there.
LEMMA HandlerKeepsSeqs ==
    ASSUME TypeOK, TypeOK', SeqInv, Grows, Dense(seq'), runStatus # "none",
           runStatus' # "none", NEW h \in Handlers, NEW x, Numbered(x, seq'),
           handler' = [handler EXCEPT ![h] = x], UNCHANGED <<attempts, tops>>,
           \A c \in Children : agent'[c] = "insert" => agent[c] = "insert"
    PROVE  SeqInv'
<1>1. seq'[Root] > 0
  BY DEF SeqInv, Grows, TypeOK, Steps, AgentSteps
<1>2. \A c \in Children : Outrun(c)'
  BY OutrunStays DEF SeqInv
<1>3. \A k \in Handlers : Numbered(handler'[k], seq')
  BY SlotsStay
<1> QED BY <1>1, <1>2, <1>3 DEF SeqInv

\* When no row is added the numbers stay what they are.
LEMMA NoGrowth ==
    ASSUME SeqInv, UNCHANGED seq PROVE Grows /\ Dense(seq')
BY DEF SeqInv, Grows, Dense

\* A busy handler shows that the run is there.
LEMMA BusyHandler ==
    ASSUME SeqInv, NEW h \in Handlers, handler[h].pc # "free" PROVE runStatus # "none"
BY DEF SeqInv, Untouched

\* A request or event begins.
LEMMA BeginKeepsSeqs ==
    ASSUME TypeOK, TypeOK', SeqInv, NEW h \in Handlers, NEW j \in HandlerStates,
           Begin(h, j), Numbered(j, seq), UNCHANGED <<rows, runtime>>
    PROVE  SeqInv'
<1> DEFINE x == [j EXCEPT !.seen = runStatus]
<1>1. handler' = [handler EXCEPT ![h] = x] /\ runStatus # "none"
  BY DEF Begin
<1>2. x.pc = j.pc /\ x.top = j.top /\ x.to = j.to
  BY DEF HandlerStates
<1> HIDE DEF x
<1>3. Numbered(x, seq') /\ Grows /\ Dense(seq')
  BY <1>2, NoGrowth DEF Numbered, rows
<1> QED BY <1>1, <1>3, HandlerKeepsSeqs DEF rows, runtime

\* The run endpoints and the projector start.
LEMMA StartsKeepSeqs ==
    ASSUME TypeOK, TypeOK', SeqInv, NEW h \in Handlers, Request(h) \/ Project(h)
    PROVE  SeqInv'
<1>1. ASSUME NEW to \in PatchTargets, PatchStatus(h, to) PROVE SeqInv'
  <2> DEFINE j == [Free EXCEPT !.pc = "write", !.job = "patch", !.to = to]
  <2>1. j \in HandlerStates
    BY FreeTyped DEF HandlerStates, Jobs
  <2>2. j.pc = "write" /\ j.to # "none"
    BY DEF Free, RunStatus, Open, Terminal
  <2>3. Begin(h, j) /\ UNCHANGED <<rows, runtime>>
    BY <1>1 DEF PatchStatus
  <2> HIDE DEF j
  <2>4. Numbered(j, seq)
    BY <2>2 DEF Numbered
  <2> QED BY <2>1, <2>3, <2>4, BeginKeepsSeqs
<1>2. ASSUME NEW m \in Manual, CreateStep(h, m) PROVE SeqInv'
  <2>1. PICK n \in Seqs :
          /\ IsTop(n)
          /\ Begin(h, [Free EXCEPT !.pc = "insert", !.job = "append", !.step = m, !.top = n])
    BY <1>2 DEF CreateStep
  <2> DEFINE j == [Free EXCEPT !.pc = "insert", !.job = "append", !.step = m, !.top = n]
  <2>2. j \in HandlerStates
    BY FreeTyped, SeqsAreNumbers DEF HandlerStates, Jobs, Steps
  <2>3. j.pc = "insert" /\ j.top = n
    BY DEF Free
  <2>4. Begin(h, j) /\ UNCHANGED <<rows, runtime>>
    BY <1>2, <2>1 DEF CreateStep
  <2> HIDE DEF j
  <2>5. Numbered(j, seq)
    BY <2>1, <2>3 DEF Numbered, IsTop, Known, Present
  <2> QED BY <2>2, <2>4, <2>5, BeginKeepsSeqs
<1>3. ASSUME NEW s \in AgentSteps, NEW v \in {"approve", "reject"}, Decision(h, v, s)
      PROVE  SeqInv'
  <2> DEFINE j == [Free EXCEPT !.pc = "decide", !.job = v, !.step = s,
                               !.to = IF v = "approve" THEN "running" ELSE "failed"]
  <2>1. j \in HandlerStates
    BY FreeTyped, ZenonT(40) DEF HandlerStates, Jobs, Steps, RunStatus, Open, Terminal
  <2>2. j.pc = "decide" /\ j.to # "none"
    BY DEF Free
  <2>3. Begin(h, j) /\ UNCHANGED <<rows, runtime>>
    BY <1>3 DEF Decision
  <2> HIDE DEF j
  <2>4. Numbered(j, seq)
    BY <2>2 DEF Numbered
  <2> QED BY <2>1, <2>3, <2>4, BeginKeepsSeqs
<1>4. ASSUME NEW c \in Children, ProjectDelegated(h, c) PROVE SeqInv'
  <2> DEFINE j == [Free EXCEPT !.pc = "lookup", !.job = "child", !.step = c]
  <2>1. j \in HandlerStates /\ j.pc = "lookup"
    BY FreeTyped DEF HandlerStates, Jobs, Steps, AgentSteps, Free
  <2>2. Begin(h, j) /\ UNCHANGED <<rows, runtime>>
    BY <1>4 DEF ProjectDelegated
  <2> HIDE DEF j
  <2>3. Numbered(j, seq)
    BY <2>1 DEF Numbered
  <2> QED BY <2>1, <2>2, <2>3, BeginKeepsSeqs
<1>5. ASSUME NEW s \in AgentSteps, NEW o \in Outcomes, ProjectOutcome(h, s, o)
      PROVE  SeqInv'
  <2> DEFINE j == [Free EXCEPT !.pc = "find", !.job = o, !.step = s, !.to = o,
                               !.plan = IF agent[s] = "ended" THEN PlanOf[s] ELSE {}]
  <2>1. j \in HandlerStates
    <3>1. o \in Jobs /\ o \in RunStatus /\ s \in Steps /\ PlanOf[s] \subseteq PlanSteps
      BY DEF Jobs, Steps, Outcomes, RunStatus, Open, Terminal
    <3> QED BY FreeTyped, <3>1 DEF HandlerStates
  <2>2. j.pc = "find" /\ j.to # "none"
    BY DEF Free, Outcomes
  <2>3. Begin(h, j) /\ UNCHANGED <<rows, runtime>>
    BY <1>5 DEF ProjectOutcome
  <2> HIDE DEF j
  <2>4. Numbered(j, seq)
    BY <2>2 DEF Numbered
  <2> QED BY <2>1, <2>3, <2>4, BeginKeepsSeqs
<1> QED BY <1>1, <1>2, <1>3, <1>4, <1>5 DEF Request, Project

\* What the numbers say of a handler that is done, or goes on from x at pc.
LEMMA SlotNumbered ==
    ASSUME TypeOK, SeqInv, NEW h \in Handlers, NEW sq
    PROVE  /\ Numbered(Free, sq)
           /\ \A l \in {"childRun", "raced"} : Numbered([handler[h] EXCEPT !.pc = l], sq)
           /\ handler[h].pc \in {"decide", "outcome", "plan", "start"} =>
                 \A st : /\ Numbered([handler[h] EXCEPT !.pc = "write"], sq)
                         /\ Numbered([handler[h] EXCEPT !.pc = "start"], sq)
                         /\ Numbered([handler[h] EXCEPT !.pc = "write", !.seen = st], sq)
<1>1. handler[h] \in HandlerStates /\ Numbered(handler[h], seq)
  BY DEF TypeOK, HandlerStates, SeqInv
<1>2. Numbered(Free, sq)
  BY DEF Numbered, Free
<1>3. ASSUME NEW l \in {"childRun", "raced"}
      PROVE  Numbered([handler[h] EXCEPT !.pc = l], sq)
  <2> DEFINE x == [handler[h] EXCEPT !.pc = l]
  <2>1. x.pc = l
    BY <1>1 DEF HandlerStates
  <2> HIDE DEF x
  <2>2. Numbered(x, sq)
    BY <2>1 DEF Numbered
  <2> QED BY <2>2 DEF x
<1>4. ASSUME handler[h].pc \in {"decide", "outcome", "plan", "start"}, NEW st
      PROVE  /\ Numbered([handler[h] EXCEPT !.pc = "write"], sq)
             /\ Numbered([handler[h] EXCEPT !.pc = "start"], sq)
             /\ Numbered([handler[h] EXCEPT !.pc = "write", !.seen = st], sq)
  <2>1. handler[h].to # "none"
    BY <1>1, <1>4 DEF Numbered
  <2> DEFINE x == [handler[h] EXCEPT !.pc = "write"]
             y == [handler[h] EXCEPT !.pc = "start"]
             z == [handler[h] EXCEPT !.pc = "write", !.seen = st]
  <2>2. /\ x.pc = "write" /\ y.pc = "start" /\ z.pc = "write"
        /\ x.to = handler[h].to /\ y.to = handler[h].to /\ z.to = handler[h].to
    BY <1>1 DEF HandlerStates
  <2> HIDE DEF x, y, z
  <2>3. Numbered(x, sq) /\ Numbered(y, sq) /\ Numbered(z, sq)
    BY <2>1, <2>2 DEF Numbered
  <2> QED BY <2>3 DEF x, y, z
<1> QED BY <1>2, <1>3, <1>4

\* A handler is done, or goes on and adds rows above what it read.
LEMMA MovesKeepSeqs ==
    ASSUME TypeOK, TypeOK', SeqInv, NEW h \in Handlers, handler[h].pc # "free",
           Grows, Dense(seq'), runStatus' # "none", UNCHANGED <<attempts, tops>>,
           \A c \in Children : agent'[c] = "insert" => agent[c] = "insert",
           \/ Done(h)
           \/ \E l \in {"childRun", "raced"} : Goto(h, l)
           \/ /\ handler[h].pc \in {"decide", "outcome", "plan", "start"}
              /\ \/ \E l \in {"write", "start"} : Goto(h, l)
                 \/ \E st : Conclude(h, st)
    PROVE  SeqInv'
<1>1. runStatus # "none"
  BY BusyHandler
<1>2. ASSUME NEW x, Numbered(x, seq'), handler' = [handler EXCEPT ![h] = x] PROVE SeqInv'
  BY <1>1, <1>2, HandlerKeepsSeqs
<1>3. ASSUME Done(h) PROVE SeqInv'
  BY <1>2, <1>3, SlotNumbered DEF Done
<1>4. ASSUME NEW l \in {"childRun", "raced"}, Goto(h, l) PROVE SeqInv'
  BY <1>2, <1>4, SlotNumbered DEF Goto
<1>5. ASSUME handler[h].pc \in {"decide", "outcome", "plan", "start"},
             NEW l \in {"write", "start"}, Goto(h, l)
      PROVE  SeqInv'
  BY <1>2, <1>5, SlotNumbered DEF Goto
<1>6. ASSUME handler[h].pc \in {"decide", "outcome", "plan", "start"},
             NEW st, Conclude(h, st)
      PROVE  SeqInv'
  <2>1. \/ Done(h)
        \/ handler' = [handler EXCEPT ![h] = [handler[h] EXCEPT !.pc = "write", !.seen = st]]
    BY <1>6 DEF Conclude, Done, TypeOK
  <2> QED BY <1>2, <1>3, <1>6, <2>1, SlotNumbered
<1> QED BY <1>3, <1>4, <1>5, <1>6

\* A handler carries on, or dies.
LEMMA HandlersKeepSeqs ==
    ASSUME TypeOK, TypeOK', SeqInv, NEW h \in Handlers, Continue(h) \/ HandlerDies(h)
    PROVE  SeqInv'
<1>1. handler[h].pc # "free" /\ runStatus # "none"
  <2>1. handler[h].pc # "free"
    BY DEF Continue, HandlerDies, At, InsertStep, Decide, WriteStatus, ChildLookup,
       ChildInsert, ChildRaced, ChildRun, FindStep, StepMissing, ApplyFailed, ApplyWaiting,
       ReadTop, InsertPlan, PlanConflict, StartRun
  <2> QED BY <2>1, BusyHandler
<1>2. /\ handler[h] \in HandlerStates /\ Numbered(handler[h], seq) /\ Dense(seq)
  BY DEF TypeOK, HandlerStates, SeqInv
<1>3. ASSUME UNCHANGED rows PROVE Grows /\ Dense(seq') /\ runStatus' # "none"
  BY <1>1, <1>3, NoGrowth DEF rows
<1>4. CASE \/ ChildRaced(h) \/ StepMissing(h) \/ PlanConflict(h) \/ HandlerDies(h)
  BY <1>1, <1>3, <1>4, MovesKeepSeqs
  DEF ChildRaced, StepMissing, PlanConflict, HandlerDies, runtime
<1>5. CASE Decide(h)
  <2>1. \A c \in Children : agent'[c] = "insert" => agent[c] = "insert"
    BY <1>5 DEF Decide, TypeOK, AgentSteps
  <2> QED BY <1>1, <1>3, <1>5, <2>1, MovesKeepSeqs DEF Decide, At
<1>6. CASE WriteStatus(h)
  <2>1. runStatus' # "none" /\ UNCHANGED seq
    BY <1>2, <1>6 DEF WriteStatus, At, Numbered
  <2> QED BY <1>1, <1>6, <2>1, NoGrowth, MovesKeepSeqs DEF WriteStatus, runtime
<1>7. CASE ApplyFailed(h) \/ ApplyWaiting(h)
  <2>1. runStatus' # "none" /\ UNCHANGED seq
    BY <1>1, <1>7 DEF ApplyFailed, ApplyWaiting
  <2> QED BY <1>1, <1>7, <2>1, NoGrowth, MovesKeepSeqs
      DEF ApplyFailed, ApplyWaiting, At, runtime
<1>8. CASE ChildRun(h) \/ StartRun(h)
  <2>1. runStatus' # "none" /\ UNCHANGED seq
    BY <1>1, <1>8 DEF ChildRun, StartRun
  <2> QED BY <1>1, <1>8, <2>1, NoGrowth, MovesKeepSeqs DEF ChildRun, StartRun, At, runtime
<1>9. CASE InsertStep(h) \/ ChildInsert(h)
  <2> DEFINE s == handler[h].step
             n == handler[h].top
  <2>1. s \in Steps /\ n \in Nat /\ Known(n, seq)
    BY <1>2, <1>9 DEF InsertStep, ChildInsert, At, Numbered, HandlerStates
  <2>2. \/ CanInsert(s, n + 1) /\ seq' = [seq EXCEPT ![s] = n + 1]
        \/ UNCHANGED seq
    BY <1>9 DEF InsertStep, ChildInsert, InsertRow
  <2> HIDE DEF s, n
  <2>3. Grows /\ Dense(seq')
    BY <1>2, <2>1, <2>2, InsertGrows, NoGrowth
  <2>4. /\ runStatus' # "none" /\ UNCHANGED runtime
        /\ Done(h) \/ \E l \in {"childRun", "raced"} : Goto(h, l)
    BY <1>1, <1>9 DEF InsertStep, ChildInsert
  <2> QED BY <1>1, <2>3, <2>4, MovesKeepSeqs DEF runtime
<1>10. CASE InsertPlan(h)
  <2> DEFINE plan == handler[h].plan
             n == handler[h].top
  <2>1. plan \in SUBSET PlanSteps /\ n \in Nat /\ Known(n, seq)
    BY <1>2, <1>10 DEF InsertPlan, At, Numbered, HandlerStates
  <2>2. /\ PlanFits(plan, n) /\ handler[h].pc = "plan" /\ UNCHANGED <<runStatus, runtime>>
        /\ Goto(h, "start") \/ Conclude(h, handler[h].seen)
    BY <1>10 DEF InsertPlan, At
  <2>3. PICK f \in Numberings(plan, n) :
          seq' = [t \in Steps |-> IF t \in plan THEN f[t] ELSE seq[t]]
    BY <1>10 DEF InsertPlan
  <2> HIDE DEF plan, n
  <2>4. Grows /\ Dense(seq')
    BY <1>2, <2>1, <2>2, <2>3, PlanGrows
  <2> QED BY <1>1, <2>2, <2>4, MovesKeepSeqs DEF runtime
<1>11. ASSUME NEW x, Numbered(x, seq'), handler' = [handler EXCEPT ![h] = x],
              UNCHANGED <<rows, runtime>>
       PROVE  SeqInv'
  BY <1>1, <1>3, <1>11, HandlerKeepsSeqs DEF runtime
<1>12. CASE ChildLookup(h) \/ ReadTop(h)
  <2>1. CASE Done(h)
    BY <1>1, <1>3, <1>12, <2>1, MovesKeepSeqs DEF ChildLookup, ReadTop, runtime
  <2>2. CASE ~Done(h)
    <3>1. PICK n \in Seqs, l \in {"insert", "plan"} :
            /\ IsTop(n)
            /\ l = "plan" => handler[h].pc = "outcome"
            /\ handler' = [handler EXCEPT ![h] = [handler[h] EXCEPT !.pc = l, !.top = n]]
      <4>1. CASE ChildLookup(h)
        <5>1. PICK n \in Seqs :
                /\ IsTop(n)
                /\ handler' = [handler EXCEPT ![h] =
                                  [handler[h] EXCEPT !.pc = "insert", !.top = n]]
          BY <2>2, <4>1 DEF ChildLookup
        <5> QED BY <5>1
      <4>2. CASE ReadTop(h)
        <5>1. PICK n \in Seqs :
                /\ IsTop(n)
                /\ handler' = [handler EXCEPT ![h] =
                                  [handler[h] EXCEPT !.pc = "plan", !.top = n]]
          BY <4>2 DEF ReadTop
        <5>2. handler[h].pc = "outcome"
          BY <4>2 DEF ReadTop, At
        <5> QED BY <5>1, <5>2
      <4> QED BY <1>12, <4>1, <4>2
    <3> DEFINE x == [handler[h] EXCEPT !.pc = l, !.top = n]
    <3>2. x.pc = l /\ x.top = n /\ x.to = handler[h].to
      BY <1>2 DEF HandlerStates
    <3>3. UNCHANGED <<rows, runtime>>
      BY <1>12 DEF ChildLookup, ReadTop
    <3> HIDE DEF x
    <3>4. Known(n, seq')
      BY <3>1, <3>3 DEF IsTop, Known, Present, rows
    <3>5. Numbered(x, seq')
      BY <1>2, <3>1, <3>2, <3>4 DEF Numbered
    <3> QED BY <1>11, <3>1, <3>3, <3>5 DEF x
  <2> QED BY <2>1, <2>2
<1>13. CASE FindStep(h)
  <2>1. PICK t \in Targets(handler[h].step) :
          handler' = [handler EXCEPT ![h] = [handler[h] EXCEPT !.pc = "outcome", !.step = t]]
    BY <1>13 DEF FindStep
  <2> DEFINE x == [handler[h] EXCEPT !.pc = "outcome", !.step = t]
  <2>2. x.pc = "outcome" /\ x.to = handler[h].to
    BY <1>2 DEF HandlerStates
  <2> HIDE DEF x
  <2>3. Numbered(x, seq')
    BY <1>2, <1>13, <2>2 DEF Numbered, FindStep, At
  <2> QED BY <1>11, <1>13, <2>1, <2>3 DEF x, FindStep
<1> QED BY <1>4, <1>5, <1>6, <1>7, <1>8, <1>9, <1>10, <1>12, <1>13 DEF Continue

\* The run is created: its root step is the first row.
LEMMA CreateKeepsSeqs ==
    ASSUME TypeOK, SeqInv, CreateRun PROVE SeqInv'
<1>1. Untouched /\ Root \in Steps
  BY DEF CreateRun, SeqInv, Steps, AgentSteps
<1>2. /\ runStatus' = "queued" /\ seq' = [seq EXCEPT ![Root] = 1]
      /\ UNCHANGED <<tops, attempts, handler>>
      /\ \A c \in Children : agent'[c] = "none"
  BY <1>1 DEF CreateRun, InsertRow, Untouched, TypeOK, AgentSteps
<1>3. seq'[Root] = 1 /\ \A s \in Steps \ {Root} : seq'[s] = 0
  BY <1>1, <1>2 DEF TypeOK, Untouched
<1>4. Dense(seq')
  BY <1>1, <1>3 DEF Dense
<1>5. \A c \in Children : attempts[c] = 0
  BY <1>1 DEF SeqInv, Outrun, Untouched, TypeOK
<1>6. \A c \in Children : Outrun(c)'
  BY <1>2, <1>5 DEF Outrun
<1>7. \A h \in Handlers : Numbered(handler'[h], seq')
  BY <1>1, <1>2 DEF Untouched, Numbered
<1>8. runStatus' # "none" /\ seq'[Root] > 0
  BY <1>2, <1>3
<1> QED BY <1>4, <1>6, <1>7, <1>8 DEF SeqInv

\* The runtime of child c goes on; the others have more rows to show.
LEMMA ChildKeepsSeqs ==
    ASSUME TypeOK, TypeOK', SeqInv, runStatus # "none", Grows, Dense(seq'),
           UNCHANGED <<runStatus, handler>>, NEW c \in Children, Outrun(c)',
           \A d \in Children \ {c} : /\ agent'[d] = agent[d] /\ tops'[d] = tops[d]
                                    /\ attempts'[d] = attempts[d]
    PROVE  SeqInv'
<1>1. seq'[Root] > 0
  BY DEF SeqInv, Grows, TypeOK, Steps, AgentSteps
<1>2. \A d \in Children : Outrun(d)'
  BY OutrunStays DEF SeqInv
<1>3. ASSUME NEW h \in Handlers PROVE Numbered(handler'[h], seq')
  <2>1. Numbered(handler[h], seq) /\ handler[h].top \in Nat
    BY DEF SeqInv, TypeOK
  <2>2. Known(handler[h].top, seq) => Known(handler[h].top, seq')
    BY <2>1, KnownStays
  <2> QED BY <2>1, <2>2 DEF Numbered
<1> QED BY <1>1, <1>2, <1>3 DEF SeqInv

\* What the runtimes do to the rows of children.
LEMMA AgentsKeepSeqs ==
    ASSUME TypeOK, TypeOK', SeqInv, DispatchAgentTask \/ DispatchRefused \/ AgentRuntime
    PROVE  SeqInv'
<1>1. ASSUME NEW s \in AgentSteps, agent[s] # "none"
      PROVE  runStatus # "none" /\ seq[Root] > 0
  BY <1>1 DEF SeqInv, Untouched
<1>2. ASSUME UNCHANGED <<rows, handler, tops, attempts>>, runStatus # "none",
             \A c \in Children : agent'[c] = "insert" => agent[c] = "insert"
      PROVE  SeqInv'
  <2>1. Grows /\ Dense(seq')
    BY <1>2, NoGrowth DEF rows
  <2>2. \A c \in Children : Outrun(c)'
    BY <1>2, <2>1, OutrunStays DEF SeqInv
  <2> QED BY <1>2, <2>1, <2>2 DEF SeqInv, rows
<1>3. CASE DispatchAgentTask \/ DispatchRefused
  BY <1>1, <1>2, <1>3 DEF DispatchAgentTask, DispatchRefused, TypeOK, AgentSteps
<1>4. ASSUME NEW s \in AgentSteps, NEW o \in Outcomes,
             ReportOutcome(s, o) \/ ReportResumed(s, o)
      PROVE  SeqInv'
  BY <1>1, <1>2, <1>4 DEF ReportOutcome, ReportResumed, TypeOK, AgentSteps
<1>5. ASSUME NEW c \in Children, Delegate(c) \/ DelegationFails(c) PROVE SeqInv'
  BY <1>1, <1>2, <1>5 DEF Delegate, DelegationFails, TypeOK, AgentSteps
<1>6. ASSUME NEW c \in Children, EnsureLookup(c) \/ EnsureInsert(c) \/ EnsureConflict(c)
      PROVE  /\ c \in Steps /\ c \in AgentSteps /\ runStatus # "none" /\ seq[Root] > 0
             /\ Root \in Steps /\ attempts[c] \in Nat /\ tops[c] \in Nat
             /\ \A s \in Steps : seq[s] \in Nat
             /\ UNCHANGED <<runStatus, handler>>
             /\ \A d \in Children \ {c} : /\ agent'[d] = agent[d] /\ tops'[d] = tops[d]
                                          /\ attempts'[d] = attempts[d]
  <2>1. c \in Steps /\ c \in AgentSteps /\ Root \in Steps /\ agent[c] # "none"
    BY <1>6 DEF Steps, AgentSteps, EnsureLookup, EnsureInsert, EnsureConflict
  <2>2. runStatus # "none" /\ seq[Root] > 0
    BY <1>1, <2>1
  <2>3. attempts[c] \in Nat /\ tops[c] \in Nat /\ \A s \in Steps : seq[s] \in Nat
    BY DEF TypeOK
  <2>4. \A d \in Children \ {c} : /\ agent'[d] = agent[d] /\ tops'[d] = tops[d]
                                 /\ attempts'[d] = attempts[d]
    BY <1>6 DEF EnsureLookup, EnsureInsert, EnsureConflict, TypeOK, AgentSteps
  <2>5. UNCHANGED <<runStatus, handler>>
    BY <1>6 DEF EnsureLookup, EnsureInsert, EnsureConflict, rows
  <2> QED BY <2>1, <2>2, <2>3, <2>4, <2>5
<1>7. ASSUME NEW c \in Children, EnsureLookup(c) PROVE SeqInv'
  <2>1. Grows /\ Dense(seq') /\ seq' = seq /\ attempts' = attempts
    BY <1>7, NoGrowth DEF EnsureLookup, rows
  <2>2. Outrun(c)'
    <3>1. attempts[c] = 0 \/ \E s \in Steps : seq[s] > attempts[c]
      BY DEF SeqInv, Outrun
    <3>2. ASSUME agent'[c] = "insert"
          PROVE  /\ attempts[c] < tops'[c] /\ Known(tops'[c], seq) /\ seq[c] = 0
      <4>1. seq[c] = 0 /\ \E n \in Seqs : IsTop(n) /\ tops'[c] = n
        BY <1>6, <1>7, <3>2 DEF EnsureLookup, TypeOK
      <4>2. PICK n \in Nat : IsTop(n) /\ tops'[c] = n
        BY <4>1, SeqsAreNumbers
      <4>3. Known(n, seq) /\ \A s \in Steps : seq[s] <= n
        BY <1>6, <1>7, <4>2 DEF IsTop, Known, Present
      <4>4. attempts[c] < n
        BY <1>6, <1>7, <3>1, <4>3
      <4> QED BY <4>1, <4>2, <4>3, <4>4
    <3> QED BY <2>1, <3>1, <3>2 DEF Outrun
  <2> QED BY <1>6, <1>7, <2>1, <2>2, ChildKeepsSeqs
<1>8. ASSUME NEW c \in Children, EnsureInsert(c) PROVE SeqInv'
  <2>1. /\ Known(tops[c], seq) /\ Dense(seq)
        /\ attempts[c] = 0 \/ \E s \in Steps : seq[s] > attempts[c]
    BY <1>8 DEF EnsureInsert, SeqInv, Outrun
  <2>2. CanInsert(c, tops[c] + 1) /\ seq' = [seq EXCEPT ![c] = tops[c] + 1]
    BY <1>8 DEF EnsureInsert, InsertRow
  <2>3. Grows /\ Dense(seq')
    BY <1>6, <1>8, <2>1, <2>2, InsertGrows
  <2>4. Outrun(c)'
    BY <1>6, <1>8, <2>3, OutrunStays DEF EnsureInsert, TypeOK, SeqInv
  <2> QED BY <1>6, <1>8, <2>3, <2>4, ChildKeepsSeqs
<1>9. ASSUME NEW c \in Children, EnsureConflict(c) PROVE SeqInv'
  <2>1. Grows /\ Dense(seq') /\ seq' = seq
    BY <1>9, NoGrowth DEF EnsureConflict, rows
  <2>2. /\ attempts[c] < tops[c]
        /\ seq[c] = 0 \/ seq[c] > tops[c]
        /\ attempts'[c] = attempts[c] + 1 /\ agent'[c] # "insert"
        /\ ~CanInsert(c, tops[c] + 1)
    BY <1>6, <1>9 DEF EnsureConflict, SeqInv, Outrun, TypeOK
  <2>3. \E s \in Steps : seq[s] > tops[c]
    BY <1>6, <1>9, <2>2 DEF CanInsert, Present
  <2>4. \E s \in Steps : seq'[s] > attempts'[c]
    BY <1>6, <1>9, <2>1, <2>2, <2>3
  <2>5. Outrun(c)'
    BY <2>2, <2>4 DEF Outrun
  <2> QED BY <1>6, <1>9, <2>1, <2>5, ChildKeepsSeqs
<1> QED BY <1>3, <1>4, <1>5, <1>7, <1>8, <1>9 DEF AgentRuntime

\* Every step keeps the numbers of the rows.
LEMMA SeqNext == TypeOK /\ TypeOK' /\ SeqInv /\ [Next]_vars => SeqInv'
<1> SUFFICES ASSUME TypeOK, TypeOK', SeqInv, [Next]_vars PROVE SeqInv'
  OBVIOUS
<1>1. CASE UNCHANGED vars
  BY <1>1 DEF vars, rows, bus, runtime, SeqInv, Untouched, Outrun
<1>2. CASE CreateRun
  BY <1>2, CreateKeepsSeqs
<1>3. CASE DispatchAgentTask \/ DispatchRefused \/ AgentRuntime
  BY <1>3, AgentsKeepSeqs
<1>4. ASSUME NEW h \in Handlers, Continue(h) \/ Project(h) \/ Request(h) \/ HandlerDies(h)
      PROVE  SeqInv'
  BY <1>4, StartsKeepSeqs, HandlersKeepSeqs
<1> QED BY <1>1, <1>2, <1>3, <1>4 DEF Next

\* However many handlers, plans and agents insert steps of the run at once, a
\* retry of ensureChildRunStep is lost only to a row inserted meanwhile: the
\* rows are numbered without gaps, and each retry reads a higher number.
THEOREM RetriesPaid == Spec => []RetriesArePaidFor
<1>1. Init => SeqInv
  <2> SUFFICES ASSUME Init PROVE SeqInv
    OBVIOUS
  <2>1. /\ \A s \in Steps : seq[s] = 0
        /\ \A c \in Children : attempts[c] = 0 /\ agent[c] = "none"
        /\ \A h \in Handlers : handler[h].pc = "free"
    BY DEF Init, Free, AgentSteps
  <2>2. Dense(seq)
    BY <2>1 DEF Dense
  <2>3. Untouched /\ runStatus = "none"
    BY <2>1 DEF Init, Untouched
  <2>4. \A h \in Handlers : Numbered(handler[h], seq)
    BY <2>1 DEF Numbered
  <2>5. \A c \in Children : Outrun(c)
    BY <2>1 DEF Outrun
  <2> QED BY <2>2, <2>3, <2>4, <2>5 DEF SeqInv
<1>2. TypeOK /\ SeqInv => RetriesArePaidFor
  <2> SUFFICES ASSUME TypeOK, SeqInv, NEW c \in Children, attempts[c] # 0
               PROVE  attempts[c] < Cardinality(Present)
    BY DEF RetriesArePaidFor
  <2>1. PICK s \in Steps : seq[s] > attempts[c]
    BY DEF SeqInv, Outrun
  <2>2. Cardinality(Present) \in Nat /\ seq[s] <= Cardinality(Present)
    BY RowsCount DEF SeqInv
  <2> QED BY <2>1, <2>2 DEF TypeOK
<1> QED
  BY <1>1, <1>2, SeqNext, TypesHold, PTL DEF Spec

===========================================================================
