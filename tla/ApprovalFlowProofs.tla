------------------------ MODULE ApprovalFlowProofs ------------------------
(***************************************************************************)
(* Human approval is safe for any number of approvals, requests, workers,  *)
(* deliveries and faults, and ApprovalFlow implements ApprovedEffect.      *)
(*                                                                         *)
(* The argument: a request wins only while the row is pending, so the row  *)
(* has at most one winner, who alone publishes; the row leaves "approved"  *)
(* for "executed" with the one worker that goes on to call the tool, so    *)
(* every effect, and every call that may still have one, can be traced to  *)
(* that worker.                                                            *)
(***************************************************************************)
EXTENDS ApprovalFlow, TLAPS

\* Between opening the request and answering it.
Serving(q) == req[q].pc \in {"expire", "decide", "recheck", "writeRun", "publish"}

InHand ==
    /\ \A q \in Requests : Serving(q) => req[q].id \in Approvals
    /\ \A w \in Workers :
         /\ worker[w].pc = "idle" => Job(w) = NoApproval
         /\ worker[w].pc # "idle" => Job(w) \in Approvals

Typed == TypeOK /\ InHand

\* The winner of an approval that still has to publish the resume message.
Publishing(q) ==
    \/ req[q].pc = "publish"
    \/ req[q].pc = "writeRun" /\ req[q].kind = "approve"

Decided ==
    /\ DecidedOnce
    /\ \A a \in Approvals :
         /\ approval[a] \in {"none", "pending"} => winners[a] = {}
         /\ resumes[a] <= 1
         /\ resumes[a] > 0 => winners[a] # {}
    /\ \A q \in Requests : Publishing(q) =>
         /\ q \in winners[req[q].id]
         /\ resumes[req[q].id] = 0

\* The worker holds the claim and the tool has not been given up on.
Executing(w) == worker[w].pc \in {"token", "calling"}

Traced ==
    /\ EffectAtMostOnce
    /\ EffectNeedsApproval
    /\ CompletedMeansEffect
    /\ \A w \in Workers :
         /\ Executing(w) =>
              /\ effects[Job(w)] = 0 /\ Job(w) \notin late
              /\ \A v \in Workers : Executing(v) /\ Job(v) = Job(w) => v = w
         /\ worker[w].pc = "reportDone" => effects[Job(w)] = 1
    /\ \A a \in late : effects[a] = 0

USE ApprovalAssumption

---------------------------------------------------------------------------
(* Types                                                                   *)

\* The database starts empty and nobody holds an approval.
LEMMA TypedInit == Init => Typed
BY DEF Init, Typed, TypeOK, InHand, Serving, Job, NoRequest, RunStatus,
       ApprovalStatus, Kinds

\* The steps of the approve and reject handlers keep types and hands in order.
LEMMA TypedHandler ==
    ASSUME Typed, NEW q \in Requests, Handler(q) PROVE Typed'
<1> USE DEF Typed, TypeOK, InHand, Serving, Job, RunStatus, ApprovalStatus, Kinds,
            apiVars, runtimeVars, Goto, Answer, NoRequest
<1>1. CASE SweepExpired(q)
  BY <1>1, SMTT(30) DEF SweepExpired, ExpireDue
<1>2. CASE Approve(q)
  BY <1>2 DEF Approve, Win, SetApproval
<1>3. CASE ApproveTooLate(q)
  BY <1>3 DEF ApproveTooLate
<1>4. CASE Recheck(q)
  BY <1>4 DEF Recheck
<1>5. CASE Reject(q)
  BY <1>5 DEF Reject, Win, SetApproval
<1>6. CASE RejectTooLate(q)
  BY <1>6 DEF RejectTooLate
<1>7. CASE WriteRun(q)
  <2>1. runStatus' \in RunStatus
    BY <1>7 DEF WriteRun
  <2>2. CASE req[q].kind = "approve"
    <3>1. /\ req[q].pc = "writeRun"
          /\ Goto(q, "publish")
          /\ UNCHANGED <<approval, due, winners, runtimeVars, faults>>
      BY <1>7, <2>2 DEF WriteRun
    <3>2. TypeOK'
      BY <2>1, <3>1
    <3>3. InHand'
      BY <3>1
    <3> QED
      BY <3>2, <3>3
  <2>3. CASE req[q].kind # "approve"
    <3>1. /\ Answer(q, "ok")
          /\ UNCHANGED <<approval, due, winners, runtimeVars, faults>>
      BY <1>7, <2>3 DEF WriteRun
    <3> QED
      BY <2>1, <3>1
  <2> QED
    BY <2>2, <2>3
<1>8. CASE PublishResume(q)
  BY <1>8 DEF PublishResume
<1> QED
  BY <1>1, <1>2, <1>3, <1>4, <1>5, <1>6, <1>7, <1>8 DEF Handler

\* So do the steps of the resume handler, its failures included.
LEMMA TypedResume ==
    ASSUME Typed, NEW w \in Workers,
           Resume(w) \/ ReportDoneFails(w) \/ ClaimFails(w) \/ WorkerDies(w)
    PROVE  Typed'
<1> USE DEF Typed, TypeOK, InHand, Serving, Job, RunStatus, ApprovalStatus, Kinds,
            apiVars, Step, Rest, Idle, TakeEffect
<1>1. CASE Refuse(w)
  BY <1>1 DEF Refuse
<1>2. CASE ClaimExecution(w)
  BY <1>2 DEF ClaimExecution, SetApproval
<1>3. CASE AlreadyConsumed(w)
  BY <1>3 DEF AlreadyConsumed
<1>4. CASE NoToken(w) \/ CallTool(w)
  BY <1>4 DEF NoToken, CallTool
<1>5. CASE ToolReturns(w)
  BY <1>5 DEF ToolReturns
<1>6. CASE ToolThrows(w)
  BY <1>6, SMTT(30) DEF ToolThrows
<1>7. CASE ToolTimesOut(w)
  BY <1>7 DEF ToolTimesOut
<1>8. CASE ReportDone(w) \/ ReportFailed(w)
  <2>1. PICK o \in {"completed", "failed"} :
          worker[w].pc # "idle" /\ Report(w, o)
    BY <1>8 DEF ReportDone, ReportFailed
  <2>2. <<o, Job(w)>> \in {"waiting_approval", "completed", "failed"} \X Approvals
    BY <2>1
  <2>3. events' \in SUBSET ({"waiting_approval", "completed", "failed"} \X Approvals)
    BY <2>1, <2>2 DEF Report
  <2> QED
    BY <2>1, <2>3 DEF Report
<1>9. CASE ReportDoneFails(w)
  BY <1>9 DEF ReportDoneFails, Fault
<1>10. CASE ClaimFails(w)
  BY <1>10 DEF ClaimFails, SetApproval, Fault
<1>11. CASE WorkerDies(w)
  BY <1>11 DEF WorkerDies, Fault
<1> QED
  BY <1>1, <1>2, <1>3, <1>4, <1>5, <1>6, <1>7, <1>8, <1>9, <1>10, <1>11 DEF Resume

\* So does every step.
LEMMA TypedNext == Typed /\ [Next]_vars => Typed'
<1> SUFFICES ASSUME Typed, [Next]_vars PROVE Typed'
  OBVIOUS
<1> USE DEF Typed, TypeOK, InHand, Serving, Job, RunStatus, ApprovalStatus, Kinds,
            apiVars, runtimeVars
<1>1. ASSUME NEW a \in Approvals,
             Gate(a) \/ AnnounceWaiting(a) \/ AgentDies(a) \/ BecomesDue(a)
      PROVE  Typed'
  BY <1>1 DEF Gate, SetApproval, AnnounceWaiting, AgentDies, BecomesDue, Fault
<1>2. ASSUME NEW a \in Approvals, LateEnd(a) PROVE Typed'
  BY <1>2 DEF LateEnd, TakeEffect
<1>3. ASSUME NEW s \in RunStatus, RunWrittenElsewhere(s) PROVE Typed'
  BY <1>3 DEF RunWrittenElsewhere
<1>4. CASE List
  BY <1>4 DEF List, ExpireDue
<1>5. ASSUME NEW q \in Requests, RequestDies(q) PROVE Typed'
  BY <1>5 DEF RequestDies, Fault, Answer, NoRequest
<1>6. ASSUME NEW q \in Requests, NEW kind \in Kinds, NEW a \in Approvals,
             Open(q, kind, a)
      PROVE  Typed'
  BY <1>6 DEF Open
<1>7. ASSUME NEW w \in Workers, NEW a \in Approvals, Deliver(w, a) PROVE Typed'
  BY <1>7 DEF Deliver
<1>8. CASE UNCHANGED vars
  BY <1>8 DEF vars
<1> QED
  BY <1>1, <1>2, <1>3, <1>4, <1>5, <1>6, <1>7, <1>8, TypedHandler, TypedResume DEF Next

---------------------------------------------------------------------------
(* One decision, one resume message                                        *)

\* No row has a winner before there are rows.
LEMMA DecidedInit == Init => Decided
BY DEF Init, Decided, DecidedOnce, Publishing, NoRequest

\* Steps that decide nothing, publish no resume message and lead no request
\* to publishing cannot disturb Decided.
LEMMA NothingDecided ==
    ASSUME Decided,
           UNCHANGED <<winners, resumes>>,
           \A a \in Approvals :
              approval'[a] \in {"none", "pending"} => approval[a] \in {"none", "pending"},
           \A q \in Requests :
              Publishing(q)' => Publishing(q) /\ req'[q].id = req[q].id
    PROVE  Decided'
BY DEF Decided, DecidedOnce

\* A handler wins a pending row only, which has no winner yet, and only the
\* winner publishes.
LEMMA DecidedHandler ==
    ASSUME Typed, Typed', Decided, NEW q \in Requests, Handler(q) PROVE Decided'
<1> USE DEF Typed, TypeOK, InHand, Serving, Goto, Answer, NoRequest, runtimeVars
<1>1. ASSUME SweepExpired(q) \/ ApproveTooLate(q) \/ Recheck(q) \/ RejectTooLate(q)
      PROVE  Decided'
  <2>1. UNCHANGED <<winners, resumes>>
    BY <1>1 DEF SweepExpired, ApproveTooLate, Recheck, RejectTooLate
  <2>2. \A a \in Approvals :
           approval'[a] \in {"none", "pending"} => approval[a] \in {"none", "pending"}
    BY <1>1 DEF SweepExpired, ApproveTooLate, Recheck, RejectTooLate, ExpireDue
  <2>3. \A r \in Requests : Publishing(r)' => Publishing(r) /\ req'[r].id = req[r].id
    BY <1>1 DEF SweepExpired, ApproveTooLate, Recheck, RejectTooLate, Publishing
  <2> QED
    BY <2>1, <2>2, <2>3, NothingDecided
<1>2. ASSUME NEW s \in {"approved", "rejected"}, NEW l \in {"writeRun", "publish", "ok"},
             req[q].pc = "decide", approval[req[q].id] = "pending",
             Win(q, s, l), UNCHANGED resumes
      PROVE  Decided'
  <2> DEFINE a == req[q].id
  <2>1. a \in Approvals /\ winners[a] = {} /\ resumes[a] = 0
    BY <1>2 DEF Decided
  <2>2. /\ approval' = [approval EXCEPT ![a] = s]
        /\ winners' = [winners EXCEPT ![a] = @ \cup {q}]
        /\ req' = [req EXCEPT ![q].pc = l]
    BY <1>2 DEF Win, SetApproval
  <2>3. \A b \in Approvals : winners'[b] = IF b = a THEN {q} ELSE winners[b]
    BY <2>1, <2>2
  <2>4. DecidedOnce'
    BY <2>3 DEF Decided, DecidedOnce
  <2>5. \A b \in Approvals :
          /\ approval'[b] \in {"none", "pending"} => winners'[b] = {}
          /\ resumes'[b] <= 1
          /\ resumes'[b] > 0 => winners'[b] # {}
    BY <1>2, <2>1, <2>2, <2>3 DEF Decided
  <2>6. \A r \in Requests : r # q => req'[r] = req[r]
    BY <2>2
  <2>7. \A r \in Requests : Publishing(r)' =>
          /\ r \in winners'[req'[r].id]
          /\ resumes'[req'[r].id] = 0
    <3>1. req'[q].id = a
      BY <2>2
    <3>2. \A r \in Requests \ {q} : Publishing(r) => req[r].id \in Approvals /\ req[r].id # a
      BY <2>1 DEF Decided, Publishing
    <3>3. \A r \in Requests \ {q} : Publishing(r)' => Publishing(r)
      BY <2>6 DEF Publishing
    <3> QED
      BY <1>2, <2>1, <2>3, <2>6, <3>1, <3>2, <3>3 DEF Decided
  <2> QED
    BY <2>4, <2>5, <2>7 DEF Decided
<1>3. CASE Approve(q)
  <2>1. \E l \in {"writeRun", "publish"} : Win(q, "approved", l)
    BY <1>3 DEF Approve
  <2> QED
    BY <1>3, <2>1, <1>2 DEF Approve, CanApprove
<1>4. CASE Reject(q)
  <2>1. \E l \in {"writeRun", "ok"} : Win(q, "rejected", l)
    BY <1>4 DEF Reject
  <2> QED
    BY <1>4, <2>1, <1>2 DEF Reject, CanReject
<1>5. CASE WriteRun(q)
  <2>1. CASE req[q].kind = "approve"
    BY <1>5, <2>1, NothingDecided DEF WriteRun, Publishing
  <2>2. CASE req[q].kind # "approve"
    <3>1. Answer(q, "ok") /\ UNCHANGED <<approval, winners, resumes>>
      BY <1>5, <2>2 DEF WriteRun
    <3> QED
      BY <3>1, NothingDecided DEF Publishing
  <2> QED
    BY <2>1, <2>2
<1>6. CASE PublishResume(q)
  <2> DEFINE a == req[q].id
  <2>1. a \in Approvals /\ q \in winners[a] /\ resumes[a] = 0
    BY <1>6 DEF PublishResume, Decided, Publishing
  <2>2. /\ resumes' = [resumes EXCEPT ![a] = 1]
        /\ req' = [req EXCEPT ![q] = [NoRequest EXCEPT !.pc = "ok"]]
        /\ UNCHANGED <<approval, winners>>
    BY <1>6, <2>1 DEF PublishResume
  <2>3. \A r \in Requests : Publishing(r)' =>
           /\ r # q /\ Publishing(r) /\ req'[r].id = req[r].id
           /\ req[r].id \in Approvals /\ req[r].id # a
    <3>1. \A r \in Requests : Publishing(r)' => r # q /\ req'[r] = req[r]
      BY <2>2 DEF Publishing
    <3>2. \A r \in Requests : Publishing(r) => req[r].id \in Approvals /\ r \in winners[req[r].id]
      BY DEF Decided, Publishing
    <3> QED
      BY <2>1, <3>1, <3>2 DEF Decided, DecidedOnce, Publishing
  <2>4. \A b \in Approvals : resumes'[b] = IF b = a THEN 1 ELSE resumes[b]
    BY <2>1, <2>2
  <2>5. \A b \in Approvals :
          /\ approval'[b] \in {"none", "pending"} => winners'[b] = {}
          /\ resumes'[b] <= 1
          /\ resumes'[b] > 0 => winners'[b] # {}
    BY <2>1, <2>2, <2>4 DEF Decided
  <2>6. DecidedOnce'
    BY <2>2 DEF Decided, DecidedOnce
  <2>7. \A r \in Requests : Publishing(r)' =>
          /\ r \in winners'[req'[r].id]
          /\ resumes'[req'[r].id] = 0
    BY <2>2, <2>3, <2>4 DEF Decided
  <2> QED
    BY <2>5, <2>6, <2>7 DEF Decided
<1> QED
  BY <1>1, <1>3, <1>4, <1>5, <1>6 DEF Handler

\* No other step makes a winner or publishes a resume message.
LEMMA DecidedNext == Typed /\ Typed' /\ Decided /\ [Next]_vars => Decided'
<1> SUFFICES ASSUME Typed, Typed', Decided, [Next]_vars PROVE Decided'
  OBVIOUS
<1> USE DEF Typed, TypeOK, apiVars, runtimeVars
<1>1. ASSUME NEW a \in Approvals,
             \/ Gate(a) \/ AnnounceWaiting(a) \/ AgentDies(a) \/ BecomesDue(a)
             \/ LateEnd(a)
      PROVE  Decided'
  BY <1>1, NothingDecided
  DEF Gate, SetApproval, AnnounceWaiting, AgentDies, BecomesDue, LateEnd, Publishing
<1>2. ASSUME NEW s \in RunStatus, RunWrittenElsewhere(s) PROVE Decided'
  BY <1>2, NothingDecided DEF RunWrittenElsewhere, Publishing
<1>3. CASE List
  BY <1>3, NothingDecided DEF List, ExpireDue, Publishing
<1>4. ASSUME NEW q \in Requests, RequestDies(q) PROVE Decided'
  BY <1>4, NothingDecided DEF RequestDies, Answer, NoRequest, Publishing
<1>5. ASSUME NEW q \in Requests, NEW kind \in Kinds, NEW a \in Approvals,
             Open(q, kind, a)
      PROVE  Decided'
  BY <1>5, NothingDecided DEF Open, Publishing
<1>6. ASSUME NEW w \in Workers,
             \/ Resume(w) \/ ReportDoneFails(w) \/ ClaimFails(w) \/ WorkerDies(w)
             \/ \E a \in Approvals : Deliver(w, a)
      PROVE  Decided'
  <2>1. UNCHANGED <<winners, resumes, req>>
    BY <1>6
    DEF Resume, Refuse, ClaimExecution, AlreadyConsumed, NoToken, CallTool, ToolReturns,
        ToolThrows, ToolTimesOut, ReportDone, ReportFailed, Report, ReportDoneFails,
        ClaimFails, WorkerDies, Deliver
  <2>2. \A a \in Approvals :
           approval'[a] \in {"none", "pending"} => approval[a] \in {"none", "pending"}
    BY <1>6
    DEF Resume, Refuse, ClaimExecution, AlreadyConsumed, NoToken, CallTool, ToolReturns,
        ToolThrows, ToolTimesOut, ReportDone, ReportFailed, Report, ReportDoneFails,
        ClaimFails, WorkerDies, Deliver, SetApproval
  <2> QED
    BY <2>1, <2>2, NothingDecided DEF Publishing
<1>7. CASE UNCHANGED vars
  BY <1>7, NothingDecided DEF vars, Publishing
<1> QED
  BY <1>1, <1>2, <1>3, <1>4, <1>5, <1>6, <1>7, DecidedHandler DEF Next

---------------------------------------------------------------------------
(* Every effect is traced to one claim                                     *)

\* Nothing has had an effect yet.
LEMMA TracedInit == Init => Traced
BY DEF Init, Traced, EffectAtMostOnce, EffectNeedsApproval, CompletedMeansEffect,
       Executing, Job

\* Steps without an effect that leave executed approvals executed and take no
\* worker to the tool or to reporting success cannot disturb Traced.
LEMMA NoEffect ==
    ASSUME Traced,
           UNCHANGED <<effects, late>>,
           \A a \in Approvals :
              /\ approval[a] = "executed" => approval'[a] = "executed"
              /\ <<"completed", a>> \in events' => <<"completed", a>> \in events,
           \A w \in Workers :
              /\ Executing(w)' => Executing(w) /\ Job(w)' = Job(w)
              /\ worker'[w].pc = "reportDone" =>
                    worker[w].pc = "reportDone" /\ Job(w)' = Job(w)
    PROVE  Traced'
<1>1. EffectAtMostOnce' /\ CompletedMeansEffect'
  BY DEF Traced, EffectAtMostOnce, CompletedMeansEffect
<1>2. EffectNeedsApproval'
  BY DEF Traced, EffectNeedsApproval, Executing
<1>3. \A w \in Workers :
         /\ Executing(w)' =>
              /\ effects'[Job(w)'] = 0 /\ Job(w)' \notin late'
              /\ \A v \in Workers : Executing(v)' /\ Job(v)' = Job(w)' => v = w
         /\ worker'[w].pc = "reportDone" => effects'[Job(w)'] = 1
  BY DEF Traced
<1> QED
  BY <1>1, <1>2, <1>3 DEF Traced

\* The claim makes one worker the executor of the approval; whatever happens to
\* its call accounts for at most one effect.
LEMMA TracedResume ==
    ASSUME Typed, Typed', Traced, NEW w \in Workers,
           Resume(w) \/ ReportDoneFails(w) \/ ClaimFails(w) \/ WorkerDies(w)
    PROVE  Traced'
<1> USE DEF Typed, TypeOK, InHand, Job, Step, Rest, Idle
<1>1. CASE Refuse(w) \/ AlreadyConsumed(w) \/ NoToken(w) \/ CallTool(w) \/ ReportDoneFails(w)
  <2>1. UNCHANGED <<approval, events, effects, late>>
    BY <1>1 DEF Refuse, AlreadyConsumed, NoToken, CallTool, ReportDoneFails
  <2>2. \A v \in Workers :
          /\ Executing(v)' => Executing(v) /\ Job(v)' = Job(v)
          /\ worker'[v].pc = "reportDone" =>
                worker[v].pc = "reportDone" /\ Job(v)' = Job(v)
    <3>1. CASE Refuse(w)
      BY <3>1 DEF Refuse, Executing
    <3>2. CASE AlreadyConsumed(w)
      BY <3>2 DEF AlreadyConsumed, Executing
    <3>3. CASE NoToken(w)
      BY <3>3 DEF NoToken, Executing
    <3>4. CASE CallTool(w)
      BY <3>4 DEF CallTool, Executing
    <3>5. CASE ReportDoneFails(w)
      BY <3>5 DEF ReportDoneFails, Executing
    <3> QED
      BY <1>1, <3>1, <3>2, <3>3, <3>4, <3>5
  <2> QED
    BY <2>1, <2>2, NoEffect
<1>2. CASE ReportFailed(w)
  BY <1>2, NoEffect DEF ReportFailed, Report, Executing
<1>3. CASE ClaimFails(w)
  <2>1. /\ approval' = [approval EXCEPT ![Job(w)] = "executed"]
        /\ worker' = [worker EXCEPT ![w].pc = "reportFailed"]
        /\ UNCHANGED <<effects, late, events>>
    BY <1>3 DEF ClaimFails, SetApproval
  <2>2. \A a \in Approvals : approval[a] = "executed" => approval'[a] = "executed"
    BY <2>1
  <2>3. \A v \in Workers : /\ Executing(v)' => Executing(v) /\ Job(v)' = Job(v)
                           /\ worker'[v].pc = "reportDone" =>
                                 worker[v].pc = "reportDone" /\ Job(v)' = Job(v)
    BY <2>1 DEF Executing
  <2> QED
    BY <2>1, <2>2, <2>3, NoEffect
<1>4. CASE ClaimExecution(w)
  <2> DEFINE a == Job(w)
  <2>1. /\ a \in Approvals /\ approval[a] = "approved"
        /\ approval' = [approval EXCEPT ![a] = "executed"]
        /\ worker' = [worker EXCEPT ![w].pc = "token"]
        /\ UNCHANGED <<effects, late, events>>
    BY <1>4 DEF ClaimExecution, CanClaim, SetApproval
  <2>2. /\ effects[a] = 0 /\ a \notin late
        /\ \A v \in Workers : Executing(v) => Job(v) # a
    BY <2>1 DEF Traced, EffectNeedsApproval, Executing
  <2>3. \A v \in Workers : v # w => worker'[v] = worker[v]
    BY <2>1
  <2>4. worker'[w].pc = "token" /\ worker'[w].id = a
    BY <2>1
  <2>5. EffectAtMostOnce' /\ CompletedMeansEffect'
    BY <2>1 DEF Traced, EffectAtMostOnce, CompletedMeansEffect
  <2>6. EffectNeedsApproval'
    BY <2>1, <2>3, <2>4 DEF Traced, EffectNeedsApproval
  <2>7. \A v \in Workers :
         /\ Executing(v)' =>
              /\ effects'[Job(v)'] = 0 /\ Job(v)' \notin late'
              /\ \A u \in Workers : Executing(u)' /\ Job(u)' = Job(v)' => u = v
         /\ worker'[v].pc = "reportDone" => effects'[Job(v)'] = 1
    BY <2>1, <2>2, <2>3, <2>4 DEF Traced, Executing
  <2> QED
    BY <2>1, <2>5, <2>6, <2>7 DEF Traced
\* A worker at the tool leaves it, with n more effects; the call that may still
\* have an effect is remembered, and success is reported only for an effect.
<1>5. ASSUME NEW n \in {0, 1}, NEW l \in {"idle", "reportDone", "reportFailed"},
             worker[w].pc = "calling",
             effects' = [effects EXCEPT ![Job(w)] = @ + n],
             late' \in {late, late \cup {Job(w)}},
             late' # late => n = 0,
             l = "reportDone" => n = 1,
             \A v \in Workers : v # w => worker'[v] = worker[v],
             worker'[w].pc = l,
             l # "idle" => worker'[w].id = Job(w),
             UNCHANGED <<approval, events>>
      PROVE  Traced'
  <2> DEFINE a == Job(w)
  <2>1. /\ a \in Approvals /\ approval[a] = "executed"
        /\ effects[a] = 0 /\ a \notin late
        /\ \A v \in Workers : v # w /\ Executing(v) => Job(v) # a
    BY <1>5 DEF Traced, EffectNeedsApproval, Executing
  <2>2. \A b \in Approvals : effects'[b] = IF b = a THEN n ELSE effects[b]
    BY <1>5, <2>1
  <2>3. EffectAtMostOnce'
    BY <1>5, <2>2 DEF Traced, EffectAtMostOnce
  <2>4. CompletedMeansEffect'
    BY <1>5, <2>1, <2>2 DEF Traced, CompletedMeansEffect
  <2>5. EffectNeedsApproval'
    BY <1>5, <2>1, <2>2 DEF Traced, EffectNeedsApproval, Executing
  <2>6. \A v \in Workers : Executing(v)' => v # w /\ Executing(v) /\ Job(v)' = Job(v)
    BY <1>5 DEF Executing
  <2>7. \A v \in Workers :
         /\ Executing(v)' =>
              /\ effects'[Job(v)'] = 0 /\ Job(v)' \notin late'
              /\ \A u \in Workers : Executing(u)' /\ Job(u)' = Job(v)' => u = v
         /\ worker'[v].pc = "reportDone" => effects'[Job(v)'] = 1
    <3>1. \A v \in Workers : Executing(v)' =>
              /\ effects'[Job(v)'] = 0 /\ Job(v)' \notin late'
              /\ \A u \in Workers : Executing(u)' /\ Job(u)' = Job(v)' => u = v
      <4>1. \A v \in Workers : Executing(v) => Job(v) \in Approvals
        BY DEF Executing
      <4> QED
        BY <1>5, <2>1, <2>2, <2>6, <4>1 DEF Traced
    <3>2. ASSUME NEW v \in Workers, worker'[v].pc = "reportDone" PROVE effects'[Job(v)'] = 1
      <4>1. CASE v = w
        BY <1>5, <2>1, <2>2, <3>2, <4>1
      <4>2. CASE v # w
        BY <1>5, <2>1, <2>2, <3>2, <4>2 DEF Traced
      <4> QED
        BY <4>1, <4>2
    <3> QED
      BY <3>1, <3>2
  <2>8. \A b \in late' : effects'[b] = 0
    BY <1>5, <2>1, <2>2 DEF Traced
  <2> QED
    BY <2>3, <2>4, <2>5, <2>7, <2>8 DEF Traced
<1>6. CASE ToolReturns(w)
  <2>1. PICK l \in {"reportDone", "reportFailed"} : Step(w, l)
    BY <1>6 DEF ToolReturns
  <2>2. effects' = [effects EXCEPT ![Job(w)] = @ + 1]
    BY <1>6 DEF ToolReturns, TakeEffect
  <2>3. worker[w].pc = "calling" /\ UNCHANGED <<approval, events, late>>
    BY <1>6 DEF ToolReturns
  <2> QED
    BY <1>5, <2>1, <2>2, <2>3
<1>7. CASE ToolThrows(w)
  <2>1. PICK n \in {0, 1} : effects' = [effects EXCEPT ![Job(w)] = @ + n]
    BY <1>7 DEF ToolThrows, TakeEffect
  <2>2. worker[w].pc = "calling" /\ Step(w, "reportFailed") /\ UNCHANGED <<approval, events, late>>
    BY <1>7 DEF ToolThrows
  <2>3. /\ \A v \in Workers : v # w => worker'[v] = worker[v]
        /\ worker'[w].pc = "reportFailed" /\ worker'[w].id = Job(w)
    BY <2>2
  <2>4. "reportFailed" = "reportDone" => n = 1
    OBVIOUS
  <2>5. UNCHANGED <<approval, events>> /\ late' = late /\ worker[w].pc = "calling"
    BY <2>2
  <2> HIDE DEF Job
  <2> QED
    BY <1>5, <2>1, <2>3, <2>4, <2>5
<1>8. CASE ToolTimesOut(w)
  <2>1. effects' = [effects EXCEPT ![Job(w)] = @ + 0]
    BY <1>8 DEF ToolTimesOut
  <2>2. /\ worker[w].pc = "calling" /\ Step(w, "reportFailed")
        /\ late' = late \cup {Job(w)} /\ UNCHANGED <<approval, events>>
    BY <1>8 DEF ToolTimesOut
  <2> QED
    BY <1>5, <2>1, <2>2
<1>9. CASE WorkerDies(w)
  <2>1. CASE worker[w].pc = "calling"
    <3>1. effects' = [effects EXCEPT ![Job(w)] = @ + 0]
      BY <1>9 DEF WorkerDies
    <3>2. Rest(w) /\ late' = late \cup {Job(w)} /\ UNCHANGED <<approval, events>>
      BY <1>9, <2>1 DEF WorkerDies
    <3> QED
      BY <1>5, <2>1, <3>1, <3>2
  <2>2. CASE worker[w].pc # "calling"
    BY <1>9, <2>2, NoEffect DEF WorkerDies, Executing
  <2> QED
    BY <2>1, <2>2
<1>10. CASE ReportDone(w)
  <2>1. /\ Job(w) \in Approvals /\ effects[Job(w)] = 1
        /\ events' = events \cup {<<"completed", Job(w)>>}
        /\ Rest(w) /\ UNCHANGED <<approval, effects, late>>
    BY <1>10 DEF ReportDone, Report, Traced
  <2>2. CompletedMeansEffect'
    BY <2>1 DEF Traced, CompletedMeansEffect
  <2>3. \A v \in Workers :
          /\ Executing(v)' => Executing(v) /\ Job(v)' = Job(v)
          /\ worker'[v].pc = "reportDone" =>
                worker[v].pc = "reportDone" /\ Job(v)' = Job(v)
    BY <2>1 DEF Executing
  <2>4. EffectAtMostOnce' /\ EffectNeedsApproval'
    BY <2>1, <2>3 DEF Traced, EffectAtMostOnce, EffectNeedsApproval, Executing
  <2> QED
    BY <2>1, <2>2, <2>3, <2>4 DEF Traced
<1> QED
  BY <1>1, <1>2, <1>3, <1>4, <1>6, <1>7, <1>8, <1>9, <1>10 DEF Resume

\* An approval leaves "none" and "pending" only, outside the resume handler.
LEMMA TracedHandler ==
    ASSUME Typed, Traced, NEW q \in Requests, Handler(q) PROVE Traced'
<1> USE DEF apiVars, runtimeVars
<1>1. UNCHANGED <<effects, late, events, worker>>
  BY DEF Handler, SweepExpired, Approve, ApproveTooLate, Recheck, Reject,
         RejectTooLate, WriteRun, PublishResume
<1>2. \A a \in Approvals : approval[a] = "executed" => approval'[a] = "executed"
  <2> USE DEF Typed, TypeOK
  <2>1. CASE SweepExpired(q)
    BY <2>1 DEF SweepExpired, ExpireDue
  <2>2. CASE Approve(q)
    BY <2>2 DEF Approve, Win, SetApproval, CanApprove
  <2>3. CASE Reject(q)
    BY <2>3 DEF Reject, Win, SetApproval, CanReject
  <2>4. CASE ApproveTooLate(q) \/ Recheck(q) \/ RejectTooLate(q) \/ WriteRun(q)
             \/ PublishResume(q)
    BY <2>4 DEF ApproveTooLate, Recheck, RejectTooLate, WriteRun, PublishResume
  <2> QED
    BY <2>1, <2>2, <2>3, <2>4 DEF Handler
<1> QED
  BY <1>1, <1>2, NoEffect DEF Executing, Job

\* Outside the resume handler only the end of an abandoned call has an effect.
LEMMA TracedNext == Typed /\ Typed' /\ Traced /\ [Next]_vars => Traced'
<1> SUFFICES ASSUME Typed, Typed', Traced, [Next]_vars PROVE Traced'
  OBVIOUS
<1> USE DEF apiVars, runtimeVars
\* What a step that leaves the workers and the effects alone has to show.
<1>1. ASSUME UNCHANGED <<effects, late, worker>>,
             \A a \in Approvals :
                /\ approval[a] = "executed" => approval'[a] = "executed"
                /\ <<"completed", a>> \in events' => <<"completed", a>> \in events
      PROVE  Traced'
  BY <1>1, NoEffect DEF Executing, Job
<1>2. ASSUME NEW a \in Approvals,
             Gate(a) \/ AnnounceWaiting(a) \/ AgentDies(a) \/ BecomesDue(a)
      PROVE  Traced'
  <2>1. UNCHANGED <<effects, late, worker>>
    BY <1>2 DEF Gate, AnnounceWaiting, AgentDies, BecomesDue
  <2>2. \A b \in Approvals : approval[b] = "executed" => approval'[b] = "executed"
    BY <1>2 DEF Gate, AnnounceWaiting, AgentDies, BecomesDue, SetApproval, Typed, TypeOK
  <2>3. events' \in {events, events \cup {<<"waiting_approval", a>>}}
    BY <1>2 DEF Gate, AnnounceWaiting, AgentDies, BecomesDue
  <2>4. \A b \in Approvals : <<"completed", b>> \in events' => <<"completed", b>> \in events
    BY <2>3
  <2> QED
    BY <1>1, <2>1, <2>2, <2>4
<1>3. ASSUME NEW a \in Approvals, LateEnd(a) PROVE Traced'
  <2>1. /\ a \in late /\ late' = late \ {a} /\ effects[a] = 0
        /\ approval[a] = "executed"
        /\ UNCHANGED <<approval, events, worker>>
    BY <1>3 DEF LateEnd, Traced, EffectNeedsApproval
  <2>2. PICK n \in {0, 1} : effects' = [effects EXCEPT ![a] = n]
    BY <1>3, <2>1 DEF LateEnd, TakeEffect, Typed, TypeOK
  <2>3. \A b \in Approvals : effects'[b] = IF b = a THEN n ELSE effects[b]
    BY <2>2 DEF Typed, TypeOK
  <2>4. EffectAtMostOnce'
    BY <2>3 DEF Traced, EffectAtMostOnce
  <2>5. CompletedMeansEffect'
    BY <2>1, <2>3 DEF Traced, CompletedMeansEffect
  <2>6. EffectNeedsApproval'
    BY <2>1, <2>3 DEF Traced, EffectNeedsApproval, Job
  <2>7. \A w \in Workers : Executing(w) \/ worker[w].pc = "reportDone" =>
                             Job(w) \in Approvals /\ Job(w) # a
    BY <2>1 DEF Typed, InHand, Traced, Executing
  <2>8. \A w \in Workers :
         /\ Executing(w)' =>
              /\ effects'[Job(w)'] = 0 /\ Job(w)' \notin late'
              /\ \A v \in Workers : Executing(v)' /\ Job(v)' = Job(w)' => v = w
         /\ worker'[w].pc = "reportDone" => effects'[Job(w)'] = 1
    BY <2>1, <2>3, <2>7 DEF Traced, Executing, Job
  <2>9. \A b \in late' : effects'[b] = 0
    BY <2>1, <2>3 DEF Traced, Typed, TypeOK
  <2> QED
    BY <2>4, <2>5, <2>6, <2>8, <2>9 DEF Traced
<1>4. ASSUME NEW s \in RunStatus, RunWrittenElsewhere(s) PROVE Traced'
  BY <1>1, <1>4 DEF RunWrittenElsewhere
<1>5. CASE List
  BY <1>1, <1>5 DEF List, ExpireDue
<1>6. ASSUME NEW q \in Requests, Handler(q) PROVE Traced'
  BY <1>6, TracedHandler
<1>7. ASSUME NEW q \in Requests,
             RequestDies(q) \/ \E kind \in Kinds, a \in Approvals : Open(q, kind, a)
      PROVE  Traced'
  BY <1>1, <1>7 DEF RequestDies, Open
<1>8. ASSUME NEW w \in Workers,
             Resume(w) \/ ReportDoneFails(w) \/ ClaimFails(w) \/ WorkerDies(w)
      PROVE  Traced'
  BY <1>8, TracedResume
<1>9. ASSUME NEW w \in Workers, NEW a \in Approvals, Deliver(w, a) PROVE Traced'
  <2>1. /\ worker' = [worker EXCEPT ![w] = [pc |-> "check", id |-> a]]
        /\ UNCHANGED <<approval, effects, late, events>>
    BY <1>9 DEF Deliver
  <2>2. \A v \in Workers :
          /\ Executing(v)' => Executing(v) /\ Job(v)' = Job(v)
          /\ worker'[v].pc = "reportDone" =>
                worker[v].pc = "reportDone" /\ Job(v)' = Job(v)
    BY <2>1 DEF Executing, Job, Typed, TypeOK
  <2> QED
    BY <2>1, <2>2, NoEffect
<1>10. CASE UNCHANGED vars
  BY <1>1, <1>10 DEF vars
<1> QED
  BY <1>2, <1>3, <1>4, <1>5, <1>6, <1>7, <1>8, <1>9, <1>10 DEF Next

---------------------------------------------------------------------------
(* The inductive invariant and what follows from it                        *)

IInv == Typed /\ Decided /\ Traced

\* IInv is inductive.
LEMMA Preserved == IInv /\ [Next]_vars => IInv'
BY TypedNext, DecidedNext, TracedNext DEF IInv

\* IInv holds in every reachable state.
THEOREM Inductive == Spec => []IInv
<1>1. Init => IInv
  BY TypedInit, DecidedInit, TracedInit DEF IInv
<1> QED
  BY <1>1, Preserved, PTL DEF Spec

\* Every variable keeps its type.
THEOREM TypeCorrect == Spec => []TypeOK
<1>1. IInv => TypeOK
  BY DEF IInv, Typed
<1> QED
  BY <1>1, Inductive, PTL

\* The side effect of an approved tool call happens at most once, whatever is
\* clicked again, redelivered, timed out or lost with its process.
THEOREM EffectsOnce == Spec => []EffectAtMostOnce
<1>1. IInv => EffectAtMostOnce
  BY DEF IInv, Traced
<1> QED
  BY <1>1, Inductive, PTL

\* Nothing reaches the tool without an approval that was granted and claimed.
THEOREM EffectsApproved == Spec => []EffectNeedsApproval
<1>1. IInv => EffectNeedsApproval
  BY DEF IInv, Traced
<1> QED
  BY <1>1, Inductive, PTL

\* At most one of the competing approve and reject calls changes the row.
THEOREM DecidesOnce == Spec => []DecidedOnce
<1>1. IInv => DecidedOnce
  BY DEF IInv, Decided
<1> QED
  BY <1>1, Inductive, PTL

\* The approve endpoint publishes at most one resume message per approval.
THEOREM ResumesOnce == Spec => []ResumedAtMostOnce
<1>1. IInv => ResumedAtMostOnce
  BY DEF IInv, Decided, ResumedAtMostOnce
<1> QED
  BY <1>1, Inductive, PTL

\* Success is reported for effects that happened, and for no others.
THEOREM CompletesWithEffect == Spec => []CompletedMeansEffect
<1>1. IInv => CompletedMeansEffect
  BY DEF IInv, Traced
<1> QED
  BY <1>1, Inductive, PTL

---------------------------------------------------------------------------
(* What a step does to the rows, and to the effects                        *)

\* The sweep refuses the overdue pending rows.
Swept == {a \in Approvals : approval[a] = "pending" /\ a \in due}

\* One row opened, granted, rejected or claimed, or the overdue rows swept.
RowStep ==
    \/ UNCHANGED approval
    \/ ExpireDue
    \/ \E a \in Approvals :
         \/ approval[a] = "none" /\ SetApproval(a, "pending")
         \/ CanApprove(a) /\ SetApproval(a, "approved")
         \/ CanReject(a) /\ SetApproval(a, "rejected")
         \/ CanClaim(a) /\ SetApproval(a, "executed")

\* Every step moves at most one kind of thing: rows, or the effect of one request.
LEMMA RowSteps ==
    ASSUME IInv, [Next]_vars
    PROVE  \/ RowStep /\ UNCHANGED effects
           \/ UNCHANGED approval /\ \E a \in Approvals : TakeEffect(a)
<1> USE DEF IInv, Typed, InHand, RowStep, apiVars, runtimeVars
<1>1. ASSUME NEW a \in Approvals,
             Gate(a) \/ AnnounceWaiting(a) \/ AgentDies(a) \/ BecomesDue(a)
      PROVE  RowStep /\ UNCHANGED effects
  BY <1>1 DEF Gate, AnnounceWaiting, AgentDies, BecomesDue
<1>2. ASSUME NEW a \in Approvals, LateEnd(a)
      PROVE  UNCHANGED approval /\ (TakeEffect(a) \/ UNCHANGED effects)
  BY <1>2 DEF LateEnd
<1>3. ASSUME NEW s \in RunStatus, RunWrittenElsewhere(s)
      PROVE  RowStep /\ UNCHANGED effects
  BY <1>3 DEF RunWrittenElsewhere
<1>4. CASE List
  BY <1>4 DEF List
<1>5. ASSUME NEW q \in Requests, Handler(q) PROVE RowStep /\ UNCHANGED effects
  <2>1. UNCHANGED effects
    BY <1>5 DEF Handler, SweepExpired, Approve, ApproveTooLate, Recheck, Reject,
                RejectTooLate, WriteRun, PublishResume
  <2>2. CASE Approve(q) \/ Reject(q)
    <3>1. req[q].id \in Approvals
      BY <2>2 DEF Approve, Reject, Serving
    <3> QED
      BY <2>2, <3>1 DEF Approve, Reject, Win
  <2>3. CASE ~(Approve(q) \/ Reject(q))
    BY <1>5, <2>3 DEF Handler, SweepExpired, ApproveTooLate, Recheck, RejectTooLate,
                      WriteRun, PublishResume
  <2> QED
    BY <2>1, <2>2, <2>3
<1>6. ASSUME NEW q \in Requests,
             RequestDies(q) \/ \E kind \in Kinds, a \in Approvals : Open(q, kind, a)
      PROVE  RowStep /\ UNCHANGED effects
  BY <1>6 DEF RequestDies, Open
<1>7. ASSUME NEW w \in Workers, ClaimExecution(w) \/ ClaimFails(w)
      PROVE  RowStep /\ UNCHANGED effects
  BY <1>7 DEF ClaimExecution, ClaimFails
<1>8. ASSUME NEW w \in Workers, ToolReturns(w) \/ ToolThrows(w)
      PROVE  UNCHANGED approval /\ (TakeEffect(Job(w)) \/ UNCHANGED effects)
             /\ Job(w) \in Approvals
  BY <1>8 DEF ToolReturns, ToolThrows
<1>9. ASSUME NEW w \in Workers,
             \/ Refuse(w) \/ AlreadyConsumed(w) \/ NoToken(w) \/ CallTool(w)
             \/ ToolTimesOut(w) \/ ReportDone(w) \/ ReportFailed(w)
             \/ ReportDoneFails(w) \/ WorkerDies(w)
             \/ \E a \in Approvals : Deliver(w, a)
      PROVE  RowStep /\ UNCHANGED effects
  BY <1>9 DEF Refuse, AlreadyConsumed, NoToken, CallTool, ToolTimesOut, ReportDone,
              ReportFailed, Report, ReportDoneFails, WorkerDies, Deliver
<1>10. CASE UNCHANGED vars
  BY <1>10 DEF vars
<1> QED
  BY <1>1, <1>2, <1>3, <1>4, <1>5, <1>6, <1>7, <1>8, <1>9, <1>10 DEF Next, Resume

\* Decisions stand: rejected, expired and executed rows never change, an
\* approved row can only be executed, and no row is approved after its deadline.
THEOREM DecisionsStand == Spec => DecisionsAreFinal
<1>1. IInv /\ [Next]_vars => [\A a \in Approvals : DecisionStep(a)]_approval
  <2> SUFFICES ASSUME IInv, [Next]_vars, approval' # approval
               PROVE  \A a \in Approvals : DecisionStep(a)
    OBVIOUS
  <2>1. RowStep
    BY RowSteps
  <2> QED
    BY <2>1 DEF RowStep, DecisionStep, ExpireDue, SetApproval, CanApprove, CanReject,
                CanClaim, IInv, Typed, TypeOK
<1> QED
  BY <1>1, Inductive, PTL DEF Spec, DecisionsAreFinal

\* The approval flow implements ApprovedEffect: each request is decided once,
\* a granted one is consumed once, and only a consumed one has its effect, once.
THEOREM Refinement == Spec => KeepsPromise
<1>1. Init => Promise!Init
  BY DEF Init, Promise!Init, Decision
<1>2. IInv /\ IInv' /\ [Next]_vars =>
        [Promise!Next]_<<[a \in Approvals |-> Decision(approval[a])], effects>>
  <2> SUFFICES ASSUME IInv, IInv', [Next]_vars
      PROVE \/ Promise!Next
            \/ UNCHANGED <<[a \in Approvals |-> Decision(approval[a])], effects>>
    OBVIOUS
  <2> DEFINE decision == [a \in Approvals |-> Decision(approval[a])]
  <2> USE DEF IInv, Typed, TypeOK
  <2>1. CASE UNCHANGED approval /\ \E a \in Approvals : TakeEffect(a)
    <3>1. PICK a \in Approvals : TakeEffect(a)
      BY <2>1
    <3>2. effects[a] = 0 /\ effects' = [effects EXCEPT ![a] = 1]
      <4>1. effects[a] \in Nat /\ effects' = [effects EXCEPT ![a] = effects[a] + 1]
        BY <3>1 DEF TakeEffect
      <4>2. effects'[a] = effects[a] + 1
        BY <4>1
      <4>3. effects'[a] <= 1
        BY DEF Traced, EffectAtMostOnce
      <4>4. effects[a] = 0
        BY <4>1, <4>2, <4>3
      <4> QED
        BY <4>1, <4>4
    <3>3. approval'[a] = "executed"
      BY <3>2 DEF Traced, EffectNeedsApproval
    <3>4. decision[a] = "consumed" /\ UNCHANGED decision
      BY <2>1, <3>3 DEF Decision
    <3>5. Promise!TakeEffect(a)
      BY <3>2, <3>4 DEF Promise!TakeEffect
    <3> QED
      BY <3>5 DEF Promise!Next
  <2>2. CASE UNCHANGED <<approval, effects>>
    BY <2>2
  <2>3. CASE ExpireDue /\ UNCHANGED effects
    <3>1. \A a \in Swept : decision[a] = "open"
      BY DEF Swept, Decision
    <3>2. decision' = [a \in Approvals |-> IF a \in Swept THEN "refused" ELSE decision[a]]
      BY <2>3 DEF Swept, ExpireDue, Decision
    <3>3. Promise!Refuse(Swept)
      BY <2>3, <3>1, <3>2 DEF Promise!Refuse
    <3> QED
      BY <3>3 DEF Promise!Next, Swept
  <2>4. ASSUME NEW a \in Approvals, UNCHANGED effects,
               \/ approval[a] = "none" /\ SetApproval(a, "pending")
               \/ CanApprove(a) /\ SetApproval(a, "approved")
               \/ CanReject(a) /\ SetApproval(a, "rejected")
               \/ CanClaim(a) /\ SetApproval(a, "executed")
        PROVE  Promise!Next \/ UNCHANGED <<decision, effects>>
    <3>1. CASE approval[a] = "none" /\ SetApproval(a, "pending")
      <4>1. UNCHANGED decision
        BY <3>1 DEF SetApproval, Decision
      <4> QED
        BY <2>4, <4>1
    <3>2. CASE CanApprove(a) /\ SetApproval(a, "approved")
      <4>1. decision[a] = "open" /\ decision' = [decision EXCEPT ![a] = "granted"]
        BY <3>2 DEF SetApproval, Decision, CanApprove
      <4>2. Promise!Grant(a)
        BY <2>4, <4>1 DEF Promise!Grant, Promise!Move
      <4> QED
        BY <4>2 DEF Promise!Next
    <3>3. CASE CanReject(a) /\ SetApproval(a, "rejected")
      <4>1. /\ decision[a] = "open"
            /\ decision' = [b \in Approvals |-> IF b \in {a} THEN "refused" ELSE decision[b]]
        BY <3>3 DEF SetApproval, Decision, CanReject
      <4>2. Promise!Refuse({a})
        BY <2>4, <4>1 DEF Promise!Refuse
      <4> QED
        BY <4>2 DEF Promise!Next
    <3>4. CASE CanClaim(a) /\ SetApproval(a, "executed")
      <4>1. decision[a] = "granted" /\ decision' = [decision EXCEPT ![a] = "consumed"]
        BY <3>4 DEF SetApproval, Decision, CanClaim
      <4>2. Promise!Consume(a)
        BY <2>4, <4>1 DEF Promise!Consume, Promise!Move
      <4> QED
        BY <4>2 DEF Promise!Next
    <3> QED
      BY <2>4, <3>1, <3>2, <3>3, <3>4
  <2> QED
    BY <2>1, <2>2, <2>3, <2>4, RowSteps DEF RowStep
<1> QED
  BY <1>1, <1>2, Inductive, PTL DEF Spec, KeepsPromise, Promise!Spec
==========================================================================
