--------------------------- MODULE ApprovalFlow ---------------------------
(***************************************************************************)
(* Human approval of a live side effect, end to end: the ToolRuntime gate  *)
(* that opens an approval request, the approve / reject / list endpoints   *)
(* of the API, the approval store shared by all processes, the resume      *)
(* message, and the agent runtime that claims the approval and runs the    *)
(* tool.                                                                   *)
(*                                                                         *)
(* Each endpoint and the resume handler is a process with one action per   *)
(* database or bus round trip, so requests, redelivered resume messages    *)
(* and the clock interleave between any two of them.  The approvals are    *)
(* those of one run.  The run row is read and written by these handlers    *)
(* and by others (module RunLifecycle), which appear here as one action.   *)
(***************************************************************************)
EXTENDS Naturals, FiniteSets

CONSTANTS
    Approvals,      \* approval requests the run may need
    Requests,       \* HTTP calls of approve or reject (clicks and retries)
    Workers,        \* resume deliveries an agent runtime can hold at once
    MaxDeliveries,  \* bound: deliveries of one resume message
    MaxFaults,      \* bound: failed calls and process deaths
    NoApproval      \* no approval in hand

ASSUME ApprovalAssumption ==
    /\ NoApproval \notin Approvals
    /\ MaxDeliveries \in Nat
    /\ MaxFaults \in Nat

VARIABLES
    \* database
    approval,    \* approval_requests.status ("none": no row yet)
    due,         \* approvals whose expires_at has passed
    runStatus,   \* runs.status
    \* bus
    resumes,     \* approval -> approval.resume messages published
    deliveries,  \* approval -> times a resume message was delivered
    events,      \* <outcome, approval>: task.completed events published
    \* API handlers
    req,         \* request -> where it is, what it asks, the run it read
    winners,     \* approval -> requests whose decision changed the row
    \* agent runtime
    worker,      \* worker -> where it is and the approval it resumes
    announcing,  \* approvals created, waiting event not yet published
    late,        \* tool calls given up on that may still take effect
    effects,     \* approval -> times the side effect happened
    faults

runtimeVars == <<resumes, deliveries, events, worker, announcing, late, effects>>
apiVars == <<req, winners>>
vars == <<approval, due, runStatus, apiVars, runtimeVars, faults>>

RunStatus == {"queued", "running", "waiting_approval", "completed", "failed"}
ApprovalStatus ==
    {"none", "pending", "approved", "rejected", "expired", "executed"}
Kinds == {"approve", "reject"}
NoRequest == [pc |-> "idle", kind |-> "approve", id |-> NoApproval, seen |-> "queued"]

TypeOK ==
    /\ approval \in [Approvals -> ApprovalStatus]
    /\ due \in SUBSET Approvals
    /\ runStatus \in RunStatus
    /\ resumes \in [Approvals -> Nat]
    /\ deliveries \in [Approvals -> Nat]
    /\ events \in SUBSET ({"waiting_approval", "completed", "failed"} \X Approvals)
    /\ req \in [Requests ->
                  [pc : {"idle", "expire", "decide", "recheck", "writeRun",
                         "publish", "ok", "conflict", "died"},
                   kind : Kinds,
                   id : Approvals \cup {NoApproval},
                   seen : RunStatus]]
    /\ winners \in [Approvals -> SUBSET Requests]
    /\ worker \in [Workers ->
                     [pc : {"idle", "check", "token", "calling",
                            "reportDone", "reportFailed"},
                      id : Approvals \cup {NoApproval}]]
    /\ announcing \in SUBSET Approvals
    /\ late \in SUBSET Approvals
    /\ effects \in [Approvals -> Nat]
    /\ faults \in Nat

Init ==
    /\ approval = [a \in Approvals |-> "none"]
    /\ due = {}
    /\ runStatus = "queued"
    /\ resumes = [a \in Approvals |-> 0]
    /\ deliveries = [a \in Approvals |-> 0]
    /\ events = {}
    /\ req = [q \in Requests |-> NoRequest]
    /\ winners = [a \in Approvals |-> {}]
    /\ worker = [w \in Workers |-> [pc |-> "idle", id |-> NoApproval]]
    /\ announcing = {}
    /\ late = {}
    /\ effects = [a \in Approvals |-> 0]
    /\ faults = 0

Fault ==
    /\ faults < MaxFaults
    /\ faults' = faults + 1

---------------------------------------------------------------------------
(* The approval store: each operator is one SQL statement                  *)

\* Mutant (KeepsPromise): the sweep does not look at the status.
ExpireUndone ==
    approval' = [a \in Approvals |->
                    IF approval[a] \in {"pending", "approved"} /\ a \in due
                    THEN "expired" ELSE approval[a]]

ExpireDue ==
    approval' = [a \in Approvals |->
                    IF approval[a] = "pending" /\ a \in due
                    THEN "expired" ELSE approval[a]]

\* Mutants (DecisionsAreFinal, EffectAtMostOnce): the expiry, or the approved
\* status, is left out of the WHERE clause.
CanApproveLate(a) == approval[a] = "pending"
CanClaimAgain(a) == approval[a] \in {"approved", "executed"}

CanApprove(a) == approval[a] = "pending" /\ a \notin due
CanReject(a) == approval[a] = "pending"
CanClaim(a) == approval[a] = "approved"

SetApproval(a, s) == approval' = [approval EXCEPT ![a] = s]

---------------------------------------------------------------------------
(* First pass of the agent: the gate of ToolRuntime.execute                *)

\* createPending, then WAITING_APPROVAL is thrown.
Gate(a) ==
    /\ approval[a] = "none"
    /\ SetApproval(a, "pending")
    /\ announcing' = announcing \cup {a}
    /\ UNCHANGED <<due, runStatus, apiVars, resumes, deliveries, events, worker,
                   late, effects, faults>>

\* executeAgentTask catches it and publishes task.completed(waiting_approval).
AnnounceWaiting(a) ==
    /\ a \in announcing
    /\ announcing' = announcing \ {a}
    /\ events' = events \cup {<<"waiting_approval", a>>}
    /\ UNCHANGED <<approval, due, runStatus, apiVars, resumes, deliveries, worker,
                   late, effects, faults>>

AgentDies(a) ==
    /\ a \in announcing
    /\ Fault
    /\ announcing' = announcing \ {a}
    /\ UNCHANGED <<approval, due, runStatus, apiVars, resumes, deliveries, events,
                   worker, late, effects>>

\* The clock passes expires_at.
BecomesDue(a) ==
    /\ approval[a] # "none"
    /\ a \notin due
    /\ due' = due \cup {a}
    /\ UNCHANGED <<approval, runStatus, apiVars, runtimeVars, faults>>

\* The projector and the run endpoints write the same row (RunLifecycle).
RunWrittenElsewhere(s) ==
    /\ s # runStatus
    /\ runStatus' = s
    /\ UNCHANGED <<approval, due, apiVars, runtimeVars, faults>>

---------------------------------------------------------------------------
(* The endpoints                                                           *)

Goto(q, l) == req' = [req EXCEPT ![q].pc = l]
\* The request is over: what it read no longer matters.
Answer(q, l) == req' = [req EXCEPT ![q] = [NoRequest EXCEPT !.pc = l]]

\* GET approvals: expireDue before listing.
List ==
    /\ ExpireDue
    /\ approval' # approval
    /\ UNCHANGED <<due, runStatus, apiVars, runtimeVars, faults>>

\* The run is read here and its status is used for the rest of the request.
Open(q, kind, a) ==
    /\ req[q].pc = "idle"
    /\ approval[a] # "none"
    /\ req' = [req EXCEPT ![q] =
                 [pc |-> "expire", kind |-> kind, id |-> a, seen |-> runStatus]]
    /\ UNCHANGED <<approval, due, runStatus, winners, runtimeVars, faults>>

\* Both tryApprove and tryReject start with expireDue.
SweepExpired(q) ==
    /\ req[q].pc = "expire"
    /\ ExpireDue
    /\ Goto(q, "decide")
    /\ UNCHANGED <<due, runStatus, winners, runtimeVars, faults>>

Win(q, s, next) ==
    /\ SetApproval(req[q].id, s)
    /\ winners' = [winners EXCEPT ![req[q].id] = @ \cup {q}]
    /\ Goto(q, next)

\* Mutant (ApprovedIsResumed): the resume is published for a waiting run only.
ApproveWaitingRun(q) ==
    /\ req[q].pc = "decide" /\ req[q].kind = "approve"
    /\ CanApprove(req[q].id)
    /\ Win(q, "approved",
           IF req[q].seen = "waiting_approval" THEN "writeRun" ELSE "ok")
    /\ UNCHANGED <<due, runStatus, runtimeVars, faults>>

Approve(q) ==
    /\ req[q].pc = "decide" /\ req[q].kind = "approve"
    /\ CanApprove(req[q].id)
    /\ Win(q, "approved",
           IF req[q].seen = "waiting_approval" THEN "writeRun" ELSE "publish")
    /\ UNCHANGED <<due, runStatus, runtimeVars, faults>>

ApproveTooLate(q) ==
    /\ req[q].pc = "decide" /\ req[q].kind = "approve"
    /\ ~CanApprove(req[q].id)
    /\ Goto(q, "recheck")
    /\ UNCHANGED <<approval, due, runStatus, winners, runtimeVars, faults>>

\* Mutant (ResumedAtMostOnce): the loser of a granted approval publishes too.
RecheckAndPublish(q) ==
    /\ req[q].pc = "recheck"
    /\ IF approval[req[q].id] = "approved" THEN Goto(q, "publish")
       ELSE Answer(q, "conflict")
    /\ UNCHANGED <<approval, due, runStatus, winners, runtimeVars, faults>>

\* The loser answers success when the approval is already granted, and does
\* not publish again.
Recheck(q) ==
    /\ req[q].pc = "recheck"
    /\ Answer(q, IF approval[req[q].id] \in {"approved", "executed"}
                 THEN "ok" ELSE "conflict")
    /\ UNCHANGED <<approval, due, runStatus, winners, runtimeVars, faults>>

OpenRun == {"waiting_approval", "running", "queued"}

Reject(q) ==
    /\ req[q].pc = "decide" /\ req[q].kind = "reject"
    /\ CanReject(req[q].id)
    /\ Win(q, "rejected", IF req[q].seen \in OpenRun THEN "writeRun" ELSE "ok")
    /\ UNCHANGED <<due, runStatus, runtimeVars, faults>>

RejectTooLate(q) ==
    /\ req[q].pc = "decide" /\ req[q].kind = "reject"
    /\ ~CanReject(req[q].id)
    /\ Answer(q, "conflict")
    /\ UNCHANGED <<approval, due, runStatus, winners, runtimeVars, faults>>

\* The run row is written on the strength of the status read in Open.
WriteRun(q) ==
    LET granted == req[q].kind = "approve" IN
    /\ req[q].pc = "writeRun"
    /\ runStatus' = IF granted THEN "running" ELSE "failed"
    /\ IF granted THEN Goto(q, "publish") ELSE Answer(q, "ok")
    /\ UNCHANGED <<approval, due, winners, runtimeVars, faults>>

PublishResume(q) ==
    /\ req[q].pc = "publish"
    /\ resumes' = [resumes EXCEPT ![req[q].id] = @ + 1]
    /\ Answer(q, "ok")
    /\ UNCHANGED <<approval, due, runStatus, winners, deliveries, events, worker,
                   announcing, late, effects, faults>>

\* An exception (snapshot, database, bus) or the death of the API process
\* between two calls of a handler.
RequestDies(q) ==
    /\ req[q].pc \in {"expire", "decide", "recheck", "writeRun", "publish"}
    /\ Fault
    /\ Answer(q, "died")
    /\ UNCHANGED <<approval, due, runStatus, winners, runtimeVars>>

---------------------------------------------------------------------------
(* The resume consumer of the agent runtime                                *)

Idle == [pc |-> "idle", id |-> NoApproval]
Step(w, l) == worker' = [worker EXCEPT ![w].pc = l]
Rest(w) == worker' = [worker EXCEPT ![w] = Idle]
Job(w) == worker[w].id

\* The bus hands a resume message over, possibly again: the in-memory bus
\* replays its log to a new subscription, the Redis claim expires in a day.
Deliver(w, a) ==
    /\ worker[w].pc = "idle"
    /\ resumes[a] > 0
    /\ deliveries[a] < MaxDeliveries
    /\ deliveries' = [deliveries EXCEPT ![a] = @ + 1]
    /\ worker' = [worker EXCEPT ![w] = [pc |-> "check", id |-> a]]
    /\ UNCHANGED <<approval, due, runStatus, apiVars, resumes, events, announcing,
                   late, effects, faults>>

\* Tool resolution, package gate, permission or input schema says no; the
\* approval keeps its status.
Refuse(w) ==
    /\ worker[w].pc = "check"
    /\ Step(w, "reportFailed")
    /\ UNCHANGED <<approval, due, runStatus, apiVars, resumes, deliveries, events,
                   announcing, late, effects, faults>>

\* Mutant (EffectNeedsApproval): the status is checked but not yet written.
CheckExecution(w) ==
    /\ worker[w].pc = "check"
    /\ CanClaim(Job(w))
    /\ Step(w, "token")
    /\ UNCHANGED <<approval, due, runStatus, apiVars, resumes, deliveries, events,
                   announcing, late, effects, faults>>

\* tryClaimExecution: approved -> executed, before any side effect.
ClaimExecution(w) ==
    /\ worker[w].pc = "check"
    /\ CanClaim(Job(w))
    /\ SetApproval(Job(w), "executed")
    /\ Step(w, "token")
    /\ UNCHANGED <<due, runStatus, apiVars, resumes, deliveries, events, announcing,
                   late, effects, faults>>

\* APPROVAL_ALREADY_CONSUMED: the handler returns without a word.
AlreadyConsumed(w) ==
    /\ worker[w].pc = "check"
    /\ ~CanClaim(Job(w))
    /\ Rest(w)
    /\ UNCHANGED <<approval, due, runStatus, apiVars, resumes, deliveries, events,
                   announcing, late, effects, faults>>

\* No OAuth token (disconnected, revoked) or no provider for the tool.
NoToken(w) ==
    /\ worker[w].pc = "token"
    /\ Step(w, "reportFailed")
    /\ UNCHANGED <<approval, due, runStatus, apiVars, resumes, deliveries, events,
                   announcing, late, effects, faults>>

CallTool(w) ==
    /\ worker[w].pc = "token"
    /\ Step(w, "calling")
    /\ UNCHANGED <<approval, due, runStatus, apiVars, resumes, deliveries, events,
                   announcing, late, effects, faults>>

TakeEffect(a) == effects' = [effects EXCEPT ![a] = @ + 1]

\* The tool published; its output may still fail the output schema.
ToolReturns(w) ==
    /\ worker[w].pc = "calling"
    /\ TakeEffect(Job(w))
    /\ \E outcome \in {"reportDone", "reportFailed"} : Step(w, outcome)
    /\ UNCHANGED <<approval, due, runStatus, apiVars, resumes, deliveries, events,
                   announcing, late, faults>>

\* The tool threw, with or without having published.
ToolThrows(w) ==
    /\ worker[w].pc = "calling"
    /\ TakeEffect(Job(w)) \/ UNCHANGED effects
    /\ Step(w, "reportFailed")
    /\ UNCHANGED <<approval, due, runStatus, apiVars, resumes, deliveries, events,
                   announcing, late, faults>>

\* Mutant (CompletedMeansEffect): a call given up on is reported as done.
TimeoutIsDone(w) ==
    /\ worker[w].pc = "calling"
    /\ late' = late \cup {Job(w)}
    /\ Step(w, "reportDone")
    /\ UNCHANGED <<approval, due, runStatus, apiVars, resumes, deliveries, events,
                   announcing, effects, faults>>

\* withTimeout gives up on the call and does not cancel it.
ToolTimesOut(w) ==
    /\ worker[w].pc = "calling"
    /\ late' = late \cup {Job(w)}
    /\ Step(w, "reportFailed")
    /\ UNCHANGED <<approval, due, runStatus, apiVars, resumes, deliveries, events,
                   announcing, effects, faults>>

\* The abandoned call ends after all: it published or it did not.
LateEnd(a) ==
    /\ a \in late
    /\ late' = late \ {a}
    /\ TakeEffect(a) \/ UNCHANGED effects
    /\ UNCHANGED <<approval, due, runStatus, apiVars, resumes, deliveries, events,
                   worker, announcing, faults>>

Report(w, outcome) ==
    /\ events' = events \cup {<<outcome, Job(w)>>}
    /\ Rest(w)
    /\ UNCHANGED <<approval, due, runStatus, apiVars, resumes, deliveries,
                   announcing, late, effects, faults>>

\* Mutant (TypeOK): the outcome is reported under a status nobody knows.
ReportExecuted(w) == worker[w].pc = "reportDone" /\ Report(w, "executed")
ReportDone(w) == worker[w].pc = "reportDone" /\ Report(w, "completed")
ReportFailed(w) == worker[w].pc = "reportFailed" /\ Report(w, "failed")

\* publishOutcome("completed") throws inside the try: the catch reports the
\* finished work as failed.
ReportDoneFails(w) ==
    /\ worker[w].pc = "reportDone"
    /\ Fault
    /\ Step(w, "reportFailed")
    /\ UNCHANGED <<approval, due, runStatus, apiVars, resumes, deliveries, events,
                   announcing, late, effects>>

\* The claim statement fails after it was applied: reported as failed.
ClaimFails(w) ==
    /\ worker[w].pc = "check"
    /\ CanClaim(Job(w))
    /\ Fault
    /\ SetApproval(Job(w), "executed")
    /\ Step(w, "reportFailed")
    /\ UNCHANGED <<due, runStatus, apiVars, resumes, deliveries, events, announcing,
                   late, effects>>

\* The process dies (or the failed report cannot be published and the message
\* is dead-lettered); a tool call on its way may still take effect.
WorkerDies(w) ==
    /\ worker[w].pc # "idle"
    /\ Fault
    /\ late' = IF worker[w].pc = "calling" THEN late \cup {Job(w)} ELSE late
    /\ Rest(w)
    /\ UNCHANGED <<approval, due, runStatus, apiVars, resumes, deliveries, events,
                   announcing, effects>>

---------------------------------------------------------------------------
\* The steps a handler takes once it has started.
Handler(q) ==
    \/ SweepExpired(q) \/ Approve(q) \/ ApproveTooLate(q) \/ Recheck(q)
    \/ Reject(q) \/ RejectTooLate(q) \/ WriteRun(q) \/ PublishResume(q)

Resume(w) ==
    \/ Refuse(w) \/ ClaimExecution(w) \/ AlreadyConsumed(w) \/ NoToken(w)
    \/ CallTool(w) \/ ToolReturns(w) \/ ToolThrows(w) \/ ToolTimesOut(w)
    \/ ReportDone(w) \/ ReportFailed(w)

Next ==
    \/ \E a \in Approvals :
          Gate(a) \/ AnnounceWaiting(a) \/ AgentDies(a) \/ BecomesDue(a) \/ LateEnd(a)
    \/ \E s \in RunStatus : RunWrittenElsewhere(s)
    \/ List
    \/ \E q \in Requests :
          \/ Handler(q) \/ RequestDies(q)
          \/ \E kind \in Kinds, a \in Approvals : Open(q, kind, a)
    \/ \E w \in Workers :
          \/ Resume(w) \/ ReportDoneFails(w) \/ ClaimFails(w) \/ WorkerDies(w)
          \/ \E a \in Approvals : Deliver(w, a)

\* Started handlers run on, the bus delivers, every await of a tool call ends
\* (withTimeout bounds it).  Users, clocks and failures owe nothing.
Fairness ==
    /\ \A q \in Requests : WF_vars(Handler(q))
    /\ \A w \in Workers : WF_vars(Resume(w))
    /\ \A a \in Approvals : WF_vars(\E w \in Workers : Deliver(w, a))

Spec == Init /\ [][Next]_vars
FairSpec == Spec /\ Fairness

---------------------------------------------------------------------------
(* Properties                                                              *)

\* The external effect of an approved tool call happens at most once, however
\* often approve is clicked, the resume message is redelivered, a call times
\* out or a process dies ("single-flight claim before any side-effect").
EffectAtMostOnce ==
    \A a \in Approvals : effects[a] <= 1

\* No effect, and no tool call that could still cause one, without an approval
\* that was granted and claimed: a rejected, expired or undecided request
\* never reaches the tool.
EffectNeedsApproval ==
    \A a \in Approvals :
        \/ effects[a] > 0
        \/ a \in late
        \/ \E w \in Workers : Job(w) = a /\ worker[w].pc \in {"token", "calling"}
        => approval[a] = "executed"

\* Of all approve and reject calls for a request, at most one takes effect.
DecidedOnce ==
    \A a \in Approvals : \A p, q \in winners[a] : p = q

\* approve publishes the resume message at most once: the losers of the race
\* and the retries answer without publishing.
ResumedAtMostOnce ==
    \A a \in Approvals : resumes[a] <= 1

\* A completed outcome is only ever reported for an effect that happened.
CompletedMeansEffect ==
    \A a \in Approvals : <<"completed", a>> \in events => effects[a] = 1

\* Decisions stand: rejected, expired and executed are terminal, an approved
\* request can only be executed, and nothing is approved after its deadline.
DecisionStep(a) ==
    /\ approval[a] = "approved" => approval'[a] \in {"approved", "executed"}
    /\ approval[a] \in {"rejected", "expired", "executed"} =>
          approval'[a] = approval[a]
    /\ approval[a] # approval'[a] /\ approval'[a] = "approved" => a \notin due
DecisionsAreFinal == [][\A a \in Approvals : DecisionStep(a)]_approval

\* The whole flow implements the promise of module ApprovedEffect: decided
\* once, consumed once, in effect at most once and only when consumed.
Decision(status) ==
    CASE status = "approved" -> "granted"
      [] status = "executed" -> "consumed"
      [] status \in {"rejected", "expired"} -> "refused"
      [] OTHER -> "open"

Promise == INSTANCE ApprovedEffect
    WITH decision <- [a \in Approvals |-> Decision(approval[a])]

KeepsPromise == Promise!Spec

\* While nothing fails, a granted approval is executed or its failure is
\* reported, and an execution is reported.
Reported(a) == <<"completed", a>> \in events \/ <<"failed", a>> \in events
ApprovedIsResumed ==
    \A a \in Approvals :
        (approval[a] = "approved") ~> (Reported(a) \/ faults > 0)
==========================================================================
