--------------------------- MODULE ChatClient ----------------------------
(***************************************************************************)
(* The chat page of the web application: it opens the conversation of the  *)
(* chosen workspace, sends messages, starts a run for each, and watches    *)
(* that run by REST, by polling and by an event stream at the same time.   *)
(* Every await lets other callbacks run; nothing cancels what is in hand.  *)
(*                                                                         *)
(* A response is taken from the server when the request is sent and        *)
(* applied later: a request that is served late is one sent late.          *)
(*                                                                         *)
(* Abstracted: steps, cost, error texts, the order of messages (by         *)
(* creation), organisations; all conversations of a workspace are one.     *)
(***************************************************************************)
EXTENDS Naturals, FiniteSets

CONSTANTS
    Workspaces,
    Pollers,    \* slots: callbacks of the polling interval in hand
    Loaders,    \* slots: workspaces being opened
    MaxRuns,    \* bound: messages sent, hence runs
    MaxFaults   \* bound: failing requests and streams, and impatient acts

Runs == 1..MaxRuns
None == "none"

VARIABLES
    \* the server
    stored,     \* stored[w]: messages of the workspace's conversation
    run,        \* run[r]: [status, home]
    \* the page
    workspace,  \* chosen
    shown,      \* conversation that is open, named after its workspace
    view,       \* messages on the screen
    send,       \* onSend in hand
    watch,      \* watchRun in hand
    poll,       \* poll[i]: a callback of the interval in hand
    load,       \* load[i]: an effect opening a workspace
    \* history
    missed,     \* runs the page gave up watching before their end
    excused,    \* the user acted while requests were in hand, or a load failed
    faults

server == <<stored, run>>
page == <<workspace, shown, view, send, watch, poll, load>>
vars == <<server, page, missed, excused, faults>>

Message(from, r) == [from |-> from, run |-> r]
NoRun == [status |-> "none", home |-> None]
NotSending == [pc |-> "idle", home |-> None, workspace |-> None, draft |-> 0]
NoWatch == [pc |-> "done", run |-> 0, over |-> FALSE, ticking |-> FALSE, aborted |-> FALSE,
            reply |-> {}]
NoPoll == [pc |-> "idle", run |-> 0, reply |-> {}]
NoLoad == [pc |-> "idle", home |-> None, reply |-> {}]
NoLoads == [i \in Loaders |-> NoLoad]

Used == {r \in Runs : run[r].status # "none"}
Active(r) == run[r].status = "active"
Replies(r) == stored[run[r].home]
Quiet == send.pc = "idle" /\ (\A i \in Pollers : poll[i] = NoPoll)
                          /\ (\A i \in Loaders : load[i] = NoLoad)
Fault == faults < MaxFaults /\ faults' = faults + 1
\* The user acts, waiting for what is in hand or not.
Act == IF Quiet THEN UNCHANGED <<excused, faults>> ELSE Fault /\ excused' = TRUE

Init ==
    /\ stored = [w \in Workspaces |-> {}] /\ run = [r \in Runs |-> NoRun]
    /\ workspace \in Workspaces /\ shown = None /\ view = {}
    /\ send = NotSending /\ watch = NoWatch
    /\ poll = [i \in Pollers |-> NoPoll]
    /\ load = [NoLoads EXCEPT ![CHOOSE i \in Loaders : TRUE] =
                  [NoLoad EXCEPT !.pc = "open", !.home = workspace]]
    /\ missed = {} /\ excused = FALSE /\ faults = 0

-----------------------------------------------------------------------------
(* Opening a workspace *)

\* The page is loaded again: everything in hand is gone, and no run is watched.
Reload ==
    /\ shown' = None /\ view' = {} /\ send' = NotSending /\ watch' = NoWatch
    /\ poll' = [i \in Pollers |-> NoPoll]
    /\ \E i \in Loaders : load' = [j \in Loaders |->
            IF j = i THEN [NoLoad EXCEPT !.pc = "open", !.home = workspace] ELSE NoLoad]
    /\ missed' = missed \cup {r \in Runs : Active(r)}
    /\ excused' = FALSE
    /\ UNCHANGED <<server, workspace, faults>>

\* The effect starts beside those that still run.
Choose(i, w) ==
    /\ w # workspace /\ workspace' = w
    /\ load[i] = NoLoad
    /\ load' = [load EXCEPT ![i] = [NoLoad EXCEPT !.pc = "open", !.home = w]]
    /\ Act
    /\ UNCHANGED <<server, shown, view, send, watch, poll, missed>>

\* Its conversation is found, or created; it is open before it is read.
Opened(i) ==
    /\ load[i].pc = "open"
    /\ shown' = load[i].home
    /\ load' = [load EXCEPT ![i].pc = "read", ![i].reply = stored[load[i].home]]
    /\ UNCHANGED <<server, workspace, view, send, watch, poll, missed, excused, faults>>

Loaded(i) ==
    /\ load[i].pc = "read"
    /\ view' = load[i].reply /\ load' = [load EXCEPT ![i] = NoLoad]
    /\ UNCHANGED <<server, workspace, shown, send, watch, poll, missed, excused, faults>>

LoadFails(i) ==
    /\ load[i] # NoLoad /\ Fault
    /\ load' = [load EXCEPT ![i] = NoLoad] /\ excused' = TRUE
    /\ UNCHANGED <<server, workspace, shown, view, send, watch, poll, missed>>

-----------------------------------------------------------------------------
(* onSend *)

\* buildPublishGoal: the last assistant message on the screen.
Drafts == {m.run : m \in {x \in view : x.from = "adam"}}
LastDraft == IF Drafts = {} THEN 0 ELSE CHOOSE d \in Drafts : \A e \in Drafts : e <= d

\* Mutant (DraftsStayHome): the draft is looked up among all replies.
AnyDraft(publish) ==
    LET all == {r \in Used : \E w \in Workspaces : Message("adam", r) \in stored[w]} IN
    IF publish /\ all # {} THEN CHOOSE d \in all : \A e \in all : e <= d ELSE 0
DraftFor(publish) == IF publish THEN LastDraft ELSE 0

\* createMessage; the text may ask to publish what was drafted.  What onSend
\* needs later - workspace, conversation, screen - is that of this moment.
Send(publish) ==
    /\ send.pc = "idle" /\ shown # None /\ Used # Runs
    /\ LET r == Cardinality(Used) + 1 IN
       stored' = [stored EXCEPT ![shown] = @ \cup {Message("user", r)}]
    /\ send' = [pc |-> "message", home |-> shown, workspace |-> workspace,
                draft |-> DraftFor(publish)]
    /\ Act
    /\ UNCHANGED <<run, workspace, shown, view, watch, poll, load, missed>>

\* createRun refuses the conversation of another workspace.
MessageSent ==
    LET r == Cardinality(Used) + 1 IN
    /\ send.pc = "message"
    /\ view' = view \cup {Message("user", r)}
    /\ run' = [run EXCEPT ![r] =
                  [status |-> IF send.home = send.workspace THEN "active" ELSE "refused",
                   home |-> send.home]]
    /\ send' = [NotSending EXCEPT !.pc = "run"]
    /\ UNCHANGED <<stored, workspace, shown, watch, poll, load, missed, excused, faults>>

RunCreated ==
    LET r == Cardinality(Used) IN
    /\ send.pc = "run"
    /\ IF run[r].status = "refused" THEN send' = NotSending /\ UNCHANGED watch
       ELSE /\ send' = [send EXCEPT !.pc = "watch"]
            /\ watch' = [NoWatch EXCEPT !.pc = "rest", !.run = r, !.over = ~Active(r)]
    /\ UNCHANGED <<server, workspace, shown, view, poll, load, missed, excused, faults>>

\* The message or the run may have been created or not.
SendFails ==
    /\ send.pc \in {"message", "run"} /\ Fault
    /\ send' = NotSending /\ excused' = TRUE
    /\ missed' = missed \cup {r \in Runs : Active(r)}
    /\ LET r == Cardinality(Used) + 1 IN
       IF send.pc = "run" THEN UNCHANGED server
       ELSE /\ run' = [run EXCEPT ![r] = [NoRun EXCEPT !.status = "refused", !.home = send.home]]
            /\ stored' \in {stored, [stored EXCEPT ![send.home] = @ \ {Message("user", r)}]}
    /\ UNCHANGED <<workspace, shown, view, watch, poll, load>>

-----------------------------------------------------------------------------
(* watchRun *)

Ended == watch' = NoWatch /\ send' = NotSending

\* finishIfTerminal asks for the messages.
Finishing(x) == [x EXCEPT !.pc = "finish", !.over = FALSE, !.reply = Replies(x.run)]

\* REST first.  A run that is over is finished; any other is polled while a
\* stream is opened, which begins with a snapshot.
Reconstituted ==
    /\ watch.pc = "rest"
    /\ watch' = IF watch.over THEN Finishing(watch)
                ELSE [watch EXCEPT !.pc = "open", !.ticking = TRUE,
                                   !.over = ~Active(watch.run)]
    /\ UNCHANGED <<server, workspace, shown, view, send, poll, load, missed, excused, faults>>

\* The snapshot arrives; the server subscribes to what is published from now.
Snapshot ==
    /\ watch.pc = "open" /\ ~watch.aborted
    /\ watch' = IF watch.over THEN Finishing(watch) ELSE [watch EXCEPT !.pc = "stream"]
    /\ UNCHANGED <<server, workspace, shown, view, send, poll, load, missed, excused, faults>>

\* run_completed or run_failed.  An end between the snapshot and the
\* subscription may be taken for history and skipped; others may be lost.
EndStreamed ==
    /\ watch.pc = "stream" /\ ~watch.aborted /\ ~Active(watch.run)
    /\ watch' = [Finishing(watch) EXCEPT !.ticking = FALSE]
    /\ UNCHANGED <<server, workspace, shown, view, send, poll, load, missed, excused, faults>>

\* The stream is closed in good order, by a proxy or by the server going down:
\* the loop over it ends, and with it the watch.
StreamCloses ==
    /\ watch.pc = "stream" /\ ~watch.aborted
    /\ missed' = missed \cup {watch.run} /\ Ended
    /\ UNCHANGED <<server, workspace, shown, view, poll, load, excused, faults>>

\* A poll has aborted the stream: reading it throws, and the watch ends.
Aborted ==
    /\ watch.pc \in {"open", "stream", "retry"} /\ watch.aborted
    /\ Ended
    /\ UNCHANGED <<server, workspace, shown, view, poll, load, missed, excused, faults>>

\* Mutant (TypeOK): the page stays busy after the run.
FinishedBusy ==
    /\ watch.pc = "finish"
    /\ view' = watch.reply /\ watch' = NoWatch
    /\ UNCHANGED <<server, workspace, shown, send, poll, load, missed, excused, faults>>

\* They arrive; steps and cost follow.
Finished ==
    /\ watch.pc = "finish"
    /\ view' = watch.reply /\ Ended
    /\ UNCHANGED <<server, workspace, shown, poll, load, missed, excused, faults>>

\* Something throws; if nothing was aborted, everything begins again in 800 ms.
WatchFails ==
    /\ watch.pc \in {"rest", "open", "stream", "finish"} /\ Fault
    /\ IF watch.aborted THEN Ended
       ELSE /\ watch' = [watch EXCEPT !.pc = "retry", !.over = FALSE, !.ticking = FALSE,
                                      !.reply = {}]
            /\ UNCHANGED send
    /\ UNCHANGED <<server, workspace, shown, view, poll, load, missed, excused>>

\* Mutant (RepliesAreShown): whatever throws ends the watch.
GiveUp ==
    /\ watch.pc = "retry" /\ ~watch.aborted
    /\ Ended
    /\ UNCHANGED <<server, workspace, shown, view, poll, load, missed, excused, faults>>

Reconnect ==
    /\ watch.pc = "retry" /\ ~watch.aborted
    /\ watch' = [watch EXCEPT !.pc = "rest", !.over = ~Active(watch.run)]
    /\ UNCHANGED <<server, workspace, shown, view, send, poll, load, missed, excused, faults>>

-----------------------------------------------------------------------------
(* The polling interval: a callback does not wait for the one before.  One *)
(* that finds the run active changes nothing the page is asked about here. *)

Tick(i) ==
    /\ watch.ticking /\ ~watch.aborted /\ ~Active(watch.run) /\ poll[i] = NoPoll
    /\ poll' = [poll EXCEPT ![i] = [NoPoll EXCEPT !.pc = "over", !.run = watch.run]]
    /\ UNCHANGED <<server, workspace, shown, view, send, watch, load, missed, excused, faults>>

\* Mutant (SendingEnds): the interval is cleared, the stream is not aborted.
Unticked == [watch EXCEPT !.ticking = FALSE]
Stopped == [watch EXCEPT !.ticking = FALSE, !.aborted = TRUE]

\* It ends the interval and the stream of its run, then asks for the messages.
Polled(i) ==
    /\ poll[i].pc = "over"
    /\ poll' = [poll EXCEPT ![i].pc = "finish", ![i].reply = Replies(poll[i].run)]
    /\ watch' = IF watch.run = poll[i].run THEN Stopped ELSE watch
    /\ UNCHANGED <<server, workspace, shown, view, send, load, missed, excused, faults>>

PollFinished(i) ==
    /\ poll[i].pc = "finish"
    /\ view' = poll[i].reply /\ poll' = [poll EXCEPT ![i] = NoPoll]
    /\ UNCHANGED <<server, workspace, shown, send, watch, load, missed, excused, faults>>

\* "keep polling" - but a callback that has found the end does not come back.
PollFails(i) ==
    /\ poll[i] # NoPoll /\ Fault
    /\ poll' = [poll EXCEPT ![i] = NoPoll]
    /\ missed' = IF poll[i].pc = "finish" THEN missed \cup {poll[i].run} ELSE missed
    /\ UNCHANGED <<server, workspace, shown, view, send, watch, load, excused>>

-----------------------------------------------------------------------------
(* The run, as far as the page can see it: RunLifecycle has the rest. *)

\* The reply is stored before the run is completed.
End(r, replied) ==
    /\ Active(r)
    /\ run' = [run EXCEPT ![r].status = "over"]
    /\ stored' = IF replied THEN [stored EXCEPT ![run[r].home] = @ \cup {Message("adam", r)}]
                 ELSE stored
    /\ UNCHANGED <<page, missed, excused, faults>>

Continue ==
    \/ MessageSent \/ RunCreated
    \/ Reconstituted \/ Snapshot \/ Aborted \/ Finished \/ Reconnect

LoadStep(i) == Opened(i) \/ Loaded(i)
PollStep(i) == Polled(i) \/ PollFinished(i)

Next ==
    \/ Continue \/ EndStreamed \/ StreamCloses
    \/ \E i \in Loaders : LoadStep(i) \/ LoadFails(i) \/ \E w \in Workspaces : Choose(i, w)
    \/ \E i \in Pollers : Tick(i) \/ PollStep(i) \/ PollFails(i)
    \/ \E publish \in BOOLEAN : Send(publish)
    \/ SendFails \/ WatchFails \/ Reload
    \/ \E r \in Runs, replied \in BOOLEAN : End(r, replied)

\* Requests are answered, timers fire, and throwing goes on; the stream owes
\* nothing, nor does the user or the run.
Fairness ==
    /\ WF_vars(Continue)
    /\ \A i \in Pollers : WF_vars(PollStep(i)) /\ WF_vars(Tick(i))
    /\ \A i \in Loaders : WF_vars(LoadStep(i))

Spec == Init /\ [][Next]_vars
FairSpec == Spec /\ Fairness

-----------------------------------------------------------------------------
(* Properties *)

TypeOK ==
    /\ \A w \in Workspaces : stored[w] \subseteq [from : {"user", "adam"}, run : Runs]
    /\ \A r \in Runs : run[r] \in [status : {"none", "active", "refused", "over"},
                                   home : Workspaces \cup {None}]
    /\ workspace \in Workspaces /\ shown \in Workspaces \cup {None}
    /\ send.pc \in {"idle", "message", "run", "watch"}
    /\ watch.pc \in {"done", "rest", "open", "stream", "finish", "retry"}
    /\ send.pc = "watch" <=> watch.pc # "done"
    /\ \A i \in Pollers : poll[i].pc \in {"idle", "over", "finish"}
    /\ \A i \in Loaders : load[i].pc \in {"idle", "open", "read"}
    /\ missed \subseteq Runs /\ faults \in 0..MaxFaults

\* The page does not stay busy once the run it watches is over, even where
\* the stream never says so: polling ends the watch.
SendingEnds ==
    \A r \in Runs :
        (send.pc = "watch" /\ watch.run = r /\ ~Active(r))
            ~> ~(send.pc = "watch" /\ watch.run = r)

\* When nothing is in hand any more, the screen shows the conversation that is
\* open: every message, but possibly not the replies of runs it gave up on.
\* The user has waited for requests to be answered before acting.
RepliesAreShown ==
    Quiet /\ ~excused /\ shown # None =>
        /\ shown = workspace
        /\ view \subseteq stored[shown]
        /\ \A m \in stored[shown] \ view : m.from = "adam" /\ (m.run \in missed \/ Active(m.run))

\* What is sent to be published was drafted in the same workspace (under the
\* same condition: buildPublishGoal takes the last reply on the screen).
DraftsStayHome ==
    send.pc = "message" /\ send.draft # 0 /\ ~excused => run[send.draft].home = send.home
==========================================================================
