--------------------------- MODULE WebAppProofs ---------------------------
(***************************************************************************)
(* What a user who waits is shown, and where what was written goes, for    *)
(* any number of workspaces, runs, calls in hand and faults.               *)
(*                                                                         *)
(* The chat page: while the user has waited, either one effect is opening  *)
(* the chosen workspace and nothing else is in hand (Loading), or that     *)
(* workspace is open and all that is in hand is about it (Resting); and a  *)
(* run that is active is followed, or was given up.  So what is missing on *)
(* the screen is owed by the watch or by a poll, or was given up.          *)
(*                                                                         *)
(* The panels: while the user is careful, what is shown is what is chosen, *)
(* or a load of it is in hand (StaleLoads) and busy says so (StaleIsBusy). *)
(***************************************************************************)
EXTENDS WebApp, FiniteSetTheorems, WellFoundedInduction, TLAPS

-----------------------------------------------------------------------------
(* The chat page: its types.                                               *)

Messages == [from : {"user", "adam"}, run : Chat!Runs]
Homes == Workspaces \cup {"none"}
Polling(i) == poll[i] # Chat!NoPoll

\* The runs in use are the first ones.
Count == Cardinality(Chat!Used)
NewMessage == Chat!Message("user", Count + 1)

ServerTyped ==
    /\ stored \in [Workspaces -> SUBSET Messages]
    /\ run \in [Chat!Runs -> [status : {"none", "active", "refused", "over"}, home : Homes]]
    /\ \A r \in Chat!Runs : run[r].status # "none" => run[r].home \in Workspaces
    /\ \E n \in 0..MaxRuns : Chat!Used = 1..n

SendTyped ==
    /\ send \in [pc : {"idle", "message", "run", "watch"}, home : Homes, workspace : Homes,
                 draft : 0..MaxRuns]
    /\ send.pc = "message" => send.home \in Workspaces /\ Chat!Used # Chat!Runs
    /\ send.pc = "run" => Chat!Used # {}
    /\ send.pc = "watch" <=> watch.pc # "done"

WatchTyped ==
    /\ watch \in [pc : {"done", "rest", "open", "stream", "finish", "retry"}, run : 0..MaxRuns,
                  over : BOOLEAN, ticking : BOOLEAN, aborted : BOOLEAN,
                  reply : SUBSET Messages]
    /\ watch.pc = "done" <=> watch = Chat!NoWatch
    /\ watch.pc # "done" => watch.run \in Chat!Used

PollsTyped ==
    /\ poll \in [Pollers -> [pc : {"idle", "over", "finish"}, run : 0..MaxRuns,
                             reply : SUBSET Messages]]
    /\ \A i \in Pollers : poll[i].pc = "idle" <=> poll[i] = Chat!NoPoll
    /\ \A i \in Pollers : Polling(i) => poll[i].run \in Chat!Used

LoadsTyped ==
    /\ load \in [Loaders -> [pc : {"idle", "open", "read"}, home : Homes,
                             reply : SUBSET Messages]]
    /\ \A i \in Loaders : load[i].pc = "idle" <=> load[i] = Chat!NoLoad
    /\ \A i \in Loaders : load[i] # Chat!NoLoad => load[i].home \in Workspaces

PlaceTyped == workspace \in Workspaces /\ shown \in Homes /\ view \subseteq Messages
HistoryTyped == missed \subseteq Chat!Runs /\ excused \in BOOLEAN /\ faults \in 0..MaxFaults

ChatTyped ==
    /\ ServerTyped /\ PlaceTyped /\ SendTyped /\ WatchTyped /\ PollsTyped /\ LoadsTyped
    /\ HistoryTyped

(* And what is true of it.                                                 *)

\* A reply is stored where its run lives, and that run is over.
RepliesTrue ==
    \A w \in Workspaces : \A m \in stored[w] :
        m.from = "adam" => run[m.run].home = w /\ run[m.run].status = "over"

\* What the page takes for ended has ended.
EndsTrue ==
    /\ watch.pc # "done" /\ (watch.over \/ watch.aborted \/ watch.pc = "finish")
          => ~Chat!Active(watch.run)
    /\ \A i \in Pollers : Polling(i) => ~Chat!Active(poll[i].run)

\* onSend or watchRun will see the run through.
Followed(r) ==
    \/ send.pc = "run" /\ r = Count
    \/ watch.pc # "done" /\ ~watch.aborted /\ watch.run = r

\* A run that is active is followed, or the page has given up on it.
RunsFollowed == \A r \in Chat!Runs : Chat!Active(r) => r \in missed \/ Followed(r)

\* The messages are those of the workspace, but for replies given up on.
Complete(messages, w) ==
    /\ messages \subseteq stored[w]
    /\ \A m \in stored[w] \ messages : m.from = "adam" /\ m.run \in missed

\* One effect is opening the chosen workspace, and nothing else is in hand.
Loading ==
    \E i \in Loaders :
        /\ load[i] # Chat!NoLoad /\ load[i].home = workspace
        /\ \A j \in Loaders \ {i} : load[j] = Chat!NoLoad
        /\ send.pc = "idle" /\ \A j \in Pollers : poll[j] = Chat!NoPoll
        /\ load[i].pc = "read" => shown = workspace /\ Complete(load[i].reply, workspace)

\* The reply of the run will be fetched.
Owed(r) ==
    \/ Followed(r)
    \/ \E i \in Pollers : poll[i].pc = "finish" /\ poll[i].run = r

ViewRests ==
    /\ view \subseteq stored[shown]
    /\ \A m \in stored[shown] \ view :
          \/ send.pc = "message" /\ m = NewMessage
          \/ m.from = "adam" /\ (m.run \in missed \/ Owed(m.run))

SendRests ==
    /\ send.pc = "message" => send.home = shown /\ NewMessage \in stored[shown]
    /\ send.pc = "run" => run[Count].home = shown

WatchRests ==
    watch.pc # "done" =>
        /\ run[watch.run].home = shown
        /\ watch.pc = "finish" => Complete(watch.reply, shown)

PollsRest ==
    \A i \in Pollers : Polling(i) =>
        /\ run[poll[i].run].home = shown
        /\ send.pc \notin {"message", "run"}
        /\ watch.pc # "done" => watch.run = poll[i].run
        /\ poll[i].pc = "finish" => Complete(poll[i].reply, shown)

\* The chosen workspace is open, and all that is in hand is about it.
Resting ==
    /\ \A i \in Loaders : load[i] = Chat!NoLoad
    /\ shown = workspace
    /\ ViewRests /\ SendRests /\ WatchRests /\ PollsRest

Waited == ~excused => Loading \/ Resting

ChatInv ==
    ChatTyped /\ RepliesTrue /\ EndsTrue /\ RunsFollowed /\ Waited /\ DraftsStayHome

-----------------------------------------------------------------------------
(* The runs in use, and their number.                                      *)

\* A set of numbers up to N has a largest one.
LEMMA Largest ==
    ASSUME NEW N \in Nat, NEW S \in SUBSET (1..N), S # {}
    PROVE  \E d \in S : \A e \in S : e <= d
<1> DEFINE T == {n \in 0..N : N - n \in S}
           Less == {ss \in Nat \X Nat : ss[1] < ss[2]}
<1>1. PICK s \in S : TRUE OBVIOUS
<1>2. PICK n \in T : TRUE
  <2>1. N - s \in 0..N /\ N - (N - s) = s OBVIOUS
  <2> QED BY <2>1
<1>3. T \subseteq Nat OBVIOUS
<1>4. IsWellFoundedOn(Less, Nat) BY ONLY NatLessThanWellFounded DEF OpToRel
<1>5. PICK t \in T : \A x \in T : ~(<<x, t>> \in Less)
  <2> HIDE DEF T, Less
  <2> QED BY <1>2, <1>3, <1>4, WFMin
<1>6. N - t \in S /\ t \in 0..N OBVIOUS
<1>7. ASSUME NEW e \in S PROVE e <= N - t
  <2>1. N - e \in T /\ N - e \in Nat /\ t \in Nat OBVIOUS
  <2>2. ~(N - e < t) BY <2>1, <1>5
  <2> QED BY <2>2, <2>1, <1>6
<1> QED BY <1>6, <1>7

\* What ChatClient takes from FiniteSets is the cardinality known here.
LEMMA SameCardinality == ASSUME NEW S PROVE Chat!Cardinality(S) = Cardinality(S)
BY DEF Chat!Cardinality, Cardinality

\* Their number is the last of them.
LEMMA UsedIs ==
    ASSUME ServerTyped
    PROVE  Count \in 0..MaxRuns /\ Chat!Used = 1..Count
<1>1. PICK n \in 0..MaxRuns : Chat!Used = 1..n BY DEF ServerTyped
<1>2. Cardinality(1..n) = n BY <1>1, FS_Interval, WebAppAssumption
<1> QED BY <1>1, <1>2 DEF Count

\* They stay the same where no run begins.
LEMMA UsedKept ==
    ASSUME \A r \in Chat!Runs : run'[r].status = "none" <=> run[r].status = "none"
    PROVE  Chat!Used' = Chat!Used /\ Count' = Count
<1>1. Chat!Used' = Chat!Used BY DEF Chat!Used, Chat!Runs
<1> QED BY <1>1 DEF Count

\* A run begins: it is the next one.
LEMMA OneMore ==
    ASSUME ServerTyped, Chat!Used # Chat!Runs,
           NEW x, x.status # "none", run' = [run EXCEPT ![Count + 1] = x]
    PROVE  /\ Count + 1 \in Chat!Runs /\ Count + 1 \notin Chat!Used
           /\ Chat!Used' = 1..(Count + 1) /\ Count' = Count + 1
           /\ run[Count + 1].status = "none"
<1>1. Count \in 0..MaxRuns /\ Chat!Used = 1..Count BY UsedIs
<1>2. Count + 1 \in Chat!Runs /\ Count + 1 \notin Chat!Used /\ MaxRuns \in Nat
  BY <1>1, WebAppAssumption DEF Chat!Runs
<1>3. run[Count + 1].status = "none" BY <1>2 DEF Chat!Used
<1>4. PICK n \in Nat : n = Count BY <1>1
<1>5. \A r \in Chat!Runs : r \in Chat!Used' <=> r \in Chat!Used \/ r = n + 1
  BY <1>2, <1>4 DEF Chat!Used, Chat!Runs, ServerTyped
<1>6. Chat!Used' \subseteq Chat!Runs BY DEF Chat!Used, Chat!Runs
<1>7. Chat!Used' = 1..(n + 1)
  <2>1. Chat!Used = 1..n /\ n + 1 \in Chat!Runs BY <1>1, <1>2, <1>4
  <2>2. ASSUME NEW r \in Chat!Used' PROVE r \in 1..(n + 1)
    <3>1. r \in Chat!Runs /\ (r \in 1..n \/ r = n + 1) BY <2>1, <2>2, <1>5, <1>6
    <3> QED BY <3>1 DEF Chat!Runs
  <2>3. ASSUME NEW r \in 1..(n + 1) PROVE r \in Chat!Used'
    <3>1. r \in 1..n \/ r = n + 1 BY <2>3
    <3>2. r \in Chat!Runs BY <2>1, <1>2 DEF Chat!Runs
    <3> QED BY <3>1, <3>2, <2>1, <1>5
  <2> QED BY <2>2, <2>3
<1>8. Cardinality(1..(n + 1)) = n + 1 BY FS_Interval
<1> QED BY <1>2, <1>3, <1>4, <1>7, <1>8 DEF Count

\* What is in use is one of the runs.
LEMMA UsedAreRuns == ASSUME NEW r \in Chat!Used
                     PROVE  r \in Chat!Runs /\ run[r].status # "none"
BY DEF Chat!Used

\* Where neither the messages nor the runs change.
LEMMA SameServer ==
    ASSUME UNCHANGED <<stored, run>>
    PROVE  /\ Chat!Used' = Chat!Used /\ Count' = Count
           /\ \A r : Chat!Active(r)' = Chat!Active(r)
           /\ ServerTyped => ServerTyped'
           /\ RepliesTrue => RepliesTrue'
<1>1. Chat!Used' = Chat!Used /\ Count' = Count BY UsedKept
<1>2. \A r : Chat!Active(r)' = Chat!Active(r) BY DEF Chat!Active
<1>3. ServerTyped => ServerTyped' BY <1>1 DEF ServerTyped
<1>4. RepliesTrue => RepliesTrue' BY DEF RepliesTrue
<1> QED BY <1>1, <1>2, <1>3, <1>4

-----------------------------------------------------------------------------
(* The page opens a workspace.                                             *)

\* The effect that opens w, before its conversation is known.
Opening(w) == [pc |-> "open", home |-> w, reply |-> {}]
Effects == [pc : {"idle", "open", "read"}, home : Homes, reply : SUBSET Messages]

LEMMA Opens ==
    ASSUME NEW w \in Workspaces
    PROVE  /\ [Chat!NoLoad EXCEPT !.pc = "open", !.home = w] = Opening(w)
           /\ Opening(w) # Chat!NoLoad /\ Opening(w) \in Effects
           /\ Opening(w).pc = "open" /\ Opening(w).home = w
<1> DEFINE x == [Chat!NoLoad EXCEPT !.pc = "open", !.home = w]
           Forms == [pc : {"idle", "open"}, home : {"none", w}, reply : {{}}]
<1>1. Chat!NoLoad \in Forms BY DEF Chat!NoLoad, Chat!None
<1>2. x \in Forms /\ x.pc = "open" /\ x.home = w BY <1>1
<1> HIDE DEF x
<1>3. x = [pc |-> x.pc, home |-> x.home, reply |-> x.reply] /\ x.reply = {} BY <1>2
<1>4. x = Opening(w) BY <1>2, <1>3 DEF Opening
<1>5. Chat!NoLoad.pc = "idle" BY DEF Chat!NoLoad
<1>6. Opening(w).pc = "open" /\ Opening(w).home = w BY DEF Opening
<1>7. Opening(w) \in Effects
  <2>1. w \in Homes BY DEF Homes
  <2> QED BY <2>1 DEF Opening, Effects
<1> QED BY <1>4, <1>5, <1>6, <1>7 DEF x

\* One effect opens a workspace.
LEMMA OneLoad ==
    ASSUME NEW w \in Workspaces, NEW i \in Loaders, NEW l,
           l = [j \in Loaders |-> l[j]], \A j \in Loaders \ {i} : l[j] = Chat!NoLoad,
           l[i] = Opening(w)
    PROVE  /\ l \in [Loaders -> Effects]
           /\ \A j \in Loaders : l[j].pc = "idle" <=> l[j] = Chat!NoLoad
           /\ l[i].pc = "open" /\ l[i].home = w /\ l[i] # Chat!NoLoad
           /\ \A j \in Loaders \ {i} : l[j] = Chat!NoLoad
<1>2. Chat!NoLoad \in Effects /\ Chat!NoLoad.pc = "idle"
  BY DEF Chat!NoLoad, Chat!None, Effects, Homes
<1>4. \A j \in Loaders : l[j] = Opening(w) \/ l[j] = Chat!NoLoad OBVIOUS
<1>5. l \in [Loaders -> Effects]
  <2>1. \A j \in Loaders : l[j] \in Effects BY <1>2, <1>4, Opens
  <2> QED BY <2>1
<1>6. \A j \in Loaders : l[j].pc = "idle" <=> l[j] = Chat!NoLoad BY <1>2, <1>4, Opens
<1> QED BY <1>5, <1>6, Opens

\* The initial state.
LEMMA ChatStarts == ASSUME Chat!Init PROVE ChatInv
<1>0. /\ stored = [w \in Workspaces |-> {}] /\ run = [r \in Chat!Runs |-> Chat!NoRun]
      /\ workspace \in Workspaces /\ shown = "none" /\ view = {}
      /\ send = Chat!NotSending /\ watch = Chat!NoWatch
      /\ poll = [i \in Pollers |-> Chat!NoPoll]
      /\ load = [Chat!NoLoads EXCEPT ![CHOOSE i \in Loaders : TRUE] =
                    [Chat!NoLoad EXCEPT !.pc = "open", !.home = workspace]]
      /\ missed = {} /\ excused = FALSE /\ faults = 0
  BY DEF Chat!Init, Chat!None
<1>1. Chat!Used = {} BY <1>0 DEF Chat!Used, Chat!NoRun, Chat!Runs
<1>2. ServerTyped
  <2>1. Chat!Used = 1..0 /\ 0 \in 0..MaxRuns BY <1>1, WebAppAssumption
  <2>2. \A r \in Chat!Runs : run[r] = [status |-> "none", home |-> "none"]
    BY <1>0 DEF Chat!NoRun, Chat!None
  <2>3. run \in [Chat!Runs -> [status : {"none", "active", "refused", "over"}, home : Homes]]
    BY <1>0 DEF Chat!NoRun, Homes, Chat!None
  <2>4. stored \in [Workspaces -> SUBSET Messages] BY <1>0
  <2> QED BY <2>1, <2>2, <2>3, <2>4 DEF ServerTyped
<1>3. PlaceTyped BY <1>0 DEF PlaceTyped, Homes
<1>a. HistoryTyped
  <2>1. 0 \in 0..MaxFaults BY WebAppAssumption
  <2> QED BY <2>1, <1>0 DEF HistoryTyped
<1>4. SendTyped
  BY <1>0, WebAppAssumption DEF SendTyped, Chat!NotSending, Chat!NoWatch, Homes, Chat!None
<1>5. WatchTyped BY <1>0, WebAppAssumption DEF WatchTyped, Chat!NoWatch
<1>6. PollsTyped BY <1>0, WebAppAssumption DEF PollsTyped, Chat!NoPoll, Polling
<1>7. PICK i \in Loaders : load = [Chat!NoLoads EXCEPT ![i] =
            [Chat!NoLoad EXCEPT !.pc = "open", !.home = workspace]]
  <2>1. (CHOOSE i \in Loaders : TRUE) \in Loaders BY WebAppAssumption
  <2> QED BY <2>1, <1>0
<1>b. /\ load \in [Loaders -> Effects]
      /\ \A j \in Loaders : load[j].pc = "idle" <=> load[j] = Chat!NoLoad
      /\ load[i].pc = "open" /\ load[i].home = workspace /\ load[i] # Chat!NoLoad
      /\ \A j \in Loaders \ {i} : load[j] = Chat!NoLoad
  <2>1. PICK l : l = load OBVIOUS
  <2>2. PICK w \in Workspaces : w = workspace BY <1>0
  <2> DEFINE x == [Chat!NoLoad EXCEPT !.pc = "open", !.home = w]
  <2>3. l = [Chat!NoLoads EXCEPT ![i] = x] BY <1>7, <2>1, <2>2
  <2> HIDE DEF x
  <2>4. l = [j \in Loaders |-> l[j]] /\ l[i] = x
        /\ \A j \in Loaders \ {i} : l[j] = Chat!NoLoad
    BY <2>3 DEF Chat!NoLoads
  <2>5. /\ l = [j \in Loaders |-> l[j]] /\ \A j \in Loaders \ {i} : l[j] = Chat!NoLoad
        /\ l[i] = Opening(w)
    BY <2>4, Opens DEF x
  <2>6. /\ l \in [Loaders -> Effects]
        /\ \A j \in Loaders : l[j].pc = "idle" <=> l[j] = Chat!NoLoad
        /\ l[i].pc = "open" /\ l[i].home = w /\ l[i] # Chat!NoLoad
        /\ \A j \in Loaders \ {i} : l[j] = Chat!NoLoad
    BY <2>5, OneLoad
  <2> QED BY <2>1, <2>2, <2>6
<1>8. LoadsTyped BY <1>b, <1>0 DEF LoadsTyped, Effects
<1>9. RepliesTrue /\ EndsTrue
  BY <1>0 DEF RepliesTrue, EndsTrue, Chat!NoWatch, Polling
<1>10. RunsFollowed
  <2>1. \A r \in Chat!Runs : run[r].status = "none" BY <1>0 DEF Chat!NoRun
  <2> QED BY <2>1 DEF RunsFollowed, Chat!Active
<1>11. Loading
  <2>1. send.pc = "idle" /\ \A j \in Pollers : poll[j] = Chat!NoPoll
    BY <1>0 DEF Chat!NotSending
  <2> QED BY <2>1, <1>b DEF Loading
<1>12. DraftsStayHome BY <1>0 DEF DraftsStayHome, Chat!DraftsStayHome, Chat!NotSending
<1> QED BY <1>2, <1>3, <1>a, <1>4, <1>5, <1>6, <1>8, <1>9, <1>10, <1>11, <1>12
        DEF ChatInv, ChatTyped, Waited

\* The state of the page when nothing changes.
LEMMA ChatStutters == ASSUME ChatInv, UNCHANGED chatVars PROVE ChatInv'
<1>1. Chat!Used' = Chat!Used /\ Count' = Count /\ (\A r : Chat!Active(r)' = Chat!Active(r))
      /\ ServerTyped' /\ RepliesTrue'
  BY SameServer DEF ChatInv, ChatTyped, chatVars
<1>2. ChatTyped'
  BY <1>1 DEF ChatInv, chatVars, ChatTyped, PlaceTyped, SendTyped, WatchTyped, PollsTyped,
              LoadsTyped, HistoryTyped, Polling
<1>3. EndsTrue' /\ RunsFollowed'
  BY <1>1 DEF ChatInv, chatVars, EndsTrue, RunsFollowed, Followed, Polling
<1>4. NewMessage' = NewMessage BY <1>1 DEF NewMessage, Chat!Message
<1>5. Loading => Loading' BY DEF chatVars, Loading, Complete
<1>6. Resting => Resting'
  BY <1>1, <1>4 DEF chatVars, Resting, ViewRests, SendRests, WatchRests, PollsRest,
                    Complete, Owed, Followed, Polling
<1>7. DraftsStayHome' BY DEF ChatInv, chatVars, DraftsStayHome, Chat!DraftsStayHome
<1> QED BY <1>1, <1>2, <1>3, <1>5, <1>6, <1>7 DEF ChatInv, Waited, chatVars

\* The page is loaded again.
LEMMA ReloadStep == ASSUME ChatInv, Chat!Reload PROVE ChatInv'
<1> USE DEF Chat!None
<1>1. Chat!Used' = Chat!Used /\ Count' = Count /\ (\A r : Chat!Active(r)' = Chat!Active(r))
      /\ ServerTyped' /\ RepliesTrue'
  BY SameServer DEF ChatInv, ChatTyped, Chat!Reload, Chat!server
<1>2. PlaceTyped' /\ HistoryTyped'
  BY DEF ChatInv, ChatTyped, PlaceTyped, HistoryTyped, Homes, Chat!Reload
<1>3. SendTyped' /\ WatchTyped'
  BY WebAppAssumption DEF SendTyped, WatchTyped, Chat!Reload, Chat!NotSending, Chat!NoWatch,
                          Homes
<1>4. PollsTyped' BY WebAppAssumption DEF PollsTyped, Polling, Chat!Reload, Chat!NoPoll
<1>5. PICK i \in Loaders : load' = [j \in Loaders |->
            IF j = i THEN [Chat!NoLoad EXCEPT !.pc = "open", !.home = workspace]
            ELSE Chat!NoLoad]
  BY DEF Chat!Reload
<1>6. workspace \in Workspaces /\ workspace' = workspace
  BY DEF ChatInv, ChatTyped, PlaceTyped, Chat!Reload
<1>a. /\ load' \in [Loaders -> Effects]
      /\ \A j \in Loaders : load'[j].pc = "idle" <=> load'[j] = Chat!NoLoad
      /\ load'[i].pc = "open" /\ load'[i].home = workspace /\ load'[i] # Chat!NoLoad
      /\ \A j \in Loaders \ {i} : load'[j] = Chat!NoLoad
  <2>1. PICK l : l = load' OBVIOUS
  <2>2. PICK w \in Workspaces : w = workspace BY <1>6
  <2>3. /\ l = [j \in Loaders |-> l[j]] /\ \A j \in Loaders \ {i} : l[j] = Chat!NoLoad
        /\ l[i] = Opening(w)
    BY <2>1, <2>2, <1>5, Opens
  <2>4. /\ l \in [Loaders -> Effects]
        /\ \A j \in Loaders : l[j].pc = "idle" <=> l[j] = Chat!NoLoad
        /\ l[i].pc = "open" /\ l[i].home = w /\ l[i] # Chat!NoLoad
        /\ \A j \in Loaders \ {i} : l[j] = Chat!NoLoad
    BY <2>3, OneLoad
  <2> QED BY <2>1, <2>2, <2>4
<1>7. LoadsTyped' BY <1>6, <1>a DEF LoadsTyped, Effects
<1>8. EndsTrue' BY DEF EndsTrue, Polling, Chat!Reload, Chat!NoWatch
<1>9. RunsFollowed' BY <1>1 DEF RunsFollowed, Chat!Reload
<1>10. Loading' BY <1>6, <1>a DEF Loading, Chat!Reload, Chat!NotSending
<1>11. DraftsStayHome'
  BY DEF DraftsStayHome, Chat!DraftsStayHome, Chat!Reload, Chat!NotSending
<1> QED BY <1>1, <1>2, <1>3, <1>4, <1>7, <1>8, <1>9, <1>10, <1>11
        DEF ChatInv, ChatTyped, Waited

\* An effect changes, and what is shown: the server, and what follows runs,
\* stay as they are.
LEMMA OnlyLoads ==
    ASSUME ChatInv, UNCHANGED <<stored, run, send, watch, poll, missed>>
    PROVE  /\ ServerTyped' /\ SendTyped' /\ WatchTyped' /\ PollsTyped'
           /\ RepliesTrue' /\ EndsTrue' /\ RunsFollowed'
           /\ (excused' = FALSE => excused = FALSE) => DraftsStayHome'
<1>1. Chat!Used' = Chat!Used /\ Count' = Count /\ (\A r : Chat!Active(r)' = Chat!Active(r))
      /\ ServerTyped' /\ RepliesTrue'
  BY SameServer DEF ChatInv, ChatTyped
<1>2. SendTyped' /\ WatchTyped' /\ PollsTyped'
  BY <1>1 DEF ChatInv, ChatTyped, SendTyped, WatchTyped, PollsTyped, Polling
<1>3. EndsTrue' /\ RunsFollowed'
  BY <1>1 DEF ChatInv, EndsTrue, RunsFollowed, Followed, Polling
<1>4. (excused' = FALSE => excused = FALSE) => DraftsStayHome'
  BY DEF ChatInv, ChatTyped, HistoryTyped, DraftsStayHome, Chat!DraftsStayHome
<1> QED BY <1>1, <1>2, <1>3, <1>4

\* A fault is counted; and who acts beside something in hand is excused.
LEMMA FaultFacts == ASSUME HistoryTyped, Chat!Fault PROVE faults' \in 0..MaxFaults
BY WebAppAssumption DEF HistoryTyped, Chat!Fault

LEMMA ActFacts ==
    ASSUME HistoryTyped, Chat!Act
    PROVE  /\ faults' \in 0..MaxFaults /\ excused' \in BOOLEAN
           /\ ~excused' => ~excused /\ Chat!Quiet
<1>1. CASE Chat!Quiet BY <1>1 DEF HistoryTyped, Chat!Act
<1>2. CASE ~Chat!Quiet
  <2>1. Chat!Fault /\ excused' = TRUE BY <1>2 DEF Chat!Act
  <2> QED BY <2>1, FaultFacts
<1> QED BY <1>1, <1>2

\* Another workspace is chosen.
LEMMA ChooseStep ==
    ASSUME ChatInv, NEW i \in Loaders, NEW w \in Workspaces, Chat!Choose(i, w)
    PROVE  ChatInv'
<1>1. /\ workspace' = w /\ load[i] = Chat!NoLoad /\ Chat!Act
      /\ load' = [load EXCEPT ![i] = [Chat!NoLoad EXCEPT !.pc = "open", !.home = w]]
      /\ UNCHANGED <<stored, run, shown, view, send, watch, poll, missed>>
  BY DEF Chat!Choose, Chat!server
<1>2. faults' \in 0..MaxFaults /\ excused' \in BOOLEAN
      /\ (~excused' => ~excused /\ Chat!Quiet)
  BY <1>1, ActFacts DEF ChatInv, ChatTyped
<1>3. PlaceTyped' /\ HistoryTyped'
  BY <1>1, <1>2 DEF ChatInv, ChatTyped, PlaceTyped, HistoryTyped
<1>4. LoadsTyped'
  <2>1. load' = [load EXCEPT ![i] = Opening(w)] BY <1>1, Opens
  <2> QED BY <2>1, Opens DEF ChatInv, ChatTyped, LoadsTyped, Effects
<1>5. ASSUME ~excused' PROVE Loading'
  <2>1. (\A j \in Loaders : load[j] = Chat!NoLoad) /\ send.pc = "idle"
        /\ \A j \in Pollers : poll[j] = Chat!NoPoll
    BY <1>2, <1>5 DEF Chat!Quiet
  <2>2. load'[i] = Opening(w)
        /\ \A j \in Loaders \ {i} : load'[j] = Chat!NoLoad
    BY <2>1, <1>1, Opens DEF ChatInv, ChatTyped, LoadsTyped
  <2>3. load'[i].pc = "open" /\ load'[i].home = workspace'
    BY <2>2, <1>1, Opens
  <2>4. load'[i] # Chat!NoLoad BY <2>2, Opens
  <2> QED BY <2>1, <2>2, <2>3, <2>4, <1>1 DEF Loading
<1>6. /\ ServerTyped' /\ SendTyped' /\ WatchTyped' /\ PollsTyped'
      /\ RepliesTrue' /\ EndsTrue' /\ RunsFollowed' /\ DraftsStayHome'
  <2>1. excused' = FALSE => excused = FALSE
    BY <1>2 DEF ChatInv, ChatTyped, HistoryTyped
  <2> QED BY <1>1, <2>1, OnlyLoads
<1> QED BY <1>3, <1>4, <1>5, <1>6 DEF ChatInv, ChatTyped, Waited

\* Its conversation is open.
LEMMA OpenedStep == ASSUME ChatInv, NEW i \in Loaders, Chat!Opened(i) PROVE ChatInv'
<1>1. /\ load[i].pc = "open" /\ shown' = load[i].home
      /\ load' = [load EXCEPT ![i].pc = "read", ![i].reply = stored[load[i].home]]
      /\ UNCHANGED <<stored, run, workspace, view, send, watch, poll, missed, excused, faults>>
  BY DEF Chat!Opened, Chat!server
<1>2. load[i] # Chat!NoLoad /\ load[i].home \in Workspaces
  BY <1>1 DEF ChatInv, ChatTyped, LoadsTyped
<1>3. stored[load[i].home] \subseteq Messages BY <1>2 DEF ChatInv, ChatTyped, ServerTyped
<1>4. PlaceTyped' /\ HistoryTyped'
  BY <1>1, <1>2 DEF ChatInv, ChatTyped, PlaceTyped, HistoryTyped, Homes
<1>5. LoadsTyped'
  <2>1. load \in [Loaders -> Effects] BY DEF ChatInv, ChatTyped, LoadsTyped, Effects
  <2>2. PICK reply \in SUBSET Messages : reply = stored[load[i].home] BY <1>3
  <2>3. PICK old \in Effects : old = load[i] BY <2>1
  <2>4. PICK new : new = [old EXCEPT !.pc = "read", !.reply = reply] OBVIOUS
  <2>5. new \in Effects /\ new.pc = "read" /\ new.home = old.home
    BY <2>3, <2>4 DEF Effects
  <2>6. load' = [load EXCEPT ![i] = new] BY <1>1, <2>2, <2>3, <2>4
  <2>7. new # Chat!NoLoad BY <2>5 DEF Chat!NoLoad
  <2>8. load' \in [Loaders -> Effects] BY <2>1, <2>5, <2>6
  <2>9. load'[i] = new /\ \A j \in Loaders \ {i} : load'[j] = load[j] BY <2>1, <2>6
  <2>10. \A j \in Loaders : load'[j].pc = "idle" <=> load'[j] = Chat!NoLoad
    BY <2>5, <2>7, <2>9 DEF ChatInv, ChatTyped, LoadsTyped
  <2>11. \A j \in Loaders : load'[j] # Chat!NoLoad => load'[j].home \in Workspaces
    BY <1>2, <2>3, <2>5, <2>9 DEF ChatInv, ChatTyped, LoadsTyped
  <2> QED BY <2>8, <2>10, <2>11 DEF LoadsTyped, Effects
<1>6. ASSUME ~excused' PROVE Loading'
  <2>1. Loading BY <1>1, <1>2, <1>6 DEF ChatInv, Waited, Resting
  <2>2. /\ load[i].home = workspace /\ send.pc = "idle"
        /\ \A j \in Loaders \ {i} : load[j] = Chat!NoLoad
        /\ \A j \in Pollers : poll[j] = Chat!NoPoll
    BY <2>1, <1>2 DEF Loading
  <2>3. /\ load'[i].pc = "read" /\ load'[i].home = workspace
        /\ load'[i].reply = stored[workspace]
        /\ \A j \in Loaders \ {i} : load'[j] = Chat!NoLoad
    BY <2>2, <1>1 DEF ChatInv, ChatTyped, LoadsTyped
  <2>4. load'[i] # Chat!NoLoad BY <2>3 DEF Chat!NoLoad
  <2>5. Complete(load[i].reply, workspace)' BY <2>3, <1>1 DEF Complete
  <2> QED BY <2>2, <2>3, <2>4, <2>5, <1>1 DEF Loading
<1>7. /\ ServerTyped' /\ SendTyped' /\ WatchTyped' /\ PollsTyped'
      /\ RepliesTrue' /\ EndsTrue' /\ RunsFollowed' /\ DraftsStayHome'
  BY <1>1, OnlyLoads
<1> QED BY <1>4, <1>5, <1>6, <1>7 DEF ChatInv, ChatTyped, Waited

\* Its messages are shown.
LEMMA LoadedStep == ASSUME ChatInv, NEW i \in Loaders, Chat!Loaded(i) PROVE ChatInv'
<1>1. /\ load[i].pc = "read" /\ view' = load[i].reply
      /\ load' = [load EXCEPT ![i] = Chat!NoLoad]
      /\ UNCHANGED <<stored, run, workspace, shown, send, watch, poll, missed, excused,
                     faults>>
  BY DEF Chat!Loaded, Chat!server
<1>2. load[i] # Chat!NoLoad BY <1>1 DEF ChatInv, ChatTyped, LoadsTyped
<1>3. PlaceTyped' /\ HistoryTyped'
  BY <1>1 DEF ChatInv, ChatTyped, PlaceTyped, HistoryTyped, LoadsTyped
<1>4. LoadsTyped' BY <1>1 DEF ChatInv, ChatTyped, LoadsTyped, Chat!NoLoad, Homes, Chat!None
<1>5. ASSUME ~excused' PROVE Resting'
  <2>1. Loading BY <1>1, <1>2, <1>5 DEF ChatInv, Waited, Resting
  <2>2. /\ shown = workspace /\ Complete(load[i].reply, shown) /\ send.pc = "idle"
        /\ \A j \in Loaders \ {i} : load[j] = Chat!NoLoad
        /\ \A j \in Pollers : poll[j] = Chat!NoPoll
    BY <2>1, <1>1, <1>2 DEF Loading
  <2>3. \A j \in Loaders : load'[j] = Chat!NoLoad
    BY <2>2, <1>1 DEF ChatInv, ChatTyped, LoadsTyped
  <2>4. watch'.pc = "done" BY <2>2, <1>1 DEF ChatInv, ChatTyped, SendTyped
  <2>5. ViewRests' BY <2>2, <1>1 DEF ViewRests, Complete
  <2>6. SendRests' /\ WatchRests' /\ PollsRest'
    BY <2>2, <2>4, <1>1 DEF SendRests, WatchRests, PollsRest, Polling
  <2> QED BY <2>2, <2>3, <2>5, <2>6, <1>1 DEF Resting
<1>6. /\ ServerTyped' /\ SendTyped' /\ WatchTyped' /\ PollsTyped'
      /\ RepliesTrue' /\ EndsTrue' /\ RunsFollowed' /\ DraftsStayHome'
  BY <1>1, OnlyLoads
<1> QED BY <1>3, <1>4, <1>5, <1>6 DEF ChatInv, ChatTyped, Waited

\* It is not opened.
LEMMA LoadFailsStep == ASSUME ChatInv, NEW i \in Loaders, Chat!LoadFails(i) PROVE ChatInv'
<1>1. /\ load' = [load EXCEPT ![i] = Chat!NoLoad] /\ excused' = TRUE /\ Chat!Fault
      /\ UNCHANGED <<stored, run, workspace, shown, view, send, watch, poll, missed>>
  BY DEF Chat!LoadFails, Chat!server
<1>2. PlaceTyped' /\ HistoryTyped'
  BY <1>1, WebAppAssumption DEF ChatInv, ChatTyped, PlaceTyped, HistoryTyped, Chat!Fault
<1>3. LoadsTyped' BY <1>1 DEF ChatInv, ChatTyped, LoadsTyped, Chat!NoLoad, Homes, Chat!None
<1>4. /\ ServerTyped' /\ SendTyped' /\ WatchTyped' /\ PollsTyped'
      /\ RepliesTrue' /\ EndsTrue' /\ RunsFollowed' /\ DraftsStayHome'
  BY <1>1, OnlyLoads
<1> QED BY <1>1, <1>2, <1>3, <1>4 DEF ChatInv, ChatTyped, Waited

-----------------------------------------------------------------------------
(* onSend.                                                                 *)

\* The draft to be published is a reply that is on the screen, if there is one.
LEMMA DraftIs ==
    ASSUME PlaceTyped, NEW publish \in BOOLEAN
    PROVE  /\ Chat!DraftFor(publish) \in 0..MaxRuns
           /\ Chat!DraftFor(publish) # 0 =>
                 \E m \in view : m.from = "adam" /\ m.run = Chat!DraftFor(publish)
<1>1. MaxRuns \in Nat BY WebAppAssumption
<1>2. \A d \in Chat!Drafts : \E m \in view : m.from = "adam" /\ m.run = d BY DEF Chat!Drafts
<1>3. Chat!Drafts \subseteq 1..MaxRuns
  BY <1>2 DEF PlaceTyped, Messages, Chat!Runs
<1>4. CASE publish /\ Chat!Drafts # {}
  <2>1. Chat!DraftFor(publish) = CHOOSE d \in Chat!Drafts : \A e \in Chat!Drafts : e <= d
    BY <1>4 DEF Chat!DraftFor, Chat!LastDraft
  <2>2. \E d \in Chat!Drafts : \A e \in Chat!Drafts : e <= d BY <1>1, <1>3, <1>4, Largest
  <2>3. Chat!DraftFor(publish) \in Chat!Drafts BY <2>1, <2>2
  <2>4. PICK d \in Chat!Drafts : d = Chat!DraftFor(publish) BY <2>3
  <2>5. d \in 0..MaxRuns BY <1>1, <1>3
  <2> QED BY <2>4, <2>5, <1>2
<1>5. CASE ~(publish /\ Chat!Drafts # {})
  <2>1. Chat!DraftFor(publish) = 0 BY <1>5 DEF Chat!DraftFor, Chat!LastDraft
  <2> QED BY <2>1, <1>1
<1> QED BY <1>4, <1>5

\* While the page does not watch, only a run just created is followed.
LEMMA Unwatched ==
    ASSUME SendTyped, send.pc # "watch"
    PROVE  /\ watch.pc = "done"
           /\ \A r : Followed(r) <=> send.pc = "run" /\ r = Count
BY DEF SendTyped, Followed

\* A message is sent.
LEMMA SendStep == ASSUME ChatInv, NEW publish \in BOOLEAN, Chat!Send(publish) PROVE ChatInv'
<1> DEFINE d == Chat!DraftFor(publish)
<1>1. /\ send.pc = "idle" /\ shown \in Workspaces /\ Chat!Used # Chat!Runs
      /\ stored' = [stored EXCEPT ![shown] = @ \cup {NewMessage}]
      /\ send' = [pc |-> "message", home |-> shown, workspace |-> workspace, draft |-> d]
      /\ Chat!Act
      /\ UNCHANGED <<run, workspace, shown, view, watch, poll, load, missed>>
  <2>1. shown # "none" BY DEF Chat!Send, Chat!None
  <2>2. shown \in Workspaces BY <2>1 DEF ChatInv, ChatTyped, PlaceTyped, Homes
  <2>3. stored' = [stored EXCEPT ![shown] = @ \cup {NewMessage}]
    BY SameCardinality DEF Chat!Send, NewMessage, Count
  <2> QED BY <2>2, <2>3 DEF Chat!Send
<1>2. faults' \in 0..MaxFaults /\ excused' \in BOOLEAN
      /\ (~excused' => ~excused /\ Chat!Quiet)
  BY <1>1, ActFacts DEF ChatInv, ChatTyped
<1>3. Count + 1 \in Chat!Runs
  <2>1. Count \in 0..MaxRuns /\ Chat!Used = 1..Count BY UsedIs DEF ChatInv, ChatTyped
  <2> QED BY <2>1, <1>1, WebAppAssumption DEF Chat!Runs
<1>4. NewMessage \in Messages BY <1>3 DEF NewMessage, Chat!Message, Messages
<1>5. Chat!Used' = Chat!Used /\ Count' = Count BY <1>1, UsedKept
<1>6. NewMessage' = NewMessage BY <1>5 DEF NewMessage, Chat!Message
<1>7. ServerTyped' BY <1>1, <1>4, <1>5 DEF ChatInv, ChatTyped, ServerTyped
<1>8. d \in 0..MaxRuns /\ (d # 0 => \E m \in view : m.from = "adam" /\ m.run = d)
  BY DraftIs DEF ChatInv, ChatTyped
<1> HIDE DEF d
<1>9. PlaceTyped' /\ HistoryTyped'
  BY <1>1, <1>2 DEF ChatInv, ChatTyped, PlaceTyped, HistoryTyped
<1>10. watch.pc = "done" /\ (\A r : ~Followed(r))
  BY <1>1, Unwatched DEF ChatInv, ChatTyped
<1>11. SendTyped'
  BY <1>1, <1>5, <1>8, <1>9, <1>10 DEF ChatInv, ChatTyped, SendTyped, PlaceTyped, Homes
<1>12. WatchTyped' /\ PollsTyped' /\ LoadsTyped'
  BY <1>1, <1>5 DEF ChatInv, ChatTyped, WatchTyped, PollsTyped, LoadsTyped, Polling
<1>13. \A w \in Workspaces : \A m \in stored'[w] : m \in stored[w] \/ m = NewMessage
  BY <1>1 DEF ChatInv, ChatTyped, ServerTyped
<1>14. RepliesTrue'
  BY <1>1, <1>13 DEF ChatInv, RepliesTrue, NewMessage, Chat!Message
<1>15. EndsTrue' /\ RunsFollowed'
  BY <1>1, <1>5, <1>10 DEF ChatInv, EndsTrue, RunsFollowed, Followed, Polling, Chat!Active
<1>16. ASSUME ~excused' PROVE Resting' /\ DraftsStayHome'
  <2>1. Chat!Quiet /\ ~excused BY <1>2, <1>16
  <2>2. (\A j \in Loaders : load[j] = Chat!NoLoad) /\ \A j \in Pollers : poll[j] = Chat!NoPoll
    BY <2>1 DEF Chat!Quiet
  <2>3. Resting BY <2>1, <2>2 DEF ChatInv, Waited, Loading
  <2>4. stored'[shown] = stored[shown] \cup {NewMessage}
    BY <1>1 DEF ChatInv, ChatTyped, ServerTyped
  <2>5. view \subseteq stored[shown]
        /\ \A m \in stored[shown] \ view : m.from = "adam" /\ m.run \in missed
    <3>1. \A j \in Pollers : poll[j].pc # "finish" BY <2>2 DEF Chat!NoPoll
    <3>2. \A r : ~Owed(r) BY <3>1, <1>10 DEF Owed
    <3> QED BY <3>2, <2>3, <1>1 DEF Resting, ViewRests
  <2>6. ViewRests' BY <2>4, <2>5, <1>1, <1>6 DEF ViewRests
  <2>7. SendRests' BY <2>4, <1>1, <1>6 DEF SendRests
  <2>8. WatchRests' /\ PollsRest' BY <2>2, <1>1, <1>10 DEF WatchRests, PollsRest, Polling
  <2>9. Resting' BY <2>2, <2>3, <2>6, <2>7, <2>8, <1>1 DEF Resting
  <2>10. d # 0 => run[d].home = shown
    BY <2>5, <1>1, <1>8 DEF ChatInv, RepliesTrue
  <2> QED BY <2>9, <2>10, <1>1 DEF DraftsStayHome, Chat!DraftsStayHome
<1>17. excused' => DraftsStayHome' BY DEF DraftsStayHome, Chat!DraftsStayHome
<1> QED BY <1>2, <1>7, <1>9, <1>11, <1>12, <1>14, <1>15, <1>16, <1>17
        DEF ChatInv, ChatTyped, Waited

\* While a message or a run is being created and the user has waited, all is
\* at rest, and no poll is in hand.
LEMMA SendingRests ==
    ASSUME ChatInv, ~excused, send.pc \in {"message", "run"}
    PROVE  /\ Resting /\ watch.pc = "done"
           /\ \A i \in Pollers : poll[i] = Chat!NoPoll
           /\ \A r : Owed(r) <=> send.pc = "run" /\ r = Count
<1>1. Resting BY DEF ChatInv, Waited, Loading
<1>2. \A i \in Pollers : poll[i] = Chat!NoPoll BY <1>1 DEF Resting, PollsRest, Polling
<1>3. \A i \in Pollers : poll[i].pc # "finish" BY <1>2 DEF Chat!NoPoll
<1>4. watch.pc = "done" /\ \A r : Followed(r) <=> send.pc = "run" /\ r = Count
  BY Unwatched DEF ChatInv, ChatTyped
<1> QED BY <1>1, <1>2, <1>3, <1>4 DEF Owed

\* The message is stored, and the run is created or refused.
LEMMA MessageSentStep == ASSUME ChatInv, Chat!MessageSent PROVE ChatInv'
<1>1. PICK x : x = [status |-> IF send.home = send.workspace THEN "active" ELSE "refused",
                    home |-> send.home]
  OBVIOUS
<1>2. /\ send.pc = "message" /\ view' = view \cup {NewMessage}
      /\ run' = [run EXCEPT ![Count + 1] = x]
      /\ send' = [Chat!NotSending EXCEPT !.pc = "run"]
      /\ UNCHANGED <<stored, workspace, shown, watch, poll, load, missed, excused, faults>>
  <2>1. view' = view \cup {NewMessage}
    BY SameCardinality DEF Chat!MessageSent, NewMessage, Count
  <2>2. run' = [run EXCEPT ![Count + 1] = x]
    BY <1>1, SameCardinality DEF Chat!MessageSent, Count
  <2> QED BY <2>1, <2>2 DEF Chat!MessageSent
<1>3. send.home \in Workspaces /\ Chat!Used # Chat!Runs
  BY <1>2 DEF ChatInv, ChatTyped, SendTyped
<1>4. x.status \in {"active", "refused"} /\ x.home = send.home
      /\ x \in [status : {"none", "active", "refused", "over"}, home : Homes]
  BY <1>1, <1>3 DEF Homes
<1>5. /\ Count + 1 \in Chat!Runs /\ Count + 1 \notin Chat!Used
      /\ Chat!Used' = 1..(Count + 1) /\ Count' = Count + 1
      /\ run[Count + 1].status = "none"
  BY <1>2, <1>3, <1>4, OneMore DEF ChatInv, ChatTyped
<1>6. PICK n \in Nat : n = Count /\ Chat!Used = 1..n /\ n + 1 \in 0..MaxRuns
  <2>1. Count \in 0..MaxRuns /\ Chat!Used = 1..Count BY UsedIs DEF ChatInv, ChatTyped
  <2> QED BY <2>1, <1>5, WebAppAssumption DEF Chat!Runs
<1>7. \A r \in Chat!Runs : r # n + 1 => run'[r] = run[r]
  BY <1>2, <1>6 DEF ChatInv, ChatTyped, ServerTyped
<1>8. run'[n + 1] = x BY <1>2, <1>5, <1>6 DEF ChatInv, ChatTyped, ServerTyped
<1>9. Chat!Used \subseteq Chat!Used' /\ \A r \in Chat!Used : r \in Chat!Runs /\ r # n + 1
  <2>1. 1..n \subseteq 1..(n + 1) OBVIOUS
  <2> QED BY <2>1, <1>5, <1>6, UsedAreRuns
<1>10. ServerTyped'
  <2>1. run' \in [Chat!Runs -> [status : {"none", "active", "refused", "over"}, home : Homes]]
    BY <1>2, <1>4 DEF ChatInv, ChatTyped, ServerTyped
  <2>2. \A r \in Chat!Runs : run'[r].status # "none" => run'[r].home \in Workspaces
    BY <1>3, <1>4, <1>7, <1>8 DEF ChatInv, ChatTyped, ServerTyped
  <2>3. \E k \in 0..MaxRuns : Chat!Used' = 1..k BY <1>5, <1>6
  <2> QED BY <2>1, <2>2, <2>3, <1>2 DEF ChatInv, ChatTyped, ServerTyped
<1>11. PlaceTyped' /\ HistoryTyped'
  <2>1. NewMessage \in Messages BY <1>5 DEF NewMessage, Chat!Message, Messages
  <2> QED BY <2>1, <1>2 DEF ChatInv, ChatTyped, PlaceTyped, HistoryTyped
<1>12. send'.pc = "run" /\ watch.pc = "done" /\ \A r : ~Followed(r)
  BY <1>2, Unwatched DEF ChatInv, ChatTyped, Chat!NotSending
<1>13. SendTyped'
  <2>1. send' \in [pc : {"idle", "message", "run", "watch"}, home : Homes,
                   workspace : Homes, draft : 0..MaxRuns]
    <3>1. Chat!NotSending \in [pc : {"idle", "message", "run", "watch"}, home : Homes,
                               workspace : Homes, draft : 0..MaxRuns]
      BY WebAppAssumption DEF Chat!NotSending, Chat!None, Homes
    <3> QED BY <3>1, <1>2
  <2>2. n + 1 \in 1..(n + 1) OBVIOUS
  <2> QED BY <2>1, <2>2, <1>2, <1>5, <1>6, <1>12 DEF SendTyped
<1>14. WatchTyped' /\ PollsTyped' /\ LoadsTyped'
  BY <1>2, <1>9 DEF ChatInv, ChatTyped, WatchTyped, PollsTyped, LoadsTyped, Polling
<1>15. RepliesTrue'
  <2>1. ASSUME NEW w \in Workspaces, NEW m \in stored[w], m.from = "adam"
        PROVE  run'[m.run].home = w /\ run'[m.run].status = "over"
    <3>1. m.run \in Chat!Runs /\ run[m.run].home = w /\ run[m.run].status = "over"
      BY <2>1 DEF ChatInv, ChatTyped, ServerTyped, RepliesTrue, Messages
    <3> QED BY <3>1, <1>5, <1>6, <1>7
  <2> QED BY <2>1, <1>2 DEF RepliesTrue
<1>16. EndsTrue'
  <2>1. ASSUME NEW i \in Pollers, Polling(i) PROVE ~Chat!Active(poll[i].run)'
    BY <2>1, <1>2, <1>7, <1>9 DEF ChatInv, ChatTyped, PollsTyped, EndsTrue, Chat!Active
  <2> QED BY <2>1, <1>2, <1>12 DEF EndsTrue, Polling
<1>17. RunsFollowed'
  <2>1. ASSUME NEW r \in Chat!Runs, Chat!Active(r)', r # n + 1 PROVE r \in missed
    BY <2>1, <1>7, <1>12 DEF ChatInv, RunsFollowed, Chat!Active
  <2> QED BY <2>1, <1>2, <1>5, <1>6, <1>12 DEF RunsFollowed, Followed
<1>18. ASSUME ~excused' PROVE Resting'
  <2>1. /\ Resting /\ (\A i \in Pollers : poll[i] = Chat!NoPoll) /\ \A r : ~Owed(r)
    BY <1>2, <1>18, SendingRests
  <2>2. send.home = shown /\ NewMessage \in stored[shown] /\ view \subseteq stored[shown]
        /\ \A m \in stored[shown] \ view :
              m = NewMessage \/ (m.from = "adam" /\ m.run \in missed)
    BY <2>1, <1>2 DEF Resting, SendRests, ViewRests
  <2>3. ViewRests' BY <2>2, <1>2 DEF ViewRests
  <2>4. SendRests' BY <2>2, <1>2, <1>4, <1>5, <1>6, <1>8, <1>12 DEF SendRests
  <2>5. WatchRests' /\ PollsRest' BY <2>1, <1>2, <1>12 DEF WatchRests, PollsRest, Polling
  <2> QED BY <2>1, <2>3, <2>4, <2>5, <1>2 DEF Resting
<1>19. DraftsStayHome' BY <1>12 DEF DraftsStayHome, Chat!DraftsStayHome
<1> QED BY <1>10, <1>11, <1>13, <1>14, <1>15, <1>16, <1>17, <1>18, <1>19
        DEF ChatInv, ChatTyped, Waited

\* A watch begins: its run, and whether that was over by then.
Watching(r, over) == [Chat!NoWatch EXCEPT !.pc = "rest", !.run = r, !.over = over]
Watches == [pc : {"done", "rest", "open", "stream", "finish", "retry"}, run : 0..MaxRuns,
            over : BOOLEAN, ticking : BOOLEAN, aborted : BOOLEAN, reply : SUBSET Messages]

LEMMA NewWatch ==
    ASSUME NEW r \in 0..MaxRuns, NEW over \in BOOLEAN
    PROVE  /\ Watching(r, over) \in Watches /\ Watching(r, over) # Chat!NoWatch
           /\ Watching(r, over).pc = "rest" /\ Watching(r, over).run = r
           /\ Watching(r, over).over = over /\ Watching(r, over).aborted = FALSE
<1> DEFINE x == Watching(r, over)
<1>1. Chat!NoWatch \in Watches /\ Chat!NoWatch.aborted = FALSE /\ Chat!NoWatch.pc = "done"
  BY WebAppAssumption DEF Chat!NoWatch, Watches
<1>2. x.pc = "rest" /\ x.run = r /\ x.over = over /\ x.aborted = FALSE
  BY <1>1 DEF Watching, Watches
<1>3. x \in Watches BY <1>1 DEF Watching, Watches
<1> QED BY <1>1, <1>2, <1>3

\* The server, what is shown and the effects stay as they are.
LEMMA OnlyHands ==
    ASSUME ChatInv, UNCHANGED <<stored, run, workspace, shown, load>>
    PROVE  /\ Chat!Used' = Chat!Used /\ Count' = Count /\ NewMessage' = NewMessage
           /\ (\A r : Chat!Active(r)' = Chat!Active(r))
           /\ ServerTyped' /\ RepliesTrue' /\ LoadsTyped'
<1>1. Chat!Used' = Chat!Used /\ Count' = Count /\ (\A r : Chat!Active(r)' = Chat!Active(r))
      /\ ServerTyped' /\ RepliesTrue'
  BY SameServer DEF ChatInv, ChatTyped
<1>2. NewMessage' = NewMessage BY <1>1 DEF NewMessage, Chat!Message
<1>3. LoadsTyped' BY DEF ChatInv, ChatTyped, LoadsTyped
<1> QED BY <1>1, <1>2, <1>3

\* The run that was created is watched; one that was refused is not.
LEMMA RunCreatedStep == ASSUME ChatInv, Chat!RunCreated PROVE ChatInv'
<1>1. /\ send.pc = "run"
      /\ UNCHANGED <<stored, run, workspace, shown, view, poll, load, missed, excused, faults>>
  BY DEF Chat!RunCreated, Chat!server
<1>2. /\ Chat!Used' = Chat!Used /\ Count' = Count /\ NewMessage' = NewMessage
      /\ (\A r : Chat!Active(r)' = Chat!Active(r))
      /\ ServerTyped' /\ RepliesTrue' /\ LoadsTyped'
  BY <1>1, OnlyHands
<1>3. PlaceTyped' /\ HistoryTyped'
  BY <1>1 DEF ChatInv, ChatTyped, PlaceTyped, HistoryTyped
<1>4. PollsTyped' BY <1>1, <1>2 DEF ChatInv, ChatTyped, PollsTyped, Polling
<1>5. watch.pc = "done" /\ \A r : Followed(r) <=> r = Count
  BY <1>1, Unwatched DEF ChatInv, ChatTyped
<1>6. PICK n \in 0..MaxRuns : n = Count /\ n \in Chat!Used
  <2>1. Count \in 0..MaxRuns /\ Chat!Used = 1..Count BY UsedIs DEF ChatInv, ChatTyped
  <2>2. Chat!Used # {} BY <1>1 DEF ChatInv, ChatTyped, SendTyped
  <2> QED BY <2>1, <2>2, WebAppAssumption
<1>7. ASSUME ~excused
      PROVE  /\ Resting /\ (\A i \in Pollers : poll[i] = Chat!NoPoll)
             /\ run[n].home = shown
             /\ view \subseteq stored[shown]
             /\ \A m \in stored[shown] \ view :
                   /\ m.from = "adam" /\ (m.run \in missed \/ m.run = n)
                   /\ run[m.run].status = "over"
  <2>1. /\ Resting /\ (\A i \in Pollers : poll[i] = Chat!NoPoll)
        /\ \A r : Owed(r) <=> r = n
    BY <1>1, <1>6, <1>7, SendingRests
  <2>2. shown \in Workspaces BY <2>1 DEF ChatInv, ChatTyped, PlaceTyped, Resting
  <2> QED BY <2>1, <2>2, <1>1, <1>6 DEF Resting, ViewRests, SendRests, ChatInv, RepliesTrue
<1>8. CASE run[n].status = "refused"
  <2>1. send' = Chat!NotSending /\ watch' = watch
    BY <1>6, <1>8, SameCardinality DEF Chat!RunCreated, Count
  <2>2. send'.pc = "idle" /\ watch'.pc = "done" BY <2>1, <1>5 DEF Chat!NotSending
  <2>3. SendTyped'
    BY <2>1, <2>2, WebAppAssumption DEF SendTyped, Chat!NotSending, Chat!None, Homes
  <2>4. WatchTyped' BY <2>1, <1>2 DEF ChatInv, ChatTyped, WatchTyped
  <2>5. EndsTrue' BY <2>1, <1>1, <1>2 DEF ChatInv, EndsTrue, Polling
  <2>6. RunsFollowed'
    BY <1>1, <1>2, <1>5, <1>6, <1>8 DEF ChatInv, RunsFollowed, Chat!Active
  <2>7. ASSUME ~excused' PROVE Resting'
    <3>1. ~excused BY <2>7, <1>1
    <3>2. ViewRests' BY <3>1, <1>1, <1>7, <1>8 DEF ViewRests
    <3>3. SendRests' /\ WatchRests' /\ PollsRest'
      BY <3>1, <2>2, <1>1, <1>7 DEF SendRests, WatchRests, PollsRest, Polling
    <3> QED BY <3>1, <3>2, <3>3, <1>1, <1>7 DEF Resting
  <2>8. DraftsStayHome' BY <2>2 DEF DraftsStayHome, Chat!DraftsStayHome
  <2> QED BY <2>3, <2>4, <2>5, <2>6, <2>7, <2>8, <1>2, <1>3, <1>4
          DEF ChatInv, ChatTyped, Waited
<1>9. CASE run[n].status # "refused"
  <2>1. /\ send' = [send EXCEPT !.pc = "watch"]
        /\ watch' = [Chat!NoWatch EXCEPT !.pc = "rest", !.run = n, !.over = ~Chat!Active(n)]
    BY <1>6, <1>9, SameCardinality DEF Chat!RunCreated, Count
  <2>2. PICK over \in BOOLEAN : over = ~Chat!Active(n) BY DEF Chat!Active
  <2>3. PICK x : x = watch' OBVIOUS
  <2>4. /\ x \in Watches
        /\ x.pc = "rest" /\ x.run = n /\ x.over = over /\ x.aborted = FALSE
        /\ x # Chat!NoWatch
    <3>1. x = Watching(n, over) BY <2>1, <2>2, <2>3 DEF Watching
    <3> QED BY <3>1, NewWatch
  <2>5. send'.pc = "watch" BY <2>1 DEF ChatInv, ChatTyped, SendTyped
  <2>6. SendTyped'
    BY <2>1, <2>3, <2>4, <2>5 DEF ChatInv, ChatTyped, SendTyped
  <2>7. WatchTyped' BY <2>3, <2>4, <1>2, <1>6 DEF WatchTyped, Watches
  <2>8. EndsTrue' BY <2>2, <2>3, <2>4, <1>1, <1>2 DEF ChatInv, EndsTrue, Polling
  <2>9. Followed(n)' BY <2>3, <2>4 DEF Followed
  <2>10. RunsFollowed' BY <2>9, <1>1, <1>2, <1>5, <1>6 DEF ChatInv, RunsFollowed
  <2>11. ASSUME ~excused' PROVE Resting'
    <3>1. ~excused BY <2>11, <1>1
    <3>2. Owed(n)' BY <2>9 DEF Owed
    <3>3. ViewRests' BY <3>1, <3>2, <1>1, <1>7 DEF ViewRests
    <3>4. SendRests' /\ WatchRests' /\ PollsRest'
      BY <3>1, <2>3, <2>4, <2>5, <1>1, <1>7 DEF SendRests, WatchRests, PollsRest, Polling
    <3> QED BY <3>1, <3>3, <3>4, <1>1, <1>7 DEF Resting
  <2>12. DraftsStayHome' BY <2>5 DEF DraftsStayHome, Chat!DraftsStayHome
  <2> QED BY <2>6, <2>7, <2>8, <2>10, <2>11, <2>12, <1>2, <1>3, <1>4
          DEF ChatInv, ChatTyped, Waited
<1> QED BY <1>8, <1>9

\* Creating the message or the run fails.
LEMMA SendFailsStep == ASSUME ChatInv, Chat!SendFails PROVE ChatInv'
<1>1. /\ send.pc \in {"message", "run"} /\ Chat!Fault /\ send' = Chat!NotSending
      /\ excused' = TRUE /\ missed' = missed \cup {r \in Chat!Runs : Chat!Active(r)}
      /\ UNCHANGED <<workspace, shown, view, watch, poll, load>>
  BY DEF Chat!SendFails
<1>2. PlaceTyped' BY <1>1 DEF ChatInv, ChatTyped, PlaceTyped
<1>3. HistoryTyped' BY <1>1, FaultFacts DEF ChatInv, ChatTyped, HistoryTyped
<1>4. watch.pc = "done" /\ send'.pc = "idle"
  BY <1>1, Unwatched DEF ChatInv, ChatTyped, Chat!NotSending
<1>5. SendTyped'
  BY <1>1, <1>4, WebAppAssumption DEF SendTyped, Chat!NotSending, Chat!None, Homes
<1>6. LoadsTyped' BY <1>1 DEF ChatInv, ChatTyped, LoadsTyped
<1>7. DraftsStayHome' /\ Waited' BY <1>1, <1>4 DEF DraftsStayHome, Chat!DraftsStayHome, Waited
<1>8. CASE send.pc = "run"
  <2>1. UNCHANGED <<stored, run>> BY <1>8 DEF Chat!SendFails, Chat!server
  <2>2. Chat!Used' = Chat!Used /\ (\A r : Chat!Active(r)' = Chat!Active(r))
        /\ ServerTyped' /\ RepliesTrue'
    BY <2>1, SameServer DEF ChatInv, ChatTyped
  <2>3. WatchTyped' /\ PollsTyped'
    BY <2>2, <1>1 DEF ChatInv, ChatTyped, WatchTyped, PollsTyped, Polling
  <2>4. EndsTrue' /\ RunsFollowed'
    BY <2>2, <1>1, <1>4 DEF ChatInv, EndsTrue, Polling, RunsFollowed
  <2> QED BY <2>2, <2>3, <2>4, <1>2, <1>3, <1>5, <1>6, <1>7 DEF ChatInv, ChatTyped
<1>9. CASE send.pc = "message"
  <2>1. PICK x : x = [Chat!NoRun EXCEPT !.status = "refused", !.home = send.home] OBVIOUS
  <2>2. run' = [run EXCEPT ![Count + 1] = x]
    BY <2>1, <1>9, SameCardinality DEF Chat!SendFails, Count
  <2>3. stored' \in {stored, [stored EXCEPT ![send.home] = @ \ {NewMessage}]}
    BY <1>9, SameCardinality DEF Chat!SendFails, Count, NewMessage
  <2>4. send.home \in Workspaces /\ Chat!Used # Chat!Runs
    BY <1>9 DEF ChatInv, ChatTyped, SendTyped
  <2>5. x.status = "refused" /\ x.home = send.home
        /\ x \in [status : {"none", "active", "refused", "over"}, home : Homes]
    <3>1. Chat!NoRun \in [status : {"none", "active", "refused", "over"}, home : Homes]
      BY DEF Chat!NoRun, Chat!None, Homes
    <3> QED BY <3>1, <2>1, <2>4 DEF Homes
  <2>6. /\ Count + 1 \in Chat!Runs /\ Count + 1 \notin Chat!Used
        /\ Chat!Used' = 1..(Count + 1) /\ run[Count + 1].status = "none"
    BY <2>2, <2>4, <2>5, OneMore DEF ChatInv, ChatTyped
  <2>7. PICK n \in Nat : n = Count /\ Chat!Used = 1..n /\ n + 1 \in 0..MaxRuns
    <3>1. Count \in 0..MaxRuns /\ Chat!Used = 1..Count BY UsedIs DEF ChatInv, ChatTyped
    <3> QED BY <3>1, <2>6, WebAppAssumption DEF Chat!Runs
  <2>8. \A r \in Chat!Runs : r # n + 1 => run'[r] = run[r]
    BY <2>2, <2>7 DEF ChatInv, ChatTyped, ServerTyped
  <2>9. run'[n + 1] = x BY <2>2, <2>6, <2>7 DEF ChatInv, ChatTyped, ServerTyped
  <2>10. Chat!Used \subseteq Chat!Used' /\ \A r \in Chat!Used : r \in Chat!Runs /\ r # n + 1
    <3>1. 1..n \subseteq 1..(n + 1) OBVIOUS
    <3> QED BY <3>1, <2>6, <2>7, UsedAreRuns
  <2>11. \A w \in Workspaces : stored'[w] \subseteq stored[w]
    BY <2>3, <2>4 DEF ChatInv, ChatTyped, ServerTyped
  <2>12. ServerTyped'
    <3>1. run' \in [Chat!Runs ->
                        [status : {"none", "active", "refused", "over"}, home : Homes]]
      BY <2>2, <2>5 DEF ChatInv, ChatTyped, ServerTyped
    <3>2. \A r \in Chat!Runs : run'[r].status # "none" => run'[r].home \in Workspaces
      BY <2>4, <2>5, <2>8, <2>9 DEF ChatInv, ChatTyped, ServerTyped
    <3>3. \E k \in 0..MaxRuns : Chat!Used' = 1..k BY <2>6, <2>7
    <3>4. stored' \in [Workspaces -> SUBSET Messages]
      BY <2>3, <2>4 DEF ChatInv, ChatTyped, ServerTyped
    <3> QED BY <3>1, <3>2, <3>3, <3>4 DEF ServerTyped
  <2>13. WatchTyped' /\ PollsTyped'
    BY <2>10, <1>1 DEF ChatInv, ChatTyped, WatchTyped, PollsTyped, Polling
  <2>14. RepliesTrue'
    <3>1. ASSUME NEW w \in Workspaces, NEW m \in stored[w], m.from = "adam"
          PROVE  run'[m.run].home = w /\ run'[m.run].status = "over"
      <4>1. m.run \in Chat!Runs /\ run[m.run].home = w /\ run[m.run].status = "over"
        BY <3>1 DEF ChatInv, ChatTyped, ServerTyped, RepliesTrue, Messages
      <4> QED BY <4>1, <2>6, <2>7, <2>8
    <3> QED BY <3>1, <2>11 DEF RepliesTrue
  <2>15. EndsTrue'
    <3>1. ASSUME NEW i \in Pollers, Polling(i) PROVE ~Chat!Active(poll[i].run)'
      BY <3>1, <1>1, <2>8, <2>10 DEF ChatInv, ChatTyped, PollsTyped, EndsTrue, Chat!Active
    <3> QED BY <3>1, <1>1, <1>4 DEF EndsTrue, Polling
  <2>16. RunsFollowed'
    <3>1. ASSUME NEW r \in Chat!Runs, Chat!Active(r)' PROVE r \in missed'
      <4>1. r # n + 1 BY <3>1, <2>5, <2>9 DEF Chat!Active
      <4>2. Chat!Active(r) BY <3>1, <4>1, <2>8 DEF Chat!Active
      <4> QED BY <4>2, <1>1
    <3> QED BY <3>1 DEF RunsFollowed
  <2> QED BY <2>12, <2>13, <2>14, <2>15, <2>16, <1>2, <1>3, <1>5, <1>6, <1>7
          DEF ChatInv, ChatTyped
<1> QED BY <1>1, <1>8, <1>9

-----------------------------------------------------------------------------
(* watchRun.                                                               *)

\* While the page watches and the user has waited, all is at rest.
LEMMA WatchingRests ==
    ASSUME ChatInv, watch.pc # "done"
    PROVE  /\ send.pc = "watch" /\ watch.run \in Chat!Runs
           /\ run[watch.run].home \in Workspaces
           /\ Chat!Replies(watch.run) \subseteq Messages
           /\ ~excused => Resting
<1>1. send.pc = "watch" /\ watch.run \in Chat!Used
  BY DEF ChatInv, ChatTyped, SendTyped, WatchTyped
<1>2. watch.run \in Chat!Runs /\ run[watch.run].home \in Workspaces
  BY <1>1, UsedAreRuns DEF ChatInv, ChatTyped, ServerTyped
<1>3. Chat!Replies(watch.run) \subseteq Messages
  BY <1>2 DEF ChatInv, ChatTyped, ServerTyped, Chat!Replies
<1>4. ~excused => Resting BY <1>1 DEF ChatInv, Waited, Loading
<1> QED BY <1>1, <1>2, <1>3, <1>4

\* The watch goes on with its run: it takes it for ended only if it has, and
\* asks for its messages when it has.
LEMMA WatchGoesOn ==
    ASSUME ChatInv, watch.pc # "done", watch' \in Watches, watch'.pc # "done",
           watch'.run = watch.run, watch'.aborted = watch.aborted,
           watch'.over \/ watch'.pc = "finish" => ~Chat!Active(watch.run),
           watch'.pc = "finish" => watch'.reply = Chat!Replies(watch.run),
           faults' \in 0..MaxFaults,
           UNCHANGED <<stored, run, workspace, shown, view, send, poll, load, missed, excused>>
    PROVE  ChatInv'
<1>1. /\ Chat!Used' = Chat!Used /\ Count' = Count /\ NewMessage' = NewMessage
      /\ (\A r : Chat!Active(r)' = Chat!Active(r))
      /\ ServerTyped' /\ RepliesTrue' /\ LoadsTyped'
  BY OnlyHands
<1>2. PlaceTyped' /\ HistoryTyped' BY DEF ChatInv, ChatTyped, PlaceTyped, HistoryTyped
<1>3. PollsTyped' BY <1>1 DEF ChatInv, ChatTyped, PollsTyped, Polling
<1>4. SendTyped' BY <1>1 DEF ChatInv, ChatTyped, SendTyped
<1>5. WatchTyped'
  <2>1. watch' # Chat!NoWatch BY DEF Chat!NoWatch
  <2> QED BY <2>1, <1>1 DEF ChatInv, ChatTyped, WatchTyped, Watches
<1>6. EndsTrue' BY <1>1 DEF ChatInv, EndsTrue, Polling
<1>7. \A r : Followed(r)' = Followed(r) BY <1>1 DEF Followed
<1>8. RunsFollowed' BY <1>1, <1>7 DEF ChatInv, RunsFollowed
<1>9. ASSUME ~excused' PROVE Resting'
  <2>1. Resting BY <1>9, WatchingRests
  <2>2. \A r : Owed(r)' = Owed(r) BY <1>7 DEF Owed
  <2>3. ViewRests' BY <2>1, <2>2, <1>1 DEF Resting, ViewRests
  <2>4. SendRests' BY <2>1, <1>1 DEF Resting, SendRests
  <2>5. WatchRests'
    <3>1. run[watch.run].home = shown BY <2>1 DEF Resting, WatchRests
    <3>2. watch'.pc = "finish" => watch'.reply = stored[shown] BY <3>1 DEF Chat!Replies
    <3> QED BY <3>1, <3>2 DEF WatchRests, Complete
  <2>6. PollsRest' BY <2>1 DEF Resting, PollsRest, Polling, Complete
  <2> QED BY <2>1, <2>3, <2>4, <2>5, <2>6 DEF Resting
<1>10. DraftsStayHome' BY DEF ChatInv, DraftsStayHome, Chat!DraftsStayHome
<1> QED BY <1>1, <1>2, <1>3, <1>4, <1>5, <1>6, <1>8, <1>9, <1>10
        DEF ChatInv, ChatTyped, Waited

\* The watch ends: it was aborted, or its messages are shown, or it gives up.
LEMMA WatchEnds ==
    ASSUME ChatInv, watch.pc # "done", Chat!Ended,
           view' = view \/ (watch.pc = "finish" /\ view' = watch.reply),
           \/ watch.aborted \/ (watch.pc = "finish" /\ view' = watch.reply)
           \/ watch.run \in missed',
           missed \subseteq missed', missed' \subseteq Chat!Runs, faults' \in 0..MaxFaults,
           UNCHANGED <<stored, run, workspace, shown, poll, load, excused>>
    PROVE  ChatInv'
<1>1. /\ Chat!Used' = Chat!Used /\ Count' = Count /\ NewMessage' = NewMessage
      /\ (\A r : Chat!Active(r)' = Chat!Active(r))
      /\ ServerTyped' /\ RepliesTrue' /\ LoadsTyped'
  BY OnlyHands
<1>2. PlaceTyped' /\ HistoryTyped'
  BY DEF ChatInv, ChatTyped, PlaceTyped, HistoryTyped, WatchTyped
<1>3. PollsTyped' BY <1>1 DEF ChatInv, ChatTyped, PollsTyped, Polling
<1>4. /\ watch' = Chat!NoWatch /\ watch'.pc = "done"
      /\ send' = Chat!NotSending /\ send'.pc = "idle"
  BY DEF Chat!Ended, Chat!NoWatch, Chat!NotSending
<1>5. SendTyped' /\ WatchTyped'
  BY <1>4, WebAppAssumption
  DEF SendTyped, WatchTyped, Chat!NotSending, Chat!NoWatch, Chat!None, Homes
<1>6. EndsTrue' BY <1>1, <1>4 DEF ChatInv, EndsTrue, Polling
<1>7. send.pc = "watch" BY WatchingRests
<1>8. \A r : Followed(r) => ~watch.aborted /\ watch.run = r BY <1>7 DEF Followed
<1>9. RunsFollowed' BY <1>1, <1>8 DEF ChatInv, RunsFollowed, EndsTrue
<1>10. ASSUME ~excused' PROVE Resting'
  <2>1. Resting BY <1>10, WatchingRests
  <2>2. CASE watch.pc = "finish" /\ view' = watch.reply
    <3>1. Complete(watch.reply, shown) BY <2>1, <2>2 DEF Resting, WatchRests
    <3> QED BY <3>1, <2>1, <2>2, <1>4 DEF Resting, ViewRests, Complete, SendRests, WatchRests,
                                      PollsRest, Polling
  <2>3. CASE view' = view /\ (watch.aborted \/ watch.run \in missed')
    <3>1. ASSUME NEW r, Owed(r) PROVE r \in missed' \/ Owed(r)'
      BY <3>1, <2>3, <1>8 DEF Owed
    <3>2. ViewRests' BY <3>1, <2>1, <2>3, <1>7 DEF Resting, ViewRests
    <3>3. SendRests' /\ WatchRests' BY <1>4 DEF SendRests, WatchRests
    <3>4. PollsRest' BY <2>1, <1>4 DEF Resting, PollsRest, Polling, Complete
    <3> QED BY <3>2, <3>3, <3>4, <2>1 DEF Resting
  <2> QED BY <2>2, <2>3
<1>11. DraftsStayHome' BY <1>4 DEF DraftsStayHome, Chat!DraftsStayHome
<1> QED BY <1>1, <1>2, <1>3, <1>5, <1>6, <1>9, <1>10, <1>11 DEF ChatInv, ChatTyped, Waited

\* The watch asks for the messages of its run, which is over.
LEMMA FinishingIs ==
    ASSUME ChatInv, watch.pc # "done"
    PROVE  /\ Chat!Finishing(watch) \in Watches
           /\ Chat!Finishing(watch).pc = "finish" /\ Chat!Finishing(watch).run = watch.run
           /\ Chat!Finishing(watch).aborted = watch.aborted
           /\ ~Chat!Finishing(watch).over
           /\ Chat!Finishing(watch).reply = Chat!Replies(watch.run)
<1>1. watch \in Watches BY DEF ChatInv, ChatTyped, WatchTyped, Watches
<1>2. Chat!Replies(watch.run) \in SUBSET Messages BY WatchingRests
<1> QED BY <1>1, <1>2 DEF Chat!Finishing, Watches

\* What the state of the watch says of its run.
LEMMA WatchFacts ==
    ASSUME ChatInv
    PROVE  /\ watch \in Watches
           /\ watch.pc # "done" /\ (watch.over \/ watch.aborted \/ watch.pc = "finish")
                 => ~Chat!Active(watch.run)
           /\ faults \in 0..MaxFaults /\ missed \subseteq Chat!Runs
BY DEF ChatInv, ChatTyped, WatchTyped, HistoryTyped, EndsTrue, Watches

\* REST answers.
LEMMA ReconstitutedStep == ASSUME ChatInv, Chat!Reconstituted PROVE ChatInv'
<1>1. /\ watch.pc = "rest"
      /\ UNCHANGED <<stored, run, workspace, shown, view, send, poll, load, missed, excused,
                     faults>>
  BY DEF Chat!Reconstituted, Chat!server
<1>2. CASE watch.over
  <2>1. watch' = Chat!Finishing(watch) BY <1>2 DEF Chat!Reconstituted
  <2> QED BY <2>1, <1>1, <1>2, FinishingIs, WatchFacts, WatchGoesOn
<1>3. CASE ~watch.over
  <2>1. PICK over \in BOOLEAN : over = ~Chat!Active(watch.run) BY DEF Chat!Active
  <2>2. watch' = [watch EXCEPT !.pc = "open", !.ticking = TRUE, !.over = over]
    BY <2>1, <1>3 DEF Chat!Reconstituted
  <2>3. /\ watch' \in Watches /\ watch'.pc = "open" /\ watch'.run = watch.run
        /\ watch'.aborted = watch.aborted /\ watch'.over = over
    BY <2>2, WatchFacts DEF Watches
  <2> QED BY <2>1, <2>3, <1>1, WatchFacts, WatchGoesOn
<1> QED BY <1>2, <1>3

\* The stream is open.
LEMMA SnapshotStep == ASSUME ChatInv, Chat!Snapshot PROVE ChatInv'
<1>1. /\ watch.pc = "open"
      /\ UNCHANGED <<stored, run, workspace, shown, view, send, poll, load, missed, excused,
                     faults>>
  BY DEF Chat!Snapshot, Chat!server
<1>2. CASE watch.over
  <2>1. watch' = Chat!Finishing(watch) BY <1>2 DEF Chat!Snapshot
  <2> QED BY <2>1, <1>1, <1>2, FinishingIs, WatchFacts, WatchGoesOn
<1>3. CASE ~watch.over
  <2>1. watch' = [watch EXCEPT !.pc = "stream"] BY <1>3 DEF Chat!Snapshot
  <2>2. /\ watch' \in Watches /\ watch'.pc = "stream" /\ watch'.run = watch.run
        /\ watch'.aborted = watch.aborted /\ watch'.over = watch.over
    BY <2>1, WatchFacts DEF Watches
  <2> QED BY <2>2, <1>1, <1>3, WatchFacts, WatchGoesOn
<1> QED BY <1>2, <1>3

\* The stream says that the run has ended.
LEMMA EndStreamedStep == ASSUME ChatInv, Chat!EndStreamed PROVE ChatInv'
<1>1. /\ watch.pc = "stream" /\ ~Chat!Active(watch.run)
      /\ watch' = [Chat!Finishing(watch) EXCEPT !.ticking = FALSE]
      /\ UNCHANGED <<stored, run, workspace, shown, view, send, poll, load, missed, excused,
                     faults>>
  BY DEF Chat!EndStreamed, Chat!server
<1>2. PICK x \in Watches :
        /\ x = Chat!Finishing(watch) /\ x.pc = "finish" /\ x.run = watch.run
        /\ x.aborted = watch.aborted /\ ~x.over /\ x.reply = Chat!Replies(watch.run)
  BY <1>1, FinishingIs
<1>3. watch' = [x EXCEPT !.ticking = FALSE] BY <1>1, <1>2
<1>4. /\ watch' \in Watches /\ watch'.pc = "finish" /\ watch'.run = watch.run
      /\ watch'.aborted = watch.aborted /\ ~watch'.over
      /\ watch'.reply = Chat!Replies(watch.run)
  BY <1>2, <1>3 DEF Watches
<1> QED BY <1>1, <1>4, WatchFacts, WatchGoesOn

\* The stream is closed.
LEMMA StreamClosesStep == ASSUME ChatInv, Chat!StreamCloses PROVE ChatInv'
<1>1. /\ watch.pc = "stream" /\ Chat!Ended /\ missed' = missed \cup {watch.run}
      /\ UNCHANGED <<stored, run, workspace, shown, view, poll, load, excused, faults>>
  BY DEF Chat!StreamCloses, Chat!server
<1>2. watch.run \in Chat!Runs BY <1>1, WatchingRests
<1> QED BY <1>1, <1>2, WatchFacts, WatchEnds

\* The stream was aborted.
LEMMA AbortedStep == ASSUME ChatInv, Chat!Aborted PROVE ChatInv'
<1>1. /\ watch.pc # "done" /\ watch.aborted /\ Chat!Ended
      /\ UNCHANGED <<stored, run, workspace, shown, view, poll, load, missed, excused, faults>>
  BY DEF Chat!Aborted, Chat!server
<1> QED BY <1>1, WatchFacts, WatchEnds

\* The messages arrive.
LEMMA FinishedStep == ASSUME ChatInv, Chat!Finished PROVE ChatInv'
<1>1. /\ watch.pc = "finish" /\ view' = watch.reply /\ Chat!Ended
      /\ UNCHANGED <<stored, run, workspace, shown, poll, load, missed, excused, faults>>
  BY DEF Chat!Finished, Chat!server
<1> QED BY <1>1, WatchFacts, WatchEnds

\* The watch is interrupted, and tries again unless it was aborted.
LEMMA WatchFailsStep == ASSUME ChatInv, Chat!WatchFails PROVE ChatInv'
<1>1. /\ watch.pc # "done" /\ Chat!Fault
      /\ UNCHANGED <<stored, run, workspace, shown, view, poll, load, missed, excused>>
  BY DEF Chat!WatchFails, Chat!server
<1>2. faults' \in 0..MaxFaults BY <1>1, FaultFacts DEF ChatInv, ChatTyped
<1>3. CASE watch.aborted
  <2>1. Chat!Ended BY <1>3 DEF Chat!WatchFails
  <2> QED BY <2>1, <1>1, <1>2, <1>3, WatchFacts, WatchEnds
<1>4. CASE ~watch.aborted
  <2>1. /\ watch' = [watch EXCEPT !.pc = "retry", !.over = FALSE, !.ticking = FALSE,
                                  !.reply = {}]
        /\ UNCHANGED send
    BY <1>4 DEF Chat!WatchFails
  <2>2. /\ watch' \in Watches /\ watch'.pc = "retry" /\ watch'.run = watch.run
        /\ watch'.aborted = watch.aborted /\ ~watch'.over
    BY <2>1, WatchFacts DEF Watches
  <2> QED BY <2>1, <2>2, <1>1, <1>2, WatchFacts, WatchGoesOn
<1> QED BY <1>3, <1>4

\* It asks again whether the run is over.
LEMMA ReconnectStep == ASSUME ChatInv, Chat!Reconnect PROVE ChatInv'
<1>1. /\ watch.pc = "retry"
      /\ UNCHANGED <<stored, run, workspace, shown, view, send, poll, load, missed, excused,
                     faults>>
  BY DEF Chat!Reconnect, Chat!server
<1>2. PICK over \in BOOLEAN : over = ~Chat!Active(watch.run) BY DEF Chat!Active
<1>3. watch' = [watch EXCEPT !.pc = "rest", !.over = over] BY <1>2 DEF Chat!Reconnect
<1>4. /\ watch' \in Watches /\ watch'.pc = "rest" /\ watch'.run = watch.run
      /\ watch'.aborted = watch.aborted /\ watch'.over = over
  BY <1>3, WatchFacts DEF Watches
<1> QED BY <1>1, <1>2, <1>4, WatchFacts, WatchGoesOn

-----------------------------------------------------------------------------
(* Polling, and the end of a run.                                          *)

PollStates == [pc : {"idle", "over", "finish"}, run : 0..MaxRuns, reply : SUBSET Messages]

\* A poll is in hand beside at most a watch of the same run.
LEMMA PollFacts ==
    ASSUME ChatInv, NEW i \in Pollers, poll[i].pc # "idle"
    PROVE  /\ Polling(i) /\ poll[i].run \in Chat!Used /\ poll[i].run \in Chat!Runs
           /\ run[poll[i].run].home \in Workspaces /\ ~Chat!Active(poll[i].run)
           /\ Chat!Replies(poll[i].run) \subseteq Messages
           /\ ~excused => Resting
<1>1. Polling(i) /\ poll[i].run \in Chat!Used
  BY DEF ChatInv, ChatTyped, PollsTyped, Polling
<1>2. poll[i].run \in Chat!Runs /\ run[poll[i].run].home \in Workspaces
  BY <1>1, UsedAreRuns DEF ChatInv, ChatTyped, ServerTyped
<1>3. ~Chat!Active(poll[i].run) BY <1>1 DEF ChatInv, EndsTrue
<1>4. Chat!Replies(poll[i].run) \subseteq Messages
  BY <1>2 DEF ChatInv, ChatTyped, ServerTyped, Chat!Replies
<1>5. ~excused => Resting BY <1>1 DEF ChatInv, Waited, Loading, Polling
<1> QED BY <1>1, <1>2, <1>3, <1>4, <1>5

\* A callback finds that the run is over.
LEMMA TickStep == ASSUME ChatInv, NEW i \in Pollers, Chat!Tick(i) PROVE ChatInv'
<1>1. /\ watch.ticking /\ ~Chat!Active(watch.run) /\ poll[i] = Chat!NoPoll
      /\ poll' = [poll EXCEPT ![i] = [Chat!NoPoll EXCEPT !.pc = "over", !.run = watch.run]]
      /\ UNCHANGED <<stored, run, workspace, shown, view, send, watch, load, missed, excused,
                     faults>>
  BY DEF Chat!Tick, Chat!server
<1>2. watch.pc # "done" BY <1>1 DEF ChatInv, ChatTyped, WatchTyped, Chat!NoWatch
<1>3. /\ Chat!Used' = Chat!Used /\ Count' = Count /\ NewMessage' = NewMessage
      /\ (\A r : Chat!Active(r)' = Chat!Active(r))
      /\ ServerTyped' /\ RepliesTrue' /\ LoadsTyped'
  BY <1>1, OnlyHands
<1>4. PICK r \in 0..MaxRuns : r = watch.run /\ r \in Chat!Used
  BY <1>2 DEF ChatInv, ChatTyped, WatchTyped
<1>5. PICK x \in PollStates : /\ x = [Chat!NoPoll EXCEPT !.pc = "over", !.run = watch.run]
                              /\ x.pc = "over" /\ x.run = r /\ x # Chat!NoPoll
  <2> DEFINE x == [Chat!NoPoll EXCEPT !.pc = "over", !.run = r]
  <2>1. Chat!NoPoll \in PollStates /\ Chat!NoPoll.pc = "idle"
    BY WebAppAssumption DEF Chat!NoPoll, PollStates
  <2>2. x \in PollStates /\ x.pc = "over" /\ x.run = r BY <2>1 DEF PollStates
  <2> HIDE DEF x
  <2>3. x # Chat!NoPoll BY <2>1, <2>2
  <2>4. x = [Chat!NoPoll EXCEPT !.pc = "over", !.run = watch.run] BY <1>4 DEF x
  <2> QED BY <2>2, <2>3, <2>4
<1>6. poll' = [poll EXCEPT ![i] = x] BY <1>1, <1>5
<1>7. poll'[i] = x /\ \A j \in Pollers : j # i => poll'[j] = poll[j]
  BY <1>6 DEF ChatInv, ChatTyped, PollsTyped
<1>8. poll' \in [Pollers -> PollStates]
  BY <1>5, <1>6 DEF ChatInv, ChatTyped, PollsTyped, PollStates
<1>9. PollsTyped'
  <2>1. \A j \in Pollers : /\ poll[j].pc = "idle" <=> poll[j] = Chat!NoPoll
                           /\ Polling(j) => poll[j].run \in Chat!Used
    BY DEF ChatInv, ChatTyped, PollsTyped
  <2>2. \A j \in Pollers : /\ poll'[j].pc = "idle" <=> poll'[j] = Chat!NoPoll
                           /\ poll'[j] # Chat!NoPoll => poll'[j].run \in Chat!Used
    <3>1. \A j \in Pollers : j = i => poll'[j] = x BY <1>7
    <3>2. x.pc # "idle" /\ x # Chat!NoPoll /\ x.run \in Chat!Used BY <1>4, <1>5
    <3> QED BY <2>1, <3>1, <3>2, <1>7 DEF Polling
  <2> QED BY <2>2, <1>3, <1>8 DEF PollsTyped, PollStates, Polling
<1>10. PlaceTyped' /\ HistoryTyped' /\ SendTyped' /\ WatchTyped'
  BY <1>1, <1>3 DEF ChatInv, ChatTyped, PlaceTyped, HistoryTyped, SendTyped, WatchTyped
<1>11. EndsTrue'
  BY <1>1, <1>3, <1>4, <1>5, <1>7 DEF ChatInv, EndsTrue, Polling
<1>12. \A k : Followed(k)' = Followed(k) BY <1>1, <1>3 DEF Followed
<1>13. RunsFollowed' BY <1>1, <1>3, <1>12 DEF ChatInv, RunsFollowed
<1>14. ASSUME ~excused' PROVE Resting'
  <2>1. Resting /\ send.pc = "watch" BY <1>1, <1>2, <1>14, WatchingRests
  <2>2. \A k : Owed(k) => Owed(k)'
    <3>1. poll[i].pc # "finish" BY <1>1 DEF Chat!NoPoll
    <3> QED BY <3>1, <1>7, <1>12 DEF Owed
  <2>3. ViewRests' BY <2>1, <2>2, <1>1, <1>3 DEF Resting, ViewRests
  <2>4. SendRests' /\ WatchRests'
    BY <2>1, <1>1, <1>3 DEF Resting, SendRests, WatchRests, Complete
  <2>5. PollsRest'
    <3>1. run[r].home = shown BY <2>1, <1>2, <1>4 DEF Resting, WatchRests
    <3> QED BY <3>1, <2>1, <1>1, <1>4, <1>5, <1>7 DEF Resting, PollsRest, Polling, Complete
  <2> QED BY <2>1, <2>3, <2>4, <2>5, <1>1 DEF Resting
<1>15. DraftsStayHome' BY <1>1 DEF ChatInv, DraftsStayHome, Chat!DraftsStayHome
<1> QED BY <1>1, <1>3, <1>9, <1>10, <1>11, <1>13, <1>14, <1>15 DEF ChatInv, ChatTyped, Waited

\* It stops the watch of its run, and asks for the messages.
LEMMA PolledStep == ASSUME ChatInv, NEW i \in Pollers, Chat!Polled(i) PROVE ChatInv'
<1>1. /\ poll[i].pc = "over"
      /\ poll' = [poll EXCEPT ![i].pc = "finish", ![i].reply = Chat!Replies(poll[i].run)]
      /\ watch' = IF watch.run = poll[i].run THEN Chat!Stopped ELSE watch
      /\ UNCHANGED <<stored, run, workspace, shown, view, send, load, missed, excused, faults>>
  BY DEF Chat!Polled, Chat!server
<1>2. /\ Polling(i) /\ poll[i].run \in Chat!Used /\ poll[i].run \in Chat!Runs
      /\ ~Chat!Active(poll[i].run) /\ Chat!Replies(poll[i].run) \in SUBSET Messages
      /\ ~excused => Resting
  BY <1>1, PollFacts
<1>3. /\ Chat!Used' = Chat!Used /\ Count' = Count /\ NewMessage' = NewMessage
      /\ (\A r : Chat!Active(r)' = Chat!Active(r))
      /\ ServerTyped' /\ RepliesTrue' /\ LoadsTyped'
  BY <1>1, OnlyHands
<1>4. /\ poll' \in [Pollers -> PollStates] /\ \A j \in Pollers : j # i => poll'[j] = poll[j]
      /\ poll'[i].pc = "finish" /\ poll'[i].run = poll[i].run
      /\ poll'[i].reply = Chat!Replies(poll[i].run)
  BY <1>1, <1>2 DEF ChatInv, ChatTyped, PollsTyped, PollStates
<1>5. poll'[i] # Chat!NoPoll BY <1>4 DEF Chat!NoPoll
<1>6. /\ watch' \in Watches /\ watch'.pc = watch.pc /\ watch'.run = watch.run
      /\ watch'.over = watch.over /\ watch'.reply = watch.reply
      /\ IF watch.run = poll[i].run THEN watch'.aborted ELSE watch' = watch
      /\ watch.pc = "done" => watch' = watch
  <2>1. CASE watch.run = poll[i].run
    <3>1. watch' = [watch EXCEPT !.ticking = FALSE, !.aborted = TRUE]
      BY <2>1, <1>1 DEF Chat!Stopped
    <3>2. watch.pc # "done"
      BY <2>1, <1>2 DEF ChatInv, ChatTyped, WatchTyped, Chat!NoWatch, Chat!Runs
    <3> QED BY <3>1, <3>2, <2>1, WatchFacts DEF Watches
  <2>2. CASE watch.run # poll[i].run BY <2>2, <1>1, WatchFacts
  <2> QED BY <2>1, <2>2
<1>7. PollsTyped'
  BY <1>2, <1>3, <1>4, <1>5 DEF ChatInv, ChatTyped, PollsTyped, PollStates, Polling
<1>8. WatchTyped'
  <2>1. watch'.pc # "done" => watch' # Chat!NoWatch BY DEF Chat!NoWatch
  <2> QED BY <2>1, <1>3, <1>6 DEF ChatInv, ChatTyped, WatchTyped, Watches
<1>9. PlaceTyped' /\ HistoryTyped' /\ SendTyped'
  BY <1>1, <1>3, <1>6 DEF ChatInv, ChatTyped, PlaceTyped, HistoryTyped, SendTyped
<1>10. EndsTrue'
  <2>1. watch'.pc # "done" /\ (watch'.over \/ watch'.aborted \/ watch'.pc = "finish")
            => ~Chat!Active(watch'.run)
    BY <1>2, <1>6, WatchFacts
  <2>2. \A j \in Pollers : poll'[j] # Chat!NoPoll => ~Chat!Active(poll'[j].run)
    BY <1>2, <1>4 DEF ChatInv, EndsTrue, Polling
  <2> QED BY <2>1, <2>2, <1>3 DEF EndsTrue, Polling, Chat!Active
<1>11. ASSUME NEW r, Followed(r), ~Followed(r)' PROVE r = poll[i].run
  BY <1>1, <1>3, <1>6, <1>11 DEF Followed
<1>12. RunsFollowed' BY <1>1, <1>2, <1>3, <1>11 DEF ChatInv, RunsFollowed
<1>13. ASSUME ~excused' PROVE Resting'
  <2>1. Resting BY <1>1, <1>2, <1>13
  <2>2. \A r : Owed(r) => Owed(r)'
    <3>1. Owed(poll[i].run)' BY <1>4 DEF Owed
    <3> QED BY <3>1, <1>1, <1>4, <1>11 DEF Owed
  <2>3. ViewRests' BY <2>1, <2>2, <1>1, <1>3 DEF Resting, ViewRests
  <2>4. SendRests' /\ WatchRests'
    BY <2>1, <1>1, <1>3, <1>6 DEF Resting, SendRests, WatchRests, Complete
  <2>5. PollsRest'
    <3>1. run[poll[i].run].home = shown BY <2>1, <1>2 DEF Resting, PollsRest
    <3>2. poll'[i].reply = stored[shown] BY <3>1, <1>4 DEF Chat!Replies
    <3>4. /\ run'[poll'[i].run].home = shown'
          /\ send'.pc \notin {"message", "run"}
          /\ watch'.pc # "done" => watch'.run = poll'[i].run
          /\ Complete(poll[i].reply, shown)'
      BY <3>1, <3>2, <2>1, <1>1, <1>2, <1>4, <1>6 DEF Resting, PollsRest, Complete
    <3>5. ASSUME NEW j \in Pollers, j # i, poll'[j] # Chat!NoPoll
          PROVE  /\ run'[poll'[j].run].home = shown'
                 /\ send'.pc \notin {"message", "run"}
                 /\ watch'.pc # "done" => watch'.run = poll'[j].run
                 /\ poll'[j].pc = "finish" => Complete(poll[j].reply, shown)'
      BY <3>5, <2>1, <1>1, <1>4, <1>6 DEF Resting, PollsRest, Complete, Polling
    <3> QED BY <3>4, <3>5 DEF PollsRest, Polling
  <2> QED BY <2>1, <2>3, <2>4, <2>5, <1>1 DEF Resting
<1>14. DraftsStayHome' BY <1>1 DEF ChatInv, DraftsStayHome, Chat!DraftsStayHome
<1> QED BY <1>1, <1>3, <1>7, <1>8, <1>9, <1>10, <1>12, <1>13, <1>14
        DEF ChatInv, ChatTyped, Waited

\* A poll is done with, and its messages are shown, or its run is given up.
LEMMA PollEnds ==
    ASSUME ChatInv, NEW i \in Pollers, poll[i].pc # "idle",
           poll' = [poll EXCEPT ![i] = Chat!NoPoll],
           view' = view \/ (poll[i].pc = "finish" /\ view' = poll[i].reply),
           \/ poll[i].pc # "finish" \/ view' = poll[i].reply
           \/ poll[i].run \in missed',
           missed \subseteq missed', missed' \subseteq Chat!Runs, faults' \in 0..MaxFaults,
           UNCHANGED <<stored, run, workspace, shown, send, watch, load, excused>>
    PROVE  ChatInv'
<1>1. /\ Chat!Used' = Chat!Used /\ Count' = Count /\ NewMessage' = NewMessage
      /\ (\A r : Chat!Active(r)' = Chat!Active(r))
      /\ ServerTyped' /\ RepliesTrue' /\ LoadsTyped'
  BY OnlyHands
<1>2. PlaceTyped' /\ HistoryTyped' /\ SendTyped' /\ WatchTyped'
  BY <1>1 DEF ChatInv, ChatTyped, PlaceTyped, HistoryTyped, SendTyped, WatchTyped, PollsTyped
<1>3. poll'[i] = Chat!NoPoll /\ \A j \in Pollers : j # i => poll'[j] = poll[j]
  BY DEF ChatInv, ChatTyped, PollsTyped
<1>4. Chat!NoPoll \in PollStates /\ Chat!NoPoll.pc = "idle"
  BY WebAppAssumption DEF Chat!NoPoll, PollStates
<1>5. PollsTyped' BY <1>1, <1>3, <1>4 DEF ChatInv, ChatTyped, PollsTyped, PollStates, Polling
<1>6. EndsTrue' BY <1>1, <1>3 DEF ChatInv, EndsTrue, Polling
<1>7. \A r : Followed(r)' = Followed(r) BY <1>1 DEF Followed
<1>8. RunsFollowed' BY <1>1, <1>7 DEF ChatInv, RunsFollowed
<1>9. ASSUME ~excused' PROVE Resting'
  <2>1. Resting BY <1>9, PollFacts
  <2>2. ViewRests'
    <3>1. CASE poll[i].pc = "finish" /\ view' = poll[i].reply
      <4>1. Complete(poll[i].reply, shown) BY <2>1, <3>1, PollFacts DEF Resting, PollsRest
      <4> QED BY <4>1, <3>1 DEF ViewRests, Complete
    <3>2. CASE view' = view /\ (poll[i].pc # "finish" \/ poll[i].run \in missed')
      <4>1. ASSUME NEW r, Owed(r) PROVE r \in missed' \/ Owed(r)'
        BY <4>1, <3>2, <1>3, <1>7 DEF Owed
      <4> QED BY <4>1, <3>2, <2>1, <1>1 DEF Resting, ViewRests
    <3> QED BY <3>1, <3>2
  <2>3. SendRests' /\ WatchRests'
    BY <2>1, <1>1 DEF Resting, SendRests, WatchRests, Complete
  <2>4. PollsRest' BY <2>1, <1>3 DEF Resting, PollsRest, Polling, Complete
  <2> QED BY <2>1, <2>2, <2>3, <2>4 DEF Resting
<1>10. DraftsStayHome' BY DEF ChatInv, DraftsStayHome, Chat!DraftsStayHome
<1> QED BY <1>1, <1>2, <1>5, <1>6, <1>8, <1>9, <1>10 DEF ChatInv, ChatTyped, Waited

\* The messages it asked for arrive.
LEMMA PollFinishedStep ==
    ASSUME ChatInv, NEW i \in Pollers, Chat!PollFinished(i) PROVE ChatInv'
<1>1. /\ poll[i].pc = "finish" /\ view' = poll[i].reply
      /\ poll' = [poll EXCEPT ![i] = Chat!NoPoll]
      /\ UNCHANGED <<stored, run, workspace, shown, send, watch, load, missed, excused,
                     faults>>
  BY DEF Chat!PollFinished, Chat!server
<1> QED BY <1>1, WatchFacts, PollEnds

\* They do not: the run is given up.
LEMMA PollFailsStep ==
    ASSUME ChatInv, NEW i \in Pollers, Chat!PollFails(i) PROVE ChatInv'
<1>1. /\ poll[i] # Chat!NoPoll /\ Chat!Fault /\ poll' = [poll EXCEPT ![i] = Chat!NoPoll]
      /\ missed' = IF poll[i].pc = "finish" THEN missed \cup {poll[i].run} ELSE missed
      /\ UNCHANGED <<stored, run, workspace, shown, view, send, watch, load, excused>>
  BY DEF Chat!PollFails, Chat!server
<1>2. faults' \in 0..MaxFaults BY <1>1, FaultFacts DEF ChatInv, ChatTyped
<1>3. poll[i].pc # "idle" BY <1>1 DEF ChatInv, ChatTyped, PollsTyped
<1>4. poll[i].run \in Chat!Runs BY <1>3, PollFacts
<1> QED BY <1>1, <1>2, <1>3, <1>4, WatchFacts, PollEnds

\* A run ends, with or without a reply.
LEMMA EndStep ==
    ASSUME ChatInv, NEW r \in Chat!Runs, NEW replied \in BOOLEAN, Chat!End(r, replied)
    PROVE  ChatInv'
<1>1. /\ run[r].status = "active" /\ run' = [run EXCEPT ![r].status = "over"]
      /\ stored' = IF replied
                   THEN [stored EXCEPT ![run[r].home] = @ \cup {Chat!Message("adam", r)}]
                   ELSE stored
      /\ UNCHANGED <<workspace, shown, view, send, watch, poll, load, missed, excused, faults>>
  BY DEF Chat!End, Chat!page, Chat!Active
<1>2. PICK a \in Messages : a = Chat!Message("adam", r) /\ a.from = "adam" /\ a.run = r
  <2>1. PICK a : a = [from |-> "adam", run |-> r] OBVIOUS
  <2>2. a \in Messages /\ a.from = "adam" /\ a.run = r BY <2>1 DEF Messages
  <2> QED BY <2>1, <2>2 DEF Chat!Message
<1>3. run[r].home \in Workspaces BY <1>1 DEF ChatInv, ChatTyped, ServerTyped
<1>4. /\ run' \in [Chat!Runs -> [status : {"none", "active", "refused", "over"}, home : Homes]]
      /\ run'[r].status = "over" /\ \A k \in Chat!Runs : run'[k].home = run[k].home
      /\ \A k \in Chat!Runs : k # r => run'[k] = run[k]
  BY <1>1 DEF ChatInv, ChatTyped, ServerTyped
<1>5. /\ stored' \in [Workspaces -> SUBSET Messages]
      /\ \A w \in Workspaces : stored[w] \subseteq stored'[w]
      /\ \A w \in Workspaces : \A m \in stored'[w] \ stored[w] : m = a /\ run[r].home = w
  BY <1>1, <1>2, <1>3 DEF ChatInv, ChatTyped, ServerTyped
<1>6. \A k \in Chat!Runs : run'[k].status = "none" <=> run[k].status = "none" BY <1>1, <1>4
<1>7. Chat!Used' = Chat!Used /\ Count' = Count BY <1>6, UsedKept
<1>8. NewMessage' = NewMessage BY <1>7 DEF NewMessage, Chat!Message
<1>9. ServerTyped' BY <1>4, <1>5, <1>6, <1>7 DEF ChatInv, ChatTyped, ServerTyped
<1>10. \A k \in Chat!Runs : Chat!Active(k)' => Chat!Active(k) /\ k # r BY <1>4 DEF Chat!Active
<1>11. PlaceTyped' /\ SendTyped' /\ WatchTyped' /\ PollsTyped' /\ LoadsTyped' /\ HistoryTyped'
  BY <1>1, <1>7 DEF ChatInv, ChatTyped, PlaceTyped, SendTyped, WatchTyped, PollsTyped,
                    LoadsTyped, HistoryTyped, Polling
<1>12. RepliesTrue'
  <2>1. ASSUME NEW w \in Workspaces, NEW m \in stored'[w], m.from = "adam"
        PROVE  run'[m.run].home = w /\ run'[m.run].status = "over"
    <3>1. CASE m \in stored[w]
      <4>1. m.run \in Chat!Runs /\ run[m.run].home = w /\ run[m.run].status = "over"
        BY <2>1, <3>1 DEF ChatInv, ChatTyped, ServerTyped, RepliesTrue, Messages
      <4> QED BY <4>1, <1>4
    <3>2. CASE m \notin stored[w] BY <2>1, <3>2, <1>2, <1>4, <1>5
    <3> QED BY <3>1, <3>2
  <2> QED BY <2>1 DEF RepliesTrue
<1>13. EndsTrue'
  <2>1. watch.pc # "done" => watch.run \in Chat!Runs BY WatchingRests
  <2>2. \A j \in Pollers : Polling(j) => poll[j].run \in Chat!Runs
    BY UsedAreRuns DEF ChatInv, ChatTyped, PollsTyped
  <2>3. watch.pc # "done" /\ (watch.over \/ watch.aborted \/ watch.pc = "finish")
            => ~Chat!Active(watch.run)'
    BY <2>1, <1>1, <1>10, WatchFacts
  <2>4. \A j \in Pollers : Polling(j) => ~Chat!Active(poll[j].run)'
    BY <2>2, <1>1, <1>10 DEF ChatInv, EndsTrue
  <2> QED BY <2>3, <2>4, <1>1 DEF EndsTrue, Polling
<1>14. \A k : Followed(k)' = Followed(k) BY <1>1, <1>7 DEF Followed
<1>15. RunsFollowed' BY <1>1, <1>10, <1>14 DEF ChatInv, RunsFollowed
<1>16. r \in missed \/ Followed(r) BY <1>1 DEF ChatInv, RunsFollowed, Chat!Active
<1>17. ASSUME NEW w \in Workspaces, NEW messages, Complete(messages, w), r \in missed
       PROVE  Complete(messages, w)'
  BY <1>1, <1>2, <1>5, <1>17 DEF Complete
<1>18. ASSUME Loading PROVE Loading'
  <2>1. PICK i \in Loaders :
          /\ load[i] # Chat!NoLoad /\ load[i].home = workspace
          /\ \A j \in Loaders \ {i} : load[j] = Chat!NoLoad
          /\ send.pc = "idle" /\ \A j \in Pollers : poll[j] = Chat!NoPoll
          /\ load[i].pc = "read" => shown = workspace /\ Complete(load[i].reply, workspace)
    BY <1>18 DEF Loading
  <2>2. r \in missed BY <2>1, <1>16, Unwatched DEF ChatInv, ChatTyped
  <2>3. workspace \in Workspaces BY DEF ChatInv, ChatTyped, PlaceTyped
  <2>4. PICK reply, w : reply = load[i].reply /\ w = workspace OBVIOUS
  <2>5. load[i].pc = "read" => Complete(reply, w)' BY <2>1, <2>2, <2>3, <2>4, <1>17
  <2>6. load'[i].pc = "read" => Complete(load[i].reply, workspace)'
    BY <2>4, <2>5, <1>1 DEF Complete
  <2> QED BY <2>1, <2>6, <1>1 DEF Loading
<1>19. ASSUME Resting PROVE Resting'
  <2>1. PICK w \in Workspaces : w = shown /\ w = workspace
    BY <1>19 DEF Resting, ChatInv, ChatTyped, PlaceTyped
  <2>2. ViewRests'
    <3>1. Owed(r) \/ r \in missed BY <1>16 DEF Owed
    <3>2. \A k : Owed(k)' = Owed(k) BY <1>1, <1>14 DEF Owed
    <3> QED BY <3>1, <3>2, <2>1, <1>1, <1>2, <1>5, <1>8, <1>19 DEF Resting, ViewRests
  <2>3. SendRests'
    <3>1. send.pc = "run" => Count \in Chat!Runs
      <4>1. Chat!Used = 1..Count /\ Count \in 0..MaxRuns BY UsedIs DEF ChatInv, ChatTyped
      <4> QED BY <4>1, WebAppAssumption DEF ChatInv, ChatTyped, SendTyped, Chat!Runs
    <3> QED BY <3>1, <2>1, <1>1, <1>4, <1>5, <1>7, <1>8, <1>19 DEF Resting, SendRests
  <2>4. WatchRests'
    <3>1. CASE watch.pc = "done" BY <3>1, <1>1 DEF WatchRests
    <3>2. CASE watch.pc # "done"
      <4>1. send.pc = "watch" /\ watch.run \in Chat!Runs BY <3>2, WatchingRests
      <4>2. watch.pc = "finish" => r \in missed
        BY <4>1, <1>1, <1>16, WatchFacts DEF Followed, Chat!Active
      <4>3. PICK reply : reply = watch.reply OBVIOUS
      <4>4. watch.pc = "finish" => Complete(reply, w)'
        BY <3>2, <4>2, <4>3, <2>1, <1>17, <1>19 DEF Resting, WatchRests
      <4>5. watch'.pc = "finish" => Complete(watch.reply, shown)'
        BY <4>3, <4>4, <2>1, <1>1 DEF Complete
      <4> QED BY <3>2, <4>1, <4>5, <1>1, <1>4, <1>19 DEF Resting, WatchRests
    <3> QED BY <3>1, <3>2
  <2>5. PollsRest'
    <3>1. ASSUME NEW j \in Pollers, Polling(j)
          PROVE  /\ run'[poll[j].run].home = shown
                 /\ send.pc \notin {"message", "run"}
                 /\ watch.pc # "done" => watch.run = poll[j].run
                 /\ poll[j].pc = "finish" => Complete(poll[j].reply, shown)'
      <4>1. poll[j].run \in Chat!Runs /\ ~Chat!Active(poll[j].run)
        <5>1. poll[j].pc # "idle" BY <3>1 DEF ChatInv, ChatTyped, PollsTyped, Polling
        <5> QED BY <5>1, PollFacts
      <4>2. r \in missed
        BY <3>1, <4>1, <1>1, <1>16, <1>19 DEF Resting, PollsRest, Followed, Chat!Active
      <4>3. PICK reply : reply = poll[j].reply OBVIOUS
      <4>4. poll[j].pc = "finish" => Complete(reply, w)'
        BY <3>1, <4>2, <4>3, <2>1, <1>17, <1>19 DEF Resting, PollsRest
      <4>5. poll[j].pc = "finish" => Complete(poll[j].reply, shown)'
        BY <4>3, <4>4, <2>1, <1>1 DEF Complete
      <4> QED BY <3>1, <4>1, <4>5, <1>4, <1>19 DEF Resting, PollsRest
    <3> QED BY <3>1, <1>1 DEF PollsRest, Polling
  <2> QED BY <2>2, <2>3, <2>4, <2>5, <1>1, <1>19 DEF Resting
<1>20. DraftsStayHome'
  <2>1. send.draft # 0 => send.draft \in Chat!Runs
    BY WebAppAssumption DEF ChatInv, ChatTyped, SendTyped, Chat!Runs
  <2> QED BY <2>1, <1>1, <1>4 DEF ChatInv, DraftsStayHome, Chat!DraftsStayHome
<1> QED BY <1>1, <1>9, <1>11, <1>12, <1>13, <1>15, <1>18, <1>19, <1>20
        DEF ChatInv, ChatTyped, Waited

-----------------------------------------------------------------------------
(* The steps of the page together.                                         *)

\* What keeps the invariant of the chat page: every step of it.
LEMMA ChatSteps == ASSUME ChatInv, Chat!Next PROVE ChatInv'
<1>1. CASE Chat!Continue
  BY <1>1, MessageSentStep, RunCreatedStep, ReconstitutedStep, SnapshotStep, AbortedStep,
     FinishedStep, ReconnectStep
  DEF Chat!Continue
<1>2. CASE Chat!EndStreamed \/ Chat!StreamCloses BY <1>2, EndStreamedStep, StreamClosesStep
<1>3. CASE \E i \in Loaders : Chat!LoadStep(i) \/ Chat!LoadFails(i)
                              \/ \E w \in Workspaces : Chat!Choose(i, w)
  <2>1. PICK i \in Loaders : Chat!LoadStep(i) \/ Chat!LoadFails(i)
                              \/ \E w \in Workspaces : Chat!Choose(i, w)
    BY <1>3
  <2>2. CASE Chat!LoadStep(i) BY <2>2, OpenedStep, LoadedStep DEF Chat!LoadStep
  <2>3. CASE Chat!LoadFails(i) BY <2>3, LoadFailsStep
  <2>4. CASE \E w \in Workspaces : Chat!Choose(i, w) BY <2>4, ChooseStep
  <2> QED BY <2>1, <2>2, <2>3, <2>4
<1>4. CASE \E i \in Pollers : Chat!Tick(i) \/ Chat!PollStep(i) \/ Chat!PollFails(i)
  BY <1>4, TickStep, PolledStep, PollFinishedStep, PollFailsStep DEF Chat!PollStep
<1>5. CASE \E publish \in BOOLEAN : Chat!Send(publish) BY <1>5, SendStep
<1>6. CASE Chat!SendFails \/ Chat!WatchFails \/ Chat!Reload
  BY <1>6, SendFailsStep, WatchFailsStep, ReloadStep
<1>7. CASE \E r \in Chat!Runs, replied \in BOOLEAN : Chat!End(r, replied) BY <1>7, EndStep
<1> QED BY <1>1, <1>2, <1>3, <1>4, <1>5, <1>6, <1>7 DEF Chat!Next

\* The invariant holds whatever page is explored: the other has none of its state.
LEMMA ChatHolds == Spec => []ChatInv
<1>1. Init => ChatInv BY ChatStarts DEF Init
<1>2. ChatInv /\ [Next]_<<page, chatVars, panelVars>> => ChatInv'
  BY ChatSteps, ChatStutters DEF Next
<1> QED BY <1>1, <1>2, PTL DEF Spec

\* What is at rest misses only what was given up.
LEMMA RestingShows == ASSUME ChatInv PROVE RepliesAreShown
<1>1. SUFFICES ASSUME Chat!Quiet, ~excused, shown # Chat!None
               PROVE  /\ shown = workspace /\ view \subseteq stored[shown]
                      /\ \A m \in stored[shown] \ view :
                            m.from = "adam" /\ (m.run \in missed \/ Chat!Active(m.run))
  BY DEF RepliesAreShown, Chat!RepliesAreShown
<1>2. /\ send.pc = "idle" /\ \A i \in Pollers : poll[i] = Chat!NoPoll
      /\ \A i \in Loaders : load[i] = Chat!NoLoad
  BY <1>1 DEF Chat!Quiet
<1>3. Resting BY <1>1, <1>2 DEF ChatInv, Waited, Loading
<1>4. \A r : ~Followed(r) BY <1>2, Unwatched DEF ChatInv, ChatTyped
<1>5. \A i \in Pollers : poll[i].pc # "finish" BY <1>2 DEF Chat!NoPoll
<1>6. \A r : ~Owed(r) BY <1>4, <1>5 DEF Owed
<1> QED BY <1>2, <1>3, <1>6 DEF Resting, ViewRests

\* At rest the screen shows every message of the conversation that is open, but
\* for replies of runs the page gave up on, as long as the user has waited
\* (watchRun, loadMessages).
THEOREM AllRepliesAreShown == Spec => []RepliesAreShown
BY ChatHolds, RestingShows, PTL

\* What is sent to be published was drafted in the same workspace, as long as
\* the user has waited (buildPublishGoal takes the last reply on the screen).
THEOREM DraftsArePublishedHome == Spec => []DraftsStayHome
<1>1. ChatInv => DraftsStayHome BY DEF ChatInv
<1> QED BY <1>1, ChatHolds, PTL

\* The types that the chat page states.
LEMMA ChatTypesFollow == ASSUME ChatInv PROVE Chat!TypeOK
<1>1. \A w \in Workspaces : stored[w] \subseteq [from : {"user", "adam"}, run : Chat!Runs]
  BY DEF ChatInv, ChatTyped, ServerTyped, Messages
<1>2. \A r \in Chat!Runs : run[r] \in [status : {"none", "active", "refused", "over"},
                                       home : Workspaces \cup {Chat!None}]
  BY DEF ChatInv, ChatTyped, ServerTyped, Homes, Chat!None
<1>3. /\ workspace \in Workspaces /\ shown \in Workspaces \cup {Chat!None}
      /\ missed \subseteq Chat!Runs /\ faults \in 0..MaxFaults
  BY DEF ChatInv, ChatTyped, PlaceTyped, HistoryTyped, Homes, Chat!None
<1>4. /\ send.pc \in {"idle", "message", "run", "watch"}
      /\ (send.pc = "watch" <=> watch.pc # "done")
  BY DEF ChatInv, ChatTyped, SendTyped
<1>5. watch.pc \in {"done", "rest", "open", "stream", "finish", "retry"}
  BY DEF ChatInv, ChatTyped, WatchTyped
<1>6. \A i \in Pollers : poll[i].pc \in {"idle", "over", "finish"}
  BY DEF ChatInv, ChatTyped, PollsTyped
<1>7. \A i \in Loaders : load[i].pc \in {"idle", "open", "read"}
  BY DEF ChatInv, ChatTyped, LoadsTyped
<1> QED BY <1>1, <1>2, <1>3, <1>4, <1>5, <1>6, <1>7 DEF Chat!TypeOK

-----------------------------------------------------------------------------
(* The panels: their types.                                                *)

PartsOf(s) == {s[i] : i \in DOMAIN s}

\* What the button of a panel may be.
ButtonFits(x, b) ==
    /\ b.copies = "typed" \/ b.copies \in PartsOf(x.parts)
    /\ b.shows \subseteq PartsOf(x.parts)
    /\ b.to \in {"chosen", "row"} /\ b.then \in {"load", "poll", "rest", "leave"}
    /\ b.marks \in BOOLEAN
    \* It copies the screen only where busy covers every load, for everyone.
    /\ \/ b.copies = "typed" \/ b.to = "row"
       \/ x.loads /\ x.marks /\ x.readers = Panel!Roles
    \* Where what is chosen is loaded, a button shows nothing else.
    /\ x.loads => b.then # "poll" /\ (b.shows # {} => b.to = "chosen")

\* What a panel may be.
PanelFits(x) ==
    /\ x.level \in {"org", "workspace"} /\ x.loads \in BOOLEAN /\ x.marks \in BOOLEAN
    /\ Len(x.parts) \in Nat \ {0} /\ DOMAIN x.parts = 1..Len(x.parts)
    /\ x.level = "workspace" => x.readers = Panel!Roles
    /\ \A b \in x.buttons : ButtonFits(x, b)

Calls == [kind : {"none", "list", "load", "write"}, org : Organisations \cup {"none"},
          at : Panel!Spots, to : Panel!Spots, step : Nat, shows : SUBSET Panel!Parts,
          then : {"load", "poll", "rest", "leave"}, marks : BOOLEAN]

\* Only an idle call has no kind, and each kind has what it needs.
CallFits(c) ==
    /\ c \in Calls
    /\ c.kind = "none" <=> c = Panel!Idle
    /\ c.kind = "load" => c.step \in DOMAIN panel.parts
    /\ c.kind = "list" => panel.level = "workspace" /\ c.org \in Organisations

CallsTyped == call \in [Slots -> Calls] /\ \A s \in Slots : CallFits(call[s])

ChoiceTyped ==
    /\ panel \in Panel!Panels
    /\ org \in Organisations \cup {"none"} /\ home \in Panel!Places /\ sub \in panel.subs
    /\ listed \subseteq Panel!Places

FlagsTyped == busy \in BOOLEAN /\ armed \in BOOLEAN /\ rash \in BOOLEAN /\ astray \in BOOLEAN
ContentTyped == content \in [Panel!Parts -> Panel!Spots]

PanelTyped == ChoiceTyped /\ ContentTyped /\ FlagsTyped /\ CallsTyped

(* And what is true of it.                                                 *)

\* Before an organisation is chosen there is nothing; and what is chosen fits:
\* an organisation for its panels, for others a workspace of those offered.
Placed ==
    /\ org = "none" => home = "none" /\ Panel!InHand = {} /\ ~armed /\ listed = {}
    /\ panel.level = "org" => home = org /\ listed = {}
    /\ panel.level = "workspace" =>
          /\ home # "none" => home \in listed
          /\ listed = {} \/ \E o \in Organisations : listed = WorkspacesOf[o]

\* Every part of the screen is of what is chosen.
Fresh == \A p \in Panel!Parts : content[p] = Panel!Chosen
Stale == home # "none" /\ ~Fresh

\* While an organisation is opened, nothing else is in hand.
ListsAlone ==
    \A s \in Slots : call[s].kind = "list" =>
        Panel!InHand = {s} /\ ~armed /\ call[s].org = org

\* The workspace is one of the organisation, once that is opened.
Settled ==
    panel.level = "workspace" /\ org # "none" => Panel!Opening \/ home \in WorkspacesOf[org]

\* A call is about what is chosen; a load has shown its first parts.
CallCurrent(c) ==
    /\ c.kind \in {"load", "write"} => c.at = Panel!Chosen
    /\ c.shows # {} => c.to = Panel!Chosen
    /\ c.kind = "write" => c.then # "poll"
    /\ c.kind = "load" =>
          \A i \in DOMAIN panel.parts :
              i < c.step => content[panel.parts[i]] = Panel!Chosen

CallsCurrent == panel.loads => \A s \in Slots : CallCurrent(call[s])

\* What is not shown yet is being loaded, for a user who may read it ...
StaleLoads ==
    panel.loads /\ org # "none" /\ Panel!MayRead(org) /\ Stale =>
        \E s \in Slots : call[s].kind = "load"

\* ... and on a panel that copies the screen, busy says so.
StaleIsBusy ==
    panel.loads /\ panel.marks /\ panel.readers = Panel!Roles /\ Stale =>
        busy /\ \A s \in Slots : call[s].kind # "write"

Tidy == ListsAlone /\ Settled /\ CallsCurrent /\ StaleLoads /\ StaleIsBusy

PanelInv == PanelTyped /\ Placed /\ (~rash => Tidy) /\ ~astray

-----------------------------------------------------------------------------
(* The ten panels, slots and calls.                                        *)

\* A record of a button: it has these fields.
IsButton(b) ==
    b = [name |-> b.name, copies |-> b.copies, to |-> b.to, shows |-> b.shows,
         then |-> b.then, marks |-> b.marks, actors |-> b.actors]

\* Every kind of button has its fields.
LEMMA AreButtons ==
    ASSUME NEW name, NEW part
    PROVE  /\ IsButton(Panel!Button(name, part)) /\ IsButton(Panel!OnRow(name, part))
           /\ IsButton(Panel!Typed(name)) /\ IsButton(Panel!Leaving(name))
<1>1. IsButton(Panel!Button(name, part)) BY DEF IsButton, Panel!Button
<1>2. IsButton(Panel!OnRow(name, part))
  <2>1. Panel!OnRow(name, part) = [Panel!Button(name, part) EXCEPT !.to = "row"]
    BY DEF Panel!OnRow
  <2> QED BY <2>1 DEF IsButton, Panel!Button
<1>3. IsButton(Panel!Typed(name)) BY DEF IsButton, Panel!Typed, Panel!Button
<1>4. IsButton(Panel!Leaving(name))
  <2>1. Panel!Leaving(name) = [Panel!Button(name, "typed") EXCEPT !.then = "leave"]
    BY DEF Panel!Leaving, Panel!Typed
  <2> QED BY <2>1 DEF IsButton, Panel!Button
<1> QED BY <1>1, <1>2, <1>3, <1>4

\* A button that fits still does with other actors, or if it does not set busy.
LEMMA ButtonsVary ==
    ASSUME NEW x, NEW b, IsButton(b), ButtonFits(x, b)
    PROVE  /\ ButtonFits(x, [b EXCEPT !.actors = {"OWNER"}])
           /\ ButtonFits(x, [b EXCEPT !.marks = FALSE])
<1>1. PICK c : c = [b EXCEPT !.actors = {"OWNER"}] OBVIOUS
<1>2. /\ c.copies = b.copies /\ c.to = b.to /\ c.shows = b.shows /\ c.then = b.then
      /\ c.marks = b.marks
  BY <1>1 DEF IsButton
<1>3. PICK d : d = [b EXCEPT !.marks = FALSE] OBVIOUS
<1>4. /\ d.copies = b.copies /\ d.to = b.to /\ d.shows = b.shows /\ d.then = b.then
      /\ d.marks = FALSE
  BY <1>3 DEF IsButton
<1>5. ButtonFits(x, c) BY <1>2 DEF ButtonFits
<1>6. ButtonFits(x, d) BY <1>4 DEF ButtonFits
<1> QED BY <1>1, <1>3, <1>5, <1>6

\* The parts of a panel with one part, or with two.
LEMMA OnePart ==
    ASSUME NEW a
    PROVE  /\ Len(<<a>>) = 1 /\ DOMAIN <<a>> = 1..1
           /\ PartsOf(<<a>>) = {a}
<1>1. PICK s : s = <<a>> OBVIOUS
<1>2. Len(s) = 1 /\ DOMAIN s = 1..1 BY <1>1
<1>3. 1..1 = {1} OBVIOUS
<1>4. s[1] = a BY <1>1
<1>5. PartsOf(s) = {a} BY <1>2, <1>3, <1>4 DEF PartsOf
<1> QED BY <1>1, <1>2, <1>5

LEMMA TwoParts ==
    ASSUME NEW a, NEW b
    PROVE  /\ Len(<<a, b>>) = 2 /\ DOMAIN <<a, b>> = 1..2
           /\ PartsOf(<<a, b>>) = {a, b}
<1>1. PICK s : s = <<a, b>> OBVIOUS
<1>2. Len(s) = 2 /\ DOMAIN s = 1..2 BY <1>1
<1>3. 1..2 = {1, 2} OBVIOUS
<1>4. s[1] = a /\ s[2] = b BY <1>1
<1>5. PartsOf(s) = {a, b} BY <1>2, <1>3, <1>4 DEF PartsOf
<1> QED BY <1>1, <1>2, <1>5

\* Buttons that fit: on a row; a copy, where busy covers the loads; of what was
\* typed; and the same for owners only.
LEMMA ButtonsFit ==
    ASSUME NEW x, NEW name, NEW part \in PartsOf(x.parts)
    PROVE  /\ ButtonFits(x, Panel!OnRow(name, part))
           /\ x.loads /\ x.marks /\ x.readers = Panel!Roles
                 => ButtonFits(x, Panel!Button(name, part))
           /\ ButtonFits(x, Panel!Typed(name)) /\ ButtonFits(x, Panel!Leaving(name))
<1>1. ButtonFits(x, Panel!OnRow(name, part))
  <2>1. PICK b : b = Panel!OnRow(name, part) OBVIOUS
  <2>2. /\ b.copies = part /\ b.to = "row" /\ b.shows = {} /\ b.then = "load"
        /\ b.marks = TRUE
    BY <2>1 DEF Panel!OnRow, Panel!Button
  <2> QED BY <2>1, <2>2 DEF ButtonFits
<1>2. x.loads /\ x.marks /\ x.readers = Panel!Roles => ButtonFits(x, Panel!Button(name, part))
  <2>1. PICK b : b = Panel!Button(name, part) OBVIOUS
  <2>2. /\ b.copies = part /\ b.to = "chosen" /\ b.shows = {} /\ b.then = "load"
        /\ b.marks = TRUE
    BY <2>1 DEF Panel!Button
  <2> QED BY <2>1, <2>2 DEF ButtonFits
<1>3. ButtonFits(x, Panel!Typed(name))
  <2>1. PICK b : b = Panel!Typed(name) OBVIOUS
  <2>2. /\ b.copies = "typed" /\ b.to = "chosen" /\ b.shows = {} /\ b.then = "load"
        /\ b.marks = TRUE
    BY <2>1 DEF Panel!Typed, Panel!Button
  <2> QED BY <2>1, <2>2 DEF ButtonFits
<1>4. ButtonFits(x, Panel!Leaving(name))
  <2>1. PICK b : b = Panel!Leaving(name) OBVIOUS
  <2>2. /\ b.copies = "typed" /\ b.to = "chosen" /\ b.shows = {} /\ b.then = "leave"
        /\ b.marks = TRUE
    BY <2>1 DEF Panel!Leaving, Panel!Typed, Panel!Button
  <2> QED BY <2>1, <2>2 DEF ButtonFits
<1> QED BY <1>1, <1>2, <1>3, <1>4

\* What owners may click fits as well.
LEMMA OwnersFit ==
    ASSUME NEW x, NEW buttons, \A b \in buttons : IsButton(b) /\ ButtonFits(x, b)
    PROVE  \A b \in Panel!Owners(buttons) : ButtonFits(x, b)
<1>1. ASSUME NEW b \in buttons PROVE ButtonFits(x, [b EXCEPT !.actors = {"OWNER"}])
  BY <1>1, ButtonsVary
<1> QED BY <1>1 DEF Panel!Owners

\* What is left of a panel, once its buttons fit.
LEMMA FitsIf ==
    ASSUME NEW x, x.level \in {"org", "workspace"}, x.loads \in BOOLEAN, x.marks \in BOOLEAN,
           NEW n \in {1, 2}, Len(x.parts) = n, DOMAIN x.parts = 1..n,
           x.level = "workspace" => x.readers = Panel!Roles,
           \A b \in x.buttons : ButtonFits(x, b)
    PROVE  PanelFits(x)
<1>1. Len(x.parts) \in Nat \ {0} /\ DOMAIN x.parts = 1..Len(x.parts) OBVIOUS
<1> QED BY <1>1 DEF PanelFits

\* Every panel of the web application fits.
LEMMA PanelsFit == \A x \in Panel!Panels : PanelFits(x)
<1>1. PanelFits(Panel!ApprovalsInbox)
  <2>1. PICK x : x = Panel!ApprovalsInbox OBVIOUS
  <2>2. /\ x.level = "workspace" /\ x.loads = TRUE /\ x.marks = TRUE
        /\ x.parts = <<"rows">> /\ x.readers = Panel!Roles
        /\ x.buttons = {Panel!OnRow("onApprove", "rows"), Panel!OnRow("onReject", "rows")}
    BY <2>1 DEF Panel!ApprovalsInbox, Panel!Plain
  <2>3. /\ Len(x.parts) = 1 /\ DOMAIN x.parts = 1..1
        /\ PartsOf(x.parts) = {"rows"}
    BY <2>2, OnePart
  <2>4. \A b \in x.buttons : ButtonFits(x, b)
    <3>1. "rows" \in PartsOf(x.parts) BY <2>3
    <3>2. ButtonFits(x, Panel!OnRow("onApprove", "rows")) BY <2>2, <3>1, ButtonsFit
    <3>3. ButtonFits(x, Panel!OnRow("onReject", "rows")) BY <2>2, <3>1, ButtonsFit
    <3> QED BY <2>2, <3>2, <3>3
  <2>5. /\ x.level \in {"org", "workspace"} /\ x.loads \in BOOLEAN /\ x.marks \in BOOLEAN
        /\ x.level = "workspace" => x.readers = Panel!Roles
    BY <2>2
  <2>6. PanelFits(x) BY <2>3, <2>4, <2>5, FitsIf
  <2> QED BY <2>1, <2>6
<1>2. PanelFits(Panel!GrantsAdmin)
  <2>1. PICK x : x = Panel!GrantsAdmin OBVIOUS
  <2>2. /\ x.level = "workspace" /\ x.loads = TRUE /\ x.marks = TRUE
        /\ x.parts = <<"rows">> /\ x.readers = Panel!Roles
        /\ x.buttons = {Panel!Button("toggle", "rows"), Panel!Button("toggleApproval", "rows")}
    BY <2>1 DEF Panel!GrantsAdmin, Panel!Plain
  <2>3. /\ Len(x.parts) = 1 /\ DOMAIN x.parts = 1..1
        /\ PartsOf(x.parts) = {"rows"}
    BY <2>2, OnePart
  <2>4. \A b \in x.buttons : ButtonFits(x, b)
    <3>1. "rows" \in PartsOf(x.parts) BY <2>3
    <3>2. ButtonFits(x, Panel!Button("toggle", "rows")) BY <2>2, <3>1, ButtonsFit
    <3>3. ButtonFits(x, Panel!Button("toggleApproval", "rows")) BY <2>2, <3>1, ButtonsFit
    <3> QED BY <2>2, <3>2, <3>3
  <2>5. /\ x.level \in {"org", "workspace"} /\ x.loads \in BOOLEAN /\ x.marks \in BOOLEAN
        /\ x.level = "workspace" => x.readers = Panel!Roles
    BY <2>2
  <2>6. PanelFits(x) BY <2>3, <2>4, <2>5, FitsIf
  <2> QED BY <2>1, <2>6
<1>3. PanelFits(Panel!PackagesAdmin)
  <2>1. PICK x : x = Panel!PackagesAdmin OBVIOUS
  <2>2. /\ x.level = "org" /\ x.loads = TRUE /\ x.marks = TRUE
        /\ x.parts = <<"rows">> /\ x.readers = Panel!Roles
        /\ x.buttons = {Panel!Button("installPackage", "rows"),
                   Panel!Button("uninstallPackage", "rows"),
                   Panel!Button("pinPackage", "rows")}
    BY <2>1 DEF Panel!PackagesAdmin, Panel!Plain
  <2>3. /\ Len(x.parts) = 1 /\ DOMAIN x.parts = 1..1
        /\ PartsOf(x.parts) = {"rows"}
    BY <2>2, OnePart
  <2>4. \A b \in x.buttons : ButtonFits(x, b)
    <3>1. "rows" \in PartsOf(x.parts) BY <2>3
    <3>2. ButtonFits(x, Panel!Button("installPackage", "rows")) BY <2>2, <3>1, ButtonsFit
    <3>3. ButtonFits(x, Panel!Button("uninstallPackage", "rows")) BY <2>2, <3>1, ButtonsFit
    <3>4. ButtonFits(x, Panel!Button("pinPackage", "rows")) BY <2>2, <3>1, ButtonsFit
    <3> QED BY <2>2, <3>2, <3>3, <3>4
  <2>5. /\ x.level \in {"org", "workspace"} /\ x.loads \in BOOLEAN /\ x.marks \in BOOLEAN
        /\ x.level = "workspace" => x.readers = Panel!Roles
    BY <2>2
  <2>6. PanelFits(x) BY <2>3, <2>4, <2>5, FitsIf
  <2> QED BY <2>1, <2>6
<1>4. PanelFits(Panel!MemoryViewer)
  <2>1. PICK x : x = Panel!MemoryViewer OBVIOUS
  <2>2. /\ x.level = "workspace" /\ x.loads = TRUE /\ x.marks = TRUE
        /\ x.parts = <<"rows">> /\ x.readers = Panel!Roles
        /\ x.buttons = {Panel!Typed("onCreate"), Panel!OnRow("onPin", "rows"),
                   Panel!OnRow("onForget", "rows")}
    BY <2>1 DEF Panel!MemoryViewer, Panel!Plain
  <2>3. /\ Len(x.parts) = 1 /\ DOMAIN x.parts = 1..1
        /\ PartsOf(x.parts) = {"rows"}
    BY <2>2, OnePart
  <2>4. \A b \in x.buttons : ButtonFits(x, b)
    <3>1. "rows" \in PartsOf(x.parts) BY <2>3
    <3>2. ButtonFits(x, Panel!Typed("onCreate")) BY <2>2, <3>1, ButtonsFit
    <3>3. ButtonFits(x, Panel!OnRow("onPin", "rows")) BY <2>2, <3>1, ButtonsFit
    <3>4. ButtonFits(x, Panel!OnRow("onForget", "rows")) BY <2>2, <3>1, ButtonsFit
    <3> QED BY <2>2, <3>2, <3>3, <3>4
  <2>5. /\ x.level \in {"org", "workspace"} /\ x.loads \in BOOLEAN /\ x.marks \in BOOLEAN
        /\ x.level = "workspace" => x.readers = Panel!Roles
    BY <2>2
  <2>6. PanelFits(x) BY <2>3, <2>4, <2>5, FitsIf
  <2> QED BY <2>1, <2>6
<1>5. PanelFits(Panel!ConnectorsAdmin)
  <2>1. PICK x : x = Panel!ConnectorsAdmin OBVIOUS
  <2>2. /\ x.level = "workspace" /\ x.loads = TRUE /\ x.marks = TRUE
        /\ x.parts = <<"connections", "pages">> /\ x.readers = Panel!Roles
        /\ x.buttons = {[Panel!Leaving("connectProvider") EXCEPT !.marks = FALSE],
                   [Panel!Button("disconnectProvider", "connections") EXCEPT !.marks = FALSE],
                   Panel!Button("onSelectPage", "pages")}
    BY <2>1 DEF Panel!ConnectorsAdmin, Panel!Plain
  <2>3. /\ Len(x.parts) = 2 /\ DOMAIN x.parts = 1..2
        /\ PartsOf(x.parts) = {"connections", "pages"}
    BY <2>2, TwoParts
  <2>4. \A b \in x.buttons : ButtonFits(x, b)
    <3>1. ButtonFits(x, [Panel!Leaving("connectProvider") EXCEPT !.marks = FALSE])
      BY <2>3, AreButtons, ButtonsFit, ButtonsVary
    <3>2. ButtonFits(x, [Panel!Button("disconnectProvider", "connections")
                            EXCEPT !.marks = FALSE])
      <4>1. ButtonFits(x, Panel!Button("disconnectProvider", "connections"))
        BY <2>2, <2>3, ButtonsFit
      <4> QED BY <4>1, AreButtons, ButtonsVary
    <3>3. ButtonFits(x, Panel!Button("onSelectPage", "pages")) BY <2>2, <2>3, ButtonsFit
    <3> QED BY <2>2, <3>1, <3>2, <3>3
  <2>5. /\ x.level \in {"org", "workspace"} /\ x.loads \in BOOLEAN /\ x.marks \in BOOLEAN
        /\ x.level = "workspace" => x.readers = Panel!Roles
    BY <2>2
  <2>6. PanelFits(x) BY <2>3, <2>4, <2>5, FitsIf
  <2> QED BY <2>1, <2>6
<1>6. PanelFits(Panel!WorkflowsPanel)
  <2>1. PICK x : x = Panel!WorkflowsPanel OBVIOUS
  <2>2. /\ x.level = "workspace" /\ x.loads = FALSE /\ x.marks = TRUE
        /\ x.parts = <<"run">> /\ x.readers = Panel!Roles
        /\ x.buttons = {[b EXCEPT !.shows = {"run"}, !.then = "poll"] :
                      b \in {Panel!Typed("onStart"), Panel!OnRow("onResume", "run")}}
    BY <2>1 DEF Panel!WorkflowsPanel, Panel!Plain
  <2>3. /\ Len(x.parts) = 1 /\ DOMAIN x.parts = 1..1
        /\ PartsOf(x.parts) = {"run"}
    BY <2>2, OnePart
  <2>4. \A b \in x.buttons : ButtonFits(x, b)
    <3>1. ASSUME NEW b, IsButton(b), b.copies = "typed" \/ (b.copies = "run" /\ b.to = "row"),
                 b.to \in {"chosen", "row"}, b.marks = TRUE
          PROVE  ButtonFits(x, [b EXCEPT !.shows = {"run"}, !.then = "poll"])
      <4>1. PICK c : c = [b EXCEPT !.shows = {"run"}, !.then = "poll"] OBVIOUS
      <4>2. /\ c.copies = b.copies /\ c.to = b.to /\ c.shows = {"run"} /\ c.then = "poll"
            /\ c.marks = TRUE
        BY <4>1, <3>1 DEF IsButton
      <4>3. ButtonFits(x, c) BY <4>2, <3>1, <2>2, <2>3 DEF ButtonFits
      <4> QED BY <4>1, <4>3
    <3>2. \A b \in {Panel!Typed("onStart"), Panel!OnRow("onResume", "run")} :
              ButtonFits(x, [b EXCEPT !.shows = {"run"}, !.then = "poll"])
      <4>1. PICK b : b = Panel!Typed("onStart") OBVIOUS
      <4>2. PICK c : c = Panel!OnRow("onResume", "run") OBVIOUS
      <4>3. IsButton(b) /\ b.copies = "typed" /\ b.to = "chosen" /\ b.marks = TRUE
        BY <4>1, AreButtons DEF Panel!Typed, Panel!Button
      <4>4. IsButton(c) /\ c.copies = "run" /\ c.to = "row" /\ c.marks = TRUE
        BY <4>2, AreButtons DEF Panel!OnRow, Panel!Button
      <4>5. ButtonFits(x, [b EXCEPT !.shows = {"run"}, !.then = "poll"]) BY <3>1, <4>3
      <4>6. ButtonFits(x, [c EXCEPT !.shows = {"run"}, !.then = "poll"]) BY <3>1, <4>4
      <4> QED BY <4>1, <4>2, <4>5, <4>6
    <3> QED BY <2>2, <3>2
  <2>5. /\ x.level \in {"org", "workspace"} /\ x.loads \in BOOLEAN /\ x.marks \in BOOLEAN
        /\ x.level = "workspace" => x.readers = Panel!Roles
    BY <2>2
  <2>6. PanelFits(x) BY <2>3, <2>4, <2>5, FitsIf
  <2> QED BY <2>1, <2>6
<1>7. PanelFits(Panel!QuotasAdmin)
  <2>1. PICK x : x = Panel!QuotasAdmin OBVIOUS
  <2>2. /\ x.level = "org" /\ x.loads = TRUE /\ x.marks = TRUE
        /\ x.parts = <<"rows">> /\ x.readers = Panel!Roles
        /\ x.buttons = Panel!Owners({Panel!Button("saveOverrides", "rows")})
    BY <2>1 DEF Panel!QuotasAdmin, Panel!Plain
  <2>3. /\ Len(x.parts) = 1 /\ DOMAIN x.parts = 1..1
        /\ PartsOf(x.parts) = {"rows"}
    BY <2>2, OnePart
  <2>4. \A b \in x.buttons : ButtonFits(x, b)
    <3>1. ButtonFits(x, Panel!Button("saveOverrides", "rows")) BY <2>2, <2>3, ButtonsFit
    <3>2. IsButton(Panel!Button("saveOverrides", "rows")) BY AreButtons
    <3> QED BY <2>2, <3>1, <3>2, OwnersFit
  <2>5. /\ x.level \in {"org", "workspace"} /\ x.loads \in BOOLEAN /\ x.marks \in BOOLEAN
        /\ x.level = "workspace" => x.readers = Panel!Roles
    BY <2>2
  <2>6. PanelFits(x) BY <2>3, <2>4, <2>5, FitsIf
  <2> QED BY <2>1, <2>6
<1>8. PanelFits(Panel!BillingAdmin)
  <2>1. PICK x : x = Panel!BillingAdmin OBVIOUS
  <2>2. /\ x.level = "org" /\ x.loads = TRUE /\ x.marks = TRUE
        /\ x.parts = <<"status", "invoices">> /\ x.readers = Panel!Admins
        /\ x.buttons = Panel!Owners({Panel!Leaving("checkout"), Panel!Leaving("openManage"),
                     [Panel!Typed("cancelAtPeriodEnd")
                         EXCEPT !.shows = {"status"}, !.then = "rest"]})
    BY <2>1 DEF Panel!BillingAdmin, Panel!Plain
  <2>3. /\ Len(x.parts) = 2 /\ DOMAIN x.parts = 1..2
        /\ PartsOf(x.parts) = {"status", "invoices"}
    BY <2>2, TwoParts
  <2>4. \A b \in x.buttons : ButtonFits(x, b)
    <3>1. PICK b : b = [Panel!Typed("cancelAtPeriodEnd")
                            EXCEPT !.shows = {"status"}, !.then = "rest"]
      OBVIOUS
    <3>2. /\ IsButton(b) /\ b.copies = "typed" /\ b.to = "chosen" /\ b.shows = {"status"}
          /\ b.then = "rest" /\ b.marks = TRUE
      <4>1. PICK c : c = Panel!Typed("cancelAtPeriodEnd") OBVIOUS
      <4>2. IsButton(c) /\ c.copies = "typed" /\ c.to = "chosen" /\ c.marks = TRUE
        BY <4>1, AreButtons DEF Panel!Typed, Panel!Button
      <4> QED BY <4>1, <4>2, <3>1 DEF IsButton
    <3>3. ButtonFits(x, b) BY <3>2, <2>2, <2>3 DEF ButtonFits
    <3>4. \A c \in {Panel!Leaving("checkout"), Panel!Leaving("openManage"), b} :
              IsButton(c) /\ ButtonFits(x, c)
      BY <3>2, <3>3, <2>3, AreButtons, ButtonsFit
    <3>5. x.buttons = Panel!Owners({Panel!Leaving("checkout"), Panel!Leaving("openManage"), b})
      BY <2>2, <3>1
    <3> QED BY <3>4, <3>5, OwnersFit
  <2>5. /\ x.level \in {"org", "workspace"} /\ x.loads \in BOOLEAN /\ x.marks \in BOOLEAN
        /\ x.level = "workspace" => x.readers = Panel!Roles
    BY <2>2
  <2>6. PanelFits(x) BY <2>3, <2>4, <2>5, FitsIf
  <2> QED BY <2>1, <2>6
<1>9. PanelFits(Panel!PrivacyAdmin)
  <2>1. PICK x : x = Panel!PrivacyAdmin OBVIOUS
  <2>2. /\ x.level = "org" /\ x.loads = TRUE /\ x.marks = FALSE
        /\ x.parts = <<"audit">> /\ x.readers = Panel!Admins
        /\ x.buttons = Panel!Owners({Panel!Typed("run")})
    BY <2>1 DEF Panel!PrivacyAdmin, Panel!Plain
  <2>3. /\ Len(x.parts) = 1 /\ DOMAIN x.parts = 1..1
        /\ PartsOf(x.parts) = {"audit"}
    BY <2>2, OnePart
  <2>4. \A b \in x.buttons : ButtonFits(x, b)
    <3>1. ButtonFits(x, Panel!Typed("run")) BY <2>3, ButtonsFit
    <3>2. IsButton(Panel!Typed("run")) BY AreButtons
    <3> QED BY <2>2, <3>1, <3>2, OwnersFit
  <2>5. /\ x.level \in {"org", "workspace"} /\ x.loads \in BOOLEAN /\ x.marks \in BOOLEAN
        /\ x.level = "workspace" => x.readers = Panel!Roles
    BY <2>2
  <2>6. PanelFits(x) BY <2>3, <2>4, <2>5, FitsIf
  <2> QED BY <2>1, <2>6
<1>10. PanelFits(Panel!PersonaEditor)
  <2>1. PICK x : x = Panel!PersonaEditor OBVIOUS
  <2>2. /\ x.level = "workspace" /\ x.loads = TRUE /\ x.marks = TRUE
        /\ x.parts = <<"rows">> /\ x.readers = Panel!Roles
        /\ x.buttons = {Panel!Button("onSave", "rows")}
    BY <2>1 DEF Panel!PersonaEditor, Panel!Plain
  <2>3. /\ Len(x.parts) = 1 /\ DOMAIN x.parts = 1..1
        /\ PartsOf(x.parts) = {"rows"}
    BY <2>2, OnePart
  <2>4. \A b \in x.buttons : ButtonFits(x, b)
    <3>1. "rows" \in PartsOf(x.parts) BY <2>3
    <3>2. ButtonFits(x, Panel!Button("onSave", "rows")) BY <2>2, <3>1, ButtonsFit
    <3> QED BY <2>2, <3>2
  <2>5. /\ x.level \in {"org", "workspace"} /\ x.loads \in BOOLEAN /\ x.marks \in BOOLEAN
        /\ x.level = "workspace" => x.readers = Panel!Roles
    BY <2>2
  <2>6. PanelFits(x) BY <2>3, <2>4, <2>5, FitsIf
  <2> QED BY <2>1, <2>6
<1> QED BY <1>1, <1>2, <1>3, <1>4, <1>5, <1>6, <1>7, <1>8, <1>9, <1>10 DEF Panel!Panels

-----------------------------------------------------------------------------
(* The calls of a panel.                                                   *)

\* The panel on screen is one of the ten.
LEMMA PanelOnScreen ==
    ASSUME ChoiceTyped
    PROVE  PanelFits(panel)
BY PanelsFit DEF ChoiceTyped

\* An idle call is nothing.
LEMMA IdleIs ==
    /\ Panel!Idle.kind = "none" /\ Panel!Idle.shows = {} /\ Panel!Idle.then = "rest"
    /\ CallFits(Panel!Idle) /\ CallCurrent(Panel!Idle)
<1>1. PICK c : c = Panel!Idle OBVIOUS
<1>2. /\ c.kind = "none" /\ c.org = "none" /\ c.at = <<"none", "none">>
      /\ c.to = <<"none", "none">> /\ c.step = 0 /\ c.shows = {} /\ c.then = "rest"
      /\ c.marks = FALSE
  BY <1>1 DEF Panel!Idle, Panel!None, Panel!Nowhere
<1>3. <<"none", "none">> \in Panel!Spots BY DEF Panel!Spots, Panel!Places, Panel!None
<1>4. c = [kind |-> "none", org |-> "none", at |-> <<"none", "none">>,
           to |-> <<"none", "none">>, step |-> 0, shows |-> {}, then |-> "rest",
           marks |-> FALSE]
  BY <1>1 DEF Panel!Idle, Panel!None, Panel!Nowhere
<1>5. c \in Calls BY <1>3, <1>4 DEF Calls
<1>6. CallFits(c) BY <1>1, <1>2, <1>5 DEF CallFits
<1>7. CallCurrent(c) BY <1>2 DEF CallCurrent
<1> QED BY <1>1, <1>2, <1>6, <1>7

\* A load begins with the first part.
LEMMA LoadIs ==
    ASSUME ChoiceTyped, NEW at \in Panel!Spots, NEW m \in BOOLEAN
    PROVE  /\ Panel!Load(at, m).kind = "load" /\ Panel!Load(at, m).at = at
           /\ Panel!Load(at, m).step = 1 /\ Panel!Load(at, m).shows = {}
           /\ CallFits(Panel!Load(at, m))
<1>1. PICK i : i = Panel!Idle OBVIOUS
<1>2. i \in Calls BY <1>1, IdleIs DEF CallFits
<1>3. i.kind = "none" /\ i.shows = {} BY <1>1, IdleIs
<1>4. panel.marks \in BOOLEAN BY PanelOnScreen DEF PanelFits
<1>5. PICK n \in BOOLEAN : n = (m \/ panel.marks) BY <1>4
<1>6. PICK c : c = [i EXCEPT !.kind = "load", !.at = at, !.step = 1, !.marks = n] OBVIOUS
<1>7. c = Panel!Load(at, m) BY <1>1, <1>5, <1>6 DEF Panel!Load
<1>8. c \in Calls BY <1>2, <1>6 DEF Calls
<1>9. c.kind = "load" /\ c.at = at /\ c.step = 1 /\ c.shows = {}
  BY <1>2, <1>3, <1>6 DEF Calls
<1>10. c # Panel!Idle BY <1>9, IdleIs
<1>11. 1 \in DOMAIN panel.parts BY PanelOnScreen DEF PanelFits
<1>12. CallFits(c) BY <1>8, <1>9, <1>10, <1>11 DEF CallFits
<1> QED BY <1>7, <1>9, <1>12

\* Where there is room, a slot is free.
LEMMA FreeSlot ==
    ASSUME Panel!Room
    PROVE  Panel!Free \in Slots /\ call[Panel!Free] = Panel!Idle
<1>1. \E s \in Slots : call[s] = Panel!Idle BY DEF Panel!Room, Panel!InHand
<1> QED BY <1>1 DEF Panel!Free

\* What is in hand has a kind.
LEMMA InHandIs ==
    ASSUME CallsTyped, NEW s \in Slots
    PROVE  /\ s \in Panel!InHand <=> call[s].kind # "none"
           /\ call[s].kind = "list" => Panel!Opening
BY DEF CallsTyped, CallFits, Panel!InHand, Panel!Opening

\* One call changes.
LEMMA OneCall ==
    ASSUME CallsTyped, NEW s \in Slots, NEW c, CallFits(c), panel' = panel,
           call' = [call EXCEPT ![s] = c]
    PROVE  /\ CallsTyped' /\ call'[s] = c
           /\ \A x \in Slots \ {s} : call'[x] = call[x]
<1>1. Calls' = Calls BY DEF Calls, Panel!Spots, Panel!Places, Panel!Parts
<1>2. call \in [Slots -> Calls] /\ \A x \in Slots : CallFits(call[x]) BY DEF CallsTyped
<1>3. call'[s] = c /\ \A x \in Slots \ {s} : call'[x] = call[x] BY <1>2
<1>4. ASSUME NEW x \in Slots PROVE CallFits(call[x])'
  <2>1. PICK d : d = call'[x] OBVIOUS
  <2>2. CallFits(d) BY <1>2, <1>3, <2>1
  <2> QED BY <1>1, <2>1, <2>2 DEF CallFits, Panel!Idle, Panel!Nowhere, Panel!None
<1>5. c \in Calls BY DEF CallFits
<1>6. call' \in [Slots -> Calls] BY <1>2, <1>5
<1> QED BY <1>1, <1>3, <1>4, <1>6 DEF CallsTyped

\* A slot becomes free.
LEMMA CallEnds ==
    ASSUME CallsTyped, NEW s \in Slots, panel' = panel,
           call' = [call EXCEPT ![s] = Panel!Idle]
    PROVE  /\ CallsTyped' /\ call'[s] = Panel!Idle
           /\ \A x \in Slots \ {s} : call'[x] = call[x]
<1>1. PICK c : c = Panel!Idle OBVIOUS
<1>2. CallFits(c) BY <1>1, IdleIs
<1>3. /\ CallsTyped' /\ call'[s] = c
      /\ \A x \in Slots \ {s} : call'[x] = call[x]
  BY <1>1, <1>2, OneCall
<1> QED BY <1>1, <1>3

\* The effect on what is chosen: a load, for a user who may read it.
LEMMA Reloads ==
    ASSUME ChoiceTyped, CallsTyped, FlagsTyped, NEW s \in Slots, NEW o,
           NEW at \in Panel!Spots, panel' = panel, Panel!Reload(s, o, at)
    PROVE  /\ CallsTyped' /\ busy' \in BOOLEAN
           /\ \A x \in Slots \ {s} : call'[x] = call[x]
           /\ call'[s].kind \in {"none", "load"}
           /\ call'[s].shows = {}
           /\ call'[s].kind = "load" => call'[s].at = at /\ call'[s].step = 1
           /\ panel.loads /\ Panel!MayRead(o) =>
                 call'[s].kind = "load" /\ (panel.marks => busy')
           /\ busy => busy'
<1>1. CASE panel.loads /\ Panel!MayRead(o)
  <2>1. PICK c : c = Panel!Load(at, FALSE) OBVIOUS
  <2>2. CallFits(c) /\ c.kind = "load" /\ c.at = at /\ c.step = 1 /\ c.shows = {}
    BY <2>1, LoadIs
  <2>3. call' = [call EXCEPT ![s] = c] /\ busy' = (busy \/ panel.marks)
    BY <1>1, <2>1 DEF Panel!Reload
  <2>4. /\ CallsTyped' /\ call'[s] = c
        /\ \A x \in Slots \ {s} : call'[x] = call[x]
    BY <2>2, <2>3, OneCall
  <2> QED BY <2>2, <2>3, <2>4 DEF FlagsTyped
<1>2. CASE ~(panel.loads /\ Panel!MayRead(o))
  <2>1. call' = [call EXCEPT ![s] = Panel!Idle] /\ busy' = busy
    BY <1>2 DEF Panel!Reload
  <2>2. /\ CallsTyped' /\ call'[s] = Panel!Idle
        /\ \A x \in Slots \ {s} : call'[x] = call[x]
    BY <2>1, CallEnds
  <2> QED BY <1>2, <2>1, <2>2, IdleIs DEF FlagsTyped
<1> QED BY <1>1, <1>2

-----------------------------------------------------------------------------
(* What a user does with a panel.                                          *)

\* Everyone may read a panel that is for all.
LEMMA AllMayRead ==
    ASSUME org \in Organisations, panel.readers = Panel!Roles
    PROVE  Panel!MayRead(org)
BY WebAppAssumption DEF Panel!MayRead, Panel!Roles

\* Where a choice has been made, its organisation is known.
LEMMA ChoiceIsPlaced ==
    ASSUME ChoiceTyped, Placed,
           home # "none" \/ Panel!InHand # {} \/ listed # {} \/ org # "none"
    PROVE  org \in Organisations
BY DEF ChoiceTyped, Placed

\* What is chosen is a spot.
LEMMA ChosenIsSpot ==
    ASSUME ChoiceTyped, NEW h \in Panel!Places, NEW x \in panel.subs
    PROVE  <<h, x>> \in Panel!Spots
BY DEF Panel!Spots, Panel!None

\* What the panel is made of stays as long as the panel does.
LEMMA PartsStay ==
    ASSUME panel' = panel
    PROVE  /\ Panel!Parts' = Panel!Parts /\ Panel!Spots' = Panel!Spots
           /\ Panel!Places' = Panel!Places
BY DEF Panel!Parts, Panel!Spots, Panel!Places

\* Without a call that opens an organisation, the workspace is settled.
LEMMA NoLists ==
    ASSUME panel' = panel, org' = org, home' = home, Settled, CallsTyped, CallsTyped',
           \A s \in Slots : call[s].kind # "list",
           \A s \in Slots : call'[s].kind # "list"
    PROVE  ListsAlone' /\ Settled'
<1>1. ListsAlone' BY DEF ListsAlone
<1>2. ~Panel!Opening BY DEF Panel!Opening, Panel!InHand
<1>3. Settled' BY <1>2 DEF Settled
<1> QED BY <1>1, <1>3

\* Another call in hand: no organisation is being opened.
LEMMA NotAlone ==
    ASSUME CallsTyped, ListsAlone, NEW s \in Slots, call[s].kind \notin {"none", "list"}
    PROVE  \A x \in Slots : call[x].kind # "list"
BY InHandIs DEF ListsAlone

\* A choice made while nothing is in hand: all that is in hand is its load.
LEMMA Afresh ==
    ASSUME ChoiceTyped, CallsTyped, FlagsTyped, NEW s \in Slots, NEW o \in Organisations,
           NEW at \in Panel!Spots, panel' = panel, content' = content, org' = o,
           at = <<home', sub'>>, Panel!Reload(s, o, at),
           \A x \in Slots \ {s} : call[x] = Panel!Idle,
           panel.level = "workspace" => home' \in WorkspacesOf[o]
    PROVE  Tidy'
<1>1. /\ CallsTyped' /\ call'[s].kind \in {"none", "load"} /\ call'[s].shows = {}
      /\ call'[s].kind = "load" => call'[s].at = at /\ call'[s].step = 1
      /\ panel.loads /\ Panel!MayRead(o) => call'[s].kind = "load" /\ (panel.marks => busy')
      /\ \A x \in Slots \ {s} : call'[x] = call[x]
  BY Reloads
<1>2. \A x \in Slots \ {s} : call'[x].kind = "none" /\ call'[x].shows = {} BY <1>1, IdleIs
<1>3. ListsAlone' BY <1>1, <1>2 DEF ListsAlone
<1>4. Settled' BY DEF Settled
<1>5. CallsCurrent'
  <2>1. PICK n : n \in Nat /\ DOMAIN panel.parts = 1..n BY PanelOnScreen DEF PanelFits
  <2>2. \A i \in DOMAIN panel.parts : ~(i < 1) BY <2>1
  <2>3. CallCurrent(call[s])' BY <1>1, <2>2 DEF CallCurrent, Panel!Chosen
  <2>4. ASSUME NEW x \in Slots \ {s} PROVE CallCurrent(call[x])'
    BY <1>2 DEF CallCurrent
  <2> QED BY <2>3, <2>4 DEF CallsCurrent
<1>6. StaleLoads' BY <1>1 DEF StaleLoads, Panel!MayRead
<1>7. StaleIsBusy'
  <2>1. ASSUME panel.loads, panel.marks, panel.readers = Panel!Roles PROVE busy'
    <3>1. Panel!MayRead(o) BY <2>1, WebAppAssumption DEF Panel!MayRead, Panel!Roles
    <3> QED BY <1>1, <2>1, <3>1
  <2>2. \A x \in Slots : call'[x].kind # "write" BY <1>1, <1>2
  <2> QED BY <2>1, <2>2 DEF StaleIsBusy, Panel!Roles
<1> QED BY <1>3, <1>4, <1>5, <1>6, <1>7 DEF Tidy

\* Another workspace is chosen (ChooseWorkspace).
LEMMA ChooseWorkspaceHolds ==
    ASSUME PanelInv, NEW w \in listed, Panel!ChooseWorkspace(w)
    PROVE  PanelInv'
<1>1. ChoiceTyped /\ ContentTyped /\ FlagsTyped /\ CallsTyped /\ Placed /\ ~astray
  BY DEF PanelInv, PanelTyped
<1>2. /\ w # home /\ home' = w /\ Panel!Room /\ Panel!Reload(Panel!Free, org, <<w, sub>>)
      /\ panel' = panel /\ org' = org /\ sub' = sub /\ listed' = listed
      /\ content' = content /\ astray' = astray
      /\ rash' = (rash \/ ~Panel!AtRest)
  BY DEF Panel!ChooseWorkspace, Panel!Careful
<1>3. PICK s \in Slots : s = Panel!Free /\ call[s] = Panel!Idle BY <1>2, FreeSlot
<1>4. org \in Organisations /\ org # "none" BY <1>1, ChoiceIsPlaced, WebAppAssumption
<1>5. w \in Panel!Places /\ sub \in panel.subs BY <1>1 DEF ChoiceTyped
<1>6. PICK at \in Panel!Spots : at = <<w, sub>> BY <1>1, <1>5, ChosenIsSpot
<1>7. Panel!Reload(s, org, at) BY <1>2, <1>3, <1>6
<1>8. CallsTyped' /\ busy' \in BOOLEAN BY <1>1, <1>2, <1>7, Reloads
<1>9. armed' \in BOOLEAN BY DEF Panel!ChooseWorkspace, Panel!Arm
<1>10. panel.level = "workspace"
  BY <1>1, PanelOnScreen DEF Placed, PanelFits
<1>11. PanelTyped'
  <2>1. ChoiceTyped' BY <1>1, <1>2, <1>5, PartsStay DEF ChoiceTyped
  <2>2. ContentTyped' BY <1>1, <1>2, PartsStay DEF ContentTyped
  <2>3. FlagsTyped' BY <1>1, <1>2, <1>8, <1>9 DEF FlagsTyped
  <2> QED BY <1>8, <2>1, <2>2, <2>3 DEF PanelTyped
<1>12. Placed' BY <1>1, <1>2, <1>4, <1>10 DEF Placed
<1>13. ASSUME ~rash' PROVE Tidy'
  <2>1. Panel!AtRest /\ Tidy BY <1>2, <1>13 DEF PanelInv
  <2>2. \A x \in Slots \ {s} : call[x] = Panel!Idle
    BY <2>1 DEF Panel!AtRest, Panel!InHand
  <2>3. home \in WorkspacesOf[org]
    BY <1>4, <1>10, <2>1 DEF Tidy, Settled, Panel!AtRest, Panel!Opening
  <2>4. home \in listed BY <1>1, <1>4, <1>10, <2>3, WebAppAssumption DEF Placed
  <2>5. listed = WorkspacesOf[org]
    <3>1. PICK o \in Organisations : listed = WorkspacesOf[o]
      BY <1>1, <1>10, <2>4 DEF Placed
    <3> QED BY <1>4, <2>3, <2>4, <3>1, WebAppAssumption
  <2>6. PICK o \in Organisations : o = org BY <1>4
  <2>7. home' \in WorkspacesOf[o] /\ org' = o /\ at = <<home', sub'>>
    BY <1>2, <1>6, <2>5, <2>6
  <2>8. Panel!Reload(s, o, at) BY <1>7, <2>6
  <2> QED BY <1>1, <1>2, <2>2, <2>7, <2>8, Afresh
<1> QED BY <1>1, <1>2, <1>11, <1>12, <1>13 DEF PanelInv

\* Another scope or agent is chosen (ChooseSub).
LEMMA ChooseSubHolds ==
    ASSUME PanelInv, NEW y \in panel.subs, Panel!ChooseSub(y)
    PROVE  PanelInv'
<1>1. ChoiceTyped /\ ContentTyped /\ FlagsTyped /\ CallsTyped /\ Placed /\ ~astray
  BY DEF PanelInv, PanelTyped
<1>2. /\ home # "none" /\ sub' = y
      /\ Panel!Room /\ Panel!Reload(Panel!Free, org, <<home, y>>)
      /\ panel' = panel /\ org' = org /\ home' = home /\ listed' = listed
      /\ content' = content /\ astray' = astray /\ armed' = armed
      /\ rash' = (rash \/ ~Panel!AtRest)
  BY DEF Panel!ChooseSub, Panel!Careful, Panel!None
<1>3. PICK s \in Slots : s = Panel!Free /\ call[s] = Panel!Idle BY <1>2, FreeSlot
<1>4. org \in Organisations /\ org # "none"
  BY <1>1, <1>2, ChoiceIsPlaced, WebAppAssumption
<1>5. home \in Panel!Places BY <1>1 DEF ChoiceTyped
<1>6. PICK at \in Panel!Spots : at = <<home, y>> BY <1>1, <1>5, ChosenIsSpot
<1>7. Panel!Reload(s, org, at) BY <1>2, <1>3, <1>6
<1>8. CallsTyped' /\ busy' \in BOOLEAN BY <1>1, <1>2, <1>7, Reloads
<1>9. PanelTyped'
  <2>1. ChoiceTyped' BY <1>1, <1>2, PartsStay DEF ChoiceTyped
  <2>2. ContentTyped' BY <1>1, <1>2, PartsStay DEF ContentTyped
  <2>3. FlagsTyped' BY <1>1, <1>2, <1>8 DEF FlagsTyped
  <2> QED BY <1>8, <2>1, <2>2, <2>3 DEF PanelTyped
<1>10. Placed' BY <1>1, <1>2, <1>4 DEF Placed
<1>11. ASSUME ~rash' PROVE Tidy'
  <2>1. Panel!AtRest /\ Tidy BY <1>2, <1>11 DEF PanelInv
  <2>2. \A x \in Slots \ {s} : call[x] = Panel!Idle
    BY <2>1 DEF Panel!AtRest, Panel!InHand
  <2>3. panel.level = "workspace" => home \in WorkspacesOf[org]
    BY <1>4, <2>1 DEF Tidy, Settled, Panel!AtRest, Panel!Opening
  <2>4. PICK o \in Organisations : o = org BY <1>4
  <2>5. /\ panel.level = "workspace" => home' \in WorkspacesOf[o]
        /\ org' = o /\ at = <<home', sub'>>
    BY <1>2, <1>6, <2>3, <2>4
  <2>6. Panel!Reload(s, o, at) BY <1>7, <2>4
  <2> QED BY <1>1, <1>2, <2>2, <2>5, <2>6, Afresh
<1> QED BY <1>1, <1>2, <1>9, <1>10, <1>11 DEF PanelInv

\* An organisation is entered (Open, ChooseOrg), with nothing in hand: its
\* workspaces are listed, or it is loaded.
LEMMA EnterHolds ==
    ASSUME PanelInv, NEW o \in Organisations, Panel!Room, Panel!Enter(Panel!Free, o),
           rash' \in BOOLEAN,
           ~rash' => Panel!InHand = {} /\ ~armed /\ (org = "none" \/ ~rash)
    PROVE  PanelInv'
<1>1. ChoiceTyped /\ ContentTyped /\ FlagsTyped /\ CallsTyped /\ Placed /\ ~astray
  BY DEF PanelInv, PanelTyped
<1>2. /\ org' = o /\ panel' = panel /\ sub' = sub /\ listed' = listed
      /\ content' = content /\ armed' = armed /\ astray' = astray
  BY DEF Panel!Enter
<1>3. PICK s \in Slots : s = Panel!Free /\ call[s] = Panel!Idle BY FreeSlot
<1>4. o # "none" /\ o \in Panel!Places BY WebAppAssumption DEF Panel!Places
<1>5. ASSUME ~rash' PROVE \A x \in Slots : call[x] = Panel!Idle
  BY <1>5 DEF Panel!InHand
<1>6. CASE panel.level = "org"
  <2>1. home' = o /\ Panel!Reload(s, o, <<o, sub>>) BY <1>3, <1>6 DEF Panel!Enter
  <2>2. sub \in panel.subs BY <1>1 DEF ChoiceTyped
  <2>3. PICK at \in Panel!Spots : at = <<o, sub>> BY <1>1, <1>4, <2>2, ChosenIsSpot
  <2>4. Panel!Reload(s, o, at) BY <2>1, <2>3
  <2>5. CallsTyped' /\ busy' \in BOOLEAN BY <1>1, <1>2, <2>4, Reloads
  <2>6. PanelTyped'
    <3>1. ChoiceTyped' BY <1>1, <1>2, <1>4, <2>1, PartsStay DEF ChoiceTyped
    <3>2. ContentTyped' BY <1>1, <1>2, PartsStay DEF ContentTyped
    <3>3. FlagsTyped' BY <1>1, <1>2, <2>5 DEF FlagsTyped
    <3> QED BY <2>5, <3>1, <3>2, <3>3 DEF PanelTyped
  <2>7. Placed' BY <1>1, <1>2, <1>4, <1>6, <2>1 DEF Placed
  <2>8. ASSUME ~rash' PROVE Tidy'
    <3>1. \A x \in Slots \ {s} : call[x] = Panel!Idle BY <1>5, <2>8
    <3>2. at = <<home', sub'>> BY <1>2, <2>1, <2>3
    <3> QED BY <1>1, <1>2, <1>6, <2>4, <3>1, <3>2, Afresh
  <2> QED BY <1>1, <1>2, <2>6, <2>7, <2>8 DEF PanelInv
<1>7. CASE panel.level # "org"
  <2>1. PICK i : i = Panel!Idle OBVIOUS
  <2>2. i \in Calls /\ i.shows = {} BY <2>1, IdleIs DEF CallFits
  <2>3. PICK c : c = [i EXCEPT !.kind = "list", !.org = o] OBVIOUS
  <2>4. call' = [call EXCEPT ![s] = c] /\ home' = home /\ busy' = busy
    BY <1>3, <1>7, <2>1, <2>3 DEF Panel!Enter
  <2>5. panel.level = "workspace" BY <1>1, <1>7, PanelOnScreen DEF PanelFits
  <2>6. c \in Calls /\ c.kind = "list" /\ c.org = o /\ c.shows = {} BY <2>2, <2>3 DEF Calls
  <2>7. CallFits(c) BY <2>5, <2>6, IdleIs DEF CallFits
  <2>8. CallsTyped' /\ call'[s] = c /\ \A x \in Slots \ {s} : call'[x] = call[x]
    BY <1>1, <1>2, <2>4, <2>7, OneCall
  <2>9. PanelTyped'
    <3>1. ChoiceTyped' BY <1>1, <1>2, <1>4, <2>4, PartsStay DEF ChoiceTyped
    <3>2. ContentTyped' BY <1>1, <1>2, PartsStay DEF ContentTyped
    <3>3. FlagsTyped' BY <1>1, <1>2, <2>4 DEF FlagsTyped
    <3> QED BY <2>8, <3>1, <3>2, <3>3 DEF PanelTyped
  <2>10. Placed' BY <1>1, <1>2, <1>4, <2>4, <2>5 DEF Placed
  <2>11. ASSUME ~rash' PROVE Tidy'
    <3>1. \A x \in Slots : call[x] = Panel!Idle BY <1>5, <2>11
    <3>2. \A x \in Slots \ {s} : call'[x].kind = "none" /\ call'[x].shows = {}
      BY <2>8, <3>1, IdleIs
    <3>3. Panel!InHand' = {s}
      <4>1. s \in Panel!InHand' BY <2>6, <2>8, IdleIs DEF Panel!InHand, Panel!Idle
      <4>2. \A x \in Slots \ {s} : x \notin Panel!InHand'
        BY <2>8, <3>1 DEF Panel!InHand, Panel!Idle
      <4> QED BY <4>1, <4>2 DEF Panel!InHand
    <3>4. ListsAlone' BY <1>2, <2>6, <2>8, <2>11, <3>2, <3>3 DEF ListsAlone
    <3>5. Settled' BY <2>6, <2>8, <3>3 DEF Settled, Panel!Opening
    <3>6. CallsCurrent' BY <2>6, <2>8, <3>2 DEF CallsCurrent, CallCurrent
    <3>7. panel.loads => ~Stale
      <4>1. CASE org = "none" BY <1>1, <4>1 DEF Placed, Stale
      <4>2. CASE org # "none"
        <5>1. Tidy BY <2>11, <4>2 DEF PanelInv
        <5>2. org \in Organisations BY <1>1, <4>2 DEF ChoiceTyped
        <5>3. panel.readers = Panel!Roles BY <1>1, <2>5, PanelOnScreen DEF PanelFits
        <5>4. Panel!MayRead(org) BY <5>2, <5>3, AllMayRead
        <5>5. \A x \in Slots : call[x].kind # "load" BY <3>1, IdleIs
        <5> QED BY <4>2, <5>1, <5>4, <5>5 DEF Tidy, StaleLoads
      <4> QED BY <4>1, <4>2
    <3>8. panel.loads => ~Stale'
      BY <1>2, <2>4, <3>7, PartsStay DEF Stale, Fresh, Panel!Chosen
    <3> QED BY <1>2, <3>4, <3>5, <3>6, <3>8 DEF Tidy, StaleLoads, StaleIsBusy
  <2> QED BY <1>1, <1>2, <2>9, <2>10, <2>11 DEF PanelInv
<1> QED BY <1>6, <1>7

\* The organisations are known (Open).
LEMMA OpenHolds ==
    ASSUME PanelInv, NEW o \in Organisations, Panel!Open(o)
    PROVE  PanelInv'
<1>1. Placed /\ FlagsTyped BY DEF PanelInv, PanelTyped
<1>2. org = "none" /\ rash' = rash /\ Panel!Room /\ Panel!Enter(Panel!Free, o)
  BY DEF Panel!Open, Panel!None
<1>3. Panel!InHand = {} /\ ~armed BY <1>1, <1>2 DEF Placed
<1>4. rash' \in BOOLEAN BY <1>1, <1>2 DEF FlagsTyped
<1> QED BY <1>2, <1>3, <1>4, EnterHolds

\* Another organisation is chosen (ChooseOrg).
LEMMA ChooseOrgHolds ==
    ASSUME PanelInv, NEW o \in Organisations, Panel!ChooseOrg(o)
    PROVE  PanelInv'
<1>1. FlagsTyped BY DEF PanelInv, PanelTyped
<1>2. /\ rash' = (rash \/ ~Panel!AtRest) /\ Panel!Room
      /\ Panel!Enter(Panel!Free, o)
  BY DEF Panel!ChooseOrg, Panel!Careful
<1>3. ~rash' => Panel!InHand = {} /\ ~armed /\ ~rash BY <1>2 DEF Panel!AtRest
<1>4. rash' \in BOOLEAN BY <1>1, <1>2 DEF FlagsTyped
<1> QED BY <1>2, <1>3, <1>4, EnterHolds

\* What is chosen is loaded again (Again): the content stays, one load more.
LEMMA AgainHolds ==
    ASSUME PanelInv, Panel!Again
    PROVE  PanelInv'
<1>1. ChoiceTyped /\ ContentTyped /\ FlagsTyped /\ CallsTyped /\ Placed /\ ~astray
  BY DEF PanelInv, PanelTyped
<1>2. /\ home # "none" /\ Panel!Room /\ Panel!Reload(Panel!Free, org, Panel!Chosen)
      /\ panel' = panel /\ org' = org /\ home' = home /\ sub' = sub /\ listed' = listed
      /\ content' = content /\ astray' = astray
  BY DEF Panel!Again, Panel!None
<1>3. \/ rash' = (rash \/ Panel!Opening) /\ armed' = armed
      \/ armed /\ armed' = FALSE /\ rash' = rash
  BY DEF Panel!Again, Panel!Careful
<1>4. PICK s \in Slots : s = Panel!Free /\ call[s] = Panel!Idle BY <1>2, FreeSlot
<1>5. org \in Organisations /\ org # "none"
  BY <1>1, <1>2, ChoiceIsPlaced, WebAppAssumption
<1>6. home \in Panel!Places /\ sub \in panel.subs BY <1>1 DEF ChoiceTyped
<1>7. PICK at \in Panel!Spots : at = <<home, sub>> BY <1>1, <1>6, ChosenIsSpot
<1>8. Panel!Reload(s, org, at) BY <1>2, <1>4, <1>7 DEF Panel!Chosen
<1>9. /\ CallsTyped' /\ busy' \in BOOLEAN
      /\ \A x \in Slots \ {s} : call'[x] = call[x]
      /\ call'[s].kind \in {"none", "load"} /\ call'[s].shows = {}
      /\ call'[s].kind = "load" => call'[s].at = at /\ call'[s].step = 1
      /\ busy => busy'
  BY <1>1, <1>2, <1>8, Reloads
<1>10. rash' \in BOOLEAN /\ armed' \in BOOLEAN BY <1>1, <1>3 DEF FlagsTyped
<1>11. PanelTyped'
  <2>1. ChoiceTyped' BY <1>1, <1>2, PartsStay DEF ChoiceTyped
  <2>2. ContentTyped' BY <1>1, <1>2, PartsStay DEF ContentTyped
  <2>3. FlagsTyped' BY <1>1, <1>2, <1>9, <1>10 DEF FlagsTyped
  <2> QED BY <1>9, <2>1, <2>2, <2>3 DEF PanelTyped
<1>12. Placed' BY <1>1, <1>2, <1>5 DEF Placed
<1>13. ASSUME ~rash' PROVE Tidy'
  <2>1. Tidy BY <1>3, <1>13 DEF PanelInv
  <2>2. \A x \in Slots : call[x].kind # "list"
    <3>1. CASE ~Panel!Opening BY <1>1, <3>1, InHandIs
    <3>2. CASE armed BY <2>1, <3>2 DEF Tidy, ListsAlone
    <3> QED BY <1>3, <1>13, <3>1, <3>2
  <2>3. \A x \in Slots : call'[x].kind # "list" BY <1>9, <2>2
  <2>4. ListsAlone' /\ Settled' BY <1>1, <1>2, <1>9, <2>1, <2>2, <2>3, NoLists DEF Tidy
  <2>5. CallsCurrent'
    <3>1. ASSUME panel.loads, NEW x \in Slots \ {s} PROVE CallCurrent(call[x])'
      <4>1. CallCurrent(call[x]) BY <2>1, <3>1 DEF Tidy, CallsCurrent
      <4> QED BY <1>2, <1>9, <4>1 DEF CallCurrent, Panel!Chosen
    <3>2. PICK n : n \in Nat /\ DOMAIN panel.parts = 1..n
      BY <1>1, PanelOnScreen DEF PanelFits
    <3>3. \A i \in DOMAIN panel.parts : ~(i < 1) BY <3>2
    <3>4. CallCurrent(call[s])' BY <1>2, <1>7, <1>9, <3>3 DEF CallCurrent, Panel!Chosen
    <3> QED BY <1>2, <3>1, <3>4 DEF CallsCurrent
  <2>6. Stale' <=> Stale BY <1>2, PartsStay DEF Stale, Fresh, Panel!Chosen
  <2>7. StaleLoads'
    <3>1. ASSUME panel.loads, Panel!MayRead(org), Stale
          PROVE  \E x \in Slots : call'[x].kind = "load"
      <4>1. PICK x \in Slots : call[x].kind = "load"
        BY <1>5, <2>1, <3>1 DEF Tidy, StaleLoads
      <4>2. x # s BY <1>4, <4>1, IdleIs
      <4> QED BY <1>9, <4>1, <4>2
    <3> QED BY <1>2, <2>6, <3>1 DEF StaleLoads, Panel!MayRead
  <2>8. StaleIsBusy' BY <1>2, <1>9, <2>1, <2>6 DEF Tidy, StaleIsBusy, Panel!Roles
  <2> QED BY <2>4, <2>5, <2>7, <2>8 DEF Tidy
<1> QED BY <1>1, <1>2, <1>11, <1>12, <1>13 DEF PanelInv

\* A button is clicked (Click): where it copies the screen, the screen is of
\* what is chosen, or goes back to where it came from.
LEMMA ClickHolds ==
    ASSUME PanelInv, NEW b \in panel.buttons, Panel!Click(b)
    PROVE  PanelInv'
<1>1. ChoiceTyped /\ ContentTyped /\ FlagsTyped /\ CallsTyped /\ Placed /\ ~astray
  BY DEF PanelInv, PanelTyped
<1>2. PICK seen : seen = IF b.copies = "typed" THEN Panel!Chosen ELSE content[b.copies]
  OBVIOUS
<1>3. PICK to : to = IF b.to = "row" THEN seen ELSE Panel!Chosen OBVIOUS
<1>4. PICK chosen : chosen = Panel!Chosen OBVIOUS
<1>5. PICK i : i = Panel!Idle OBVIOUS
<1>6. PICK c : c = [i EXCEPT !.kind = "write", !.at = chosen, !.to = to,
                             !.shows = b.shows, !.then = b.then, !.marks = b.marks]
  OBVIOUS
<1>7. /\ home # "none" /\ ~busy /\ Panel!Room
      /\ call' = [call EXCEPT ![Panel!Free] = c]
      /\ busy' = b.marks
      /\ rash' = (rash \/ Panel!Opening)
      /\ astray' = (astray \/ (~rash /\ to # seen))
      /\ panel' = panel /\ org' = org /\ home' = home /\ sub' = sub /\ listed' = listed
      /\ content' = content /\ armed' = armed
  BY <1>2, <1>3, <1>4, <1>5, <1>6 DEF Panel!Click, Panel!Careful, Panel!None
<1>8. PICK s \in Slots : s = Panel!Free /\ call[s] = Panel!Idle BY <1>7, FreeSlot
<1>9. org \in Organisations /\ org # "none"
  BY <1>1, <1>7, ChoiceIsPlaced, WebAppAssumption
<1>10. ButtonFits(panel, b) BY <1>1, PanelOnScreen DEF PanelFits
<1>11. PartsOf(panel.parts) = Panel!Parts BY DEF PartsOf, Panel!Parts
<1>12. chosen \in Panel!Spots
  <2>1. home \in Panel!Places /\ sub \in panel.subs BY <1>1 DEF ChoiceTyped
  <2> QED BY <1>1, <1>4, <2>1, ChosenIsSpot DEF Panel!Chosen
<1>13. to \in Panel!Spots
  <2>1. ASSUME b.copies \in Panel!Parts PROVE content[b.copies] \in Panel!Spots
    BY <1>1, <2>1 DEF ContentTyped
  <2>2. seen \in Panel!Spots BY <1>2, <1>4, <1>10, <1>11, <1>12, <2>1 DEF ButtonFits
  <2> QED BY <1>3, <1>4, <1>12, <2>2
<1>14. /\ b.shows \in SUBSET Panel!Parts
       /\ b.then \in {"load", "poll", "rest", "leave"} /\ b.marks \in BOOLEAN
  BY <1>10, <1>11 DEF ButtonFits
<1>15. i \in Calls BY <1>5, IdleIs DEF CallFits
<1>16. /\ c \in Calls /\ c.kind = "write" /\ c.at = chosen /\ c.to = to
       /\ c.shows = b.shows /\ c.then = b.then
  BY <1>6, <1>12, <1>13, <1>14, <1>15 DEF Calls
<1>17. CallFits(c) BY <1>16, IdleIs DEF CallFits
<1>18. call' = [call EXCEPT ![s] = c] BY <1>7, <1>8
<1>19. CallsTyped' /\ call'[s] = c /\ \A x \in Slots \ {s} : call'[x] = call[x]
  BY <1>1, <1>7, <1>17, <1>18, OneCall
<1>20. ASSUME ~rash, panel.loads, panel.marks, panel.readers = Panel!Roles PROVE ~Stale
  BY <1>7, <1>20 DEF PanelInv, Tidy, StaleIsBusy
<1>21. ~astray'
  <2>1. ASSUME ~rash PROVE to = seen
    <3>1. CASE b.copies = "typed" \/ b.to = "row" BY <1>2, <1>3, <3>1
    <3>2. CASE b.copies # "typed" /\ b.to # "row"
      <4>1. panel.loads /\ panel.marks /\ panel.readers = Panel!Roles
        BY <1>10, <3>2 DEF ButtonFits
      <4>2. ~Stale BY <1>20, <2>1, <4>1
      <4>3. b.copies \in Panel!Parts BY <1>10, <1>11, <3>2 DEF ButtonFits
      <4>4. content[b.copies] = Panel!Chosen BY <1>7, <4>2, <4>3 DEF Stale, Fresh
      <4> QED BY <1>2, <1>3, <3>2, <4>4
    <3> QED BY <3>1, <3>2
  <2> QED BY <1>1, <1>7, <2>1
<1>22. PanelTyped'
  <2>1. ChoiceTyped' BY <1>1, <1>7, PartsStay DEF ChoiceTyped
  <2>2. ContentTyped' BY <1>1, <1>7, PartsStay DEF ContentTyped
  <2>3. rash' \in BOOLEAN BY <1>1, <1>7 DEF FlagsTyped
  <2>4. FlagsTyped' BY <1>1, <1>7, <1>14, <1>21, <2>3 DEF FlagsTyped
  <2> QED BY <1>19, <2>1, <2>2, <2>4 DEF PanelTyped
<1>23. Placed' BY <1>1, <1>7, <1>9 DEF Placed
<1>24. ASSUME ~rash' PROVE Tidy'
  <2>1. Tidy /\ ~rash /\ ~Panel!Opening BY <1>7, <1>24 DEF PanelInv
  <2>2. \A x \in Slots : call[x].kind # "list" BY <1>1, <2>1, InHandIs
  <2>3. \A x \in Slots : call'[x].kind # "list" BY <1>16, <1>19, <2>2
  <2>4. ListsAlone' /\ Settled' BY <1>1, <1>7, <1>19, <2>1, <2>2, <2>3, NoLists DEF Tidy
  <2>5. CallsCurrent'
    <3>1. ASSUME panel.loads, NEW x \in Slots \ {s} PROVE CallCurrent(call[x])'
      <4>1. CallCurrent(call[x]) BY <2>1, <3>1 DEF Tidy, CallsCurrent
      <4> QED BY <1>7, <1>19, <4>1 DEF CallCurrent, Panel!Chosen
    <3>2. ASSUME panel.loads PROVE CallCurrent(call[s])'
      <4>1. c.then # "poll" /\ (c.shows # {} => b.to = "chosen")
        BY <1>10, <1>16, <3>2 DEF ButtonFits
      <4>2. c.shows # {} => c.to = chosen BY <1>3, <1>4, <1>16, <4>1
      <4>3. chosen = <<home', sub'>> BY <1>4, <1>7 DEF Panel!Chosen
      <4> QED BY <1>16, <1>19, <4>1, <4>2, <4>3 DEF CallCurrent, Panel!Chosen
    <3> QED BY <1>7, <3>1, <3>2 DEF CallsCurrent
  <2>6. Stale' <=> Stale BY <1>7, PartsStay DEF Stale, Fresh, Panel!Chosen
  <2>7. StaleLoads'
    <3>1. ASSUME panel.loads, Panel!MayRead(org), Stale
          PROVE  \E x \in Slots : call'[x].kind = "load"
      <4>1. PICK x \in Slots : call[x].kind = "load"
        BY <1>9, <2>1, <3>1 DEF Tidy, StaleLoads
      <4>2. x # s BY <1>8, <4>1, IdleIs
      <4> QED BY <1>19, <4>1, <4>2
    <3> QED BY <1>7, <2>6, <3>1 DEF StaleLoads, Panel!MayRead
  <2>8. StaleIsBusy' BY <1>7, <1>20, <2>1, <2>6 DEF StaleIsBusy, Panel!Roles
  <2> QED BY <2>4, <2>5, <2>7, <2>8 DEF Tidy
<1> QED BY <1>21, <1>22, <1>23, <1>24 DEF PanelInv

-----------------------------------------------------------------------------
(* What the answers do.                                                    *)

\* The workspaces of an organisation arrive (Listed).
LEMMA ListedHolds ==
    ASSUME PanelInv, NEW s \in Slots, Panel!Listed(s)
    PROVE  PanelInv'
<1>1. ChoiceTyped /\ ContentTyped /\ FlagsTyped /\ CallsTyped /\ Placed /\ ~astray
  BY DEF PanelInv, PanelTyped
<1>2. /\ call[s].kind = "list" /\ listed' = WorkspacesOf[call[s].org]
      /\ panel' = panel /\ org' = org /\ sub' = sub /\ content' = content
      /\ rash' = rash /\ astray' = astray
  BY DEF Panel!Listed
<1>3. PICK w \in listed' :
          /\ home' = w
          /\ IF w = home
             THEN call' = [call EXCEPT ![s] = Panel!Idle] /\ busy' = busy /\ armed' = armed
             ELSE Panel!Reload(s, org, <<w, sub>>) /\ Panel!Arm
  BY DEF Panel!Listed
<1>4. panel.level = "workspace" /\ call[s].org \in Organisations
  BY <1>1, <1>2 DEF CallsTyped, CallFits
<1>5. Panel!InHand # {} BY <1>1, <1>2, InHandIs
<1>6. org \in Organisations /\ org # "none" BY <1>1, <1>5, ChoiceIsPlaced, WebAppAssumption
<1>7. listed' \subseteq Panel!Places BY <1>2, <1>4 DEF Panel!Places
<1>8. w \in Panel!Places /\ sub \in panel.subs BY <1>1, <1>7 DEF ChoiceTyped
<1>9. PICK at \in Panel!Spots : at = <<w, sub>> BY <1>1, <1>8, ChosenIsSpot
<1>10. CallsTyped' /\ busy' \in BOOLEAN /\ armed' \in BOOLEAN
  <2>1. CASE w = home
    <3>1. call' = [call EXCEPT ![s] = Panel!Idle] /\ busy' = busy /\ armed' = armed
      BY <1>3, <2>1
    <3> QED BY <1>1, <1>2, <3>1, CallEnds DEF FlagsTyped
  <2>2. CASE w # home
    <3>1. Panel!Reload(s, org, at) /\ Panel!Arm BY <1>3, <1>9, <2>2
    <3>2. armed' \in BOOLEAN BY <3>1 DEF Panel!Arm
    <3> QED BY <1>1, <1>2, <3>1, <3>2, Reloads
  <2> QED BY <2>1, <2>2
<1>11. PanelTyped'
  <2>1. ChoiceTyped' BY <1>1, <1>2, <1>3, <1>7, <1>8, PartsStay DEF ChoiceTyped
  <2>2. ContentTyped' BY <1>1, <1>2, PartsStay DEF ContentTyped
  <2>3. FlagsTyped' BY <1>1, <1>2, <1>10 DEF FlagsTyped
  <2> QED BY <1>10, <2>1, <2>2, <2>3 DEF PanelTyped
<1>12. Placed' BY <1>2, <1>3, <1>4, <1>6 DEF Placed
<1>13. ASSUME ~rash' PROVE Tidy'
  <2>1. Tidy BY <1>2, <1>13 DEF PanelInv
  <2>2. Panel!InHand = {s} /\ ~armed /\ call[s].org = org
    BY <1>2, <2>1 DEF Tidy, ListsAlone
  <2>3. \A x \in Slots \ {s} : call[x] = Panel!Idle BY <2>2 DEF Panel!InHand
  <2>4. w \in WorkspacesOf[org] BY <1>2, <2>2
  <2>5. CASE w # home
    <3>1. PICK o \in Organisations : o = org BY <1>6
    <3>2. Panel!Reload(s, o, at) BY <1>3, <1>9, <2>5, <3>1
    <3>3. org' = o /\ at = <<home', sub'>> /\ home' \in WorkspacesOf[o]
      BY <1>2, <1>3, <1>9, <2>4, <3>1
    <3> QED BY <1>1, <1>2, <2>3, <3>2, <3>3, Afresh
  <2>6. CASE w = home
    <3>1. call' = [call EXCEPT ![s] = Panel!Idle] /\ busy' = busy /\ armed' = armed
      BY <1>3, <2>6
    <3>2. \A x \in Slots : call'[x] = Panel!Idle
      BY <1>1, <1>2, <2>3, <3>1, CallEnds
    <3>3. \A x \in Slots : call'[x].kind = "none" /\ call'[x].shows = {} BY <3>2, IdleIs
    <3>4. ListsAlone' BY <3>3 DEF ListsAlone
    <3>5. Settled' BY <1>2, <1>3, <2>4 DEF Settled
    <3>6. CallsCurrent' BY <3>3 DEF CallsCurrent, CallCurrent
    <3>7. panel.loads => ~Stale
      <4>1. panel.readers = Panel!Roles BY <1>1, <1>4, PanelOnScreen DEF PanelFits
      <4>2. Panel!MayRead(org) BY <1>6, <4>1, AllMayRead
      <4>3. \A x \in Slots : call[x].kind # "load" BY <1>2, <2>3, IdleIs
      <4> QED BY <1>6, <2>1, <4>2, <4>3 DEF Tidy, StaleLoads
    <3>8. Stale' <=> Stale
      BY <1>2, <1>3, <2>6, PartsStay DEF Stale, Fresh, Panel!Chosen
    <3> QED BY <1>2, <3>4, <3>5, <3>6, <3>7, <3>8 DEF Tidy, StaleLoads, StaleIsBusy
  <2> QED BY <2>5, <2>6
<1> QED BY <1>1, <1>2, <1>11, <1>12, <1>13 DEF PanelInv

\* A call ends.
LEMMA CallOver ==
    ASSUME ChoiceTyped, CallsTyped, FlagsTyped, NEW s \in Slots, panel' = panel, Panel!End(s)
    PROVE  /\ CallsTyped' /\ busy' \in BOOLEAN
           /\ call'[s].kind = "none" /\ call'[s].shows = {}
           /\ \A x \in Slots \ {s} : call'[x] = call[x]
<1>1. call' = [call EXCEPT ![s] = Panel!Idle] /\ busy' = (busy /\ ~call[s].marks)
  BY DEF Panel!End
<1>2. call[s].marks \in BOOLEAN BY DEF CallsTyped, CallFits, Calls
<1>3. busy' \in BOOLEAN BY <1>1, <1>2 DEF FlagsTyped
<1>4. /\ CallsTyped' /\ call'[s] = Panel!Idle
      /\ \A x \in Slots \ {s} : call'[x] = call[x]
  BY <1>1, CallEnds
<1> QED BY <1>3, <1>4, IdleIs

\* Content that was of what is chosen still is, if what is read is.
LEMMA StaysFresh ==
    ASSUME ContentTyped, panel' = panel, home' = home, sub' = sub,
           \A p \in Panel!Parts : content'[p] = content[p] \/ content'[p] = Panel!Chosen
    PROVE  /\ \A p \in Panel!Parts :
                 content[p] = Panel!Chosen => content'[p] = Panel!Chosen'
           /\ Stale' => Stale
<1>1. Panel!Chosen' = Panel!Chosen BY DEF Panel!Chosen
<1>2. Fresh => Fresh' BY <1>1, PartsStay DEF Fresh
<1>3. Stale' => Stale BY <1>2 DEF Stale
<1> QED BY <1>1, <1>3

\* A part of the content is a part.
LEMMA PartIs ==
    ASSUME NEW i \in DOMAIN panel.parts
    PROVE  panel.parts[i] \in Panel!Parts
BY DEF Panel!Parts

\* Calls that were current stay so while what is chosen does.
LEMMA StaysCurrent ==
    ASSUME ContentTyped, panel' = panel, home' = home, sub' = sub, NEW x \in Slots,
           \A p \in Panel!Parts : content'[p] = content[p] \/ content'[p] = Panel!Chosen,
           CallCurrent(call[x]), call'[x] = call[x]
    PROVE  CallCurrent(call[x])'
<1>1. Panel!Chosen' = Panel!Chosen BY DEF Panel!Chosen
<1>2. PICK c : c = call[x] OBVIOUS
<1>3. c = call'[x] BY <1>2
<1>4. CallCurrent(c) BY <1>2
<1>5. ASSUME c.kind = "load", NEW i \in DOMAIN panel.parts, i < c.step
      PROVE  content'[panel.parts[i]] = Panel!Chosen'
  <2>1. content[panel.parts[i]] = Panel!Chosen BY <1>4, <1>5 DEF CallCurrent
  <2> QED BY <2>1, PartIs, StaysFresh
<1> QED BY <1>1, <1>3, <1>4, <1>5 DEF CallCurrent

\* What a load has read is shown (Read).
LEMMA ReadTypes ==
    ASSUME PanelInv, NEW s \in Slots, call[s].kind = "load",
           NEW last \in call[s].step .. Len(panel.parts), panel' = panel,
           content' = [p \in Panel!Parts |->
                          IF \E i \in call[s].step .. last : panel.parts[i] = p
                          THEN call[s].at ELSE content[p]]
    PROVE  /\ ContentTyped'
           /\ call[s].step \in Nat /\ last \in Nat
           /\ \A i \in DOMAIN panel.parts :
                 call[s].step <= i /\ i <= last => content'[panel.parts[i]] = call[s].at
           /\ \A p \in Panel!Parts : content'[p] = content[p] \/ content'[p] = call[s].at
<1>1. ContentTyped /\ CallsTyped BY DEF PanelInv, PanelTyped
<1>2. call[s].at \in Panel!Spots /\ call[s].step \in Nat
  BY <1>1 DEF CallsTyped, CallFits, Calls
<1>3. Len(panel.parts) \in Nat /\ DOMAIN panel.parts = 1..Len(panel.parts)
  BY PanelOnScreen DEF PanelInv, PanelTyped, PanelFits
<1>4. last \in Nat BY <1>2, <1>3
<1>5. \A p \in Panel!Parts : content'[p] = content[p] \/ content'[p] = call[s].at OBVIOUS
<1>6. \A p \in Panel!Parts : content'[p] \in Panel!Spots BY <1>1, <1>2, <1>5 DEF ContentTyped
<1>7. content' \in [Panel!Parts -> Panel!Spots] BY <1>6
<1>8. ContentTyped' BY <1>7, PartsStay DEF ContentTyped
<1>9. ASSUME NEW i \in DOMAIN panel.parts, call[s].step <= i, i <= last
      PROVE  content'[panel.parts[i]] = call[s].at
  <2>1. i \in call[s].step .. last BY <1>2, <1>3, <1>4, <1>9
  <2> QED BY <2>1, PartIs
<1> QED BY <1>2, <1>4, <1>5, <1>8, <1>9

LEMMA ReadHolds ==
    ASSUME PanelInv, NEW s \in Slots, Panel!Read(s)
    PROVE  PanelInv'
<1>1. ChoiceTyped /\ ContentTyped /\ FlagsTyped /\ CallsTyped /\ Placed /\ ~astray
  BY DEF PanelInv, PanelTyped
<1>2. /\ call[s].kind = "load"
      /\ panel' = panel /\ org' = org /\ home' = home /\ sub' = sub /\ listed' = listed
      /\ armed' = armed /\ astray' = astray
  BY DEF Panel!Read
<1>3. PICK last \in call[s].step .. Len(panel.parts) :
        /\ content' = [p \in Panel!Parts |->
                          IF \E i \in call[s].step .. last : panel.parts[i] = p
                          THEN call[s].at ELSE content[p]]
        /\ IF last < Len(panel.parts)
           THEN call' = [call EXCEPT ![s].step = last + 1] /\ busy' = busy /\ rash' = rash
           ELSE /\ Panel!End(s)
                /\ rash' = (rash /\ ~(/\ Panel!InHand = {s} /\ ~armed
                                      /\ panel.level = "workspace" =>
                                            home \in WorkspacesOf[org]
                                      /\ \A p \in Panel!Parts : content'[p] = Panel!Chosen))
  BY DEF Panel!Read
<1>4. /\ ContentTyped' /\ call[s].step \in Nat /\ last \in Nat
      /\ \A i \in DOMAIN panel.parts :
            call[s].step <= i /\ i <= last => content'[panel.parts[i]] = call[s].at
      /\ \A p \in Panel!Parts : content'[p] = content[p] \/ content'[p] = call[s].at
  BY <1>2, <1>3, ReadTypes
<1>5. ChoiceTyped' BY <1>1, <1>2, PartsStay DEF ChoiceTyped
<1>6. Panel!InHand # {} BY <1>1, <1>2, InHandIs
<1>7. org \in Organisations /\ org # "none" BY <1>1, <1>6, ChoiceIsPlaced, WebAppAssumption
<1>8. Placed' BY <1>1, <1>2, <1>7 DEF Placed
<1>9. Len(panel.parts) \in Nat /\ DOMAIN panel.parts = 1..Len(panel.parts)
  BY <1>1, PanelOnScreen DEF PanelFits
<1>10. ASSUME Tidy
       PROVE  /\ \A x \in Slots : call[x].kind # "list"
              /\ panel.loads =>
                   /\ call[s].at = Panel!Chosen
                   /\ \A i \in DOMAIN panel.parts :
                         i <= last => content'[panel.parts[i]] = Panel!Chosen
                   /\ \A p \in Panel!Parts :
                         content'[p] = content[p] \/ content'[p] = Panel!Chosen
  <2>1. \A x \in Slots : call[x].kind # "list"
    BY <1>1, <1>2, <1>10, NotAlone DEF Tidy
  <2>2. ASSUME panel.loads PROVE CallCurrent(call[s])
    BY <1>10, <2>2 DEF Tidy, CallsCurrent
  <2>3. panel.loads => call[s].at = Panel!Chosen BY <1>2, <2>2 DEF CallCurrent
  <2>4. ASSUME panel.loads, NEW i \in DOMAIN panel.parts, i <= last
        PROVE  content'[panel.parts[i]] = Panel!Chosen
    <3>1. CASE call[s].step <= i BY <1>4, <2>3, <2>4, <3>1
    <3>2. CASE ~(call[s].step <= i)
      <4>1. i < call[s].step BY <1>4, <1>9, <3>2
      <4>2. content[panel.parts[i]] = Panel!Chosen BY <1>2, <2>2, <2>4, <4>1 DEF CallCurrent
      <4> QED BY <1>4, <2>3, <2>4, <4>2, PartIs
    <3> QED BY <3>1, <3>2
  <2> QED BY <1>4, <2>1, <2>3, <2>4
<1>11. CASE last < Len(panel.parts)
  <2>1. call' = [call EXCEPT ![s].step = last + 1] /\ busy' = busy /\ rash' = rash
    BY <1>3, <1>11
  <2>2. PICK old : old = call[s] OBVIOUS
  <2>3. old \in Calls /\ old.kind = "load" BY <1>1, <1>2, <2>2 DEF CallsTyped, CallFits
  <2>4. PICK c : c = [old EXCEPT !.step = last + 1] OBVIOUS
  <2>5. c \in Calls BY <1>4, <2>3, <2>4 DEF Calls
  <2>6. /\ c.kind = "load" /\ c.at = old.at /\ c.to = old.to /\ c.shows = old.shows
        /\ c.step = last + 1
    BY <2>3, <2>4 DEF Calls
  <2>7. last + 1 \in DOMAIN panel.parts BY <1>4, <1>9, <1>11
  <2>8. CallFits(c) BY <2>5, <2>6, <2>7, IdleIs DEF CallFits
  <2>9. call' = [call EXCEPT ![s] = c] BY <2>1, <2>2, <2>4
  <2>10. CallsTyped' /\ call'[s] = c /\ \A x \in Slots \ {s} : call'[x] = call[x]
    BY <1>1, <1>2, <2>8, <2>9, OneCall
  <2>11. PanelTyped'
    <3>1. FlagsTyped' BY <1>1, <1>2, <2>1 DEF FlagsTyped
    <3> QED BY <1>4, <1>5, <2>10, <3>1 DEF PanelTyped
  <2>12. ASSUME ~rash' PROVE Tidy'
    <3>1. Tidy BY <2>1, <2>12 DEF PanelInv
    <3>2. \A x \in Slots : call'[x].kind = call[x].kind
      BY <2>2, <2>3, <2>6, <2>10
    <3>3. ListsAlone' /\ Settled'
      BY <1>1, <1>2, <1>10, <2>10, <3>1, <3>2, NoLists DEF Tidy
    <3>4. ASSUME panel.loads PROVE CallCurrent(call[s])'
      <4>1. Panel!Chosen' = Panel!Chosen BY <1>2 DEF Panel!Chosen
      <4>2. CallCurrent(old) BY <2>2, <3>1, <3>4 DEF Tidy, CallsCurrent
      <4>3. c.at = Panel!Chosen /\ (c.shows # {} => c.to = Panel!Chosen)
        BY <2>3, <2>6, <4>2 DEF CallCurrent
      <4>4. ASSUME NEW i \in DOMAIN panel.parts, i < last + 1
            PROVE  content'[panel.parts[i]] = Panel!Chosen
        <5>1. i <= last BY <1>4, <1>9, <4>4
        <5> QED BY <1>10, <3>1, <3>4, <5>1
      <4> QED BY <1>2, <2>6, <2>10, <4>1, <4>3, <4>4 DEF CallCurrent
    <3>5. ASSUME panel.loads, NEW x \in Slots \ {s} PROVE CallCurrent(call[x])'
      <4>1. CallCurrent(call[x]) BY <3>1, <3>5 DEF Tidy, CallsCurrent
      <4> QED BY <1>1, <1>2, <1>10, <2>10, <3>1, <3>5, <4>1, StaysCurrent
    <3>6. CallsCurrent' BY <1>2, <3>4, <3>5 DEF CallsCurrent
    <3>7. StaleLoads' BY <2>6, <2>10 DEF StaleLoads
    <3>8. panel.loads /\ Stale' => Stale
      BY <1>1, <1>2, <1>10, <3>1, StaysFresh
    <3>9. StaleIsBusy' BY <1>2, <2>1, <3>1, <3>2, <3>8 DEF Tidy, StaleIsBusy, Panel!Roles
    <3> QED BY <3>3, <3>6, <3>7, <3>9 DEF Tidy
  <2> QED BY <1>1, <1>2, <1>8, <2>11, <2>12 DEF PanelInv
<1>12. CASE ~(last < Len(panel.parts))
  <2>1. /\ Panel!End(s)
        /\ rash' = (rash /\ ~(/\ Panel!InHand = {s} /\ ~armed
                              /\ panel.level = "workspace" => home \in WorkspacesOf[org]
                              /\ \A p \in Panel!Parts : content'[p] = Panel!Chosen))
    BY <1>3, <1>12
  <2>2. last = Len(panel.parts) BY <1>4, <1>9, <1>12
  <2>3. /\ CallsTyped' /\ busy' \in BOOLEAN
        /\ call'[s].kind = "none" /\ call'[s].shows = {}
        /\ \A x \in Slots \ {s} : call'[x] = call[x]
    BY <1>1, <1>2, <2>1, CallOver
  <2>4. PanelTyped'
    <3>1. rash' \in BOOLEAN BY <1>1, <2>1 DEF FlagsTyped
    <3>2. FlagsTyped' BY <1>1, <1>2, <2>3, <3>1 DEF FlagsTyped
    <3> QED BY <1>4, <1>5, <2>3, <3>2 DEF PanelTyped
  <2>5. Panel!Chosen' = Panel!Chosen BY <1>2 DEF Panel!Chosen
  <2>6. ASSUME ~rash PROVE Tidy'
    <3>1. Tidy BY <2>6 DEF PanelInv
    <3>2. \A x \in Slots : call[x].kind # "list" BY <1>10, <3>1
    <3>3. \A x \in Slots : call'[x].kind # "list" BY <2>3, <3>2
    <3>4. ListsAlone' /\ Settled' BY <1>1, <1>2, <2>3, <3>1, <3>2, <3>3, NoLists DEF Tidy
    <3>5. ASSUME panel.loads, NEW x \in Slots \ {s} PROVE CallCurrent(call[x])'
      <4>1. CallCurrent(call[x]) BY <3>1, <3>5 DEF Tidy, CallsCurrent
      <4> QED BY <1>1, <1>2, <1>10, <2>3, <3>1, <3>5, <4>1, StaysCurrent
    <3>6. CallCurrent(call[s])' BY <2>3 DEF CallCurrent
    <3>7. CallsCurrent' BY <1>2, <3>5, <3>6 DEF CallsCurrent
    <3>8. ASSUME panel.loads PROVE Fresh'
      <4>1. ASSUME NEW p \in Panel!Parts PROVE content'[p] = Panel!Chosen
        <5>1. PICK i \in DOMAIN panel.parts : p = panel.parts[i] BY DEF Panel!Parts
        <5>2. i <= last BY <1>9, <2>2
        <5> QED BY <1>10, <3>1, <3>8, <5>1, <5>2
      <4> QED BY <1>2, <2>5, <4>1, PartsStay DEF Fresh
    <3> QED BY <1>2, <3>4, <3>7, <3>8 DEF Tidy, StaleLoads, StaleIsBusy, Stale
  <2>7. ASSUME Panel!InHand = {s}, ~armed,
               panel.level = "workspace" => home \in WorkspacesOf[org],
               \A p \in Panel!Parts : content'[p] = Panel!Chosen
        PROVE  Tidy'
    <3>1. \A x \in Slots \ {s} : call[x] = Panel!Idle BY <2>7 DEF Panel!InHand
    <3>2. \A x \in Slots : call'[x].kind = "none" /\ call'[x].shows = {}
      BY <2>3, <3>1, IdleIs
    <3>3. ListsAlone' BY <3>2 DEF ListsAlone
    <3>4. Settled' BY <1>2, <2>7 DEF Settled
    <3>5. CallsCurrent' BY <3>2 DEF CallsCurrent, CallCurrent
    <3>6. Fresh' BY <1>2, <2>5, <2>7, PartsStay DEF Fresh
    <3> QED BY <3>3, <3>4, <3>5, <3>6 DEF Tidy, StaleLoads, StaleIsBusy, Stale
  <2>8. ~rash' => Tidy' BY <2>1, <2>6, <2>7
  <2> QED BY <1>1, <1>2, <1>8, <2>4, <2>8 DEF PanelInv
<1> QED BY <1>11, <1>12

\* A write is done, and as a rule what is chosen is loaded again (Written).
LEMMA WrittenHolds ==
    ASSUME PanelInv, NEW s \in Slots, Panel!Written(s)
    PROVE  PanelInv'
<1>1. ChoiceTyped /\ ContentTyped /\ FlagsTyped /\ CallsTyped /\ Placed /\ ~astray
  BY DEF PanelInv, PanelTyped
<1>2. PICK done : done = call[s] OBVIOUS
<1>3. /\ done.kind = "write"
      /\ panel' = panel /\ org' = org /\ home' = home /\ sub' = sub /\ listed' = listed
      /\ rash' = rash /\ astray' = astray
      /\ content' = [p \in Panel!Parts |-> IF p \in done.shows THEN done.to ELSE content[p]]
  BY <1>2 DEF Panel!Written
<1>4. /\ done \in Calls
      /\ done.at \in Panel!Spots /\ done.to \in Panel!Spots /\ done.marks \in BOOLEAN
  BY <1>1, <1>2 DEF CallsTyped, CallFits, Calls
<1>5. armed' \in BOOLEAN BY <1>1 DEF Panel!Written, FlagsTyped
<1>6. PICK at \in Panel!Spots : at = IF done.then = "poll" THEN done.to ELSE done.at
  BY <1>4
<1>7. PICK next : next = Panel!Load(at, done.marks) OBVIOUS
<1>8. /\ next.kind = "load" /\ next.at = at /\ next.step = 1 /\ next.shows = {}
      /\ CallFits(next)
  BY <1>1, <1>4, <1>7, LoadIs
<1>9. /\ CallsTyped' /\ busy' \in BOOLEAN
      /\ \A x \in Slots \ {s} : call'[x] = call[x]
      /\ call'[s].kind \in {"none", "load"} /\ call'[s].shows = {}
      /\ call'[s].kind = "load" => call'[s].at = at /\ call'[s].step = 1
  <2>1. CASE done.then = "poll" \/ (done.then = "load" /\ Panel!MayRead(org))
    <3>1. call' = [call EXCEPT ![s] = next] /\ busy' = (busy \/ panel.marks)
      BY <1>2, <1>6, <1>7, <2>1 DEF Panel!Written
    <3>2. panel.marks \in BOOLEAN BY <1>1, PanelOnScreen DEF PanelFits
    <3>3. busy' \in BOOLEAN BY <1>1, <3>1, <3>2 DEF FlagsTyped
    <3>4. CallsTyped' /\ call'[s] = next /\ \A x \in Slots \ {s} : call'[x] = call[x]
      BY <1>1, <1>3, <1>8, <3>1, OneCall
    <3> QED BY <1>8, <3>3, <3>4
  <2>2. CASE ~(done.then = "poll" \/ (done.then = "load" /\ Panel!MayRead(org)))
    <3>1. Panel!End(s) BY <1>2, <2>2 DEF Panel!Written
    <3>2. /\ CallsTyped' /\ busy' \in BOOLEAN
          /\ call'[s].kind = "none" /\ call'[s].shows = {}
          /\ \A x \in Slots \ {s} : call'[x] = call[x]
      BY <1>1, <1>3, <3>1, CallOver
    <3> QED BY <3>2
  <2> QED BY <2>1, <2>2
<1>10. PanelTyped'
  <2>1. ChoiceTyped' BY <1>1, <1>3, PartsStay DEF ChoiceTyped
  <2>2. content' \in [Panel!Parts -> Panel!Spots] BY <1>1, <1>3, <1>4 DEF ContentTyped
  <2>3. ContentTyped' BY <1>3, <2>2, PartsStay DEF ContentTyped
  <2>4. FlagsTyped' BY <1>1, <1>3, <1>5, <1>9 DEF FlagsTyped
  <2> QED BY <1>9, <2>1, <2>3, <2>4 DEF PanelTyped
<1>11. Panel!InHand # {} BY <1>1, <1>2, <1>3, InHandIs
<1>12. org \in Organisations /\ org # "none"
  BY <1>1, <1>11, ChoiceIsPlaced, WebAppAssumption
<1>13. Placed' BY <1>1, <1>3, <1>12 DEF Placed
<1>14. ASSUME ~rash' PROVE Tidy'
  <2>1. Tidy BY <1>3, <1>14 DEF PanelInv
  <2>2. \A x \in Slots : call[x].kind # "list"
    BY <1>1, <1>2, <1>3, <2>1, NotAlone DEF Tidy
  <2>3. \A x \in Slots : call'[x].kind # "list" BY <1>9, <2>2
  <2>4. ListsAlone' /\ Settled' BY <1>1, <1>3, <1>9, <2>1, <2>2, <2>3, NoLists DEF Tidy
  <2>5. ASSUME panel.loads PROVE CallCurrent(done)
    BY <1>2, <2>1, <2>5 DEF Tidy, CallsCurrent
  <2>6. ASSUME panel.loads, NEW p \in Panel!Parts
        PROVE  content'[p] = content[p] \/ content'[p] = Panel!Chosen
    BY <1>3, <2>5, <2>6 DEF CallCurrent
  <2>7. CallsCurrent'
    <3>1. ASSUME panel.loads, NEW x \in Slots \ {s} PROVE CallCurrent(call[x])'
      <4>1. CallCurrent(call[x]) BY <2>1, <3>1 DEF Tidy, CallsCurrent
      <4> QED BY <1>1, <1>3, <1>9, <2>6, <3>1, <4>1, StaysCurrent
    <3>2. ASSUME panel.loads PROVE CallCurrent(call[s])'
      <4>1. at = Panel!Chosen BY <1>3, <1>6, <2>5, <3>2 DEF CallCurrent
      <4>2. at = Panel!Chosen' BY <1>3, <4>1 DEF Panel!Chosen
      <4>3. PICK n : n \in Nat /\ DOMAIN panel.parts = 1..n
        BY <1>1, PanelOnScreen DEF PanelFits
      <4>4. \A i \in DOMAIN panel.parts : ~(i < 1) BY <4>3
      <4> QED BY <1>3, <1>9, <4>2, <4>4 DEF CallCurrent
    <3> QED BY <1>3, <3>1, <3>2 DEF CallsCurrent
  <2>8. panel.loads /\ Stale' => Stale BY <1>1, <1>3, <2>6, StaysFresh
  <2>9. StaleLoads'
    <3>1. ASSUME panel.loads, Panel!MayRead(org), Stale
          PROVE  \E x \in Slots : call'[x].kind = "load"
      <4>1. PICK x \in Slots : call[x].kind = "load"
        BY <1>12, <2>1, <3>1 DEF Tidy, StaleLoads
      <4>2. x # s BY <1>2, <1>3, <4>1
      <4> QED BY <1>9, <4>1, <4>2
    <3> QED BY <1>3, <2>8, <3>1 DEF StaleLoads, Panel!MayRead
  <2>10. StaleIsBusy'
    BY <1>2, <1>3, <2>1, <2>8 DEF Tidy, StaleIsBusy, Panel!Roles
  <2> QED BY <2>4, <2>7, <2>9, <2>10 DEF Tidy
<1> QED BY <1>1, <1>3, <1>10, <1>13, <1>14 DEF PanelInv

\* The browser leaves the page (Left): the panel starts afresh.
LEMMA LeftHolds ==
    ASSUME PanelInv, NEW s \in Slots, Panel!Left(s)
    PROVE  PanelInv'
<1>1. ChoiceTyped /\ FlagsTyped /\ ~astray BY DEF PanelInv, PanelTyped
<1>2. /\ org' = "none" /\ home' = "none" /\ listed' = {} /\ sub' = sub
      /\ content' = [p \in Panel!Parts |-> <<"none", "none">>]
      /\ busy' = FALSE /\ armed' = FALSE /\ rash' = FALSE
      /\ call' = [x \in Slots |-> Panel!Idle]
      /\ panel' = panel /\ astray' = astray
  BY DEF Panel!Left, Panel!None, Panel!Nowhere
<1>3. <<"none", "none">> \in Panel!Spots BY DEF Panel!Spots, Panel!Places, Panel!None
<1>4. Calls' = Calls BY <1>2, PartsStay DEF Calls
<1>5. PICK c : c = Panel!Idle OBVIOUS
<1>6. c.kind = "none" /\ c.shows = {} /\ CallFits(c) BY <1>5, IdleIs
<1>7. \A x \in Slots : call'[x] = c BY <1>2, <1>5
<1>8. CallsTyped'
  <2>1. c \in Calls BY <1>6 DEF CallFits
  <2>2. call' \in [Slots -> Calls] BY <1>2, <1>5, <2>1
  <2>3. ASSUME NEW x \in Slots PROVE CallFits(call[x])'
    BY <1>2, <1>4, <1>6, <1>7 DEF CallFits, Panel!Idle, Panel!Nowhere, Panel!None
  <2> QED BY <1>4, <2>2, <2>3 DEF CallsTyped
<1>9. PanelTyped'
  <2>1. ChoiceTyped' BY <1>1, <1>2, PartsStay DEF ChoiceTyped, Panel!Places, Panel!None
  <2>2. ContentTyped' BY <1>2, <1>3, PartsStay DEF ContentTyped
  <2>3. FlagsTyped' BY <1>1, <1>2 DEF FlagsTyped
  <2> QED BY <1>8, <2>1, <2>2, <2>3 DEF PanelTyped
<1>10. Placed'
  <2>1. Panel!InHand' = {}
    BY <1>2 DEF Panel!InHand, Panel!Idle, Panel!None, Panel!Nowhere
  <2> QED BY <1>2, <2>1 DEF Placed
<1>11. Tidy'
  <2>1. ListsAlone' BY <1>6, <1>7 DEF ListsAlone
  <2>2. Settled' BY <1>2 DEF Settled
  <2>3. CallsCurrent' BY <1>6, <1>7 DEF CallsCurrent, CallCurrent
  <2>4. ~Stale' BY <1>2 DEF Stale
  <2> QED BY <2>1, <2>2, <2>3, <2>4 DEF Tidy, StaleLoads, StaleIsBusy
<1> QED BY <1>1, <1>2, <1>9, <1>10, <1>11 DEF PanelInv

\* A call fails (Failed): the content stays.  Only a user whose write failed
\* may still rely on the screen.
LEMMA FailedHolds ==
    ASSUME PanelInv, NEW s \in Slots, Panel!Failed(s)
    PROVE  PanelInv'
<1>1. ChoiceTyped /\ ContentTyped /\ FlagsTyped /\ CallsTyped /\ Placed /\ ~astray
  BY DEF PanelInv, PanelTyped
<1>2. /\ s \in Panel!InHand /\ Panel!End(s)
      /\ rash' = (rash \/ call[s].kind # "write")
      /\ panel' = panel /\ org' = org /\ home' = home /\ sub' = sub /\ listed' = listed
      /\ content' = content /\ armed' = armed /\ astray' = astray
  BY DEF Panel!Failed
<1>3. /\ CallsTyped' /\ busy' \in BOOLEAN
      /\ call'[s].kind = "none" /\ call'[s].shows = {}
      /\ \A x \in Slots \ {s} : call'[x] = call[x]
  BY <1>1, <1>2, CallOver
<1>4. PanelTyped'
  <2>1. ChoiceTyped' BY <1>1, <1>2, PartsStay DEF ChoiceTyped
  <2>2. ContentTyped' BY <1>1, <1>2, PartsStay DEF ContentTyped
  <2>3. rash' \in BOOLEAN BY <1>1, <1>2 DEF FlagsTyped
  <2>4. FlagsTyped' BY <1>1, <1>2, <1>3, <2>3 DEF FlagsTyped
  <2> QED BY <1>3, <2>1, <2>2, <2>4 DEF PanelTyped
<1>5. org \in Organisations /\ org # "none" BY <1>1, <1>2, ChoiceIsPlaced, WebAppAssumption
<1>6. Placed' BY <1>1, <1>2, <1>5 DEF Placed
<1>7. ASSUME ~rash' PROVE Tidy'
  <2>1. Tidy /\ call[s].kind = "write" BY <1>2, <1>7 DEF PanelInv
  <2>2. \A x \in Slots : call[x].kind # "list" BY <1>1, <2>1, NotAlone DEF Tidy
  <2>3. \A x \in Slots : call'[x].kind # "list" BY <1>3, <2>2
  <2>4. ListsAlone' /\ Settled' BY <1>1, <1>2, <1>3, <2>1, <2>2, <2>3, NoLists DEF Tidy
  <2>5. CallsCurrent'
    <3>1. ASSUME panel.loads, NEW x \in Slots \ {s} PROVE CallCurrent(call[x])'
      <4>1. CallCurrent(call[x]) BY <2>1, <3>1 DEF Tidy, CallsCurrent
      <4> QED BY <1>1, <1>2, <1>3, <4>1, StaysCurrent
    <3>2. CallCurrent(call[s])' BY <1>3 DEF CallCurrent
    <3> QED BY <1>2, <3>1, <3>2 DEF CallsCurrent
  <2>6. Stale' <=> Stale BY <1>2, PartsStay DEF Stale, Fresh, Panel!Chosen
  <2>7. StaleLoads'
    <3>1. ASSUME panel.loads, Panel!MayRead(org), Stale
          PROVE  \E x \in Slots : call'[x].kind = "load"
      <4>1. PICK x \in Slots : call[x].kind = "load"
        BY <1>5, <2>1, <3>1 DEF Tidy, StaleLoads
      <4>2. x # s BY <2>1, <4>1
      <4> QED BY <1>3, <4>1, <4>2
    <3> QED BY <1>2, <2>6, <3>1 DEF StaleLoads, Panel!MayRead
  <2>8. StaleIsBusy' BY <1>2, <2>1, <2>6 DEF Tidy, StaleIsBusy, Panel!Roles
  <2> QED BY <2>4, <2>5, <2>7, <2>8 DEF Tidy
<1> QED BY <1>1, <1>2, <1>4, <1>6, <1>7 DEF PanelInv

-----------------------------------------------------------------------------
(* The steps of a panel together.                                          *)

\* A panel starts with nothing chosen and nothing in hand.
LEMMA PanelStarts == ASSUME Panel!Init PROVE PanelInv
<1>1. /\ panel \in Panel!Panels /\ org = "none" /\ home = "none" /\ listed = {}
      /\ sub \in panel.subs /\ content = [p \in Panel!Parts |-> <<"none", "none">>]
      /\ busy = FALSE /\ armed = FALSE /\ rash = FALSE /\ astray = FALSE
      /\ call = [s \in Slots |-> Panel!Idle]
  BY DEF Panel!Init, Panel!None, Panel!Nowhere
<1>2. <<"none", "none">> \in Panel!Spots BY DEF Panel!Spots, Panel!Places, Panel!None
<1>3. PICK c : c = Panel!Idle OBVIOUS
<1>4. c.kind = "none" /\ c.shows = {} /\ CallFits(c) BY <1>3, IdleIs
<1>5. \A s \in Slots : call[s] = c BY <1>1, <1>3
<1>6. CallsTyped
  <2>1. c \in Calls BY <1>4 DEF CallFits
  <2>2. call \in [Slots -> Calls] BY <1>1, <1>3, <2>1
  <2> QED BY <1>4, <1>5, <2>2 DEF CallsTyped
<1>7. PanelTyped
  <2>1. ChoiceTyped BY <1>1 DEF ChoiceTyped, Panel!Places, Panel!None
  <2>2. ContentTyped BY <1>1, <1>2 DEF ContentTyped
  <2>3. FlagsTyped BY <1>1 DEF FlagsTyped
  <2> QED BY <1>6, <2>1, <2>2, <2>3 DEF PanelTyped
<1>8. Panel!InHand = {} BY <1>4, <1>5, <1>6, InHandIs DEF Panel!InHand
<1>9. Placed BY <1>1, <1>8 DEF Placed
<1>10. Tidy
  <2>1. ListsAlone BY <1>4, <1>5 DEF ListsAlone
  <2>2. Settled BY <1>1 DEF Settled
  <2>3. CallsCurrent BY <1>4, <1>5 DEF CallsCurrent, CallCurrent
  <2>4. ~Stale BY <1>1 DEF Stale
  <2> QED BY <2>1, <2>2, <2>3, <2>4 DEF Tidy, StaleLoads, StaleIsBusy
<1> QED BY <1>1, <1>7, <1>9, <1>10 DEF PanelInv

\* Every step of a panel keeps its invariant.
LEMMA PanelSteps == ASSUME PanelInv, Panel!Next PROVE PanelInv'
<1>1. CASE \E o \in Organisations : Panel!Open(o) \/ Panel!ChooseOrg(o)
  BY <1>1, OpenHolds, ChooseOrgHolds
<1>2. CASE \E w \in listed : Panel!ChooseWorkspace(w) BY <1>2, ChooseWorkspaceHolds
<1>3. CASE \E x \in panel.subs : Panel!ChooseSub(x) BY <1>3, ChooseSubHolds
<1>4. CASE Panel!Again BY <1>4, AgainHolds
<1>5. CASE \E b \in panel.buttons : Panel!Click(b) BY <1>5, ClickHolds
<1>6. CASE \E s \in Slots : \/ Panel!Listed(s) \/ Panel!Read(s) \/ Panel!Written(s)
                            \/ Panel!Left(s) \/ Panel!Failed(s)
  BY <1>6, ListedHolds, ReadHolds, WrittenHolds, LeftHolds, FailedHolds
<1> QED BY <1>1, <1>2, <1>3, <1>4, <1>5, <1>6 DEF Panel!Next

\* And so does a step that leaves it alone.
LEMMA PanelStutters == ASSUME PanelInv, UNCHANGED panelVars PROVE PanelInv'
<1>1. /\ panel' = panel /\ org' = org /\ home' = home /\ sub' = sub /\ listed' = listed
      /\ content' = content /\ busy' = busy /\ call' = call /\ armed' = armed
      /\ rash' = rash /\ astray' = astray
  BY DEF panelVars
<1>2. ChoiceTyped /\ ContentTyped /\ FlagsTyped /\ CallsTyped /\ Placed /\ ~astray
  BY DEF PanelInv, PanelTyped
<1>3. Panel!Chosen' = Panel!Chosen /\ Panel!InHand' = Panel!InHand
  BY <1>1 DEF Panel!Chosen, Panel!InHand, Panel!Idle, Panel!Nowhere, Panel!None
<1>4. Calls' = Calls BY <1>1, PartsStay DEF Calls
<1>5. PanelTyped'
  <2>1. ChoiceTyped' BY <1>1, <1>2, PartsStay DEF ChoiceTyped
  <2>2. ContentTyped' BY <1>1, <1>2, PartsStay DEF ContentTyped
  <2>3. FlagsTyped' BY <1>1, <1>2 DEF FlagsTyped
  <2>4. CallsTyped'
    BY <1>1, <1>2, <1>4 DEF CallsTyped, CallFits, Panel!Idle, Panel!Nowhere, Panel!None
  <2> QED BY <2>1, <2>2, <2>3, <2>4 DEF PanelTyped
<1>6. Placed' BY <1>1, <1>2, <1>3 DEF Placed
<1>7. ASSUME ~rash' PROVE Tidy'
  <2>1. Tidy BY <1>1, <1>7 DEF PanelInv
  <2>2. ListsAlone' BY <1>1, <1>3, <2>1 DEF Tidy, ListsAlone
  <2>3. Settled' BY <1>1, <1>3, <2>1 DEF Tidy, Settled, Panel!Opening
  <2>4. CallsCurrent' BY <1>1, <1>3, <2>1 DEF Tidy, CallsCurrent, CallCurrent
  <2>5. Stale' <=> Stale BY <1>1, <1>3, PartsStay DEF Stale, Fresh
  <2>6. StaleLoads' BY <1>1, <2>1, <2>5 DEF Tidy, StaleLoads, Panel!MayRead
  <2>7. StaleIsBusy' BY <1>1, <2>1, <2>5 DEF Tidy, StaleIsBusy, Panel!Roles
  <2> QED BY <2>2, <2>3, <2>4, <2>6, <2>7 DEF Tidy
<1> QED BY <1>1, <1>2, <1>5, <1>6, <1>7 DEF PanelInv

\* The invariant of the panels holds whatever page is explored.
LEMMA PanelHolds == Spec => []PanelInv
<1>1. Init => PanelInv BY PanelStarts DEF Init
<1>2. PanelInv /\ [Next]_<<page, chatVars, panelVars>> => PanelInv'
  BY PanelSteps, PanelStutters DEF Next
<1> QED BY <1>1, <1>2, PTL DEF Spec

\* While the user is careful and reads succeed, a write that copies the screen
\* goes where the screen was read, and a panel at rest shows what is chosen, in
\* the organisation that is chosen (the effects, loads and buttons of the ten
\* administration panels).
THEOREM PanelsTell == Spec => []PanelsHold
<1>1. ASSUME PanelInv PROVE Panel!WritesLandWhereSeen
  BY <1>1 DEF PanelInv, Panel!WritesLandWhereSeen
<1>2. ASSUME PanelInv PROVE Panel!ShowsWhatIsChosen
  <2>1. SUFFICES ASSUME Panel!AtRest, ~rash, org # "none", panel.loads, Panel!MayRead(org)
                 PROVE  /\ panel.level = "workspace" => home \in WorkspacesOf[org]
                        /\ \A p \in Panel!Parts : content[p] = Panel!Chosen
    BY DEF Panel!ShowsWhatIsChosen, Panel!None
  <2>2. ChoiceTyped /\ CallsTyped /\ Placed /\ Tidy BY <1>2, <2>1 DEF PanelInv, PanelTyped
  <2>3. org \in Organisations BY <2>1, <2>2 DEF ChoiceTyped
  <2>4. \A s \in Slots : call[s].kind = "none" BY <2>1, <2>2, InHandIs DEF Panel!AtRest
  <2>5. panel.level = "workspace" => home \in WorkspacesOf[org]
    BY <2>1, <2>2 DEF Tidy, Settled, Panel!AtRest, Panel!Opening
  <2>6. home # "none"
    <3>1. CASE panel.level = "workspace" BY <2>3, <2>5, <3>1, WebAppAssumption
    <3>2. CASE panel.level # "workspace"
      <4>1. panel.level = "org" BY <2>2, <3>2, PanelOnScreen DEF PanelFits
      <4> QED BY <2>1, <2>2, <4>1 DEF Placed
    <3> QED BY <3>1, <3>2
  <2>7. Fresh BY <2>1, <2>2, <2>4, <2>6 DEF Tidy, StaleLoads, Stale
  <2> QED BY <2>5, <2>7 DEF Fresh
<1>3. PanelInv => PanelsHold BY <1>1, <1>2 DEF PanelsHold
<1> QED BY <1>3, PanelHolds, PTL

\* The types that the panels state.
LEMMA PanelTypesFollow == ASSUME PanelInv PROVE Panel!TypeOK
<1>1. ChoiceTyped /\ ContentTyped /\ FlagsTyped /\ CallsTyped BY DEF PanelInv, PanelTyped
<1>2. ASSUME NEW s \in Slots
      PROVE  /\ call[s].kind \in {"none", "list", "load", "write"}
             /\ call[s].at \in Panel!Spots /\ call[s].to \in Panel!Spots
             /\ call[s].kind = "load" => call[s].step \in DOMAIN panel.parts
  BY <1>1 DEF CallsTyped, CallFits, Calls
<1> QED BY <1>1, <1>2
    DEF Panel!TypeOK, Panel!None, ChoiceTyped, ContentTyped, FlagsTyped

\* The state of the page explored is well-formed.
THEOREM WebAppTyped == Spec => []TypeOK
<1>1. ChatInv /\ PanelInv => TypeOK BY ChatTypesFollow, PanelTypesFollow DEF TypeOK
<1> QED BY <1>1, ChatHolds, PanelHolds, PTL
============================================================================
