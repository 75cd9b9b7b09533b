---------------------------- MODULE AdminPanel ----------------------------
(***************************************************************************)
(* The administration panels of the web application: ten React components  *)
(* of one shape (apps/web/src/components).  An effect on the chosen        *)
(* organisation lists its workspaces and picks one; an effect on what is   *)
(* chosen loads it; a button writes and, as a rule, loads again.           *)
(*                                                                         *)
(* Nothing is cancelled when the user chooses something else: an answer is *)
(* shown whatever is chosen by then, and a write or a second load goes to  *)
(* what was chosen when the button was clicked.  `busy' is one boolean,    *)
(* cleared by whichever call ends, and it holds back buttons, not choices. *)
(***************************************************************************)
EXTENDS Naturals, Sequences

CONSTANTS
    Organisations,
    WorkspacesOf,   \* the workspaces of an organisation
    RoleIn,         \* the user's role in an organisation
    Slots           \* the calls in hand

VARIABLES
    panel,          \* the component on screen
    org, home, sub, \* what is chosen: organisation, workspace, scope or agent
    listed,         \* the workspaces offered
    shown,          \* where each part of the content was read
    busy,
    call,           \* the calls in hand
    armed,          \* a second load is due (ConnectorsAdmin, 300 ms)
    rash,           \* the user hurried, or a read failed (see Careful)
    astray          \* content was written to another place than it came from

vars == <<panel, org, home, sub, listed, shown, busy, call, armed, rash, astray>>

-----------------------------------------------------------------------------
(* The panels.  A button sends what was typed, or copies a part of the     *)
(* screen, to what is chosen or to the row's own home; then it loads,      *)
(* polls, rests, or leaves the page.                                       *)

Roles == {"OWNER", "ADMIN", "EDITOR", "VIEWER"}
Admins == {"OWNER", "ADMIN"}

Button(name, copies) ==
    [name |-> name, copies |-> copies, to |-> "chosen", shows |-> {}, then |-> "load",
     marks |-> TRUE, actors |-> Roles]
Typed(name) == Button(name, "typed")
Leaving(name) == [Typed(name) EXCEPT !.then = "leave"]
OnRow(name, copies) == [Button(name, copies) EXCEPT !.to = "row"]
Owners(buttons) == {[b EXCEPT !.actors = {"OWNER"}] : b \in buttons}

\* What most panels are: the content of a workspace, loaded by everyone.
Plain == [level |-> "workspace", subs |-> {"all"}, parts |-> <<"rows">>, loads |-> TRUE,
          marks |-> TRUE, again |-> "never", readers |-> Roles, buttons |-> {}]

ApprovalsInbox ==
    [Plain EXCEPT !.again = "button",
                  !.buttons = {OnRow("onApprove", "rows"), OnRow("onReject", "rows")}]

GrantsAdmin ==
    [Plain EXCEPT !.again = "button",
                  !.buttons = {Button("toggle", "rows"), Button("toggleApproval", "rows")}]

PackagesAdmin ==
    [Plain EXCEPT !.level = "org", !.again = "button",
                  !.buttons = {Button("installPackage", "rows"),
                               Button("uninstallPackage", "rows"),
                               Button("pinPackage", "rows")}]

\* A record is pinned or forgotten by its own id.
MemoryViewer ==
    [Plain EXCEPT !.subs = {"org.brand", "user"}, !.again = "button",
                  !.buttons = {Typed("onCreate"), OnRow("onPin", "rows"),
                               OnRow("onForget", "rows")}]

\* busyProvider holds back only its own row: another row may be clicked.
ConnectorsAdmin ==
    [Plain EXCEPT !.parts = <<"connections", "pages">>, !.again = "timer",
                  !.buttons = {[Leaving("connectProvider") EXCEPT !.marks = FALSE],
                               [Button("disconnectProvider", "connections")
                                   EXCEPT !.marks = FALSE],
                               Button("onSelectPage", "pages")}]

\* Choosing loads nothing: the last run stays, and is resumed where it is.
WorkflowsPanel ==
    [Plain EXCEPT !.parts = <<"run">>, !.loads = FALSE,
                  !.buttons = {[b EXCEPT !.shows = {"run"}, !.then = "poll"] :
                                  b \in {Typed("onStart"), OnRow("onResume", "run")}}]

\* The whole form of an organisation is saved.
QuotasAdmin ==
    [Plain EXCEPT !.level = "org", !.buttons = Owners({Button("saveOverrides", "rows")})]

BillingAdmin ==
    [Plain EXCEPT !.level = "org", !.parts = <<"status", "invoices">>, !.readers = Admins,
                  !.buttons = Owners({Leaving("checkout"), Leaving("openManage"),
                                      [Typed("cancelAtPeriodEnd")
                                          EXCEPT !.shows = {"status"}, !.then = "rest"]})]

\* loadAudit does not set busy.
PrivacyAdmin ==
    [Plain EXCEPT !.level = "org", !.parts = <<"audit">>, !.marks = FALSE, !.readers = Admins,
                  !.buttons = Owners({Typed("run")})]

\* The rules and the tone of an agent in a workspace are saved together.
PersonaEditor ==
    [Plain EXCEPT !.subs = {"nova", "adam"}, !.buttons = {Button("onSave", "rows")}]

Panels == {ApprovalsInbox, GrantsAdmin, PackagesAdmin, MemoryViewer, ConnectorsAdmin,
           WorkflowsPanel, QuotasAdmin, BillingAdmin, PrivacyAdmin, PersonaEditor}
Parts == {panel.parts[i] : i \in DOMAIN panel.parts}

-----------------------------------------------------------------------------

None == "none"
Nowhere == <<None, None>>
Chosen == <<home, sub>>

\* A call: `at' what was chosen when it began, `to' where a write goes,
\* `step' the part a load reads next, `marks' whether its end clears busy.
Idle == [kind |-> None, org |-> None, at |-> Nowhere, to |-> Nowhere, step |-> 0,
         shows |-> {}, then |-> "rest", marks |-> FALSE]

Init ==
    /\ panel \in Panels
    /\ org = None /\ home = None /\ listed = {}
    /\ sub \in panel.subs
    /\ shown = [p \in Parts |-> Nowhere]
    /\ busy = FALSE
    /\ call = [s \in Slots |-> Idle]
    /\ armed = FALSE /\ rash = FALSE /\ astray = FALSE

InHand == {s \in Slots : call[s] # Idle}
Free == CHOOSE s \in Slots : call[s] = Idle
Room == InHand # Slots
AtRest == InHand = {} /\ ~armed
Opening == \E s \in InHand : call[s].kind = "list"

\* The callback `load' of the panel returns at once without the role.
MayRead(o) == RoleIn[o] \in panel.readers

Load(at, marks) ==
    [Idle EXCEPT !.kind = "load", !.at = at, !.step = 1, !.marks = marks \/ panel.marks]

\* Mutant: an effect whose load does not say that it is busy.
ReloadQuietly(s, o, at) ==
    /\ call' = [call EXCEPT ![s] = IF panel.loads /\ MayRead(o) THEN Load(at, FALSE) ELSE Idle]
    /\ UNCHANGED busy

\* The effect on what is chosen.
Reload(s, o, at) ==
    IF panel.loads /\ MayRead(o)
    THEN /\ call' = [call EXCEPT ![s] = Load(at, FALSE)]
         /\ busy' = (busy \/ panel.marks)
    ELSE /\ call' = [call EXCEPT ![s] = Idle]
         /\ UNCHANGED busy

\* The effect of ConnectorsAdmin: a load 300 ms later, if there is a notice.
Arm == armed' \in IF panel.again = "timer" THEN BOOLEAN ELSE {FALSE}

\* The effect on the organisation.
Enter(s, o) ==
    /\ org' = o
    /\ IF panel.level = "org"
       THEN /\ home' = o
            /\ Reload(s, o, <<o, sub>>)
       ELSE /\ call' = [call EXCEPT ![s] = [Idle EXCEPT !.kind = "list", !.org = o]]
            /\ UNCHANGED <<home, busy>>
    /\ UNCHANGED <<panel, sub, listed, shown, armed, astray>>

\* The organisations are known: the stored one or the first is chosen.
Open(o) ==
    /\ org = None
    /\ Room /\ Enter(Free, o)
    /\ UNCHANGED rash

\* The user is careful who chooses when nothing is in hand, and leaves the
\* buttons alone while an organisation is being opened.
Careful(hurry) == rash' = (rash \/ hurry)

ChooseOrg(o) ==
    /\ org # None /\ o # org
    /\ Room /\ Enter(Free, o)
    /\ Careful(~AtRest)

ChooseWorkspace(w) ==
    /\ w \in listed \ {home}
    /\ home' = w
    /\ Room /\ Reload(Free, org, <<w, sub>>)
    /\ Arm
    /\ Careful(~AtRest)
    /\ UNCHANGED <<panel, org, sub, listed, shown, astray>>

ChooseSub(x) ==
    /\ home # None /\ x \in panel.subs \ {sub}
    /\ sub' = x
    /\ Room /\ Reload(Free, org, <<home, x>>)
    /\ Careful(~AtRest)
    /\ UNCHANGED <<panel, org, home, listed, shown, armed, astray>>

\* Load again: the refresh button, or the timer.
Again ==
    /\ home # None
    /\ \/ panel.again = "button" /\ ~busy /\ Careful(Opening) /\ UNCHANGED armed
       \/ armed /\ armed' = FALSE /\ UNCHANGED rash
    /\ Room /\ Reload(Free, org, Chosen)
    /\ UNCHANGED <<panel, org, home, sub, listed, shown, astray>>

Click(b) ==
    LET seen == IF b.copies = "typed" THEN Chosen ELSE shown[b.copies]
        to == IF b.to = "row" THEN seen ELSE Chosen
    IN  /\ home # None /\ ~busy
        /\ RoleIn[org] \in b.actors
        /\ seen # Nowhere
        /\ Room
        /\ call' = [call EXCEPT ![Free] =
                       [Idle EXCEPT !.kind = "write", !.at = Chosen, !.to = to,
                                    !.shows = b.shows, !.then = b.then, !.marks = b.marks]]
        /\ busy' = b.marks
        /\ Careful(Opening)
        /\ astray' = (astray \/ (~rash /\ to # seen))
        /\ UNCHANGED <<panel, org, home, sub, listed, shown, armed>>

-----------------------------------------------------------------------------
(* Answers.                                                                *)

\* The stored workspace if it is one of the list, else the first.
Listed(s) ==
    /\ call[s].kind = "list"
    /\ listed' = WorkspacesOf[call[s].org]
    /\ \E w \in listed' :
          /\ home' = w
          /\ IF w = home
             THEN call' = [call EXCEPT ![s] = Idle] /\ UNCHANGED <<busy, armed>>
             ELSE Reload(s, org, <<w, sub>>) /\ Arm
    /\ UNCHANGED <<panel, org, sub, shown, rash, astray>>

End(s) ==
    /\ call' = [call EXCEPT ![s] = Idle]
    /\ busy' = (busy /\ ~call[s].marks)

\* A load shows the next part, and the rest with it when that is known to be
\* empty (no Meta connection, no invoices for who is not the owner).
Read(s) ==
    LET read == panel.parts
    IN  /\ call[s].kind = "load"
        /\ \E last \in call[s].step .. Len(read) :
              /\ shown' = [p \in Parts |->
                              IF \E i \in call[s].step .. last : read[i] = p
                              THEN call[s].at ELSE shown[p]]
              /\ IF last < Len(read)
                 THEN call' = [call EXCEPT ![s].step = last + 1] /\ UNCHANGED <<busy, rash>>
                 ELSE /\ End(s)
                      /\ rash' = (rash /\ ~(/\ InHand = {s} /\ ~armed
                                            /\ panel.level = "workspace" => home \in WorkspacesOf[org]
                                            /\ \A p \in Parts : shown'[p] = Chosen))
        /\ UNCHANGED <<panel, org, home, sub, listed, armed, astray>>

Written(s) ==
    LET done == call[s]
    IN  /\ done.kind = "write" /\ done.then # "leave"
        /\ shown' = [p \in Parts |-> IF p \in done.shows THEN done.to ELSE shown[p]]
        /\ IF done.then = "poll" \/ (done.then = "load" /\ MayRead(org))
           THEN /\ call' = [call EXCEPT ![s] =
                               Load(IF done.then = "poll" THEN done.to ELSE done.at, done.marks)]
                /\ busy' = (busy \/ panel.marks)
           ELSE End(s)
        /\ armed' \in IF panel.again = "timer" THEN {armed, TRUE} ELSE {armed}
        /\ UNCHANGED <<panel, org, home, sub, listed, rash, astray>>

\* The browser goes to the provider; the panel is opened afresh on the way back.
Left(s) ==
    /\ call[s].kind = "write" /\ call[s].then = "leave"
    /\ org' = None /\ home' = None /\ listed' = {}
    /\ shown' = [p \in Parts |-> Nowhere]
    /\ busy' = FALSE
    /\ call' = [x \in Slots |-> Idle]
    /\ armed' = FALSE /\ rash' = FALSE
    /\ UNCHANGED <<panel, sub, astray>>

\* An error is shown; the content stays.
Failed(s) ==
    /\ s \in InHand
    /\ End(s)
    /\ rash' = (rash \/ call[s].kind # "write")
    /\ UNCHANGED <<panel, org, home, sub, listed, shown, armed, astray>>

Next ==
    \/ \E o \in Organisations : Open(o) \/ ChooseOrg(o)
    \/ \E w \in listed : ChooseWorkspace(w)
    \/ \E x \in panel.subs : ChooseSub(x)
    \/ Again
    \/ \E b \in panel.buttons : Click(b)
    \/ \E s \in Slots : Listed(s) \/ Read(s) \/ Written(s) \/ Left(s) \/ Failed(s)

Spec == Init /\ [][Next]_vars

-----------------------------------------------------------------------------

Places == {None} \cup Organisations \cup UNION {WorkspacesOf[o] : o \in Organisations}
Spots == Places \X (panel.subs \cup {None})

\* The state is well-formed.
TypeOK ==
    /\ panel \in Panels
    /\ org \in Organisations \cup {None} /\ home \in Places /\ sub \in panel.subs
    /\ listed \subseteq Places
    /\ shown \in [Parts -> Spots]
    /\ busy \in BOOLEAN /\ armed \in BOOLEAN /\ rash \in BOOLEAN /\ astray \in BOOLEAN
    /\ \A s \in Slots :
          /\ call[s].kind \in {None, "list", "load", "write"}
          /\ call[s].at \in Spots /\ call[s].to \in Spots
          /\ call[s].kind = "load" => call[s].step \in DOMAIN panel.parts

\* While the user is careful and reads succeed, a write that copies the screen
\* goes where the screen was read: busy covers every load of what was chosen.
WritesLandWhereSeen == ~astray

\* And once nothing is in hand the panel shows what is chosen, in the
\* organisation that is chosen, to a user who may read it.
ShowsWhatIsChosen ==
    (AtRest /\ ~rash /\ org # None /\ panel.loads /\ MayRead(org)) =>
        /\ panel.level = "workspace" => home \in WorkspacesOf[org]
        /\ \A p \in Parts : shown[p] = Chosen

==========================================================================
