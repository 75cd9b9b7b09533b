------------------------------ MODULE WebApp ------------------------------
(***************************************************************************)
(* The pages of the web application: the chat page (ChatClient) or one of  *)
(* the administration panels (AdminPanel).  A browser tab holds one page,  *)
(* and pages share no state: the initial state picks one.                  *)
(***************************************************************************)
EXTENDS Naturals, Sequences, FiniteSets

CONSTANTS
    Pages,          \* the pages to explore
    \* ChatClient
    Workspaces, Pollers, Loaders, MaxRuns, MaxFaults,
    \* AdminPanel
    Organisations, WorkspacesOf, RoleIn, Slots

\* Nothing is called "none", which stands for no place; a page can be opened;
\* the user has one of the four roles in each of the organisations, and a
\* workspace belongs to one of them.
ASSUME WebAppAssumption ==
    /\ MaxRuns \in Nat /\ MaxFaults \in Nat /\ Loaders # {}
    /\ "none" \notin Workspaces \cup Organisations
    /\ \A o \in Organisations :
          /\ "none" \notin WorkspacesOf[o]
          /\ RoleIn[o] \in {"OWNER", "ADMIN", "EDITOR", "VIEWER"}
    /\ \A o, p \in Organisations : o # p => WorkspacesOf[o] \cap WorkspacesOf[p] = {}

VARIABLES
    page,
    stored, run, workspace, shown, view, send, watch, poll, load, missed, excused, faults,
    panel, org, home, sub, listed, content, busy, call, armed, rash, astray

chatVars == <<stored, run, workspace, shown, view, send, watch, poll, load,
              missed, excused, faults>>
panelVars == <<panel, org, home, sub, listed, content, busy, call, armed, rash, astray>>

Chat == INSTANCE ChatClient
Panel == INSTANCE AdminPanel WITH shown <- content

Init ==
    /\ page \in Pages
    /\ Chat!Init /\ Panel!Init
    \* Which workspace, and which panel, matter where they are on screen.
    /\ page # "chat" => workspace = CHOOSE w \in Workspaces : TRUE
    /\ page # "panel" => panel = Panel!BillingAdmin

Next ==
    /\ UNCHANGED page
    /\ \/ page = "chat" /\ Chat!Next /\ UNCHANGED panelVars
       \/ page = "panel" /\ Panel!Next /\ UNCHANGED chatVars

Spec == Init /\ [][Next]_<<page, chatVars, panelVars>>

\* What the chat page has asked for is answered (see ChatClient); nothing is
\* claimed to happen eventually on a panel.
FairSpec == Spec /\ Chat!Fairness

-----------------------------------------------------------------------------
(* The properties of the pages; their modules say more about each.         *)

\* The state of the page explored is well-formed.
TypeOK ==
    /\ page = "chat"  => Chat!TypeOK
    /\ page = "panel" => Panel!TypeOK

\* At rest the screen shows every message, but for the replies of runs the
\* page gave up on (watchRun, loadMessages).
RepliesAreShown == Chat!RepliesAreShown

\* What is sent to be published was drafted in the same workspace
\* (buildPublishGoal).
DraftsStayHome == Chat!DraftsStayHome

\* The page does not stay busy once the run it watches is over (onSend).
SendingEnds == Chat!SendingEnds

\* A careful user's panel shows what is chosen, and writes what it shows where
\* it was read (the effects, loads and buttons of the administration panels).
PanelsHold == Panel!WritesLandWhereSeen /\ Panel!ShowsWhatIsChosen
==========================================================================
