-------------------------- MODULE ConnectorVault -------------------------
(***************************************************************************)
(* The OAuth connections of one workspace: the states of authorisations    *)
(* under way (in memory), the connection rows, and the vault with one      *)
(* token bundle per reference.  Row and secret are written one after the   *)
(* other by calls that may cross or stop half-way; a Meta authorisation    *)
(* saves two connections, with the pages the user administers and the one  *)
(* that receives the posts.                                                *)
(*                                                                         *)
(* Abstracted: encryption, expiry, account hints.  The best-effort         *)
(* revocation at the provider changes nothing here.                        *)
(***************************************************************************)
EXTENDS Naturals, Sequences, FiniteSets, SequencesExt

CONSTANTS
    Providers,   \* those configured
    States,      \* OAuth states (random UUIDs)
    Pages,       \* Facebook pages
    Allotech,    \* pages of the house: their names match /allotech/i
    Listings,    \* the pages, with a token, the Graph API may answer with
    Operations,  \* slots: calls in hand
    MaxFaults    \* bound: calls that stop half-way

None == "none"
Meta == Providers \cap {"facebook", "instagram"}
\* References are named after the row that was first saved under them, here
\* after the state and provider it was saved for.
Refs == States \X Providers
NoRef == <<None, None>>

\* A bundle: the user's token, his pages with a token each, and the page that
\* is selected.
Bundle(pages, page) == [user |-> TRUE, pages |-> pages, page |-> page]
NoBundle == [user |-> FALSE, pages |-> {}, page |-> None]

VARIABLES
    pending,   \* pending[s]: provider state s was handed out for
    row,       \* row[p]: the connector_connections row
    secret,    \* secret[r]: bundle in the vault
    op,        \* op[o]: a call in hand
    issued,    \* states handed out
    chosen,    \* history: page the user last selected, if no error was reported
               \* and Meta was not connected again
    trouble,   \* history: trouble[p]: the worst that happened to p's calls (below)
    faults

vars == <<pending, row, secret, op, issued, chosen, trouble, faults>>

NoRow == [status |-> "absent", id |-> NoRef, ref |-> NoRef]
Idle == [pc |-> "idle", call |-> None, state |-> None, page |-> None, todo |-> <<>>,
         row |-> NoRow, bundle |-> NoBundle]

Init ==
    /\ pending = [s \in States |-> None] /\ issued = {}
    /\ row = [p \in Providers |-> NoRow] /\ secret = [r \in Refs |-> NoBundle]
    /\ op = [o \in Operations |-> Idle] /\ chosen = None
    /\ trouble = [p \in Providers |-> "none"] /\ faults = 0

Set(o, x) == op' = [op EXCEPT ![o] = x]
Provider(o) == Head(op[o].todo)
Touches(o, p) == op[o].pc # "idle" /\ p \in ToSet(op[o].todo)

\* One Meta dialog is for both connections.
Saved(p) == IF p \in Meta THEN SetToSeq(Meta) ELSE <<p>>

\* Calls "crossed" or stopped half-way; where one of them was a disconnect,
\* p's connection is "torn".  Page calls copy between the Meta connections,
\* so these share their troubles.
Worsen(S, x) == trouble' = [p \in Providers |->
    IF trouble[p] = "torn" \/ ToSet(Saved(p)) \cap S = {} THEN trouble[p] ELSE x]

\* A call begins, while others are in hand.  Listing and selecting pages go
\* well together.
Begin(o, x) ==
    LET others == {other \in Operations : /\ \E p \in ToSet(x.todo) : Touches(other, p)
                                          /\ {x.call, op[other].call} # {"list", "select"}}
        torn == \E other \in others : "disconnect" \in {x.call, op[other].call}
    IN
    /\ op[o].pc = "idle" /\ Set(o, x)
    /\ Worsen(IF others = {} THEN {} ELSE ToSet(x.todo), IF torn THEN "torn" ELSE "crossed")

\* Mutant (ConnectionsHold): a selection is over with the first connection.
FirstOnly(o) ==
    Set(o, IF Len(op[o].todo) = 1 \/ op[o].call = "select" THEN Idle
           ELSE [op[o] EXCEPT !.pc = "find", !.todo = Tail(@), !.row = NoRow])

\* On to the next provider, or done.
Advance(o) == Set(o, IF Len(op[o].todo) = 1 THEN Idle
                     ELSE [op[o] EXCEPT !.pc = "find", !.todo = Tail(@), !.row = NoRow])

-----------------------------------------------------------------------------
(* startAuthorize, and purgeExpiredPending *)

StartAuthorize(s, p) ==
    /\ s \notin issued /\ issued' = issued \cup {s}
    /\ pending' = [pending EXCEPT ![s] = p]
    /\ UNCHANGED <<row, secret, op, chosen, trouble, faults>>

\* It is too old, or the process has restarted.
Expire(s) ==
    /\ pending[s] # None /\ pending' = [pending EXCEPT ![s] = None]
    /\ UNCHANGED <<row, secret, op, issued, chosen, trouble, faults>>

-----------------------------------------------------------------------------
(* Calls.  Every one works through its providers in turn. *)

\* handleCallback, for a state that is known, takes it at once.  LinkedIn's
\* exchangeCode only brings a token.
Callback(o, s) ==
    /\ pending[s] # None /\ pending' = [pending EXCEPT ![s] = None]
    /\ Begin(o, [Idle EXCEPT !.pc = IF pending[s] \in Meta THEN "fetch" ELSE "find",
                             !.call = "connect", !.state = s,
                             !.todo = Saved(pending[s]), !.bundle = Bundle({}, None)])
    /\ chosen' = IF pending[s] \in Meta THEN None ELSE chosen
    /\ UNCHANGED <<row, secret, issued, faults>>

Disconnect(o, p) ==
    /\ Begin(o, [Idle EXCEPT !.pc = "find", !.call = "disconnect", !.todo = <<p>>])
    /\ UNCHANGED <<pending, row, secret, issued, chosen, faults>>

SelectPage(o, page) ==
    /\ Meta # {}
    /\ Begin(o, [Idle EXCEPT !.pc = "find", !.call = "select", !.page = page,
                             !.todo = SetToSeq(Meta)])
    /\ UNCHANGED <<pending, row, secret, issued, chosen, faults>>

\* listMetaPages reads one bundle; with no pages in it, it asks the provider
\* for them and saves the bundle it read for both connections.
ListPages(o, p) ==
    /\ p \in Meta /\ row[p].status = "connected"
    /\ p = "facebook" \/ \A q \in Meta \ {p} : row[q].status = "absent"
    /\ Begin(o, [Idle EXCEPT !.pc = "read", !.call = "list", !.todo = SetToSeq(Meta),
                             !.row = row[p]])
    /\ UNCHANGED <<pending, row, secret, issued, chosen, faults>>

\* A page of the house is selected; else the only one there is.
Preferred(pages) ==
    IF pages \cap Allotech # {} THEN CHOOSE page \in pages \cap Allotech : TRUE
    ELSE IF Cardinality(pages) = 1 THEN CHOOSE page \in pages : TRUE ELSE None

\* What Meta lists for a token, the preferred page selected.
Listed(pages) == Bundle(pages, Preferred(pages))

\* exchangeCode at Meta, fetchMetaPagesForToken included, which never throws
\* here.  A listing without pages is saved only if it brought a better token.
FetchPages(o, pages) ==
    /\ op[o].pc = "fetch"
    /\ \/ Set(o, [op[o] EXCEPT !.pc = "find", !.row = NoRow, !.bundle = Listed(pages)])
       \/ op[o].call = "list" /\ pages = {} /\ Set(o, Idle)
    /\ UNCHANGED <<pending, row, secret, issued, chosen, trouble, faults>>

\* getByWorkspaceProvider.
Find(o) ==
    LET found == row[Provider(o)]
        go(pc) == Set(o, [op[o] EXCEPT !.pc = pc, !.row = found])
    IN
    /\ op[o].pc = "find"
    /\ CASE op[o].call = "connect"       -> go("put")
         [] op[o].call = "disconnect"    -> go(IF found = NoRow THEN "again" ELSE "erase")
         [] OTHER -> IF found.status # "connected" THEN Advance(o)
                     ELSE go(IF op[o].call = "select" THEN "read" ELSE "put")
    /\ UNCHANGED <<pending, row, secret, issued, chosen, trouble, faults>>

\* vault.get; a list has nothing to do without a bundle, nor with one that has
\* pages.
ReadToList(o) ==
    LET read == secret[op[o].row.ref] IN
    /\ op[o].pc = "read" /\ op[o].call = "list"
    /\ Set(o, IF read = NoBundle \/ read.pages # {} THEN Idle
              ELSE [op[o] EXCEPT !.pc = "fetch", !.bundle = read])
    /\ UNCHANGED <<pending, row, secret, issued, chosen, trouble, faults>>

\* A selection passes over a connection without a bundle, and throws where
\* the page is not in the bundle, with what it has saved before.
ReadToSelect(o) ==
    LET read == secret[op[o].row.ref]
        known == op[o].page \in read.pages
    IN
    /\ op[o].pc = "read" /\ op[o].call = "select"
    /\ IF read = NoBundle THEN Advance(o)
       ELSE Set(o, IF known THEN [op[o] EXCEPT !.pc = "put",
                                     !.bundle = [read EXCEPT !.page = op[o].page]]
                   ELSE Idle)
    /\ chosen' = IF read # NoBundle /\ ~known /\ Len(op[o].todo) < Cardinality(Meta)
                 THEN None ELSE chosen
    /\ UNCHANGED <<pending, row, secret, issued, trouble, faults>>

\* A new connection gets a reference of its own; a known one that of its row's id.
IdFor(o) == IF op[o].row = NoRow THEN <<op[o].state, Provider(o)>> ELSE op[o].row.id
RefFor(o) == IF op[o].call = "connect" THEN IdFor(o) ELSE op[o].row.ref

\* A list that has selected no page leaves the row alone.
Put(o) ==
    /\ op[o].pc = "put"
    /\ secret' = [secret EXCEPT ![RefFor(o)] = op[o].bundle]
    /\ IF op[o].call = "list" /\ op[o].bundle.page = None THEN Advance(o)
       ELSE Set(o, [op[o] EXCEPT !.pc = "save"])
    /\ UNCHANGED <<pending, row, issued, chosen, trouble, faults>>

\* upsert by workspace and provider: an existing row keeps its id.
Upsert(p, id, ref, status) ==
    row' = [row EXCEPT ![p] = [status |-> status, ref |-> ref,
                               id |-> IF @ = NoRow THEN id ELSE @.id]]

\* A page call writes back the row it read.
Save(o) ==
    LET p == Provider(o) IN
    /\ op[o].pc = "save"
    /\ IF op[o].call = "connect"
       THEN Upsert(p, IdFor(o), RefFor(o), "connected")
       ELSE Upsert(p, op[o].row.id, op[o].row.ref, "connected")
    /\ Advance(o)
    /\ chosen' = IF op[o].call = "select" THEN op[o].page ELSE chosen
    /\ UNCHANGED <<pending, secret, issued, trouble, faults>>

\* revoke: the secret goes, then the row that was read is marked ...
Erase(o) ==
    /\ op[o].pc = "erase"
    /\ secret' = [secret EXCEPT ![op[o].row.ref] = NoBundle]
    /\ Set(o, [op[o] EXCEPT !.pc = "mark"])
    /\ UNCHANGED <<pending, row, issued, chosen, trouble, faults>>

Mark(o) ==
    /\ op[o].pc = "mark"
    /\ Upsert(Provider(o), op[o].row.id, op[o].row.ref, "revoked")
    /\ Set(o, [op[o] EXCEPT !.pc = "again"])
    /\ UNCHANGED <<pending, secret, issued, chosen, trouble, faults>>

\* ... and disconnect looks the row up again and deletes it by its id.
FindAgain(o) ==
    LET found == row[Provider(o)] IN
    /\ op[o].pc = "again"
    /\ Set(o, IF found = NoRow THEN Idle ELSE [op[o] EXCEPT !.pc = "delete", !.row = found])
    /\ UNCHANGED <<pending, row, secret, issued, chosen, trouble, faults>>

Delete(o) ==
    /\ op[o].pc = "delete"
    /\ row' = [row EXCEPT ![Provider(o)] = IF @.id = op[o].row.id THEN NoRow ELSE @]
    /\ Set(o, Idle)
    /\ UNCHANGED <<pending, secret, issued, chosen, trouble, faults>>

\* Between a secret and its row, or between the two connections of one dialog.
HalfDone(o) ==
    \/ op[o].pc = "mark"
    \/ /\ op[o].call # "disconnect"
       /\ op[o].pc = "save" \/ Len(op[o].todo) < Len(Saved(Provider(o)))

\* A call throws or its process dies.
Stop(o) ==
    /\ op[o].pc # "idle" /\ faults < MaxFaults /\ faults' = faults + 1
    /\ Worsen(IF HalfDone(o) THEN {Provider(o)} ELSE {},
              IF op[o].call = "disconnect" THEN "torn" ELSE "crossed")
    /\ Set(o, Idle)
    /\ UNCHANGED <<pending, row, secret, issued, chosen>>

Step(o) ==
    \/ \E s \in States : Callback(o, s)
    \/ \E p \in Providers : Disconnect(o, p) \/ ListPages(o, p)
    \/ \E page \in Pages : SelectPage(o, page)
    \/ \E pages \in Listings : FetchPages(o, pages)
    \/ Find(o) \/ ReadToList(o) \/ ReadToSelect(o) \/ Put(o) \/ Save(o)
    \/ Erase(o) \/ Mark(o) \/ FindAgain(o) \/ Delete(o) \/ Stop(o)

Next ==
    \/ \E s \in States : Expire(s) \/ \E p \in Providers : StartAuthorize(s, p)
    \/ \E o \in Operations : Step(o)

Spec == Init /\ [][Next]_vars

-----------------------------------------------------------------------------
(* Properties *)

TypeOK ==
    /\ pending \in [States -> Providers \cup {None}] /\ issued \subseteq States
    /\ \A p \in Providers : row[p] \in [status : {"absent", "connected", "revoked"},
                                        id : Refs \cup {NoRef}, ref : Refs \cup {NoRef}]
    /\ \A r \in Refs : /\ secret[r].page \in secret[r].pages \cup {None}
                       /\ secret[r].pages # {} => secret[r].user
    /\ \A o \in Operations :
          /\ op[o].pc \in {"idle", "fetch", "find", "read", "put", "save", "erase",
                           "mark", "again", "delete"}
          /\ op[o].pc # "idle" => op[o].todo # <<>>
    /\ trouble \in [Providers -> {"none", "crossed", "torn"}] /\ faults \in 0..MaxFaults

\* resolveAccessToken and resolveMetaPublishContext.
Resolved(p) == IF row[p].status = "connected" THEN secret[row[p].ref] ELSE NoBundle

\* However connects and page calls cross, and wherever they stop, a connection
\* that shows as connected has its secret: the secret is written first.  Only
\* a disconnect under way, crossed or stopped half-way, leaves it without.
ConnectedMeansUsable ==
    \A p \in Providers :
        row[p].status = "connected" /\ trouble[p] # "torn" =>
            \/ Resolved(p) # NoBundle
            \/ \E o \in Operations : op[o].pc = "mark" /\ Provider(o) = p

\* The page the user selected receives the posts of both connections, until
\* Meta is connected again or a selection reports an error: selecting may
\* cross lists, which only fill in what is missing.  (Not so when it crosses a
\* connect or another selection, or one stops half-way.)
SelectionHolds ==
    chosen # None /\ (\A p \in Meta : trouble[p] = "none")
        /\ (\A o \in Operations : op[o].call # "select") =>
        \A p \in Meta : Resolved(p) # NoBundle => Resolved(p).page = chosen
======================================================================
