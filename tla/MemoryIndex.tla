--------------------------- MODULE MemoryIndex ---------------------------
(***************************************************************************)
(* The memory gateway over its two stores: the records (rows, soft-deleted *)
(* when forgotten) and the vectors of the organisation-wide ones.  Nothing *)
(* ties the stores together: remember inserts and then indexes, forget     *)
(* deletes in both one after the other, and a semantic recall searches the *)
(* index and then looks up each hit.                                       *)
(*                                                                         *)
(* Abstracted: content and similarity (any of the nearest), persona scopes *)
(* (a refused call changes nothing), explanations and order of results.    *)
(***************************************************************************)
EXTENDS Naturals, FiniteSets

CONSTANTS
    Memories,    \* ids of records
    Uses,        \* [scope, context] pairs calls are made with
    Limit,       \* limit of a recall
    Operations,  \* slots: calls in hand
    MaxFaults    \* bound: calls that fail half-way

None == "none"
Layer(scope) ==
    CASE scope = "run.working"            -> "L1"
      [] scope \in {"conversation", "user"} -> "L2"
      [] scope \in {"org.brand", "org.content"} -> "L4"

VARIABLES
    semantic,  \* is semantic recall switched on
    record,    \* record[m]: the row
    vector,    \* memories with a row in memory_embeddings
    op,        \* op[o]: a call in hand
    raced,     \* history: records indexed after they were forgotten
    failed     \* history: records whose indexing or un-indexing failed

vars == <<semantic, record, vector, op, raced, failed>>

NoRecord == [state |-> "absent", scope |-> None, run |-> None, conversation |-> None,
             user |-> None, pinned |-> FALSE]
Idle == [pc |-> "idle", m |-> None, use |-> None, hits |-> {}, out |-> {},
         forgotten |-> {}]

Init ==
    /\ semantic \in BOOLEAN
    /\ record = [m \in Memories |-> NoRecord]
    /\ vector = {} /\ raced = {} /\ failed = {}
    /\ op = [o \in Operations |-> Idle]

Live == {m \in Memories : record[m].state = "live"}
Forgotten == {m \in Memories : record[m].state = "forgotten"}
Set(o, x) == op' = [op EXCEPT ![o] = x]
OneFault(m) == Cardinality(failed) < MaxFaults /\ failed' = failed \cup {m}

-----------------------------------------------------------------------------
(* resolveMemoryScopeBinding *)

\* Scopes that need an id the context does not have are refused.
Bound(u) ==
    /\ u.scope = "conversation" => u.context.conversation # None
    /\ u.scope = "user" => u.context.user # None

Bind(u) ==
    [state |-> "live", scope |-> u.scope, pinned |-> FALSE,
     run |-> IF Layer(u.scope) = "L4" THEN None ELSE u.context.run,
     conversation |-> u.context.conversation,
     user |-> IF u.scope = "user" THEN u.context.user ELSE None]

\* The rows store.query selects.  Recall in scope user, too, keeps to the
\* conversation it is called from, if any.
Selected(u) ==
    {m \in Live :
        /\ record[m].scope = u.scope
        /\ u.scope = "run.working" => record[m].run = u.context.run
        /\ u.scope \in {"conversation", "user"} /\ u.context.conversation # None =>
              record[m].conversation = u.context.conversation
        /\ u.scope = "user" => record[m].user = u.context.user}

\* At most Limit elements of S, and fewer only if S has no more.
Nearest(S) ==
    {T \in SUBSET S : Cardinality(T) = IF Cardinality(S) < Limit THEN Cardinality(S) ELSE Limit}

-----------------------------------------------------------------------------
(* remember and adminRemember *)

Remember(o, m, u) ==
    /\ op[o].pc = "idle" /\ record[m].state = "absent" /\ Bound(u)
    /\ record' = [record EXCEPT ![m] = Bind(u)]
    /\ Set(o, IF Layer(u.scope) = "L4" /\ semantic
              THEN [Idle EXCEPT !.pc = "index", !.m = m] ELSE Idle)
    /\ UNCHANGED <<semantic, vector, raced, failed>>

Index(o) ==
    LET m == op[o].m IN
    /\ op[o].pc = "index"
    /\ vector' = vector \cup {m}
    /\ raced' = IF m \in Forgotten THEN raced \cup {m} ELSE raced
    /\ Set(o, Idle)
    /\ UNCHANGED <<semantic, record, failed>>

\* Embedding the content or writing the vector fails, or the process dies.
IndexFails(o) ==
    /\ op[o].pc = "index" /\ OneFault(op[o].m)
    /\ Set(o, Idle)
    /\ UNCHANGED <<semantic, record, vector, raced>>

-----------------------------------------------------------------------------
(* forget, adminForget, pin, adminPin *)

\* Mutant (MemoryHolds): what is forgotten is only marked.
MarkForgotten(o, m) ==
    /\ op[o].pc = "idle" /\ record[m].state # "absent"
    /\ record' = [record EXCEPT ![m].state = "forgotten"]
    /\ UNCHANGED <<semantic, vector, op, raced, failed>>

\* A record that is already forgotten may be forgotten again.
Forget(o, m) ==
    /\ op[o].pc = "idle" /\ record[m].state # "absent"
    /\ record' = [record EXCEPT ![m].state = "forgotten"]
    /\ Set(o, [Idle EXCEPT !.pc = "unindex", !.m = m])
    /\ UNCHANGED <<semantic, vector, raced, failed>>

Unindex(o) ==
    /\ op[o].pc = "unindex"
    /\ vector' = vector \ {op[o].m}
    /\ raced' = raced \ {op[o].m}
    /\ Set(o, Idle)
    /\ UNCHANGED <<semantic, record, failed>>

UnindexFails(o) ==
    /\ op[o].pc = "unindex" /\ OneFault(op[o].m)
    /\ Set(o, Idle)
    /\ UNCHANGED <<semantic, record, vector, raced>>

\* The row is looked up twice before; an update by id alone follows.
StartPin(o, m) ==
    /\ op[o].pc = "idle" /\ m \in Live
    /\ Set(o, [Idle EXCEPT !.pc = "pin", !.m = m])
    /\ UNCHANGED <<semantic, record, vector, raced, failed>>

Pin(o) ==
    /\ op[o].pc = "pin"
    /\ record' = [record EXCEPT ![op[o].m].pinned = TRUE]
    /\ Set(o, Idle)
    /\ UNCHANGED <<semantic, vector, raced, failed>>

-----------------------------------------------------------------------------
(* recall *)

Recall(o, u) ==
    /\ op[o].pc = "idle" /\ Bound(u)
    /\ Set(o, [Idle EXCEPT !.use = u, !.forgotten = Forgotten,
                           !.pc = IF Layer(u.scope) = "L4" /\ semantic THEN "search"
                                  ELSE "query"])
    /\ UNCHANGED <<semantic, record, vector, raced, failed>>

Query(o) ==
    /\ op[o].pc = "query"
    /\ \E S \in Nearest(Selected(op[o].use)) :
          Set(o, [op[o] EXCEPT !.out = S, !.pc = "returned"])
    /\ UNCHANGED <<semantic, record, vector, raced, failed>>

Search(o) ==
    /\ op[o].pc = "search"
    /\ \E S \in Nearest({m \in vector : record[m].scope = op[o].use.scope}) :
          Set(o, [op[o] EXCEPT !.hits = S, !.pc = "fetch"])
    /\ UNCHANGED <<semantic, record, vector, raced, failed>>

Fetched(o) == op[o].hits \cap Live

\* getById for one hit after the other.
Fetch(o, m) ==
    /\ op[o].pc = "fetch" /\ m \in op[o].hits
    /\ Set(o, [op[o] EXCEPT !.hits = @ \ {m},
                            !.out = IF m \in Fetched(o) THEN @ \cup {m} ELSE @])
    /\ UNCHANGED <<semantic, record, vector, raced, failed>>

EndRecall(o) ==
    /\ op[o].pc = "fetch" /\ op[o].hits = {}
    /\ Set(o, [op[o] EXCEPT !.pc = "returned"])
    /\ UNCHANGED <<semantic, record, vector, raced, failed>>

Answer(o) ==
    /\ op[o].pc = "returned"
    /\ Set(o, Idle)
    /\ UNCHANGED <<semantic, record, vector, raced, failed>>

Step(o) ==
    \/ Index(o) \/ IndexFails(o) \/ Unindex(o) \/ UnindexFails(o) \/ Pin(o)
    \/ Query(o) \/ Search(o) \/ EndRecall(o) \/ Answer(o)
    \/ \E m \in Memories :
          \/ Forget(o, m) \/ StartPin(o, m) \/ Fetch(o, m)
          \/ \E u \in Uses : Remember(o, m, u)
    \/ \E u \in Uses : Recall(o, u)

Next == \E o \in Operations : Step(o)

Spec == Init /\ [][Next]_vars

-----------------------------------------------------------------------------
(* Properties *)

TypeOK ==
    /\ semantic \in BOOLEAN
    /\ \A m \in Memories : record[m].state \in {"absent", "live", "forgotten"}
    /\ vector \subseteq Memories /\ raced \subseteq vector /\ failed \subseteq Memories
    /\ \A o \in Operations :
          /\ op[o].pc \in {"idle", "index", "unindex", "pin", "search", "query", "fetch",
                           "returned"}
          /\ op[o].m \in Memories \cup {None}
          /\ op[o].hits \subseteq Memories /\ op[o].out \subseteq Memories

\* A recall never returns a record that was forgotten before it began, though
\* the index may still hold its vector (semanticRecall).
ForgottenStaysForgotten ==
    \A o \in Operations : op[o].out \cap op[o].forgotten = {}

\* The index differs from the rows only where a call is on its way, where one
\* failed half-way, or where a record was forgotten between its insertion and
\* its indexing; then the vector stays and takes a place of each search.
Doing(pc, m) == \E o \in Operations : op[o].pc = pc /\ op[o].m = m
StoresAgree ==
    \A m \in Memories \ failed :
        /\ m \in vector /\ m \in Forgotten => m \in raced \/ Doing("unindex", m)
        /\ semantic /\ m \in Live /\ Layer(record[m].scope) = "L4" =>
              m \in vector \/ Doing("index", m)
==========================================================================
