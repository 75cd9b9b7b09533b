----------------------------- MODULE Quotas ------------------------------
(***************************************************************************)
(* The quotas and the rate limit of one organisation: requests to create a *)
(* run or to install an agent package, past the payment gate (Billing).    *)
(* A request reads a limit, counts, and goes on if there is room; the row  *)
(* it then inserts is counted by whoever counts later.  Rate-limit windows *)
(* are counters in Redis, one per minute.                                  *)
(*                                                                         *)
(* Abstracted: who asks, what else createRun and install check, audit      *)
(* rows.  The plan changes as Billing, or an owner, has it.                *)
(***************************************************************************)
EXTENDS Naturals, FiniteSets, Sequences

CONSTANTS
    Defaults,       \* Defaults[plan][dimension]: limits of a plan
    Overrides,      \* [dimension, limit] pairs an owner may set
    Requests,       \* slots: requests in flight
    AgentPackages,  \* first-party packages of kind agent
    MaxRuns,        \* bound: runs of a month
    MaxTokens,      \* bound: tokens of a month
    MaxMinutes,     \* bound: rate-limit windows
    MaxHits         \* bound: calls in one window

Dimensions == {"runs_per_month", "tokens_per_month", "max_agents_installed", "api_rpm"}
NoOverride == 0
Windows == 0..MaxMinutes

VARIABLES
    plan, override,  \* the organizations row
    request,         \* request[r]: a request in hand
    runs, tokens,    \* rows of this month
    installed,       \* agent packages installed
    minute,          \* the clock
    hits,            \* hits[w]: counter of window w in Redis
    peak             \* history: the highest limits ever in force

vars == <<plan, override, request, runs, tokens, installed, minute, hits, peak>>

Idle == [pc |-> "idle", kind |-> "none", todo |-> <<>>, limit |-> 0, window |-> 0]

\* resolveOrgQuotaLimits: an override wins over the plan, and survives it.
LimitOf(p, o, d) == IF o[d] # NoOverride THEN o[d] ELSE Defaults[p][d]
LimitInForce(d) == LimitOf(plan, override, d)

\* A new organisation has every first-party package installed.
Init ==
    /\ plan = "free" /\ override = [d \in Dimensions |-> NoOverride]
    /\ request = [r \in Requests |-> Idle]
    /\ runs = 0 /\ tokens = 0 /\ installed = AgentPackages
    /\ minute = 0
    /\ hits = [w \in Windows |-> 0]
    /\ peak = Defaults["free"]

-----------------------------------------------------------------------------
(* The organisation *)

SetOrg(p, o) ==
    /\ plan' = p /\ override' = o
    /\ peak' = [d \in Dimensions |->
                   IF LimitOf(p, o, d) > peak[d] THEN LimitOf(p, o, d) ELSE peak[d]]
    /\ UNCHANGED <<request, runs, tokens, installed, minute, hits>>

\* updateOrgQuotas, or a webhook of the payment provider.
ChangePlan(p) == p # plan /\ SetOrg(p, override)

SetQuota(o) == SetOrg(plan, [override EXCEPT ![o.dimension] = o.limit])

-----------------------------------------------------------------------------
(* Requests *)

SetRequest(r, q) == request' = [request EXCEPT ![r] = q]
Only(x) == UNCHANGED <<plan, override, minute, peak>> /\ UNCHANGED x

\* assertCanCreateRun checks two quotas, assertCanInstallAgent one.
QuotasOf(kind) ==
    IF kind = "run" THEN <<"runs_per_month", "tokens_per_month">>
    ELSE <<"max_agents_installed">>

\* getOrgQuotaUsage.
Used(d) ==
    CASE d = "runs_per_month"       -> runs
      [] d = "tokens_per_month"     -> tokens
      [] d = "max_agents_installed" -> Cardinality(installed)

Arrive(r, kind) ==
    /\ request[r].pc = "idle"
    /\ SetRequest(r, [Idle EXCEPT !.pc = "limit", !.kind = kind, !.todo = QuotasOf(kind)])
    /\ Only(<<runs, tokens, installed, hits>>)

ReadLimit(r) ==
    /\ request[r].pc = "limit"
    /\ SetRequest(r, [request[r] EXCEPT !.pc = "count",
                                        !.limit = LimitInForce(Head(request[r].todo))])
    /\ Only(<<runs, tokens, installed, hits>>)

\* Mutant (QuotasHold): a quota is exceeded only beyond its limit.
RoomBeyond(r) == Used(Head(request[r].todo)) <= request[r].limit

Room(r) == Used(Head(request[r].todo)) < request[r].limit

Count(r) ==
    /\ request[r].pc = "count" /\ Room(r)
    /\ LET rest == Tail(request[r].todo)
       IN  SetRequest(r, [request[r] EXCEPT !.todo = rest, !.limit = 0,
                             !.pc = IF rest = <<>> THEN "rate" ELSE "limit"])
    /\ Only(<<runs, tokens, installed, hits>>)

\* QUOTA_EXCEEDED.
Refuse(r) ==
    /\ request[r].pc = "count" /\ ~Room(r)
    /\ SetRequest(r, Idle)
    /\ Only(<<runs, tokens, installed, hits>>)

\* assertApiRpm reads the limit, checkFixedWindow the clock.
ReadRate(r) ==
    /\ request[r].pc = "rate"
    /\ SetRequest(r, [request[r] EXCEPT !.pc = "incr", !.limit = LimitInForce("api_rpm"),
                                        !.window = minute])
    /\ Only(<<runs, tokens, installed, hits>>)

\* INCR returns the new count, which is compared with the limit.
Passes(r) == hits[request[r].window] + 1 <= request[r].limit

Increment(r) ==
    LET w == request[r].window IN
    /\ request[r].pc = "incr" /\ hits[w] < MaxHits
    /\ hits' = [hits EXCEPT ![w] = @ + 1]
    /\ SetRequest(r, IF Passes(r) THEN [Idle EXCEPT !.pc = "admitted", !.kind = request[r].kind]
                     ELSE Idle)
    /\ Only(<<runs, tokens, installed>>)

InsertRun(r) ==
    /\ request[r].pc = "admitted" /\ request[r].kind = "run"
    /\ runs < MaxRuns /\ runs' = runs + 1
    /\ SetRequest(r, Idle)
    /\ Only(<<tokens, installed, hits>>)

InstallAgent(r) ==
    /\ request[r].pc = "admitted" /\ request[r].kind # "run"
    /\ installed' = installed \cup {request[r].kind}
    /\ SetRequest(r, Idle)
    /\ Only(<<runs, tokens, hits>>)

\* Another check refuses, a call throws (the limiter refuses when Redis is
\* gone), or the process dies.
Abandon(r) ==
    /\ request[r].pc # "idle"
    /\ SetRequest(r, Idle)
    /\ Only(<<runs, tokens, installed, hits>>)

\* The same, with the increment done.
AbandonCounted(r) ==
    LET w == request[r].window IN
    /\ request[r].pc = "incr" /\ hits[w] < MaxHits
    /\ hits' = [hits EXCEPT ![w] = @ + 1]
    /\ SetRequest(r, Idle)
    /\ Only(<<runs, tokens, installed>>)

-----------------------------------------------------------------------------
(* What goes on meanwhile *)

\* The usage projector stores the tokens of a call of some run.
RecordUsage ==
    /\ tokens < MaxTokens /\ tokens' = tokens + 1
    /\ Only(<<request, runs, installed, hits>>)

Uninstall(p) ==
    /\ p \in installed /\ installed' = installed \ {p}
    /\ Only(<<request, runs, tokens, hits>>)

NextMinute ==
    /\ minute < MaxMinutes /\ minute' = minute + 1
    /\ UNCHANGED <<plan, override, request, runs, tokens, installed, hits, peak>>

\* The counter of a window expires a second after the window; whoever read the
\* clock before starts it afresh.
WindowExpires(w) ==
    /\ w < minute /\ hits[w] > 0
    /\ hits' = [hits EXCEPT ![w] = 0]
    /\ Only(<<request, runs, tokens, installed>>)

NextMonth ==
    /\ runs' = 0 /\ tokens' = 0
    /\ Only(<<request, installed, hits>>)

Serve(r) ==
    \/ \E kind \in {"run"} \cup AgentPackages : Arrive(r, kind)
    \/ ReadLimit(r) \/ Count(r) \/ Refuse(r) \/ ReadRate(r) \/ Increment(r)
    \/ InsertRun(r) \/ InstallAgent(r) \/ Abandon(r) \/ AbandonCounted(r)

Next ==
    \/ \E p \in DOMAIN Defaults : ChangePlan(p)
    \/ \E o \in Overrides : SetQuota(o)
    \/ \E p \in AgentPackages : Uninstall(p)
    \/ \E w \in Windows : WindowExpires(w)
    \/ RecordUsage \/ NextMinute \/ NextMonth
    \/ \E r \in Requests : Serve(r)

Spec == Init /\ [][Next]_vars

-----------------------------------------------------------------------------
(* Properties *)

TypeOK ==
    /\ plan \in DOMAIN Defaults /\ override \in [Dimensions -> Nat]
    /\ \A r \in Requests :
          /\ request[r].pc \in {"idle", "limit", "count", "rate", "incr", "admitted"}
          /\ request[r].kind \in {"none", "run"} \cup AgentPackages
          /\ request[r].limit \in Nat /\ request[r].window \in Windows
          /\ request[r].pc \in {"limit", "count"} => request[r].todo # <<>>
    /\ runs \in 0..MaxRuns /\ tokens \in 0..MaxTokens /\ installed \subseteq AgentPackages
    /\ minute \in Windows
    /\ hits \in [Windows -> 0..MaxHits]
    /\ peak \in [Dimensions -> Nat]

\* Counting and inserting are two steps, so a month may hold more runs than
\* the highest limit ever in force, but fewer than one more per concurrent
\* request (assertRunsQuota).
QuotasHold == runs < peak["runs_per_month"] + Cardinality(Requests)
==========================================================================
