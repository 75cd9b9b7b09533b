----------------------------- MODULE MCServices ---------------------------
(* Values for the services: two calls in hand in every one of them.        *)
EXTENDS Services, TLC

\* A checkout that fails and then succeeds, a renewal that fails, an end.
Notice(i, t, p) == [id |-> i, type |-> t, plan |-> p]
MCNotifications ==
    {Notice("checkout", "checkout.completed", "pro"), Notice("checkout", "payment.failed", "free"),
     Notice("renewal", "payment.failed", "free"), Notice("end", "subscription.canceled", "free")}

MCDefaults ==
    [free |-> [runs_per_month |-> 1, tokens_per_month |-> 1, max_agents_installed |-> 1,
               api_rpm |-> 2],
     pro  |-> [runs_per_month |-> 2, tokens_per_month |-> 1, max_agents_installed |-> 1,
               api_rpm |-> 2]]
MCOverrides == {[dimension |-> "runs_per_month", limit |-> 1]}

\* pulse is an agent; social-publish needs an approval.
TwoSeeds == <<"pulse", "social-publish">>
Choice(c, e, a) == [c |-> c, enabled |-> e, approval |-> a]
MCChoices == {Choice("pulse", FALSE, "keep"), Choice("social-publish", TRUE, "waived"),
              Choice("social-publish", FALSE, "required")}

\* One organisation-wide scope; one user in two conversations; one run.
Context(r, c, u) == [run |-> r, conversation |-> c, user |-> u]
MCUses == {[scope |-> "org.brand", context |-> Context("run1", "c1", "u1")],
           [scope |-> "user", context |-> Context("run2", "c2", "u1")],
           [scope |-> "run.working", context |-> Context("run1", "none", "none")]}

Symmetry == Permutations(Slots) \cup Permutations(States)

\* Nothing is claimed any more of connections that are both torn, nor of a
\* torn account: the search ends there.
Intact == torn = {} /\ \E p \in Providers : trouble[p] # "torn"
==========================================================================
