-------------------------- MODULE MCRunLifecycle --------------------------
(* Instances of RunLifecycle: a run of agent adam that delegates to pulse, *)
(* whose outcome of the root step carries a plan of one step.              *)
EXTENDS RunLifecycle, TLC

CONSTANTS root, pulse1, manual1, plan1, adam, pulse, nobody

OnePlan == (root :> {plan1}) @@ (pulse1 :> {})
Agents == (root :> adam) @@ (pulse1 :> pulse) @@ (manual1 :> nobody) @@ (plan1 :> nobody)
Symmetry == Permutations(Handlers)
==========================================================================
