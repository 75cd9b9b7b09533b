-------------------------- MODULE MCWorkflowRun --------------------------
(* Instances of WorkflowRun.  Campaign is content-campaign, the definition *)
(* the code ships; TwoGates has two checkpoints, and lists a step before   *)
(* one that it needs.                                                      *)
EXTENDS WorkflowRun

Campaign == <<"memory_remember", "fan_out", "checkpoint", "noop">>
CampaignNeeds == <<{}, {1}, {2}, {3}>>

TwoGates == <<"fan_out", "checkpoint", "checkpoint", "memory_remember">>
TwoGatesNeeds == <<{}, {1}, {4}, {2}>>
==========================================================================
