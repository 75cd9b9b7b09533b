-------------------------- MODULE MCApprovalFlow --------------------------
(* Instances of ApprovalFlow: requests and workers are interchangeable.    *)
EXTENDS ApprovalFlow, TLC

Symmetry == Permutations(Requests) \cup Permutations(Workers)
==========================================================================
