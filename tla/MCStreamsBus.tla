--------------------------- MODULE MCStreamsBus ---------------------------
(* Instances of StreamsBus.  The safety instance has one group shared by   *)
(* two consumers; the delivery instance has a group of two consumers that  *)
(* dead-letters and a group of one consumer that rethrows.                 *)
EXTENDS StreamsBus, TLC

CONSTANTS projector, runtime, c1, c2, c3

OneGroup == (c1 :> projector) @@ (c2 :> projector)
TwoGroups == (c1 :> projector) @@ (c2 :> projector) @@ (c3 :> runtime)
==========================================================================
