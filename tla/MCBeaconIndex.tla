---------------------------- MODULE MCBeaconIndex ----------------------------
(* BeaconIndex for TLC: a chain a - b - d with a sibling c of b that is a   *)
(* slot later, as after a reorganisation.                                   *)
EXTENDS BeaconIndex, TLC

CONSTANTS a, b, c, d

ForkSlot == [h \in Headers |-> (a :> 1 @@ b :> 2 @@ c :> 3 @@ d :> 4)[h]]
ForkParent == [h \in Headers |-> (a :> Genesis @@ b :> a @@ c :> a @@ d :> b)[h]]
=============================================================================
