---------------------------- MODULE MCProofRequest ----------------------------
(* ProofRequest for TLC: a chain a - b - d, and a fork c next to b.          *)
EXTENDS ProofRequest, TLC

CONSTANTS a, b, c, d, r1

ForkSlot == [h \in Headers |-> (a :> 1 @@ b :> 2 @@ c :> 3 @@ d :> 4)[h]]
\* The seventeenth begins a new branch; the 129th and later ones have paths of two
\* bytes, and below them there is an extension.
BlockTxs == [h \in Headers |-> (a :> 17 @@ b :> 20 @@ c :> 1 @@ d :> 130)[h]]
ForkParent == [h \in Headers |-> (a :> Genesis @@ b :> a @@ c :> a @@ d :> b)[h]]
=============================================================================
