------------------------- MODULE MCValidatorService -------------------------
(* ValidatorService for TLC: masterchain blocks 1..3 and one shard block.  *)
EXTENDS ValidatorService, TLC

CONSTANT s1

MCParent == s1 :> 1
Symmetry == Permutations(Requests)
=============================================================================
