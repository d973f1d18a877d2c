-------------------------- MODULE MCCommitteeTracker --------------------------
(* CommitteeTracker for TLC: five updates over four periods; the second is  *)
(* signed past the end of its period, and a stall of finality jumps from    *)
(* period 2 to 4.                                                           *)
EXTENDS CommitteeTracker, Sequences

MCFinPeriod == SubSeq(<<1, 1, 2, 4, 4>>, 1, Count)
MCSigPeriod == SubSeq(<<1, 2, 2, 4, 4>>, 1, Count)
=============================================================================
