----------------------------- MODULE MCTonIndexer -----------------------------
(* TonIndexer for TLC, with as many masterchain blocks as the configuration  *)
(* has.  The shard block sa is listed by 1 and again by 2 (no new block of   *)
(* the shard in between); sb's seqno is that of the block that lists it.     *)
EXTENDS TonIndexer, TLC

CONSTANTS sa, sb, t1, t2, f1, f2

MCShards == [s \in Seqnos |-> CASE s = 1 -> <<sa>> [] s = 2 -> <<sb, sa>> [] OTHER -> <<>>]
MCShardSeqno == sa :> 7 @@ sb :> 2
MCTxs == [s \in Seqnos |-> <<>>]
           @@ sa :> <<t1>> @@ sb :> <<>>
=============================================================================
