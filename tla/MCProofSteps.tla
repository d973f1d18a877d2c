----------------------------- MODULE MCProofSteps -----------------------------
(* ProofSteps for TLC.                                                        *)
EXTENDS ProofSteps

KeyBlock(n, params) == [kind |-> "key", n |-> n, params |-> params, txs |-> {}]

\* 65 validators make 129 cells: the first size that is cut; 300 make more
\* cells than a bag may have.  The set is alone in the configuration, or has
\* neighbours before it, after it and next to it.
\* The code's limits, and small ones that stand for a set so large that a part
\* has parts of its own.
MCCases ==
  {<<KeyBlock(n, {0, 34}), <<64, 32>>>> : n \in {1, 2, 16, 33, 64, 65, 66, 100, 129, 300}}
  \cup {<<KeyBlock(n, {0, 34}), <<4, 2>>>> : n \in {1, 2, 3, 4, 5, 16, 17}}
  \cup {<<KeyBlock(n, ps), <<64, 32>>>> : n \in {3, 40, 70}, ps \in {{34}, {32, 34}, {34, 36}, {32, 34, 35, 36}}}
  \cup {<<KeyBlock(5, {0, 32}), <<64, 32>>>>}
  \cup {<<[kind |-> "mc", n |-> 0, params |-> {}, txs |-> {<<51, 0>>}], <<64, 32>>>>,
        <<[kind |-> "shard", n |-> 0, params |-> {},
           txs |-> {<<3, 0>>, <<16, 1>>, <<51, 0>>, <<51, 1>>, <<51, 3>>, <<243, 2>>}], <<64, 32>>>>}

\* Masterchain blocks 1 and 2, the shard blocks 3 and 4.
MCChainBlocks == <<3, 4>>
===============================================================================
