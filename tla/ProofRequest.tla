----------------------------- MODULE ProofRequest -----------------------------
(***************************************************************************)
(* A request for a proof and its receipt: the walk of module HeaderWalk,   *)
(* and at its end the receipt of a transaction and its proof in the trie   *)
(* of its block, put into the message.                                     *)
(***************************************************************************)
EXTENDS HeaderWalk, ReceiptTrie

CONSTANT Txs      \* the number of transactions in the block of each header

ASSUME TxsAssumption == Txs \in [Headers -> 1..255]

\* The receipts of each block, and the transactions prepareReceipt can prepare.
Transactions(h) == 0..(Txs[h] - 1)
PreparedHeaders ==
  {h \in Headers : LET root == Block(Txs[h])
                   IN  \A i \in Transactions(h) : prepareReceipt(NodesTo(root, Path(i))).ok}

ASSUME PreparedRight == Prepared = PreparedHeaders
-----------------------------------------------------------------------------
\* Blocks of one transaction: the proof is one node.
Alone == {h \in Headers : Txs[h] = 1}
ReadableReceipts ==
  {h \in Headers :
     LET root == Block(Txs[h])
     IN  \A i \in Transactions(h) : Readable(NodesTo(root, Path(i)), ReceiptOf(i))}
ProvenReceipts ==
  {h \in Headers :
     LET root == Block(Txs[h])
     IN  /\ \A i \in Transactions(h) : Proves(Txs[h], root, i)
         /\ \A j \in Numbers \ Transactions(h) : ProvesAbsent(root, j)}

(* Whichever transaction of the block was asked for, the message of the     *)
(* answer can be read back to its receipt and to the nodes of its proof.    *)
ReceiptSent ==
  \A r \in Requests : at[r] = "answered" => target[r] \in ReadableReceipts \ Alone

(* verifyMerkleProof accepts that proof with that receipt, for the place of *)
(* the transaction and exactly those that it does not tell from it: they    *)
(* differ where the key of a leaf or an extension ends, and within the      *)
(* block in the last nibble alone.  That a place is empty it accepts        *)
(* wherever the nodes end at no other leaf, and at a leaf if a nibble that  *)
(* is compared tells it from the place.                                     *)
ReceiptProven ==
  \A r \in Requests : at[r] = "answered" => target[r] \in ProvenReceipts

\* A header and its ancestors.
Line[h \in Headers] == {h} \cup IF ParentOf[h] = Genesis THEN {} ELSE Line[ParentOf[h]]

\* Rows lead from update to a finalised one above it.  That update's own row is
\* flagged later does not count: the walk begins with the copy.
CanAnswer(r) ==
  \/ update[r].isFinality
  \/ \E q \in table :
       /\ q.isFinality /\ update[r].header \in Line[q.header] \ {q.header}
       /\ \A h \in Line[q.header] : update[r].header \in Line[h] => Rows(h) # {}

ForkStored == \E h \in Headers : Rows(h) # {} /\ Forked(h)

(* A request ends once the rows from its header to a finalised one above it *)
(* are there, unless the process restarts or both branches of a fork are    *)
(* stored: starting over loses nothing.  It ends in an answer if the block  *)
(* has another transaction than the one that is asked for.                  *)
AnsweredWhenIndexed ==
  \A r \in Requests :
    at[r] = "walk" /\ CanAnswer(r) ~>
      \/ at[r] \in {"answered", "lost"}
      \/ at[r] = "refused" /\ target[r] \in Alone
      \/ ForkStored
=============================================================================
