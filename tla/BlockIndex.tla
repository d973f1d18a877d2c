------------------------------ MODULE BlockIndex ------------------------------
(***************************************************************************)
(* What the database of TON blocks promises its readers, as if looking for *)
(* a row and storing it were one step: rows are numbered as they come, each*)
(* hangs under a row of what the chain has it in, and none is changed or   *)
(* taken out; the stretch of blocks a scan vouches for grows by one block  *)
(* that is wholly stored, or begins anew at a key block of the chain.      *)
(* Nothing is said of who stores what and when, nor how often.             *)
(***************************************************************************)
EXTENDS Integers, FiniteSets, SequencesExt

CONSTANTS Seqnos, KeySeqnos, Shards, ShardSeqno, Txs

VARIABLES height,  \* last block of the chain
          rows,    \* block rows: [id, key, parent]
          txs,     \* transaction rows: [id, tx, parent]
          base,    \* a scan vouches for the blocks from here ...
          done     \* ... up to here

indexVars == <<height, rows, txs, base, done>>

\* Shard blocks whose seqno is n's are not kept with n.
Kept(n) == {s \in ToSet(Shards[n]) : ShardSeqno[s] # n}
Stored(b) ==
  /\ \E r \in rows : r.key = b
  /\ \A t \in ToSet(Txs[b]) : \E r \in txs : r.tx = t
Whole(n) == \A b \in {n} \cup Kept(n) : Stored(b)
-----------------------------------------------------------------------------
IndexInit == rows = {} /\ txs = {} /\ height = 0 /\ base = 0 /\ done = 0

Insert(key, parent) ==
  /\ rows' = rows \cup {[id |-> Cardinality(rows) + 1, key |-> key, parent |-> parent]}
  /\ UNCHANGED <<height, txs, base, done>>

AddMaster(n) == n <= height /\ Insert(n, 0)
AddShard(m) == \E s \in Kept(m.key) : Insert(s, m.id)
AddTx(b) ==
  /\ \E t \in ToSet(Txs[b.key]) :
       txs' = txs \cup {[id |-> Cardinality(txs) + 1, tx |-> t, parent |-> b.id]}
  /\ UNCHANGED <<height, rows, base, done>>

Extend ==
  /\ done < height /\ Whole(done)
  /\ done' = done + 1
  /\ UNCHANGED <<height, rows, txs, base>>

ScanFrom(k) ==
  /\ k <= height /\ k \notin base..done
  /\ base' = k /\ done' = k
  /\ UNCHANGED <<height, rows, txs>>

NewBlock ==
  /\ height + 1 \in Seqnos
  /\ height' = height + 1
  /\ UNCHANGED <<rows, txs, base, done>>

IndexNext ==
  \/ \E n \in Seqnos : AddMaster(n)
  \/ \E r \in rows : (r.key \in Seqnos /\ AddShard(r)) \/ AddTx(r)
  \/ \E k \in KeySeqnos : ScanFrom(k)
  \/ Extend \/ NewBlock

IndexSpec == IndexInit /\ [][IndexNext]_indexVars
=============================================================================
