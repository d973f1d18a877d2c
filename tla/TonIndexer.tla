------------------------------ MODULE TonIndexer ------------------------------
(***************************************************************************)
(* How TON blocks and transactions get into the database: the tick loop of *)
(* BlockSubscriptionService and the requests of ExplorerService that fetch *)
(* a block `by hand', both saving through createTonBlock and               *)
(* createTonTransaction, interleaved at every database call, with restarts *)
(* of the process.  The chain and its API are the environment.             *)
(*                                                                         *)
(* A block stands for its key (workchain, seqno, shard): a masterchain     *)
(* block is its seqno, a shard block any other value.  The status columns  *)
(* `checked' and `inprogress' belong to module ValidatorService; all that  *)
(* saving does to them is its action Rescan.                               *)
(***************************************************************************)
EXTENDS Integers, Sequences, FiniteSets, SequencesExt

CONSTANTS MaxSeqno,    \* bound: last masterchain block
          KeySeqnos,   \* key blocks of the masterchain
          Shards,      \* shard blocks that getMasterchainBlockWithShards lists
          ShardSeqno,  \* seqno of each shard block
          Txs,         \* transactions of each block
          Tick,        \* the tick loop
          Finders,     \* concurrent requests to ExplorerService
          MaxLag,      \* bound: blocks by which getLastBlock may be behind
          MaxCrashes,  \* bound: restarts of the process
          MaxFaults    \* bound: answers of the API without the masterchain block

Seqnos == 0..MaxSeqno
Savers == {Tick} \cup Finders
ShardBlocks == DOMAIN ShardSeqno
BlockKeys == Seqnos \cup ShardBlocks
AllTxs == UNION {ToSet(Txs[b]) : b \in BlockKeys}

ASSUME BoundsNat == MaxSeqno \in Nat /\ MaxLag \in Nat /\ MaxCrashes \in Nat /\ MaxFaults \in Nat
ASSUME FindersFinite == IsFiniteSet(Finders) /\ Tick \notin Finders
ASSUME GenesisIsKey == 0 \in KeySeqnos /\ KeySeqnos \subseteq Seqnos
ASSUME ChainType == /\ Shards \in [Seqnos -> Seq(ShardBlocks)]
                    /\ \A s \in ShardBlocks : s \notin Seqnos /\ ShardSeqno[s] \in Nat
                    /\ Txs \in [BlockKeys -> Seq(AllTxs)]

VARIABLES height,  \* last block of the chain
          blocks,  \* table TonBlock: [id, key, parent, isKeyBlock]
          txs,     \* table TonTransaction: [id, tx, parent]
          at,      \* where the save loops of each saver are: Idle or their indices
          hit,     \* answer of the saver's findFirst: Unasked, Absent or an id
          mcRow,   \* prismaMCBlock.id of each saver
          curRow,  \* id of the row a saver's transactions are connected to
          phase,   \* where the tick loop is
          cursor,  \* seqno of tick
          actual,  \* actualBlock.seqno of tick
          base,    \* history: first seqno from which the index has no gap ...
          done,    \* history: ... and the seqno up to which it has none
          crashes, faults  \* history, bounded

tables == <<blocks, txs>>
saver == <<at, hit, mcRow, curRow>>
loop == <<phase, cursor, actual, base, done>>
budget == <<crashes, faults>>
vars == <<height, blocks, txs, at, hit, mcRow, curRow, phase, cursor, actual,
          base, done, crashes, faults>>

Unasked == -1
Absent == 0

\* getLastBlock: the API may be behind the chain.
LastBlocks == {n \in Seqnos : height - MaxLag <= n /\ n <= height}

\* getPreviousKeyBlock(h, true): h itself if it is a key block.
LastKeyBlock(h) == CHOOSE k \in KeySeqnos : k <= h /\ \A j \in KeySeqnos : j <= h => j <= k
-----------------------------------------------------------------------------
\* shards.filter: the places of the shard blocks of n that are saved, those
\* whose seqno differs from n's.
SavedShards(n) == {i \in DOMAIN Shards[n] : ShardSeqno[Shards[n][i]] # n}

\* The masterchain block being saved, the shard block saveShardBlocks is at
\* (0 before it) and the transaction saveBlockTransactions is at (0 before it).
Begin(n) == [mc |-> n, shard |-> 0, tx |-> 0]
Idle == Begin(-1)

\* What the saver stores next: a block, then its transactions.
Block(p) == IF at[p].shard = 0 THEN at[p].mc ELSE Shards[at[p].mc][at[p].shard]
AtBlock(p) == at[p] # Idle /\ at[p].tx = 0
AtTx(p) == at[p] # Idle /\ at[p].tx # 0
Tx(p) == Txs[Block(p)][at[p].tx]

BlockIdsOf(b) == {r.id : r \in {r \in blocks : r.key = b}}
TxIdsOf(t) == {r.id : r \in {r \in txs : r.tx = t}}
Found(p) == IF AtBlock(p) THEN BlockIdsOf(Block(p)) ELSE TxIdsOf(Tx(p))

\* Faulty: created without looking.
LookSkipped(p) ==
  /\ at[p] # Idle /\ hit[p] = Unasked
  /\ hit' = [hit EXCEPT ![p] = Absent]
  /\ UNCHANGED <<height, tables, at, mcRow, curRow, loop, budget>>

\* findFirst of createTonBlock or createTonTransaction; it states no order.
Look(p) ==
  /\ at[p] # Idle /\ hit[p] = Unasked
  /\ IF Found(p) = {} THEN hit' = [hit EXCEPT ![p] = Absent]
     ELSE \E id \in Found(p) : hit' = [hit EXCEPT ![p] = id]
  /\ UNCHANGED <<height, tables, at, mcRow, curRow, loop, budget>>

\* isKeyBlock: read from the parsed block by tick, the default for the others.
KeyFlag(p) == p = Tick /\ Block(p) \in KeySeqnos

\* Faulty: an update hangs the row under the block that lists it now.
SavedRehung(p, id) ==
  IF hit[p] = Absent
  THEN blocks \cup {[id |-> id, key |-> Block(p), isKeyBlock |-> KeyFlag(p),
                     parent |-> IF at[p].shard = 0 THEN 0 ELSE mcRow[p]]}
  ELSE {IF r.id = id
        THEN [r EXCEPT !.isKeyBlock = KeyFlag(p), !.parent = IF at[p].shard = 0 THEN 0 ELSE mcRow[p]]
        ELSE r : r \in blocks}

\* The row that createTonBlock updates (which leaves mcParent) or creates.
Saved(p, id) ==
  IF hit[p] = Absent
  THEN blocks \cup {[id |-> id, key |-> Block(p), isKeyBlock |-> KeyFlag(p),
                     parent |-> IF at[p].shard = 0 THEN 0 ELSE mcRow[p]]}
  ELSE {IF r.id = id THEN [r EXCEPT !.isKeyBlock = KeyFlag(p)] ELSE r : r \in blocks}

\* The row is stored: on to the next transaction of the block, or after the
\* last one to the next shard block, or after the last one the block is saved.
LaterShards(p) == {i \in SavedShards(at[p].mc) : at[p].shard < i}
GoOn(p) ==
  /\ hit' = [hit EXCEPT ![p] = Unasked]
  /\ \/ /\ at[p].tx < Len(Txs[Block(p)])
        /\ at' = [at EXCEPT ![p].tx = @ + 1]
     \/ /\ at[p].tx = Len(Txs[Block(p)])
        /\ \E i \in LaterShards(p) :
             /\ \A j \in LaterShards(p) : i <= j
             /\ at' = [at EXCEPT ![p].shard = i, ![p].tx = 0]
     \/ /\ at[p].tx = Len(Txs[Block(p)]) /\ LaterShards(p) = {}
        /\ at' = [at EXCEPT ![p] = Idle]

\* Faulty: nothing is returned from an update.
ReturnOnlyCreated(p, id) ==
  IF hit[p] = Absent
  THEN /\ curRow' = [curRow EXCEPT ![p] = id]
       /\ mcRow' = IF at[p].shard = 0 THEN [mcRow EXCEPT ![p] = id] ELSE mcRow
  ELSE UNCHANGED <<curRow, mcRow>>

\* createTonBlock's result: prismaMCBlock, or the parent of what is saved next.
Return(p, id) ==
  /\ curRow' = [curRow EXCEPT ![p] = id]
  /\ mcRow' = IF at[p].shard = 0 THEN [mcRow EXCEPT ![p] = id] ELSE mcRow

\* The rest of createTonBlock, after its findFirst.
StoreBlock(p) ==
  /\ AtBlock(p) /\ hit[p] # Unasked
  /\ LET id == IF hit[p] = Absent THEN Cardinality(blocks) + 1 ELSE hit[p]
     IN blocks' = Saved(p, id) /\ Return(p, id)
  /\ GoOn(p)
  /\ UNCHANGED <<height, txs, loop, budget>>

\* The rest of createTonTransaction; an update touches the status columns only.
StoreTx(p) ==
  /\ AtTx(p) /\ hit[p] # Unasked
  /\ txs' = IF hit[p] = Absent
            THEN txs \cup {[id |-> Cardinality(txs) + 1, tx |-> Tx(p),
                            parent |-> curRow[p]]}
            ELSE txs
  /\ GoOn(p)
  /\ UNCHANGED <<height, blocks, mcRow, curRow, loop, budget>>
-----------------------------------------------------------------------------
\* getInitialKeyblock, after a start or a restart: the scan begins at the last
\* key block, whatever was indexed before.
getInitialKeyblock ==
  /\ phase = "init"
  /\ \E h \in LastBlocks :
       LET k == LastKeyBlock(h) IN
         /\ cursor' = k
         /\ IF k \in base..done THEN UNCHANGED <<base, done>>
            ELSE base' = k /\ done' = k
  /\ phase' = "delay"
  /\ UNCHANGED <<height, tables, saver, actual, budget>>

\* tick begins, 10 s later, with getLastBlock.
TickStart ==
  /\ phase = "delay"
  /\ actual' \in LastBlocks
  /\ phase' = "loop"
  /\ UNCHANGED <<height, tables, saver, cursor, base, done, budget>>

\* Faulty: <= for <.
FetchInclusive ==
  /\ phase = "loop" /\ cursor <= actual
  /\ at' = [at EXCEPT ![Tick] = Begin(cursor)]
  /\ phase' = "save"
  /\ UNCHANGED <<height, tables, hit, mcRow, curRow, cursor, actual, base, done, budget>>

\* One turn of the while: the block is fetched and parsed, its saving begins.
Fetch ==
  /\ phase = "loop" /\ cursor < actual
  /\ at' = [at EXCEPT ![Tick] = Begin(cursor)]
  /\ phase' = "save"
  /\ UNCHANGED <<height, tables, hit, mcRow, curRow, cursor, actual, base, done, budget>>

\* `NO MC BLOCK FROM API': tick returns and nothing starts another one.
NoMcBlock ==
  /\ phase = "loop" /\ cursor < actual /\ faults < MaxFaults
  /\ faults' = faults + 1
  /\ phase' = "stopped"
  /\ UNCHANGED <<height, tables, saver, cursor, actual, base, done, crashes>>

\* Faulty: the saving is not awaited.
AdvanceNoAwait ==
  /\ phase = "save"
  /\ cursor' = cursor + 1
  /\ done' = IF cursor >= done THEN cursor + 1 ELSE done
  /\ phase' = "loop"
  /\ UNCHANGED <<height, tables, saver, actual, base, budget>>

Advance ==
  /\ phase = "save" /\ at[Tick] = Idle
  /\ cursor' = cursor + 1
  /\ done' = IF cursor >= done THEN cursor + 1 ELSE done
  /\ phase' = "loop"
  /\ UNCHANGED <<height, tables, saver, actual, base, budget>>

\* Faulty: the loop is not re-armed.
TickEndNoNext ==
  /\ phase = "loop" /\ cursor >= actual
  /\ phase' = "stopped"
  /\ UNCHANGED <<height, tables, saver, cursor, actual, base, done, budget>>

\* actualBlock$.next(actualBlock): the next tick starts where this one looked.
TickEnd ==
  /\ phase = "loop" /\ cursor >= actual
  /\ cursor' = actual
  /\ phase' = "delay"
  /\ UNCHANGED <<height, tables, saver, actual, base, done, budget>>

\* findTransactionByHash of a transaction that has no row: the masterchain
\* block it belongs to is looked up and saved as the tick loop would.
findTransactionByHash(p, n) ==
  /\ at[p] = Idle /\ n <= height
  /\ \E b \in {n} \cup ToSet(Shards[n]) :
       \E t \in ToSet(Txs[b]) : \A r \in txs : r.tx # t
  /\ at' = [at EXCEPT ![p] = Begin(n)]
  /\ UNCHANGED <<height, tables, hit, mcRow, curRow, loop, budget>>

\* A new masterchain block.
Grow ==
  /\ height < MaxSeqno
  /\ height' = height + 1
  /\ UNCHANGED <<tables, saver, loop, budget>>

\* An unhandled rejection, or anything else, ends the process; it is restarted.
Crash ==
  /\ crashes < MaxCrashes
  /\ crashes' = crashes + 1
  /\ at' = [p \in Savers |-> Idle]
  /\ hit' = [p \in Savers |-> Unasked]
  /\ phase' = "init"
  /\ UNCHANGED <<height, tables, mcRow, curRow, cursor, actual, base, done, faults>>
-----------------------------------------------------------------------------
Init ==
  /\ height = 0
  /\ blocks = {} /\ txs = {}
  /\ at = [p \in Savers |-> Idle]
  /\ hit = [p \in Savers |-> Unasked]
  /\ mcRow = [p \in Savers |-> 0]
  /\ curRow = [p \in Savers |-> 0]
  /\ phase = "init" /\ cursor = 0 /\ actual = 0
  /\ base = 0 /\ done = 0
  /\ crashes = 0 /\ faults = 0

Save(p) == Look(p) \/ StoreBlock(p) \/ StoreTx(p)
TickStep == getInitialKeyblock \/ TickStart \/ Fetch \/ Advance \/ TickEnd

Next ==
  \/ \E p \in Savers : Save(p)
  \/ \E p \in Finders, n \in Seqnos : findTransactionByHash(p, n)
  \/ TickStep \/ NoMcBlock \/ Grow \/ Crash

Spec == Init /\ [][Next]_vars

\* The database and the API answer; a fault of the API is never forced.
Fairness == WF_vars(TickStep) /\ \A p \in Savers : WF_vars(Save(p))
FairSpec == Spec /\ Fairness
-----------------------------------------------------------------------------
(* The tables and the local variables of the savers have their types.      *)
TypeOK ==
  /\ height \in Seqnos /\ actual \in Seqnos /\ cursor \in Seqnos
  /\ base \in Seqnos /\ done \in Seqnos
  /\ phase \in {"init", "delay", "loop", "save", "stopped"}
  /\ blocks \subseteq [id : Nat \ {0}, key : BlockKeys, parent : Nat, isKeyBlock : BOOLEAN]
  /\ txs \subseteq [id : Nat \ {0}, tx : AllTxs, parent : Nat \ {0}]
  /\ at \in [Savers -> {Idle} \cup [mc : Seqnos, shard : Nat, tx : Nat]]
  /\ hit \in [Savers -> Nat \cup {Unasked}]
  /\ mcRow \in [Savers -> Nat] /\ curRow \in [Savers -> Nat]
  /\ crashes \in 0..MaxCrashes /\ faults \in 0..MaxFaults

HasTxs(b) == \A t \in ToSet(Txs[b]) : \E r \in txs : r.tx = t
HasBlock(b) == (\E r \in blocks : r.key = b) /\ HasTxs(b)

\* All that the code keeps of block n: shard blocks whose seqno is n are not.
Indexed(n) ==
  /\ HasBlock(n)
  /\ \A s \in ToSet(Shards[n]) : ShardSeqno[s] # n => HasBlock(s)

(* The loop leaves no gap: from the key block a scan began at to where it   *)
(* got, every block is stored with its shards and all their transactions,   *)
(* across restarts that resume at or below that point, whatever requests    *)
(* save at the same time and however far getLastBlock lags.                 *)
NoGap == \A n \in base..(done - 1) : Indexed(n)

(* The loop never indexes a block the chain does not have yet and never     *)
(* runs ahead of what it has stored.                                        *)
CursorBehind == cursor <= done /\ done <= height /\ actual <= height

BlockById(id) == {r \in blocks : r.id = id}

(* Rows hang where the chain has them: a shard row under a masterchain row  *)
(* that lists the shard block, a transaction under a row of its block, with *)
(* ids read across awaits by several savers.                                *)
ParentsRight ==
  /\ \A r \in blocks : r.key \in ShardBlocks =>
       \E m \in BlockById(r.parent) : m.key \in Seqnos /\ r.key \in ToSet(Shards[m.key])
  /\ \A t \in txs : \E b \in BlockById(t.parent) : t.tx \in ToSet(Txs[b.key])

(* Looking before creating bounds the copies of a block or a transaction by *)
(* the number of savers that run at the same time.                          *)
DuplicatesBounded ==
  /\ \A b \in BlockKeys : Cardinality({r \in blocks : r.key = b}) <= Cardinality(Savers)
  /\ \A t \in AllTxs : Cardinality({r \in txs : r.tx = t}) <= Cardinality(Savers)

(* A block already in the database is not created again.                    *)
NoDuplicates ==
  \A r, q \in blocks : r.key = q.key => r.id = q.id

(* Every block from the first key block on is indexed once getLastBlock     *)
(* cannot miss it: the loop re-arms itself for ever, and stops only where   *)
(* tick returns on an answer without a masterchain block (a fault).  After  *)
(* a restart it begins at the last key block, which is the new base.        *)
EveryBlockIndexed ==
  \A n \in Seqnos :
    (phase # "init" /\ base <= n /\ n < height - MaxLag) ~> Indexed(n) \/ n < base \/ faults > 0

\* The rows without their flags.
IndexRow(r) == [id |-> r.id, key |-> r.key, parent |-> r.parent]
IndexRows == {IndexRow(r) : r \in blocks}
Index == INSTANCE BlockIndex WITH rows <- IndexRows

(* The savers, with all the awaits between looking and creating, the updates  *)
(* of rows that are there and the restarts, do to the database only what      *)
(* BlockIndex promises: no row is changed but for its flags, none hangs       *)
(* elsewhere than on the chain, and the loop's cursor passes whole blocks.    *)
IndexPromised == Index!IndexSpec
=============================================================================
