--------------------------- MODULE TonIndexerProofs ---------------------------
(* Proofs about TonIndexer for any chain, any number of savers and any        *)
(* bounds: where the loop's cursor can be, how many copies of a block or of a *)
(* transaction there can be, and what the index holds: every block the loop   *)
(* is past, each row where the chain has it.                                  *)
EXTENDS TonIndexer, FiniteSetTheorems, WellFoundedInduction, TLAPS

(* Adding one element cannot make a finite set larger by more than one.    *)
LEMMA AddOne ==
  ASSUME NEW S, IsFiniteSet(S), NEW x
  PROVE  Cardinality(S \cup {x}) <= Cardinality(S) + 1
<1>1. Cardinality(S) \in Nat
  BY FS_CardinalityType
<1>2. Cardinality(S \cup {x}) = IF x \in S THEN Cardinality(S) ELSE Cardinality(S) + 1
  BY FS_AddElement
<1>3. QED
  BY <1>1, <1>2

(* Changing the members of a finite set gives no more of them.             *)
LEMMA NoMoreThanBefore ==
  ASSUME NEW S, IsFiniteSet(S), NEW T, NEW f, \A t \in T : \E x \in S : f[x] = t
  PROVE  IsFiniteSet(T) /\ Cardinality(T) <= Cardinality(S)
<1> DEFINE U == {f[x] : x \in S}
<1>1. [x \in S |-> f[x]] \in Surjection(S, U)
  BY DEF Surjection
<1>2. IsFiniteSet(U) /\ Cardinality(U) <= Cardinality(S)
  BY <1>1, FS_Surjection
<1>3. T \in SUBSET U
  OBVIOUS
<1>4. IsFiniteSet(T) /\ Cardinality(T) <= Cardinality(U)
  BY <1>2, <1>3, FS_Subset
<1>5. Cardinality(T) \in Nat /\ Cardinality(U) \in Nat /\ Cardinality(S) \in Nat
  BY <1>2, <1>4, FS_CardinalityType
<1>6. QED
  BY <1>2, <1>4, <1>5

(* Block 0 is a key block, so there is a last one up to any block: the        *)
(* smallest distance to one behind exists.                                    *)
LEMMA LastKeyBlockBelow ==
  ASSUME NEW h \in Seqnos
  PROVE  LastKeyBlock(h) \in KeySeqnos /\ LastKeyBlock(h) <= h
<1> DEFINE Behind == {n \in Nat : \E k \in KeySeqnos : k <= h /\ n = h - k}
<1>1. h \in Nat /\ KeySeqnos \subseteq Nat
  BY GenesisIsKey, BoundsNat DEF Seqnos
<1>2. Behind \subseteq Nat /\ Behind # {}
  <2>1. h - 0 \in Behind
    BY <1>1, GenesisIsKey
  <2>2. QED
    BY <2>1
<1>3. PICK n \in Behind : \A m \in Behind : ~(<<m, n>> \in OpToRel(<, Nat))
  <2> HIDE DEF Behind
  <2>1. QED
    BY <1>2, NatLessThanWellFounded, WFMin
<1>4. \A m \in Behind : ~(m < n)
  BY <1>1, <1>3 DEF OpToRel
<1>5. PICK k \in KeySeqnos : k <= h /\ n = h - k
  OBVIOUS
<1>6. ASSUME NEW j \in KeySeqnos, j <= h PROVE j <= k
  <2>1. h - j \in Behind
    BY <1>1, <1>6
  <2>2. ~(h - j < h - k)
    BY <1>4, <1>5, <2>1
  <2>3. QED
    BY <1>1, <1>5, <2>2
<1>7. QED
  BY <1>5, <1>6 DEF LastKeyBlock

\* Where the loop stands: in `save' it has seen a block after its cursor.
CursorInv ==
  /\ height \in Seqnos /\ cursor \in Seqnos /\ actual \in Seqnos
  /\ base \in Seqnos /\ done \in Seqnos
  /\ CursorBehind
  /\ phase = "save" => cursor < actual

(* Every step keeps the cursor within what is stored and what there is.       *)
LEMMA CursorInvariant == Spec => []CursorInv
<1>0. /\ Seqnos \subseteq Nat /\ 0 \in Seqnos
      /\ \A n \in Seqnos, m \in Nat : m <= n => m \in Seqnos
  BY BoundsNat DEF Seqnos
<1>1. Init => CursorInv
  BY <1>0 DEF Init, CursorInv, CursorBehind
<1>2. CursorInv /\ [Next]_vars => CursorInv'
  <2> SUFFICES ASSUME CursorInv, [Next]_vars PROVE CursorInv'
    OBVIOUS
  <2>0. /\ height \in Nat /\ cursor \in Nat /\ actual \in Nat /\ base \in Nat /\ done \in Nat
        /\ cursor <= done /\ done <= height /\ actual <= height
        /\ phase = "save" => cursor < actual
    BY <1>0 DEF CursorInv, CursorBehind
  <2>1. \A n \in LastBlocks : n \in Seqnos /\ n \in Nat /\ n <= height
    BY <1>0 DEF LastBlocks
  <2>2. CASE UNCHANGED <<height, loop>>
    BY <2>2 DEF CursorInv, CursorBehind, loop
  <2>3. CASE getInitialKeyblock
    <3>1. PICK h \in LastBlocks :
            /\ cursor' = LastKeyBlock(h)
            /\ IF LastKeyBlock(h) \in base..done THEN UNCHANGED <<base, done>>
               ELSE base' = LastKeyBlock(h) /\ done' = LastKeyBlock(h)
      BY <2>3 DEF getInitialKeyblock
    <3>2. /\ LastKeyBlock(h) \in KeySeqnos /\ LastKeyBlock(h) <= h
          /\ h \in Nat /\ h <= height
      BY <2>1, LastKeyBlockBelow
    <3>3. LastKeyBlock(h) \in Seqnos /\ LastKeyBlock(h) \in Nat
      BY <1>0, <3>2, GenesisIsKey
    <3>4. height' = height /\ actual' = actual /\ phase' = "delay"
      BY <2>3 DEF getInitialKeyblock
    <3>5. CASE LastKeyBlock(h) \in base..done
      BY <2>0, <3>1, <3>3, <3>4, <3>5 DEF CursorInv, CursorBehind
    <3>6. CASE LastKeyBlock(h) \notin base..done
      BY <2>0, <3>1, <3>2, <3>3, <3>4, <3>6 DEF CursorInv, CursorBehind
    <3>7. QED
      BY <3>5, <3>6
  <2>4. CASE TickStart
    BY <2>0, <2>1, <2>4 DEF TickStart, CursorInv, CursorBehind
  <2>5. CASE Fetch
    BY <2>0, <2>5 DEF Fetch, CursorInv, CursorBehind
  <2>6. CASE Advance
    <3>1. /\ phase = "save" /\ phase' = "loop" /\ cursor' = cursor + 1
          /\ done' = IF cursor >= done THEN cursor + 1 ELSE done
          /\ UNCHANGED <<height, actual, base>>
      BY <2>6 DEF Advance
    <3>2. cursor + 1 \in Seqnos
      BY <1>0, <2>0, <3>1 DEF CursorInv
    <3>3. QED
      BY <2>0, <3>1, <3>2 DEF CursorInv, CursorBehind
  <2>7. CASE TickEnd
    BY <2>0, <2>7 DEF TickEnd, CursorInv, CursorBehind
  <2>8. CASE NoMcBlock
    BY <2>0, <2>8 DEF NoMcBlock, CursorInv, CursorBehind
  <2>9. CASE Grow
    <3>1. height + 1 \in Seqnos /\ height' = height + 1 /\ UNCHANGED loop
      BY <2>0, <2>9, BoundsNat DEF Grow, Seqnos
    <3>2. QED
      BY <2>0, <3>1 DEF CursorInv, CursorBehind, loop
  <2>10. CASE Crash
    BY <2>0, <2>10 DEF Crash, CursorInv, CursorBehind
  <2>11. ASSUME NEW p \in Savers, Save(p) PROVE UNCHANGED <<height, loop>>
    BY <2>11 DEF Save, Look, StoreBlock, StoreTx
  <2>12. ASSUME NEW p \in Finders, NEW n \in Seqnos, findTransactionByHash(p, n)
         PROVE  UNCHANGED <<height, loop>>
    BY <2>12 DEF findTransactionByHash
  <2>13. CASE UNCHANGED vars
    BY <2>2, <2>13 DEF vars, loop
  <2>14. QED
    BY <2>2, <2>3, <2>4, <2>5, <2>6, <2>7, <2>8, <2>9, <2>10, <2>11, <2>12, <2>13
      DEF Next, TickStep
<1>3. QED
  BY <1>1, <1>2, PTL DEF Spec

(* The loop is never ahead of what it has stored, nor that of the chain.      *)
THEOREM CursorFollows == Spec => []CursorBehind
<1>1. CursorInv => CursorBehind
  BY DEF CursorInv
<1>2. QED
  BY <1>1, CursorInvariant, PTL
-----------------------------------------------------------------------------
\* The copies of a block or transaction, and the savers that found none and
\* are about to create one.
Copies(b) == {r \in blocks : r.key = b}
TxCopies(t) == {r \in txs : r.tx = t}
Creators(b) == {p \in Savers : hit[p] = Absent /\ AtBlock(p) /\ Block(p) = b}
TxCreators(t) == {p \in Savers : hit[p] = Absent /\ AtTx(p) /\ Tx(p) = t}

BlocksCounted ==
  \A b \in BlockKeys : Cardinality(Copies(b)) + Cardinality(Creators(b)) <= Cardinality(Savers)
TxsCounted ==
  \A t \in AllTxs : Cardinality(TxCopies(t)) + Cardinality(TxCreators(t)) <= Cardinality(Savers)

\* Tables are finite and a row has an id, so that a found row is not Absent.
TablesRight ==
  /\ IsFiniteSet(blocks) /\ IsFiniteSet(txs)
  /\ \A r \in blocks : r \in [id : Nat \ {0}, key : {r.key}, parent : {r.parent},
                             isKeyBlock : {r.isKeyBlock}]
  /\ \A r \in txs : r.id \in Nat \ {0}

\* A saver without items has asked for none, and the loop has items only while
\* it saves: whoever gets new items carries no answer over to them.
AnswersFresh ==
  /\ at = [p \in Savers |-> at[p]] /\ hit = [p \in Savers |-> hit[p]]
  /\ \A p \in Savers : at[p] = Idle => hit[p] = Unasked
  /\ phase # "save" => at[Tick] = Idle

CopiesInv == TablesRight /\ AnswersFresh /\ BlocksCounted /\ TxsCounted

(* The savers are finitely many, and so are those among them that create.    *)
LEMMA CreatorsFinite ==
  /\ IsFiniteSet(Savers) /\ Cardinality(Savers) \in Nat
  /\ \A S \in SUBSET Savers : /\ IsFiniteSet(S) /\ Cardinality(S) \in Nat
                             /\ Cardinality(S) <= Cardinality(Savers)
<1>1. IsFiniteSet(Savers)
  <2>1. Savers = Finders \cup {Tick}
    BY DEF Savers
  <2>2. QED
    BY <2>1, FindersFinite, FS_AddElement
<1>2. QED
  BY <1>1, FS_Subset, FS_CardinalityType

(* The copies of one block or transaction are finitely many.                 *)
LEMMA CopiesFinite ==
  ASSUME TablesRight
  PROVE  /\ \A b : IsFiniteSet(Copies(b)) /\ Cardinality(Copies(b)) \in Nat
         /\ \A t : IsFiniteSet(TxCopies(t)) /\ Cardinality(TxCopies(t)) \in Nat
BY FS_Subset, FS_CardinalityType DEF TablesRight, Copies, TxCopies

(* A row more for a creator less keeps the sum of both bounded.               *)
LEMMA TradeOne ==
  ASSUME NEW C, NEW D, NEW R, NEW T, NEW N \in Nat, IsFiniteSet(C), IsFiniteSet(R),
         Cardinality(R) + Cardinality(C) <= N,
         NEW p \in C, D = C \ {p}, NEW x, T = R \cup {x}
  PROVE  Cardinality(T) + Cardinality(D) <= N
<1>1. Cardinality(D) = Cardinality(C) - 1 /\ Cardinality(C) \in Nat
  BY FS_RemoveElement, FS_CardinalityType
<1>2. Cardinality(T) <= Cardinality(R) + 1 /\ Cardinality(T) \in Nat
  BY AddOne, FS_AddElement, FS_CardinalityType
<1>3. Cardinality(R) \in Nat
  BY FS_CardinalityType
<1>4. QED
  BY <1>1, <1>2, <1>3

(* The same where no row is added.                                            *)
LEMMA TradeNone ==
  ASSUME NEW C, NEW D, NEW R, NEW T, NEW N \in Nat, IsFiniteSet(C), IsFiniteSet(R),
         Cardinality(R) + Cardinality(C) <= N,
         D \subseteq C, IsFiniteSet(T), Cardinality(T) <= Cardinality(R)
  PROVE  Cardinality(T) + Cardinality(D) <= N
<1>1. Cardinality(D) <= Cardinality(C) /\ Cardinality(D) \in Nat /\ Cardinality(C) \in Nat
  BY FS_Subset, FS_CardinalityType
<1>2. Cardinality(R) \in Nat /\ Cardinality(T) \in Nat
  BY FS_CardinalityType
<1>3. QED
  BY <1>1, <1>2

(* A step that makes nobody a creator and adds no row keeps both counts.      *)
LEMMA NoneAdded ==
  ASSUME TablesRight, BlocksCounted, TxsCounted, UNCHANGED <<blocks, txs>>,
         \A x : Creators(x)' \subseteq Creators(x) /\ TxCreators(x)' \subseteq TxCreators(x)
  PROVE  BlocksCounted' /\ TxsCounted'
<1>1. \A x : Copies(x)' = Copies(x) /\ TxCopies(x)' = TxCopies(x)
  BY DEF Copies, TxCopies
<1>2. \A x : Creators(x) \in SUBSET Savers /\ TxCreators(x) \in SUBSET Savers
  BY DEF Creators, TxCreators
<1>3. ASSUME NEW b \in BlockKeys
      PROVE  Cardinality(Copies(b)') + Cardinality(Creators(b)') <= Cardinality(Savers)
  <2>1. Cardinality(Copies(b)') <= Cardinality(Copies(b)) /\ IsFiniteSet(Copies(b)')
    BY <1>1, CopiesFinite
  <2>2. QED
    BY <1>2, <2>1, TradeNone, CopiesFinite, CreatorsFinite DEF BlocksCounted
<1>4. ASSUME NEW t \in AllTxs
      PROVE  Cardinality(TxCopies(t)') + Cardinality(TxCreators(t)') <= Cardinality(Savers)
  <2>1. Cardinality(TxCopies(t)') <= Cardinality(TxCopies(t)) /\ IsFiniteSet(TxCopies(t)')
    BY <1>1, CopiesFinite
  <2>2. QED
    BY <1>2, <2>1, TradeNone, CopiesFinite, CreatorsFinite DEF TxsCounted
<1>5. QED
  BY <1>3, <1>4 DEF BlocksCounted, TxsCounted

(* findFirst makes a creator of a saver only where there is no copy yet.      *)
LEMMA LookCounted ==
  ASSUME CopiesInv, NEW p \in Savers, Look(p)
  PROVE  BlocksCounted' /\ TxsCounted'
<1>0. /\ TablesRight /\ AnswersFresh /\ BlocksCounted /\ TxsCounted
      /\ UNCHANGED <<blocks, txs, at>> /\ at[p] # Idle
  BY DEF CopiesInv, Look, tables
<1>1. CASE Found(p) = {}
  <2>1. /\ hit' = [hit EXCEPT ![p] = Absent]
        /\ \A q \in Savers : hit'[q] = IF q = p THEN Absent ELSE hit[q]
    BY <1>0, <1>1 DEF Look, AnswersFresh
  <2>2. ASSUME NEW b \in BlockKeys
        PROVE  Cardinality(Copies(b)') + Cardinality(Creators(b)') <= Cardinality(Savers)
    <3>1. Copies(b)' = Copies(b)
      BY <1>0 DEF Copies
    <3>2. CASE AtBlock(p) /\ Block(p) = b
      <4>1. Copies(b) = {}
        BY <1>1, <3>2 DEF Found, BlockIdsOf, Copies
      <4>2. Creators(b)' \in SUBSET Savers
        BY DEF Creators
      <4>3. Cardinality(Creators(b)') \in Nat /\ Cardinality(Creators(b)') <= Cardinality(Savers)
        BY <4>2, CreatorsFinite
      <4>4. QED
        BY <3>1, <4>1, <4>3, CreatorsFinite, FS_EmptySet
    <3>3. CASE ~(AtBlock(p) /\ Block(p) = b)
      <4>1. Creators(b)' \subseteq Creators(b)
        BY <1>0, <2>1, <3>3 DEF Creators, AtBlock, Block
      <4>2. Creators(b) \in SUBSET Savers
        BY DEF Creators
      <4>3. Cardinality(Copies(b)') <= Cardinality(Copies(b)) /\ IsFiniteSet(Copies(b)')
        BY <1>0, <3>1, CopiesFinite
      <4>4. QED
        BY <1>0, <4>1, <4>2, <4>3, TradeNone, CopiesFinite, CreatorsFinite DEF BlocksCounted
    <3>4. QED
      BY <3>2, <3>3
  <2>3. ASSUME NEW t \in AllTxs
        PROVE  Cardinality(TxCopies(t)') + Cardinality(TxCreators(t)') <= Cardinality(Savers)
    <3>1. TxCopies(t)' = TxCopies(t)
      BY <1>0 DEF TxCopies
    <3>2. CASE AtTx(p) /\ Tx(p) = t
      <4>1. TxCopies(t) = {}
        BY <1>1, <3>2 DEF Found, TxIdsOf, AtBlock, AtTx, TxCopies
      <4>2. TxCreators(t)' \in SUBSET Savers
        BY DEF TxCreators
      <4>3. Cardinality(TxCreators(t)') \in Nat /\ Cardinality(TxCreators(t)') <= Cardinality(Savers)
        BY <4>2, CreatorsFinite
      <4>4. QED
        BY <3>1, <4>1, <4>3, CreatorsFinite, FS_EmptySet
    <3>3. CASE ~(AtTx(p) /\ Tx(p) = t)
      <4>1. TxCreators(t)' \subseteq TxCreators(t)
        BY <1>0, <2>1, <3>3 DEF TxCreators, AtTx, Block, Tx
      <4>2. TxCreators(t) \in SUBSET Savers
        BY DEF TxCreators
      <4>3. Cardinality(TxCopies(t)') <= Cardinality(TxCopies(t)) /\ IsFiniteSet(TxCopies(t)')
        BY <1>0, <3>1, CopiesFinite
      <4>4. QED
        BY <1>0, <4>1, <4>2, <4>3, TradeNone, CopiesFinite, CreatorsFinite DEF TxsCounted
    <3>4. QED
      BY <3>2, <3>3
  <2>4. QED
    BY <2>2, <2>3 DEF BlocksCounted, TxsCounted
<1>2. CASE Found(p) # {}
  <2>1. PICK id \in Found(p) : hit' = [hit EXCEPT ![p] = id]
    BY <1>2 DEF Look
  <2>2. id # Absent
    BY <1>0, <2>1 DEF Found, BlockIdsOf, TxIdsOf, TablesRight, Absent
  <2>3. \A q \in Savers : hit'[q] = IF q = p THEN id ELSE hit[q]
    BY <1>0, <2>1 DEF AnswersFresh
  <2>4. \A x : Creators(x)' \subseteq Creators(x) /\ TxCreators(x)' \subseteq TxCreators(x)
    BY <1>0, <2>2, <2>3 DEF Creators, TxCreators, AtBlock, AtTx, Block, Tx
  <2>5. QED
    BY <1>0, <2>4, NoneAdded
<1>3. QED
  BY <1>1, <1>2

(* What createTonBlock does with the answer: it adds a copy of what the saver *)
(* had not found, and the saver is no creator any more; or it marks a row.    *)
LEMMA StoreBlockCounted ==
  ASSUME CopiesInv, NEW p \in Savers, StoreBlock(p)
  PROVE  BlocksCounted' /\ TxsCounted' /\ TablesRight'
<1>0. /\ TablesRight /\ AnswersFresh /\ BlocksCounted /\ TxsCounted
      /\ txs' = txs /\ AtBlock(p)
  BY DEF CopiesInv, StoreBlock
<1>1. PICK id : /\ id = IF hit[p] = Absent THEN Cardinality(blocks) + 1 ELSE hit[p]
                /\ blocks' = Saved(p, id)
  BY DEF StoreBlock
<1>2. /\ hit' = [hit EXCEPT ![p] = Unasked]
      /\ \A q \in Savers : hit'[q] = IF q = p THEN Unasked ELSE hit[q]
      /\ \A q \in Savers : q # p => at'[q] = at[q]
  BY <1>0 DEF StoreBlock, GoOn, AnswersFresh
<1>3. Unasked # Absent
  BY DEF Unasked, Absent
<1>4. \A x : /\ Creators(x)' = Creators(x) \ {p}
            /\ TxCreators(x)' \subseteq TxCreators(x)
            /\ TxCopies(x)' = TxCopies(x)
  BY <1>0, <1>2, <1>3 DEF Creators, TxCreators, TxCopies, AtBlock, AtTx, Block, Tx
<1>5. \A x : Creators(x) \in SUBSET Savers /\ TxCreators(x) \in SUBSET Savers
  BY DEF Creators, TxCreators
<1>6. TxsCounted'
  <2> SUFFICES ASSUME NEW t \in AllTxs
               PROVE  Cardinality(TxCopies(t)') + Cardinality(TxCreators(t)') <= Cardinality(Savers)
    BY DEF TxsCounted
  <2>1. Cardinality(TxCopies(t)') <= Cardinality(TxCopies(t)) /\ IsFiniteSet(TxCopies(t)')
    BY <1>0, <1>4, CopiesFinite
  <2>2. QED
    BY <1>0, <1>4, <1>5, <2>1, TradeNone, CopiesFinite, CreatorsFinite DEF TxsCounted
<1>7. CASE hit[p] = Absent
  <2> DEFINE row == [id |-> id, key |-> Block(p), isKeyBlock |-> KeyFlag(p),
                     parent |-> IF at[p].shard = 0 THEN 0 ELSE mcRow[p]]
  <2>1. blocks' = blocks \cup {row} /\ id \in Nat \ {0}
    <3>1. Cardinality(blocks) \in Nat
      BY <1>0, FS_CardinalityType DEF TablesRight
    <3>2. QED
      BY <1>1, <1>7, <3>1 DEF Saved
  <2>2. row.key = Block(p) /\ row \in [id : Nat \ {0}, key : {row.key}, parent : {row.parent},
                                        isKeyBlock : {row.isKeyBlock}]
    BY <2>1
  <2> HIDE DEF row
  <2>3. TablesRight'
    <3>1. IsFiniteSet(blocks')
      BY <1>0, <2>1, FS_AddElement DEF TablesRight
    <3>2. QED
      BY <1>0, <2>1, <2>2, <3>1 DEF TablesRight
  <2>4. ASSUME NEW b \in BlockKeys
        PROVE  Cardinality(Copies(b)') + Cardinality(Creators(b)') <= Cardinality(Savers)
    <3>1. CASE b = Block(p)
      <4>1. Copies(b)' = Copies(b) \cup {row} /\ p \in Creators(b)
        BY <1>0, <1>7, <2>1, <2>2, <3>1 DEF Copies, Creators
      <4>2. QED
        BY <1>0, <1>4, <1>5, <4>1, TradeOne, CopiesFinite, CreatorsFinite DEF BlocksCounted
    <3>2. CASE b # Block(p)
      <4>1. Copies(b)' = Copies(b)
        BY <2>1, <2>2, <3>2 DEF Copies
      <4>2. Cardinality(Copies(b)') <= Cardinality(Copies(b)) /\ IsFiniteSet(Copies(b)')
        BY <1>0, <4>1, CopiesFinite
      <4>3. Creators(b)' \subseteq Creators(b)
        BY <1>4
      <4>4. QED
        BY <1>0, <1>5, <4>2, <4>3, TradeNone, CopiesFinite, CreatorsFinite DEF BlocksCounted
    <3>3. QED
      BY <3>1, <3>2
  <2>5. QED
    BY <1>6, <2>3, <2>4 DEF BlocksCounted
<1>8. CASE hit[p] # Absent
  <2> DEFINE mark(r) == IF r.id = id THEN [r EXCEPT !.isKeyBlock = KeyFlag(p)] ELSE r
  <2>1. blocks' = {mark(r) : r \in blocks}
    BY <1>1, <1>8 DEF Saved
  <2>2. ASSUME NEW r \in blocks
        PROVE  /\ mark(r).key = r.key
               /\ mark(r) \in [id : Nat \ {0}, key : {mark(r).key}, parent : {mark(r).parent},
                               isKeyBlock : {mark(r).isKeyBlock}]
    BY <1>0 DEF TablesRight
  <2> DEFINE f == [r \in blocks |-> mark(r)]
  <2> HIDE DEF mark, f
  <2>3. TablesRight'
    <3>1. IsFiniteSet(blocks')
      <4>1. \A t \in blocks' : \E r \in blocks : f[r] = t
        BY <2>1 DEF f
      <4>2. QED
        BY <1>0, <4>1, NoMoreThanBefore DEF TablesRight
    <3>2. QED
      BY <1>0, <2>1, <2>2, <3>1 DEF TablesRight
  <2>4. ASSUME NEW b \in BlockKeys
        PROVE  Cardinality(Copies(b)') + Cardinality(Creators(b)') <= Cardinality(Savers)
    <3>1. Copies(b)' = {mark(r) : r \in Copies(b)}
      BY <2>1, <2>2 DEF Copies
    <3>2. Cardinality(Copies(b)') <= Cardinality(Copies(b)) /\ IsFiniteSet(Copies(b)')
      <4>1. \A t \in Copies(b)' : \E r \in Copies(b) : f[r] = t
        BY <3>1 DEF Copies, f
      <4>2. QED
        BY <1>0, <4>1, NoMoreThanBefore, CopiesFinite
    <3>3. Creators(b)' \subseteq Creators(b)
      BY <1>4
    <3>4. QED
      BY <1>0, <1>5, <3>2, <3>3, TradeNone, CopiesFinite, CreatorsFinite DEF BlocksCounted
  <2>5. QED
    BY <1>6, <2>3, <2>4 DEF BlocksCounted
<1>9. QED
  BY <1>7, <1>8

(* What createTonTransaction does with the answer.                            *)
LEMMA StoreTxCounted ==
  ASSUME CopiesInv, NEW p \in Savers, StoreTx(p)
  PROVE  BlocksCounted' /\ TxsCounted' /\ TablesRight'
<1>0. /\ TablesRight /\ AnswersFresh /\ BlocksCounted /\ TxsCounted
      /\ blocks' = blocks /\ AtTx(p)
  BY DEF CopiesInv, StoreTx
<1>1. /\ hit' = [hit EXCEPT ![p] = Unasked]
      /\ \A q \in Savers : hit'[q] = IF q = p THEN Unasked ELSE hit[q]
      /\ \A q \in Savers : q # p => at'[q] = at[q]
  BY <1>0 DEF StoreTx, GoOn, AnswersFresh
<1>2. Unasked # Absent
  BY DEF Unasked, Absent
<1>3. \A x : /\ TxCreators(x)' = TxCreators(x) \ {p}
            /\ Creators(x)' \subseteq Creators(x)
  BY <1>0, <1>1, <1>2 DEF Creators, TxCreators, AtBlock, AtTx, Block, Tx
<1>4. \A x : Creators(x) \in SUBSET Savers /\ TxCreators(x) \in SUBSET Savers
  BY DEF Creators, TxCreators
<1>5. CASE hit[p] = Absent
  <2> DEFINE row == [id |-> Cardinality(txs) + 1, tx |-> Tx(p), parent |-> curRow[p]]
  <2>1. Cardinality(txs) \in Nat
    BY <1>0, FS_CardinalityType DEF TablesRight
  <2>2. txs' = txs \cup {row} /\ row.tx = Tx(p) /\ row.id \in Nat \ {0}
    BY <1>5, <2>1 DEF StoreTx
  <2> HIDE DEF row
  <2>3. TablesRight'
    <3>1. IsFiniteSet(txs')
      BY <1>0, <2>2, FS_AddElement DEF TablesRight
    <3>2. QED
      BY <1>0, <2>2, <3>1 DEF TablesRight
  <2>4. BlocksCounted'
    <3> SUFFICES ASSUME NEW b \in BlockKeys
                 PROVE  Cardinality(Copies(b)') + Cardinality(Creators(b)') <= Cardinality(Savers)
      BY DEF BlocksCounted
    <3>1. Copies(b)' = Copies(b)
      BY <1>0 DEF Copies
    <3>2. Cardinality(Copies(b)') <= Cardinality(Copies(b)) /\ IsFiniteSet(Copies(b)')
      BY <1>0, <3>1, CopiesFinite
    <3>3. QED
      BY <1>0, <1>3, <1>4, <3>2, TradeNone, CopiesFinite, CreatorsFinite DEF BlocksCounted
  <2>5. TxsCounted'
    <3> SUFFICES ASSUME NEW t \in AllTxs
                 PROVE  Cardinality(TxCopies(t)') + Cardinality(TxCreators(t)') <= Cardinality(Savers)
      BY DEF TxsCounted
    <3>1. CASE t = Tx(p)
      <4>1. TxCopies(t)' = TxCopies(t) \cup {row} /\ p \in TxCreators(t)
        BY <1>0, <1>5, <2>2, <3>1 DEF TxCopies, TxCreators
      <4>2. QED
        BY <1>0, <1>3, <1>4, <4>1, TradeOne, CopiesFinite, CreatorsFinite DEF TxsCounted
    <3>2. CASE t # Tx(p)
      <4>1. TxCopies(t)' = TxCopies(t)
        BY <2>2, <3>2 DEF TxCopies
      <4>2. Cardinality(TxCopies(t)') <= Cardinality(TxCopies(t)) /\ IsFiniteSet(TxCopies(t)')
        BY <1>0, <4>1, CopiesFinite
      <4>3. TxCreators(t)' \subseteq TxCreators(t)
        BY <1>3
      <4>4. QED
        BY <1>0, <1>4, <4>2, <4>3, TradeNone, CopiesFinite, CreatorsFinite DEF TxsCounted
    <3>3. QED
      BY <3>1, <3>2
  <2>6. QED
    BY <2>3, <2>4, <2>5
<1>6. CASE hit[p] # Absent
  <2>1. txs' = txs
    BY <1>6 DEF StoreTx
  <2>2. \A x : Creators(x)' \subseteq Creators(x) /\ TxCreators(x)' \subseteq TxCreators(x)
    BY <1>3
  <2>3. BlocksCounted' /\ TxsCounted'
    BY <1>0, <2>1, <2>2, NoneAdded
  <2>4. QED
    BY <1>0, <2>1, <2>3 DEF TablesRight
<1>7. QED
  BY <1>5, <1>6

(* Handing a saver new items when it has none carries no old answer over.     *)
LEMMA NewItems ==
  ASSUME CopiesInv, NEW p \in Savers, at[p] = Idle, UNCHANGED <<tables, hit>>,
         \E place : at' = [at EXCEPT ![p] = place],
         p = Tick \/ phase' = phase, p = Tick => phase' = "save"
  PROVE  CopiesInv'
<1>0. /\ TablesRight /\ AnswersFresh /\ BlocksCounted /\ TxsCounted /\ hit[p] = Unasked
      /\ UNCHANGED <<blocks, txs, hit>>
  BY DEF CopiesInv, AnswersFresh, tables
<1>1. /\ at' = [q \in Savers |-> at'[q]]
      /\ \A q \in Savers : q # p => at'[q] = at[q]
  BY <1>0 DEF AnswersFresh
<1>2. Unasked # Absent
  BY DEF Unasked, Absent
<1>3. AnswersFresh'
  BY <1>0, <1>1 DEF AnswersFresh, Savers
<1>4. \A x : Creators(x)' \subseteq Creators(x) /\ TxCreators(x)' \subseteq TxCreators(x)
  BY <1>0, <1>1, <1>2 DEF Creators, TxCreators, AtBlock, AtTx, Block, Tx
<1>5. BlocksCounted' /\ TxsCounted'
  BY <1>0, <1>4, NoneAdded
<1>6. QED
  BY <1>0, <1>3, <1>5 DEF CopiesInv, TablesRight

(* Where the save loops of one saver go on; the others stay where they are.   *)
LEMMA GoOnPlace ==
  ASSUME NEW p \in Savers, at = [q \in Savers |-> at[q]], hit = [q \in Savers |-> hit[q]], GoOn(p)
  PROVE  /\ at' = [q \in Savers |-> at'[q]] /\ hit' = [q \in Savers |-> hit'[q]]
         /\ \A q \in Savers : q # p => at'[q] = at[q] /\ hit'[q] = hit[q]
         /\ hit'[p] = Unasked
         /\ \/ /\ at[p].tx < Len(Txs[Block(p)])
               /\ at'[p] = [at[p] EXCEPT !.tx = @ + 1]
            \/ /\ at[p].tx = Len(Txs[Block(p)])
               /\ \E i \in LaterShards(p) :
                    /\ \A j \in LaterShards(p) : i <= j
                    /\ at'[p] = [at[p] EXCEPT !.shard = i, !.tx = 0]
            \/ /\ at[p].tx = Len(Txs[Block(p)]) /\ LaterShards(p) = {}
               /\ at'[p] = Idle
<1>1. hit' = [hit EXCEPT ![p] = Unasked]
  BY DEF GoOn
<1>2. CASE at[p].tx < Len(Txs[Block(p)]) /\ at' = [at EXCEPT ![p].tx = @ + 1]
  BY <1>1, <1>2
<1>3. CASE /\ at[p].tx = Len(Txs[Block(p)])
           /\ \E i \in LaterShards(p) : /\ \A j \in LaterShards(p) : i <= j
                                       /\ at' = [at EXCEPT ![p].shard = i, ![p].tx = 0]
  <2>1. PICK i \in LaterShards(p) : /\ \A j \in LaterShards(p) : i <= j
                                    /\ at' = [at EXCEPT ![p].shard = i, ![p].tx = 0]
    BY <1>3
  <2>2. at'[p] = [at[p] EXCEPT !.shard = i, !.tx = 0]
    BY <2>1
  <2>3. QED
    BY <1>1, <1>3, <2>1, <2>2
<1>4. CASE at[p].tx = Len(Txs[Block(p)]) /\ LaterShards(p) = {} /\ at' = [at EXCEPT ![p] = Idle]
  BY <1>1, <1>4
<1>5. QED
  BY <1>2, <1>3, <1>4 DEF GoOn

(* Every step keeps the count of copies and of those about to make one.       *)
LEMMA CopiesStep == CopiesInv /\ [Next]_vars => CopiesInv'
<1> SUFFICES ASSUME CopiesInv, [Next]_vars PROVE CopiesInv'
  OBVIOUS
<1>0. TablesRight /\ AnswersFresh /\ BlocksCounted /\ TxsCounted
  BY DEF CopiesInv
<1>1. ASSUME NEW p \in Savers, Look(p) PROVE CopiesInv'
  <2>1. UNCHANGED <<blocks, txs, at, phase>> /\ at[p] # Idle
    BY <1>1 DEF Look, tables, loop
  <2>2. \E v : hit' = [hit EXCEPT ![p] = v]
    BY <1>1 DEF Look
  <2>3. AnswersFresh'
    BY <1>0, <2>1, <2>2 DEF AnswersFresh
  <2>4. TablesRight'
    BY <1>0, <2>1 DEF TablesRight
  <2>5. QED
    BY <1>1, <2>3, <2>4, LookCounted DEF CopiesInv
<1>2. ASSUME NEW p \in Savers, StoreBlock(p) \/ StoreTx(p) PROVE CopiesInv'
  <2>1. at[p] # Idle /\ GoOn(p) /\ phase' = phase
    BY <1>2 DEF StoreBlock, StoreTx, AtBlock, AtTx, loop
  <2>2. p = Tick => phase = "save"
    BY <1>0, <2>1 DEF AnswersFresh
  <2>3. AnswersFresh'
    <3>1. /\ at' = [q \in Savers |-> at'[q]] /\ hit' = [q \in Savers |-> hit'[q]]
          /\ hit'[p] = Unasked
          /\ \A q \in Savers : q # p => at'[q] = at[q] /\ hit'[q] = hit[q]
      BY <1>0, <2>1, GoOnPlace DEF AnswersFresh
    <3>2. phase' # "save" => at'[Tick] = Idle
      BY <1>0, <2>1, <2>2, <3>1 DEF AnswersFresh, Savers
    <3>3. QED
      BY <1>0, <3>1, <3>2 DEF AnswersFresh
  <2>4. QED
    BY <1>2, <2>3, StoreBlockCounted, StoreTxCounted DEF CopiesInv
<1>3. CASE Fetch
  <2>1. /\ at[Tick] = Idle /\ Tick \in Savers /\ phase' = "save" /\ UNCHANGED <<tables, hit>>
        /\ at' = [at EXCEPT ![Tick] = Begin(cursor)]
    BY <1>0, <1>3 DEF Fetch, AnswersFresh, Savers
  <2>2. QED
    BY <2>1, NewItems
<1>4. ASSUME NEW p \in Finders, NEW n \in Seqnos, findTransactionByHash(p, n) PROVE CopiesInv'
  <2>1. /\ at[p] = Idle /\ p \in Savers /\ p # Tick /\ phase' = phase
        /\ UNCHANGED <<tables, hit>> /\ at' = [at EXCEPT ![p] = Begin(n)]
    BY <1>4, FindersFinite DEF findTransactionByHash, Savers, loop
  <2>2. QED
    BY <2>1, NewItems
<1>5. ASSUME UNCHANGED <<tables, at, hit>>, phase' = phase \/ at[Tick] = Idle PROVE CopiesInv'
  BY <1>0, <1>5
    DEF CopiesInv, TablesRight, AnswersFresh, BlocksCounted, TxsCounted, Copies, TxCopies,
        Creators, TxCreators, AtBlock, AtTx, Block, Tx, tables
<1>6. CASE getInitialKeyblock \/ TickStart \/ TickEnd \/ NoMcBlock
  <2>1. phase # "save" /\ UNCHANGED <<tables, at, hit>>
    BY <1>6 DEF getInitialKeyblock, TickStart, TickEnd, NoMcBlock, saver
  <2>2. QED
    BY <1>0, <1>5, <2>1 DEF AnswersFresh
<1>7. CASE Advance
  BY <1>5, <1>7 DEF Advance, saver
<1>8. CASE Grow
  BY <1>5, <1>8 DEF Grow, saver, loop
<1>9. CASE Crash
  <2>1. /\ at' = [p \in Savers |-> Idle] /\ hit' = [p \in Savers |-> Unasked]
        /\ UNCHANGED <<blocks, txs>> /\ phase' = "init"
    BY <1>9 DEF Crash, tables
  <2>2. AnswersFresh'
    BY <2>1 DEF AnswersFresh, Savers
  <2>3. \A x : Creators(x)' \subseteq Creators(x) /\ TxCreators(x)' \subseteq TxCreators(x)
    BY <2>1 DEF Creators, TxCreators, Unasked, Absent
  <2>4. QED
    BY <1>0, <2>1, <2>2, <2>3, NoneAdded DEF CopiesInv, TablesRight
<1>10. CASE UNCHANGED vars
  BY <1>5, <1>10 DEF vars, tables
<1>11. QED
  BY <1>1, <1>2, <1>3, <1>4, <1>6, <1>7, <1>8, <1>9, <1>10 DEF Next, Save, TickStep

(* The rows of a block or transaction and the savers about to add one are     *)
(* never more than the savers.                                                *)
LEMMA CopiesInvariant == Spec => []CopiesInv
<1>1. Init => CopiesInv
  <2> SUFFICES ASSUME Init PROVE CopiesInv
    OBVIOUS
  <2>1. TablesRight
    BY FS_EmptySet DEF Init, TablesRight
  <2>2. AnswersFresh
    BY DEF Init, AnswersFresh, Savers
  <2>3. \A x : Copies(x) = {} /\ TxCopies(x) = {} /\ Creators(x) = {} /\ TxCreators(x) = {}
    BY DEF Init, Copies, TxCopies, Creators, TxCreators, Unasked, Absent
  <2>4. BlocksCounted /\ TxsCounted
    BY <2>3, FS_EmptySet, CreatorsFinite DEF BlocksCounted, TxsCounted
  <2>5. QED
    BY <2>1, <2>2, <2>4 DEF CopiesInv
<1>2. QED
  BY <1>1, CopiesStep, PTL DEF Spec

(* Looking before creating bounds the copies of a block or a transaction by   *)
(* the number of savers, for any chain, any interleaving and any restarts.    *)
THEOREM CopiesBounded == Spec => []DuplicatesBounded
<1>1. CopiesInv => DuplicatesBounded
  <2> SUFFICES ASSUME CopiesInv PROVE DuplicatesBounded
    OBVIOUS
  <2>1. \A x : Creators(x) \in SUBSET Savers /\ TxCreators(x) \in SUBSET Savers
    BY DEF Creators, TxCreators
  <2>2. /\ \A x : Cardinality(Creators(x)) \in Nat /\ Cardinality(TxCreators(x)) \in Nat
        /\ \A x : Cardinality(Copies(x)) \in Nat /\ Cardinality(TxCopies(x)) \in Nat
        /\ Cardinality(Savers) \in Nat
    BY <2>1, CreatorsFinite, CopiesFinite DEF CopiesInv
  <2>3. /\ \A b \in BlockKeys : Cardinality(Copies(b)) <= Cardinality(Savers)
        /\ \A t \in AllTxs : Cardinality(TxCopies(t)) <= Cardinality(Savers)
    BY <2>2 DEF CopiesInv, BlocksCounted, TxsCounted
  <2>4. QED
    BY <2>3 DEF DuplicatesBounded, Copies, TxCopies
<1>2. QED
  BY <1>1, CopiesInvariant, PTL
-----------------------------------------------------------------------------
\* The indices of the two save loops are within what the chain lists.
Placed(p) ==
  /\ at[p].mc \in Seqnos
  /\ at[p].shard \in {0} \cup SavedShards(at[p].mc)
  /\ at[p].tx \in 0..Len(Txs[Block(p)])

\* What findFirst answered is still so: rows do not go away.
AnswerRight(p) == hit[p] \in {Unasked, Absent} \cup Found(p)

\* The ids kept across awaits name the rows of the blocks the loops are at.
RowsRight(p) ==
  /\ at[p].shard # 0 \/ at[p].tx # 0 => \E m \in BlockById(mcRow[p]) : m.key = at[p].mc
  /\ at[p].tx # 0 => \E b \in BlockById(curRow[p]) : b.key = Block(p)

\* Whatever the loops are past is stored.
SoFar(p) ==
  /\ at[p].shard # 0 => HasBlock(at[p].mc)
  /\ \A i \in SavedShards(at[p].mc) : i < at[p].shard => HasBlock(Shards[at[p].mc][i])
  /\ \A j \in 1..(at[p].tx - 1) : \E r \in txs : r.tx = Txs[Block(p)][j]

SaverRight(p) == at[p] # Idle => Placed(p) /\ AnswerRight(p) /\ RowsRight(p) /\ SoFar(p)

\* The tick loop saves the block of its cursor, and has saved it when it ends.
LoopRight ==
  phase = "save" => IF at[Tick] = Idle THEN Indexed(cursor) ELSE at[Tick].mc = cursor

IndexInv ==
  /\ TypeOK /\ LoopRight /\ NoGap /\ ParentsRight
  /\ \A p \in Savers : SaverRight(p)

\* No row goes away, nor does it get another id, key or parent.
Grown ==
  /\ \A r \in blocks : \E q \in blocks' : q.id = r.id /\ q.key = r.key /\ q.parent = r.parent
  /\ txs \subseteq txs'

(* No handler deletes a row or hangs it elsewhere: createTonBlock's update    *)
(* touches the flag and the status columns.                                   *)
LEMMA RowsStay ==
  ASSUME TypeOK, [Next]_vars
  PROVE  Grown
<1>1. CASE UNCHANGED <<blocks, txs>>
  BY <1>1 DEF Grown
<1>2. ASSUME NEW p \in Savers, StoreBlock(p) PROVE Grown
  <2>1. PICK id : blocks' = Saved(p, id) /\ txs' = txs
    BY <1>2 DEF StoreBlock
  <2>2. CASE hit[p] = Absent
    BY <2>1, <2>2 DEF Saved, Grown
  <2>3. CASE hit[p] # Absent
    <3>1. blocks' = {IF r.id = id THEN [r EXCEPT !.isKeyBlock = KeyFlag(p)] ELSE r : r \in blocks}
      BY <2>1, <2>3 DEF Saved
    <3>2. ASSUME NEW r \in blocks
          PROVE  \E q \in blocks' : q.id = r.id /\ q.key = r.key /\ q.parent = r.parent
      <4>1. r \in [id : Nat \ {0}, key : BlockKeys, parent : Nat, isKeyBlock : BOOLEAN]
        BY DEF TypeOK
      <4> DEFINE q == IF r.id = id THEN [r EXCEPT !.isKeyBlock = KeyFlag(p)] ELSE r
      <4>2. q.id = r.id /\ q.key = r.key /\ q.parent = r.parent
        BY <4>1
      <4>3. q \in blocks'
        BY <3>1
      <4>4. QED
        BY <4>2, <4>3
    <3>3. QED
      BY <2>1, <3>2 DEF Grown
  <2>4. QED
    BY <2>2, <2>3
<1>3. ASSUME NEW p \in Savers, StoreTx(p) PROVE Grown
  BY <1>3 DEF StoreTx, Grown
<1>4. ASSUME NEW p \in Savers, Look(p) PROVE UNCHANGED <<blocks, txs>>
  BY <1>4 DEF Look, tables
<1>5. ASSUME NEW p \in Finders, NEW n \in Seqnos, findTransactionByHash(p, n)
      PROVE  UNCHANGED <<blocks, txs>>
  BY <1>5 DEF findTransactionByHash, tables
<1>6. CASE TickStep \/ NoMcBlock \/ Grow \/ Crash \/ UNCHANGED vars
  BY <1>1, <1>6
    DEF TickStep, getInitialKeyblock, TickStart, Fetch, Advance, TickEnd, NoMcBlock, Grow, Crash,
        vars, tables
<1>7. QED
  BY <1>1, <1>2, <1>3, <1>4, <1>5, <1>6 DEF Next, Save

(* What is found, stored or indexed stays so.                                 *)
LEMMA GrownKeeps ==
  ASSUME Grown
  PROVE  /\ \A b : BlockIdsOf(b) \subseteq BlockIdsOf(b)'
         /\ \A t : TxIdsOf(t) \subseteq TxIdsOf(t)'
         /\ \A id, k : (\E m \in BlockById(id) : m.key = k) => \E m \in BlockById(id)' : m.key = k
         /\ \A t : (\E r \in txs : r.tx = t) => \E r \in txs' : r.tx = t
         /\ \A b : HasBlock(b) => HasBlock(b)'
         /\ \A n : Indexed(n) => Indexed(n)'
<1>1. \A b : BlockIdsOf(b) \subseteq BlockIdsOf(b)'
  BY DEF Grown, BlockIdsOf
<1>2. \A t : TxIdsOf(t) \subseteq TxIdsOf(t)'
  BY DEF Grown, TxIdsOf
<1>3. \A id, k : (\E m \in BlockById(id) : m.key = k) => \E m \in BlockById(id)' : m.key = k
  BY DEF Grown, BlockById
<1>4. \A t : (\E r \in txs : r.tx = t) => \E r \in txs' : r.tx = t
  BY DEF Grown
<1>5. \A b : HasBlock(b) => HasBlock(b)'
  BY <1>4 DEF Grown, HasBlock, HasTxs
<1>6. \A n : Indexed(n) => Indexed(n)'
  BY <1>5 DEF Indexed
<1>7. QED
  BY <1>1, <1>2, <1>3, <1>4, <1>5, <1>6

(* The lists of shard blocks and of transactions, and their indices.          *)
LEMMA ListsTyped ==
  /\ Seqnos \subseteq Nat
  /\ \A n \in Seqnos : SavedShards(n) \subseteq Nat \ {0}
  /\ \A n \in Seqnos : \A i \in SavedShards(n) : Shards[n][i] \in ShardBlocks
                                              /\ Shards[n][i] \in ToSet(Shards[n])
  /\ \A b \in BlockKeys : /\ Len(Txs[b]) \in Nat
                          /\ \A j \in 1..Len(Txs[b]) : Txs[b][j] \in ToSet(Txs[b])
                          /\ ToSet(Txs[b]) = {Txs[b][j] : j \in 1..Len(Txs[b])}
                          /\ ToSet(Txs[b]) \subseteq AllTxs
<1>1. Seqnos \subseteq Nat
  BY BoundsNat DEF Seqnos
<1>2. ASSUME NEW n \in Seqnos
      PROVE  /\ DOMAIN Shards[n] = 1..Len(Shards[n]) /\ Len(Shards[n]) \in Nat
             /\ \A i \in DOMAIN Shards[n] : Shards[n][i] \in ShardBlocks
  <2>1. Shards[n] \in Seq(ShardBlocks)
    BY ChainType
  <2>2. QED
    BY <2>1
<1>3. ASSUME NEW b \in BlockKeys
      PROVE  DOMAIN Txs[b] = 1..Len(Txs[b]) /\ Len(Txs[b]) \in Nat
  <2>1. Txs[b] \in Seq(AllTxs)
    BY ChainType
  <2>2. QED
    BY <2>1
<1>4. QED
  BY <1>1, <1>2, <1>3 DEF SavedShards, ToSet, AllTxs

(* A placed saver is at a block of the chain.                                 *)
LEMMA BlockPlaced ==
  ASSUME NEW p, Placed(p)
  PROVE  /\ Block(p) \in BlockKeys /\ Len(Txs[Block(p)]) \in Nat
         /\ at[p].shard \in Nat /\ at[p].tx \in Nat
         /\ at[p].tx # 0 => Tx(p) \in ToSet(Txs[Block(p)]) /\ Tx(p) \in AllTxs
<1>1. Block(p) \in BlockKeys
  BY ListsTyped DEF Placed, Block, BlockKeys
<1>2. Len(Txs[Block(p)]) \in Nat /\ at[p].tx \in 0..Len(Txs[Block(p)])
  BY <1>1, ListsTyped DEF Placed
<1>3. at[p].shard \in Nat
  <2>1. at[p].mc \in Seqnos /\ at[p].shard \in {0} \cup SavedShards(at[p].mc)
    BY DEF Placed
  <2>2. SavedShards(at[p].mc) \subseteq Nat
    BY <2>1, ListsTyped
  <2>3. QED
    BY <2>1, <2>2
<1>4. QED
  BY <1>1, <1>2, <1>3, ListsTyped DEF Tx

(* A saver that a step leaves alone is right after it.                        *)
LEMMA SaverKept ==
  ASSUME Grown, NEW p \in Savers, SaverRight(p),
         at'[p] = at[p], hit'[p] = hit[p], mcRow'[p] = mcRow[p], curRow'[p] = curRow[p]
  PROVE  SaverRight(p)'
<1> SUFFICES ASSUME at[p] # Idle PROVE (Placed(p) /\ AnswerRight(p) /\ RowsRight(p) /\ SoFar(p))'
  BY DEF SaverRight, Idle, Begin
<1>0. Placed(p) /\ AnswerRight(p) /\ RowsRight(p) /\ SoFar(p)
  BY DEF SaverRight
<1>1. Block(p)' = Block(p)
  BY DEF Block
<1>2. Placed(p)'
  BY <1>0, <1>1 DEF Placed
<1>3. AnswerRight(p)'
  <2>1. Found(p) \subseteq Found(p)'
    <3>1. AtBlock(p)' = AtBlock(p) /\ Tx(p)' = Tx(p)
      BY <1>1 DEF AtBlock, Tx, Idle, Begin
    <3>2. CASE AtBlock(p)
      <4>1. Found(p) = BlockIdsOf(Block(p)) /\ Found(p)' = BlockIdsOf(Block(p))'
        BY <3>1, <3>2 DEF Found
      <4>2. BlockIdsOf(Block(p)) \subseteq BlockIdsOf(Block(p))'
        BY <1>1, GrownKeeps DEF BlockIdsOf
      <4>3. QED
        BY <4>1, <4>2
    <3>3. CASE ~AtBlock(p)
      <4>1. Found(p) = TxIdsOf(Tx(p)) /\ Found(p)' = TxIdsOf(Tx(p))'
        BY <3>1, <3>3 DEF Found
      <4>2. TxIdsOf(Tx(p)) \subseteq TxIdsOf(Tx(p))'
        BY <3>1, GrownKeeps DEF TxIdsOf
      <4>3. QED
        BY <4>1, <4>2
    <3>4. QED
      BY <3>2, <3>3
  <2>2. QED
    BY <1>0, <2>1 DEF AnswerRight
<1>4. RowsRight(p)'
  BY <1>0, <1>1, GrownKeeps DEF RowsRight, BlockById
<1>5. SoFar(p)'
  <2> DEFINE n == at[p].mc
             k == Block(p)
  <2>1. n' = n /\ k' = k
    BY <1>1
  <2>2. at[p].shard # 0 => HasBlock(n)'
    <3>1. \A b : HasBlock(b) => HasBlock(b)'
      BY GrownKeeps
    <3>2. QED
      BY <1>0, <3>1 DEF SoFar, HasBlock, HasTxs
  <2>3. \A i \in SavedShards(n) : i < at[p].shard => HasBlock(Shards[n][i])'
    <3>1. \A b : HasBlock(b) => HasBlock(b)'
      BY GrownKeeps
    <3>2. QED
      BY <1>0, <3>1 DEF SoFar, HasBlock, HasTxs
  <2>4. \A j \in 1..(at[p].tx - 1) : \E r \in txs' : r.tx = Txs[k][j]
    BY <1>0, GrownKeeps DEF SoFar
  <2>5. QED
    BY <2>1, <2>2, <2>3, <2>4 DEF SoFar
<1>6. QED
  BY <1>2, <1>3, <1>4, <1>5

(* With its last transaction a block is stored whole.                         *)
LEMMA BlockStored ==
  ASSUME Grown, NEW p \in Savers, Placed(p), SoFar(p), at[p].tx = Len(Txs[Block(p)]),
         NEW k, k = Block(p), \E b \in blocks' : b.key = k,
         at[p].tx # 0 => \E r \in txs' : r.tx = Tx(p)
  PROVE  HasBlock(k)'
<1>1. /\ Len(Txs[k]) \in Nat /\ at[p].tx = Len(Txs[k])
      /\ ToSet(Txs[k]) = {Txs[k][j] : j \in 1..Len(Txs[k])}
  <2>1. k \in BlockKeys
    BY BlockPlaced
  <2>2. QED
    BY <2>1, ListsTyped
<1>2. ASSUME NEW j \in 1..Len(Txs[k]) PROVE \E r \in txs' : r.tx = Txs[k][j]
  <2>1. CASE j = Len(Txs[k])
    BY <1>1, <2>1 DEF Tx
  <2>2. CASE j # Len(Txs[k])
    <3>1. j \in 1..(at[p].tx - 1)
      BY <1>1, <2>2
    <3>2. QED
      BY <3>1, GrownKeeps DEF SoFar
  <2>3. QED
    BY <2>1, <2>2
<1>3. QED
  BY <1>1, <1>2 DEF HasBlock, HasTxs

(* The loops go on from a row that is stored: the saver is right again, and   *)
(* when its loops end all of its masterchain block is indexed.                *)
LEMMA SaverGoesOn ==
  ASSUME Grown, NEW p \in Savers, SaverRight(p), at[p] # Idle,
         at[p] \in [mc : Seqnos, shard : Nat, tx : Nat],
         at = [q \in Savers |-> at[q]], hit = [q \in Savers |-> hit[q]], GoOn(p),
         NEW n, n = at[p].mc, NEW k, k = Block(p),
         \E m \in BlockById(mcRow[p])' : m.key = n,
         \E b \in BlockById(curRow[p])' : b.key = k,
         at[p].tx # 0 => \E r \in txs' : r.tx = Tx(p)
  PROVE  SaverRight(p)' /\ IF at'[p] = Idle THEN Indexed(n)' ELSE at'[p].mc = n
<1>0. Placed(p) /\ SoFar(p)
  BY DEF SaverRight
<1>1. /\ k \in BlockKeys /\ Len(Txs[k]) \in Nat /\ n \in Seqnos
      /\ at[p].shard \in Nat /\ at[p].tx \in Nat /\ at[p].tx <= Len(Txs[k])
      /\ SavedShards(n) \subseteq Nat \ {0}
      /\ hit'[p] = Unasked
  <2>1. n \in Seqnos /\ SavedShards(n) \subseteq Nat \ {0}
    BY ListsTyped
  <2>2. /\ k \in BlockKeys /\ Len(Txs[k]) \in Nat
        /\ at[p].shard \in Nat /\ at[p].tx \in Nat
    BY <1>0, BlockPlaced
  <2>3. at[p].tx <= Len(Txs[k])
    BY <1>0, <2>2 DEF Placed
  <2>4. QED
    BY <2>1, <2>2, <2>3, GoOnPlace
<1>2. \E b \in blocks' : b.key = k
  BY DEF BlockById
<1>3. AnswerRight(p)'
  BY <1>1 DEF AnswerRight
<1>4. CASE at[p].tx < Len(Txs[k]) /\ at'[p] = [at[p] EXCEPT !.tx = @ + 1]
  <2>1. at'[p].mc = n /\ at'[p].shard = at[p].shard /\ at'[p].tx = at[p].tx + 1 /\ at'[p].tx # 0
    BY <1>1, <1>4
  <2>2. Block(p)' = k
    BY <2>1 DEF Block
  <2>3. Placed(p)'
    BY <1>0, <1>1, <1>4, <2>1, <2>2 DEF Placed
  <2>4. RowsRight(p)'
    BY <2>1, <2>2 DEF RowsRight
  <2>5. SoFar(p)'
    <3>1. at[p].shard # 0 => HasBlock(n)'
      BY <1>0, GrownKeeps DEF SoFar
    <3>2. \A i \in SavedShards(n) : i < at[p].shard => HasBlock(Shards[n][i])'
      BY <1>0, GrownKeeps DEF SoFar
    <3>3. ASSUME NEW j \in 1..at[p].tx PROVE \E r \in txs' : r.tx = Txs[k][j]
      <4>1. CASE j = at[p].tx
        BY <1>1, <4>1 DEF Tx
      <4>2. CASE j # at[p].tx
        <5>1. j \in 1..(at[p].tx - 1)
          BY <1>1, <4>2
        <5>2. QED
          BY <1>0, <5>1, GrownKeeps DEF SoFar
      <4>3. QED
        BY <4>1, <4>2
    <3>4. at'[p].tx - 1 = at[p].tx
      BY <1>1, <2>1
    <3>5. QED
      BY <2>1, <2>2, <3>1, <3>2, <3>3, <3>4 DEF SoFar, HasBlock, HasTxs
  <2>6. at'[p] # Idle
    BY <2>1 DEF Idle, Begin
  <2>7. QED
    BY <1>3, <2>1, <2>3, <2>4, <2>5, <2>6 DEF SaverRight
<1>5. CASE /\ at[p].tx = Len(Txs[k])
           /\ \E i \in LaterShards(p) : /\ \A j \in LaterShards(p) : i <= j
                                       /\ at'[p] = [at[p] EXCEPT !.shard = i, !.tx = 0]
  <2>1. PICK i \in LaterShards(p) : /\ \A j \in LaterShards(p) : i <= j
                                    /\ at'[p] = [at[p] EXCEPT !.shard = i, !.tx = 0]
    BY <1>5
  <2>2. i \in SavedShards(n) /\ i \in Nat \ {0} /\ at[p].shard < i
    BY <1>1, <2>1 DEF LaterShards
  <2>3. at'[p].mc = n /\ at'[p].shard = i /\ at'[p].tx = 0
    BY <2>1
  <2>4. Block(p)' \in BlockKeys
    BY <1>1, <2>2, <2>3, ListsTyped DEF Block, BlockKeys
  <2>5. Placed(p)'
    BY <1>1, <2>2, <2>3, <2>4, ListsTyped DEF Placed
  <2>6. RowsRight(p)'
    BY <2>3 DEF RowsRight
  <2>7. HasBlock(k)'
    BY <1>0, <1>2, <1>5, BlockStored
  <2>8. SoFar(p)'
    <3>1. HasBlock(n)'
      BY <1>0, <2>7, GrownKeeps DEF SoFar, Block
    <3>2. ASSUME NEW l \in SavedShards(n), l < i PROVE HasBlock(Shards[n][l])'
      <4>1. ~(at[p].shard < l)
        BY <1>1, <2>1, <2>2, <3>2 DEF LaterShards
      <4>2. CASE l = at[p].shard
        BY <1>1, <2>7, <4>2 DEF Block
      <4>3. CASE l # at[p].shard
        BY <1>0, <1>1, <4>1, <4>3, GrownKeeps DEF SoFar
      <4>4. QED
        BY <4>2, <4>3
    <3>3. QED
      BY <2>3, <3>1, <3>2 DEF SoFar, HasBlock, HasTxs
  <2>9. at'[p] # Idle
    BY <2>2, <2>3 DEF Idle, Begin
  <2>10. QED
    BY <1>3, <2>3, <2>5, <2>6, <2>8, <2>9 DEF SaverRight
<1>6. CASE at[p].tx = Len(Txs[k]) /\ LaterShards(p) = {} /\ at'[p] = Idle
  <2>1. HasBlock(k)'
    BY <1>0, <1>2, <1>6, BlockStored
  <2>2. HasBlock(n)'
    BY <1>0, <2>1, GrownKeeps DEF SoFar, Block
  <2>3. ASSUME NEW l \in SavedShards(n) PROVE HasBlock(Shards[n][l])'
    <3>1. ~(at[p].shard < l)
      BY <1>6 DEF LaterShards
    <3>2. CASE l = at[p].shard
      BY <1>1, <2>1, <3>2 DEF Block
    <3>3. CASE l # at[p].shard
      BY <1>0, <1>1, <3>1, <3>3, GrownKeeps DEF SoFar
    <3>4. QED
      BY <3>2, <3>3
  <2>4. ASSUME NEW s \in ToSet(Shards[n]), ShardSeqno[s] # n PROVE HasBlock(s)'
    <3>1. PICK l \in SavedShards(n) : s = Shards[n][l]
      BY <2>4 DEF ToSet, SavedShards
    <3>2. QED
      BY <2>3, <3>1
  <2>5. QED
    BY <1>6, <2>2, <2>4 DEF SaverRight, Indexed
<1>7. QED
  BY <1>4, <1>5, <1>6, GoOnPlace

\* What a step of saver p keeps: the types and parents, its own state, and that
\* the masterchain block n it was at is indexed if its loops end.
Advanced(p, n) ==
  /\ TypeOK' /\ ParentsRight' /\ SaverRight(p)'
  /\ IF at'[p] = Idle THEN Indexed(n)' ELSE at'[p].mc = n

(* Where the loops go on is a place of the same kind.                         *)
LEMMA PlaceTyped ==
  ASSUME TypeOK, NEW p \in Savers, at[p] \in [mc : Seqnos, shard : Nat, tx : Nat],
         at = [q \in Savers |-> at[q]], hit = [q \in Savers |-> hit[q]], GoOn(p)
  PROVE  at' \in [Savers -> {Idle} \cup [mc : Seqnos, shard : Nat, tx : Nat]]
<1> DEFINE Place == {Idle} \cup [mc : Seqnos, shard : Nat, tx : Nat]
<1>1. SavedShards(at[p].mc) \subseteq Nat
  BY ListsTyped
<1>2. at'[p] \in Place
  <2>1. \A i \in LaterShards(p) : i \in Nat
    BY <1>1 DEF LaterShards
  <2>2. CASE at'[p] = [at[p] EXCEPT !.tx = @ + 1]
    BY <2>2
  <2>3. ASSUME NEW i \in LaterShards(p), at'[p] = [at[p] EXCEPT !.shard = i, !.tx = 0]
        PROVE  at'[p] \in Place
    <3>1. at'[p] = [mc |-> at[p].mc, shard |-> i, tx |-> 0]
      BY <2>3
    <3>2. at[p].mc \in Seqnos /\ i \in Nat
      BY <2>1, <2>3
    <3>3. QED
      BY <3>1, <3>2
  <2>4. QED
    BY <2>2, <2>3, GoOnPlace
<1>3. \A q \in Savers : at'[q] \in Place
  BY <1>2, GoOnPlace DEF TypeOK
<1>4. QED
  BY <1>3, GoOnPlace

(* The answer of findFirst names a row of what was asked for, of the right    *)
(* table.                                                                     *)
LEMMA LookRight ==
  ASSUME IndexInv, NEW p \in Savers, Look(p), NEW n, n = at[p].mc
  PROVE  Advanced(p, n)
<1>0. /\ TypeOK /\ ParentsRight /\ SaverRight(p)
      /\ UNCHANGED <<height, blocks, txs, at, mcRow, curRow, loop, budget>> /\ at[p] # Idle
  BY DEF IndexInv, Look, tables
<1>1. PICK v \in {Absent} \cup Found(p) : hit' = [hit EXCEPT ![p] = v]
  BY DEF Look
<1>2. v \in Nat
  BY <1>0, <1>1 DEF Found, BlockIdsOf, TxIdsOf, Absent, TypeOK
<1>3. TypeOK'
  BY <1>0, <1>1, <1>2 DEF TypeOK, loop, budget
<1>4. ParentsRight'
  BY <1>0 DEF ParentsRight, BlockById
<1>5. (Placed(p) /\ RowsRight(p) /\ SoFar(p))'
  BY <1>0 DEF SaverRight, Placed, RowsRight, SoFar, Block, BlockById, HasBlock, HasTxs
<1>6. AnswerRight(p)'
  <2>1. hit'[p] = v
    BY <1>0, <1>1 DEF TypeOK
  <2>2. Found(p)' = Found(p)
    BY <1>0 DEF Found, AtBlock, Tx, Block, BlockIdsOf, TxIdsOf
  <2>3. QED
    BY <1>1, <2>1, <2>2 DEF AnswerRight
<1>7. QED
  BY <1>0, <1>3, <1>4, <1>5, <1>6 DEF Advanced, SaverRight

(* createTonBlock returns the row of the block it was called with, found or   *)
(* created; any other row is one of before.                                   *)
LEMMA RowReturned ==
  ASSUME TypeOK, TablesRight, NEW p \in Savers, StoreBlock(p), Placed(p), AnswerRight(p)
  PROVE  \E id \in Nat \ {0} :
           /\ Return(p, id)
           /\ \E r \in blocks' : r.id = id /\ r.key = Block(p)
           /\ blocks' \subseteq [id : Nat \ {0}, key : BlockKeys, parent : Nat, isKeyBlock : BOOLEAN]
           /\ \A r \in blocks' :
                \/ \E q \in blocks : q.key = r.key /\ q.parent = r.parent
                \/ r.key = Block(p) /\ r.parent = IF at[p].shard = 0 THEN 0 ELSE mcRow[p]
<1> DEFINE RowType == [id : Nat \ {0}, key : BlockKeys, parent : Nat, isKeyBlock : BOOLEAN]
<1>1. PICK id : /\ id = IF hit[p] = Absent THEN Cardinality(blocks) + 1 ELSE hit[p]
                /\ blocks' = Saved(p, id) /\ Return(p, id)
  BY DEF StoreBlock
<1>2. blocks \subseteq RowType /\ mcRow[p] \in Nat /\ Block(p) \in BlockKeys /\ KeyFlag(p) \in BOOLEAN
  BY BlockPlaced DEF TypeOK, KeyFlag
<1>3. CASE hit[p] = Absent
  <2> DEFINE row == [id |-> id, key |-> Block(p), isKeyBlock |-> KeyFlag(p),
                     parent |-> IF at[p].shard = 0 THEN 0 ELSE mcRow[p]]
  <2>1. blocks' = blocks \cup {row} /\ id \in Nat \ {0}
    <3>1. Cardinality(blocks) \in Nat
      BY FS_CardinalityType DEF TablesRight
    <3>2. QED
      BY <1>1, <1>3, <3>1 DEF Saved
  <2>2. row \in RowType
    BY <1>2, <2>1
  <2>3. /\ row.id = id /\ row.key = Block(p)
        /\ row.parent = IF at[p].shard = 0 THEN 0 ELSE mcRow[p]
    OBVIOUS
  <2> HIDE DEF row, RowType
  <2>4. QED
    <3>1. \E r \in blocks' : r.id = id /\ r.key = Block(p)
      BY <2>1, <2>3
    <3>2. blocks' \subseteq RowType
      BY <1>2, <2>1, <2>2
    <3>3. \A r \in blocks' :
            \/ \E q \in blocks : q.key = r.key /\ q.parent = r.parent
            \/ r.key = Block(p) /\ r.parent = IF at[p].shard = 0 THEN 0 ELSE mcRow[p]
      BY <2>1, <2>3
    <3>4. QED
      BY <1>1, <2>1, <3>1, <3>2, <3>3 DEF RowType
<1>4. CASE hit[p] # Absent
  <2> DEFINE mark(r) == IF r.id = id THEN [r EXCEPT !.isKeyBlock = KeyFlag(p)] ELSE r
  <2>1. blocks' = {mark(r) : r \in blocks}
    BY <1>1, <1>4 DEF Saved
  <2>2. ASSUME NEW r \in blocks
        PROVE  /\ mark(r) \in RowType
               /\ mark(r).id = r.id /\ mark(r).key = r.key /\ mark(r).parent = r.parent
    <3>1. r \in RowType
      BY <1>2
    <3>2. QED
      BY <1>2, <3>1
  <2>3. PICK r \in blocks : r.id = id /\ r.key = Block(p)
    BY <1>1, <1>4 DEF StoreBlock, AnswerRight, Found, BlockIdsOf
  <2>4. id \in Nat \ {0}
    BY <1>2, <2>3
  <2> HIDE DEF mark, RowType
  <2>5. \E q \in blocks' : q.id = id /\ q.key = Block(p)
    BY <2>1, <2>2, <2>3
  <2>6. blocks' \subseteq RowType /\ \A q \in blocks' : \E o \in blocks : o.key = q.key /\ o.parent = q.parent
    BY <2>1, <2>2
  <2>7. QED
    BY <1>1, <2>4, <2>5, <2>6 DEF RowType
<1>5. QED
  BY <1>3, <1>4

(* Saving a block: a shard block hangs under the row of the masterchain block *)
(* that lists it, and the loops go on below the row that is returned.         *)
LEMMA StoreBlockRight ==
  ASSUME IndexInv, CopiesInv, Grown, NEW p \in Savers, StoreBlock(p), NEW n, n = at[p].mc
  PROVE  Advanced(p, n)
<1>0. /\ TypeOK /\ ParentsRight /\ TablesRight /\ AnswersFresh
      /\ at[p] # Idle /\ at[p].tx = 0
      /\ Placed(p) /\ AnswerRight(p) /\ RowsRight(p) /\ SaverRight(p)
      /\ GoOn(p) /\ UNCHANGED <<height, txs, loop, budget>>
  BY DEF IndexInv, CopiesInv, StoreBlock, AtBlock, SaverRight
<1>1. PICK id \in Nat \ {0} :
        /\ Return(p, id)
        /\ \E r \in blocks' : r.id = id /\ r.key = Block(p)
        /\ blocks' \subseteq [id : Nat \ {0}, key : BlockKeys, parent : Nat, isKeyBlock : BOOLEAN]
        /\ \A r \in blocks' :
             \/ \E q \in blocks : q.key = r.key /\ q.parent = r.parent
             \/ r.key = Block(p) /\ r.parent = IF at[p].shard = 0 THEN 0 ELSE mcRow[p]
  BY <1>0, RowReturned
<1>2. PICK k : k = Block(p)
  OBVIOUS
<1>3. /\ curRow'[p] = id /\ curRow' \in [Savers -> Nat]
      /\ mcRow' \in [Savers -> Nat]
      /\ mcRow'[p] = IF at[p].shard = 0 THEN id ELSE mcRow[p]
  BY <1>0, <1>1 DEF Return, TypeOK
<1>4. at[p] \in [mc : Seqnos, shard : Nat, tx : Nat] /\ n \in Seqnos
  BY <1>0 DEF TypeOK
<1>5. /\ at = [q \in Savers |-> at[q]] /\ hit = [q \in Savers |-> hit[q]]
      /\ at' = [q \in Savers |-> at'[q]] /\ hit' = [q \in Savers |-> hit'[q]]
  BY <1>0, GoOnPlace DEF AnswersFresh
<1>6. \E b \in BlockById(curRow[p])' : b.key = k
  BY <1>1, <1>2, <1>3 DEF BlockById
<1>7. \E m \in BlockById(mcRow[p])' : m.key = n
  <2>1. CASE at[p].shard = 0
    BY <1>1, <1>3, <2>1 DEF BlockById, Block
  <2>2. CASE at[p].shard # 0
    <3>1. \E m \in BlockById(mcRow[p]) : m.key = n
      BY <1>0, <2>2 DEF RowsRight
    <3>2. mcRow'[p] = mcRow[p]
      BY <1>3, <2>2
    <3>3. QED
      BY <3>1, <3>2, GrownKeeps DEF BlockById
  <2>3. QED
    BY <2>1, <2>2
<1>8. SaverRight(p)' /\ IF at'[p] = Idle THEN Indexed(n)' ELSE at'[p].mc = n
  BY <1>0, <1>2, <1>4, <1>5, <1>6, <1>7, SaverGoesOn
<1>9. TypeOK'
  <2>1. at' \in [Savers -> {Idle} \cup [mc : Seqnos, shard : Nat, tx : Nat]]
    BY <1>0, <1>4, <1>5, PlaceTyped
  <2>2. hit' \in [Savers -> Nat \cup {Unasked}]
    BY <1>0, <1>5, GoOnPlace DEF TypeOK
  <2>3. QED
    BY <1>0, <1>1, <1>3, <2>1, <2>2 DEF TypeOK, loop, budget
<1>10. ParentsRight'
  <2>1. ASSUME NEW r \in blocks', r.key \in ShardBlocks
        PROVE  \E m \in BlockById(r.parent)' : m.key \in Seqnos /\ r.key \in ToSet(Shards[m.key])
    <3>1. CASE \E q \in blocks : q.key = r.key /\ q.parent = r.parent
      <4>1. PICK m \in BlockById(r.parent) : m.key \in Seqnos /\ r.key \in ToSet(Shards[m.key])
        BY <1>0, <2>1, <3>1 DEF ParentsRight, BlockById
      <4>2. \E o \in BlockById(r.parent)' : o.key = m.key
        BY <4>1, GrownKeeps DEF BlockById
      <4>3. QED
        BY <4>1, <4>2
    <3>2. CASE r.key = Block(p) /\ r.parent = IF at[p].shard = 0 THEN 0 ELSE mcRow[p]
      <4>1. at[p].shard # 0 /\ r.key = Shards[n][at[p].shard]
        BY <1>4, <2>1, <3>2, ChainType DEF Block
      <4>2. r.key \in ToSet(Shards[n])
        BY <1>0, <1>4, <4>1, ListsTyped DEF Placed
      <4>3. r.parent = mcRow'[p]
        BY <1>3, <3>2, <4>1
      <4>4. QED
        BY <1>4, <1>7, <4>2, <4>3 DEF BlockById
    <3>3. QED
      BY <1>1, <3>1, <3>2
  <2>2. ASSUME NEW t \in txs' PROVE \E b \in BlockById(t.parent)' : t.tx \in ToSet(Txs[b.key])
    <3>1. PICK b \in BlockById(t.parent) : t.tx \in ToSet(Txs[b.key])
      BY <1>0, <2>2 DEF ParentsRight
    <3>2. \E o \in BlockById(t.parent)' : o.key = b.key
      BY <3>1, GrownKeeps DEF BlockById
    <3>3. QED
      BY <3>1, <3>2
  <2>3. QED
    BY <2>1, <2>2 DEF ParentsRight, BlockById
<1>11. QED
  BY <1>8, <1>9, <1>10 DEF Advanced

(* Saving a transaction: it hangs under the row of its block.                 *)
LEMMA StoreTxRight ==
  ASSUME IndexInv, CopiesInv, Grown, NEW p \in Savers, StoreTx(p), NEW n, n = at[p].mc
  PROVE  Advanced(p, n)
<1>0. /\ TypeOK /\ ParentsRight /\ TablesRight /\ AnswersFresh
      /\ at[p] # Idle /\ at[p].tx # 0 /\ hit[p] # Unasked
      /\ Placed(p) /\ AnswerRight(p) /\ RowsRight(p) /\ SaverRight(p)
      /\ GoOn(p) /\ UNCHANGED <<height, blocks, mcRow, curRow, loop, budget>>
  BY DEF IndexInv, CopiesInv, StoreTx, AtTx, SaverRight
<1>1. PICK k : k = Block(p)
  OBVIOUS
<1>2. at[p] \in [mc : Seqnos, shard : Nat, tx : Nat] /\ n \in Seqnos
  BY <1>0 DEF TypeOK
<1>3. /\ at = [q \in Savers |-> at[q]] /\ hit = [q \in Savers |-> hit[q]]
      /\ at' = [q \in Savers |-> at'[q]] /\ hit' = [q \in Savers |-> hit'[q]]
  BY <1>0, GoOnPlace DEF AnswersFresh
<1>4. PICK b \in BlockById(curRow[p]) : b.key = k
  BY <1>0, <1>1 DEF RowsRight
<1>5. Tx(p) \in ToSet(Txs[k]) /\ Tx(p) \in AllTxs
  BY <1>0, <1>1, BlockPlaced
<1>6. /\ txs' \subseteq [id : Nat \ {0}, tx : AllTxs, parent : Nat \ {0}]
      /\ \E r \in txs' : r.tx = Tx(p)
      /\ \A r \in txs' : r \in txs \/ (r.tx = Tx(p) /\ r.parent = curRow[p])
  <2>1. CASE hit[p] = Absent
    <3> DEFINE row == [id |-> Cardinality(txs) + 1, tx |-> Tx(p), parent |-> curRow[p]]
    <3>1. Cardinality(txs) \in Nat
      BY <1>0, FS_CardinalityType DEF TablesRight
    <3>2. curRow[p] \in Nat \ {0}
      BY <1>0, <1>4 DEF BlockById, TypeOK
    <3>3. /\ row \in [id : Nat \ {0}, tx : AllTxs, parent : Nat \ {0}]
          /\ row.tx = Tx(p) /\ row.parent = curRow[p]
      BY <1>5, <3>1, <3>2
    <3>4. txs' = txs \cup {row}
      BY <2>1 DEF StoreTx
    <3> HIDE DEF row
    <3>5. QED
      BY <1>0, <3>3, <3>4 DEF TypeOK
  <2>2. CASE hit[p] # Absent
    <3>1. txs' = txs
      BY <2>2 DEF StoreTx
    <3>2. \E r \in txs : r.tx = Tx(p)
      BY <1>0, <2>2 DEF AnswerRight, Found, AtBlock, TxIdsOf
    <3>3. QED
      BY <1>0, <3>1, <3>2 DEF TypeOK
  <2>3. QED
    BY <2>1, <2>2
<1>7. SaverRight(p)' /\ IF at'[p] = Idle THEN Indexed(n)' ELSE at'[p].mc = n
  <2>1. \E o \in BlockById(curRow[p])' : o.key = k
    BY <1>0, <1>4 DEF BlockById
  <2>2. \E m \in BlockById(mcRow[p])' : m.key = n
    BY <1>0 DEF RowsRight, BlockById
  <2>3. QED
    BY <1>0, <1>1, <1>2, <1>3, <1>6, <2>1, <2>2, SaverGoesOn
<1>8. TypeOK'
  <2>1. at' \in [Savers -> {Idle} \cup [mc : Seqnos, shard : Nat, tx : Nat]]
    BY <1>0, <1>2, <1>3, PlaceTyped
  <2>2. hit' \in [Savers -> Nat \cup {Unasked}]
    BY <1>0, <1>3, GoOnPlace DEF TypeOK
  <2>3. QED
    BY <1>0, <1>6, <2>1, <2>2 DEF TypeOK, loop, budget
<1>9. ParentsRight'
  <2>1. ASSUME NEW r \in txs' PROVE \E o \in BlockById(r.parent) : r.tx \in ToSet(Txs[o.key])
    BY <1>0, <1>4, <1>5, <1>6 DEF ParentsRight
  <2>2. QED
    BY <1>0, <2>1 DEF ParentsRight, BlockById
<1>10. QED
  BY <1>7, <1>8, <1>9 DEF Advanced

(* One step of a saver: its own state is right, so is that of the others, and *)
(* the loop's block is indexed when the loop's saver is through with it.      *)
LEMMA SaveRight ==
  ASSUME IndexInv, CopiesInv, Grown, NEW p \in Savers, Save(p)
  PROVE  IndexInv'
<1>0. /\ TypeOK /\ LoopRight /\ NoGap /\ \A q \in Savers : SaverRight(q)
      /\ UNCHANGED loop /\ at[p] # Idle
      /\ at = [q \in Savers |-> at[q]] /\ hit = [q \in Savers |-> hit[q]]
  BY DEF IndexInv, CopiesInv, AnswersFresh, Save, Look, StoreBlock, StoreTx, AtBlock, AtTx
<1>1. PICK n : n = at[p].mc
  OBVIOUS
<1>2. Advanced(p, n)
  BY <1>1, LookRight, StoreBlockRight, StoreTxRight DEF Save
<1>3. ASSUME NEW q \in Savers, q # p PROVE SaverRight(q)' /\ at'[q] = at[q]
  <2>1. at'[q] = at[q] /\ hit'[q] = hit[q] /\ mcRow'[q] = mcRow[q] /\ curRow'[q] = curRow[q]
    <3>1. CASE Look(p)
      BY <1>0, <1>3, <3>1 DEF Look
    <3>2. CASE StoreBlock(p)
      BY <1>0, <1>3, <3>2, GoOnPlace DEF StoreBlock, Return, TypeOK
    <3>3. CASE StoreTx(p)
      BY <1>0, <1>3, <3>3, GoOnPlace DEF StoreTx
    <3>4. QED
      BY <3>1, <3>2, <3>3 DEF Save
  <2>2. QED
    BY <1>0, <2>1, SaverKept
<1>4. LoopRight'
  <2> SUFFICES ASSUME phase = "save"
               PROVE  IF at'[Tick] = Idle THEN Indexed(cursor)' ELSE at'[Tick].mc = cursor
    BY <1>0 DEF LoopRight, loop
  <2>1. cursor' = cursor
    BY <1>0 DEF loop
  <2>2. CASE p = Tick
    <3>1. n = cursor
      BY <1>0, <1>1, <2>2 DEF LoopRight
    <3>2. QED
      BY <1>2, <2>1, <2>2, <3>1 DEF Advanced, Indexed, HasBlock, HasTxs
  <2>3. CASE p # Tick
    <3>1. at'[Tick] = at[Tick]
      BY <1>3, <2>3 DEF Savers
    <3>2. Indexed(cursor) => Indexed(cursor)'
      BY <2>1, GrownKeeps DEF Indexed, HasBlock, HasTxs
    <3>3. QED
      BY <1>0, <3>1, <3>2 DEF LoopRight
  <2>4. QED
    BY <2>2, <2>3
<1>5. NoGap'
  BY <1>0, GrownKeeps DEF NoGap, loop
<1>6. QED
  BY <1>2, <1>3, <1>4, <1>5 DEF IndexInv, Advanced

(* A step that writes no row and hands at most one idle saver a new block.    *)
LEMMA SaversStay ==
  ASSUME IndexInv, Grown, UNCHANGED <<tables, hit, mcRow, curRow>>,
         \A p \in Savers : hit[p] = Unasked \/ at'[p] = at[p],
         \A p \in Savers : \/ at'[p] = at[p]
                           \/ at'[p] = Idle
                           \/ \E n \in Seqnos : at'[p] = Begin(n)
  PROVE  ParentsRight' /\ \A p \in Savers : SaverRight(p)'
<1>1. ParentsRight'
  BY DEF IndexInv, ParentsRight, BlockById, tables
<1>2. ASSUME NEW p \in Savers PROVE SaverRight(p)'
  <2>1. CASE at'[p] = at[p]
    BY <2>1, SaverKept DEF IndexInv
  <2>2. CASE at'[p] = Idle
    BY <2>2 DEF SaverRight
  <2>3. CASE at'[p] # at[p] /\ \E n \in Seqnos : at'[p] = Begin(n)
    <3>1. PICK n \in Seqnos : at'[p] = Begin(n)
      BY <2>3
    <3>2. at'[p].mc = n /\ at'[p].shard = 0 /\ at'[p].tx = 0 /\ hit'[p] = Unasked
      BY <2>3, <3>1 DEF Begin
    <3>3. Block(p)' = n /\ Len(Txs[n]) \in Nat
      BY <3>1, <3>2, ListsTyped DEF Block, BlockKeys
    <3>4. Placed(p)'
      BY <3>1, <3>2, <3>3 DEF Placed
    <3>5. AnswerRight(p)' /\ RowsRight(p)'
      BY <3>2 DEF AnswerRight, RowsRight
    <3>6. SoFar(p)'
      <4>1. \A i \in SavedShards(n) : ~(i < 0)
        BY <3>1, ListsTyped
      <4>2. \A j \in 1..(0 - 1) : FALSE
        OBVIOUS
      <4>3. QED
        BY <3>2, <4>1, <4>2 DEF SoFar
    <3>7. QED
      BY <3>4, <3>5, <3>6 DEF SaverRight
  <2>4. QED
    BY <2>1, <2>2, <2>3
<1>3. QED
  BY <1>1, <1>2

(* Every step keeps the rows where the chain has them and the index whole up  *)
(* to the cursor.                                                             *)
LEMMA IndexStep ==
  ASSUME IndexInv, CopiesInv, CursorInv, CursorInv', [Next]_vars
  PROVE  IndexInv'
<1>0. /\ TypeOK /\ LoopRight /\ NoGap /\ Grown
      /\ at = [q \in Savers |-> at[q]] /\ \A p \in Savers : at[p] = Idle => hit[p] = Unasked
      /\ phase # "save" => at[Tick] = Idle
      /\ Tick \in Savers
  BY RowsStay DEF IndexInv, CopiesInv, AnswersFresh, Savers
<1>1. ASSUME NEW p \in Savers, Save(p) PROVE IndexInv'
  BY <1>0, <1>1, SaveRight
<1>2. height' \in Seqnos /\ actual' \in Seqnos /\ cursor' \in Seqnos /\ base' \in Seqnos /\ done' \in Seqnos
  BY DEF CursorInv
<1>3. \A n : Indexed(n) => Indexed(n)'
  BY <1>0, GrownKeeps
<1>4. ASSUME UNCHANGED <<base, done>> PROVE NoGap'
  BY <1>0, <1>3, <1>4 DEF NoGap
<1>5. ASSUME UNCHANGED <<phase, cursor>>, at'[Tick] = at[Tick] PROVE LoopRight'
  <2>1. Indexed(cursor) => Indexed(cursor)'
    BY <1>3, <1>5 DEF Indexed, HasBlock, HasTxs
  <2>2. QED
    BY <1>0, <1>5, <2>1 DEF LoopRight
<1>6. CASE Fetch
  <2>1. /\ at' = [at EXCEPT ![Tick] = Begin(cursor)] /\ phase' = "save"
        /\ UNCHANGED <<blocks, txs, hit, mcRow, curRow, cursor, base, done, budget>> /\ at[Tick] = Idle
    BY <1>0, <1>6 DEF Fetch, tables
  <2>2. cursor \in Seqnos
    BY DEF CursorInv
  <2>3. \A p \in Savers : at'[p] = IF p = Tick THEN Begin(cursor) ELSE at[p]
    BY <1>0, <2>1
  <2>4. ParentsRight' /\ \A p \in Savers : SaverRight(p)'
    BY <1>0, <2>1, <2>2, <2>3, SaversStay DEF tables
  <2>5. TypeOK'
    <3>1. Begin(cursor) \in [mc : Seqnos, shard : Nat, tx : Nat]
      BY <2>2 DEF Begin
    <3>2. at' \in [Savers -> {Idle} \cup [mc : Seqnos, shard : Nat, tx : Nat]]
      BY <1>0, <2>1, <3>1 DEF TypeOK
    <3>3. QED
      BY <1>0, <1>2, <2>1, <3>2 DEF TypeOK, budget
  <2>6. LoopRight'
    <3>1. Begin(cursor) # Idle /\ Begin(cursor).mc = cursor
      BY <2>2, BoundsNat DEF Begin, Idle, Seqnos
    <3>2. QED
      BY <1>0, <2>1, <2>3, <3>1 DEF LoopRight
  <2>7. QED
    BY <1>4, <2>1, <2>4, <2>5, <2>6 DEF IndexInv
<1>7. ASSUME NEW f \in Finders, NEW n \in Seqnos, findTransactionByHash(f, n) PROVE IndexInv'
  <2>1. /\ at' = [at EXCEPT ![f] = Begin(n)] /\ at[f] = Idle /\ f # Tick /\ f \in Savers
        /\ UNCHANGED <<blocks, txs, hit, mcRow, curRow, phase, cursor, base, done, budget>>
    BY <1>7, FindersFinite DEF findTransactionByHash, tables, loop, Savers
  <2>2. \A p \in Savers : at'[p] = IF p = f THEN Begin(n) ELSE at[p]
    BY <1>0, <2>1
  <2>3. ParentsRight' /\ \A p \in Savers : SaverRight(p)'
    BY <1>0, <2>1, <2>2, SaversStay DEF tables
  <2>4. TypeOK'
    <3>1. Begin(n) \in [mc : Seqnos, shard : Nat, tx : Nat]
      BY DEF Begin
    <3>2. at' \in [Savers -> {Idle} \cup [mc : Seqnos, shard : Nat, tx : Nat]]
      BY <1>0, <2>1, <3>1 DEF TypeOK
    <3>3. QED
      BY <1>0, <1>2, <2>1, <3>2 DEF TypeOK, budget
  <2>5. LoopRight'
    BY <1>0, <1>5, <2>1, <2>2
  <2>6. QED
    BY <1>4, <2>1, <2>3, <2>4, <2>5 DEF IndexInv
<1>8. ASSUME UNCHANGED <<tables, saver>>,
             phase' \in {"init", "delay", "loop", "save", "stopped"}, faults' \in 0..MaxFaults,
             crashes' = crashes, LoopRight', NoGap'
      PROVE  IndexInv'
  <2>1. UNCHANGED <<blocks, txs, at, hit, mcRow, curRow>>
    BY <1>8 DEF tables, saver
  <2>2. ParentsRight' /\ \A p \in Savers : SaverRight(p)'
    BY <1>0, <2>1, SaversStay DEF tables
  <2>3. TypeOK'
    BY <1>0, <1>2, <1>8, <2>1 DEF TypeOK
  <2>4. QED
    BY <1>8, <2>2, <2>3 DEF IndexInv
<1>9. CASE getInitialKeyblock
  <2>1. UNCHANGED <<tables, saver, budget>> /\ phase' = "delay"
    BY <1>9 DEF getInitialKeyblock
  <2>2. NoGap'
    <3>1. UNCHANGED <<base, done>> \/ base' = done'
      BY <1>9 DEF getInitialKeyblock
    <3>2. CASE base' = done'
      <4>1. base' \in Nat
        BY <1>2, ListsTyped
      <4>2. \A b \in Nat : b..(b - 1) = {}
        OBVIOUS
      <4>3. QED
        BY <3>2, <4>1, <4>2, Zenon DEF NoGap
    <3>3. QED
      BY <1>4, <3>1, <3>2
  <2>3. QED
    BY <1>0, <1>8, <2>1, <2>2 DEF LoopRight, TypeOK, budget
<1>10. CASE TickStart \/ TickEnd
  <2>1. UNCHANGED <<tables, saver, budget, base, done>> /\ phase' \in {"delay", "loop"}
    BY <1>10 DEF TickStart, TickEnd
  <2>2. QED
    BY <1>0, <1>4, <1>8, <2>1 DEF LoopRight, TypeOK, budget
<1>11. CASE NoMcBlock
  <2>1. /\ UNCHANGED <<tables, saver, crashes, base, done>> /\ phase' = "stopped"
        /\ faults < MaxFaults /\ faults' = faults + 1
    BY <1>11 DEF NoMcBlock
  <2>2. faults' \in 0..MaxFaults
    BY <1>0, <2>1, BoundsNat DEF TypeOK
  <2>3. QED
    BY <1>4, <1>8, <2>1, <2>2 DEF LoopRight
<1>12. CASE Advance
  <2>1. /\ UNCHANGED <<tables, saver, budget, base>> /\ phase = "save" /\ phase' = "loop"
        /\ at[Tick] = Idle /\ done' = IF cursor >= done THEN cursor + 1 ELSE done
    BY <1>12 DEF Advance
  <2>2. NoGap'
    <3>1. Indexed(cursor)
      BY <1>0, <2>1 DEF LoopRight
    <3>2. cursor \in Nat /\ done \in Nat /\ base \in Nat /\ cursor <= done
      BY ListsTyped DEF CursorInv, CursorBehind
    <3>3. \A n \in base..(done' - 1) : n = cursor \/ n \in base..(done - 1)
      BY <2>1, <3>2
    <3>4. \A n \in base'..(done' - 1) : Indexed(n)
      BY <1>0, <2>1, <3>1, <3>3 DEF NoGap
    <3>5. QED
      BY <1>3, <3>4 DEF NoGap
  <2>3. QED
    BY <1>0, <1>8, <2>1, <2>2 DEF LoopRight, TypeOK, budget
<1>13. CASE Grow \/ UNCHANGED vars
  <2>1. UNCHANGED <<tables, saver, loop, budget>>
    BY <1>13 DEF Grow, vars, tables, saver, loop, budget
  <2>2. QED
    BY <1>0, <1>4, <1>5, <1>8, <2>1 DEF saver, loop, TypeOK, budget
<1>14. CASE Crash
  <2>1. /\ at' = [p \in Savers |-> Idle] /\ hit' = [p \in Savers |-> Unasked] /\ phase' = "init"
        /\ UNCHANGED <<blocks, txs, mcRow, curRow, base, done, faults>>
        /\ crashes < MaxCrashes /\ crashes' = crashes + 1
    BY <1>14 DEF Crash, tables
  <2>2. \A p \in Savers : SaverRight(p)'
    BY <2>1 DEF SaverRight
  <2>3. ParentsRight'
    BY <2>1 DEF IndexInv, ParentsRight, BlockById
  <2>4. TypeOK'
    <3>1. crashes' \in 0..MaxCrashes
      BY <1>0, <2>1, BoundsNat DEF TypeOK
    <3>2. QED
      BY <1>0, <1>2, <2>1, <3>1 DEF TypeOK
  <2>5. QED
    BY <1>4, <2>1, <2>2, <2>3, <2>4 DEF IndexInv, LoopRight
<1>15. QED
  BY <1>1, <1>6, <1>7, <1>9, <1>10, <1>11, <1>12, <1>13, <1>14 DEF Next, TickStep

(* The rows are where the chain has them and the index is whole.              *)
LEMMA IndexInvariant == Spec => []IndexInv
<1>1. Init => IndexInv
  <2> SUFFICES ASSUME Init PROVE IndexInv
    OBVIOUS
  <2>1. \A p \in Savers : at[p] = Idle
    BY DEF Init
  <2>2. \A p \in Savers : SaverRight(p)
    BY <2>1 DEF SaverRight
  <2>3. TypeOK
    BY BoundsNat DEF Init, TypeOK, Seqnos
  <2>4. LoopRight /\ NoGap /\ ParentsRight
    BY DEF Init, LoopRight, NoGap, ParentsRight
  <2>5. QED
    BY <2>2, <2>3, <2>4 DEF IndexInv
<1>2. IndexInv /\ CopiesInv /\ CursorInv /\ CursorInv' /\ [Next]_vars => IndexInv'
  BY IndexStep
<1>3. QED
  BY <1>1, <1>2, CopiesInvariant, CursorInvariant, PTL DEF Spec

(* The tables and the local variables of the savers have their types, for any *)
(* chain: no row of a transaction is without a parent.                        *)
THEOREM IndexerTyped == Spec => []TypeOK
<1>1. IndexInv => TypeOK
  BY DEF IndexInv
<1>2. QED
  BY <1>1, IndexInvariant, PTL

(* The loop leaves no gap, for any chain and any lists of shard blocks and    *)
(* transactions: a block it has advanced past is stored with its shards and   *)
(* all their transactions, whatever requests save at the same time, however   *)
(* late the API's answers are and across restarts.                            *)
THEOREM LoopLeavesNoGap == Spec => []NoGap
<1>1. IndexInv => NoGap
  BY DEF IndexInv
<1>2. QED
  BY <1>1, IndexInvariant, PTL

(* Shard rows hang under masterchain rows that list them and transactions     *)
(* under rows of their blocks, for any chain and any number of requests: the  *)
(* id a saver keeps across its awaits names a row of the block it is at.      *)
THEOREM RowsHangRight == Spec => []ParentsRight
<1>1. IndexInv => ParentsRight
  BY DEF IndexInv
<1>2. QED
  BY <1>1, IndexInvariant, PTL
-----------------------------------------------------------------------------
\* Rows are numbered as they come: an id names one row.
Numbered ==
  /\ \A r \in blocks : r.id \in 1..Cardinality(blocks)
  /\ \A r, q \in blocks : r.id = q.id => r = q

\* A saver is at a block the chain has.
OnChain == \A p \in Savers : at[p] # Idle => at[p].mc <= height

PromiseInv == Numbered /\ OnChain

(* Without their flags there are as many rows as with them.                   *)
LEMMA AsManyRows ==
  ASSUME IsFiniteSet(blocks), Numbered
  PROVE  Cardinality(IndexRows) = Cardinality(blocks) /\ Cardinality(blocks) \in Nat
<1> DEFINE f == [r \in blocks |-> IndexRow(r)]
<1>1. f \in Bijection(blocks, IndexRows)
  <2>1. f \in [blocks -> IndexRows] /\ \A t \in IndexRows : \E r \in blocks : f[r] = t
    BY DEF IndexRows
  <2>2. ASSUME NEW r \in blocks, NEW q \in blocks, f[r] = f[q] PROVE r = q
    <3>1. IndexRow(r).id = r.id /\ IndexRow(q).id = q.id
      BY DEF IndexRow
    <3>2. QED
      BY <2>2, <3>1 DEF Numbered
  <2>3. QED
    BY <2>1, <2>2 DEF Bijection, Injection, Surjection, IsInjective
<1>2. QED
  BY <1>1, FS_Bijection, FS_CardinalityType DEF ExistsBijection

(* createTonBlock adds one row with the next number or changes a flag.        *)
LEMMA TableSaved ==
  ASSUME TypeOK, TablesRight, Numbered, NEW p \in Savers, StoreBlock(p)
  PROVE  /\ Numbered'
         /\ \/ IndexRows' = IndexRows
            \/ IndexRows' = IndexRows \cup
                 {[id |-> Cardinality(IndexRows) + 1, key |-> Block(p),
                   parent |-> IF at[p].shard = 0 THEN 0 ELSE mcRow[p]]}
<1>1. PICK id : /\ id = IF hit[p] = Absent THEN Cardinality(blocks) + 1 ELSE hit[p]
                /\ blocks' = Saved(p, id)
  BY DEF StoreBlock
<1>2. IsFiniteSet(blocks) /\ Cardinality(blocks) \in Nat
  BY FS_CardinalityType DEF TablesRight
<1>3. CASE hit[p] = Absent
  <2> DEFINE row == [id |-> id, key |-> Block(p), isKeyBlock |-> KeyFlag(p),
                     parent |-> IF at[p].shard = 0 THEN 0 ELSE mcRow[p]]
  <2>1. blocks' = blocks \cup {row} /\ id = Cardinality(blocks) + 1
    BY <1>1, <1>3 DEF Saved
  <2>2. row.id = id /\ IndexRow(row) = [id |-> id, key |-> Block(p),
                                       parent |-> IF at[p].shard = 0 THEN 0 ELSE mcRow[p]]
    BY DEF IndexRow
  <2> HIDE DEF row
  <2>3. IndexRows' = IndexRows \cup {IndexRow(row)}
    BY <2>1 DEF IndexRows
  <2>4. row \notin blocks /\ \A r \in blocks : r.id # row.id /\ r.id \in Nat
    BY <1>2, <2>1, <2>2 DEF Numbered
  <2>5. Cardinality(blocks') = Cardinality(blocks) + 1
    BY <1>2, <2>1, <2>4, FS_AddElement
  <2>6. Numbered'
    <3>1. \A r \in blocks' : r.id \in 1..Cardinality(blocks')
      BY <1>2, <2>1, <2>2, <2>5 DEF Numbered
    <3>2. \A r, q \in blocks' : r.id = q.id => r = q
      BY <2>1, <2>4 DEF Numbered
    <3>3. QED
      BY <3>1, <3>2 DEF Numbered
  <2>7. QED
    BY <1>2, <2>1, <2>2, <2>3, <2>6, AsManyRows
<1>4. CASE hit[p] # Absent
  <2> DEFINE mark(r) == IF r.id = id THEN [r EXCEPT !.isKeyBlock = KeyFlag(p)] ELSE r
             f == [r \in blocks |-> mark(r)]
  <2>1. blocks' = {mark(r) : r \in blocks}
    BY <1>1, <1>4 DEF Saved
  <2>2. ASSUME NEW r \in blocks PROVE mark(r).id = r.id /\ IndexRow(mark(r)) = IndexRow(r)
    <3>1. r \in [id : Nat \ {0}, key : BlockKeys, parent : Nat, isKeyBlock : BOOLEAN]
      BY DEF TypeOK
    <3>2. mark(r).id = r.id /\ mark(r).key = r.key /\ mark(r).parent = r.parent
      BY <3>1
    <3>3. QED
      BY <3>2 DEF IndexRow
  <2> HIDE DEF mark
  <2>3. IndexRows' = IndexRows
    BY <2>1, <2>2 DEF IndexRows
  <2>4. f \in Bijection(blocks, blocks')
    <3>1. f \in [blocks -> blocks'] /\ \A t \in blocks' : \E r \in blocks : f[r] = t
      BY <2>1
    <3>2. \A r, q \in blocks : f[r] = f[q] => r = q
      BY <2>2 DEF Numbered
    <3>3. QED
      BY <3>1, <3>2 DEF Bijection, Injection, Surjection, IsInjective
  <2> HIDE DEF f
  <2>5. Cardinality(blocks') = Cardinality(blocks)
    <3>1. ExistsBijection(blocks, blocks')
      BY <2>4 DEF ExistsBijection
    <3>2. QED
      BY <1>2, <3>1, FS_Bijection
  <2>6. Numbered'
    <3>1. \A r \in blocks' : r.id \in 1..Cardinality(blocks')
      BY <2>1, <2>2, <2>5 DEF Numbered
    <3>2. \A r, q \in blocks' : r.id = q.id => r = q
      BY <2>1, <2>2 DEF Numbered
    <3>3. QED
      BY <3>1, <3>2 DEF Numbered
  <2>7. QED
    BY <2>3, <2>6
<1>5. QED
  BY <1>3, <1>4

(* The instance of BlockIndex counts and lists as the indexer does.           *)
LEMMA SameLibrary ==
  /\ \A S : Index!Cardinality(S) = Cardinality(S)
  /\ \A l : Index!ToSet(l) = ToSet(l)
<1>1. \A S : Index!Cardinality(S) = Cardinality(S)
  BY DEF Index!Cardinality, Cardinality
<1>2. \A l : Index!ToSet(l) = ToSet(l)
  BY DEF Index!ToSet, ToSet
<1>3. QED
  BY <1>1, <1>2

(* What createTonBlock adds: a masterchain row, or a shard row under a row of *)
(* the masterchain block that lists it.                                       *)
LEMMA StoreBlockAdds ==
  ASSUME IndexInv, TablesRight, PromiseInv, NEW p \in Savers, StoreBlock(p)
  PROVE  Index!IndexNext \/ UNCHANGED Index!indexVars
<1>1. /\ TypeOK /\ Numbered /\ at[p] # Idle /\ Placed(p) /\ RowsRight(p) /\ at[p].mc <= height
      /\ UNCHANGED <<height, txs, base, done>>
  BY DEF IndexInv, SaverRight, PromiseInv, OnChain, StoreBlock, AtBlock, loop
<1>2. CASE IndexRows' = IndexRows
  BY <1>1, <1>2 DEF Index!indexVars
<1>3. CASE at[p].shard = 0 /\ IndexRows' # IndexRows
  <2>1. Index!Insert(at[p].mc, 0)
    <3>1. IndexRows' = IndexRows \cup
            {[id |-> Cardinality(IndexRows) + 1, key |-> at[p].mc, parent |-> 0]}
      BY <1>1, <1>3, TableSaved DEF Block
    <3>2. QED
      BY <1>1, <3>1, SameLibrary DEF Index!Insert
  <2>2. Index!AddMaster(at[p].mc)
    BY <1>1, <2>1 DEF Index!AddMaster
  <2>3. QED
    BY <1>1, <2>2 DEF Index!IndexNext, Placed
<1>4. CASE at[p].shard # 0 /\ IndexRows' # IndexRows
  <2>1. PICK m \in blocks : m.id = mcRow[p] /\ m.key = at[p].mc
    BY <1>1, <1>4 DEF RowsRight, BlockById
  <2>2. /\ IndexRow(m) \in IndexRows
        /\ IndexRow(m).id = mcRow[p] /\ IndexRow(m).key = at[p].mc
    BY <2>1 DEF IndexRow, IndexRows
  <2>3. Index!Insert(Block(p), mcRow[p])
    <3>1. IndexRows' = IndexRows \cup
            {[id |-> Cardinality(IndexRows) + 1, key |-> Block(p), parent |-> mcRow[p]]}
      BY <1>1, <1>4, TableSaved
    <3>2. QED
      BY <1>1, <3>1, SameLibrary DEF Index!Insert
  <2>4. Block(p) \in Index!Kept(at[p].mc)
    <3>1. at[p].mc \in Seqnos /\ at[p].shard \in SavedShards(at[p].mc)
      BY <1>1, <1>4 DEF Placed
    <3>2. Block(p) \in ToSet(Shards[at[p].mc]) /\ ShardSeqno[Block(p)] # at[p].mc
      BY <1>4, <3>1, ListsTyped DEF Block, SavedShards
    <3>3. QED
      BY <3>2, SameLibrary DEF Index!Kept
  <2>5. Index!AddShard(IndexRow(m))
    BY <2>2, <2>3, <2>4 DEF Index!AddShard
  <2>6. QED
    BY <1>1, <2>2, <2>5 DEF Index!IndexNext, Placed
<1>5. QED
  BY <1>2, <1>3, <1>4

(* What createTonTransaction adds: a row under a row of the block it is in.   *)
LEMMA StoreTxAdds ==
  ASSUME IndexInv, NEW p \in Savers, StoreTx(p)
  PROVE  Index!IndexNext \/ UNCHANGED Index!indexVars
<1>1. /\ at[p] # Idle /\ at[p].tx # 0 /\ Placed(p) /\ RowsRight(p)
      /\ UNCHANGED <<height, blocks, base, done>> /\ IndexRows' = IndexRows
  BY DEF IndexInv, SaverRight, StoreTx, AtTx, loop, IndexRows
<1>2. CASE hit[p] # Absent
  <2>1. txs' = txs
    BY <1>2 DEF StoreTx
  <2>2. QED
    BY <1>1, <2>1 DEF Index!indexVars
<1>3. CASE hit[p] = Absent
  <2>1. PICK b \in blocks : b.id = curRow[p] /\ b.key = Block(p)
    BY <1>1 DEF RowsRight, BlockById
  <2>2. /\ IndexRow(b) \in IndexRows
        /\ IndexRow(b).id = curRow[p] /\ IndexRow(b).key = Block(p)
    BY <2>1 DEF IndexRow, IndexRows
  <2>3. Tx(p) \in ToSet(Txs[Block(p)])
    BY <1>1, BlockPlaced
  <2>4. txs' = txs \cup {[id |-> Cardinality(txs) + 1, tx |-> Tx(p), parent |-> curRow[p]]}
    BY <1>3 DEF StoreTx
  <2>5. Index!AddTx(IndexRow(b))
    BY <1>1, <2>2, <2>3, <2>4, SameLibrary DEF Index!AddTx
  <2>6. QED
    BY <2>2, <2>5 DEF Index!IndexNext
<1>4. QED
  BY <1>2, <1>3

(* The cursor passes a block that is wholly stored: where it is the first to  *)
(* do so, the stretch the index vouches for grows.                            *)
LEMMA AdvanceExtends ==
  ASSUME IndexInv, CursorInv, Advance
  PROVE  Index!IndexNext \/ UNCHANGED Index!indexVars
<1>1. /\ Indexed(cursor) /\ cursor < actual /\ actual <= height /\ cursor <= done
      /\ cursor \in Nat /\ actual \in Nat /\ height \in Nat /\ done \in Nat
  BY ListsTyped DEF IndexInv, LoopRight, CursorInv, CursorBehind, Advance
<1>2. /\ UNCHANGED <<height, txs, base>> /\ IndexRows' = IndexRows
      /\ done' = IF cursor >= done THEN cursor + 1 ELSE done
  BY DEF Advance, tables, IndexRows
<1>3. CASE cursor < done
  BY <1>1, <1>2, <1>3 DEF Index!indexVars
<1>4. CASE cursor = done
  <2>1. \A b : HasBlock(b) => Index!Stored(b)
    <3>1. \A r \in blocks : IndexRow(r) \in IndexRows /\ IndexRow(r).key = r.key
      BY DEF IndexRows, IndexRow
    <3>2. QED
      BY <3>1, SameLibrary DEF HasBlock, HasTxs, Index!Stored
  <2>2. Index!Whole(done)
    BY <1>1, <1>4, <2>1, SameLibrary DEF Indexed, Index!Whole, Index!Kept
  <2>3. done < height /\ done' = done + 1
    BY <1>1, <1>2, <1>4
  <2>4. QED
    BY <1>2, <2>2, <2>3 DEF Index!Extend, Index!IndexNext
<1>5. QED
  BY <1>1, <1>3, <1>4

(* After a start the scan is where the index vouches for its blocks, or       *)
(* begins anew at a key block of the chain.                                   *)
LEMMA ScanStarts ==
  ASSUME CursorInv, getInitialKeyblock
  PROVE  Index!IndexNext \/ UNCHANGED Index!indexVars
<1>1. PICK h \in LastBlocks :
        IF LastKeyBlock(h) \in base..done THEN UNCHANGED <<base, done>>
        ELSE base' = LastKeyBlock(h) /\ done' = LastKeyBlock(h)
  BY DEF getInitialKeyblock
<1>2. LastKeyBlock(h) \in KeySeqnos /\ LastKeyBlock(h) <= height
  <2>1. h \in Seqnos /\ h <= height /\ h \in Nat /\ height \in Nat
    BY ListsTyped DEF LastBlocks, CursorInv
  <2>2. LastKeyBlock(h) \in KeySeqnos /\ LastKeyBlock(h) <= h
    BY <2>1, LastKeyBlockBelow
  <2>3. LastKeyBlock(h) \in Nat
    BY <2>2, ListsTyped, GenesisIsKey
  <2>4. QED
    BY <2>1, <2>2, <2>3
<1>3. UNCHANGED <<height, txs>> /\ IndexRows' = IndexRows
  BY DEF getInitialKeyblock, tables, IndexRows
<1>4. CASE LastKeyBlock(h) \in base..done
  BY <1>1, <1>3, <1>4 DEF Index!indexVars
<1>5. CASE LastKeyBlock(h) \notin base..done
  BY <1>1, <1>2, <1>3, <1>5 DEF Index!ScanFrom, Index!IndexNext
<1>6. QED
  BY <1>4, <1>5

(* Every step of the savers, the loop and the chain is one of the index, or   *)
(* none that it can see.                                                      *)
LEMMA StepPromised ==
  ASSUME IndexInv, TablesRight, CursorInv, PromiseInv, [Next]_vars
  PROVE  Index!IndexNext \/ UNCHANGED Index!indexVars
<1>1. ASSUME UNCHANGED <<height, tables, base, done>> PROVE UNCHANGED Index!indexVars
  BY <1>1 DEF tables, IndexRows, Index!indexVars
<1>2. ASSUME NEW p \in Savers, Look(p) PROVE UNCHANGED Index!indexVars
  BY <1>1, <1>2 DEF Look, loop
<1>3. ASSUME NEW p \in Finders, NEW n \in Seqnos, findTransactionByHash(p, n)
      PROVE  UNCHANGED Index!indexVars
  BY <1>1, <1>3 DEF findTransactionByHash, loop
<1>4. CASE TickStart \/ Fetch \/ TickEnd \/ NoMcBlock \/ Crash
  BY <1>1, <1>4 DEF TickStart, Fetch, TickEnd, NoMcBlock, Crash
<1>5. CASE UNCHANGED vars
  BY <1>1, <1>5 DEF vars, tables
<1>6. CASE Grow
  <2>1. height' = height + 1 /\ height < MaxSeqno /\ UNCHANGED <<blocks, txs, base, done>>
    BY <1>6 DEF Grow, tables, loop
  <2>2. height + 1 \in Seqnos
    BY <2>1, BoundsNat DEF CursorInv, Seqnos
  <2>3. QED
    BY <2>1, <2>2 DEF Index!NewBlock, Index!IndexNext, IndexRows
<1>7. QED
  BY <1>2, <1>3, <1>4, <1>5, <1>6, StoreBlockAdds, StoreTxAdds, AdvanceExtends, ScanStarts
    DEF Next, Save, TickStep

(* Rows are numbered and savers are at blocks the chain has, after each step. *)
LEMMA PromiseStep ==
  ASSUME IndexInv, TablesRight, CursorInv, AnswersFresh, PromiseInv, [Next]_vars
  PROVE  PromiseInv'
<1>0. /\ TypeOK /\ Numbered /\ OnChain /\ height \in Nat
      /\ \A p \in Savers : at[p] # Idle => at[p].mc \in Nat
  BY ListsTyped DEF IndexInv, PromiseInv, CursorInv, SaverRight, Placed
<1>1. ASSUME UNCHANGED blocks PROVE Numbered'
  BY <1>0, <1>1 DEF Numbered
<1>2. ASSUME UNCHANGED <<height, at>> PROVE OnChain'
  BY <1>0, <1>2 DEF OnChain
<1>3. ASSUME NEW p \in Savers, NEW n \in Seqnos, n <= height,
             at' = [at EXCEPT ![p] = Begin(n)], UNCHANGED height
      PROVE  OnChain'
  <2>1. \A q \in Savers : at'[q] = at[q] \/ at'[q] = Begin(n)
    BY <1>3 DEF AnswersFresh
  <2>2. Begin(n).mc = n
    BY DEF Begin
  <2>3. QED
    BY <1>0, <1>3, <2>1, <2>2 DEF OnChain
<1>4. ASSUME NEW p \in Savers, StoreBlock(p) \/ StoreTx(p) PROVE OnChain'
  <2>1. GoOn(p) /\ UNCHANGED height /\ at[p] # Idle
    BY <1>4 DEF StoreBlock, StoreTx, AtBlock, AtTx
  <2>2. at[p] \in [mc : Seqnos, shard : Nat, tx : Nat]
    BY <1>0, <2>1 DEF TypeOK
  <2>3. at'[p] = Idle \/ at'[p].mc = at[p].mc
    BY <2>1, <2>2, GoOnPlace DEF AnswersFresh
  <2>4. \A q \in Savers : q # p => at'[q] = at[q]
    BY <2>1, GoOnPlace DEF AnswersFresh
  <2>5. QED
    BY <1>0, <2>1, <2>3, <2>4 DEF OnChain
<1>5. ASSUME NEW p \in Savers, Save(p) PROVE PromiseInv'
  <2>1. CASE Look(p)
    BY <1>1, <1>2, <2>1 DEF Look, tables, PromiseInv
  <2>2. CASE StoreBlock(p)
    BY <1>0, <1>4, <2>2, TableSaved DEF PromiseInv
  <2>3. CASE StoreTx(p)
    BY <1>1, <1>4, <2>3 DEF StoreTx, PromiseInv
  <2>4. QED
    BY <1>5, <2>1, <2>2, <2>3 DEF Save
<1>6. ASSUME NEW p \in Finders, NEW n \in Seqnos, findTransactionByHash(p, n) PROVE PromiseInv'
  <2>1. /\ p \in Savers /\ n <= height /\ at' = [at EXCEPT ![p] = Begin(n)]
        /\ UNCHANGED <<height, blocks>>
    BY <1>6 DEF findTransactionByHash, Savers, tables
  <2>2. QED
    BY <1>1, <1>3, <2>1 DEF PromiseInv
<1>7. CASE Fetch
  <2>1. /\ cursor < actual /\ at' = [at EXCEPT ![Tick] = Begin(cursor)]
        /\ UNCHANGED <<height, blocks>>
    BY <1>7 DEF Fetch, tables
  <2>2. cursor \in Seqnos /\ cursor <= height /\ Tick \in Savers
    BY <2>1, ListsTyped DEF CursorInv, CursorBehind, Savers
  <2>3. QED
    BY <1>1, <1>3, <2>1, <2>2 DEF PromiseInv
<1>8. CASE getInitialKeyblock \/ TickStart \/ Advance \/ TickEnd \/ NoMcBlock \/ UNCHANGED vars
  <2>1. UNCHANGED <<height, blocks, at>>
    BY <1>8
      DEF getInitialKeyblock, TickStart, Advance, TickEnd, NoMcBlock, vars, tables, saver
  <2>2. QED
    BY <1>1, <1>2, <2>1 DEF PromiseInv
<1>9. CASE Grow
  <2>1. height' = height + 1 /\ UNCHANGED <<blocks, at>>
    BY <1>9 DEF Grow, tables, saver
  <2>2. OnChain'
    BY <1>0, <2>1 DEF OnChain
  <2>3. QED
    BY <1>1, <2>1, <2>2 DEF PromiseInv
<1>10. CASE Crash
  <2>1. at' = [p \in Savers |-> Idle] /\ UNCHANGED blocks
    BY <1>10 DEF Crash, tables
  <2>2. QED
    BY <1>1, <2>1 DEF OnChain, PromiseInv
<1>11. QED
  BY <1>5, <1>6, <1>7, <1>8, <1>9, <1>10 DEF Next, TickStep

(* The tick loop and the requests, for any chain, any number of them and any  *)
(* restarts, implement the abstract index: what they do to the tables between *)
(* their awaits adds rows where the chain has them and vouches for whole      *)
(* blocks only.                                                               *)
THEOREM IndexImplemented == Spec => IndexPromised
<1>1. Init => Index!IndexInit /\ PromiseInv
  BY DEF Init, Index!IndexInit, IndexRows, PromiseInv, Numbered, OnChain
<1>2. IndexInv /\ CopiesInv /\ CursorInv /\ PromiseInv /\ [Next]_vars => PromiseInv'
  BY PromiseStep DEF CopiesInv
<1>3. IndexInv /\ CopiesInv /\ CursorInv /\ PromiseInv /\ [Next]_vars
        => [Index!IndexNext]_(Index!indexVars)
  BY StepPromised DEF CopiesInv
<1>4. QED
  BY <1>1, <1>2, <1>3, IndexInvariant, CopiesInvariant, CursorInvariant, PTL
    DEF Spec, IndexPromised, Index!IndexSpec

(* No handler ever takes a row out, or changes its id, its key or what it     *)
(* hangs under: readers may keep ids.                                         *)
THEOREM RowsAreKept == Spec => [][Grown]_vars
<1>1. IndexInv /\ [Next]_vars => [Grown]_vars
  BY RowsStay DEF IndexInv
<1>2. QED
  BY <1>1, IndexInvariant, PTL DEF Spec
=============================================================================
