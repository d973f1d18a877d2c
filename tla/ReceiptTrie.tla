------------------------------ MODULE ReceiptTrie ------------------------------
(* What is around ReceiptProof: the trie of the receipts of a block and the   *)
(* proofs that a node gives, and the contract that reads the message.         *)
EXTENDS ReceiptProof, FiniteSets

(* ---- the trie of some receipts, [path, value] ------------------------------------ *)
Pairs(nibbles) == [i \in 1..(Len(nibbles) \div 2) |-> 16 * nibbles[2 * i - 1] + nibbles[2 * i]]
HexPrefix(nibbles, leaf) ==
  LET flag == (IF leaf THEN 2 ELSE 0) + (Len(nibbles) % 2)
  IN  Pairs(IF Len(nibbles) % 2 = 1 THEN <<flag>> \o nibbles ELSE <<flag, 0>> \o nibbles)
ShortNode == 4              \* a leaf with less is embedded, 32
RefTo(node) ==
  IF Len(node) = 2 /\ node[2].t = "bytes" /\ Len(node[2].b) < ShortNode THEN Embedded(node) ELSE Hash(node)
Common(S) ==                \* nibbles that all paths begin with
  LET p == (CHOOSE e \in S : TRUE).path
      all == {k \in 0..Len(p) : \A e \in S : Len(e.path) >= k /\ SubSeq(e.path, 1, k) = SubSeq(p, 1, k)}
  IN  CHOOSE k \in all : \A j \in all : j <= k
After(S, k) == {[path |-> Drop(e.path, k), value |-> e.value] : e \in S}
RECURSIVE Trie(_)
Trie(S) ==
  IF Cardinality(S) = 1
  THEN LET e == CHOOSE e \in S : TRUE IN <<Bytes(HexPrefix(e.path, TRUE)), Bytes(e.value)>>
  ELSE IF Common(S) > 0
  THEN <<Bytes(HexPrefix(SubSeq((CHOOSE e \in S : TRUE).path, 1, Common(S)), FALSE)), RefTo(Trie(After(S, Common(S))))>>
  ELSE << >> \o [i \in 1..17 |->
         LET below == {e \in S : e.path # << >> /\ Head(e.path) = i - 1}
         IN  IF i = 17 \/ below = {} THEN Bytes(<< >>) ELSE RefTo(Trie(After(below, 1)))]

(* ---- the proof of a path: its nodes, as far as there are any ---------------------- *)
RECURSIVE NodesTo(_, _)
NodesTo(node, key) ==
  LET here == Node(node)
      goes == Len(here.key) <= Len(key) /\ here.key = SubSeq(key, 1, Len(here.key))
      rest == Drop(key, Len(here.key))
      on == CASE here.type = "branch" -> here.raw[key[1] + 1]
              [] here.type = "extension" /\ goes -> here.value
              [] OTHER -> Bytes(<< >>)
  IN  <<node>> \o IF on.t = "hash" THEN NodesTo(on.of, IF here.type = "branch" THEN Tail(key) ELSE rest) ELSE << >>

(* ---- the contract reads the cells again ------------------------------------------- *)
RECURSIVE ItemsFrom(_), NodesFrom(_), BytesFrom(_), TopicsFrom(_)
ItemsFrom(cell) == <<cell.data>> \o IF cell.refs = << >> THEN << >> ELSE ItemsFrom(cell.refs[1])
ReadNode(cell) ==
  LET items == Tail(ItemsFrom(cell))
  IN  CASE cell.data.op = "node_branch" -> items
        [] cell.data.op = "node_leaf" /\ items[2].t = "bytes" ->
             <<items[1], Bytes(Joined([i \in 1..(Len(items) - 1) |-> items[i + 1].b]))>>
        [] OTHER -> items
NodesFrom(cell) == <<ReadNode(cell)>> \o IF Len(cell.refs) = 2 THEN NodesFrom(cell.refs[2]) ELSE << >>
BytesFrom(cell) == cell.data \o IF cell.refs = << >> THEN << >> ELSE BytesFrom(cell.refs[1])
TopicsFrom(cell) ==
  IF cell.data = << >> THEN << >>
  ELSE <<cell.data>> \o IF cell.refs = << >> THEN << >> ELSE TopicsFrom(cell.refs[1])
RECURSIVE LogsFrom(_)
LogsFrom(cell) ==
  <<[address |-> cell.data, topics |-> TopicsFrom(cell.refs[1]), data |-> BytesFrom(cell.refs[2])]>>
    \o IF Len(cell.refs) = 3 THEN LogsFrom(cell.refs[3]) ELSE << >>

(* ---- receipts, blocks and what is right about them ---------------------------------- *)
Hex(digits) == [form |-> "hex", digits |-> digits]
Absent == [form |-> "null"]
Log(k) == [address |-> Hex(<<0, 1, 2, k>>), topics |-> [i \in 1..(k % 3) |-> Hex(<<10, i>>)],
           data |-> Hex([i \in 1..(2 * k) |-> i % 16])]
ReceiptOf(i) ==             \* of the transaction with this index; the gas used so far tells them apart
  [type |-> IF i % 2 = 0 THEN Absent ELSE Hex(<<2>>), status |-> IF i % 5 = 4 THEN Absent ELSE Hex(<<i % 2>>),
   root |-> Absent, cumulativeGasUsed |-> Hex(<<1, i \div 16, i % 16>>), logsBloom |-> Hex(<<i % 16, 7, 7>>),
   logs |-> [k \in 1..(i % 4) |-> Log(k + (i % 3))]]
Path(i) == stringToNibbles(RlpNumber(i))
Block(n) ==                 \* a block of n transactions
  LET entries == {[path |-> Path(i), value |-> serialize(ReceiptOf(i))] : i \in 0..(n - 1)}
  IN  Trie(entries)

\* What the log cells must hold.
LogRead(l) == [address |-> address(l.address), topics |-> [k \in DOMAIN l.topics |-> bytes32(l.topics[k])], data |-> bytes(l.data)]
CellHolds(cell, r) ==
  /\ cell.data = Start(r)
  /\ BytesFrom(cell.refs[1]) = bytes256(r.logsBloom)
  /\ IF r.logs = << >> THEN Len(cell.refs) = 1 ELSE LogsFrom(cell.refs[2]) = [k \in DOMAIN r.logs |-> LogRead(r.logs[k])]

\* The message can be read back: the nodes of the proof and all of the receipt.
Readable(proof, r) ==
  LET message == prepareReceipt(proof)
  IN  message.ok => NodesFrom(message.value) = proof /\ CellHolds(toCell(r), r)

\* verifyMerkleProof accepts the proof of transaction i with its value only, for its path
\* and for those that differ where a key ends, the nibble that it does not compare;
\* for any proof like these MerkleProofProofs proves it.
Numbers == 0..255           \* places whose path has at most two bytes
Proves(n, root, i) ==
  LET proof == NodesTo(root, Path(i))
      value == Bytes(serialize(ReceiptOf(i)))
      ends == KeyEnds(proof)
      accepts(j, expected) == verifyMerkleProof(Hash(root), RlpNumber(j), proof, expected).ok
  IN  /\ IsProof(proof) /\ Hashed(proof) /\ ToldApart(proof) /\ value # Null
      /\ \A j \in Numbers : accepts(j, value) <=> AlikeBut(Path(i), Path(j), ends)
      /\ \A j \in 0..(n - 1) : AlikeBut(Path(i), Path(j), ends) => AlikeBut(Path(i), Path(j), {Len(Path(j))})
      /\ \A j \in 0..(n - 1) : ~accepts(j, Null)
      /\ ~accepts(i, Bytes(serialize(ReceiptOf(i + 1))))

\* And from the nodes on the way to it that there is no transaction j, unless they
\* end at a leaf whose key is of another length than what is left of the path, or
\* tells itself from it by its last nibble only.
TellsEmpty(proof, nibbles) ==
  LET leaf == Node(Last(proof))
      rest == Drop(nibbles, Passed(proof)[Len(proof) - 1])
  IN  leaf.type = "leaf" => Len(rest) = Len(leaf.key) /\ ~AlikeBut(rest, leaf.key, {Len(rest)})
ProvesAbsent(root, j) ==
  LET proof == NodesTo(root, Path(j))
  IN  verifyMerkleProof(Hash(root), RlpNumber(j), proof, Null).ok <=> TellsEmpty(proof, Path(j))
=============================================================================
