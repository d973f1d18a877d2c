------------------------------ MODULE MerkleProof ------------------------------
(* verifyMerkleProof (evm-data/verify-merkle-proof.ts): the nodes of a proof  *)
(* are gone through one by one, each told by the hash that the one before has *)
(* for it, and a path is used up nibble by nibble.                            *)
EXTENDS Integers, Sequences, Buffers

Bytes(b) == [t |-> "bytes", b |-> b]      \* an item of an rlp list: bytes,
Hash(node) == [t |-> "hash", of |-> node] \* the hash of a node, told by it,
Embedded(node) == [t |-> "node", node |-> node]   \* or a short node itself
Null == [t |-> "null"]
Throw == [ok |-> FALSE]
Gives(x) == [ok |-> TRUE, value |-> x]

(* --------------------------------- nodes --------------------------------------- *)
\* Where they first differ, counted from 1: a nibble more than match.
matchingNibbleLength(a, b) ==
  LET differ == {i \in DOMAIN a : i > Len(b) \/ a[i] # b[i]}
  IN  IF differ = {} THEN Len(a) ELSE CHOOSE i \in differ : \A j \in differ : i <= j
stringToNibbles(b) == [i \in 1..(2 * Len(b)) |-> IF i % 2 = 1 THEN b[(i + 1) \div 2] \div 16 ELSE b[i \div 2] % 16]
Node(data) ==
  CASE Len(data) = 17 -> [type |-> "branch", raw |-> data, key |-> << >>, value |-> data[17]]
    [] Len(data) = 2 -> LET flag == data[1].b[1] \div 16
                        IN  [type |-> IF flag > 1 THEN "leaf" ELSE "extension", raw |-> data, value |-> data[2],
                             key |-> Drop(stringToNibbles(data[1].b), IF flag % 2 = 1 THEN 1 ELSE 2)]
    [] OTHER -> [type |-> "empty", raw |-> << >>, key |-> << >>, value |-> Bytes(<< >>)]

(* ------------------------------- the loop ------------------------------------- *)
InBranch(node, key, last) ==        \* the child of a branch that is embedded
  LET here == Node(node)
  IN  IF last /\ matchingNibbleLength(here.key, key) = Len(here.key) /\ Len(key) <= Len(here.key)
      THEN Gives(here.value) ELSE Throw
\* Faulty: a receipt is taken for any other.
FoundAny(node, expected, last) == IF ~last \/ expected = Null THEN Throw ELSE Gives(node.value)
Found(node, expected, last) == \* a leaf or extension at which the path ends
  IF ~last \/ expected = Null \/ expected # node.value THEN Throw ELSE Gives(node.value)

\* The loop goes on to a node with what is left of the path, or it ends.
Goes(wanted, key) == [going |-> TRUE, wanted |-> wanted, key |-> key, result |-> Throw]
Ends(result) == [going |-> FALSE, wanted |-> Null, key |-> << >>, result |-> result]
CheckNode(st, data, first, last, expected) ==       \* one turn
  LET node == Node(data)
      child == node.raw[st.key[1] + 1]
      more == Drop(st.key, Len(node.key))
  IN  IF Hash(data) # st.wanted THEN Ends(Throw)
      ELSE CASE node.type = "empty" -> Ends(IF first /\ expected = Null THEN Gives(Null) ELSE Throw)
             [] node.type = "branch" ->
                  IF st.key = << >> THEN Ends(IF last THEN Gives(node.value) ELSE Throw)
                  ELSE IF child.t = "node" /\ Len(child.node) = 2 THEN Ends(InBranch(child.node, Tail(st.key), last))
                  ELSE Goes(child, Tail(st.key))
             [] node.type \in {"leaf", "extension"} ->
                  IF matchingNibbleLength(node.key, st.key) # Len(node.key)
                  THEN Ends(IF Len(st.key) = Len(node.key) /\ last /\ expected = Null THEN Gives(node.value) ELSE Throw)
                  ELSE IF more = << >> THEN Ends(Found(node, expected, last))
                  ELSE Goes(node.value, more)
Checked(rootHash, bkey, proof, expected) ==         \* after all turns
  LET after[i \in 0..Len(proof)] ==
        IF i = 0 THEN Goes(rootHash, stringToNibbles(bkey))
        ELSE IF ~after[i - 1].going THEN after[i - 1]
        ELSE CheckNode(after[i - 1], proof[i], i = 1, i = Len(proof), expected)
  IN  after[Len(proof)]
verifyMerkleProof(rootHash, bkey, proof, expected) ==
  LET st == Checked(rootHash, bkey, proof, expected)
  IN  IF ~st.going THEN st.result
      ELSE IF /\ expected = Null
              /\ proof = << >> \/ Node(proof[Len(proof)]).type = "extension" \/ st.wanted = Bytes(<< >>)
           THEN Gives(Null) ELSE Throw

(* ------------------------- which paths it tells apart ------------------------- *)
\* Any sequence of nodes, of branches and of pairs whose first item is bytes, in which
\* a branch has its children by their hashes (a receipt is too long to be embedded),
\* and the next node under one nibble only: no two receipts are the same.
IsProof(proof) ==
  /\ proof \in Seq({proof[i] : i \in DOMAIN proof})
  /\ \A i \in 1..Len(proof) : Len(proof[i]) = 2 => proof[i][1].b \in Seq(0..255)
IsBranch(data) == Len(data) = 17
IsPair(data) == Len(data) = 2
Hashed(proof) == \A i \in 1..Len(proof), a \in 1..16 : IsBranch(proof[i]) => proof[i][a].t # "node"
ToldApart(proof) ==
  \A i \in 1..(Len(proof) - 1), a \in 1..16, b \in 1..16 :
    IsBranch(proof[i]) /\ proof[i][a] = Hash(proof[i + 1]) /\ proof[i][b] = Hash(proof[i + 1]) => a = b
\* Only these nibbles, if any, tell two paths apart.
AlikeBut(p, q, nibbles) == Len(p) = Len(q) /\ \A k \in DOMAIN p \ nibbles : p[k] = q[k]
\* How much of a path the first i nodes of its proof pass, and where their keys end.
Passed(proof) ==
  LET passed[i \in 0..Len(proof)] ==
        IF i = 0 THEN 0
        ELSE passed[i - 1] + (IF Node(proof[i]).type = "branch" THEN 1 ELSE Len(Node(proof[i]).key))
  IN  passed
KeyEnds(proof) ==
  LET passed == Passed(proof)
  IN  {passed[i] : i \in {i \in DOMAIN proof : Node(proof[i]).key # << >>}}
==============================================================================
