----------------------------- MODULE BlockProofs -----------------------------
(* block-utils.ts: proofs as trees of cells, a path kept and the rest pruned, *)
(* and the cut of a proof into parts that are sent one by one; before it the  *)
(* blocks they are made of, as nodes write them, and the way back from cells  *)
(* to a dictionary.                                                           *)
EXTENDS CellTree

(* ----------------------------- dictionaries --------------------------------- *)
(* An edge is its label's length, the label and, where the key ends, a value; *)
(* in a cell of its own it comes after the cell's first byte.  Keys have n    *)
(* digits, and those of K agree on the first `from' of them.                  *)
EdgeByte == 160
Digits(k, n, from, to) == [i \in 1..(to - from) |-> (k \div 2^(n - from - i)) % 2]
RECURSIVE Edge(_, _, _, _)
Edge(K, n, from, leaf) ==
  LET lo == CHOOSE k \in K : \A j \in K : k <= j
      hi == MaxOf(K)
      to == MaxOf({d \in from..n : lo \div 2^(n - d) = hi \div 2^(n - d)})
      label == <<to - from>> \o Digits(lo, n, from, to)
      Child(digit) == LET below == Edge({k \in K : (k \div 2^(n - to - 1)) % 2 = digit}, n, to + 1, leaf)
                      IN  Cell(Bits(<<EdgeByte>> \o below.v), below.refs, FALSE)
  IN  IF to = n THEN [v |-> label \o leaf[lo].v, refs |-> leaf[lo].refs]
      ELSE [v |-> label, refs |-> <<Child(0), Child(1)>>]

(* What Hashmap.loadHashmap finds under an edge: [key, v, refs] of every leaf *)
(* that is not in a pruned branch, the key by its digits.                     *)
RECURSIVE loadHashmap(_, _, _, _)
loadHashmap(v, refs, n, key) ==
  LET len == v[1]
      full == key \o SubSeq(v, 2, len + 1)
      edges == {i \in 1..2 : refs[i].type = OrdinaryCell}
  IN  IF len = n THEN {[key |-> full, v |-> SubSeq(v, len + 2, Len(v)), refs |-> refs]}
      ELSE UNION {loadHashmap(Tail(refs[i].bits.v), refs[i].refs, n - len - 1, Append(full, i - 1)) :
                    i \in edges}
loadHashmapCell(c, n) ==
  IF c.type # OrdinaryCell THEN {} ELSE loadHashmap(Tail(c.bits.v), c.refs, n, << >>)

(* ----------------------------- copies and proofs ---------------------------- *)
cloneCell(c, proof) ==
  [Cell(c.bits, << >>, c.exotic) EXCEPT !.mask = c.mask, !.proof = proof]

createPrunnedBranchCell(hash, depth) ==
  finalize(Cell([v |-> <<PrunnedBranchCell>>, mask |-> {1}, hashes |-> <<hash>>, depths |-> <<depth>>],
                << >>, TRUE))

RECURSIVE buildProofExcept(_, _)
buildProofExcept(root, except) ==
  [cloneCell(root, TRUE) EXCEPT !.refs =
     Each([i \in DOMAIN root.refs |->
        LET c == root.refs[i]
        IN  IF getHash(c) \in except THEN createPrunnedBranchCell(getHash(c), c.depth[1])
            ELSE buildProofExcept(c, except)])]

RECURSIVE cloneTree(_)
cloneTree(c) ==
  [cloneCell(c, TRUE) EXCEPT !.refs = Each([i \in DOMAIN c.refs |-> cloneTree(c.refs[i])])]

(* The cells from c to the first one with the hash; none if there is none.    *)
RECURSIVE buildPath(_, _)
buildPath(hash, c) ==
  IF getHash(c) = hash THEN <<c>>
  ELSE LET below == Each([i \in DOMAIN c.refs |-> buildPath(hash, c.refs[i])])
           found == {i \in DOMAIN below : below[i] # << >>}
       IN  IF found = {} THEN << >>
           ELSE <<c>> \o below[CHOOSE i \in found : \A j \in found : i <= j]

(* A cell off the path is pruned, unless its first byte is that of a pruned   *)
(* branch; under the last one all cells are copied if so asked.               *)
RECURSIVE buildProof(_, _, _)
buildProof(path, cloneTail, proof) ==
  [cloneCell(path[1], proof) EXCEPT !.refs =
     Each([i \in DOMAIN path[1].refs |->
        LET c == path[1].refs[i]
        IN  IF Len(path) > 1 /\ getHash(c) = getHash(path[2])
            THEN buildProof(Tail(path), cloneTail, proof)
            ELSE IF cloneTail /\ Len(path) = 1 THEN cloneTree(c)
            ELSE IF c.bits.v[1] = PrunnedBranchCell THEN c
            ELSE createPrunnedBranchCell(getHash(c), c.depth[1])])]

(* ----------------------------------- parts ---------------------------------- *)
(* A subtree of more than `keep' cells is a part of its own when its parent   *)
(* has more than `from' below it.  Parts come from the bottom up.             *)
SumSeq(s) == FoldLeft(LAMBDA a, b : a + b, 0, s)
RECURSIVE printTreeVolume(_, _, _), Volumes(_, _, _)
Volumes(refs, from, keep) ==
  IF refs = << >> THEN [each |-> << >>, sum |-> 0, parts |-> << >>]
  ELSE LET first == printTreeVolume(refs[1], from, keep)
           others == Volumes(Tail(refs), from, keep)
       IN  [each |-> <<first.volume>> \o others.each, sum |-> first.volume + others.sum,
            parts |-> first.parts \o others.parts]
printTreeVolume(root, from, keep) ==
  LET below == Volumes(root.refs, from, keep)
      cut == IF below.sum > from THEN {i \in DOMAIN root.refs : below.each[i] > keep} ELSE {}
      kept == SelectSeq(below.each, LAMBDA v : below.sum <= from \/ v <= keep)
  IN  [volume |-> 1 + SumSeq(kept),
       parts |-> below.parts \o [k \in 1..Cardinality(cut) |-> root.refs[Ascending(cut)[k]]]]

makeBocLeaf(root, except) == toBoc(finalizeTree(buildProofExcept(root, except)))

(* ----------------------------------- blocks --------------------------------- *)
(* The cells above the configuration and its parameter 34, if the block is a  *)
(* key block of the masterchain.                                              *)
McBlockExtra == <<204, 165>>
ConfigBits == 8
CurValidators == Digits(34, ConfigBits, 0, ConfigBits)
LastRef(c) == c.refs[Len(c.refs)]
PathToParam(config, params) ==
  IF params = {} THEN << >> ELSE buildPath(getHash((CHOOSE e \in params : TRUE).refs[1]), config)
PathToCurrent(config) ==
  PathToParam(config, {e \in loadHashmapCell(config, ConfigBits) : e.key = CurValidators})
Above(cells, path) == IF path = << >> THEN << >> ELSE cells \o path
buildPathToConfig(c) ==
  LET extra == c.refs[4]
      custom == LastRef(extra)
  IN  IF SubSeq(custom.bits.v, 1, 2) # McBlockExtra \/ custom.bits.v[3] = 0 THEN << >>
      ELSE Above(<<c, extra, custom>>, PathToCurrent(LastRef(custom)))
===============================================================================
