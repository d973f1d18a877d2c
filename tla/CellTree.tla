------------------------------- MODULE CellTree -------------------------------
(* Cells and bags of cells, as Cell.js computes them.  A hash is what is      *)
(* hashed, so that two hashes are equal when the hashed cells are; the level  *)
(* mask is the set of the levels 1..3 of its bits.  The bits of a cell are    *)
(* numbers, the first of them its first byte, and the hashes and depths it    *)
(* stores.  What throws is marked by `broken' in the cells above it.          *)
(* A hash starts with a check sum, for no other reason than that comparing    *)
(* two of them seldom goes further.                                           *)
EXTENDS Integers, Sequences, FiniteSets, SequencesExt, TLC

PrunnedBranchCell == 1
LibraryCell == 2
MerkleProofCell == 3
MerkleUpdateCell == 4
OrdinaryCell == 255

MaxDepth == 1024
MaxRefIndex == 255          \* s_bytes = 1: an index is one byte

(* The sequence of the values of f, computed once. *)
Each(f) == << >> \o f

Bits(v) == [v |-> v, mask |-> {}, hashes |-> << >>, depths |-> << >>]

(* The constructor and the assignments a cell is made with. *)
Cell(bits, refs, exotic) ==
  [bits |-> bits, refs |-> refs, exotic |-> exotic, type |-> OrdinaryCell, proof |-> FALSE,
   mask |-> {}, hashes |-> << >>, depth |-> << >>, broken |-> FALSE]

MaxOf(S) == IF S = {} THEN 0 ELSE CHOOSE x \in S : \A y \in S : y <= x
Ascending(S) == [k \in 1..Cardinality(S) |-> CHOOSE x \in S : Cardinality({y \in S : y < x}) = k - 1]
getLevel(mask) == MaxOf(mask)
applyLevelMask(mask, level) == mask \cap 1..level
ShiftMask(mask) == {l - 1 : l \in mask} \ {0}

(* The hash and the depth of a finalized cell at a level: a pruned branch     *)
(* stores those below its own.                                                *)
AtLevel(c, level, stored, own) ==
  LET i == Cardinality(applyLevelMask(c.mask, level)) + 1
  IN  IF c.type # PrunnedBranchCell THEN own[i]
      ELSE IF i # Cardinality(c.mask) + 1 THEN stored[i] ELSE own[1]
getHashAt(c, level) == AtLevel(c, level, c.bits.hashes, c.hashes)
getDepthAt(c, level) == AtLevel(c, level, c.bits.depths, c.depth)
getHash(c) == getHashAt(c, 0)

RECURSIVE CheckSum(_, _)
CheckSum(s, sum) == IF s = << >> THEN sum ELSE CheckSum(Tail(s), (31 * sum + s[1] + 1) % 65521)
Sums(hashes) == [i \in DOMAIN hashes |-> hashes[i][1]]

RefMasks(c) == UNION {c.refs[i].mask : i \in DOMAIN c.refs}
IsMerkle(type) == type \in {MerkleProofCell, MerkleUpdateCell}

(* The mask finalize gives a cell, and the conditions under which it throws.  *)
MaskOf(c, type) ==
  CASE type = OrdinaryCell -> IF c.proof THEN c.mask ELSE c.mask \cup RefMasks(c)
    [] type = PrunnedBranchCell -> c.bits.mask
    [] IsMerkle(type) -> ShiftMask(RefMasks(c))
    [] OTHER -> c.mask

Refused(c, type) ==
  \/ type = PrunnedBranchCell
       /\ (c.refs # << >> \/ c.bits.mask = {}
             \/ Len(c.bits.hashes) < Cardinality(c.bits.mask))
  \/ IsMerkle(type)
       /\ \/ Len(c.refs) # type - 2
          \/ \E i \in DOMAIN c.refs : \/ c.bits.hashes[i] # getHashAt(c.refs[i], 0)
                                      \/ c.bits.depths[i] # getDepthAt(c.refs[i], 0)
  \/ type \notin {OrdinaryCell, PrunnedBranchCell, LibraryCell, MerkleProofCell, MerkleUpdateCell}

(* What is hashed at a level: the bits, or the hash of the level before it.   *)
HashOf(c, prev, mask, depths, hashes) ==
  <<CheckSum(IF prev = << >> THEN c.bits.v \o Sums(c.bits.hashes) ELSE Sums(prev),
             CheckSum(Sums(hashes), Len(c.refs))),
    IF prev = << >> THEN c.bits ELSE Bits(<< >>),
    <<Len(c.refs), IF c.exotic THEN 1 ELSE 0>>, mask, depths, prev, hashes>>

(* One hash for every significant level, each over the previous one: a pruned *)
(* branch computes the last of them only.                                     *)
LevelsOf(type, mask) ==
  IF type = PrunnedBranchCell THEN << getLevel(mask) >> ELSE Ascending({0} \cup mask)
CalcHashes(c, type, mask, levels) ==
  LET Below(level) == IF IsMerkle(type) THEN level + 1 ELSE level
      DepthsAt(level) == Each([i \in DOMAIN c.refs |-> getDepthAt(c.refs[i], Below(level))])
      HashesAt(level) == Each([i \in DOMAIN c.refs |-> getHashAt(c.refs[i], Below(level))])
      hashes == FoldLeft(LAMBDA hs, level :
                           Append(hs, HashOf(c, IF hs = << >> THEN << >> ELSE <<hs[Len(hs)]>>,
                                             IF c.proof THEN {} ELSE applyLevelMask(mask, level),
                                             DepthsAt(level), HashesAt(level))),
                         << >>, levels)
      depth == Each([k \in DOMAIN levels |->
                       IF c.refs = << >> THEN 0 ELSE MaxOf(Range(DepthsAt(levels[k]))) + 1])
      broken == \/ \E i \in DOMAIN c.refs : c.refs[i].broken
                \/ Refused(c, type)
                \/ \E k \in DOMAIN depth : depth[k] > MaxDepth
  IN  IF broken THEN [c EXCEPT !.broken = TRUE]
      ELSE [c EXCEPT !.type = type, !.mask = mask, !.hashes = hashes, !.depth = depth]
FinalizeAs(c, type, mask) == CalcHashes(c, type, mask, LevelsOf(type, mask))
FinalizeTyped(c, type) == FinalizeAs(c, type, MaskOf(c, type))
finalize(c) == FinalizeTyped(c, IF c.exotic THEN c.bits.v[1] ELSE OrdinaryCell)

RECURSIVE finalizeTree(_)
finalizeTree(c) ==
  finalize([c EXCEPT !.refs = Each([i \in DOMAIN c.refs |-> finalizeTree(c.refs[i])])])

(* The mask that is written with a cell: computed anew, none for a proof cell.*)
RECURSIVE getLevelMask(_)
getLevelMask(c) ==
  LET below == UNION {getLevelMask(c.refs[i]) : i \in DOMAIN c.refs}
  IN  IF c.exotic /\ c.type # LibraryCell
      THEN IF c.type = PrunnedBranchCell THEN c.mask ELSE ShiftMask(below)
      ELSE below
WrittenMask(c) == IF c.proof THEN {} ELSE getLevelMask(c)

(* ------------------------------ bags of cells ------------------------------- *)
IndexOf(hash, order) == CHOOSE i \in DOMAIN order : getHash(order[i]) = hash

(* Cells are told apart by their hash at level 0: of a cell and a pruned      *)
(* branch in its place, the one that is met first is kept.  `order' has the   *)
(* cells as they are met, `done' their places in it as they are left.         *)
RECURSIVE treeWalk(_, _), walkRefs(_, _)
walkRefs(refs, walk) ==
  IF refs = << >> THEN walk ELSE walkRefs(Tail(refs), treeWalk(refs[1], walk))
treeWalk(c, walk) ==
  IF \E i \in DOMAIN walk.order : getHash(walk.order[i]) = getHash(c) THEN walk
  ELSE LET below == walkRefs(c.refs, [walk EXCEPT !.order = Append(@, c)])
       IN  [below EXCEPT !.done = Append(@, Len(walk.order) + 1)]

(* A child that does not come after its parent is moved behind all cells, in  *)
(* the order in which the cells were left, until there is none.               *)
RECURSIVE MoveBehind(_, _, _)
MoveBehind(at, parent, children) ==
  IF children = << >> THEN at
  ELSE LET k == children[1]
       IN  MoveBehind(IF at.index[k] > at.index[parent] THEN at
                      ELSE [index |-> [at.index EXCEPT ![k] = at.max], max |-> at.max + 1],
                      parent, Tail(children))
RECURSIVE OnePass(_, _, _)
OnePass(at, done, children) ==
  IF done = << >> THEN at
  ELSE LET parent == done[1]
       IN  OnePass(IF \A k \in Range(children[parent]) : at.index[k] > at.index[parent] THEN at
                   ELSE MoveBehind(at, parent, children[parent]),
                   Tail(done), children)
Misplaced(index, children) ==
  \E p \in DOMAIN children : \E k \in Range(children[p]) : index[k] <= index[p]
\* Faulty: the cells stay in the order in which they were met.
SettleNever(at, done, children) == at.index
RECURSIVE Settle(_, _, _)
Settle(at, done, children) ==
  IF Misplaced(at.index, children) THEN Settle(OnePass(at, done, children), done, children)
  ELSE at.index

(* The cells as they are written, with the positions of their references.     *)
ChildrenIn(order) ==
  Each([i \in DOMAIN order |->
          Each([k \in DOMAIN order[i].refs |-> IndexOf(getHash(order[i].refs[k]), order)])])
Ranks(index) ==
  Each([i \in DOMAIN index |-> Cardinality({j \in DOMAIN index : index[j] <= index[i]})])
WriteCell(c, places) ==
  [bits |-> c.bits, exotic |-> c.exotic, mask |-> WrittenMask(c), refs |-> places]
WriteRanked(order, children, rank) ==
  Each([k \in DOMAIN rank |->
          LET i == CHOOSE j \in DOMAIN rank : rank[j] = k
          IN  WriteCell(order[i], Each([r \in DOMAIN children[i] |-> rank[children[i][r]]]))])
WriteWalk(order, done, children) ==
  WriteRanked(order, children,
              Ranks(Settle([index |-> [i \in DOMAIN order |-> i - 1], max |-> Len(order)],
                           done, children)))
toBoc(root) ==
  LET walk == treeWalk(root, [order |-> << >>, done |-> << >>])
  IN  WriteWalk(walk.order, walk.done, ChildrenIn(walk.order))

(* The number of cells is one byte: writeUint throws when it does not fit.    *)
Written(boc) == Len(boc) <= MaxRefIndex

(* The cells are finalized from the last to the first: a reference to an      *)
(* earlier one throws.                                                        *)
ReadCell(written, refs) ==
  finalize([Cell(written.bits, refs, written.exotic) EXCEPT !.mask = written.mask])
RECURSIVE Rebuild(_, _)
Rebuild(boc, i) ==
  ReadCell(boc[i], Each([k \in DOMAIN boc[i].refs |-> Rebuild(boc, boc[i].refs[k])]))
InOrder(boc) == \A i \in DOMAIN boc : \A k \in DOMAIN boc[i].refs : boc[i].refs[k] > i
fromBoc(boc) ==
  IF InOrder(boc) THEN Rebuild(boc, 1) ELSE [Cell(Bits(<< >>), << >>, FALSE) EXCEPT !.broken = TRUE]
===============================================================================
