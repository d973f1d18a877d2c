------------------------------ MODULE ProofSteps ------------------------------
(* The proof steps of lib/steps made of cells: how the requests of            *)
(* ProofRequests build a step from a block, and what its check reads from the *)
(* bags of cells it is sent as.  The configuration gives these definitions to *)
(* the parameters of ProofRequests.                                           *)
EXTENDS ProofRequests, NodeBlocks

(* --------------------------------- building --------------------------------- *)
(* PSSetValidators.buildValidatorsData: the configuration is cut into parts.  *)
CutInto(proof, parts) ==
  LET except == {getHash(parts[i]) : i \in DOMAIN parts}
      cells == <<proof>> \o parts
  IN  [i \in DOMAIN cells |-> makeBocLeaf(cells[i], except)]
CutProof(proof, split) ==
  CutInto(proof, printTreeVolume(LastRef(LastRef(proof.refs[4])), split[1], split[2]).parts)
ProofAlong(path) ==
  finalizeTree([buildProof(path, TRUE, TRUE) EXCEPT
                  !.refs[1] = buildProof(<<path[1].refs[1]>>, FALSE, TRUE)])
DataAlong(path, split) == IF path = << >> THEN << >> ELSE CutProof(ProofAlong(path), split)
buildValidatorsData(root, split) == DataAlong(buildPathToConfig(root), split)

(* PSNewStateHash.fromBlock. *)
buildStateProof(root) == toBoc(finalizeTree(buildProof(<<root, root.refs[3]>>, FALSE, FALSE)))

(* PSTransaction.fromBlock: the proof and the transaction's own bag of cells. *)
BocsAlong(root, path) ==
  IF path = << >> THEN << >>
  ELSE <<toBoc(finalizeTree(buildProof(<<root, root.refs[4]>> \o path, FALSE, TRUE))),
         toBoc(path[Len(path)])>>
buildTransaction(root, hash) == BocsAlong(root, buildPath(hash, root.refs[4].refs[3]))

(* What is made of a block; a bag with too many cells is not written.         *)
Sendable(bocs) == IF \A i \in DOMAIN bocs : Written(bocs[i]) THEN bocs ELSE << >>
ValidatorsCells(b, split) == Sendable(buildValidatorsData(Block(b), split))
HashOfTransaction(tx) == getHash(finalizeTree(Transaction(tx[1], tx[2])))
TransactionCells(b, tx) == Sendable(buildTransaction(Block(b), HashOfTransaction(tx)))
StateCells(b) == buildStateProof(Block(b))
Unreadable(boc) == fromBoc(boc).broken

(* --------------------------------- checking --------------------------------- *)
(* AValidatorsProofStep: a part takes the place of every cell with its hash.  *)
\* Faulty: a part that is put in is not searched for parts of its own.
RECURSIVE walkTreeOnce(_, _)
walkTreeOnce(c, parts) ==
  [c EXCEPT !.refs = Each([i \in DOMAIN c.refs |->
     LET same == {k \in DOMAIN parts : getHash(parts[k]) = getHash(c.refs[i])}
     IN  IF same = {} THEN walkTreeOnce(c.refs[i], parts)
         ELSE parts[CHOOSE k \in same : \A j \in same : k <= j]])]
RECURSIVE walkTree(_, _)
walkTree(c, parts) ==
  [c EXCEPT !.refs = Each([i \in DOMAIN c.refs |->
     LET same == {k \in DOMAIN parts : getHash(parts[k]) = getHash(c.refs[i])}
     IN  IF same = {} THEN walkTree(c.refs[i], parts)
         ELSE walkTree(parts[CHOOSE k \in same : \A j \in same : k <= j], parts)])]
Reassembled(bocs) ==
  walkTree(fromBoc(bocs[1]), Each([i \in 1..(Len(bocs) - 1) |-> fromBoc(bocs[i + 1])]))

Opened(c) == c.type = OrdinaryCell
ConfigOf(root) ==
  LET extra == root.refs[4]
      custom == extra.refs[4]
      config == custom.refs[Len(custom.refs)]
  IN  IF Opened(extra) /\ Opened(custom) THEN loadHashmapCell(config, ConfigBits) ELSE {}

CurrentSet(root) == {e.refs[1] : e \in {f \in ConfigOf(root) : f.key = CurValidators}}
ReadSet(sets) ==
  IF sets = {} \/ \E s \in sets : ~Opened(s) THEN Threw
  ELSE LET set == CHOOSE s \in sets : TRUE
       IN  Update([Unknown EXCEPT
             !.validators = {<<e.v[2], e.v[3]>> : e \in loadHashmapCell(set.refs[1], ListBits)},
             !.main = set.bits.v[4]])
checkValidators(bocs) == ReadSet(CurrentSet(Reassembled(bocs)))

(* PSTransaction.check: the dictionary's keys are hexadecimal numbers without *)
(* leading zeros, an address is written with all its digits.                  *)
HexBytes(digits) == <<SubSeq(digits, 1, 4), SubSeq(digits, 5, 8)>>
HexNumber(digits) ==
  IF \A i \in 1..4 : digits[i] = 0 THEN <<SubSeq(digits, 5, 8)>> ELSE HexBytes(digits)
AccountsIn(extra, a) ==
  IF ~Opened(extra) \/ ~Opened(extra.refs[3]) THEN {}
  ELSE {e \in loadHashmapCell(extra.refs[3].refs[1], AccountBits) :
          HexNumber(e.key) = HexBytes(Digits(a, AccountBits, 0, AccountBits))}
TransactionsOf(account, lt) ==
  {e.refs[1] : e \in {f \in loadHashmap(SubSeq(account.v, 3, Len(account.v)),
                                        account.refs, LtBits, << >>) :
                         f.key = Digits(lt, LtBits, 0, LtBits)}}
SameTransaction(t, bocs, hash) == <<getHash(t)>> = hash /\ getHash(fromBoc(bocs[2])) = getHash(t)
checkTransaction(bocs, tx, hash) ==
  LET found == UNION {TransactionsOf(account, tx[2]) :
                        account \in AccountsIn(fromBoc(bocs[1]).refs[4], tx[1])}
  IN  IF \E t \in found : SameTransaction(t, bocs, hash) THEN Update(Unknown) ELSE Threw

(* PSNewStateHash.check reads the hash that the update stores. *)
checkStateHash(bocs) ==
  LET update == fromBoc(bocs[1]).refs[3]
  IN  Update([Unknown EXCEPT !.stateHash = <<update.bits.hashes[2]>>])

(* -------------------------------- properties -------------------------------- *)
Root == Block(request.block)

(* A key block's validators are proven by its parts, however many there are   *)
(* and however the configuration is laid out: what the check reads from the   *)
(* parts that are sent is exactly the current set of the block, their root is *)
(* the block's, no bag has more cells than an index can tell, and every part  *)
(* stands where a pruned branch of another one is.                            *)
PartsProve ==
  request.flow \in {"init", "update"} =>
    /\ pc = "threw" => request.block.kind # "key" \/ 34 \notin request.block.params
    /\ pc = "send" /\ calls = << >> =>
         LET cells == [i \in DOMAIN Bocs |-> fromBoc(Bocs[i])]
             pruned == UNION {{Bocs[i][k].bits.hashes[1] : k \in {j \in DOMAIN Bocs[i] : Bocs[i][j].exotic}}
                               : i \in DOMAIN Bocs}
         IN  /\ proven.state.validators = Validators(request.block.n)
             /\ proven.state.main = MainOf(request.block.n)
             /\ getHash(cells[1]) = getHash(Root)
             /\ \A i \in DOMAIN Bocs : InOrder(Bocs[i]) /\ (i > 1 => getHash(cells[i]) \in pruned)

(* Every transaction of a block can be validated: the proof has the block's   *)
(* hash, the transaction's own bag of cells comes back whole, cells that are  *)
(* met twice included, and the check accepts both.  The exception is an       *)
(* account whose hash starts with the digit 0: its key is never found.        *)
TransactionProven ==
  request.flow = "tx" =>
    /\ pc = "threw" => request.tx[1] < 16
    /\ pc = "done" =>
         /\ getHash(fromBoc(proven.steps[1].bocs[1])) = getHash(Root)
         /\ fromBoc(proven.steps[1].bocs[2]) = finalizeTree(Transaction(request.tx[1], request.tx[2]))
===============================================================================
