----------------------------- MODULE ProofRequests -----------------------------
(* The requests of ValidatorService that build a proof step from a block,     *)
(* have it checked and hand its parts to the contract: initValidators,        *)
(* updateValidators and validateTransaction; and the ProvenState that         *)
(* collects steps, is written and is read again.  Requests of the library     *)
(* alone, "state-hash" and "chain", add steps in any order.  What a step is   *)
(* made of and what its check makes of cells are parameters: see ProofSteps.  *)
EXTENDS Integers, Sequences, FiniteSets, Functions

CONSTANTS
  Cases,         \* <<block, split>>: see NodeBlocks for blocks; the split is the
                 \* two limits of printTreeVolume, 64 and 32 in the code
  SignatureCounts,  \* how many validators signed
  ChainBlocks,   \* masterchain blocks of a chain, each with the shard block it lists
  MaxSteps,      \* bound on the steps of a chain
  ValidatorsData(_, _),   \* bags of cells made of a block; none if that throws
  TransactionData(_, _),
  StateData(_),
  TransactionHash(_),
  Broken(_),              \* a bag of cells that cannot be read
  CheckValidators(_),     \* what checks find in bags of cells: Threw or Update(u)
  CheckTransaction(_, _, _),
  CheckStateHash(_)
ASSUME ProofRequestsAssumption ==
  /\ SignatureCounts \subseteq Nat
  /\ \A c \in Cases : c[2] \in Nat \X Nat /\ c[2][2] < c[2][1]
  /\ MaxSteps \in Nat

VARIABLES
  request,  \* [flow, block, split, signatures, tx]
  pc,       \* where it is
  step,     \* the step that was built, if any
  proven,   \* ProvenState: its steps, and its proofState
  calls     \* the contract's: [call, boc, nodes] of those that succeeded
vars == <<request, pc, step, proven, calls>>

None == [type |-> "none"]
Unknown == [validators |-> {}, main |-> 0, stateHash |-> << >>, blkRefs |-> << >>]
Threw == [ok |-> FALSE, update |-> Unknown]
Update(u) == [ok |-> TRUE, update |-> u]

(* --------------------------------- checking --------------------------------- *)
(* PSShardState.check takes the reference to the block from the state's list  *)
(* of blocks as it is parsed; PSShardBlock.check wants the block referenced,  *)
(* and refers to the first shard in a form of its own: a search that comes    *)
(* across one of that form before it finds the block throws.                  *)
checkShardState(s) == Update([Unknown EXCEPT !.blkRefs = <<[form |-> "raw", block |-> s.block]>>])
checkShardBlock(s, st) ==
  LET Found(i) == /\ st.blkRefs[i] = [form |-> "raw", block |-> s.block]
                  /\ \A j \in 1..(i - 1) : st.blkRefs[j].form = "raw"
  IN  IF \E i \in DOMAIN st.blkRefs : Found(i)
      THEN Update([Unknown EXCEPT !.blkRefs = <<[form |-> "ext", block |-> ChainBlocks[s.block]]>>])
      ELSE Threw

(* A bag of cells that cannot be read throws first. *)
check(s, st) ==
  IF \E i \in DOMAIN s.bocs : Broken(s.bocs[i]) THEN Threw
  ELSE CASE s.type \in {"set-validators", "proof-validators"} -> CheckValidators(s.bocs)
         [] s.type = "tx-proof" -> CheckTransaction(s.bocs, s.tx, s.hash)
         [] s.type = "state-hash" -> CheckStateHash(s.bocs)
         [] s.type = "shard-state" -> checkShardState(s)
         [] s.type = "shard-block" -> checkShardBlock(s, st)

(* ProvenState.add: nothing changes when the check throws. *)
Merge(st, u) ==
  [validators |-> IF u.validators # {} THEN u.validators ELSE st.validators,
   main |-> IF u.validators # {} THEN u.main ELSE st.main,
   stateHash |-> IF u.stateHash # << >> THEN u.stateHash ELSE st.stateHash,
   blkRefs |-> st.blkRefs \o u.blkRefs]
Checked(p, s, res) ==
  IF res.ok THEN [p EXCEPT !.steps = Append(@, s), !.state = Merge(@, res.update)]
  ELSE [p EXCEPT !.ok = FALSE]
\* Faulty: the step is kept before it is checked.
addAnyway(p, s) ==
  [Checked(p, s, check(s, p.state)) EXCEPT !.steps = Append(p.steps, s)]
add(p, s) == Checked(p, s, check(s, p.state))
Fresh == [ok |-> TRUE, steps |-> << >>, state |-> Unknown]

(* toJSON and fromJSON.  A block's id does not come back as it was: its       *)
(* hashes, written in hexadecimal, are read as text.                          *)
Restored(s) == [s EXCEPT !.id = "text"]
fromJSON(steps) ==
  LET self[n \in 0..Len(steps)] ==
        IF n = 0 THEN Fresh ELSE add(self[n - 1], Restored(steps[n]))
  IN  self[Len(steps)]

(* --------------------------------- requests --------------------------------- *)
Step(type, block, bocs, signatures, tx, hash) ==
  [type |-> type, block |-> block, bocs |-> bocs, signatures |-> signatures,
   tx |-> tx, hash |-> hash, id |-> "bytes"]
Request(flow, c, signatures, tx) ==
  [flow |-> flow, block |-> c[1], split |-> c[2], signatures |-> signatures, tx |-> tx]
Of(kinds) == {c \in Cases : c[1].kind \in kinds}
Requests ==
  {Request(f, c, 0, <<0, 0>>) : f \in {"init", "state"}, c \in Of({"key", "mc"})}
  \cup {Request("update", c, k, <<0, 0>>) : c \in Of({"key"}), k \in SignatureCounts}
  \cup (UNION {{Request("tx", c, 0, t) : t \in c[1].txs} : c \in Cases})
  \cup {Request("chain", c, 0, <<0, 0>>) : c \in Of({"mc"})}

Init == /\ request \in Requests
        /\ pc = "build" /\ step = None /\ proven = Fresh /\ calls = << >>

Signed == [i \in 1..request.signatures |-> i]
Built(s) == step' = s /\ pc' = "add" /\ UNCHANGED <<request, proven, calls>>
Fails == pc' = "threw" /\ UNCHANGED <<request, step, proven, calls>>

BuildValidators(flow, type) ==
  /\ pc = "build" /\ request.flow = flow
  /\ \E bocs \in {ValidatorsData(request.block, request.split)} :
       IF bocs # << >> THEN Built(Step(type, 0, bocs, Signed, <<0, 0>>, << >>)) ELSE Fails
PSSetValidators == BuildValidators("init", "set-validators")
PSProofValidators == BuildValidators("update", "proof-validators")

PSTransaction ==
  /\ pc = "build" /\ request.flow = "tx"
  /\ \E bocs \in {TransactionData(request.block, request.tx)} :
       IF bocs # << >>
       THEN Built(Step("tx-proof", 0, bocs, << >>, request.tx, <<TransactionHash(request.tx)>>)) ELSE Fails

PSNewStateHash ==
  /\ pc = "build" /\ request.flow = "state"
  /\ Built(Step("state-hash", 0, <<StateData(request.block)>>, << >>, <<0, 0>>, << >>))

PSShard(type, b) ==
  /\ pc = "build" /\ request.flow = "chain" /\ Len(proven.steps) < MaxSteps
  /\ Built(Step(type, b, << >>, << >>, <<0, 0>>, << >>))

(* A refused step of a chain is given up, the others go on. *)
Add ==
  /\ pc = "add"
  /\ \E p \in {add(proven, step)} :
         /\ proven' = [p EXCEPT !.ok = TRUE]
         /\ pc' = IF request.flow = "chain" THEN "build"
                  ELSE IF ~p.ok THEN "threw"
                  ELSE IF request.flow \in {"init", "update"} THEN "send" ELSE "done"
  /\ step' = IF request.flow = "chain" THEN None ELSE step
  /\ UNCHANGED <<request, calls>>

(* ------------------------------- the contract ------------------------------- *)
Bocs == proven.steps[1].bocs
Sent(call) == {k \in DOMAIN calls : calls[k].call = call}
Call(call, boc, nodes) ==
  /\ calls' = Append(calls, [call |-> call, boc |-> boc, nodes |-> nodes])
  /\ UNCHANGED <<request, step, proven>>

ParseCandidatesRootBlock ==
  pc = "send" /\ calls = << >> /\ Call("root", 1, << >>) /\ UNCHANGED pc

ParsePartValidators ==
  LET i == Cardinality(Sent("part")) + 2
  IN  /\ pc = "send" /\ calls # << >> /\ i <= Len(Bocs)
      /\ Call("part", i, << >>) /\ UNCHANGED pc

PartsSent == calls # << >> /\ Cardinality(Sent("part")) + 1 = Len(Bocs)

(* Five signatures a call, the last call filled up with the first signature.  *)
ChunkSize == 5
\* Faulty: the last signature is taken for the end of the list.
ChunkShort(from, signatures) ==
  [i \in 1..ChunkSize |-> IF from + i < Len(signatures) THEN signatures[from + i] ELSE signatures[1]]
Chunk(from, signatures) ==
  [i \in 1..ChunkSize |-> IF from + i <= Len(signatures) THEN signatures[from + i] ELSE signatures[1]]
VerifyValidators ==
  LET from == ChunkSize * Cardinality(Sent("verify"))
  IN  /\ pc = "send" /\ request.flow = "update" /\ PartsSent
      /\ from < Len(proven.steps[1].signatures)
      /\ Call("verify", 0, Chunk(from, proven.steps[1].signatures)) /\ UNCHANGED pc

InitValidators ==
  /\ pc = "send" /\ request.flow = "init" /\ PartsSent
  /\ Call("init", 0, << >>) /\ pc' = "done"

SetValidatorSet ==
  /\ pc = "send" /\ request.flow = "update" /\ PartsSent
  /\ ChunkSize * Cardinality(Sent("verify")) >= Len(proven.steps[1].signatures)
  /\ Call("set", 0, << >>) /\ pc' = "done"

(* A call that fails is logged, and the request ends like one that did not.   *)
CallFails ==
  pc = "send" /\ pc' = "done" /\ UNCHANGED <<request, step, proven, calls>>

Next == \/ PSSetValidators \/ PSProofValidators \/ PSTransaction \/ PSNewStateHash
        \/ \E b \in DOMAIN ChainBlocks : PSShard("shard-state", b) \/ PSShard("shard-block", b)
        \/ Add
        \/ ParseCandidatesRootBlock \/ ParsePartValidators \/ VerifyValidators
        \/ InitValidators \/ SetValidatorSet \/ CallFails
Spec == Init /\ [][Next]_vars

(* -------------------------------- properties -------------------------------- *)
Taken == pc \in {"build", "send", "done"} /\ calls = << >>

(* The contract is asked to take the validators over only after it had the    *)
(* root, then each part once, from the first to the last, and for an update   *)
(* the signature of every validator that signed, five in each call.           *)
ContractFed ==
  \A i \in DOMAIN calls : calls[i].call \in {"init", "set"} =>
    LET verified == {calls[k].nodes : k \in Sent("verify")}
    IN  /\ [k \in 1..Len(Bocs) |-> calls[k].boc] = [k \in 1..Len(Bocs) |-> k]
        /\ UNION {Range(nodes) : nodes \in verified} = 1..request.signatures
        /\ \A nodes \in verified : Len(nodes) = ChunkSize

(* What is proven is proven again from the steps as they were written: a      *)
(* refused step has left no trace in them, and each is accepted after those   *)
(* before it with the same outcome.                                           *)
ReplayAgrees ==
  Taken => LET again == fromJSON(proven.steps)
           IN  again.ok /\ again.state = proven.state /\ Len(again.steps) = Len(proven.steps)
================================================================================
