----------------------------- MODULE ReceiptProof -----------------------------
(* The receipt of a transaction and its proof, as getethvalidation sends them *)
(* to the contract (beacon.controller.ts, evm-data).  Lengths are scaled      *)
(* down: a hash has 3 bytes for 32, an address 2 for 20, a bloom 7 for 256;   *)
(* cells take PartLength bytes for 32 and 3 for 96.                           *)
EXTENDS Integers, SequencesExt, MerkleProof

(* ---- evm-data/utils: fields of a receipt ------------------------------------- *)
uint(val) == toBuffer(val, 0)
bytes(val) == toBuffer(val, -1)
bytes32(val) == toBuffer(val, 3)
bytes256(val) == toBuffer(val, 7)
address(val) == toBuffer(val, 2)
Given(val) == val.form # "null"
toNumber(val) == IF val.form = "number" THEN val.n ELSE FoldLeft(LAMBDA n, d : 16 * n + d, 0, val.digits)

(* ---- rlp: a head that tells the length, above all bytes ------------------------ *)
Joined(s) == FoldLeft(LAMBDA a, b : a \o b, << >>, s)
RlpBytes(b) == IF Len(b) = 1 /\ b[1] < 128 THEN b ELSE <<256 + Len(b)>> \o b
RlpList(s) == <<512 + Len(Joined(s))>> \o Joined(s)

(* ---- Receipt ------------------------------------------------------------------- *)
Status(r) == IF Given(r.status) THEN r.status ELSE r.root
serialize(r) ==
  LET log(l) == RlpList(<<RlpBytes(address(l.address)),
                          RlpList([i \in DOMAIN l.topics |-> RlpBytes(bytes32(l.topics[i]))]),
                          RlpBytes(bytes(l.data))>>)
      fields == <<RlpBytes(uint(Status(r))), RlpBytes(uint(r.cumulativeGasUsed)), RlpBytes(bytes256(r.logsBloom)),
                  RlpList([i \in DOMAIN r.logs |-> log(r.logs[i])])>>
      list == RlpList(IF Given(Status(r)) THEN fields ELSE Tail(fields))
      type == IF Given(r.type) THEN toNumber(r.type) ELSE 0
  IN  IF type = 0 THEN list ELSE <<type>> \o list

Cell(data, refs) == [data |-> data, refs |-> refs]
SliceLength == 3            \* DATA_SLICE_LENGTH, 96
RECURSIVE buildBufs(_), buildTopics(_), buildLogs(_)
buildBufs(buf) ==
  Cell(FirstOf(buf, SliceLength),
       IF Len(buf) > SliceLength THEN <<buildBufs(Drop(buf, SliceLength))>> ELSE << >>)
buildTopics(tpcs) ==
  IF tpcs = << >> THEN Cell(<< >>, << >>)
  ELSE Cell(Head(tpcs), IF Len(tpcs) > 1 THEN <<buildTopics(Tail(tpcs))>> ELSE << >>)
buildLogs(lgs) ==           \* of at least one log
  LET lg == Head(lgs)
  IN  Cell(address(lg.address),
           <<buildTopics([i \in DOMAIN lg.topics |-> bytes32(lg.topics[i])]), buildBufs(bytes(lg.data))>>
             \o IF Len(lgs) > 1 THEN <<buildLogs(Tail(lgs))>> ELSE << >>)
Start(r) == uint(IF Given(r.type) THEN r.type ELSE [form |-> "hex", digits |-> <<0>>])
              \o uint(Status(r)) \o uint(r.cumulativeGasUsed)
toCell(r) ==
  Cell(Start(r), <<buildBufs(bytes256(r.logsBloom))>> \o IF r.logs = << >> THEN << >> ELSE <<buildLogs(r.logs)>>)

(* ---- prepareReceipt: the nodes of the proof as a chain of chains of cells ------- *)
storeRef(cell, ref) == Cell(cell.data, Append(cell.refs, ref))
\* The last cell goes into the one before it, and so on; the first needs a second.
Chained(cells) ==
  IF Len(cells) < 2 THEN Throw
  ELSE LET n == Len(cells)
       IN  Gives(FoldLeft(LAMBDA rest, i : storeRef(cells[n - i], rest), cells[n], [k \in 1..(n - 1) |-> k]))
Opcode(name) == Cell([t |-> "op", op |-> name], << >>)
NodeCells(prb) ==
  CASE Len(prb) = 17 -> <<Opcode("node_branch")>> \o [i \in 1..17 |-> Cell(prb[i], << >>)]
    [] Len(prb) = 2 -> LET parts == IF prb[2].t = "bytes" THEN Parts(prb[2].b) ELSE << >>
                       IN  <<Opcode("node_leaf"), Cell(prb[1], << >>)>>
                             \o (IF prb[2].t = "bytes" THEN [i \in DOMAIN parts |-> Cell(Bytes(parts[i]), << >>)]
                                 ELSE <<Cell(prb[2], << >>)>>)      \* an extension: a hash is one part
    [] OTHER -> <<Opcode("empty_branch")>>
prepareReceipt(proof) ==
  LET nodes == [i \in DOMAIN proof |-> Chained(NodeCells(proof[i]))]
  IN  IF \E i \in DOMAIN nodes : ~nodes[i].ok THEN Throw
      ELSE Chained([i \in DOMAIN nodes |-> nodes[i].value])
==============================================================================
