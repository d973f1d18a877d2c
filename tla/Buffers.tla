-------------------------------- MODULE Buffers --------------------------------
(* What getethvalidation makes of single values and buffers: the conversion   *)
(* to bytes (evm-data/utils) and the cut into parts that fit a cell           *)
(* (beacon.controller.ts).  Buffers are sequences of bytes, a value of JSON   *)
(* is a record that says its form.                                            *)
EXTENDS Integers, Sequences

CONSTANT PartLength         \* bytes of a node that go into one cell, 32
ASSUME PartLengthAssumption == PartLength \in Nat \ {0}

(* ---- evm-data/utils: values of JSON, [form, ...], as buffers ----------------- *)
BytesOf(digits) == [i \in 1..(Len(digits) \div 2) |-> 16 * digits[2 * i - 1] + digits[2 * i]]
fixLength(digits) == IF Len(digits) % 2 = 1 THEN <<0>> \o digits ELSE digits
HexDigits(n) == IF n < 16 THEN <<n>> ELSE <<n \div 16, n % 16>>    \* of a byte
Stripped(b) ==
  LET zeros == {k \in 0..Len(b) : \A i \in 1..k : b[i] = 0}
  IN  SubSeq(b, 1 + (CHOOSE k \in zeros : \A j \in zeros : j <= k), Len(b))
toBuffer(val, len) ==           \* -1: no length is given
  LET raw == CASE val.form = "hex" -> BytesOf(fixLength(val.digits))
               [] val.form = "number" -> IF val.n = 0 /\ len = 0 THEN << >> ELSE BytesOf(fixLength(HexDigits(val.n)))
               [] val.form = "buffer" -> val.b
               [] OTHER -> << >>
  IN  CASE len = 0 -> Stripped(raw)
        [] len > 0 /\ Len(raw) < len -> [i \in 1..(len - Len(raw)) |-> 0] \o raw
        [] len > 0 /\ Len(raw) >= len -> SubSeq(raw, Len(raw) - len + 1, Len(raw))
        [] OTHER -> raw

\* The place of a transaction in its block, as rlp: of a byte, exactly.
RlpNumber(n) == IF n = 0 THEN <<128>> ELSE IF n < 128 THEN <<n>> ELSE <<129, n>>

(* --------------------------------- parts --------------------------------------- *)
FirstOf(buf, k) == IF Len(buf) < k THEN buf ELSE SubSeq(buf, 1, k)
Drop(s, k) == SubSeq(s, k + 1, Len(s))
\* Faulty: what is left after the last whole part is dropped.
PartsWhole(b) ==
  [i \in 1..(Len(b) \div PartLength) |-> FirstOf(Drop(b, (i - 1) * PartLength), PartLength)]
Parts(b) ==
  [i \in 1..((Len(b) + PartLength - 1) \div PartLength) |-> FirstOf(Drop(b, (i - 1) * PartLength), PartLength)]

================================================================================
