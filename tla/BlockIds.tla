------------------------------- MODULE BlockIds -------------------------------
(* Block ids and addresses, and their forms on the wire and in storage.  A    *)
(* number of 8 bits stands for one of 64.                                     *)
EXTENDS LiteServer

(* ---- BlockId ------------------------------------------------------------------ *)
Signed(word) == IF word >= 8 THEN word - 16 ELSE word
Unsigned(word) == IF word < 0 THEN word + 16 ELSE word
longFromBN(l) == <<Signed(l % 16), Signed(l \div 16)>>
longToBN(l) == Unsigned(l[1]) + 16 * Unsigned(l[2])
toLiteId(id) == [id EXCEPT !.shard = longFromBN(id.shard)]
fromLiteId(id) == [id EXCEPT !.shard = longToBN(id.shard)]
compareShard(id, shard) == id.shard = shard
compare(id, a) ==
  /\ a.seqno = id.seqno /\ a.workchain = id.workchain /\ compareShard(id, a.shard)
  /\ a.file_hash = id.file_hash /\ a.root_hash = id.root_hash

toString(id) == [id EXCEPT !.shard = <<id.shard \div 16, id.shard % 16>>]   \* hexadecimal digits
fromString(s) == [s EXCEPT !.shard = 16 * s.shard[1] + s.shard[2]]

(* ---- Address: friendly bytes, whose check sum always fits -------------------- *)
Friendly(addr) == [tag |-> "bounceable", wc |-> addr.wc % 256, hash |-> addr.hash]
parseFriendlyAddress(bytes) ==
  [wc |-> IF bytes.wc = 255 THEN -1 ELSE bytes.wc, hash |-> bytes.hash]
Address(any) == IF "tag" \in DOMAIN any THEN parseFriendlyAddress(any) ELSE any
=============================================================================
