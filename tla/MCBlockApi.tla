------------------------------ MODULE MCBlockApi ------------------------------
EXTENDS BlockApi
CONSTANTS c1, x, y

(* Five blocks, two of them key blocks; the basechain splits at the third.    *)
\* Two accounts of one shard, one of the other, one of the masterchain.
Near == [wc |-> 0, hash |-> 1]
Next1 == [wc |-> 0, hash |-> 2]
Far == [wc |-> 0, hash |-> 5]
Master == [wc |-> -1, hash |-> 1]
Nobody == [wc |-> 0, hash |-> 3]
MCAddresses == {Near, Next1, Far, Master}
MCHistory == [a \in MCAddresses |-> IF a = Near THEN 4 ELSE 2]

\* A block of the same number that the chain did not take.
Stray == [Id(5) EXCEPT !.root_hash = <<"root", 5, 9>>, !.file_hash = <<"file", 5, 9>>]
StrayKey == [Id(2) EXCEPT !.root_hash = <<"root", 2, 9>>, !.file_hash = <<"file", 2, 9>>]
NoAsk == [op |-> "none", retry |-> 1, id |-> Id(0), lt |-> 0, utime |-> 0, to_lt |-> -1,
          param |-> -1, max |-> 0, addr |-> Near, hash |-> << >>]
Of(op, id) == [NoAsk EXCEPT !.op = op, !.id = id]
Lookup(lt, utime) == [Of("lookup", Id(1)) EXCEPT !.lt = lt, !.utime = utime]
State(n, addr) == [Of("getAccountState", Id(n)) EXCEPT !.addr = addr]
Param(n, p) == [Of("getConfig", Id(n)) EXCEPT !.param = p]
List(addr, i, max, to_lt) ==
  [NoAsk EXCEPT !.op = "getTransactions", !.addr = addr, !.lt = TxLt(i), !.hash = TxHash(addr, i),
                !.max = max, !.to_lt = to_lt]
MCAllAsks ==
  {Of("validate", id) : id \in {Id(5), Id(3), Id(1), Stray, StrayKey}}
    \cup {[Of("validate", Id(4)) EXCEPT !.retry = 2]}
    \cup {Of("getLatestId", Id(0)), Lookup(23, 0), Lookup(27, 0), Lookup(0, 106), Of("lookup", ShardId(4, 0))}
    \cup {Of("getHeader", Id(5)), Of("getHeader", Stray), Of("getData", ShardId(3, 1)), Of("getData", ShardId(3, 0))}
    \cup {Of("getShards", Id(2)), Of("getShards", Id(4)), Of("getShards", ShardId(3, 0))}
    \cup {State(3, a) : a \in {Near, Next1, Far, Nobody}} \cup {State(3, Master), State(5, Friendly(Near))}
    \cup {Param(3, p) : p \in {40, 41, 34}} \cup {Param(5, 40), Of("getConfig", Id(3))}
    \cup {List(Near, 4, 3, -1), List(Near, 3, 5, -1), List(Near, 4, 4, 15), List(Next1, 2, 2, -1), List(Near, 2, 1, 20)}
\* One of the two calls asks for fewer things.
MCFewAsks ==
  {Of("validate", Id(5)), [Of("validate", Id(3)) EXCEPT !.retry = 2], Of("getHeader", Id(3)), Of("lookup", Id(2)),
   State(3, Far), Param(3, 34), List(Near, 3, 3, -1), List(Near, 2, 2, -1)}
MCAsks == [k \in {x, y} |-> IF k = x THEN MCAllAsks ELSE MCFewAsks]
MCFirst == {Id(0)}
MCKeyBlocks == {2, 4}
=============================================================================
