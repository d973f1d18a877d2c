------------------------------ MODULE LiteServer ------------------------------
(* The masterchain, the basechain and the nodes that answer about them, as    *)
(* the library's light client uses them.  The nodes are honest: they answer   *)
(* what the chain is, as far as they have it.  Hashes are collision free, so  *)
(* a hash is told by what was hashed; a proof shows the cells it opens.       *)
EXTENDS Integers, SequencesExt

CONSTANTS
  Top,        \* the last masterchain block; block 0 is the zero state
  KeyBlocks,  \* its key blocks
  SplitAt,    \* from this masterchain block on the basechain has two shards
  Addresses,  \* the accounts, [wc, hash], with a hash of AddrBits bits
  History     \* how many transactions each account has
ASSUME LiteServerAssumption ==
  /\ Top \in Nat \ {0} /\ SplitAt \in Nat /\ KeyBlocks \subseteq 1..Top
  /\ \A a \in Addresses : a = [wc |-> a.wc, hash |-> a.hash] /\ a.wc \in {-1, 0}
  /\ History \in [Addresses -> Nat]

AddrBits == 3               \* 256 in the chain
ConfigBits == 6             \* 32
Whole == 128                \* the shard 8000000000000000, in bytes of 4 bits
Half(side) == IF side = 0 THEN 64 ELSE 192
Masters == 0..Top
Each(f) == << >> \o f     \* a sequence, told element by element
Largest(S) == CHOOSE x \in S : \A y \in S : y <= x

Id(n) == [workchain |-> -1, shard |-> Whole, seqno |-> n,
          root_hash |-> <<"root", n, -1>>, file_hash |-> <<"file", n, -1>>]
ChainIds == {Id(n) : n \in Masters}

(* ---- dictionaries: what a proof of one key opens, and what it prunes ------- *)
Prefix(key, len, bits) == key \div 2^(bits - len)
Under(keys, len, v, bits) == {k \in keys : Prefix(k, len, bits) = v}
Forks(keys, len, v, bits) ==
  /\ len < bits
  /\ \A b \in {0, 1} : Under(keys, len + 1, 2 * v + b, bits) # {}
Opens(keys, key, len, v, bits) ==       \* the cell that holds the fork at this prefix
  LET starts == {l \in 0..len : l = 0 \/ Forks(keys, l - 1, v \div 2^(len - l + 1), bits)}
      start == Largest(starts)
  IN  v \div 2^(len - start) = Prefix(key, start, bits)
PrunedPrefixes(keys, key, bits) ==      \* <<length, value>>
  {p \in {<<l, Prefix(k, l, bits)>> : l \in 1..bits, k \in keys} :
     /\ Forks(keys, p[1] - 1, p[2] \div 2, bits)
     /\ Opens(keys, key, p[1] - 1, p[2] \div 2, bits)
     /\ p[2] # Prefix(key, p[1], bits)}
Shown(dict, keys, bits) ==              \* a dictionary with these keys opened
  [map |-> [k \in keys \cap DOMAIN dict |-> dict[k]],
   prunned |-> {p \in UNION {PrunedPrefixes(DOMAIN dict, k, bits) : k \in keys} :
                  \A k \in keys : Prefix(k, p[1], bits) # p[2]}]

(* ---- validators and configuration ------------------------------------------ *)
Batch == 2                  \* words of one hash, 8 in the chain
WordRange == 8              \* 2^64
Hash512(cc, seed) == [p \in 1..Batch |-> (3 * cc + 5 * seed + 7 * p + 2) % WordRange]
Catchain(n) == 1 + n        \* of block n
Listed(k, temp) ==          \* validators of the configuration of key block k
  [i \in 0..3 |-> [pubkey |-> <<k, temp, i>>, weight |-> 1 + ((i + k) % 3)]]
ValidatorSet(k, temp) == [total |-> 4, main |-> 3, list |-> Listed(k, temp)]
Config(k) ==                \* with temporary validators after every other key block
  [p \in {28, 34, 40} \cup (IF k % 4 = 2 THEN {35} ELSE {}) |->
     CASE p = 28 -> [shuffle_mc_validators |-> k > 0]
       [] p = 34 -> ValidatorSet(k, FALSE)
       [] p = 35 -> ValidatorSet(k, TRUE)
       [] OTHER  -> <<"param", p, k>>]
LastKey(n) == Largest({k \in KeyBlocks \cup {0} : k < n})
Draw(cc, i) == (Hash512(cc, i \div Batch)[1 + (i % Batch)] * (i + 1)) \div WordRange
Order[cc \in Nat, i \in Nat] ==         \* the first i validators, shuffled
  IF i = 0 THEN << >>
  ELSE LET p == Order[cc, i - 1]  j == Draw(cc, i - 1)
       IN  IF j = i - 1 THEN Append(p, j) ELSE Append([p EXCEPT ![j + 1] = i - 1], p[j + 1])
Signers(n) ==
  LET config == Config(LastKey(n))
      set == IF 35 \in DOMAIN config THEN config[35] ELSE config[34]
  IN  Each([i \in 1..set.main |->
         set.list[IF config[28].shuffle_mc_validators THEN Order[Catchain(n), set.main][i] ELSE i - 1]])
ListHash(n) == <<Catchain(n), Signers(n)>>
WeightOf(s) == FoldFunction(LAMBDA v, w : v.weight + w, 0, s)
Signatures(n) ==            \* no more than it takes
  LET s == Signers(n)
      enough == {m \in 1..Len(s) : 3 * WeightOf(SubSeq(s, 1, m)) > 2 * WeightOf(s)}
      m == CHOOSE m \in enough : \A l \in enough : m <= l
  IN  [i \in 1..m |-> [node_id_short |-> s[i].pubkey, signed |-> <<Id(n).root_hash, Id(n).file_hash>>]]

(* ---- blocks and states ------------------------------------------------------- *)
StateHash(wc, n, side) == <<"state", n, wc, side>>
Headers == Each([n \in 1..Top |->
  [version |-> 0, not_master |-> 0, workchain_id |-> -1, shard |-> Whole, seq_no |-> n,
   key_block |-> n \in KeyBlocks, gen_utime |-> 100 + 2 * n, start_lt |-> 10 * n, end_lt |-> 10 * n + 5,
   gen_catchain_seqno |-> Catchain(n), gen_validator_list_hash_short |-> ListHash(n),
   new_hash |-> StateHash(-1, n, 2), config |-> IF n \in KeyBlocks THEN Config(n) ELSE << >>]])
Header(n) == Headers[n]
\* side 2: the basechain is not split
SideOf(n, addr) == IF n < SplitAt THEN 2 ELSE Prefix(addr.hash, 1, AddrBits)
ShardId(n, side) ==
  [workchain |-> 0, shard |-> IF side = 2 THEN Whole ELSE Half(side), seqno |-> 10 + n,
   root_hash |-> <<"root", n, side>>, file_hash |-> <<"file", n, side>>]
ShardHeader(n, side) ==
  [Header(n) EXCEPT !.not_master = 1, !.workchain_id = 0, !.shard = ShardId(n, side).shard,
                    !.seq_no = 10 + n, !.new_hash = StateHash(0, n, side)]
Leaf(n, side) == [type |-> "leaf", leaf |-> [seq_no |-> 10 + n, root_hash |-> ShardId(n, side).root_hash,
                                             file_hash |-> ShardId(n, side).file_hash]]
Prunned == [type |-> "prunned"]
ShardTree(n, sides) ==      \* the shards of the basechain, opened on these sides
  IF n < SplitAt THEN Leaf(n, 2)
  ELSE [type |-> "fork", left |-> IF 0 \in sides THEN Leaf(n, 0) ELSE Prunned,
                         right |-> IF 1 \in sides THEN Leaf(n, 1) ELSE Prunned]
\* An account of the chain has had i transactions by block n; its first came in block 2.
Done(addr, n) == IF n < 2 THEN 0 ELSE IF n - 1 < History[addr] THEN n - 1 ELSE History[addr]
ShardState(wc, n, side) ==
  [h \in {a.hash : a \in {a \in Addresses : a.wc = wc /\ Done(a, n) > 0 /\ (wc = 0 => SideOf(n, a) = side)}} |->
     Done([wc |-> wc, hash |-> h], n)]
Account(addr, n) ==         \* how many transactions it has had; 0 if there is none
  IF addr \in Addresses THEN Done(addr, n) ELSE 0
TxHash(addr, i) == IF i = 0 THEN <<"no", 0, 0, 0>> ELSE <<"tx", addr.wc, addr.hash, i>>
TxLt(i) == 10 * i
Transaction(addr, i) ==
  [account_addr |-> addr.hash, index |-> i, hash |-> TxHash(addr, i), lt |-> TxLt(i),
   prev_trans_hash |-> TxHash(addr, i - 1), prev_trans_lt |-> TxLt(i - 1)]
(* ---- answers ------------------------------------------------------------------ *)
(* A node is asked by a request and gives one of these answers; it has none   *)
(* for what is not on the chain.  It writes a shard as two signed halves.     *)
LiteShard(shard) == CASE shard = Whole -> <<0, -8>> [] shard = Half(0) -> <<0, 4>> [] OTHER -> <<0, -4>>
LiteId(id) == [id EXCEPT !.shard = LiteShard(id.shard)]
ShardIds == {ShardId(p[1], p[2]) : p \in {p \in (1..Top) \X (0..2) : (p[2] = 2) <=> (p[1] < SplitAt)}}
HeaderOf(id) ==
  IF id.workchain = -1 THEN Header(id.seqno)
  ELSE ShardHeader(id.seqno - 10, CHOOSE side \in 0..2 : ShardId(id.seqno - 10, side) = id)
Blocks == {Id(n) : n \in 1..Top} \cup ShardIds
Asked(lite) == {id \in Blocks : LiteId(id) = lite}
BlockProof(id) == [root |-> id.root_hash, block |-> HeaderOf(id)]
ConfigKey(n) == Largest({k \in KeyBlocks \cup {0} : k <= n})
WholeConfig(n) == DOMAIN Config(ConfigKey(n))
Params == {28, 34, 35, 40, 41}      \* of which blocks have some
Openings == {{}} \cup {{p} : p \in Params} \cup {WholeConfig(m) : m \in Masters}
ConfigsShown ==             \* whole, with one parameter opened, with none
  {[key |-> k, params |-> p, config |-> Shown(Config(k), p, ConfigBits)] :
     k \in KeyBlocks \cup {0}, p \in Openings}
McState(n, sides, params) ==
  [hash |-> StateHash(-1, n, 2), shard_hashes |-> ShardTree(n, sides), shards_hash |-> ShardTree(n, {0, 1}),
   config |-> (CHOOSE c \in ConfigsShown : c.key = ConfigKey(n) /\ c.params = params).config,
   prev_blocks |-> [m \in 0..(n - 1) |-> Id(m)]]

(* The way from one block to another: back at once, or forward from key block *)
(* to key block, after a step back to the first of them.                      *)
Forward(a, b) == a < b /\ a \in KeyBlocks \cup {0} /\ \A k \in KeyBlocks : k <= a \/ b <= k
IsWay(w) ==
  \/ Len(w) = 2 /\ w[2] < w[1]
  \/ /\ w[1] < w[Len(w)]
     /\ \A i \in 1..(Len(w) - 1) :
          Forward(w[i], w[i + 1]) \/ (i = 1 /\ w[1] \notin KeyBlocks \cup {0} /\ w[2] = LastKey(w[1]))
Ways == {Each(w) : w \in {w \in UNION {[1..n -> Masters] : n \in 2..(Top + 1)} : IsWay(w)}}
Hops == UNION {{<<w[i], w[i + 1]>> : i \in 1..(Len(w) - 1)} : w \in Ways}
Link(hop) ==
  LET fwd == hop[1] < hop[2]
      source == IF hop[1] = 0 THEN [root |-> Id(0).root_hash, config |-> Config(0)]
                ELSE [root |-> Id(hop[1]).root_hash, block |-> Header(hop[1])]
  IN  [type |-> IF fwd THEN "liteServer.blockLinkForward" ELSE "liteServer.blockLinkBack",
       from |-> LiteId(Id(hop[1])), to |-> LiteId(Id(hop[2])), to_key_block |-> hop[2] \in KeyBlocks \cup {0},
       dest_proof |-> IF hop[2] = 0 THEN << >> ELSE <<BlockProof(Id(hop[2]))>>,
       proof |-> <<source>>,
       state_proof |-> IF fwd THEN << >> ELSE <<McState(hop[1], {0, 1}, {})>>,
       set_hash |-> IF fwd THEN ListHash(hop[2]) ELSE << >>, signatures |-> IF fwd THEN Signatures(hop[2]) ELSE << >>]

AccountAnswer(n, addr) ==
  LET side == SideOf(n, addr)
      block == IF addr.wc = -1 THEN Id(n) ELSE ShardId(n, side)
      dict == ShardState(addr.wc, n, IF addr.wc = -1 THEN 2 ELSE side)
  IN  [shard_proof |-> IF addr.wc = -1 THEN << >> ELSE <<BlockProof(Id(n)), McState(n, {side}, {})>>,
       proof |-> <<BlockProof(block),
                   [hash |-> HeaderOf(block).new_hash, accounts |-> Shown(dict, {addr.hash}, AddrBits)]>>,
       state |-> <<addr, Account(addr, n)>>]
LiteAddress(bytes) ==       \* the account a friendly address names
  [wc |-> IF bytes.wc > 127 THEN bytes.wc - 256 ELSE bytes.wc, hash |-> bytes.hash]
TransactionAnswer(addr, lt, hash, count) ==
  {[ids |-> [i \in 1..Len(txs) |-> LiteId(Id(txs[i].index + 1))], transactions |-> txs] :
     txs \in {[i \in 1..m |-> Transaction(addr, (lt \div 10) - i + 1)] :
                m \in {m \in 0..count : /\ addr \in Addresses /\ lt > 0 /\ lt \div 10 <= History[addr]
                                       /\ hash = TxHash(addr, lt \div 10)
                                       /\ (m = lt \div 10 \/ m \in {0, count - 1, count})
                                       /\ m <= lt \div 10}}}

Reply(type, answer) == [type |-> type, answer |-> answer]
Answers(req) ==
  CASE req.method = "liteServer.getMasterchainInfo" ->
         {Reply("liteServer.masterchainInfoExt", [last |-> LiteId(Id(n))]) : n \in {Top - 1, Top}}
    [] req.method = "liteServer.getBlock" ->
         {Reply("liteServer.blockData",
                [id |-> req.id, data |-> [file |-> id.file_hash, root |-> id.root_hash, block |-> HeaderOf(id)]]) :
            id \in Asked(req.id)}
    [] req.method = "liteServer.getBlockHeader" ->
         {Reply("liteServer.blockHeader", [id |-> req.id, header_proof |-> BlockProof(id)]) : id \in Asked(req.id)}
    [] req.method = "liteServer.lookupBlock" ->
         LET same == {id \in Blocks : id.workchain = req.id.workchain /\ LiteShard(id.shard) = req.id.shard}
             found == {id \in same :
                         IF req.lt > 0 THEN HeaderOf(id).end_lt >= req.lt
                         ELSE IF req.utime > 0 THEN HeaderOf(id).gen_utime >= req.utime
                         ELSE id.seqno = req.id.seqno}
         IN  {Reply("liteServer.blockHeader", [id |-> LiteId(id), header_proof |-> BlockProof(id)]) :
                id \in {id \in found : \A other \in found : id.seqno <= other.seqno}}
    [] req.method = "liteServer.getBlockProof" ->
         UNION {{Reply("liteServer.partialBlockProof",
                       [from |-> req.known_block, to |-> LiteId(Id(w[m + 1])),
                        steps |-> [i \in 1..m |-> <<w[i], w[i + 1]>>]]) : m \in {1, Len(w) - 1}} :
                  w \in {w \in Ways : /\ LiteId(Id(w[1])) = req.known_block
                                     /\ LiteId(Id(w[Len(w)])) = req.target_block}}
    [] req.method = "liteServer.getAccountState" ->
         {Reply("liteServer.accountState", AccountAnswer(id.seqno, LiteAddress(req.account))) :
            id \in {id \in Asked(req.id) : id.workchain = -1}}
    [] req.method = "liteServer.getAllShardsInfo" ->
         {Reply("liteServer.allShardsInfo",
                [proof |-> <<BlockProof(id), McState(id.seqno, {}, {})>>, data |-> ShardTree(id.seqno, {0, 1})]) :
            id \in {id \in Asked(req.id) : id.workchain = -1}}
    [] req.method = "liteServer.getTransactions" ->
         {Reply("liteServer.transactionList", a) :
            a \in TransactionAnswer(LiteAddress(req.account), req.lt, req.hash, req.count)}
    [] req.method \in {"liteServer.getConfigAll", "liteServer.getConfigParams"} ->
         {Reply("liteServer.configInfo",
                [state_proof |-> BlockProof(id),
                 config_proof |-> McState(id.seqno, {},
                   IF req.method = "liteServer.getConfigAll" THEN WholeConfig(id.seqno) ELSE req.param_list)]) :
            id \in {id \in Asked(req.id) : id.workchain = -1}}
=============================================================================
