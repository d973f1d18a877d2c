------------------------------- MODULE BlockApi -------------------------------
(* The light client of the library (Block.js): it asks nodes for blocks,      *)
(* shards, accounts, transactions and the configuration, and checks what they *)
(* answer; it follows chains of proofs from a block it knows to one it wants, *)
(* and keeps the key blocks it meets in a Storage that its pages share.       *)
(* Calls overlap: each runs until it waits for a node.                        *)
EXTENDS BlockIds

CONSTANTS
  Clients,    \* pages, each with a Storage of its own over the same local storage
  Calls,
  Asks,       \* what each call may ask: [op, retry, ...], see Enter
  First,      \* the blocks a caller trusts from the start
  Page,       \* transactions of one request, 10 in the code
  MaxRounds,  \* requests of one validation, 10000 in the code
  MaxFaults   \* bound on connections lost, nodes behind, replies mixed up and reloads
ASSUME BlockApiAssumption ==
  /\ Page \in Nat \ {0} /\ MaxRounds \in Nat /\ MaxFaults \in Nat /\ First \subseteq ChainIds
  /\ MaxFaults < MaxRounds      \* a validation is not all made of faults

\* What callers pass: a hash stands for what was hashed, so that the two hashes
\* of an id go together, and the hash of a transaction with its account; states
\* and lists are of accounts a friendly address can name, and states at blocks
\* of the masterchain.
Ops == {"getLatestId", "lookup", "getHeader", "getData", "validate", "getShards",
        "getAccountState", "getConfig", "getTransactions"}
IsId(id) ==
  /\ id = [workchain |-> id.workchain, shard |-> id.shard, seqno |-> id.seqno,
           root_hash |-> id.root_hash, file_hash |-> id.file_hash]
  /\ id.shard \in 0..255
  /\ \A b \in Blocks : b.root_hash = id.root_hash => b.file_hash = id.file_hash
IsAddress(addr) == addr = [wc |-> addr.wc, hash |-> addr.hash] /\ addr.wc \in {-1} \cup 0..127
IsTxHash(hash, addr) ==
  \A a \in Addresses : \A i \in 1..History[a] : hash = TxHash(a, i) => a.wc = addr.wc
IsAsk(ask) ==
  /\ ask.op \in Ops /\ IsId(ask.id)
  /\ ask.op = "lookup" => ask.lt \in Nat /\ ask.utime \in Nat
  /\ ask.op = "getAccountState" => /\ IsAddress(Address(ask.addr))
                                  /\ ask.id.workchain = -1 /\ ask.id.shard = Whole
  /\ ask.op = "getConfig" => ask.param \in Params \cup {-1}
  /\ ask.op = "getTransactions" =>
       /\ IsAddress(Address(ask.addr)) /\ IsTxHash(ask.hash, Address(ask.addr))
       /\ ask.max \in Nat /\ ask.lt \in Nat /\ ask.to_lt \in Int
ASSUME AsksType == \A x \in Calls : \A ask \in Asks[x] : IsAsk(ask)

VARIABLES
  known,      \* Storage.knownBlocks, of each page
  changed,    \* Storage.knownBlocksChanged
  saved,      \* the blocks in local storage, as text
  call,       \* see Idle
  faults
provider == INSTANCE LiteClient
vars == <<known, changed, saved, call, faults>>

Fail == [ok |-> FALSE]
Ok(value) == [ok |-> TRUE, value |-> value]
Idle == [pc |-> "idle", client |-> CHOOSE c \in Clients : TRUE, ask |-> [op |-> "none"],
         left |-> 0,            \* callMethod: how often it is still tried
         req |-> << >>, tries |-> 0,
         from |-> << >>, to |-> << >>, steps |-> << >>, rounds |-> 0,           \* validate
         list |-> << >>, ids |-> << >>, last |-> << >>, pending |-> 0, pages |-> 0,  \* getTransactions
         res |-> Fail,
         shortcut |-> FALSE, disturbed |-> FALSE, mixed |-> FALSE]   \* for the properties

Init ==
  /\ known = [c \in Clients |-> First]
  /\ changed = [c \in Clients |-> FALSE]
  /\ saved = {toString(id) : id \in First}
  /\ call = [x \in Calls |-> Idle]
  /\ faults = 0

(* ---- Storage -------------------------------------------------------------------- *)
addBlock(blocks, id) == {b \in blocks : b.seqno # id.seqno} \cup {id}
\* Blocks added, none or one, and a save or none.
Store(c, added, save) ==
  LET blocks == IF added = {} THEN known[c] ELSE addBlock(known[c], CHOOSE id \in added : TRUE)
      new == changed[c] \/ added # {}
  IN  /\ known' = [known EXCEPT ![c] = blocks]
      /\ changed' = [changed EXCEPT ![c] = new /\ ~save]
      /\ saved' = IF save /\ new THEN {toString(b) : b \in blocks} ELSE saved
Kept == UNCHANGED <<known, changed, saved>>
Nearest(blocks, seqno) ==       \* of two as near, the older
  LET away(b) == IF b.seqno > seqno THEN b.seqno - seqno ELSE seqno - b.seqno
  IN  CHOOSE b \in blocks : \A o \in blocks : away(b) < away(o) \/ (away(b) = away(o) /\ b.seqno <= o.seqno)

(* ---- the end of a call ------------------------------------------------------------ *)
\* callMethod calls the method again as long as it fails.
Ended(r, res) ==
  IF ~res.ok /\ r.left > 1 THEN [r EXCEPT !.left = @ - 1, !.pc = "ready"]
  ELSE [r EXCEPT !.pc = "done", !.res = res]
Set(x, r) == call' = [call EXCEPT ![x] = r]
Finish(x, r, res) ==
  /\ Set(x, Ended(r, res))
  /\ IF r.ask.op = "validate" THEN Store(r.client, {}, TRUE) ELSE Kept
Ask(r, req) == [r EXCEPT !.pc = "waiting", !.req = req, !.tries = 3]
Listing(r) == Ok([list |-> r.list, ids |-> r.ids])
\* The provider throws: only getTransactions takes that for the end of the list.
Rejected(x, r) == Finish(x, r, IF r.ask.op = "getTransactions" THEN Listing(r) ELSE Fail)

(* ---- checks ------------------------------------------------------------------------ *)
HeaderFits(h, id, seqno, shard) ==
  /\ seqno => h.seq_no = id.seqno
  /\ shard => compareShard(id, h.shard)
  /\ h.workchain_id = id.workchain
  /\ (h.not_master = 1) <=> (id.workchain # -1)
Proves(proof, id) == proof.root = id.root_hash /\ HeaderFits(proof.block, id, TRUE, TRUE)
checkBlockHeader(proof, id) ==
  /\ proof.root = id.root_hash /\ proof.block.version = 0
  /\ proof.block.workchain_id = id.workchain /\ compareShard(id, proof.block.shard) /\ proof.block.seq_no = id.seqno

\* Faulty: the logical time is not looked at.
lookupAnyLt(ask, a) ==
  LET id == fromLiteId(a.id)
      h == a.header_proof.block
  IN  IF /\ a.header_proof.root = id.root_hash
         /\ HeaderFits(h, ask.id, ask.lt = 0 /\ ask.utime = 0, TRUE)
         /\ ask.utime > 0 => h.gen_utime = ask.utime
      THEN Ok([id |-> id, block |-> h]) ELSE Fail
lookup(ask, a) ==
  LET id == fromLiteId(a.id)
      h == a.header_proof.block
  IN  IF /\ a.header_proof.root = id.root_hash
         /\ HeaderFits(h, ask.id, ask.lt = 0 /\ ask.utime = 0, TRUE)
         /\ ask.utime > 0 => h.gen_utime = ask.utime
         /\ ask.lt > 0 => h.start_lt <= ask.lt /\ ask.lt <= h.end_lt
      THEN Ok([id |-> id, block |-> h]) ELSE Fail
getHeader(ask, a) == IF Proves(a.header_proof, ask.id) THEN Ok(a.header_proof.block) ELSE Fail
getData(ask, a) ==
  IF a.data.file = ask.id.file_hash /\ Proves(a.data, ask.id) THEN Ok(a.data.block) ELSE Fail
getShards(ask, a) ==
  IF /\ Proves(a.proof[1], ask.id)
     /\ a.proof[1].block.new_hash = a.proof[2].hash
     /\ a.data = a.proof[2].shards_hash
  THEN Ok(a.data) ELSE Fail

\* Hashmap keeps the prefix of a pruned branch as a number of all the key's
\* bits, so that it is the start of the key only when it is the whole key.
LooksPruned(dict, key) == \E p \in dict.prunned : p[2] = key
getConfig(ask, a) ==
  LET config == a.config_proof.config
  IN  IF ~Proves(a.state_proof, ask.id) \/ a.state_proof.block.new_hash # a.config_proof.hash THEN Fail
      ELSE IF ask.param = -1 THEN Ok(config.map)
      ELSE IF ask.param \in DOMAIN config.map THEN Ok(config.map[ask.param])
      ELSE IF LooksPruned(config, ask.param) THEN Fail
      ELSE Ok(<< >>)

_shardGetFromHashmap(tree, hash) ==
  LET node[i \in 0..(AddrBits - 1)] ==
        IF i = 0 THEN tree
        ELSE IF node[i - 1].type # "fork" THEN node[i - 1]
        ELSE IF (hash \div 2^(AddrBits - i)) % 2 = 0 THEN node[i - 1].left ELSE node[i - 1].right
  IN  node[AddrBits - 1]
ShardBlock(ask, a) ==           \* the block the account's shard is at; none if unproved
  LET addr == Address(ask.addr)
      descr == _shardGetFromHashmap(a.shard_proof[2].shard_hashes, addr.hash)
  IN  IF addr.wc = -1 THEN {ask.id}
      ELSE IF /\ Len(a.shard_proof) = 2 /\ Proves(a.shard_proof[1], ask.id)
              /\ a.shard_proof[1].block.new_hash = a.shard_proof[2].hash
              /\ descr.type = "leaf"
           THEN {[workchain |-> addr.wc, shard |-> 0, seqno |-> descr.leaf.seq_no,
                  root_hash |-> descr.leaf.root_hash, file_hash |-> descr.leaf.file_hash]}
           ELSE {}
StateIn(ask, a, id) ==
  LET hash == Address(ask.addr).hash
      accounts == a.proof[2].accounts
  IN  IF ~(/\ a.proof[1].root = id.root_hash
           /\ HeaderFits(a.proof[1].block, id, TRUE, FALSE)
           /\ a.proof[1].block.new_hash = a.proof[2].hash) THEN Fail
      ELSE IF hash \notin DOMAIN accounts.map
           THEN IF LooksPruned(accounts, hash) THEN Fail ELSE Ok([txs |-> 0, block |-> id])
      ELSE IF a.state # <<[wc |-> id.workchain, hash |-> hash], accounts.map[hash]>> THEN Fail
      ELSE Ok([txs |-> accounts.map[hash], block |-> ask.id])
getAccountState(ask, a) ==
  IF ShardBlock(ask, a) = {} THEN Fail
  ELSE StateIn(ask, a, CHOOSE id \in ShardBlock(ask, a) : TRUE)

(* The chain of transactions: each is the one its successor named.            *)
getTransactions(r, a) ==
  LET txs == a.transactions
      addr == Address(r.ask.addr)
      stops == {i \in DOMAIN txs : r.ask.to_lt >= 0 /\ txs[i].prev_trans_lt <= r.ask.to_lt}
      upto == IF stops = {} THEN Len(txs) ELSE CHOOSE i \in stops : \A j \in stops : i <= j
      named(i) == IF i = 1 THEN r.last ELSE <<txs[i - 1].prev_trans_lt, txs[i - 1].prev_trans_hash>>
      next == [r EXCEPT !.list = @ \o SubSeq(txs, 1, upto), !.ids = @ \o SubSeq(a.ids, 1, upto),
                        !.pending = @ - Len(txs), !.pages = @ - 1,
                        !.last = <<txs[upto].prev_trans_lt, txs[upto].prev_trans_hash>>]
  IN  IF txs = << >> THEN Ended(r, Listing(r))
      ELSE IF Len(txs) # Len(a.ids) \/
              \E i \in 1..upto : ~(/\ <<txs[i].lt, txs[i].hash>> = named(i)
                                   /\ txs[i].account_addr = addr.hash) THEN Ended(r, Fail)
      ELSE IF stops # {} \/ next.last[1] <= 0 \/ next.pages = 0 \/ Len(txs) # r.req.count
           THEN Ended(next, Listing(next))
      ELSE Ask(next, provider!getTransactions(IF next.pending < Page THEN next.pending ELSE Page,
                                              r.ask.addr, next.last[1], next.last[2]))

(* ---- validate: the validators of a block, and the links of a proof ------------- *)
Prng(cc) == [data |-> <<cc, 0>>, pos |-> 0, limit |-> 0, hash |-> << >>, out |-> 0]
\* Faulty: the seed stays.
next_ulongSameSeed(g) ==
  IF g.pos < g.limit THEN [g EXCEPT !.out = g.hash[g.pos + 1], !.pos = @ + 1]
  ELSE LET hash == Hash512(g.data[1], g.data[2])
       IN  [g EXCEPT !.hash = hash, !.pos = 1, !.limit = Batch, !.out = hash[1]]
next_ulong(g) ==
  IF g.pos < g.limit THEN [g EXCEPT !.out = g.hash[g.pos + 1], !.pos = @ + 1]
  ELSE LET hash == Hash512(g.data[1], g.data[2])
       IN  [g EXCEPT !.hash = hash, !.data[2] = @ + 1, !.pos = 1, !.limit = Batch, !.out = hash[1]]
next_ranged(y, range) == (y * range) \div WordRange
_compute_validators_set(cc, set, count, shuffle) ==
  LET gen[i \in 0..count] == IF i = 0 THEN Prng(cc) ELSE next_ulong(gen[i - 1])
      idx[i \in 0..count] ==    \* a validator is told by its place in the list, from 0
        IF i = 0 THEN Each([k \in 1..count |-> 0])
        ELSE LET last == idx[i - 1]
                 j == 1 + next_ranged(gen[i].out, i)
             IN  [last EXCEPT ![i] = IF j = i THEN i - 1 ELSE last[j], ![j] = i - 1]
      order == idx[count]
  IN  Each([i \in 1..count |-> set.list[IF shuffle THEN order[i] ELSE i - 1]])
_validators_crc32c(nodes, cc) == <<cc, nodes>>
Total(nodes) == FoldFunction(LAMBDA v, w : v.weight + w, 0, nodes)

SourceFits(k) ==
  IF k.from.seqno > 0 THEN checkBlockHeader(k.proof[1], k.from) ELSE k.proof[1].root = k.from.root_hash
DestFits(k) ==
  k.to.seqno > 0 => /\ Len(k.dest_proof) > 0
                    /\ checkBlockHeader(k.dest_proof[1], k.to)
                    /\ k.dest_proof[1].block.key_block = k.to_key_block
BackLinkFits(k) ==
  LET state == k.state_proof[1]
  IN  /\ Len(k.state_proof) > 0
      /\ k.proof[1].block.new_hash = state.hash
      /\ k.to.seqno \in DOMAIN state.prev_blocks
      /\ LET prev == state.prev_blocks[k.to.seqno]
         IN  prev.seqno = k.to.seqno /\ prev.file_hash = k.to.file_hash /\ prev.root_hash = k.to.root_hash
ValidatorsOf(config) == IF 35 \in DOMAIN config THEN config[35] ELSE config[34]
ForwardLinkFits(k) ==
  LET config == IF k.from.seqno = 0 THEN k.proof[1].config ELSE k.proof[1].block.config
      info == k.dest_proof[1].block
      set == ValidatorsOf(config)
      count == IF set.main < set.total THEN set.main ELSE set.total
      nodes == _compute_validators_set(info.gen_catchain_seqno, set, count, config[28].shuffle_mc_validators)
      list_hash == _validators_crc32c(nodes, info.gen_catchain_seqno)
      node_list == [id \in {nodes[i].pubkey : i \in DOMAIN nodes} |->
                      nodes[CHOOSE i \in DOMAIN nodes : nodes[i].pubkey = id]]
  IN  /\ Len(k.signatures) > 0
      /\ list_hash = info.gen_validator_list_hash_short /\ list_hash = k.set_hash
      /\ \A i \in DOMAIN k.signatures :
           /\ k.signatures[i].node_id_short \in DOMAIN node_list
           /\ k.signatures[i].signed = <<k.to.root_hash, k.to.file_hash>>
      /\ 3 * Total([i \in DOMAIN k.signatures |-> node_list[k.signatures[i].node_id_short]]) > 2 * Total(nodes)
InMasterchain(id, shard) == id.workchain = -1 /\ compareShard(shard, id.shard)
LinkFits(link, curr) ==
  LET k == [link EXCEPT !.from = fromLiteId(link.from), !.to = fromLiteId(link.to)]
      fwd == k.type = "liteServer.blockLinkForward"
  IN  /\ k.type \in {"liteServer.blockLinkForward", "liteServer.blockLinkBack"}
      /\ compare(curr, k.from)
      /\ InMasterchain(k.from, curr) /\ InMasterchain(k.to, curr)
      /\ k.from.seqno # k.to.seqno /\ (fwd <=> (k.to.seqno > k.from.seqno))
      /\ SourceFits(k) /\ DestFits(k)
      /\ IF fwd THEN ForwardLinkFits(k) ELSE BackLinkFits(k)
\* The links nodes show, each with the blocks it fits on: worked out once.
FittingLinks ==
  UNION {{[hop |-> hop, on |-> id, to |-> fromLiteId(Link(hop).to), key |-> Link(hop).to_key_block] :
            id \in {id \in ChainIds : LinkFits(Link(hop), id)}} : hop \in Hops}

(* ---- actions --------------------------------------------------------------------- *)
Start(x) ==
  /\ call[x].pc = "idle"
  /\ \E c \in Clients, ask \in Asks[x] :
       Set(x, [Idle EXCEPT !.pc = "ready", !.client = c, !.ask = ask, !.left = ask.retry])
  /\ Kept /\ UNCHANGED faults

(* What a method does before it first waits.                                  *)
Validate(x, r) ==
  LET blocks == known[r.client]
      from == Nearest(blocks, r.ask.id.seqno)
  IN  IF \E b \in blocks : b.seqno = r.ask.id.seqno
      THEN Set(x, Ended([r EXCEPT !.shortcut = TRUE], Ok(TRUE))) /\ Kept
      ELSE IF blocks = {} THEN Finish(x, r, Fail)
      ELSE Set(x, Ask([r EXCEPT !.from = from, !.rounds = 0], provider!getBlockProof(from, r.ask.id))) /\ Kept
ListFrom(r) ==
  LET requests == (r.ask.max + Page - 1) \div Page
      first == [r EXCEPT !.list = << >>, !.ids = << >>, !.last = <<r.ask.lt, r.ask.hash>>,
                         !.pending = r.ask.max, !.pages = requests]
  IN  IF r.ask.to_lt >= 0 /\ r.ask.lt <= r.ask.to_lt THEN Ended(r, Fail)
      ELSE IF requests = 0 THEN Ended(first, Listing(first))
      ELSE Ask(first, provider!getTransactions(IF r.ask.max < Page THEN r.ask.max ELSE Page,
                                               r.ask.addr, r.ask.lt, r.ask.hash))
Request(ask) ==
  CASE ask.op = "getLatestId"     -> provider!getLatestBlockId
    [] ask.op = "lookup"          -> provider!lookupBlock(ask.id, ask.lt, ask.utime)
    [] ask.op = "getHeader"       -> provider!getBlockHeader(ask.id)
    [] ask.op = "getData"         -> provider!getBlock(ask.id)
    [] ask.op = "getShards"       -> provider!getAllShardsInfo(ask.id)
    [] ask.op = "getAccountState" -> provider!getAccountState(ask.id, ask.addr)
    [] ask.op = "getConfig"       -> IF ask.param = -1 THEN provider!getConfigAll(ask.id)
                                     ELSE provider!getConfigParams(ask.id, {ask.param})
Enter(x) ==
  LET r == call[x]
  IN  /\ r.pc = "ready"
      /\ CASE r.ask.op = "validate" -> Validate(x, r)
           [] r.ask.op = "getTransactions" -> Set(x, ListFrom(r)) /\ Kept
           [] r.ask.op \in {"getShards", "getConfig"} /\ r.ask.id.workchain # -1 -> Finish(x, r, Fail)
           [] OTHER -> Set(x, Ask(r, Request(r.ask))) /\ Kept
      /\ UNCHANGED faults

(* What it does with an answer.                                               *)
Result(ask, a) ==
  CASE ask.op = "getLatestId"     -> Ok(fromLiteId(a.last))
    [] ask.op = "lookup"          -> lookup(ask, a)
    [] ask.op = "getHeader"       -> getHeader(ask, a)
    [] ask.op = "getData"         -> getData(ask, a)
    [] ask.op = "getShards"       -> getShards(ask, a)
    [] ask.op = "getAccountState" -> getAccountState(ask, a)
    [] ask.op = "getConfig"       -> getConfig(ask, a)
TakeProof(x, r, a) ==
  LET from == fromLiteId(a.from)
      to == fromLiteId(a.to)
  IN  IF /\ compare(r.from, from) /\ InMasterchain(from, r.ask.id) /\ InMasterchain(to, r.ask.id)
         /\ Len(a.steps) > 0
      THEN Set(x, [r EXCEPT !.pc = "linking", !.from = from, !.to = to, !.steps = a.steps]) /\ Kept
      ELSE Finish(x, r, Fail)
Take(x, r, reply) ==
  IF reply.type # r.req.type THEN Rejected(x, r)
  ELSE CASE r.ask.op = "validate" -> TakeProof(x, r, reply.answer)
         [] r.ask.op = "getTransactions" -> Set(x, getTransactions(r, reply.answer)) /\ Kept
         [] OTHER -> Finish(x, r, Result(r.ask, reply.answer))
Waiting(x) == call[x].pc = "waiting"
Receive(x) ==
  /\ Waiting(x)
  /\ \E reply \in Answers(call[x].req) : Take(x, call[x], reply)
  /\ UNCHANGED faults

(* One link of a proof.  The last one ends the request, and the call if it    *)
(* has reached the block that was asked for or has asked often enough.        *)
CheckLink(x) ==
  LET r == call[x]
      fit == {l \in FittingLinks : l.hop = Head(r.steps) /\ l.on = r.from}
      link == CHOOSE l \in fit : TRUE
      added == IF link.key THEN {link.to} ELSE {}
      on == [r EXCEPT !.from = link.to, !.steps = Tail(@)]
      round == [on EXCEPT !.from = r.to, !.rounds = @ + 1]
      over == compare(r.ask.id, r.to) \/ round.rounds = MaxRounds
  IN  /\ r.pc = "linking"
      /\ IF fit = {} THEN Finish(x, r, Fail)
         ELSE IF on.steps # << >> THEN Set(x, on) /\ Store(r.client, added, FALSE)
         ELSE IF over THEN Set(x, Ended(round, Ok(TRUE))) /\ Store(r.client, added, TRUE)
         ELSE /\ Set(x, Ask(round, provider!getBlockProof(r.to, r.ask.id)))
              /\ Store(r.client, added, FALSE)
      /\ UNCHANGED faults

(* ---- what nodes, connections and pages may do --------------------------------------- *)
Disturb(x) == [call[x] EXCEPT !.disturbed = TRUE]
\* The connection fails; the request is tried again, three times in all.
Lose(x) ==
  /\ Waiting(x) /\ faults < MaxFaults /\ faults' = faults + 1
  /\ LET r == [Disturb(x) EXCEPT !.tries = @ - 1]
     IN  IF r.tries > 0 THEN Set(x, r) /\ Kept ELSE Rejected(x, r)
\* The node answers with an error, as it has to when there is nothing to tell.
Refuse(x) ==
  /\ Waiting(x) /\ Answers(call[x].req) = {}
  /\ Rejected(x, call[x]) /\ UNCHANGED faults
Behind(x) ==
  /\ Waiting(x) /\ Answers(call[x].req) # {}
  /\ faults < MaxFaults /\ faults' = faults + 1
  /\ Rejected(x, Disturb(x))
\* A call is given the answer to another that waits too.
MixUp(x) ==
  /\ Waiting(x) /\ faults < MaxFaults /\ faults' = faults + 1
  /\ \E y \in Calls \ {x} :
       /\ Waiting(y)
       /\ \E reply \in Answers(call[y].req) : Take(x, [Disturb(x) EXCEPT !.mixed = TRUE], reply)
\* A page is loaded again: its calls are gone, and so is what was not saved.
Reload(c) ==
  /\ faults < MaxFaults /\ faults' = faults + 1
  /\ known' = [known EXCEPT ![c] = {fromString(s) : s \in saved}]
  /\ changed' = [changed EXCEPT ![c] = FALSE]
  /\ call' = [x \in Calls |-> IF call[x].client = c /\ call[x].pc \notin {"idle", "done"}
                              THEN [call[x] EXCEPT !.pc = "dropped"] ELSE call[x]]
  /\ UNCHANGED saved

Step(x) == Enter(x) \/ Receive(x) \/ CheckLink(x) \/ Refuse(x)
Next ==
  \/ \E x \in Calls : Start(x) \/ Step(x) \/ Lose(x) \/ Behind(x) \/ MixUp(x)
  \/ \E c \in Clients : Reload(c)
\* A promise the code waits for is settled, and then the call goes on.
Fairness == \A x \in Calls : WF_vars(Step(x))
Spec == Init /\ [][Next]_vars /\ Fairness

(* ---- what the answers are worth ------------------------------------------------------- *)
RightLookup(ask, v) ==
  /\ v.id \in Blocks /\ v.block = HeaderOf(v.id)
  /\ v.id.workchain = ask.id.workchain /\ v.id.shard = ask.id.shard
  /\ IF ask.lt = 0 /\ ask.utime = 0 THEN v.id.seqno = ask.id.seqno
     ELSE /\ ask.lt > 0 => ask.lt \in HeaderOf(v.id).start_lt..HeaderOf(v.id).end_lt
          /\ ask.utime > 0 => HeaderOf(v.id).gen_utime = ask.utime
ConfigAt(n) == Config(Largest({k \in KeyBlocks \cup {0} : k <= n}))
RightConfig(r) ==
  LET config == ConfigAt(r.ask.id.seqno)
      v == r.res.value
  IN  \/ /\ r.ask.param = -1
         /\ \A p \in DOMAIN v : p \in DOMAIN config /\ v[p] = config[p]
         /\ DOMAIN config \subseteq DOMAIN v \/ r.mixed
      \/ r.ask.param \in DOMAIN config /\ v = config[r.ask.param]
      \/ v = << >> /\ (r.ask.param \notin DOMAIN config \/ r.mixed)
RightAccount(r) ==
  \/ r.res.value.txs = Account(Address(r.ask.addr), r.ask.id.seqno)
  \/ r.res.value.txs = 0 /\ r.mixed
RightList(r) ==
  LET list == r.res.value.list
      first == r.ask.lt \div 10
  IN  /\ Len(list) <= r.ask.max \/ r.mixed
      /\ \A i \in DOMAIN list :
           /\ list[i] = Transaction(Address(r.ask.addr), first - i + 1)
           /\ r.ask.to_lt >= 0 => list[i].lt > r.ask.to_lt
Right(r) ==
  CASE r.ask.op = "getLatestId" -> r.res.value \in ChainIds
    [] r.ask.op = "lookup" -> RightLookup(r.ask, r.res.value)
    [] r.ask.op \in {"getHeader", "getData"} -> r.ask.id \in Blocks /\ r.res.value = HeaderOf(r.ask.id)
    [] r.ask.op = "validate" -> r.ask.id \in ChainIds \/ r.shortcut
    [] r.ask.op = "getShards" -> r.ask.id \in ChainIds /\ r.res.value = ShardTree(r.ask.id.seqno, {0, 1})
    [] r.ask.op = "getAccountState" -> r.ask.id \in ChainIds /\ RightAccount(r)
    [] r.ask.op = "getConfig" -> r.ask.id \in ChainIds /\ RightConfig(r)
    [] r.ask.op = "getTransactions" -> RightList(r)

(* A method that ends well has said what is on the chain of the block, shard, *)
(* account or parameter it was asked about, though the answer it worked on    *)
(* was another call's or another node's; a list of transactions has no gap.   *)
(* Three exceptions are the code's: a block is taken as valid when any block  *)
(* of its number is known (Block.js:310); what the proof prunes is told to    *)
(* be missing when the proof was made for another key (Block.js:859, 975);    *)
(* and a list made for a longer question is taken whole (Block.js:661).       *)
AnswersMatch == \A x \in Calls : call[x].pc = "done" /\ call[x].res.ok => Right(call[x])

Answerable(ask) ==
  CASE ask.op = "lookup" ->
         LET same == {id \in Blocks : id.workchain = ask.id.workchain /\ id.shard = ask.id.shard}
         IN  \E id \in same :
               /\ ask.lt > 0 => ask.lt \in HeaderOf(id).start_lt..HeaderOf(id).end_lt
               /\ ask.utime > 0 => HeaderOf(id).gen_utime = ask.utime
               /\ (ask.lt = 0 /\ ask.utime = 0) => id.seqno = ask.id.seqno
    [] ask.op \in {"getHeader", "getData"} -> ask.id \in Blocks
    [] ask.op = "validate" -> ask.id \in ChainIds
    [] ask.op \in {"getShards", "getAccountState", "getConfig"} -> ask.id \in ChainIds \ {Id(0)}
    [] ask.op = "getTransactions" -> ask.lt > ask.to_lt
    [] OTHER -> TRUE
(* Every call ends, and what the chain can tell is told: an honest proof, of  *)
(* any way forward or back, with the validators of any key block, is accepted *)
(* and leads to the block, unless a connection, a node or a page failed it.   *)
HonestAnswered ==
  \A x \in Calls : call[x].pc = "ready" ~>
    \/ call[x].pc = "dropped"
    \/ call[x].pc = "done" /\ (call[x].res.ok \/ call[x].disturbed \/ ~Answerable(call[x].ask))
=============================================================================
