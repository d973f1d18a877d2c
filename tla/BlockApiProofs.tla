---------------------------- MODULE BlockApiProofs ----------------------------
(* Proofs about BlockApi for any chain, any number of calls and any questions: *)
(* what the methods accept is so, though replies are mixed up.                 *)
EXTENDS BlockApi, SequenceTheorems, WellFoundedInduction, TLAPS

(* A sequence told element by element is the sequence.                         *)
LEMMA EachIs ==
  ASSUME NEW n \in Nat, NEW S, NEW f \in [1..n -> S]
  PROVE  Each(f) = f /\ f \in Seq(S) /\ Len(f) = n
<1>1. f \in Seq(S) /\ Len(f) = n
  BY LenProperties, SeqDef
<1>2. Each(f) = f
  BY <1>1, EmptySeq, ConcatEmptySeq DEF Each
<1>3. QED
  BY <1>1, <1>2

(* The header of a masterchain block.                                          *)
LEMMA HeaderIs ==
  ASSUME NEW n \in 1..Top
  PROVE  /\ Header(n).workchain_id = -1 /\ Header(n).shard = Whole
         /\ Header(n).seq_no = n
         /\ Header(n) = [version |-> 0, not_master |-> 0, workchain_id |-> -1, shard |-> Whole, seq_no |-> n,
              key_block |-> n \in KeyBlocks, gen_utime |-> 100 + 2 * n, start_lt |-> 10 * n, end_lt |-> 10 * n + 5,
              gen_catchain_seqno |-> Catchain(n), gen_validator_list_hash_short |-> ListHash(n),
              new_hash |-> StateHash(-1, n, 2), config |-> IF n \in KeyBlocks THEN Config(n) ELSE << >>]
<1> DEFINE head(k) ==
      [version |-> 0, not_master |-> 0, workchain_id |-> -1, shard |-> Whole, seq_no |-> k,
       key_block |-> k \in KeyBlocks, gen_utime |-> 100 + 2 * k, start_lt |-> 10 * k, end_lt |-> 10 * k + 5,
       gen_catchain_seqno |-> Catchain(k), gen_validator_list_hash_short |-> ListHash(k),
       new_hash |-> StateHash(-1, k, 2), config |-> IF k \in KeyBlocks THEN Config(k) ELSE << >>]
    f == [k \in 1..Top |-> head(k)]
<1>1. Headers = Each(f)
  BY DEF Headers
<1>2. f \in [1..Top -> {head(k) : k \in 1..Top}]
  OBVIOUS
<1> HIDE DEF f
<1>3. Headers = f
  BY <1>1, <1>2, EachIs, LiteServerAssumption
<1>4. Header(n) = head(n)
  BY <1>3 DEF Header, f
<1>5. QED
  BY <1>4

(* Fields of an id, and the form in which a node sends it and gets it back.    *)
LEMMA SentBack ==
  ASSUME NEW id, id.shard \in {128, 64, 192},
         id = [workchain |-> id.workchain, shard |-> id.shard, seqno |-> id.seqno,
               root_hash |-> id.root_hash, file_hash |-> id.file_hash]
  PROVE  /\ LiteId(id) = [workchain |-> id.workchain, shard |-> LiteShard(id.shard), seqno |-> id.seqno,
                          root_hash |-> id.root_hash, file_hash |-> id.file_hash]
         /\ fromLiteId(LiteId(id)) = id
<1> DEFINE sent == [workchain |-> id.workchain, shard |-> LiteShard(id.shard), seqno |-> id.seqno,
                   root_hash |-> id.root_hash, file_hash |-> id.file_hash]
<1>1. LiteId(id) = sent
  BY DEF LiteId
<1>2. longToBN(sent.shard) = id.shard
  BY DEF LiteShard, longToBN, Unsigned, Whole, Half
<1>3. fromLiteId(sent) = [workchain |-> id.workchain, shard |-> id.shard, seqno |-> id.seqno,
                          root_hash |-> id.root_hash, file_hash |-> id.file_hash]
  BY <1>2 DEF fromLiteId
<1>4. QED
  BY <1>1, <1>3

(* An id of the chain, its forms, and the header of its block.                 *)
LEMMA MasterIs ==
  ASSUME NEW n \in Masters
  PROVE  /\ Id(n) \in ChainIds /\ fromLiteId(LiteId(Id(n))) = Id(n)
         /\ n \in 1..Top => Id(n) \in Blocks /\ HeaderOf(Id(n)) = Header(n)
<1>1. /\ Id(n).shard \in {128, 64, 192}
      /\ Id(n) = [workchain |-> Id(n).workchain, shard |-> Id(n).shard, seqno |-> Id(n).seqno,
                  root_hash |-> Id(n).root_hash, file_hash |-> Id(n).file_hash]
  BY DEF Id, Whole
<1>2. fromLiteId(LiteId(Id(n))) = Id(n)
  BY <1>1, SentBack
<1>3. n \in 1..Top => HeaderOf(Id(n)) = Header(n)
  BY DEF HeaderOf, Id
<1>4. QED
  BY <1>2, <1>3 DEF ChainIds, Blocks

(* What a block of the chain is: its id as sent and back, and its header.     *)
LEMMA BlockIs ==
  ASSUME NEW id \in Blocks
  PROVE  /\ id = [workchain |-> id.workchain, shard |-> id.shard, seqno |-> id.seqno,
                  root_hash |-> id.root_hash, file_hash |-> id.file_hash]
         /\ id.shard \in {128, 64, 192}
         /\ fromLiteId(LiteId(id)) = id
         /\ HeaderOf(id).workchain_id = id.workchain
         /\ HeaderOf(id).shard = id.shard
         /\ HeaderOf(id).seq_no = id.seqno
         /\ HeaderOf(id).start_lt \in Int /\ HeaderOf(id).end_lt \in Int
         /\ id.workchain = -1 => id.seqno \in 1..Top /\ id = Id(id.seqno)
<1>0. Top \in Nat
  BY LiteServerAssumption
<1>1. ASSUME NEW n \in 1..Top, id = Id(n)
      PROVE  /\ id = [workchain |-> -1, shard |-> 128, seqno |-> n, root_hash |-> id.root_hash,
                      file_hash |-> id.file_hash]
             /\ HeaderOf(id) = Header(n)
  BY <1>1 DEF Id, HeaderOf, Whole
<1>2. CASE \E n \in 1..Top : id = Id(n)
  <2>1. PICK n \in 1..Top : id = Id(n)
    BY <1>2
  <2>2. fromLiteId(LiteId(id)) = id
    BY <1>0, <2>1, MasterIs DEF Masters
  <2>3. QED
    BY <1>1, <2>1, <2>2, HeaderIs DEF Whole
<1>3. CASE \E n \in 1..Top, side \in 0..2 : id = ShardId(n, side)
  <2>1. PICK n \in 1..Top, side \in 0..2 : id = ShardId(n, side)
    BY <1>3
  <2>2. /\ id = [workchain |-> 0, shard |-> id.shard, seqno |-> 10 + n, root_hash |-> id.root_hash,
                 file_hash |-> id.file_hash]
        /\ id.shard \in {128, 64, 192}
    BY <2>1 DEF ShardId, Whole, Half
  <2>3. PICK s \in 0..2 : ShardId(n, s) = id /\ HeaderOf(id) = ShardHeader(n, s)
    <3>1. id.workchain # -1 /\ id.seqno - 10 = n
      BY <2>2
    <3> DEFINE s == CHOOSE s \in 0..2 : ShardId(n, s) = id
    <3>2. s \in 0..2 /\ ShardId(n, s) = id
      BY <2>1
    <3>3. HeaderOf(id) = ShardHeader(n, s)
      BY <3>1 DEF HeaderOf
    <3>4. QED
      BY <3>2, <3>3
  <2>4. /\ ShardHeader(n, s).workchain_id = 0
        /\ ShardHeader(n, s).shard = ShardId(n, s).shard
        /\ ShardHeader(n, s).seq_no = 10 + n
        /\ ShardHeader(n, s).start_lt \in Int /\ ShardHeader(n, s).end_lt \in Int
    BY HeaderIs DEF ShardHeader
  <2>5. fromLiteId(LiteId(id)) = id
    BY <2>2, SentBack
  <2>6. QED
    BY <2>2, <2>3, <2>4, <2>5
<1>4. QED
  BY <1>2, <1>3 DEF Blocks, ShardIds

(* Where the hashes of an id go together, what is proved of it is of its block. *)
LEMMA ProvedIsIt ==
  ASSUME NEW id \in Blocks, NEW asked, IsId(asked), Proves(BlockProof(id), asked)
  PROVE  asked = id
<1>1. /\ id.root_hash = asked.root_hash /\ HeaderOf(id).seq_no = asked.seqno
      /\ asked.shard = HeaderOf(id).shard /\ HeaderOf(id).workchain_id = asked.workchain
  BY DEF Proves, HeaderFits, BlockProof, compareShard
<1>2. asked = [workchain |-> asked.workchain, shard |-> asked.shard, seqno |-> asked.seqno,
               root_hash |-> asked.root_hash, file_hash |-> asked.file_hash]
      /\ id.file_hash = asked.file_hash
  BY <1>1 DEF IsId
<1>3. QED
  BY <1>1, <1>2, BlockIs

(* A shard is not confused with another by the form it is sent in.              *)
LEMMA SentIsIt ==
  ASSUME NEW asked, IsId(asked), NEW id,
         id = [workchain |-> id.workchain, shard |-> id.shard, seqno |-> id.seqno,
               root_hash |-> id.root_hash, file_hash |-> id.file_hash],
         id.shard \in {128, 64, 192}, toLiteId(asked) = LiteId(id)
  PROVE  asked = id
<1>1. /\ asked = [workchain |-> asked.workchain, shard |-> asked.shard, seqno |-> asked.seqno,
                  root_hash |-> asked.root_hash, file_hash |-> asked.file_hash]
      /\ asked.shard \in 0..255
  BY DEF IsId
<1>2. toLiteId(asked) = [workchain |-> asked.workchain, shard |-> longFromBN(asked.shard),
                         seqno |-> asked.seqno, root_hash |-> asked.root_hash, file_hash |-> asked.file_hash]
  BY <1>1 DEF toLiteId
<1>3. LiteId(id) = [workchain |-> id.workchain, shard |-> LiteShard(id.shard), seqno |-> id.seqno,
                    root_hash |-> id.root_hash, file_hash |-> id.file_hash]
  BY SentBack
<1>4. /\ longFromBN(asked.shard) = LiteShard(id.shard)
      /\ asked.workchain = id.workchain /\ asked.seqno = id.seqno
      /\ asked.root_hash = id.root_hash /\ asked.file_hash = id.file_hash
  <2> DEFINE sent == toLiteId(asked)
  <2>1. /\ sent.workchain = asked.workchain /\ sent.shard = longFromBN(asked.shard)
        /\ sent.seqno = asked.seqno /\ sent.root_hash = asked.root_hash /\ sent.file_hash = asked.file_hash
    BY <1>2
  <2>2. sent = LiteId(id)
    OBVIOUS
  <2> HIDE DEF sent
  <2>3. /\ sent.workchain = id.workchain /\ sent.shard = LiteShard(id.shard)
        /\ sent.seqno = id.seqno /\ sent.root_hash = id.root_hash /\ sent.file_hash = id.file_hash
    BY <1>3, <2>2
  <2>4. QED
    BY <2>1, <2>3
<1>5. asked.shard = id.shard
  <2> DEFINE shard == asked.shard  low == shard % 16  high == shard \div 16
  <2>0. shard \in 0..255
    BY <1>1
  <2> HIDE DEF shard
  <2>1. low \in 0..15 /\ high \in 0..15 /\ shard = 16 * high + low
    BY <2>0
  <2> HIDE DEF low, high
  <2>2. <<Signed(low), Signed(high)>> = LiteShard(id.shard)
    BY <1>4 DEF longFromBN, shard, low, high
  <2>3. /\ id.shard = 128 => LiteShard(id.shard) = <<0, -8>>
        /\ id.shard = 64 => LiteShard(id.shard) = <<0, 4>>
        /\ id.shard = 192 => LiteShard(id.shard) = <<0, -4>>
    BY DEF LiteShard, Whole, Half
  <2>4. /\ Signed(low) = 0
        /\ id.shard = 128 => Signed(high) = -8
        /\ id.shard = 64 => Signed(high) = 4
        /\ id.shard = 192 => Signed(high) = -4
    BY <2>2, <2>3
  <2>5. QED
    BY <2>1, <2>4 DEF Signed, shard
<1>6. QED
  BY <1>1, <1>4, <1>5

(* ---- what is true of the calls ------------------------------------------------- *)
\* A reply of an honest node, whatever it was asked.
ListPart(addr, k, m) == [i \in 1..m |-> Transaction(addr, k - i + 1)]
TrueReply(reply) ==
  LET a == reply.answer
  IN  CASE reply.type = "liteServer.masterchainInfoExt" -> \E id \in ChainIds : a.last = LiteId(id)
        [] reply.type = "liteServer.blockHeader" ->
             \E id \in Blocks : a.id = LiteId(id) /\ a.header_proof = BlockProof(id)
        [] reply.type = "liteServer.blockData" ->
             \E id \in Blocks : a.data = [file |-> id.file_hash, root |-> id.root_hash, block |-> HeaderOf(id)]
        [] reply.type = "liteServer.partialBlockProof" -> \E id \in ChainIds : a.to = LiteId(id)
        [] reply.type = "liteServer.accountState" ->
             \E n \in 1..Top : \E addr : a = AccountAnswer(n, addr)
        [] reply.type = "liteServer.allShardsInfo" ->
             \E n \in 1..Top : /\ a.proof = <<BlockProof(Id(n)), McState(n, {}, {})>>
                               /\ a.data = ShardTree(n, {0, 1})
        [] reply.type = "liteServer.transactionList" ->
             \E addr \in Addresses : \E k \in 0..History[addr], m \in Nat :
               m <= k /\ a.transactions = ListPart(addr, k, m) /\ Len(a.ids) = m
        [] reply.type = "liteServer.configInfo" ->
             \E n \in 1..Top, p \in Openings : /\ a.state_proof = BlockProof(Id(n))
                                               /\ a.config_proof = McState(n, {}, p)
        [] OTHER -> FALSE
\* What a node says to the question itself, beyond that.
Own(r, reply) ==
  LET a == reply.answer
      n == r.ask.id.seqno
  IN  CASE r.ask.op = "validate" -> r.ask.id \in ChainIds
        [] r.ask.op = "getAccountState" -> a = AccountAnswer(n, Address(r.ask.addr))
        [] r.ask.op = "getConfig" ->
             a.config_proof = McState(n, {}, IF r.ask.param = -1 THEN WholeConfig(n) ELSE {r.ask.param})
        [] r.ask.op = "getTransactions" -> Len(a.transactions) <= r.req.count
        [] OTHER -> TRUE
\* What a call that waits has asked.
OwnRequest(r) ==
  CASE r.ask.op = "validate" -> \E from : r.req = provider!getBlockProof(from, r.ask.id)
    [] r.ask.op = "getTransactions" ->
         /\ r.req.count \in Int
         /\ \E lt \in Int : \E hash : r.req = provider!getTransactions(r.req.count, r.ask.addr, lt, hash)
    [] OTHER -> /\ r.req = Request(r.ask)
                /\ r.ask.op \in {"getShards", "getConfig"} => r.ask.id.workchain = -1

CallFields ==
  {"pc", "client", "ask", "left", "req", "tries", "from", "to", "steps", "rounds", "list", "ids", "last",
   "pending", "pages", "res", "shortcut", "disturbed", "mixed"}
IsCall(r) == r = [field \in CallFields |-> r[field]]
\* A list goes down from the transaction that was asked for, and stays above to_lt.
ListGood(ask, list) ==
  /\ Len(list) \in Nat /\ list = ListPart(Address(ask.addr), ask.lt \div 10, Len(list))
  /\ \A i \in 1..Len(list) : ask.to_lt >= 0 => list[i].lt > ask.to_lt
\* `last' is the transaction after the list so far.
ListSoFar(r) ==
  LET addr == Address(r.ask.addr)
      m == Len(r.list)
      k == r.ask.lt \div 10
  IN  /\ ListGood(r.ask, r.list)
      /\ m = 0 => r.last = <<r.ask.lt, r.ask.hash>>
      /\ m > 0 => addr \in Addresses /\ r.last = <<TxLt(k - m), TxHash(addr, k - m)>>
      /\ r.ask.to_lt >= 0 => r.last[1] > r.ask.to_lt
      /\ r.pending \in Int /\ r.req.count \in Int
      /\ r.mixed \/ (r.req.count <= r.pending /\ 0 <= r.pending /\ m + r.pending <= r.ask.max)
\* A validation of a block that is not the chain's goes on by a fault a round.
AstrayBy(r, rounds, f) == r.rounds \in Nat /\ (r.ask.id \notin ChainIds => rounds <= f)
CallRight(r, f) ==
  /\ IsCall(r)
  /\ r.pc \in {"idle", "ready", "waiting", "linking", "done", "dropped"}
  /\ r.pc # "idle" => IsAsk(r.ask)
  /\ r.pc = "waiting" => OwnRequest(r)
  /\ r.pc = "waiting" /\ r.ask.op = "getTransactions" => ListSoFar(r)
  /\ r.pc = "waiting" /\ r.ask.op = "validate" => AstrayBy(r, r.rounds, f)
  /\ r.pc = "linking" => r.ask.op = "validate" /\ r.to \in ChainIds /\ AstrayBy(r, r.rounds + 1, f)
  /\ r.pc = "done" /\ r.res.ok => Right(r)
CallsRight ==
  /\ faults \in 0..MaxFaults
  /\ call = [x \in Calls |-> call[x]]
  /\ \A x \in Calls : CallRight(call[x], faults)

(* ---- what nodes say --------------------------------------------------------------- *)
(* The provider has the forms of ids that the client has.                       *)
LEMMA SameForms ==
  ASSUME NEW id
  PROVE  provider!toLiteId(id) = toLiteId(id)
BY DEF provider!toLiteId, provider!longFromBN, provider!Signed, toLiteId, longFromBN, Signed

(* A node that is asked about a block tells of the block with this id.           *)
LEMMA AskedIsIt ==
  ASSUME NEW asked, IsId(asked), NEW id \in Asked(toLiteId(asked))
  PROVE  asked \in Blocks /\ id = asked
<1>1. id \in Blocks /\ LiteId(id) = toLiteId(asked)
  BY DEF Asked
<1>2. QED
  BY <1>1, BlockIs, SentIsIt

(* getLatestId is answered by a block of the masterchain.                     *)
LEMMA LatestTrue ==
  ASSUME NEW r, r.ask.op = "getLatestId", OwnRequest(r), NEW reply \in Answers(r.req)
  PROVE  TrueReply(reply) /\ Own(r, reply)
<1>1. r.req.method = "liteServer.getMasterchainInfo"
  BY DEF OwnRequest, Request, provider!getLatestBlockId
<1>2. PICK n \in {Top - 1, Top} : reply = Reply("liteServer.masterchainInfoExt", [last |-> LiteId(Id(n))])
  BY <1>1 DEF Answers
<1>3. Id(n) \in ChainIds
  BY LiteServerAssumption DEF ChainIds, Masters
<1>4. QED
  BY <1>2, <1>3 DEF TrueReply, Own, Reply

(* getHeader is answered by the header of a block.                            *)
LEMMA HeaderTrue ==
  ASSUME NEW r, IsAsk(r.ask), r.ask.op = "getHeader", OwnRequest(r), NEW reply \in Answers(r.req)
  PROVE  TrueReply(reply) /\ Own(r, reply)
<1>1. r.req.method = "liteServer.getBlockHeader" /\ r.req.id = toLiteId(r.ask.id)
  BY SameForms DEF OwnRequest, Request, provider!getBlockHeader
<1>2. PICK id \in Asked(r.req.id) :
        reply = Reply("liteServer.blockHeader", [id |-> r.req.id, header_proof |-> BlockProof(id)])
  BY <1>1 DEF Answers
<1>3. id \in Blocks /\ LiteId(id) = r.req.id
  BY DEF Asked
<1>4. QED
  BY <1>2, <1>3 DEF TrueReply, Own, Reply

(* getData is answered by the data of a block.                                *)
LEMMA DataTrue ==
  ASSUME NEW r, IsAsk(r.ask), r.ask.op = "getData", OwnRequest(r), NEW reply \in Answers(r.req)
  PROVE  TrueReply(reply) /\ Own(r, reply)
<1>1. r.req.method = "liteServer.getBlock"
  BY DEF OwnRequest, Request, provider!getBlock
<1>2. PICK id \in Asked(r.req.id) :
        reply = Reply("liteServer.blockData",
                  [id |-> r.req.id, data |-> [file |-> id.file_hash, root |-> id.root_hash, block |-> HeaderOf(id)]])
  BY <1>1 DEF Answers
<1>3. id \in Blocks
  BY DEF Asked
<1>4. QED
  BY <1>2, <1>3 DEF TrueReply, Own, Reply

(* lookup is answered by the header of a block.                               *)
LEMMA LookupTrue ==
  ASSUME NEW r, IsAsk(r.ask), r.ask.op = "lookup", OwnRequest(r), NEW reply \in Answers(r.req)
  PROVE  TrueReply(reply) /\ Own(r, reply)
<1>1. r.req.method = "liteServer.lookupBlock"
  BY DEF OwnRequest, Request, provider!lookupBlock
<1>2. PICK id \in Blocks :
        reply = Reply("liteServer.blockHeader", [id |-> LiteId(id), header_proof |-> BlockProof(id)])
  BY <1>1 DEF Answers
<1>3. QED
  BY <1>2 DEF TrueReply, Own, Reply

(* getShards is answered by the shards of a block of the masterchain.         *)
LEMMA ShardsTrue ==
  ASSUME NEW r, IsAsk(r.ask), r.ask.op = "getShards", OwnRequest(r), NEW reply \in Answers(r.req)
  PROVE  TrueReply(reply) /\ Own(r, reply)
<1>1. r.req.method = "liteServer.getAllShardsInfo"
  BY DEF OwnRequest, Request, provider!getAllShardsInfo
<1>2. PICK id \in Asked(r.req.id) :
        /\ id.workchain = -1
        /\ reply = Reply("liteServer.allShardsInfo",
                     [proof |-> <<BlockProof(id), McState(id.seqno, {}, {})>>, data |-> ShardTree(id.seqno, {0, 1})])
  BY <1>1 DEF Answers
<1>3. id.seqno \in 1..Top /\ id = Id(id.seqno)
  BY <1>2, BlockIs DEF Asked
<1>4. QED
  BY <1>2, <1>3 DEF TrueReply, Own, Reply

TransactionsOf(addr) == {Transaction(addr, j) : j \in Int}
(* A part of the list of transactions is a sequence of them.                    *)
LEMMA ListPartIs ==
  ASSUME NEW addr, NEW k \in Int, NEW m \in Nat
  PROVE  /\ ListPart(addr, k, m) \in Seq(TransactionsOf(addr))
         /\ Len(ListPart(addr, k, m)) = m
         /\ \A i \in 1..m : ListPart(addr, k, m)[i] = Transaction(addr, k - i + 1)
<1> DEFINE f == [i \in 1..m |-> Transaction(addr, k - i + 1)]
<1>1. f \in [1..m -> TransactionsOf(addr)]
  BY DEF TransactionsOf
<1>2. \A i \in 1..m : f[i] = Transaction(addr, k - i + 1)
  OBVIOUS
<1>3. ListPart(addr, k, m) = f
  BY DEF ListPart
<1> HIDE DEF f
<1>4. QED
  BY <1>1, <1>2, <1>3, EachIs

(* getAccountState is answered about the account and the block it names.      *)
LEMMA AccountTrue ==
  ASSUME NEW r, IsAsk(r.ask), r.ask.op = "getAccountState", OwnRequest(r), NEW reply \in Answers(r.req)
  PROVE  TrueReply(reply) /\ Own(r, reply)
<1> DEFINE addr == Address(r.ask.addr)
<1>1. /\ r.req.method = "liteServer.getAccountState" /\ r.req.id = toLiteId(r.ask.id)
      /\ r.req.account = Friendly(addr)
  BY SameForms DEF OwnRequest, Request, provider!getAccountState, provider!Friendly, provider!Address,
     provider!parseFriendlyAddress, Friendly, Address, parseFriendlyAddress
<1>2. IsId(r.ask.id) /\ IsAddress(addr)
  BY DEF IsAsk
<1> HIDE DEF addr
<1>3. LiteAddress(r.req.account) = addr
  <2>1. /\ addr = [wc |-> addr.wc, hash |-> addr.hash] /\ addr.wc \in {-1} \cup 0..127
    BY <1>2 DEF IsAddress
  <2>2. Friendly(addr).wc = (IF addr.wc = -1 THEN 255 ELSE addr.wc) /\ Friendly(addr).hash = addr.hash
    BY <2>1 DEF Friendly
  <2>3. LiteAddress(Friendly(addr)) = [wc |-> addr.wc, hash |-> addr.hash]
    BY <2>1, <2>2 DEF LiteAddress
  <2>4. QED
    BY <1>1, <2>1, <2>3
<1>4. PICK id \in Asked(r.req.id) :
        /\ id.workchain = -1
        /\ reply = Reply("liteServer.accountState", AccountAnswer(id.seqno, LiteAddress(r.req.account)))
  BY <1>1 DEF Answers
<1>5. id = r.ask.id /\ id.seqno \in 1..Top
  BY <1>1, <1>2, <1>4, AskedIsIt, BlockIs
<1>6. reply.type = "liteServer.accountState" /\ reply.answer = AccountAnswer(r.ask.id.seqno, addr)
  BY <1>3, <1>4, <1>5 DEF Reply
<1>7. TrueReply(reply)
  BY <1>5, <1>6 DEF TrueReply
<1>8. Own(r, reply)
  BY <1>6 DEF Own, addr
<1>9. QED
  BY <1>7, <1>8

(* getConfig is answered with the parameters it names opened.                 *)
LEMMA ConfigTrue ==
  ASSUME NEW r, IsAsk(r.ask), r.ask.op = "getConfig", OwnRequest(r), NEW reply \in Answers(r.req)
  PROVE  TrueReply(reply) /\ Own(r, reply)
<1> DEFINE n == r.ask.id.seqno
           p == IF r.ask.param = -1 THEN WholeConfig(n) ELSE {r.ask.param}
<1>1. /\ r.req.id = toLiteId(r.ask.id)
      /\ r.ask.param = -1 => r.req.method = "liteServer.getConfigAll"
      /\ r.ask.param # -1 => r.req.method = "liteServer.getConfigParams" /\ r.req.param_list = {r.ask.param}
  BY SameForms DEF OwnRequest, Request, provider!getConfigAll, provider!getConfigParams
<1>2. IsId(r.ask.id) /\ r.ask.param \in Params \cup {-1}
  BY DEF IsAsk
<1>3. PICK id \in Asked(r.req.id) :
        /\ id.workchain = -1
        /\ reply = Reply("liteServer.configInfo",
                [state_proof |-> BlockProof(id),
                 config_proof |-> McState(id.seqno, {},
                   IF r.req.method = "liteServer.getConfigAll" THEN WholeConfig(id.seqno) ELSE r.req.param_list)])
  BY <1>1 DEF Answers
<1>4. id = r.ask.id /\ n \in 1..Top /\ id = Id(n)
  BY <1>1, <1>2, <1>3, AskedIsIt, BlockIs
<1>5. /\ reply.type = "liteServer.configInfo"
      /\ reply.answer.state_proof = BlockProof(Id(n)) /\ reply.answer.config_proof = McState(n, {}, p)
  BY <1>1, <1>3, <1>4 DEF Reply
<1>6. p \in Openings
  BY <1>2, <1>4, LiteServerAssumption DEF Openings, Masters
<1>7. TrueReply(reply)
  BY <1>4, <1>5, <1>6 DEF TrueReply
<1>8. Own(r, reply)
  BY <1>5 DEF Own
<1>9. QED
  BY <1>7, <1>8

(* getTransactions is answered by a part of an account's list, no longer than asked. *)
LEMMA ListTrue ==
  ASSUME NEW r, r.ask.op = "getTransactions", OwnRequest(r), NEW reply \in Answers(r.req)
  PROVE  TrueReply(reply) /\ Own(r, reply)
<1> DEFINE addr == LiteAddress(r.req.account)  k == r.req.lt \div 10
<1>1. r.req.count \in Int /\ r.req.method = "liteServer.getTransactions" /\ r.req.lt \in Int
  <2>1. PICK lt \in Int : \E hash : r.req = provider!getTransactions(r.req.count, r.ask.addr, lt, hash)
    BY DEF OwnRequest
  <2>2. provider!longToBN(provider!longFromBN(lt)) \in Int
    BY DEF provider!longToBN, provider!longFromBN, provider!Signed, provider!Unsigned
  <2>3. QED
    BY <2>1, <2>2 DEF OwnRequest, provider!getTransactions
<1>2. PICK a \in TransactionAnswer(addr, r.req.lt, r.req.hash, r.req.count) :
        reply = Reply("liteServer.transactionList", a)
  BY <1>1 DEF Answers
<1>3. PICK m \in 0..r.req.count :
        /\ addr \in Addresses /\ r.req.lt > 0 /\ k <= History[addr] /\ m <= k
        /\ a = [ids |-> [i \in 1..Len(ListPart(addr, k, m)) |-> LiteId(Id(ListPart(addr, k, m)[i].index + 1))],
                transactions |-> ListPart(addr, k, m)]
  BY <1>2 DEF TransactionAnswer, ListPart
<1>4. k \in 0..History[addr] /\ m \in Nat
  BY <1>1, <1>3, LiteServerAssumption
<1>5. Len(ListPart(addr, k, m)) = m
  <2>1. k \in Int
    BY <1>4, LiteServerAssumption
  <2> HIDE DEF k
  <2>2. QED
    BY <1>4, <2>1, ListPartIs
<1>6. Len(a.ids) = m
  <2> DEFINE id(i) == LiteId(Id(ListPart(addr, k, m)[i].index + 1))
             f == [i \in 1..m |-> id(i)]
  <2>1. f \in [1..m -> {id(i) : i \in 1..m}]
    OBVIOUS
  <2>2. a.ids = f
    BY <1>3, <1>5
  <2> HIDE DEF f
  <2>3. QED
    BY <1>4, <2>1, <2>2, EachIs
<1>7. reply.type = "liteServer.transactionList" /\ reply.answer = a
  BY <1>2 DEF Reply
<1>8. TrueReply(reply)
  BY <1>3, <1>4, <1>6, <1>7 DEF TrueReply
<1>9. Own(r, reply)
  BY <1>1, <1>3, <1>5, <1>7 DEF Own
<1>10. QED
  BY <1>8, <1>9

(* validate is answered by a proof that ends at a block of the chain.         *)
LEMMA ProofTrue ==
  ASSUME NEW r, IsAsk(r.ask), r.ask.op = "validate", OwnRequest(r), NEW reply \in Answers(r.req)
  PROVE  TrueReply(reply) /\ Own(r, reply)
<1>1. PICK from : r.req = provider!getBlockProof(from, r.ask.id)
  BY DEF OwnRequest
<1>2. r.req.method = "liteServer.getBlockProof" /\ r.req.target_block = toLiteId(r.ask.id)
  BY <1>1, SameForms DEF provider!getBlockProof
<1> DEFINE told(w, m) ==
      Reply("liteServer.partialBlockProof",
        [from |-> r.req.known_block, to |-> LiteId(Id(w[m + 1])), steps |-> [i \in 1..m |-> <<w[i], w[i + 1]>>]])
<1>3a. PICK w \in Ways : /\ LiteId(Id(w[Len(w)])) = r.req.target_block
                        /\ \E m \in {1, Len(w) - 1} : reply = told(w, m)
  BY <1>2 DEF Answers
<1>3. PICK m \in {1, Len(w) - 1} : reply = told(w, m)
  BY <1>3a
<1>4a. PICK n \in 2..(Top + 1) : \E v \in [1..n -> Masters] : w = Each(v)
  BY DEF Ways
<1>4. PICK v \in [1..n -> Masters] : w = Each(v)
  BY <1>4a
<1>5. n \in Nat /\ n >= 2 /\ Len(w) = n /\ w \in [1..n -> Masters]
  <2>1. n \in Nat /\ n >= 2
    BY LiteServerAssumption
  <2>2. Each(v) = v /\ Len(v) = n
    BY <2>1, EachIs
  <2>3. QED
    BY <1>4, <2>1, <2>2
<1>6. w[m + 1] \in Masters /\ w[Len(w)] \in Masters
  BY <1>5
<1>7. r.ask.id = Id(w[Len(w)])
  <2> DEFINE id == Id(w[Len(w)])
  <2>1. /\ id = [workchain |-> id.workchain, shard |-> id.shard, seqno |-> id.seqno,
                 root_hash |-> id.root_hash, file_hash |-> id.file_hash]
        /\ id.shard \in {128, 64, 192}
    BY DEF Id, Whole
  <2> HIDE DEF id
  <2>2. toLiteId(r.ask.id) = LiteId(id)
    BY <1>2, <1>3a DEF id
  <2>3. r.ask.id = id
    BY <2>1, <2>2, SentIsIt DEF IsAsk
  <2>4. QED
    BY <2>3 DEF id
<1>8. TrueReply(reply)
  BY <1>3, <1>6 DEF TrueReply, Reply, ChainIds
<1>9. Own(r, reply)
  BY <1>6, <1>7 DEF Own, ChainIds
<1>10. QED
  BY <1>8, <1>9

(* What a call may be told by the node it asked is true and to the point.       *)
LEMMA Honest ==
  ASSUME NEW r, IsAsk(r.ask), OwnRequest(r), NEW reply \in Answers(r.req)
  PROVE  TrueReply(reply) /\ Own(r, reply)
<1>1. r.ask.op \in Ops
  BY DEF IsAsk
<1>2. QED
  BY <1>1, LatestTrue, HeaderTrue, DataTrue, LookupTrue, ShardsTrue, AccountTrue, ConfigTrue, ListTrue, ProofTrue
  DEF Ops

(* ---- what the methods accept -------------------------------------------------------- *)
(* What getLatestId accepts is a block of the masterchain.                      *)
LEMMA LatestRight ==
  ASSUME NEW r, r.ask.op = "getLatestId", NEW a, NEW id \in ChainIds, a.last = LiteId(id),
         r.res = Result(r.ask, a)
  PROVE  Right(r)
<1>1. r.res = Ok(id)
  BY MasterIs DEF Result, ChainIds
<1>2. QED
  BY <1>1 DEF Right, Ok

(* A header that getHeader accepts is that of the block it was asked for.     *)
LEMMA HeaderRight ==
  ASSUME NEW r, IsAsk(r.ask), r.ask.op = "getHeader", NEW a, NEW id \in Blocks, a.header_proof = BlockProof(id),
         r.res = Result(r.ask, a), r.res.ok
  PROVE  Right(r)
<1>1. r.res = getHeader(r.ask, a)
  BY DEF Result
<1>2. Proves(BlockProof(id), r.ask.id) /\ r.res = Ok(HeaderOf(id))
  BY <1>1 DEF getHeader, Fail, BlockProof
<1>3. r.ask.id = id
  BY <1>2, ProvedIsIt DEF IsAsk
<1>4. QED
  BY <1>2, <1>3 DEF Right, Ok

(* Data that getData accepts are those of the block it was asked for.         *)
LEMMA DataRight ==
  ASSUME NEW r, IsAsk(r.ask), r.ask.op = "getData", NEW a, NEW id \in Blocks,
         a.data = [file |-> id.file_hash, root |-> id.root_hash, block |-> HeaderOf(id)],
         r.res = Result(r.ask, a), r.res.ok
  PROVE  Right(r)
<1>1. r.res = getData(r.ask, a)
  BY DEF Result
<1>2. Proves(a.data, r.ask.id) /\ r.res = Ok(HeaderOf(id))
  BY <1>1 DEF getData, Fail
<1>3. Proves(BlockProof(id), r.ask.id)
  <2>1. /\ a.data.root = id.root_hash /\ a.data.block = HeaderOf(id)
        /\ BlockProof(id).root = id.root_hash /\ BlockProof(id).block = HeaderOf(id)
    BY DEF BlockProof
  <2>2. QED
    BY <1>2, <2>1 DEF Proves, HeaderFits
<1>4. r.ask.id = id
  BY <1>3, ProvedIsIt DEF IsAsk
<1>5. QED
  BY <1>2, <1>4 DEF Right, Ok

(* A block that lookup accepts is on the chain, in the shard and at the time asked. *)
LEMMA LookupIsRight ==
  ASSUME NEW r, IsAsk(r.ask), r.ask.op = "lookup", NEW a, NEW id \in Blocks,
         a.id = LiteId(id), a.header_proof = BlockProof(id), r.res = Result(r.ask, a), r.res.ok
  PROVE  Right(r)
<1> DEFINE h == HeaderOf(id)
<1>1. r.res = lookup(r.ask, a) /\ fromLiteId(a.id) = id /\ a.header_proof.block = h
  BY BlockIs DEF Result, BlockProof
<1>2. /\ r.res = Ok([id |-> id, block |-> h])
      /\ r.ask.lt = 0 /\ r.ask.utime = 0 => h.seq_no = r.ask.id.seqno
      /\ r.ask.id.shard = h.shard /\ h.workchain_id = r.ask.id.workchain
      /\ r.ask.utime > 0 => h.gen_utime = r.ask.utime
      /\ r.ask.lt > 0 => h.start_lt <= r.ask.lt /\ r.ask.lt <= h.end_lt
  BY <1>1 DEF lookup, Fail, HeaderFits, compareShard
<1>3. /\ id.workchain = r.ask.id.workchain /\ id.shard = r.ask.id.shard
      /\ r.ask.lt = 0 /\ r.ask.utime = 0 => id.seqno = r.ask.id.seqno
  BY <1>2, BlockIs
<1>4. r.ask.lt \in Nat /\ h.start_lt \in Int /\ h.end_lt \in Int
  BY BlockIs DEF IsAsk
<1>5. RightLookup(r.ask, [id |-> id, block |-> h])
  BY <1>2, <1>3, <1>4 DEF RightLookup
<1>6. QED
  BY <1>2, <1>5 DEF Right, Ok

(* A masterchain block that is proved is the one that was asked about.          *)
LEMMA ProvedMaster ==
  ASSUME NEW asked, IsId(asked), NEW n \in 1..Top, Proves(BlockProof(Id(n)), asked)
  PROVE  asked = Id(n) /\ asked \in ChainIds /\ asked.seqno = n
<1>1. Id(n) \in Blocks /\ Id(n) \in ChainIds /\ Id(n).seqno = n
  BY MasterIs, LiteServerAssumption DEF Masters, Id
<1>2. QED
  BY <1>1, ProvedIsIt

(* Shards that getShards accepts are those of the block it was asked for.     *)
LEMMA ShardsRight ==
  ASSUME NEW r, IsAsk(r.ask), r.ask.op = "getShards", NEW a, NEW n \in 1..Top,
         a.proof = <<BlockProof(Id(n)), McState(n, {}, {})>>, a.data = ShardTree(n, {0, 1}),
         r.res = Result(r.ask, a), r.res.ok
  PROVE  Right(r)
<1>1. r.res = getShards(r.ask, a)
  BY DEF Result
<1>2. Proves(BlockProof(Id(n)), r.ask.id) /\ r.res = Ok(ShardTree(n, {0, 1}))
  BY <1>1 DEF getShards, Fail
<1>3. r.ask.id \in ChainIds /\ r.ask.id.seqno = n
  BY <1>2, ProvedMaster DEF IsAsk
<1>4. QED
  BY <1>2, <1>3 DEF Right, Ok

(* The configuration is that of the last key block.                             *)
LEMMA KeyIs ==
  ASSUME NEW n \in Nat
  PROVE  ConfigKey(n) \in KeyBlocks \cup {0}
<1> DEFINE Keys == {k \in KeyBlocks \cup {0} : k <= n}
           Away == {m \in Nat : \E k \in Keys : m = n - k}
<1>1. KeyBlocks \subseteq Nat /\ Keys \subseteq Nat /\ 0 \in Keys
  BY LiteServerAssumption
<1>2. Away \subseteq Nat /\ Away # {}
  <2>1. n - 0 \in Away
    BY <1>1
  <2>2. QED
    BY <2>1
<1>3. PICK m \in Away : \A l \in Away : ~(<<l, m>> \in OpToRel(<, Nat))
  <2> HIDE DEF Away
  <2>1. QED
    BY <1>2, NatLessThanWellFounded, WFMin
<1>4. \A l \in Away : ~(l < m)
  BY <1>3 DEF OpToRel
<1>5. PICK k \in Keys : m = n - k
  OBVIOUS
<1>6. ASSUME NEW j \in Keys PROVE j <= k
  <2>1. n - j \in Away
    BY <1>1
  <2>2. QED
    BY <1>1, <1>4, <1>5, <2>1
<1>7. Largest(Keys) \in Keys
  <2> HIDE DEF Keys
  <2>1. QED
    BY <1>5, <1>6 DEF Largest
<1>8. QED
  BY <1>7 DEF ConfigKey

(* What a proof opens of the configuration of a block.                          *)
LEMMA OpenedIs ==
  ASSUME NEW n \in Nat, NEW p \in Openings
  PROVE  LET config == Config(ConfigKey(n))
             map == McState(n, {}, p).config.map
         IN  /\ \A key : key \in DOMAIN map <=> key \in p /\ key \in DOMAIN config
             /\ \A key \in DOMAIN map : map[key] = config[key]
<1> DEFINE shown == [key |-> ConfigKey(n), params |-> p,
                     config |-> Shown(Config(ConfigKey(n)), p, ConfigBits)]
           chosen == CHOOSE c \in ConfigsShown : c.key = ConfigKey(n) /\ c.params = p
<1>1. shown \in ConfigsShown
  BY KeyIs DEF ConfigsShown
<1>2. chosen \in ConfigsShown /\ chosen.key = ConfigKey(n) /\ chosen.params = p
  BY <1>1
<1> HIDE DEF chosen
<1>3. chosen.config = Shown(Config(ConfigKey(n)), p, ConfigBits)
  BY <1>2 DEF ConfigsShown
<1>4. McState(n, {}, p).config = chosen.config
  BY DEF McState, chosen
<1> DEFINE config == Config(ConfigKey(n))  map == McState(n, {}, p).config.map
<1>5. map = [key \in p \cap DOMAIN config |-> config[key]]
  BY <1>3, <1>4 DEF Shown
<1>6. QED
  BY <1>5

(* What getConfig accepts is the configuration at the block, mixed-up replies aside. *)
LEMMA ConfigRight ==
  ASSUME NEW r, IsAsk(r.ask), r.ask.op = "getConfig", NEW a, NEW n \in 1..Top, NEW p \in Openings,
         a.state_proof = BlockProof(Id(n)), a.config_proof = McState(n, {}, p),
         r.mixed \/ a.config_proof = McState(r.ask.id.seqno, {}, IF r.ask.param = -1 THEN WholeConfig(r.ask.id.seqno)
                                                                ELSE {r.ask.param}),
         r.res = Result(r.ask, a), r.res.ok
  PROVE  Right(r)
<1> DEFINE config == Config(ConfigKey(n))  map == a.config_proof.config.map
           own == IF r.ask.param = -1 THEN WholeConfig(n) ELSE {r.ask.param}
<1>1. r.res = getConfig(r.ask, a)
  BY DEF Result
<1>2. Proves(BlockProof(Id(n)), r.ask.id)
  BY <1>1 DEF getConfig, Fail
<1>3. r.ask.id \in ChainIds /\ r.ask.id.seqno = n /\ n \in Nat
  BY <1>2, ProvedMaster DEF IsAsk
<1>4. ConfigAt(n) = config
  BY DEF ConfigAt, ConfigKey
<1>5. /\ \A key \in DOMAIN map : key \in DOMAIN config /\ map[key] = config[key]
      /\ r.mixed \/ \A key \in own : key \in DOMAIN config => key \in DOMAIN map
  <2>1. own \in Openings
    BY <1>3, LiteServerAssumption DEF Openings, Masters, IsAsk
  <2>2. r.mixed \/ a.config_proof = McState(n, {}, own)
    BY <1>3
  <2> HIDE DEF own
  <2>3. QED
    BY <1>3, <2>1, <2>2, OpenedIs
<1> HIDE DEF map, config
<1>6. CASE r.ask.param = -1
  <2>1. r.res = Ok(map)
    BY <1>1, <1>6 DEF getConfig, Fail, map
  <2>2. r.mixed \/ DOMAIN config \subseteq DOMAIN map
    BY <1>5, <1>6 DEF WholeConfig, config
  <2>3. r.res.value = map
    BY <2>1 DEF Ok
  <2>4. RightConfig(r)
    BY <1>3, <1>4, <1>5, <1>6, <2>2, <2>3 DEF RightConfig
  <2>5. QED
    BY <1>3, <2>4 DEF Right
<1>7. CASE r.ask.param # -1
  <2>1. CASE r.ask.param \in DOMAIN map
    <3>1. r.res.value = map[r.ask.param]
      BY <1>1, <1>7, <2>1 DEF getConfig, Fail, Ok, map
    <3>2. RightConfig(r)
      BY <1>3, <1>4, <1>5, <2>1, <3>1 DEF RightConfig
    <3>3. QED
      BY <1>3, <3>2 DEF Right
  <2>2. CASE r.ask.param \notin DOMAIN map
    <3>1. r.res.value = << >>
      BY <1>1, <1>7, <2>2 DEF getConfig, Fail, Ok, map
    <3>2. RightConfig(r)
      BY <1>3, <1>4, <1>5, <1>7, <2>2, <3>1 DEF RightConfig
    <3>3. QED
      BY <1>3, <3>2 DEF Right
  <2>3. QED
    BY <2>1, <2>2
<1>8. QED
  BY <1>6, <1>7

(* An answer about an account at a block of the masterchain.                    *)
LEMMA AccountAnswerIs ==
  ASSUME NEW n \in 1..Top, NEW addr
  PROVE  LET a == AccountAnswer(n, addr)
             dict == ShardState(addr.wc, n, IF addr.wc = -1 THEN 2 ELSE SideOf(n, addr))
         IN  /\ a.state = <<addr, Account(addr, n)>>
             /\ \A key : key \in DOMAIN a.proof[2].accounts.map <=> key = addr.hash /\ key \in DOMAIN dict
             /\ addr.wc = -1 => a.proof[1] = BlockProof(Id(n)) /\ a.shard_proof = << >>
             /\ addr.wc # -1 => /\ a.proof[1].block.workchain_id = 0
                                /\ a.shard_proof[1] = BlockProof(Id(n))
<1> DEFINE a == AccountAnswer(n, addr)
           side == SideOf(n, addr)
           dict == ShardState(addr.wc, n, IF addr.wc = -1 THEN 2 ELSE side)
           block == IF addr.wc = -1 THEN Id(n) ELSE ShardId(n, side)
<1>1. /\ a.state = <<addr, Account(addr, n)>>
      /\ a.shard_proof = IF addr.wc = -1 THEN << >> ELSE <<BlockProof(Id(n)), McState(n, {side}, {})>>
      /\ a.proof[1] = BlockProof(block)
      /\ a.proof[2].accounts = Shown(dict, {addr.hash}, AddrBits)
  BY DEF AccountAnswer
<1>2. addr.wc # -1 => BlockProof(block).block.workchain_id = 0
  <2> SUFFICES ASSUME addr.wc # -1 PROVE BlockProof(block).block.workchain_id = 0
    OBVIOUS
  <2> DEFINE s == CHOOSE s \in 0..2 : ShardId(block.seqno - 10, s) = block
  <2>1. block.workchain = 0 /\ block.seqno - 10 = n
    BY DEF ShardId
  <2>2. HeaderOf(block) = ShardHeader(n, s)
    BY <2>1 DEF HeaderOf
  <2> HIDE DEF s, block
  <2>3. ShardHeader(n, s).workchain_id = 0
    BY HeaderIs DEF ShardHeader
  <2>4. QED
    BY <2>2, <2>3 DEF BlockProof
<1>3. Shown(dict, {addr.hash}, AddrBits).map = [k \in {addr.hash} \cap DOMAIN dict |-> dict[k]]
  BY DEF Shown
<1> HIDE DEF dict, block, side
<1>4. \A key : key \in DOMAIN a.proof[2].accounts.map <=> key = addr.hash /\ key \in DOMAIN dict
  BY <1>1, <1>3
<1>5. /\ addr.wc = -1 => a.proof[1] = BlockProof(Id(n)) /\ a.shard_proof = << >>
      /\ addr.wc # -1 => a.shard_proof[1] = BlockProof(Id(n)) /\ a.proof[1].block.workchain_id = 0
  BY <1>1, <1>2 DEF block
<1>6. QED
  BY <1>1, <1>4, <1>5 DEF dict, side

(* An account without an entry in the state of its shard has had no transaction. *)
LEMMA NoEntryNothing ==
  ASSUME NEW n \in 1..Top, NEW addr, IsAddress(addr),
         addr.hash \notin DOMAIN ShardState(addr.wc, n, IF addr.wc = -1 THEN 2 ELSE SideOf(n, addr))
  PROVE  Account(addr, n) = 0
<1>1. CASE addr \notin Addresses
  BY <1>1 DEF Account
<1>2. CASE addr \in Addresses
  <2>1. Done(addr, n) \in Nat
    BY <1>2, LiteServerAssumption DEF Done
  <2>2. addr.wc \in {-1, 0}
    BY <1>2, LiteServerAssumption
  <2>3. ~(Done(addr, n) > 0)
    BY <1>2, <2>2 DEF ShardState
  <2>4. QED
    BY <1>2, <2>1, <2>3 DEF Account
<1>3. QED
  BY <1>1, <1>2

(* What getAccountState accepts is the account at the block, mixed-up replies aside. *)
LEMMA AccountIsRight ==
  ASSUME NEW r, IsAsk(r.ask), r.ask.op = "getAccountState", NEW a, NEW n \in 1..Top, NEW other,
         a = AccountAnswer(n, other),
         r.mixed \/ a = AccountAnswer(r.ask.id.seqno, Address(r.ask.addr)),
         r.res = Result(r.ask, a), r.res.ok
  PROVE  Right(r)
<1> DEFINE addr == Address(r.ask.addr)
<1>0. IsAddress(addr) /\ IsId(r.ask.id) /\ r.ask.id.workchain = -1 /\ r.ask.id.shard = Whole
  BY DEF IsAsk
<1>1a. r.res = getAccountState(r.ask, a) /\ r.res # Fail
  BY DEF Result, Fail
<1>1. PICK id \in ShardBlock(r.ask, a) : r.res = StateIn(r.ask, a, id)
  BY <1>1a DEF getAccountState
<1>2. r.ask.id = Id(n) /\ r.ask.id \in ChainIds /\ r.ask.id.seqno = n /\ id.workchain = addr.wc
  <2>1. CASE addr.wc = -1
    <3>1. id = r.ask.id
      <4>1. ShardBlock(r.ask, a) = {r.ask.id}
        BY <2>1, ZenonT(40) DEF ShardBlock
      <4>2. QED
        BY <1>1, <4>1
    <3>2. /\ a.proof[1].root = id.root_hash
          /\ a.proof[1].block.seq_no = id.seqno /\ a.proof[1].block.workchain_id = id.workchain
          /\ (a.proof[1].block.not_master = 1) <=> (id.workchain # -1)
      BY <1>1 DEF StateIn, Fail, HeaderFits
    <3>3. other.wc = -1
      <4>1. other.wc # -1 => AccountAnswer(n, other).proof[1].block.workchain_id = 0
        BY AccountAnswerIs
      <4>2. AccountAnswer(n, other).proof[1].block.workchain_id = -1
        BY <1>0, <3>1, <3>2
      <4>3. QED
        BY <4>1, <4>2
    <3>4. a.proof[1] = BlockProof(Id(n))
      BY <3>3, AccountAnswerIs
    <3>5. BlockProof(Id(n)).block.shard = Whole
      BY MasterIs, HeaderIs, LiteServerAssumption DEF BlockProof, Masters
    <3>6. Proves(BlockProof(Id(n)), r.ask.id)
      BY <1>0, <3>1, <3>2, <3>4, <3>5 DEF Proves, HeaderFits, compareShard
    <3>7. QED
      BY <1>0, <2>1, <3>1, <3>6, ProvedMaster
  <2>2. CASE addr.wc # -1
    <3>1. /\ id.workchain = addr.wc
          /\ Len(a.shard_proof) = 2 /\ Proves(a.shard_proof[1], r.ask.id)
      BY <1>1, <2>2 DEF ShardBlock
    <3>2. other.wc # -1
      <4>1. Len(<< >>) = 0
        OBVIOUS
      <4>2. QED
        BY <3>1, <4>1, AccountAnswerIs
    <3>3. a.shard_proof[1] = BlockProof(Id(n))
      BY <3>2, AccountAnswerIs
    <3>4. QED
      BY <1>0, <3>1, <3>3, ProvedMaster
  <2>3. QED
    BY <2>1, <2>2
<1> DEFINE map == a.proof[2].accounts.map
<1>3. CASE addr.hash \notin DOMAIN map
  <2>0. r.res = Ok([txs |-> 0, block |-> id])
    BY <1>1a, <1>1, <1>3 DEF StateIn
  <2>1. r.res.value.txs = 0
    BY <2>0 DEF Ok
  <2>2. r.mixed \/ Account(addr, n) = 0
    <3>1. SUFFICES ASSUME a = AccountAnswer(n, addr) PROVE Account(addr, n) = 0
      BY <1>2
    <3>2. addr.hash \notin DOMAIN ShardState(addr.wc, n, IF addr.wc = -1 THEN 2 ELSE SideOf(n, addr))
      <4>1. \A key : key \in DOMAIN AccountAnswer(n, addr).proof[2].accounts.map <=>
              /\ key = addr.hash
              /\ key \in DOMAIN ShardState(addr.wc, n, IF addr.wc = -1 THEN 2 ELSE SideOf(n, addr))
        BY AccountAnswerIs
      <4>2. QED
        BY <1>3, <3>1, <4>1
    <3>3. QED
      BY <1>0, <3>2, NoEntryNothing
  <2>3. QED
    BY <1>2, <2>1, <2>2 DEF Right, RightAccount
<1>4. CASE addr.hash \in DOMAIN map
  <2>0. /\ a.state = <<[wc |-> id.workchain, hash |-> addr.hash], map[addr.hash]>>
        /\ r.res = Ok([txs |-> map[addr.hash], block |-> r.ask.id])
    <3>1. \/ StateIn(r.ask, a, id) = Fail
          \/ /\ a.state = <<[wc |-> id.workchain, hash |-> addr.hash], map[addr.hash]>>
             /\ StateIn(r.ask, a, id) = Ok([txs |-> map[addr.hash], block |-> r.ask.id])
      BY <1>4 DEF StateIn
    <3>2. QED
      BY SMTT(30), <1>1a, <1>1, <3>1
  <2>1. /\ a.state = <<[wc |-> id.workchain, hash |-> addr.hash], map[addr.hash]>>
        /\ r.res.value.txs = map[addr.hash]
    BY <2>0 DEF Ok
  <2>2. a.state = <<other, Account(other, n)>>
    BY SMTT(30), AccountAnswerIs
  <2>3. other = addr /\ map[addr.hash] = Account(other, n)
    <3>1. [wc |-> addr.wc, hash |-> addr.hash] = addr
      BY <1>0 DEF IsAddress
    <3>2. other = [wc |-> id.workchain, hash |-> addr.hash]
      BY <2>1, <2>2
    <3>3. map[addr.hash] = Account(other, n)
      BY SMTT(30), <2>1, <2>2
    <3>4. QED
      BY <1>2, <3>1, <3>2, <3>3
  <2>4. RightAccount(r)
    BY <1>2, <2>1, <2>3 DEF RightAccount
  <2>5. QED
    BY <1>2, <2>4 DEF Right
<1>5. QED
  BY <1>3, <1>4

(* ---- how a call goes on ------------------------------------------------------------- *)
ReplyType(op) ==
  CASE op = "getLatestId" -> "liteServer.masterchainInfoExt"
    [] op \in {"lookup", "getHeader"} -> "liteServer.blockHeader"
    [] op = "getData" -> "liteServer.blockData"
    [] op = "validate" -> "liteServer.partialBlockProof"
    [] op = "getAccountState" -> "liteServer.accountState"
    [] op = "getShards" -> "liteServer.allShardsInfo"
    [] op = "getTransactions" -> "liteServer.transactionList"
    [] op = "getConfig" -> "liteServer.configInfo"
(* A call waits for a reply of the type its method expects.                   *)
LEMMA TypeIs ==
  ASSUME NEW r, IsAsk(r.ask), OwnRequest(r)
  PROVE  r.req.type = ReplyType(r.ask.op)
<1>1. r.ask.op \in Ops
  BY DEF IsAsk
<1>2. CASE r.ask.op = "validate"
  <2>1. PICK from : r.req = provider!getBlockProof(from, r.ask.id)
    BY <1>2 DEF OwnRequest
  <2>2. r.req.type = "liteServer.partialBlockProof"
    BY <2>1 DEF provider!getBlockProof
  <2>3. QED
    BY <1>2, <2>2 DEF ReplyType
<1>3. CASE r.ask.op = "getTransactions"
  <2>1. PICK lt \in Int : \E hash : r.req = provider!getTransactions(r.req.count, r.ask.addr, lt, hash)
    BY <1>3 DEF OwnRequest
  <2>2. r.req.type = "liteServer.transactionList"
    BY <2>1 DEF provider!getTransactions
  <2>3. QED
    BY <1>3, <2>2 DEF ReplyType
<1>4. CASE r.ask.op \in {"getLatestId", "lookup", "getHeader", "getData"}
  BY <1>4 DEF OwnRequest, ReplyType, Request, provider!getLatestBlockId, provider!lookupBlock,
     provider!getBlockHeader, provider!getBlock
<1>5. CASE r.ask.op \in {"getShards", "getAccountState", "getConfig"}
  BY <1>5 DEF OwnRequest, ReplyType, Request, provider!getAllShardsInfo, provider!getAccountState,
     provider!getConfigAll, provider!getConfigParams
<1>6. QED
  BY <1>1, <1>2, <1>3, <1>4, <1>5 DEF Ops

(* What a method with one request makes of a true reply of the type it expects. *)
LEMMA ResultRight ==
  ASSUME NEW r, IsAsk(r.ask), r.ask.op \notin {"validate", "getTransactions"},
         NEW reply, reply.type = ReplyType(r.ask.op), TrueReply(reply), r.mixed \/ Own(r, reply),
         r.res = Result(r.ask, reply.answer), r.res.ok
  PROVE  Right(r)
<1> DEFINE a == reply.answer
<1>1. r.ask.op \in Ops
  BY DEF IsAsk
<1>2. CASE r.ask.op = "getLatestId"
  <2>1. \E id \in ChainIds : a.last = LiteId(id)
    BY <1>2 DEF ReplyType, TrueReply
  <2>2. QED
    BY <1>2, <2>1, LatestRight
<1>3. CASE r.ask.op \in {"lookup", "getHeader"}
  <2>1. \E id \in Blocks : a.id = LiteId(id) /\ a.header_proof = BlockProof(id)
    BY <1>3 DEF ReplyType, TrueReply
  <2>2. QED
    BY SMTT(30), <1>3, <2>1, LookupIsRight, HeaderRight
<1>4. CASE r.ask.op = "getData"
  <2>1. \E id \in Blocks : a.data = [file |-> id.file_hash, root |-> id.root_hash, block |-> HeaderOf(id)]
    BY <1>4 DEF ReplyType, TrueReply
  <2>2. QED
    BY <1>4, <2>1, DataRight
<1>5. CASE r.ask.op = "getShards"
  <2>1. \E n \in 1..Top : a.proof = <<BlockProof(Id(n)), McState(n, {}, {})>> /\ a.data = ShardTree(n, {0, 1})
    BY <1>5 DEF ReplyType, TrueReply
  <2>2. QED
    BY <1>5, <2>1, ShardsRight
<1>6. CASE r.ask.op = "getAccountState"
  <2>1. \E n \in 1..Top : \E addr : a = AccountAnswer(n, addr)
    BY <1>6 DEF ReplyType, TrueReply
  <2>2. r.mixed \/ a = AccountAnswer(r.ask.id.seqno, Address(r.ask.addr))
    BY <1>6 DEF Own
  <2>3. QED
    BY <1>6, <2>1, <2>2, AccountIsRight
<1>7. CASE r.ask.op = "getConfig"
  <2>1. PICK n \in 1..Top, p \in Openings : a.state_proof = BlockProof(Id(n)) /\ a.config_proof = McState(n, {}, p)
    BY <1>7 DEF ReplyType, TrueReply
  <2>2. \/ r.mixed
        \/ a.config_proof = McState(r.ask.id.seqno, {}, IF r.ask.param = -1 THEN WholeConfig(r.ask.id.seqno)
                                                       ELSE {r.ask.param})
    BY <1>7 DEF Own
  <2>3. QED
    BY <1>7, <2>1, <2>2, ConfigRight
<1>8. QED
  BY <1>1, <1>2, <1>3, <1>4, <1>5, <1>6, <1>7 DEF Ops

(* A call that ends is done, or tries once more.                                *)
LEMMA EndedRight ==
  ASSUME NEW r, IsCall(r), IsAsk(r.ask), NEW res, NEW f,
         \A d : /\ res.ok /\ d.res = res
                /\ d.ask = r.ask /\ d.req = r.req /\ d.mixed = r.mixed /\ d.shortcut = r.shortcut
                => Right(d)
  PROVE  CallRight(Ended(r, res), f)
<1>1. CASE ~res.ok /\ r.left > 1
  <2> DEFINE e == [r EXCEPT !.left = r.left - 1, !.pc = "ready"]
  <2>1. Ended(r, res) = e
    BY <1>1 DEF Ended
  <2>2. IsCall(e) /\ e.pc = "ready" /\ e.ask = r.ask
    BY DEF IsCall, CallFields
  <2> HIDE DEF e
  <2>3. QED
    BY <2>1, <2>2 DEF CallRight
<1>2. CASE ~(~res.ok /\ r.left > 1)
  <2> DEFINE e == [r EXCEPT !.pc = "done", !.res = res]
  <2>1. Ended(r, res) = e
    BY <1>2 DEF Ended
  <2>2. /\ IsCall(e) /\ e.pc = "done" /\ e.ask = r.ask /\ e.res = res /\ e.req = r.req
        /\ e.mixed = r.mixed /\ e.shortcut = r.shortcut
    BY DEF IsCall, CallFields
  <2> HIDE DEF e
  <2>3. res.ok => Right(e)
    BY <2>2
  <2>4. QED
    BY <2>1, <2>2, <2>3 DEF CallRight
<1>3. QED
  BY <1>1, <1>2

(* A call that fails promises nothing.                                          *)
LEMMA FailRight ==
  ASSUME NEW r, IsCall(r), IsAsk(r.ask), NEW f
  PROVE  CallRight(Ended(r, Fail), f)
<1>1. ~Fail.ok
  BY DEF Fail
<1>2. QED
  BY <1>1, EndedRight

(* A call that asks waits for a node's answer.                                  *)
LEMMA AskIs ==
  ASSUME NEW r, IsCall(r), NEW req
  PROVE  LET w == Ask(r, req)
         IN  /\ IsCall(w) /\ w.pc = "waiting" /\ w.req = req /\ w.ask = r.ask /\ w.mixed = r.mixed
             /\ w.list = r.list /\ w.last = r.last /\ w.pending = r.pending /\ w.rounds = r.rounds
BY DEF IsCall, CallFields, Ask

(* ---- the list of transactions --------------------------------------------------------- *)
(* The start of a part of the list, and what comes after a part of it.          *)
LEMMA ListStart ==
  ASSUME NEW addr, NEW k \in Int, NEW m \in Nat, NEW n \in 0..m
  PROVE  SubSeq(ListPart(addr, k, m), 1, n) = ListPart(addr, k, n)
<1> DEFINE s == ListPart(addr, k, m)  t == ListPart(addr, k, n)  S == TransactionsOf(addr)
<1>0. n \in Nat
  OBVIOUS
<1>1. s \in Seq(S) /\ Len(s) = m /\ \A i \in 1..m : s[i] = Transaction(addr, k - i + 1)
  BY ListPartIs
<1>2. t \in Seq(S) /\ Len(t) = n /\ \A i \in 1..n : t[i] = Transaction(addr, k - i + 1)
  BY <1>0, ListPartIs
<1> HIDE DEF s, t
<1>3. \A i \in 1..n : s[i] \in S
  BY <1>1 DEF TransactionsOf
<1> HIDE DEF S
<1>4. /\ SubSeq(s, 1, n) \in Seq(S) /\ Len(SubSeq(s, 1, n)) = n
      /\ \A i \in 1..n : SubSeq(s, 1, n)[i] = s[i]
  BY <1>0, <1>3, SubSeqProperties
<1>5. \A i \in 1..n : SubSeq(s, 1, n)[i] = t[i]
  BY <1>1, <1>2, <1>4
<1>6. SubSeq(s, 1, n) = t
  BY <1>2, <1>4, <1>5, SeqEqual
<1>7. QED
  BY <1>6 DEF s, t

(* Two parts of a list, the second from where the first ends, make one.       *)
LEMMA ListJoin ==
  ASSUME NEW addr, NEW k \in Int, NEW m \in Nat, NEW n \in Nat
  PROVE  ListPart(addr, k, m) \o ListPart(addr, k - m, n) = ListPart(addr, k, m + n)
<1> DEFINE s == ListPart(addr, k, m)  t == ListPart(addr, k - m, n)  u == ListPart(addr, k, m + n)
           S == TransactionsOf(addr)
<1>1. s \in Seq(S) /\ Len(s) = m /\ \A i \in 1..m : s[i] = Transaction(addr, k - i + 1)
  BY ListPartIs
<1>2. t \in Seq(S) /\ Len(t) = n /\ \A i \in 1..n : t[i] = Transaction(addr, (k - m) - i + 1)
  <2>1. k - m \in Int
    OBVIOUS
  <2>2. QED
    BY <2>1, ListPartIs
<1>3. u \in Seq(S) /\ Len(u) = m + n /\ \A i \in 1..(m + n) : u[i] = Transaction(addr, k - i + 1)
  <2>1. m + n \in Nat
    OBVIOUS
  <2>2. QED
    BY <2>1, ListPartIs
<1> HIDE DEF s, t, u, S
<1>5. /\ s \o t \in Seq(S) /\ Len(s \o t) = m + n
      /\ \A i \in 1..(m + n) : (s \o t)[i] = IF i <= m THEN s[i] ELSE t[i - m]
  BY <1>1, <1>2, ConcatProperties
<1>6. \A i \in 1..(m + n) : (s \o t)[i] = u[i]
  <2> SUFFICES ASSUME NEW i \in 1..(m + n) PROVE (s \o t)[i] = u[i]
    OBVIOUS
  <2>1. CASE i <= m
    BY <1>1, <1>3, <1>5, <2>1
  <2>2. CASE ~(i <= m)
    <3>1. i - m \in 1..n /\ (k - m) - (i - m) + 1 = k - i + 1
      BY <2>2
    <3>2. t[i - m] = Transaction(addr, (k - m) - (i - m) + 1)
      BY <1>2, <3>1
    <3>3. (s \o t)[i] = t[i - m] /\ u[i] = Transaction(addr, k - i + 1)
      BY <1>3, <1>5, <2>2
    <3>4. QED
      BY <3>1, <3>2, <3>3
  <2>3. QED
    BY <2>1, <2>2
<1>7. s \o t = u
  BY <1>3, <1>5, <1>6, SeqEqual
<1>8. QED
  BY <1>7 DEF s, t, u

(* The first of some numbers.                                                   *)
LEMMA FirstIs ==
  ASSUME NEW S \in SUBSET Nat, S # {}
  PROVE  LET i == CHOOSE i \in S : \A j \in S : i <= j
         IN  i \in S /\ \A j \in S : i <= j
<1>1. PICK i \in S : \A j \in S : ~(<<j, i>> \in OpToRel(<, Nat))
  BY NatLessThanWellFounded, WFMin
<1>2. \A j \in S : ~(j < i)
  BY <1>1 DEF OpToRel
<1>3. i \in Nat /\ \A j \in S : j \in Nat
  OBVIOUS
<1>4. \A j \in S : i <= j
  BY <1>2, <1>3
<1>5. QED
  BY <1>4

(* What the end of the list tells is right.                                     *)
LEMMA ListingRight ==
  ASSUME NEW d, NEW r, IsAsk(d.ask), d.ask.op = "getTransactions", ListGood(d.ask, r.list), d.res = Listing(r),
         d.mixed \/ Len(r.list) <= d.ask.max
  PROVE  Right(d)
<1> DEFINE k == d.ask.lt \div 10  addr == Address(d.ask.addr)
<1>1. d.res.value.list = r.list
  BY DEF Listing, Ok
<1>2. DOMAIN r.list = 1..Len(r.list) /\ \A i \in 1..Len(r.list) : r.list[i] = Transaction(addr, k - i + 1)
  <2>1. Len(r.list) \in Nat /\ r.list = ListPart(addr, k, Len(r.list))
    BY DEF ListGood
  <2>2. DOMAIN ListPart(addr, k, Len(r.list)) = 1..Len(r.list)
    BY DEF ListPart
  <2>3. k \in Int
    BY DEF IsAsk
  <2> HIDE DEF k
  <2>4. QED
    BY <2>1, <2>2, <2>3, ListPartIs
<1>3. RightList(d)
  BY <1>1, <1>2 DEF RightList, ListGood
<1>4. QED
  BY <1>3 DEF Right

(* The first transactions that fit what was named come after the list so far.   *)
LEMMA ListGoesOn ==
  ASSUME NEW r, IsAsk(r.ask), r.ask.op = "getTransactions", ListSoFar(r),
         NEW other \in Addresses, NEW k \in 1..History[other],
         <<TxLt(k), TxHash(other, k)>> = r.last, other.hash = Address(r.ask.addr).hash
  PROVE  other = Address(r.ask.addr) /\ k = (r.ask.lt \div 10) - Len(r.list)
<1> DEFINE addr == Address(r.ask.addr)  m == Len(r.list)  first == r.ask.lt \div 10
<1>1. m \in Nat /\ r.ask.lt \in Nat /\ first \in Int /\ k \in Nat /\ k # 0
  <2>1. m \in Nat
    BY DEF ListSoFar, ListGood
  <2>2. r.ask.lt \in Nat
    BY DEF IsAsk
  <2>3. k \in Nat /\ k # 0
    BY LiteServerAssumption
  <2>4. QED
    BY <2>1, <2>2, <2>3
<1>2. TxHash(other, k) = <<"tx", other.wc, other.hash, k>>
  BY <1>1 DEF TxHash
<1>3. other.wc = addr.wc /\ k = first - m
  <2>1. CASE m = 0
    <3>1. TxLt(k) = r.ask.lt /\ TxHash(other, k) = r.ask.hash
      BY <2>1 DEF ListSoFar
    <3>2. other.wc = addr.wc
      BY <3>1 DEF IsAsk, IsTxHash
    <3>3. k = first - m
      BY <1>1, <2>1, <3>1 DEF TxLt
    <3>4. QED
      BY <3>2, <3>3
  <2>2. CASE m > 0
    <3>1. TxHash(other, k) = TxHash(addr, first - m)
      BY <2>2 DEF ListSoFar
    <3>2. TxHash(addr, first - m) = <<"no", 0, 0, 0>> \/ TxHash(addr, first - m) = <<"tx", addr.wc, addr.hash, first - m>>
      BY DEF TxHash
    <3>3. <<"tx", other.wc, other.hash, k>> # <<"no", 0, 0, 0>>
      OBVIOUS
    <3>4. <<"tx", other.wc, other.hash, k>> = <<"tx", addr.wc, addr.hash, first - m>>
      BY <1>2, <3>1, <3>2, <3>3
    <3>5. QED
      BY <3>4
  <2>3. QED
    BY <1>1, <2>1, <2>2
<1>4. other = [wc |-> other.wc, hash |-> other.hash] /\ addr = [wc |-> addr.wc, hash |-> addr.hash]
  BY LiteServerAssumption DEF IsAsk, IsAddress
<1>5. QED
  BY <1>3, <1>4

(* getTransactions keeps its list one descending part, or ends with a right one. *)
LEMMA ListStepRight ==
  ASSUME NEW r, IsCall(r), IsAsk(r.ask), r.ask.op = "getTransactions", ListSoFar(r), NEW f,
         NEW reply, reply.type = "liteServer.transactionList", TrueReply(reply), r.mixed \/ Own(r, reply)
  PROVE  CallRight(getTransactions(r, reply.answer), f)
<1> DEFINE a == reply.answer  txs == a.transactions  addr == Address(r.ask.addr)
           m == Len(r.list)  first == r.ask.lt \div 10
           stops == {i \in DOMAIN txs : r.ask.to_lt >= 0 /\ txs[i].prev_trans_lt <= r.ask.to_lt}
           upto == IF stops = {} THEN Len(txs) ELSE CHOOSE i \in stops : \A j \in stops : i <= j
           named(i) == IF i = 1 THEN r.last ELSE <<txs[i - 1].prev_trans_lt, txs[i - 1].prev_trans_hash>>
           fits(i) == <<txs[i].lt, txs[i].hash>> = named(i) /\ txs[i].account_addr = addr.hash
           next == [r EXCEPT !.list = r.list \o SubSeq(txs, 1, upto), !.ids = r.ids \o SubSeq(a.ids, 1, upto),
                             !.pending = r.pending - Len(txs), !.pages = r.pages - 1,
                             !.last = <<txs[upto].prev_trans_lt, txs[upto].prev_trans_hash>>]
           count == IF next.pending < Page THEN next.pending ELSE Page
           req == provider!getTransactions(count, r.ask.addr, next.last[1], next.last[2])
<1>1. getTransactions(r, a) =
        IF txs = << >> THEN Ended(r, Listing(r))
        ELSE IF Len(txs) # Len(a.ids) \/ \E i \in 1..upto : ~fits(i) THEN Ended(r, Fail)
        ELSE IF stops # {} \/ next.last[1] <= 0 \/ next.pages = 0 \/ Len(txs) # r.req.count
             THEN Ended(next, Listing(next))
             ELSE Ask(next, req)
  BY DEF getTransactions
<1>2. PICK other \in Addresses, k \in Nat, n \in Nat :
        k <= History[other] /\ n <= k /\ txs = ListPart(other, k, n) /\ Len(a.ids) = n
  <2>1. PICK other \in Addresses : \E k \in 0..History[other], n \in Nat :
          n <= k /\ txs = ListPart(other, k, n) /\ Len(a.ids) = n
    BY DEF TrueReply
  <2>2. History[other] \in Nat
    BY LiteServerAssumption
  <2>3. QED
    BY <2>1, <2>2
<1>3. /\ txs \in Seq(TransactionsOf(other)) /\ Len(txs) = n /\ DOMAIN txs = 1..n
      /\ \A i \in 1..n : txs[i] = Transaction(other, k - i + 1)
  <2>1. k \in Int
    OBVIOUS
  <2>2. DOMAIN ListPart(other, k, n) = 1..n
    BY DEF ListPart
  <2>3. QED
    BY <1>2, <2>1, <2>2, ListPartIs
<1>4. r.mixed \/ n <= r.req.count
  BY <1>3 DEF Own
<1>5. /\ m \in Nat /\ first \in Int /\ r.ask.max \in Nat /\ r.ask.to_lt \in Int /\ r.pending \in Int
      /\ ListGood(r.ask, r.list)
      /\ r.mixed \/ (r.req.count <= r.pending /\ 0 <= r.pending /\ m + r.pending <= r.ask.max)
  BY DEF IsAsk, ListSoFar, ListGood
<1>6. CASE n = 0
  <2>1. txs = << >>
    BY <1>3, <1>6, EmptySeq
  <2>2. r.mixed \/ m <= r.ask.max
    BY <1>5
  <2>3. CallRight(Ended(r, Listing(r)), f)
    BY <1>5, <2>2, ListingRight, EndedRight
  <2>4. QED
    BY <1>1, <2>1, <2>3
<1>7. CASE n > 0
  <2>1. upto \in 1..n /\ (stops = {} => upto = n) /\ \A j \in 1..(upto - 1) : j \notin stops
    <3>1. CASE stops = {}
      BY <1>3, <1>7, <3>1
    <3>2. CASE stops # {}
      <4>1. stops \in SUBSET Nat /\ stops \subseteq 1..n
        BY <1>3
      <4> HIDE DEF stops
      <4>2. upto \in stops /\ \A j \in stops : upto <= j
        BY <3>2, <4>1, FirstIs
      <4> HIDE DEF upto
      <4>3. upto \in 1..n
        BY <4>1, <4>2
      <4>4. \A j \in 1..(upto - 1) : ~(upto <= j)
        BY <4>3
      <4>5. QED
        BY <3>2, <4>2, <4>3, <4>4
    <3>3. QED
      BY <3>1, <3>2
  <2> HIDE DEF upto
  <2>2. txs # << >>
    BY <1>3, <1>7, EmptySeq
  <2>3. CASE \E i \in 1..upto : ~fits(i)
    <3> HIDE DEF txs, fits, next, stops, req, count
    <3>1. getTransactions(r, a) = Ended(r, Fail)
      BY <1>1, <2>2, <2>3
    <3>2. QED
      BY <3>1, FailRight
  <2>4. CASE \A i \in 1..upto : fits(i)
    <3>0. <<txs[1].lt, txs[1].hash>> = r.last /\ txs[1].account_addr = addr.hash
      <4>1. 1 \in 1..upto
        BY <2>1
      <4> HIDE DEF fits
      <4>2. fits(1)
        BY <2>4, <4>1
      <4> HIDE DEF txs, addr
      <4>3. QED
        BY <4>2 DEF fits
    <3>1. other = addr /\ k = first - m
      <4>1. k \in 1..History[other]
        BY <1>2, <1>7, LiteServerAssumption
      <4>2. txs[1] = Transaction(other, k - 1 + 1) /\ k - 1 + 1 = k
        BY <1>3, <1>7
      <4> HIDE DEF txs, addr
      <4>3. <<TxLt(k), TxHash(other, k)>> = r.last /\ other.hash = addr.hash
        BY <3>0, <4>2 DEF Transaction
      <4> USE DEF addr
      <4>4. QED
        BY <4>1, <4>3, ListGoesOn
    <3>2. r.list \o SubSeq(txs, 1, upto) = ListPart(addr, first, m + upto)
      <4>1. SubSeq(txs, 1, upto) = ListPart(other, k, upto)
        <5>1. k \in Int /\ n \in Nat /\ upto \in 0..n
          BY <2>1
        <5>2. SubSeq(ListPart(other, k, n), 1, upto) = ListPart(other, k, upto)
          BY <5>1, ListStart
        <5>3. QED
          BY <1>2, <5>2
      <4>2. r.list = ListPart(addr, first, m)
        BY <1>5 DEF ListGood
      <4> HIDE DEF m, first, addr, txs
      <4>3. SubSeq(txs, 1, upto) = ListPart(addr, first - m, upto) /\ upto \in Nat
        BY <2>1, <3>1, <4>1
      <4>4. ListPart(addr, first, m) \o ListPart(addr, first - m, upto) = ListPart(addr, first, m + upto)
        <5>1. first \in Int /\ m \in Nat
          BY <1>5
        <5>2. QED
          BY <4>3, <5>1, ListJoin
      <4>5. QED
        BY <4>2, <4>3, <4>4
    <3>3. /\ IsCall(next) /\ next.ask = r.ask /\ next.mixed = r.mixed /\ next.req = r.req
          /\ next.list = ListPart(addr, first, m + upto) /\ next.pending = r.pending - n
          /\ next.last = <<txs[upto].prev_trans_lt, txs[upto].prev_trans_hash>>
      <4> DEFINE list == r.list \o SubSeq(txs, 1, upto)  ids == r.ids \o SubSeq(a.ids, 1, upto)
                 last == <<txs[upto].prev_trans_lt, txs[upto].prev_trans_hash>>
      <4>1. list = ListPart(addr, first, m + upto) /\ Len(txs) = n
        BY <1>3, <3>2
      <4> HIDE DEF list, ids, last, txs, m, first, addr
      <4>2. next = [r EXCEPT !.list = list, !.ids = ids, !.pending = r.pending - n, !.pages = r.pages - 1,
                             !.last = last]
        BY <4>1 DEF list, ids, last
      <4> HIDE DEF next
      <4>3. QED
        BY <4>1, <4>2 DEF IsCall, CallFields, last
    <3> HIDE DEF next
    <3>4. next.last = <<TxLt(first - (m + upto)), TxHash(addr, first - (m + upto))>>
      <4>1. txs[upto] = Transaction(addr, k - upto + 1) /\ (k - upto + 1) - 1 = first - (m + upto)
        <5>1. txs[upto] = Transaction(other, k - upto + 1)
          BY <1>3, <2>1
        <5> HIDE DEF m, first, addr, txs
        <5>2. (k - upto + 1) - 1 = first - (m + upto)
          BY <1>5, <2>1, <3>1
        <5>3. QED
          BY <3>1, <5>1, <5>2
      <4>2. QED
        BY <3>3, <4>1 DEF Transaction
    <3>5. Len(next.list) = m + upto
      BY SMTT(30), <1>5, <2>1, <3>3, ListPartIs
    <3>6. \A i \in 1..n : txs[i].lt = TxLt(k - i + 1) /\ txs[i].prev_trans_lt = TxLt(k - i)
      <4> SUFFICES ASSUME NEW i \in 1..n PROVE txs[i].lt = TxLt(k - i + 1) /\ txs[i].prev_trans_lt = TxLt(k - i)
        OBVIOUS
      <4>1. txs[i] = Transaction(other, k - i + 1) /\ (k - i + 1) - 1 = k - i
        BY <1>3
      <4>2. QED
        BY <4>1 DEF Transaction
    <3>7. \A i \in 1..upto : r.ask.to_lt >= 0 => txs[i].lt > r.ask.to_lt
      <4> SUFFICES ASSUME NEW i \in 1..upto, r.ask.to_lt >= 0 PROVE txs[i].lt > r.ask.to_lt
        OBVIOUS
      <4>1. CASE i = 1
        <5>1. txs[1].lt = r.last[1]
          BY <3>0
        <5>2. r.last[1] > r.ask.to_lt
          BY DEF ListSoFar
        <5>3. QED
          BY <4>1, <5>1, <5>2
      <4>2. CASE i # 1
        <5>1. i - 1 \in 1..(upto - 1) /\ i - 1 \in 1..n /\ i \in 1..n
          BY <2>1, <4>2
        <5>2. i - 1 \notin stops
          BY <2>1, <5>1
        <5>3. ~(txs[i - 1].prev_trans_lt <= r.ask.to_lt)
          BY <1>3, <5>1, <5>2
        <5>4. txs[i].lt = TxLt(k - i + 1) /\ txs[i - 1].prev_trans_lt = TxLt(k - (i - 1))
          BY <3>6, <5>1
        <5>5. k - (i - 1) = k - i + 1 /\ TxLt(k - i + 1) \in Int
          BY DEF TxLt
        <5>6. QED
          BY <1>5, <5>3, <5>4, <5>5
      <4>3. QED
        BY <4>1, <4>2
    <3>8. ListGood(r.ask, next.list)
      <4>1. \A i \in 1..(m + upto) : r.ask.to_lt >= 0 => next.list[i].lt > r.ask.to_lt
        <5> SUFFICES ASSUME NEW i \in 1..(m + upto), r.ask.to_lt >= 0 PROVE next.list[i].lt > r.ask.to_lt
          OBVIOUS
        <5>1. next.list[i] = Transaction(addr, first - i + 1)
          <6>1. m + upto \in Nat
            BY <1>5, <2>1
          <6> HIDE DEF m, first, addr
          <6>2. QED
            BY <1>5, <3>3, <6>1, ListPartIs
        <5>2. CASE i <= m
          <6>1. r.list[i] = Transaction(addr, first - i + 1)
            BY <1>5, <5>2, ListPartIs DEF ListGood
          <6>2. r.list[i].lt > r.ask.to_lt
            BY <1>5, <5>2 DEF ListGood
          <6>3. QED
            BY <5>1, <6>1, <6>2
        <5>3. CASE ~(i <= m)
          <6>1. i - m \in 1..upto /\ i - m \in 1..n /\ k - (i - m) + 1 = first - i + 1
            <7> HIDE DEF m, first, addr
            <7>1. m \in Nat /\ first \in Int /\ k = first - m
              BY <1>5, <3>1
            <7>2. i - m \in 1..upto /\ upto \in 1..n
              BY <2>1, <5>3, <7>1
            <7>3. QED
              BY <7>1, <7>2
          <6>2. txs[i - m] = Transaction(addr, first - i + 1)
            BY <1>3, <3>1, <6>1
          <6>3. txs[i - m].lt > r.ask.to_lt
            BY <3>7, <6>1
          <6>4. QED
            BY <5>1, <6>2, <6>3
        <5>4. QED
          BY <5>2, <5>3
      <4>2. m + upto \in Nat
        BY <1>5, <2>1
      <4>3. QED
        BY <3>3, <3>5, <4>1, <4>2 DEF ListGood
    <3>9. r.mixed \/ (r.pending - n >= 0 /\ m + upto + (r.pending - n) <= r.ask.max /\ m + upto <= r.ask.max)
      <4>1. SUFFICES ASSUME ~r.mixed
                     PROVE  r.pending - n >= 0 /\ m + upto + (r.pending - n) <= r.ask.max /\ m + upto <= r.ask.max
        OBVIOUS
      <4>2. n <= r.pending /\ m + r.pending <= r.ask.max
        <5>1. n <= r.req.count /\ r.req.count <= r.pending /\ m + r.pending <= r.ask.max
          BY <1>4, <1>5, <4>1
        <5>2. r.req.count \in Int
          BY DEF ListSoFar
        <5>3. QED
          BY <1>5, <5>1, <5>2
      <4> HIDE DEF m
      <4>3. upto <= n /\ upto \in Nat
        BY <2>1
      <4> DEFINE pending == r.pending  max == r.ask.max
      <4>4. pending \in Int /\ max \in Nat /\ m \in Nat /\ n <= pending /\ m + pending <= max
        BY <1>5, <4>2
      <4> HIDE DEF pending, max
      <4>5. pending - n >= 0 /\ m + upto + (pending - n) <= max /\ m + upto <= max
        BY <4>3, <4>4
      <4>6. QED
        BY <4>5 DEF pending, max
    <3>10. CallRight(Ended(next, Listing(next)), f)
      <4>1. next.mixed \/ Len(next.list) <= next.ask.max
        BY <3>3, <3>5, <3>9
      <4>2. QED
        BY <3>3, <3>8, <4>1, ListingRight, EndedRight
    <3>11. ASSUME stops = {} PROVE CallRight(Ask(next, req), f)
      <4> DEFINE w == Ask(next, req)
      <4>1. /\ IsCall(w) /\ w.pc = "waiting" /\ w.req = req /\ w.ask = r.ask /\ w.mixed = r.mixed
            /\ w.list = next.list /\ w.last = next.last /\ w.pending = next.pending
        BY <3>3, AskIs
      <4>2. /\ next.last[1] \in Int
            /\ next.pending \in Int /\ count \in Int /\ count <= next.pending
            /\ req.count = count /\ req = provider!getTransactions(req.count, r.ask.addr, next.last[1], next.last[2])
        <5>1. next.last[1] \in Int
          <6>1. first - (m + upto) \in Int
            BY <1>5, <2>1
          <6> HIDE DEF first, m
          <6>2. QED
            BY <3>4, <6>1 DEF TxLt
        <5>2. next.pending \in Int /\ count \in Int /\ count <= next.pending
          BY <1>5, <3>3, BlockApiAssumption
        <5> HIDE DEF count
        <5>3. req.count = count
          BY DEF provider!getTransactions
        <5>4. QED
          BY <5>1, <5>2, <5>3
      <4> HIDE DEF req, w, count
      <4>3. OwnRequest(w)
        BY <4>1, <4>2 DEF OwnRequest
      <4>4. r.ask.to_lt >= 0 => next.last[1] > r.ask.to_lt
        <5> SUFFICES ASSUME r.ask.to_lt >= 0 PROVE next.last[1] > r.ask.to_lt
          OBVIOUS
        <5>1. upto = n /\ n \in 1..n
          BY <2>1, <3>11
        <5>2. ~(txs[n].prev_trans_lt <= r.ask.to_lt)
          BY <1>3, <3>11, <5>1
        <5>3. next.last[1] = txs[n].prev_trans_lt
          BY <3>3, <5>1
        <5>4. QED
          BY <1>5, <4>2, <5>2, <5>3
      <4>5. ListSoFar(w)
        <5>1. m + upto > 0 /\ addr \in Addresses
          BY <1>5, <2>1, <3>1
        <5>2. r.mixed \/ (count <= next.pending /\ 0 <= next.pending /\ m + upto + next.pending <= r.ask.max)
          BY <3>3, <3>9, <4>2
        <5>3. QED
          BY <3>4, <3>5, <3>8, <4>1, <4>2, <4>4, <5>1, <5>2 DEF ListSoFar
      <4>6. QED
        BY <4>1, <4>3, <4>5 DEF CallRight, w
    <3>12. QED
      BY <1>1, <1>2, <1>3, <2>2, <2>4, <3>10, <3>11
  <2>5. QED
    BY <2>3, <2>4
<1>8. QED
  BY <1>6, <1>7

(* ---- the steps ------------------------------------------------------------------------- *)
(* A call that is put in its place by a step that keeps the faults, or adds one. *)
LEMMA SetRight ==
  ASSUME CallsRight, NEW x \in Calls, NEW next, Set(x, next),
         faults' \in 0..MaxFaults, faults <= faults', CallRight(next, faults')
  PROVE  CallsRight'
<1>1. call' = [call EXCEPT ![x] = next] /\ call = [y \in Calls |-> call[y]] /\ faults \in Int /\ faults' \in Int
  BY DEF Set, CallsRight
<1>2. call' = [y \in Calls |-> call'[y]] /\ call'[x] = next /\ \A y \in Calls \ {x} : call'[y] = call[y]
  BY <1>1
<1>3. ASSUME NEW y \in Calls \ {x} PROVE CallRight(call[y], faults')
  <2>1. CallRight(call[y], faults)
    BY DEF CallsRight
  <2>2. \A n : AstrayBy(call[y], n, faults) /\ n \in Nat => AstrayBy(call[y], n, faults')
    BY <1>1 DEF AstrayBy
  <2>3. \A n : AstrayBy(call[y], n, faults) => call[y].rounds \in Nat
    BY DEF AstrayBy
  <2>4. QED
    BY <2>1, <2>2, <2>3 DEF CallRight
<1>4. \A y \in Calls : CallRight(call'[y], faults')
  BY <1>2, <1>3
<1>5. QED
  BY <1>2, <1>4 DEF CallsRight

(* A call whose provider throws fails, or ends with the list so far.            *)
LEMMA RejectedRight ==
  ASSUME NEW x, NEW r, IsCall(r), IsAsk(r.ask), r.ask.op = "getTransactions" => ListSoFar(r),
         Rejected(x, r), NEW f
  PROVE  \E next : Set(x, next) /\ CallRight(next, f)
<1>1. CASE r.ask.op # "getTransactions"
  <2>1. Set(x, Ended(r, Fail))
    BY <1>1 DEF Rejected, Finish
  <2>2. QED
    BY <2>1, FailRight
<1>2. CASE r.ask.op = "getTransactions"
  <2>1. Set(x, Ended(r, Listing(r)))
    BY <1>2 DEF Rejected, Finish
  <2>2. r.mixed \/ Len(r.list) <= r.ask.max
    BY <1>2 DEF ListSoFar, ListGood, IsAsk
  <2>3. CallRight(Ended(r, Listing(r)), f)
    BY <1>2, <2>2, ListingRight, EndedRight DEF ListSoFar
  <2>4. QED
    BY <2>1, <2>3
<1>3. QED
  BY <1>1, <1>2

(* A call that waits takes a true reply, to its own question or to another's.   *)
LEMMA TakeRight ==
  ASSUME NEW x, NEW r, IsCall(r), r.pc = "waiting", IsAsk(r.ask), OwnRequest(r), NEW f,
         r.ask.op = "getTransactions" => ListSoFar(r),
         r.ask.op = "validate" => AstrayBy(r, r.rounds + 1, f),
         NEW reply, TrueReply(reply), r.mixed \/ Own(r, reply), Take(x, r, reply)
  PROVE  \E next : Set(x, next) /\ CallRight(next, f)
<1> DEFINE a == reply.answer
<1>1. CASE reply.type # r.req.type
  <2>1. Rejected(x, r)
    BY <1>1 DEF Take
  <2>2. QED
    BY <2>1, RejectedRight
<1>2. CASE reply.type = r.req.type
  <2>0. reply.type = ReplyType(r.ask.op)
    BY <1>2, TypeIs
  <2>1. CASE r.ask.op = "validate"
    <3>1. TakeProof(x, r, a)
      BY <1>2, <2>1 DEF Take
    <3>2. CASE Finish(x, r, Fail)
      <4>1. Set(x, Ended(r, Fail))
        BY <3>2 DEF Finish
      <4>2. QED
        BY <4>1, FailRight
    <3> DEFINE next == [r EXCEPT !.pc = "linking", !.from = fromLiteId(a.from), !.to = fromLiteId(a.to), !.steps = a.steps]
    <3>3. CASE Set(x, next)
      <4>1. fromLiteId(a.to) \in ChainIds
        <5>1. PICK id \in ChainIds : a.to = LiteId(id)
          BY <2>0, <2>1 DEF ReplyType, TrueReply
        <5>2. QED
          BY <5>1, MasterIs DEF ChainIds
      <4>2. /\ IsCall(next) /\ next.pc = "linking" /\ next.ask = r.ask /\ next.to \in ChainIds
            /\ next.rounds = r.rounds
        BY <4>1 DEF IsCall, CallFields
      <4> HIDE DEF next
      <4>3. CallRight(next, f)
        BY <2>1, <4>2 DEF CallRight, AstrayBy
      <4>4. QED
        BY <3>3, <4>3
    <3>4. QED
      BY <3>1, <3>2, <3>3 DEF TakeProof
  <2>2. CASE r.ask.op = "getTransactions"
    <3>1. Set(x, getTransactions(r, a))
      BY <1>2, <2>2 DEF Take
    <3>2. CallRight(getTransactions(r, a), f)
      BY <2>0, <2>2, ListStepRight DEF ReplyType
    <3>3. QED
      BY <3>1, <3>2
  <2>3. CASE r.ask.op \notin {"validate", "getTransactions"}
    <3>1. Set(x, Ended(r, Result(r.ask, a)))
      <4>1. Finish(x, r, Result(r.ask, a))
        BY <1>2, <2>3 DEF Take
      <4>2. QED
        BY <4>1 DEF Finish
    <3>2. ASSUME NEW d, d.res.ok, d.res = Result(r.ask, a), d.ask = r.ask, d.req = r.req, d.mixed = r.mixed
          PROVE  Right(d)
      <4>1. d.mixed \/ Own(d, reply)
        BY <3>2 DEF Own
      <4>2. QED
        BY <2>0, <2>3, <3>2, <4>1, ResultRight
    <3>3. CallRight(Ended(r, Result(r.ask, a)), f)
      BY <3>2, EndedRight
    <3>4. QED
      BY <3>1, <3>3
  <2>4. QED
    BY <2>1, <2>2, <2>3
<1>3. QED
  BY <1>1, <1>2

(* What a waiting call has asked does not change when something disturbs it.    *)
LEMMA StillWaiting ==
  ASSUME NEW r, NEW f, CallRight(r, f), r.pc = "waiting", NEW q, q.ask = r.ask, q.req = r.req,
         q.list = r.list, q.last = r.last, q.pending = r.pending, q.rounds = r.rounds,
         q.mixed = r.mixed \/ q.mixed = TRUE
  PROVE  /\ IsAsk(q.ask) /\ OwnRequest(q)
         /\ q.ask.op = "getTransactions" => ListSoFar(q)
         /\ q.ask.op = "validate" => AstrayBy(q, q.rounds, f)
<1>1. /\ IsAsk(r.ask) /\ OwnRequest(r)
      /\ r.ask.op = "getTransactions" => ListSoFar(r)
      /\ r.ask.op = "validate" => AstrayBy(r, r.rounds, f)
  BY DEF CallRight
<1>2. OwnRequest(q)
  BY <1>1 DEF OwnRequest
<1>3. ASSUME q.ask.op = "getTransactions" PROVE ListSoFar(q)
  <2>1. ListSoFar(r)
    BY <1>1, <1>3
  <2>2. q.mixed \/ (q.req.count <= q.pending /\ 0 <= q.pending /\ Len(q.list) + q.pending <= q.ask.max)
    BY <2>1 DEF ListSoFar
  <2>3. QED
    BY <2>1, <2>2 DEF ListSoFar
<1>4. q.ask.op = "validate" => AstrayBy(q, q.rounds, f)
  BY <1>1 DEF AstrayBy
<1>5. QED
  BY <1>1, <1>2, <1>3, <1>4

(* A call that begins asks a question of the allowed kind.                    *)
LEMMA StartRight ==
  ASSUME CallsRight, NEW x \in Calls, Start(x)
  PROVE  CallsRight'
<1>1. PICK c \in Clients, ask \in Asks[x] :
        Set(x, [Idle EXCEPT !.pc = "ready", !.client = c, !.ask = ask, !.left = ask.retry])
  BY DEF Start
<1> DEFINE next == [Idle EXCEPT !.pc = "ready", !.client = c, !.ask = ask, !.left = ask.retry]
<1>2. IsCall(Idle)
  BY DEF Idle, IsCall, CallFields
<1>3. IsCall(next) /\ next.pc = "ready" /\ next.ask = ask
  BY <1>2 DEF IsCall, CallFields
<1> HIDE DEF next
<1>4. CallRight(next, faults)
  BY <1>3, AsksType DEF CallRight
<1>5. faults' = faults /\ faults \in 0..MaxFaults
  BY DEF Start, CallsRight
<1>6. faults <= faults'
  BY <1>5, BlockApiAssumption
<1>7. QED
  BY <1>1, <1>4, <1>5, <1>6, SetRight DEF next

(* A validation waits, unless a block of the number is known or none is.        *)
LEMMA ValidateRight ==
  ASSUME NEW x, NEW r, IsCall(r), IsAsk(r.ask), r.ask.op = "validate", NEW f \in Nat, Validate(x, r)
  PROVE  \E next : Set(x, next) /\ CallRight(next, f)
<1> DEFINE from == Nearest(known[r.client], r.ask.id.seqno)
           short == [r EXCEPT !.shortcut = TRUE]
           begun == [r EXCEPT !.from = from, !.rounds = 0]
<1>1. CASE Set(x, Ended(short, Ok(TRUE)))
  <2>1. IsCall(short) /\ short.ask = r.ask /\ short.shortcut = TRUE
    BY DEF IsCall, CallFields
  <2> HIDE DEF short
  <2>2. ASSUME NEW d, d.ask = short.ask, d.shortcut = short.shortcut PROVE Right(d)
    BY <2>1, <2>2 DEF Right
  <2>3. CallRight(Ended(short, Ok(TRUE)), f)
    BY <2>1, <2>2, EndedRight
  <2>4. QED
    BY <1>1, <2>3
<1>2. CASE Finish(x, r, Fail)
  <2>1. Set(x, Ended(r, Fail))
    BY <1>2 DEF Finish
  <2>2. QED
    BY <2>1, FailRight
<1>3. CASE Set(x, Ask(begun, provider!getBlockProof(from, r.ask.id)))
  <2>1. IsCall(begun) /\ begun.ask = r.ask /\ begun.rounds = 0
    BY DEF IsCall, CallFields
  <2> DEFINE req == provider!getBlockProof(from, r.ask.id)  w == Ask(begun, req)
  <2> HIDE DEF begun
  <2>2. IsCall(w) /\ w.pc = "waiting" /\ w.req = req /\ w.ask = r.ask /\ w.rounds = 0
    BY <2>1, AskIs
  <2>3. OwnRequest(w)
    BY <2>2 DEF OwnRequest
  <2>4. AstrayBy(w, w.rounds, f)
    BY <2>2 DEF AstrayBy
  <2> HIDE DEF w
  <2>5. CallRight(w, f)
    BY <2>2, <2>3, <2>4 DEF CallRight
  <2>6. QED
    BY <1>3, <2>5 DEF w
<1>4. QED
  BY <1>1, <1>2, <1>3 DEF Validate

(* A list begins empty.                                                         *)
LEMMA ListFromRight ==
  ASSUME NEW r, IsCall(r), IsAsk(r.ask), r.ask.op = "getTransactions", NEW f
  PROVE  CallRight(ListFrom(r), f)
<1> DEFINE requests == (r.ask.max + Page - 1) \div Page
           first == [r EXCEPT !.list = << >>, !.ids = << >>, !.last = <<r.ask.lt, r.ask.hash>>,
                              !.pending = r.ask.max, !.pages = requests]
           count == IF r.ask.max < Page THEN r.ask.max ELSE Page
           req == provider!getTransactions(count, r.ask.addr, r.ask.lt, r.ask.hash)
<1>1. \/ ListFrom(r) = Ended(r, Fail)
      \/ ListFrom(r) = Ended(first, Listing(first))
      \/ ListFrom(r) = Ask(first, req) /\ ~(r.ask.to_lt >= 0 /\ r.ask.lt <= r.ask.to_lt)
  BY DEF ListFrom
<1>2. /\ IsCall(first) /\ first.ask = r.ask /\ first.list = << >>
      /\ first.last = <<r.ask.lt, r.ask.hash>> /\ first.pending = r.ask.max
  BY DEF IsCall, CallFields
<1> HIDE DEF first
<1>3. r.ask.max \in Nat /\ r.ask.lt \in Nat /\ r.ask.to_lt \in Int
  BY DEF IsAsk
<1>4. ListGood(r.ask, << >>)
  <2>1. Len(<< >>) = 0 /\ ListPart(Address(r.ask.addr), r.ask.lt \div 10, 0) = << >>
    <3>1. r.ask.lt \div 10 \in Int /\ 0 \in Nat
      BY <1>3
    <3> DEFINE k == r.ask.lt \div 10  s == ListPart(Address(r.ask.addr), k, 0)
    <3> HIDE DEF k
    <3>2. s \in Seq(TransactionsOf(Address(r.ask.addr))) /\ Len(s) = 0
      BY <3>1, ListPartIs DEF k
    <3> HIDE DEF s
    <3>3. s = << >>
      BY <3>2, EmptySeq
    <3>4. QED
      BY <3>3, EmptySeq DEF s, k
  <2>2. QED
    BY <2>1 DEF ListGood
<1>5. CASE ListFrom(r) = Ended(r, Fail)
  BY <1>5, FailRight
<1>6. CASE ListFrom(r) = Ended(first, Listing(first))
  <2>1. Len(first.list) <= r.ask.max
    BY <1>2, <1>3, EmptySeq
  <2>2. QED
    BY <1>2, <1>4, <1>6, <2>1, ListingRight, EndedRight
<1>7. CASE ListFrom(r) = Ask(first, req) /\ ~(r.ask.to_lt >= 0 /\ r.ask.lt <= r.ask.to_lt)
  <2> DEFINE w == Ask(first, req)
  <2>1. /\ IsCall(w) /\ w.pc = "waiting" /\ w.req = req /\ w.ask = r.ask
        /\ w.list = << >> /\ w.last = <<r.ask.lt, r.ask.hash>> /\ w.pending = r.ask.max
    BY <1>2, AskIs
  <2>2. count \in Int /\ count <= r.ask.max
    BY <1>3, BlockApiAssumption
  <2> HIDE DEF count
  <2>3. req.count = count
    BY DEF provider!getTransactions
  <2>4. OwnRequest(w)
    BY <1>3, <2>1, <2>2, <2>3 DEF OwnRequest
  <2> HIDE DEF req, w
  <2>5. ListSoFar(w)
    <3>1. Len(w.list) = 0
      BY <2>1, EmptySeq
    <3>2. ListGood(w.ask, w.list)
      BY <1>4, <2>1
    <3>3. w.ask.to_lt >= 0 => w.last[1] > w.ask.to_lt
      BY <1>3, <1>7, <2>1
    <3>4. w.req.count <= w.pending /\ 0 <= w.pending /\ Len(w.list) + w.pending <= w.ask.max
      BY <1>3, <2>1, <2>2, <2>3, <3>1
    <3>5. QED
      BY <1>3, <2>1, <2>2, <2>3, <3>1, <3>2, <3>3, <3>4 DEF ListSoFar
  <2>6. QED
    BY <1>7, <2>1, <2>4, <2>5 DEF CallRight, w
<1>8. QED
  BY <1>1, <1>5, <1>6, <1>7

(* A method that is entered asks its own question, validate from a known block. *)
LEMMA EnterRight ==
  ASSUME CallsRight, NEW x \in Calls, Enter(x)
  PROVE  CallsRight'
<1> DEFINE r == call[x]
<1>0. /\ CallRight(r, faults) /\ r.pc = "ready" /\ faults' = faults /\ faults \in 0..MaxFaults /\ faults \in Nat
      /\ faults <= faults'
  BY BlockApiAssumption DEF CallsRight, Enter
<1>1. IsCall(r) /\ IsAsk(r.ask)
  BY <1>0 DEF CallRight
<1>2. \E next : Set(x, next) /\ CallRight(next, faults)
  <2>1. CASE r.ask.op = "validate"
    <3>1. Validate(x, r)
      BY <2>1 DEF Enter
    <3>2. QED
      BY <1>0, <1>1, <2>1, <3>1, ValidateRight
  <2>2. CASE r.ask.op = "getTransactions"
    <3>1. Set(x, ListFrom(r))
      BY <2>2 DEF Enter
    <3>2. QED
      BY <1>1, <2>2, <3>1, ListFromRight
  <2>3. CASE r.ask.op \in {"getShards", "getConfig"} /\ r.ask.id.workchain # -1
    <3>1. Finish(x, r, Fail)
      BY <2>3 DEF Enter
    <3>2. Set(x, Ended(r, Fail))
      BY <3>1 DEF Finish
    <3>3. QED
      BY <1>1, <3>2, FailRight
  <2>4. CASE /\ r.ask.op \notin {"validate", "getTransactions"}
             /\ ~(r.ask.op \in {"getShards", "getConfig"} /\ r.ask.id.workchain # -1)
    <3> DEFINE req == Request(r.ask)  w == Ask(r, req)
    <3>1. Set(x, w)
      BY <2>4 DEF Enter
    <3>2. IsCall(w) /\ w.pc = "waiting" /\ w.req = req /\ w.ask = r.ask
      BY <1>1, AskIs
    <3> HIDE DEF w
    <3>3. OwnRequest(w)
      BY <2>4, <3>2 DEF OwnRequest
    <3>4. CallRight(w, faults)
      BY <1>1, <2>4, <3>2, <3>3 DEF CallRight
    <3>5. QED
      BY <3>1, <3>4 DEF w
  <2>5. QED
    BY <2>1, <2>2, <2>3, <2>4
<1>3. QED
  BY <1>0, <1>2, SetRight

(* The answer to the request is true and the call's own.                      *)
LEMMA ReceiveRight ==
  ASSUME CallsRight, NEW x \in Calls, Receive(x)
  PROVE  CallsRight'
<1> DEFINE r == call[x]
<1>1. PICK reply \in Answers(r.req) : Take(x, r, reply)
  BY DEF Receive
<1>2. /\ CallRight(r, faults) /\ r.pc = "waiting" /\ faults' = faults /\ faults \in 0..MaxFaults
      /\ faults <= faults'
  BY BlockApiAssumption DEF CallsRight, Receive, Waiting
<1>3. /\ IsCall(r) /\ IsAsk(r.ask) /\ OwnRequest(r)
      /\ r.ask.op = "getTransactions" => ListSoFar(r)
      /\ r.ask.op = "validate" => AstrayBy(r, r.rounds, faults)
  BY <1>2 DEF CallRight
<1> HIDE DEF r
<1>4. TrueReply(reply) /\ Own(r, reply)
  BY <1>3, Honest
<1>5. r.ask.op = "validate" => AstrayBy(r, r.rounds + 1, faults)
  BY <1>3, <1>4 DEF AstrayBy, Own
<1>6. \E next : Set(x, next) /\ CallRight(next, faults)
  BY <1>1, <1>2, <1>3, <1>4, <1>5, TakeRight
<1>7. QED
  BY <1>2, <1>6, SetRight

(* A link that is checked leads to a block of the chain, at most one round further. *)
LEMMA CheckLinkRight ==
  ASSUME CallsRight, NEW x \in Calls, CheckLink(x)
  PROVE  CallsRight'
<1> DEFINE r == call[x]
           fit == {l \in FittingLinks : l.hop = Head(r.steps) /\ l.on = r.from}
           link == CHOOSE l \in fit : TRUE
           on == [r EXCEPT !.from = link.to, !.steps = Tail(r.steps)]
           round == [on EXCEPT !.from = r.to, !.rounds = r.rounds + 1]
           req == provider!getBlockProof(r.to, r.ask.id)
<1>1. /\ r.pc = "linking" /\ faults' = faults
      /\ \/ Set(x, Ended(r, Fail))
         \/ Set(x, on)
         \/ Set(x, Ended(round, Ok(TRUE))) /\ (compare(r.ask.id, r.to) \/ round.rounds = MaxRounds)
         \/ Set(x, Ask(round, req))
  BY DEF CheckLink, Finish
<1>2. /\ CallRight(r, faults) /\ faults \in 0..MaxFaults /\ faults <= faults'
  BY <1>1, BlockApiAssumption DEF CallsRight
<1>3. /\ IsCall(r) /\ IsAsk(r.ask) /\ r.ask.op = "validate" /\ r.to \in ChainIds
      /\ r.rounds \in Nat /\ (r.ask.id \notin ChainIds => r.rounds + 1 <= faults)
  BY <1>1, <1>2 DEF CallRight, AstrayBy
<1> HIDE DEF r, link
<1>4. /\ IsCall(on) /\ on.pc = r.pc /\ on.ask = r.ask /\ on.to = r.to /\ on.rounds = r.rounds
  BY <1>3 DEF IsCall, CallFields
<1>5. IsCall(round) /\ round.ask = r.ask /\ round.rounds = r.rounds + 1
  BY <1>4 DEF IsCall, CallFields
<1> HIDE DEF on, round
<1>6. CallRight(on, faults)
  BY <1>1, <1>3, <1>4 DEF CallRight, AstrayBy
<1>7. ASSUME compare(r.ask.id, r.to) \/ round.rounds = MaxRounds
      PROVE  CallRight(Ended(round, Ok(TRUE)), faults)
  <2>1. r.ask.id \in ChainIds
    <3>1. CASE compare(r.ask.id, r.to)
      <4> DEFINE id == r.ask.id  to == r.to
      <4>1. id = [workchain |-> id.workchain, shard |-> id.shard, seqno |-> id.seqno,
                  root_hash |-> id.root_hash, file_hash |-> id.file_hash]
        BY <1>3 DEF IsAsk, IsId
      <4>2. to = [workchain |-> to.workchain, shard |-> to.shard, seqno |-> to.seqno,
                  root_hash |-> to.root_hash, file_hash |-> to.file_hash]
        BY <1>3 DEF ChainIds, Id
      <4>3. /\ to.seqno = id.seqno /\ to.workchain = id.workchain /\ to.shard = id.shard
            /\ to.file_hash = id.file_hash /\ to.root_hash = id.root_hash
        BY <3>1 DEF compare, compareShard
      <4> HIDE DEF id, to
      <4>4. id = to
        BY <4>1, <4>2, <4>3
      <4>5. QED
        BY <1>3, <4>4 DEF id, to
    <3>2. CASE round.rounds = MaxRounds
      BY <1>2, <1>3, <1>5, <3>2, BlockApiAssumption
    <3>3. QED
      BY <1>7, <3>1, <3>2
  <2>2. ASSUME NEW d, d.ask = round.ask PROVE Right(d)
    BY <1>3, <1>5, <2>1, <2>2 DEF Right
  <2>3. QED
    BY <1>3, <1>5, <2>2, EndedRight
<1>8. CallRight(Ask(round, req), faults)
  <2> DEFINE w == Ask(round, req)
  <2>1. IsCall(w) /\ w.pc = "waiting" /\ w.req = req /\ w.ask = r.ask /\ w.rounds = r.rounds + 1
    BY <1>5, AskIs
  <2> HIDE DEF w
  <2>2. OwnRequest(w)
    BY <1>3, <2>1 DEF OwnRequest
  <2>3. AstrayBy(w, w.rounds, faults)
    BY <1>3, <2>1 DEF AstrayBy
  <2>4. QED
    BY <1>3, <2>1, <2>2, <2>3 DEF CallRight, w
<1>9. CallRight(Ended(r, Fail), faults)
  BY <1>3, FailRight
<1>10. \E next : Set(x, next) /\ CallRight(next, faults)
  BY <1>1, <1>6, <1>7, <1>8, <1>9
<1>11. QED
  BY <1>1, <1>2, <1>10, SetRight

(* A call that waits is rejected, disturbed or not.                             *)
LEMMA DisturbIs ==
  ASSUME NEW x, NEW f, CallRight(call[x], f)
  PROVE  LET r == call[x]
             q == Disturb(x)
         IN  /\ IsCall(q) /\ q.ask = r.ask /\ q.req = r.req /\ q.pc = r.pc
             /\ q.list = r.list /\ q.last = r.last /\ q.pending = r.pending /\ q.rounds = r.rounds
             /\ q.mixed = r.mixed
BY DEF Disturb, CallRight, IsCall, CallFields

(* A lost connection leaves the call with its question, or ends it.           *)
LEMMA LoseRight ==
  ASSUME CallsRight, NEW x \in Calls, Lose(x)
  PROVE  CallsRight'
<1> DEFINE r == call[x]
           q == Disturb(x)
           p == [q EXCEPT !.tries = q.tries - 1]
<1>1. /\ r.pc = "waiting" /\ faults' = faults + 1 /\ CallRight(r, faults)
      /\ faults' \in 0..MaxFaults /\ faults <= faults'
  BY BlockApiAssumption DEF Lose, Waiting, CallsRight
<1>2. Set(x, p) \/ Rejected(x, p)
  BY DEF Lose
<1>3. /\ IsCall(q) /\ q.ask = r.ask /\ q.req = r.req /\ q.pc = r.pc
      /\ q.list = r.list /\ q.last = r.last /\ q.pending = r.pending /\ q.rounds = r.rounds
      /\ q.mixed = r.mixed
  BY <1>1, DisturbIs
<1> HIDE DEF r, q
<1>4. /\ IsCall(p) /\ p.ask = r.ask /\ p.req = r.req /\ p.pc = r.pc
      /\ p.list = r.list /\ p.last = r.last /\ p.pending = r.pending /\ p.rounds = r.rounds
      /\ p.mixed = r.mixed
  BY <1>3 DEF IsCall, CallFields
<1> HIDE DEF p
<1>5. /\ IsAsk(p.ask) /\ OwnRequest(p)
      /\ p.ask.op = "getTransactions" => ListSoFar(p)
      /\ p.ask.op = "validate" => AstrayBy(p, p.rounds, faults)
  BY <1>1, <1>4, StillWaiting
<1>6. p.ask.op = "validate" => AstrayBy(p, p.rounds, faults')
  BY <1>1, <1>5 DEF AstrayBy, CallsRight
<1>7. CallRight(p, faults')
  BY <1>1, <1>4, <1>5, <1>6 DEF CallRight
<1>8. \E next : Set(x, next) /\ CallRight(next, faults')
  BY <1>2, <1>4, <1>5, <1>7, RejectedRight
<1>9. QED
  BY <1>1, <1>8, SetRight

(* A refusal leaves the call with its question, or ends it.                   *)
LEMMA RefuseRight ==
  ASSUME CallsRight, NEW x \in Calls, Refuse(x)
  PROVE  CallsRight'
<1> DEFINE r == call[x]
<1>1. /\ Rejected(x, r) /\ r.pc = "waiting" /\ faults' = faults /\ CallRight(r, faults)
      /\ faults' \in 0..MaxFaults /\ faults <= faults'
  BY BlockApiAssumption DEF Refuse, Waiting, CallsRight
<1>2. IsCall(r) /\ IsAsk(r.ask) /\ (r.ask.op = "getTransactions" => ListSoFar(r))
  BY <1>1 DEF CallRight
<1>3. \E next : Set(x, next) /\ CallRight(next, faults')
  BY <1>1, <1>2, RejectedRight
<1>4. QED
  BY <1>1, <1>3, SetRight

(* A node that is behind fails the call, or ends it with the list so far.      *)
LEMMA BehindRight ==
  ASSUME CallsRight, NEW x \in Calls, Behind(x)
  PROVE  CallsRight'
<1> DEFINE r == call[x]
           q == Disturb(x)
<1>1. /\ Rejected(x, q) /\ r.pc = "waiting" /\ faults' = faults + 1 /\ CallRight(r, faults)
      /\ faults' \in 0..MaxFaults /\ faults <= faults'
  BY BlockApiAssumption DEF Behind, Waiting, CallsRight
<1>2. /\ IsCall(q) /\ q.ask = r.ask /\ q.req = r.req /\ q.pc = r.pc
      /\ q.list = r.list /\ q.last = r.last /\ q.pending = r.pending /\ q.rounds = r.rounds
      /\ q.mixed = r.mixed
  BY <1>1, DisturbIs
<1> HIDE DEF r, q
<1>3. IsAsk(q.ask) /\ (q.ask.op = "getTransactions" => ListSoFar(q))
  BY <1>1, <1>2, StillWaiting
<1>4. \E next : Set(x, next) /\ CallRight(next, faults')
  BY <1>1, <1>2, <1>3, RejectedRight
<1>5. QED
  BY <1>1, <1>4, SetRight

(* The answer to another request is true too, and the call is marked as mixed. *)
LEMMA MixUpRight ==
  ASSUME CallsRight, NEW x \in Calls, MixUp(x)
  PROVE  CallsRight'
<1>1. PICK y \in Calls \ {x} :
        /\ call[y].pc = "waiting"
        /\ \E reply \in Answers(call[y].req) : Take(x, [Disturb(x) EXCEPT !.mixed = TRUE], reply)
  BY DEF MixUp, Waiting
<1>2. PICK reply \in Answers(call[y].req) : Take(x, [Disturb(x) EXCEPT !.mixed = TRUE], reply)
  BY <1>1
<1> DEFINE r == call[x]
           q == Disturb(x)
           p == [q EXCEPT !.mixed = TRUE]
<1>3. /\ r.pc = "waiting" /\ faults' = faults + 1 /\ CallRight(r, faults) /\ CallRight(call[y], faults)
      /\ faults' \in 0..MaxFaults /\ faults <= faults' /\ faults \in Int
  BY BlockApiAssumption DEF MixUp, Waiting, CallsRight
<1>4. TrueReply(reply)
  BY <1>1, <1>2, <1>3, Honest DEF CallRight
<1>5. /\ IsCall(q) /\ q.ask = r.ask /\ q.req = r.req /\ q.pc = r.pc
      /\ q.list = r.list /\ q.last = r.last /\ q.pending = r.pending /\ q.rounds = r.rounds
  BY <1>3, DisturbIs
<1>6. Take(x, p, reply)
  BY <1>2
<1> HIDE DEF r, q
<1>7. /\ IsCall(p) /\ p.ask = r.ask /\ p.req = r.req /\ p.pc = r.pc
      /\ p.list = r.list /\ p.last = r.last /\ p.pending = r.pending /\ p.rounds = r.rounds
      /\ p.mixed = TRUE
  BY <1>5 DEF IsCall, CallFields
<1> HIDE DEF p
<1>8. /\ IsAsk(p.ask) /\ OwnRequest(p)
      /\ p.ask.op = "getTransactions" => ListSoFar(p)
      /\ p.ask.op = "validate" => AstrayBy(p, p.rounds, faults)
  BY <1>3, <1>7, StillWaiting
<1>9. p.ask.op = "validate" => AstrayBy(p, p.rounds + 1, faults')
  BY <1>3, <1>8 DEF AstrayBy
<1>10. \E next : Set(x, next) /\ CallRight(next, faults')
  BY <1>3, <1>4, <1>6, <1>7, <1>8, <1>9, TakeRight
<1>11. QED
  BY <1>3, <1>10, SetRight

(* A page that is loaded again drops its calls and touches no other.          *)
LEMMA ReloadRight ==
  ASSUME CallsRight, NEW c \in Clients, Reload(c)
  PROVE  CallsRight'
<1>1. /\ faults' = faults + 1 /\ faults \in 0..MaxFaults /\ faults' \in 0..MaxFaults
      /\ faults \in Int /\ faults <= faults'
      /\ call' = [x \in Calls |-> IF call[x].client = c /\ call[x].pc \notin {"idle", "done"}
                                  THEN [call[x] EXCEPT !.pc = "dropped"] ELSE call[x]]
  BY BlockApiAssumption DEF Reload, CallsRight
<1>2. ASSUME NEW x \in Calls PROVE CallRight(call'[x], faults')
  <2>0. CallRight(call[x], faults)
    BY DEF CallsRight
  <2>1. CASE call[x].client = c /\ call[x].pc \notin {"idle", "done"}
    <3> DEFINE e == [call[x] EXCEPT !.pc = "dropped"]
    <3>1. call'[x] = e
      BY <1>1, <2>1
    <3>2. IsCall(e) /\ e.pc = "dropped" /\ e.ask = call[x].ask /\ IsAsk(call[x].ask)
      BY <2>0, <2>1 DEF CallRight, IsCall, CallFields
    <3> HIDE DEF e
    <3>3. QED
      BY <3>1, <3>2 DEF CallRight
  <2>2. CASE ~(call[x].client = c /\ call[x].pc \notin {"idle", "done"})
    <3>1. call'[x] = call[x]
      BY <1>1, <2>2
    <3>2. \A n \in Nat : AstrayBy(call[x], n, faults) => AstrayBy(call[x], n, faults')
      BY <1>1 DEF AstrayBy
    <3>3. \A n : AstrayBy(call[x], n, faults) => call[x].rounds \in Nat
      BY DEF AstrayBy
    <3>4. CallRight(call[x], faults')
      BY <2>0, <3>2, <3>3 DEF CallRight
    <3>5. QED
      BY <3>1, <3>4
  <2>3. QED
    BY <2>1, <2>2
<1>3. call' = [x \in Calls |-> call'[x]]
  BY <1>1
<1>4. QED
  BY <1>1, <1>2, <1>3 DEF CallsRight

(* What the calls have, have asked and have heard so far is right.               *)
THEOREM CallsStayRight == Spec => []CallsRight
<1>1. Init => CallsRight
  <2> SUFFICES ASSUME Init PROVE CallsRight
    OBVIOUS
  <2>1. call = [x \in Calls |-> Idle] /\ faults = 0
    BY DEF Init
  <2>2. IsCall(Idle) /\ Idle.pc = "idle"
    BY DEF Idle, IsCall, CallFields
  <2>3. CallRight(Idle, 0)
    BY <2>2 DEF CallRight
  <2>4. QED
    BY <2>1, <2>3, BlockApiAssumption DEF CallsRight
<1>2. CallsRight /\ [Next]_vars => CallsRight'
  <2> SUFFICES ASSUME CallsRight, [Next]_vars PROVE CallsRight'
    OBVIOUS
  <2>1. CASE UNCHANGED vars
    BY <2>1 DEF vars, CallsRight
  <2>2. CASE \E x \in Calls : Start(x) \/ Step(x) \/ Lose(x) \/ Behind(x) \/ MixUp(x)
    BY <2>2, StartRight, EnterRight, ReceiveRight, CheckLinkRight, RefuseRight, LoseRight, BehindRight, MixUpRight
    DEF Step
  <2>3. CASE \E c \in Clients : Reload(c)
    BY <2>3, ReloadRight
  <2>4. QED
    BY <2>1, <2>2, <2>3 DEF Next
<1>3. QED
  BY <1>1, <1>2, PTL DEF Spec

(* A method that ends well has said what is on the chain, for any chain, any    *)
(* questions and any number of calls whose replies are mixed up, lost or late;  *)
(* a list of transactions has no gap, and a validation that has used up its     *)
(* requests has met its block (Block.js:310, 661, 859 and 975 make exceptions). *)
THEOREM AnswersAreRight == Spec => []AnswersMatch
<1>1. CallsRight => AnswersMatch
  BY DEF CallsRight, CallRight, AnswersMatch
<1>2. QED
  BY <1>1, CallsStayRight, PTL
===============================================================================
