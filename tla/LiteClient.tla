------------------------------ MODULE LiteClient ------------------------------
(* The provider of the light client: the requests it sends to the nodes, with *)
(* the type of reply it expects.  The tries of a request are in BlockApi.     *)
EXTENDS BlockIds

getLatestBlockId ==
  [method |-> "liteServer.getMasterchainInfo", type |-> "liteServer.masterchainInfoExt"]
getBlock(id) ==
  [method |-> "liteServer.getBlock", type |-> "liteServer.blockData", id |-> toLiteId(id)]
getBlockHeader(id) ==
  [method |-> "liteServer.getBlockHeader", type |-> "liteServer.blockHeader", id |-> toLiteId(id)]
\* 0: not given
lookupBlock(id, lt, utime) ==
  [method |-> "liteServer.lookupBlock", type |-> "liteServer.blockHeader",
   id |-> toLiteId(id), lt |-> longToBN(longFromBN(lt)), utime |-> utime]
getBlockProof(from, to) ==
  [method |-> "liteServer.getBlockProof", type |-> "liteServer.partialBlockProof",
   known_block |-> toLiteId(from), target_block |-> toLiteId(to)]
getAccountState(id, addr) ==
  [method |-> "liteServer.getAccountState", type |-> "liteServer.accountState",
   id |-> toLiteId(id), account |-> Friendly(Address(addr))]
getAllShardsInfo(id) ==
  [method |-> "liteServer.getAllShardsInfo", type |-> "liteServer.allShardsInfo", id |-> toLiteId(id)]
getTransactions(count, addr, lt, hash) ==
  [method |-> "liteServer.getTransactions", type |-> "liteServer.transactionList", count |-> count,
   account |-> Friendly(Address(addr)), lt |-> longToBN(longFromBN(lt)), hash |-> hash]
getConfigAll(id) ==
  [method |-> "liteServer.getConfigAll", type |-> "liteServer.configInfo", id |-> toLiteId(id)]
getConfigParams(id, params) ==
  [method |-> "liteServer.getConfigParams", type |-> "liteServer.configInfo",
   id |-> toLiteId(id), param_list |-> params]
=============================================================================
