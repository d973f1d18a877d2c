------------------------------ MODULE BlockParser ------------------------------
(* The loaders of ton-rocks-js/blockchain/BlockParser.js: each is the sequence *)
(* of the items it reads, in the order of the code.  X_r1 is the cell a loader *)
(* opens itself (cell_r1), HmX the cells of the edges of a dictionary of X.    *)
EXTENDS BlockUtils

(* ------------------------- configuration parameters ------------------------ *)
loadConfigParam0 == loadUint("config_addr", 256)
loadConfigParam1 == loadUint("elector_addr", 256)
loadConfigParam2 == loadUint("minter_addr", 256)
loadConfigParam3 == loadUint("fee_collector_addr", 256)
loadConfigParam4 == loadUint("dns_root_addr", 256)
loadConfigParam6 == In("Grams") \o In("Grams")
loadConfigParam7 == In("ExtraCurrencyCollection")
loadConfigParam8 == In("GlobalVersion")
loadConfigParam9 == loadHashmap(32, "HmTrue", << >>)
loadConfigParam10 == loadHashmap(32, "HmTrue", << >>)
loadConfigProposalSetup ==
  Tag(8, <<"36">>) \o Fields(8, <<"min_tot_rounds", "max_tot_rounds", "min_wins", "max_losses">>)
  \o Fields(32, <<"min_store_sec", "max_store_sec", "bit_price", "cell_price">>)
loadConfigVotingSetup ==
  Tag(8, <<"91">>) \o loadRefIfExist("ConfigProposalSetup") \o loadRefIfExist("ConfigProposalSetup")
loadConfigParam11 == In("ConfigVotingSetup")
loadWorkchainFormat1 ==
  Tag(4, <<0, 0, 0, 1>>) \o loadUint("vm_version", 32) \o loadUint("vm_mode", 64)
loadWorkchainDescr ==
  Tag(8, <<"a6">>) \o loadUint("enabled_since", 32)
  \o Fields(8, <<"actual_min_split", "min_split", "max_split">>)
  \o Leq("actual_min_split", "min_split")
  \o Fields(1, <<"basic", "active", "accept_msgs">>)
  \o loadUint("flags", 13) \o Among("flags", {0})
  \o Fields(256, <<"zerostate_root_hash", "zerostate_file_hash">>)
  \o loadUint("version", 32) \o In("WorkchainFormat1")
loadConfigParam12 == loadHashmapE("HmWorkchainDescr")
loadComplaintPricing == Tag(8, <<"1a">>) \o In("Grams") \o In("Grams") \o In("Grams")
loadConfigParam13 == In("ComplaintPricing")
loadBlockCreateFees == Tag(8, <<"6b">>) \o In("Grams") \o In("Grams")
loadConfigParam14 == In("BlockCreateFees")
loadConfigParam15 ==
  Fields(32, <<"validators_elected_for", "elections_start_before", "elections_end_before",
               "stake_held_for">>)
loadConfigParam16 ==
  Fields(16, <<"max_validators", "max_main_validators", "min_validators">>)
  \o Leq("max_main_validators", "max_validators")
  \o Leq("min_validators", "max_main_validators") \o Among("min_validators", 1..3)
loadConfigParam17 ==
  In("Grams") \o In("Grams") \o In("Grams") \o loadUint("max_stake_factor", 32)
loadStoragePrices ==
  Tag(8, <<"cc">>) \o loadUint("utime_since", 32)
  \o Fields(64, <<"bit_price_ps", "cell_price_ps", "mc_bit_price_ps", "mc_cell_price_ps">>)
loadConfigParam18 == loadHashmap(32, "HmStoragePrices", In("StoragePrices"))
loadGasLimitsPrices ==
  Switch("tag", 8,
    <<"dd">> :> Fields(64, <<"gas_price", "gas_limit", "gas_credit", "block_gas_limit",
                             "freeze_due_limit", "delete_due_limit">>)
    @@ <<"de">> :> Fields(64, <<"gas_price", "gas_limit", "special_gas_limit", "gas_credit",
                                "block_gas_limit", "freeze_due_limit", "delete_due_limit">>)
    @@ <<"d1">> :> Fields(64, <<"flat_gas_limit", "flat_gas_price">>) \o In("GasLimitsPrices"))
loadConfigParam20 == In("GasLimitsPrices")
loadConfigParam21 == In("GasLimitsPrices")
loadParamLimits ==
  Tag(8, <<"c3">>) \o Fields(32, <<"underload", "soft_limit">>) \o Leq("underload", "soft_limit")
  \o loadUint("hard_limit", 32) \o Leq("soft_limit", "hard_limit")
loadBlockLimits == Tag(8, <<"5d">>) \o In("ParamLimits") \o In("ParamLimits") \o In("ParamLimits")
loadConfigParam22 == In("BlockLimits")
loadConfigParam23 == In("BlockLimits")
loadMsgForwardPrices ==
  Tag(8, <<"ea">>) \o Fields(64, <<"lump_price", "bit_price", "cell_price">>)
  \o loadUint("ihr_price_factor", 32) \o Fields(16, <<"first_frac", "next_frac">>)
loadConfigParam24 == In("MsgForwardPrices")
loadConfigParam25 == In("MsgForwardPrices")
loadCatchainConfig ==
  LET lifetimes == Fields(32, <<"mc_catchain_lifetime", "shard_catchain_lifetime",
                                "shard_validators_lifetime", "shard_validators_num">>)
  IN  Switch("tag", 8,
        <<"c1">> :> lifetimes
        @@ <<"c2">> :> loadUint("flags", 7) \o Among("flags", {0})
                       \o loadUint("shuffle_mc_validators", 1) \o lifetimes)
loadConfigParam28 == In("CatchainConfig")
loadConsensusConfig ==
  LET timeouts == Among("round_candidates", 1..3)
                  \o Fields(32, <<"next_candidate_delay_ms", "consensus_timeout_ms",
                                  "fast_attempts", "attempt_duration", "catchain_max_deps",
                                  "max_block_bytes", "max_collated_bytes">>)
  IN  Switch("tag", 8,
        <<"d6">> :> loadUint("round_candidates", 32) \o timeouts
        @@ <<"d7">> :> loadUint("flags", 7) \o Among("flags", {0})
                       \o loadUint("new_catchain_ids", 1)
                       \o loadUint("round_candidates", 8) \o timeouts)
loadConfigParam29 == In("ConsensusConfig")
loadConfigParam31 == loadHashmapE("HmTrue256")
loadSigPubKey == Tag(32, <<"8e81278a">>) \o loadUint("pubkey", 256)
loadValidatorDescr ==
  LET key == In("SigPubKey") \o loadUint("weight", 64)
  IN  Switch("tag", 8, <<"53">> :> key @@ <<"73">> :> key \o loadUint("adnl_addr", 256))
loadValidatorSet ==
  LET head == Fields(32, <<"utime_since", "utime_until">>) \o Fields(16, <<"total", "main">>)
              \o Leq("main", "total") \o Among("main", 1..3)
  IN  Switch("tag", 8,
        <<"11">> :> head \o loadHashmap(16, "HmValidatorDescr", In("ValidatorDescr"))
        @@ <<"12">> :> head \o loadUint("total_weight", 64) \o loadHashmapE("HmValidatorDescr"))
loadConfigParam32 == In("ValidatorSet")
loadConfigParam33 == In("ValidatorSet")
loadConfigParam34 == In("ValidatorSet")
loadConfigParam35 == In("ValidatorSet")
loadConfigParam36 == In("ValidatorSet")
loadConfigParam37 == In("ValidatorSet")

(* The number is the key the cell has in the dictionary of ConfigParams; a    *)
(* cell of another number is handed back as it is, and so is one that does    *)
(* not parse.                                                                 *)
loadConfigParam ==
  LET known == 0 :> loadConfigParam0 @@ 1 :> loadConfigParam1 @@ 2 :> loadConfigParam2
               @@ 3 :> loadConfigParam3 @@ 4 :> loadConfigParam4 @@ 6 :> loadConfigParam6
               @@ 7 :> loadConfigParam7 @@ 8 :> loadConfigParam8 @@ 9 :> loadConfigParam9
               @@ 10 :> loadConfigParam10 @@ 11 :> loadConfigParam11 @@ 12 :> loadConfigParam12
               @@ 13 :> loadConfigParam13 @@ 14 :> loadConfigParam14 @@ 15 :> loadConfigParam15
               @@ 16 :> loadConfigParam16 @@ 17 :> loadConfigParam17 @@ 18 :> loadConfigParam18
               @@ 20 :> loadConfigParam20 @@ 21 :> loadConfigParam21 @@ 22 :> loadConfigParam22
               @@ 23 :> loadConfigParam23 @@ 24 :> loadConfigParam24 @@ 25 :> loadConfigParam25
               @@ 28 :> loadConfigParam28 @@ 29 :> loadConfigParam29 @@ 31 :> loadConfigParam31
               @@ 32 :> loadConfigParam32 @@ 33 :> loadConfigParam33 @@ 34 :> loadConfigParam34
               @@ 35 :> loadConfigParam35 @@ 36 :> loadConfigParam36 @@ 37 :> loadConfigParam37
  IN  Switch("number", 32,
        [k \in {<<n>> : n \in 0..39} |-> IF k[1] \in DOMAIN known THEN known[k[1]] ELSE << >>])

(* ------------------------------- common types ------------------------------ *)
loadExtraCurrencyCollection == loadHashmapE("HmVarUInteger")
loadCurrencyCollection == In("Grams") \o In("ExtraCurrencyCollection")
loadShardIdent ==
  Tag(2, <<0, 0>>) \o loadUintLeq("shard_pfx_bits", 60) \o loadUint("workchain_id", 32)
  \o loadUint("shard_prefix", 64)
loadBlockIdExt ==
  In("ShardIdent") \o loadUint("seq_no", 32) \o Fields(256, <<"root_hash", "file_hash">>)
loadExtBlkRef ==
  loadUint("end_lt", 64) \o loadUint("seq_no", 32) \o Fields(256, <<"root_hash", "file_hash">>)
loadBlkMasterInfo == In("ExtBlkRef")
loadAnycast ==
  loadUintLeq("depth", 30) \o Among("depth", 1..30) \o VarField("rewrite_pfx", "depth", 1)
loadMsgAddressExt ==
  Switch("tag", 2, <<0, 0>> :> << >>
                   @@ <<0, 1>> :> loadUint("ext_len", 9) \o LostPosition("external_address"))
loadMsgAddressInt ==
  Switch("tag", 2,
    <<1, 0>> :> Maybe(In("Anycast")) \o loadUint("workchain_id", 8) \o loadUint("address", 256)
    @@ <<1, 1>> :> Maybe(In("Anycast")) \o loadUint("addr_len", 9) \o loadUint("workchain_id", 32)
                   \o VarField("address", "addr_len", 1))

(* ---------------------------------- accounts -------------------------------- *)
loadStorageUsed == loadVarUInteger(7) \o loadVarUInteger(7) \o loadVarUInteger(7)
loadStorageInfo == In("StorageUsed") \o loadUint("last_paid", 32) \o Maybe(In("Grams"))
loadTickTock == Fields(1, <<"tick", "tock">>)
loadStateInit ==
  Maybe(loadUint("split_depth", 5)) \o Maybe(In("TickTock"))
  \o loadMaybeRef("Cell") \o loadMaybeRef("Cell") \o Maybe(loadHashmapE("HmSimpleLib"))
loadAccountState ==
  Switch("tag", 1, <<1>> :> In("StateInit")
    @@ <<0>> :> Switch("tag", 1, <<1>> :> loadUint("state_hash", 256) @@ <<0>> :> << >>))
loadAccountStorage ==
  loadUint("last_trans_lt", 64) \o In("CurrencyCollection") \o In("AccountState")
loadAccount ==
  Switch("tag", 1, <<0>> :> << >>
    @@ <<1>> :> In("MsgAddressInt") \o In("StorageInfo") \o In("AccountStorage"))
(* loadAccount looks itself whether its cell is pruned. *)
loadShardAccount ==
  loadRefIfExist("Account") \o loadUint("last_trans_hash", 256) \o loadUint("last_trans_lt", 64)
loadDepthBalanceInfo == loadUintLeq("split_depth", 30) \o In("CurrencyCollection")
loadShardAccounts == loadHashmapAugE("HmShardAccount")

(* -------------------------------- transactions ------------------------------ *)
loadHASH_UPDATE == Tag(8, <<"72">>) \o Fields(256, <<"old_hash", "new_hash">>)
loadAccStatusChange ==
  Switch("tag", 1, <<0>> :> << >> @@ <<1>> :> Switch("tag", 1, <<0>> :> << >> @@ <<1>> :> << >>))
loadTrStoragePhase == In("Grams") \o Maybe(In("Grams")) \o In("AccStatusChange")
loadTrCreditPhase == Maybe(In("Grams")) \o In("CurrencyCollection")
loadStorageUsedShort == loadVarUInteger(7) \o loadVarUInteger(7)
loadTrActionPhase ==
  Fields(1, <<"success", "valid", "no_funds">>) \o In("AccStatusChange")
  \o Maybe(In("Grams")) \o Maybe(In("Grams"))
  \o loadUint("result_code", 32) \o Maybe(loadUint("result_arg", 32))
  \o Fields(16, <<"tot_actions", "spec_actions", "skipped_actions", "msgs_created">>)
  \o loadUint("action_list_hash", 256) \o In("StorageUsedShort")
loadTrBouncePhase ==
  Switch("tag", 1, <<1>> :> In("StorageUsedShort") \o In("Grams") \o In("Grams")
    @@ <<0>> :> Switch("tag", 1, <<0>> :> << >> @@ <<1>> :> In("StorageUsedShort") \o In("Grams")))
loadComputeSkipReason == Switch("tag", 2, <<0, 0>> :> << >> @@ <<0, 1>> :> << >> @@ <<1, 0>> :> << >>)
loadTrComputePhase ==
  Switch("tag", 1, <<0>> :> In("ComputeSkipReason")
    @@ <<1>> :> Fields(1, <<"success", "msg_state_used", "account_activated">>)
                \o In("Grams") \o loadRefIfExist("TrComputePhase_r1"))
TrComputePhase_r1 ==
  loadVarUInteger(7) \o loadVarUInteger(7) \o Maybe(loadVarUInteger(3))
  \o loadUint("mode", 8) \o loadUint("exit_code", 32) \o Maybe(loadUint("exit_arg", 32))
  \o loadUint("vm_steps", 32) \o Fields(256, <<"vm_init_state_hash", "vm_final_state_hash">>)
loadTransactionDescr ==
  Switch("tag", 3,
    <<0, 0, 0>> :> Switch("tag", 1,
      <<0>> :> loadUint("credit_first", 1) \o Maybe(In("TrStoragePhase"))
               \o Maybe(In("TrCreditPhase")) \o In("TrComputePhase")
               \o loadMaybeRef("TrActionPhase") \o loadUint("aborted", 1)
               \o Maybe(In("TrBouncePhase")) \o loadUint("destroyed", 1)
      @@ <<1>> :> In("TrStoragePhase"))
    @@ <<0, 0, 1>> :> loadUint("is_tock", 1) \o In("TrStoragePhase") \o In("TrComputePhase")
                      \o loadMaybeRef("TrActionPhase") \o Fields(1, <<"aborted", "destroyed">>))
loadAccountStatus ==
  Switch("tag", 2, <<0, 0>> :> << >> @@ <<0, 1>> :> << >> @@ <<1, 0>> :> << >> @@ <<1, 1>> :> << >>)
loadCommonMsgInfo ==
  LET created == loadUint("created_lt", 64) \o loadUint("created_at", 32)
  IN  Switch("tag", 1,
        <<0>> :> Fields(1, <<"ihr_disabled", "bounce", "bounced">>)
                 \o In("MsgAddressInt") \o In("MsgAddressInt") \o In("CurrencyCollection")
                 \o In("Grams") \o In("Grams") \o created
        @@ <<1>> :> Switch("tag", 1,
             <<0>> :> In("MsgAddressExt") \o In("MsgAddressInt") \o In("Grams")
             @@ <<1>> :> In("MsgAddressInt") \o In("MsgAddressExt") \o created))
loadMessage ==
  In("CommonMsgInfo") \o Maybe(Either(In("StateInit"), loadRefIfExist("StateInit")))
  \o Either(<< >>, loadRefIfExist("Any"))
loadTransaction ==
  Tag(4, <<0, 1, 1, 1>>) \o loadUint("account_addr", 256) \o loadUint("lt", 64)
  \o loadUint("prev_trans_hash", 256) \o loadUint("prev_trans_lt", 64) \o loadUint("now", 32)
  \o loadUint("outmsg_cnt", 15) \o In("AccountStatus") \o In("AccountStatus")
  \o loadRefIfExist("Transaction_r1") \o In("CurrencyCollection")
  \o loadRefIfExist("HASH_UPDATE") \o loadRefIfExist("TransactionDescr")
Transaction_r1 == loadMaybeRef("Message") \o loadHashmapE("HmMessage")
loadAccountBlock ==
  Tag(4, <<0, 1, 0, 1>>) \o loadUint("account_addr", 256)
  \o loadHashmapAug(64, "HmTransaction", loadRefIfExist("Transaction"), In("CurrencyCollection"))
  \o loadRefIfExist("HASH_UPDATE")
loadShardAccountBlocks == loadHashmapAugE("HmAccountBlock")

(* ---------------------------- masterchain and state ------------------------- *)
loadConfigParams == loadUint("config_addr", 256) \o loadRefIfExist("HmConfigParam")
loadValidatorInfo ==
  Fields(32, <<"validator_list_hash_short", "catchain_seqno">>) \o loadUint("nx_cc_updated", 1)
loadKeyExtBlkRef == loadUint("key", 1) \o In("ExtBlkRef")
loadKeyMaxLt == loadUint("key", 1) \o loadUint("max_end_lt", 64)
loadOldMcBlocksInfo == loadHashmapAugE("HmKeyExtBlkRef")
loadCounters == loadUint("last_updated", 32) \o Fields(64, <<"total", "cnt2048", "cnt65536">>)
loadCreatorStats == Tag(4, <<0, 1, 0, 0>>) \o In("Counters") \o In("Counters")
loadBlockCreateStats ==
  Switch("tag", 8, <<"17">> :> loadHashmapE("HmCreatorStats")
                   @@ <<"34">> :> loadHashmapAugE("HmCreatorStatsExt"))
loadMcStateExtra ==
  Tag(16, <<"cc26">>) \o In("ShardHashes") \o In("ConfigParams")
  \o loadRefIfExist("McStateExtra_r1") \o In("CurrencyCollection")
McStateExtra_r1 ==
  loadUint("flags", 16) \o Among("flags", 0..1) \o In("ValidatorInfo") \o In("OldMcBlocksInfo")
  \o loadUint("after_key_block", 1) \o Maybe(In("ExtBlkRef"))
  \o When("flags", 1, In("BlockCreateStats"))
loadShardStateUnsplit ==
  Tag(32, <<"9023afe2">>) \o loadUint("global_id", 32) \o In("ShardIdent")
  \o Fields(32, <<"seq_no", "vert_seq_no", "gen_utime">>) \o loadUint("gen_lt", 64)
  \o loadUint("min_ref_mc_seqno", 32) \o loadRefIfExist("OutMsgQueueInfo")
  \o loadUint("before_split", 1) \o RawRef("ShardAccounts")
  \o loadRefIfExist("ShardStateUnsplit_r1") \o loadMaybeRef("McStateExtra")
(* The two histories are loaded with tr1.cs where the position is expected.   *)
ShardStateUnsplit_r1 ==
  LostPosition("overload_history") \o LostPosition("underload_history")
  \o In("CurrencyCollection") \o In("CurrencyCollection")
  \o loadHashmapE("HmLibDescr") \o Maybe(In("BlkMasterInfo"))

(* ----------------------------------- blocks --------------------------------- *)
loadGlobalVersion == Tag(8, <<"c4">>) \o loadUint("version", 32) \o loadUint("capabilities", 64)
loadBlkPrevInfo(n) ==
  IF n = 0 THEN In("ExtBlkRef") ELSE loadRefIfExist("ExtBlkRef") \o loadRefIfExist("ExtBlkRef")
loadBlockInfo ==
  Tag(32, <<"9bc7a987">>) \o loadUint("version", 32)
  \o Fields(1, <<"not_master", "after_merge", "before_split", "after_split", "want_split",
                 "want_merge", "key_block", "vert_seqno_incr">>)
  \o loadUint("flags", 8) \o Among("flags", 0..1)
  \o Fields(32, <<"seq_no", "vert_seq_no">>) \o Leq("vert_seqno_incr", "vert_seq_no")
  \o In("ShardIdent") \o loadUint("gen_utime", 32) \o Fields(64, <<"start_lt", "end_lt">>)
  \o Fields(32, <<"gen_validator_list_hash_short", "gen_catchain_seqno", "min_ref_mc_seqno",
                  "prev_key_block_seqno">>)
  \o When("flags", 1, In("GlobalVersion"))
  \o When("not_master", 1, loadRefIfExist("BlkMasterInfo"))
  \o When("after_merge", 0, loadRefIfExist("BlkPrevInfo0"))
  \o When("after_merge", 1, loadRefIfExist("BlkPrevInfo1"))
  \o When("vert_seqno_incr", 1, loadRefIfExist("BlkPrevInfo0"))
loadFutureSplitMerge ==
  Switch("tag", 1, <<0>> :> << >>
    @@ <<1>> :> Switch("tag", 1, <<0>> :> Fields(32, <<"split_utime", "interval">>)
                                 @@ <<1>> :> Fields(32, <<"merge_utime", "interval">>)))
loadShardDescr ==
  LET descr == Fields(32, <<"seq_no", "reg_mc_seqno">>) \o Fields(64, <<"start_lt", "end_lt">>)
               \o Fields(256, <<"root_hash", "file_hash">>)
               \o Fields(1, <<"before_split", "before_merge", "want_split", "want_merge",
                              "nx_cc_updated">>)
               \o loadUint("flags", 3) \o Among("flags", {0})
               \o loadUint("next_catchain_seqno", 32) \o loadUint("next_validator_shard", 64)
               \o Fields(32, <<"min_ref_mc_seqno", "gen_utime">>) \o In("FutureSplitMerge")
  IN  Switch("tag", 4,
        <<1, 0, 1, 1>> :> descr \o In("CurrencyCollection") \o In("CurrencyCollection")
        @@ <<1, 0, 1, 0>> :> descr \o loadRefIfExist("ShardDescr_r1"))
ShardDescr_r1 == In("CurrencyCollection") \o In("CurrencyCollection")
loadBinTree(leaf, t) == Switch("tag", 1, <<0>> :> leaf
                          @@ <<1>> :> loadRefIfExist(t) \o loadRefIfExist(t))
loadShardHashes == loadHashmapE("HmBinTree")
loadShardFeeCreated == In("CurrencyCollection") \o In("CurrencyCollection")
loadShardFees == loadHashmapAugE("HmShardFeeCreated")
loadCryptoSignature == Tag(4, <<0, 1, 0, 1>>) \o Fields(256, <<"R", "s">>)
loadCryptoSignaturePair == loadUint("node_id_short", 256) \o In("CryptoSignature")
loadInMsg == << >>
loadInMsgDescr == << >>
loadOutMsgDescr == << >>
loadMcBlockExtra ==
  Tag(16, <<"cca5">>) \o loadUint("key_block", 1) \o In("ShardHashes") \o In("ShardFees")
  \o loadRefIfExist("McBlockExtra_r1") \o When("key_block", 1, In("ConfigParams"))
McBlockExtra_r1 ==
  loadHashmapE("HmCryptoSignaturePair") \o loadMaybeRef("InMsg") \o loadMaybeRef("InMsg")
loadBlockExtra ==
  Tag(32, <<"4a33f6fd">>) \o loadRefIfExist("InMsgDescr") \o loadRefIfExist("OutMsgDescr")
  \o loadRefIfExist("ShardAccountBlocks") \o Fields(256, <<"rand_seed", "created_by">>)
  \o loadMaybeRef("McBlockExtra")
(* Any magic is accepted, and nothing but it is read. *)
loadValueFlow == loadUint("tag", 32)
\* Faulty: the new state is not looked at.
loadMERKLE_UPDATE_old ==
  Tag(8, <<"04">>) \o Fields(256, <<"old_hash", "new_hash">>) \o loadRefIfExist("Cell")
loadMERKLE_UPDATE ==
  Tag(8, <<"04">>) \o Fields(256, <<"old_hash", "new_hash">>)
  \o loadRefIfExist("Cell") \o loadRefIfExist("Cell")
loadBlock ==
  Tag(32, <<"11ef55aa">>) \o loadUint("global_id", 32) \o loadRefIfExist("BlockInfo")
  \o loadRefIfExist("ValueFlow") \o loadRefIfExist("MERKLE_UPDATE") \o loadRefIfExist("BlockExtra")

(* ------------------------------ the loader of a type ------------------------ *)
Loader ==
  [ Grams |-> loadGrams, ConfigProposalSetup |-> loadConfigProposalSetup,
    ConfigVotingSetup |-> loadConfigVotingSetup,
    WorkchainFormat1 |-> loadWorkchainFormat1, WorkchainDescr |-> loadWorkchainDescr,
    ComplaintPricing |-> loadComplaintPricing,
    BlockCreateFees |-> loadBlockCreateFees, StoragePrices |-> loadStoragePrices,
    GasLimitsPrices |-> loadGasLimitsPrices, ParamLimits |-> loadParamLimits,
    BlockLimits |-> loadBlockLimits, MsgForwardPrices |-> loadMsgForwardPrices,
    CatchainConfig |-> loadCatchainConfig, ConsensusConfig |-> loadConsensusConfig,
    SigPubKey |-> loadSigPubKey, ValidatorDescr |-> loadValidatorDescr,
    ValidatorSet |-> loadValidatorSet, ConfigParam |-> loadConfigParam,
    ExtraCurrencyCollection |-> loadExtraCurrencyCollection,
    CurrencyCollection |-> loadCurrencyCollection, ShardIdent |-> loadShardIdent,
    BlockIdExt |-> loadBlockIdExt, ExtBlkRef |-> loadExtBlkRef,
    BlkMasterInfo |-> loadBlkMasterInfo, Anycast |-> loadAnycast,
    MsgAddressExt |-> loadMsgAddressExt, MsgAddressInt |-> loadMsgAddressInt,
    StorageUsed |-> loadStorageUsed, StorageInfo |-> loadStorageInfo,
    TickTock |-> loadTickTock, StateInit |-> loadStateInit,
    AccountState |-> loadAccountState, AccountStorage |-> loadAccountStorage,
    Account |-> loadAccount, ShardAccount |-> loadShardAccount,
    DepthBalanceInfo |-> loadDepthBalanceInfo, ShardAccounts |-> loadShardAccounts,
    HASH_UPDATE |-> loadHASH_UPDATE, AccStatusChange |-> loadAccStatusChange,
    TrStoragePhase |-> loadTrStoragePhase, TrCreditPhase |-> loadTrCreditPhase,
    StorageUsedShort |-> loadStorageUsedShort, TrActionPhase |-> loadTrActionPhase,
    TrBouncePhase |-> loadTrBouncePhase, ComputeSkipReason |-> loadComputeSkipReason,
    TrComputePhase |-> loadTrComputePhase, TrComputePhase_r1 |-> TrComputePhase_r1,
    TransactionDescr |-> loadTransactionDescr, AccountStatus |-> loadAccountStatus,
    CommonMsgInfo |-> loadCommonMsgInfo, Message |-> loadMessage,
    Transaction |-> loadTransaction, Transaction_r1 |-> Transaction_r1,
    AccountBlock |-> loadAccountBlock, ShardAccountBlocks |-> loadShardAccountBlocks,
    ConfigParams |-> loadConfigParams, ValidatorInfo |-> loadValidatorInfo,
    KeyExtBlkRef |-> loadKeyExtBlkRef, KeyMaxLt |-> loadKeyMaxLt,
    OldMcBlocksInfo |-> loadOldMcBlocksInfo, Counters |-> loadCounters,
    CreatorStats |-> loadCreatorStats, BlockCreateStats |-> loadBlockCreateStats,
    McStateExtra |-> loadMcStateExtra, McStateExtra_r1 |-> McStateExtra_r1,
    ShardStateUnsplit |-> loadShardStateUnsplit,
    ShardStateUnsplit_r1 |-> ShardStateUnsplit_r1,
    GlobalVersion |-> loadGlobalVersion, BlockInfo |-> loadBlockInfo,
    FutureSplitMerge |-> loadFutureSplitMerge, ShardDescr |-> loadShardDescr,
    ShardDescr_r1 |-> ShardDescr_r1, ShardHashes |-> loadShardHashes,
    ShardFeeCreated |-> loadShardFeeCreated, ShardFees |-> loadShardFees,
    CryptoSignature |-> loadCryptoSignature,
    CryptoSignaturePair |-> loadCryptoSignaturePair, InMsg |-> loadInMsg,
    InMsgDescr |-> loadInMsgDescr, OutMsgDescr |-> loadOutMsgDescr,
    McBlockExtra |-> loadMcBlockExtra, McBlockExtra_r1 |-> McBlockExtra_r1,
    BlockExtra |-> loadBlockExtra, ValueFlow |-> loadValueFlow,
    MERKLE_UPDATE |-> loadMERKLE_UPDATE, Block |-> loadBlock,
    BlkPrevInfo0 |-> loadBlkPrevInfo(0), BlkPrevInfo1 |-> loadBlkPrevInfo(1),
    BinTree |-> loadBinTree(In("ShardDescr"), "BinTree"),
    HmVarUInteger |-> loadHashmap(32, "HmVarUInteger", loadVarUInteger(32)),
    HmTrue |-> loadHashmap(32, "HmTrue", << >>),
    HmTrue256 |-> loadHashmap(256, "HmTrue256", << >>),
    HmWorkchainDescr |-> loadHashmap(32, "HmWorkchainDescr", In("WorkchainDescr")),
    HmStoragePrices |-> loadHashmap(32, "HmStoragePrices", In("StoragePrices")),
    HmValidatorDescr |-> loadHashmap(16, "HmValidatorDescr", In("ValidatorDescr")),
    HmConfigParam |-> loadHashmap(32, "HmConfigParam", loadRefIfExist("ConfigParam")),
    HmSimpleLib |-> loadHashmap(256, "HmSimpleLib", << >>),
    HmLibDescr |-> loadHashmap(256, "HmLibDescr", << >>),
    HmMessage |-> loadHashmap(15, "HmMessage", loadRefIfExist("Message")),
    HmCreatorStats |-> loadHashmap(256, "HmCreatorStats", In("CreatorStats")),
    HmBinTree |-> loadHashmap(32, "HmBinTree", loadRefIfExist("BinTree")),
    HmCryptoSignaturePair |-> loadHashmap(16, "HmCryptoSignaturePair", In("CryptoSignaturePair")),
    HmTransaction |-> loadHashmapAug(64, "HmTransaction", loadRefIfExist("Transaction"), In("CurrencyCollection")),
    HmShardAccount |-> loadHashmapAug(256, "HmShardAccount", In("ShardAccount"), In("DepthBalanceInfo")),
    HmAccountBlock |-> loadHashmapAug(256, "HmAccountBlock", In("AccountBlock"), In("CurrencyCollection")),
    HmKeyExtBlkRef |-> loadHashmapAug(32, "HmKeyExtBlkRef", In("KeyExtBlkRef"), In("KeyMaxLt")),
    HmCreatorStatsExt |-> loadHashmapAug(256, "HmCreatorStatsExt", In("CreatorStats"), loadUint("extra", 32)),
    HmShardFeeCreated |-> loadHashmapAug(96, "HmShardFeeCreated", In("ShardFeeCreated"), In("ShardFeeCreated")) ]
=================================================================================
