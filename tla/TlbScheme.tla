------------------------------- MODULE TlbScheme -------------------------------
(* What the nodes of the network write into cells: the TL-B types, as they are *)
(* quoted above the loaders of BlockParser.js.  A type is the sequence of the  *)
(* items that are written; ^[ ] and the edges of a dictionary are cells of     *)
(* their own, named as in BlockParser.                                         *)
EXTENDS Integers, Sequences, TLC

LOCAL U(f, w) == << [op |-> "field", f |-> f, w |-> w] >>
LOCAL Us(w, fs) == [i \in 1..Len(fs) |-> U(fs[i], w)[1]]
(* Fields of w bits each whose values, one tuple of S, matter to a reader. *)
LOCAL Vals(fs, w, S) == << [op |-> "vals", fs |-> fs, w |-> w, s |-> S] >>
LOCAL VarBits(f, len, per) == << [op |-> "var", f |-> f, len |-> len, per |-> per] >>
LOCAL Key(f, w, v) == << [op |-> "tag", f |-> f, w |-> w, v |-> v] >>
LOCAL Hex(digits, w) == Key("tag", w, digits)
LOCAL Bin(bits) == [i \in 1..Len(bits) |-> Key("tag", 1, bits[i])[1]]
LOCAL OneOf(alts) == << [op |-> "oneof", alts |-> alts] >>
LOCAL If(f, v, x) == << [op |-> "when", f |-> f, v |-> v, x |-> x] >>
LOCAL T(t) == << [op |-> "in", t |-> t] >>
LOCAL Cell(t) == << [op |-> "cell", t |-> t] >>

LOCAL Opt(x) == OneOf(<<Bin(<<0>>), Bin(<<1>>) \o x>>)
LOCAL VarUint(w, lens) == Vals(<<"len">>, w, lens) \o VarBits("value", "len", 8)
LOCAL Var7 == VarUint(3, {<<0>>, <<1>>, <<6>>})
LOCAL Grams(n) == [i \in 1..n |-> T("Grams")[1]]
LOCAL Sums(n) == [i \in 1..n |-> T("CurrencyCollection")[1]]
LOCAL Edge(n, t, leaf, fork) ==
  OneOf(<<Key("label", n, "leaf") \o leaf, Key("label", n, "fork") \o Cell(t) \o Cell(t) \o fork>>)
LOCAL Dict(n, t, leaf) == Edge(n, t, leaf, << >>)
LOCAL DictAug(n, t, leaf, extra) == Edge(n, t, extra \o leaf, extra)
LOCAL DictE(t) == Opt(Cell(t))
LOCAL DictAugE(t, extra) == DictE(t) \o extra

LOCAL Params ==
  LET gas == T("GasLimitsPrices")
      limits == T("BlockLimits")
      fwd == T("MsgForwardPrices")
      vset == T("ValidatorSet")
  IN  [n \in 0..4 |-> U(<<"config_addr", "elector_addr", "minter_addr", "fee_collector_addr",
                          "dns_root_addr">>[n + 1], 256)]
      @@ 6 :> Grams(2) @@ 7 :> T("ExtraCurrencyCollection") @@ 8 :> T("GlobalVersion")
      @@ 9 :> Dict(32, "HmTrue", << >>) @@ 10 :> Dict(32, "HmTrue", << >>)
      @@ 11 :> T("ConfigVotingSetup") @@ 12 :> DictE("HmWorkchainDescr")
      @@ 13 :> T("ComplaintPricing") @@ 14 :> T("BlockCreateFees")
      @@ 15 :> Us(32, <<"validators_elected_for", "elections_start_before",
                        "elections_end_before", "stake_held_for">>)
      @@ 16 :> Vals(<<"max_validators", "max_main_validators", "min_validators">>, 16,
                    {<<a, b, c>> \in (1..3) \X (1..3) \X (1..3) : a >= b /\ b >= c})
      @@ 17 :> Grams(3) \o U("max_stake_factor", 32)
      @@ 18 :> Dict(32, "HmStoragePrices", T("StoragePrices"))
      @@ 20 :> gas @@ 21 :> gas @@ 22 :> limits @@ 23 :> limits @@ 24 :> fwd @@ 25 :> fwd
      @@ 28 :> T("CatchainConfig") @@ 29 :> T("ConsensusConfig") @@ 31 :> DictE("HmTrue256")
      @@ [n \in 32..37 |-> vset]

LOCAL GasPrices ==
  LET from == <<"block_gas_limit", "freeze_due_limit", "delete_due_limit">>
  IN  OneOf(<<Hex("dd", 8) \o Us(64, <<"gas_price", "gas_limit", "gas_credit">> \o from),
              Hex("de", 8) \o Us(64, <<"gas_price", "gas_limit", "special_gas_limit",
                                       "gas_credit">> \o from),
              Hex("d1", 8) \o Us(64, <<"flat_gas_limit", "flat_gas_price">>)
                           \o T("GasLimitsPrices")>>)
LOCAL Catchain ==
  LET rest == Us(32, <<"mc_catchain_lifetime", "shard_catchain_lifetime",
                       "shard_validators_lifetime", "shard_validators_num">>)
  IN  OneOf(<<Hex("c1", 8) \o rest,
              Hex("c2", 8) \o Vals(<<"flags">>, 7, {<<0>>}) \o U("shuffle_mc_validators", 1)
                           \o rest>>)
LOCAL Consensus ==
  LET rest == Us(32, <<"next_candidate_delay_ms", "consensus_timeout_ms", "fast_attempts",
                       "attempt_duration", "catchain_max_deps", "max_block_bytes",
                       "max_collated_bytes">>)
      rounds(w) == Vals(<<"round_candidates">>, w, {<<1>>, <<2>>})
  IN  OneOf(<<Hex("d6", 8) \o rounds(32) \o rest,
              Hex("d7", 8) \o Vals(<<"flags">>, 7, {<<0>>}) \o U("new_catchain_ids", 1)
                           \o rounds(8) \o rest>>)
LOCAL Validators ==
  LET head == Us(32, <<"utime_since", "utime_until">>)
              \o Vals(<<"total", "main">>, 16, {<<1, 1>>, <<2, 1>>, <<2, 2>>})
  IN  OneOf(<<Hex("11", 8) \o head \o Dict(16, "HmValidatorDescr", T("ValidatorDescr")),
              Hex("12", 8) \o head \o U("total_weight", 64) \o DictE("HmValidatorDescr")>>)
LOCAL Descr ==
  LET from == Us(32, <<"seq_no", "reg_mc_seqno">>) \o Us(64, <<"start_lt", "end_lt">>)
              \o Us(256, <<"root_hash", "file_hash">>)
              \o Us(1, <<"before_split", "before_merge", "want_split", "want_merge",
                         "nx_cc_updated">>)
              \o Vals(<<"flags">>, 3, {<<0>>}) \o U("next_catchain_seqno", 32)
              \o U("next_validator_shard", 64) \o Us(32, <<"min_ref_mc_seqno", "gen_utime">>)
              \o T("FutureSplitMerge")
  IN  OneOf(<<Bin(<<1, 0, 1, 1>>) \o from \o Sums(2), Bin(<<1, 0, 1, 0>>) \o from
                                                     \o Cell("ShardDescr_r1")>>)
LOCAL MsgInfo ==
  LET int == T("MsgAddressInt")
      ext == T("MsgAddressExt")
      created == U("created_lt", 64) \o U("created_at", 32)
  IN  OneOf(<<Bin(<<0>>) \o Us(1, <<"ihr_disabled", "bounce", "bounced">>) \o int \o int
                         \o Sums(1) \o Grams(2) \o created,
              Bin(<<1, 0>>) \o ext \o int \o Grams(1),
              Bin(<<1, 1>>) \o int \o ext \o created>>)
LOCAL TrDescr ==
  LET action == Opt(Cell("TrActionPhase"))
  IN  OneOf(<<Bin(<<0, 0, 0, 0>>) \o U("credit_first", 1) \o Opt(T("TrStoragePhase"))
                \o Opt(T("TrCreditPhase")) \o T("TrComputePhase") \o action \o U("aborted", 1)
                \o Opt(T("TrBouncePhase")) \o U("destroyed", 1),
              Bin(<<0, 0, 0, 1>>) \o T("TrStoragePhase"),
              Bin(<<0, 0, 1>>) \o U("is_tock", 1) \o T("TrStoragePhase") \o T("TrComputePhase")
                \o action \o Us(1, <<"aborted", "destroyed">>)>>)
LOCAL Info ==
  Hex("9bc7a987", 32) \o U("version", 32)
  \o Vals(<<"not_master", "after_merge">>, 1, (0..1) \X (0..1))
  \o Us(1, <<"before_split", "after_split", "want_split", "want_merge", "key_block">>)
  \o Vals(<<"vert_seqno_incr">>, 1, {<<0>>, <<1>>}) \o Vals(<<"flags">>, 8, {<<0>>, <<1>>})
  \o U("seq_no", 32) \o Vals(<<"vert_seq_no">>, 32, {<<1>>, <<2>>})
  \o T("ShardIdent") \o U("gen_utime", 32) \o Us(64, <<"start_lt", "end_lt">>)
  \o Us(32, <<"gen_validator_list_hash_short", "gen_catchain_seqno", "min_ref_mc_seqno",
              "prev_key_block_seqno">>)
  \o If("flags", 1, T("GlobalVersion")) \o If("not_master", 1, Cell("BlkMasterInfo"))
  \o If("after_merge", 0, Cell("BlkPrevInfo0")) \o If("after_merge", 1, Cell("BlkPrevInfo1"))
  \o If("vert_seqno_incr", 1, Cell("BlkPrevInfo0"))
LOCAL ShardState ==
  Hex("9023afe2", 32) \o U("global_id", 32) \o T("ShardIdent")
  \o Us(32, <<"seq_no", "vert_seq_no", "gen_utime">>) \o U("gen_lt", 64)
  \o U("min_ref_mc_seqno", 32) \o Cell("OutMsgQueueInfo") \o U("before_split", 1)
  \o Cell("ShardAccounts") \o Cell("ShardStateUnsplit_r1") \o Opt(Cell("McStateExtra"))
LOCAL Compute ==
  OneOf(<<Bin(<<0>>) \o T("ComputeSkipReason"),
          Bin(<<1>>) \o Us(1, <<"success", "msg_state_used", "account_activated">>) \o Grams(1)
                     \o Cell("TrComputePhase_r1")>>)
LOCAL Address ==
  OneOf(<<Bin(<<1, 0>>) \o Opt(T("Anycast")) \o U("workchain_id", 8) \o U("address", 256),
          Bin(<<1, 1>>) \o Opt(T("Anycast")) \o Vals(<<"addr_len">>, 9, {<<0>>, <<8>>, <<256>>})
                        \o U("workchain_id", 32) \o VarBits("address", "addr_len", 1)>>)

(* The body of a type that the loaders do not describe. *)
LOCAL Undescribed == U("value", 8)

Scheme ==
  [ Grams |-> VarUint(4, {<<0>>, <<1>>, <<15>>}), GasLimitsPrices |-> GasPrices,
    ConfigParam |-> OneOf([i \in 1..40 |-> Key("number", 32, i - 1)
                             \o (IF i - 1 \in DOMAIN Params THEN Params[i - 1] ELSE Undescribed)]),
    ConfigProposalSetup |-> Hex("36", 8)
      \o Us(8, <<"min_tot_rounds", "max_tot_rounds", "min_wins", "max_losses">>)
      \o Us(32, <<"min_store_sec", "max_store_sec", "bit_price", "cell_price">>),
    ConfigVotingSetup |-> Hex("91", 8) \o Cell("ConfigProposalSetup") \o Cell("ConfigProposalSetup"),
    WorkchainFormat1 |-> Bin(<<0, 0, 0, 1>>) \o U("vm_version", 32) \o U("vm_mode", 64),
    WorkchainDescr |-> Hex("a6", 8) \o U("enabled_since", 32)
      \o Vals(<<"actual_min_split", "min_split">>, 8, {<<0, 0>>, <<0, 1>>}) \o U("max_split", 8)
      \o Us(1, <<"basic", "active", "accept_msgs">>) \o Vals(<<"flags">>, 13, {<<0>>})
      \o Us(256, <<"zerostate_root_hash", "zerostate_file_hash">>) \o U("version", 32)
      \o T("WorkchainFormat1"),
    ComplaintPricing |-> Hex("1a", 8) \o Grams(3), BlockCreateFees |-> Hex("6b", 8) \o Grams(2),
    StoragePrices |-> Hex("cc", 8) \o U("utime_since", 32)
      \o Us(64, <<"bit_price_ps", "cell_price_ps", "mc_bit_price_ps", "mc_cell_price_ps">>),
    ParamLimits |-> Hex("c3", 8) \o Vals(<<"underload", "soft_limit", "hard_limit">>, 32,
                      {<<0, 0, 0>>, <<0, 1, 1>>, <<0, 1, 2>>, <<1, 1, 1>>}),
    BlockLimits |-> Hex("5d", 8) \o [i \in 1..3 |-> T("ParamLimits")[1]],
    MsgForwardPrices |-> Hex("ea", 8) \o Us(64, <<"lump_price", "bit_price", "cell_price">>)
      \o U("ihr_price_factor", 32) \o Us(16, <<"first_frac", "next_frac">>),
    CatchainConfig |-> Catchain, ConsensusConfig |-> Consensus,
    SigPubKey |-> Hex("8e81278a", 32) \o U("pubkey", 256),
    ValidatorDescr |-> LET key == T("SigPubKey") \o U("weight", 64)
                       IN  OneOf(<<Hex("53", 8) \o key, Hex("73", 8) \o key \o U("adnl_addr", 256)>>),
    ValidatorSet |-> Validators,
    ExtraCurrencyCollection |-> DictE("HmVarUInteger"),
    CurrencyCollection |-> Grams(1) \o T("ExtraCurrencyCollection"),
    ShardIdent |-> Bin(<<0, 0>>) \o U("shard_pfx_bits", 6) \o U("workchain_id", 32)
                   \o U("shard_prefix", 64),
    BlockIdExt |-> T("ShardIdent") \o U("seq_no", 32) \o Us(256, <<"root_hash", "file_hash">>),
    ExtBlkRef |-> U("end_lt", 64) \o U("seq_no", 32) \o Us(256, <<"root_hash", "file_hash">>),
    BlkMasterInfo |-> T("ExtBlkRef"),
    Anycast |-> Vals(<<"depth">>, 5, {<<1>>, <<30>>}) \o VarBits("rewrite_pfx", "depth", 1),
    MsgAddressExt |-> OneOf(<<Bin(<<0, 0>>), Bin(<<0, 1>>) \o Vals(<<"ext_len">>, 9, {<<0>>, <<256>>})
                                             \o VarBits("external_address", "ext_len", 1)>>),
    MsgAddressInt |-> Address,
    StorageUsed |-> Var7 \o Var7 \o Var7,
    StorageInfo |-> T("StorageUsed") \o U("last_paid", 32) \o Opt(Grams(1)),
    TickTock |-> Us(1, <<"tick", "tock">>),
    StateInit |-> Opt(U("split_depth", 5)) \o Opt(T("TickTock")) \o Opt(Cell("Cell"))
                  \o Opt(Cell("Cell")) \o DictE("HmSimpleLib"),
    AccountState |-> OneOf(<<Bin(<<0, 0>>), Bin(<<1>>) \o T("StateInit"),
                             Bin(<<0, 1>>) \o U("state_hash", 256)>>),
    AccountStorage |-> U("last_trans_lt", 64) \o Sums(1) \o T("AccountState"),
    Account |-> OneOf(<<Bin(<<0>>), Bin(<<1>>) \o T("MsgAddressInt") \o T("StorageInfo")
                                              \o T("AccountStorage")>>),
    ShardAccount |-> Cell("Account") \o U("last_trans_hash", 256) \o U("last_trans_lt", 64),
    DepthBalanceInfo |-> U("split_depth", 5) \o Sums(1),
    ShardAccounts |-> DictAugE("HmShardAccount", T("DepthBalanceInfo")),
    HASH_UPDATE |-> Hex("72", 8) \o Us(256, <<"old_hash", "new_hash">>),
    AccStatusChange |-> OneOf(<<Bin(<<0>>), Bin(<<1, 0>>), Bin(<<1, 1>>)>>),
    TrStoragePhase |-> Grams(1) \o Opt(Grams(1)) \o T("AccStatusChange"),
    TrCreditPhase |-> Opt(Grams(1)) \o Sums(1), StorageUsedShort |-> Var7 \o Var7,
    TrActionPhase |-> Us(1, <<"success", "valid", "no_funds">>) \o T("AccStatusChange")
      \o Opt(Grams(1)) \o Opt(Grams(1)) \o U("result_code", 32) \o Opt(U("result_arg", 32))
      \o Us(16, <<"tot_actions", "spec_actions", "skipped_actions", "msgs_created">>)
      \o U("action_list_hash", 256) \o T("StorageUsedShort"),
    TrBouncePhase |-> OneOf(<<Bin(<<0, 0>>), Bin(<<0, 1>>) \o T("StorageUsedShort") \o Grams(1),
                              Bin(<<1>>) \o T("StorageUsedShort") \o Grams(2)>>),
    ComputeSkipReason |-> OneOf(<<Bin(<<0, 0>>), Bin(<<0, 1>>), Bin(<<1, 0>>)>>),
    TrComputePhase |-> Compute,
    TrComputePhase_r1 |-> Var7 \o Var7 \o Opt(VarUint(2, {<<0>>, <<2>>})) \o U("mode", 8)
      \o U("exit_code", 32) \o Opt(U("exit_arg", 32)) \o U("vm_steps", 32)
      \o Us(256, <<"vm_init_state_hash", "vm_final_state_hash">>),
    TransactionDescr |-> TrDescr,
    AccountStatus |-> OneOf(<<Bin(<<0, 0>>), Bin(<<0, 1>>), Bin(<<1, 0>>), Bin(<<1, 1>>)>>),
    CommonMsgInfo |-> MsgInfo,
    Message |-> T("CommonMsgInfo")
      \o Opt(OneOf(<<Bin(<<0>>) \o T("StateInit"), Bin(<<1>>) \o Cell("StateInit")>>))
      \o OneOf(<<Bin(<<0>>), Bin(<<1>>) \o Cell("Any")>>),
    Transaction |-> Bin(<<0, 1, 1, 1>>) \o U("account_addr", 256) \o U("lt", 64)
      \o U("prev_trans_hash", 256) \o U("prev_trans_lt", 64) \o U("now", 32) \o U("outmsg_cnt", 15)
      \o T("AccountStatus") \o T("AccountStatus") \o Cell("Transaction_r1") \o Sums(1)
      \o Cell("HASH_UPDATE") \o Cell("TransactionDescr"),
    Transaction_r1 |-> Opt(Cell("Message")) \o DictE("HmMessage"),
    AccountBlock |-> Bin(<<0, 1, 0, 1>>) \o U("account_addr", 256)
      \o DictAug(64, "HmTransaction", Cell("Transaction"), Sums(1)) \o Cell("HASH_UPDATE"),
    ShardAccountBlocks |-> DictAugE("HmAccountBlock", Sums(1)),
    ConfigParams |-> U("config_addr", 256) \o Cell("HmConfigParam"),
    ValidatorInfo |-> Us(32, <<"validator_list_hash_short", "catchain_seqno">>)
                      \o U("nx_cc_updated", 1),
    KeyExtBlkRef |-> U("key", 1) \o T("ExtBlkRef"), KeyMaxLt |-> U("key", 1) \o U("max_end_lt", 64),
    OldMcBlocksInfo |-> DictAugE("HmKeyExtBlkRef", T("KeyMaxLt")),
    Counters |-> U("last_updated", 32) \o Us(64, <<"total", "cnt2048", "cnt65536">>),
    CreatorStats |-> Bin(<<0, 1, 0, 0>>) \o T("Counters") \o T("Counters"),
    BlockCreateStats |-> OneOf(<<Hex("17", 8) \o DictE("HmCreatorStats"),
                                 Hex("34", 8) \o DictAugE("HmCreatorStatsExt", U("extra", 32))>>),
    McStateExtra |-> Hex("cc26", 16) \o T("ShardHashes") \o T("ConfigParams")
                     \o Cell("McStateExtra_r1") \o Sums(1),
    McStateExtra_r1 |-> Vals(<<"flags">>, 16, {<<0>>, <<1>>}) \o T("ValidatorInfo")
      \o T("OldMcBlocksInfo") \o U("after_key_block", 1) \o Opt(T("ExtBlkRef"))
      \o If("flags", 1, T("BlockCreateStats")),
    ShardStateUnsplit |-> ShardState,
    ShardStateUnsplit_r1 |-> Us(64, <<"overload_history", "underload_history">>) \o Sums(2)
                             \o DictE("HmLibDescr") \o Opt(T("BlkMasterInfo")),
    GlobalVersion |-> Hex("c4", 8) \o U("version", 32) \o U("capabilities", 64),
    BlkPrevInfo0 |-> T("ExtBlkRef"), BlkPrevInfo1 |-> Cell("ExtBlkRef") \o Cell("ExtBlkRef"),
    BlockInfo |-> Info,
    FutureSplitMerge |-> OneOf(<<Bin(<<0>>), Bin(<<1, 0>>) \o Us(32, <<"split_utime", "interval">>),
                                 Bin(<<1, 1>>) \o Us(32, <<"merge_utime", "interval">>)>>),
    ShardDescr |-> Descr, ShardDescr_r1 |-> Sums(2), ShardHashes |-> DictE("HmBinTree"),
    BinTree |-> OneOf(<<Bin(<<0>>) \o T("ShardDescr"), Bin(<<1>>) \o Cell("BinTree") \o Cell("BinTree")>>),
    ShardFeeCreated |-> Sums(2), ShardFees |-> DictAugE("HmShardFeeCreated", T("ShardFeeCreated")),
    CryptoSignature |-> Bin(<<0, 1, 0, 1>>) \o Us(256, <<"R", "s">>),
    CryptoSignaturePair |-> U("node_id_short", 256) \o T("CryptoSignature"),
    InMsg |-> Undescribed, InMsgDescr |-> Undescribed, OutMsgDescr |-> Undescribed,
    McBlockExtra |-> Hex("cca5", 16) \o Vals(<<"key_block">>, 1, {<<0>>, <<1>>}) \o T("ShardHashes")
      \o T("ShardFees") \o Cell("McBlockExtra_r1") \o If("key_block", 1, T("ConfigParams")),
    McBlockExtra_r1 |-> DictE("HmCryptoSignaturePair") \o Opt(Cell("InMsg")) \o Opt(Cell("InMsg")),
    BlockExtra |-> Hex("4a33f6fd", 32) \o Cell("InMsgDescr") \o Cell("OutMsgDescr")
      \o Cell("ShardAccountBlocks") \o Us(256, <<"rand_seed", "created_by">>)
      \o Opt(Cell("McBlockExtra")),
    ValueFlow |-> Hex("b8e48dfb", 32) \o Cell("ValueFlow_r1") \o Sums(1) \o Cell("ValueFlow_r1"),
    MERKLE_UPDATE |-> Hex("04", 8) \o Us(256, <<"old_hash", "new_hash">>) \o Cell("Cell") \o Cell("Cell"),
    Block |-> Hex("11ef55aa", 32) \o U("global_id", 32) \o Cell("BlockInfo") \o Cell("ValueFlow")
              \o Cell("MERKLE_UPDATE") \o Cell("BlockExtra"),
    HmVarUInteger |-> Dict(32, "HmVarUInteger", VarUint(5, {<<0>>, <<1>>, <<31>>})),
    HmTrue |-> Dict(32, "HmTrue", << >>), HmTrue256 |-> Dict(256, "HmTrue256", << >>),
    HmWorkchainDescr |-> Dict(32, "HmWorkchainDescr", T("WorkchainDescr")),
    HmStoragePrices |-> Dict(32, "HmStoragePrices", T("StoragePrices")),
    HmValidatorDescr |-> Dict(16, "HmValidatorDescr", T("ValidatorDescr")),
    HmConfigParam |-> Dict(32, "HmConfigParam", Cell("ConfigParam")),
    HmSimpleLib |-> Dict(256, "HmSimpleLib", Undescribed),
    HmLibDescr |-> Dict(256, "HmLibDescr", Undescribed),
    HmMessage |-> Dict(15, "HmMessage", Cell("Message")),
    HmCreatorStats |-> Dict(256, "HmCreatorStats", T("CreatorStats")),
    HmBinTree |-> Dict(32, "HmBinTree", Cell("BinTree")),
    HmCryptoSignaturePair |-> Dict(16, "HmCryptoSignaturePair", T("CryptoSignaturePair")),
    HmTransaction |-> DictAug(64, "HmTransaction", Cell("Transaction"), Sums(1)),
    HmShardAccount |-> DictAug(256, "HmShardAccount", T("ShardAccount"), T("DepthBalanceInfo")),
    HmAccountBlock |-> DictAug(256, "HmAccountBlock", T("AccountBlock"), Sums(1)),
    HmKeyExtBlkRef |-> DictAug(32, "HmKeyExtBlkRef", T("KeyExtBlkRef"), T("KeyMaxLt")),
    HmCreatorStatsExt |-> DictAug(256, "HmCreatorStatsExt", T("CreatorStats"), U("extra", 32)),
    HmShardFeeCreated |-> DictAug(96, "HmShardFeeCreated", T("ShardFeeCreated"), T("ShardFeeCreated")) ]
================================================================================
