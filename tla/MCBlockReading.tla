--------------------------- MODULE MCBlockReading ---------------------------
(* BlockReading for TLC: the cells that some loader opens, and those that the *)
(* program parses from their root.                                            *)
EXTENDS BlockReading

\* The types of the references in s.
RECURSIVE Opened(_)
Opened(s) ==
  UNION {CASE s[i].op = "ref" -> {s[i].t}
           [] s[i].op = "switch" -> UNION {Opened(s[i].cases[k]) : k \in DOMAIN s[i].cases}
           [] s[i].op = "when" -> Opened(s[i].x)
           [] OTHER -> {} : i \in DOMAIN s}

AllRoots ==
  {"Block", "ShardStateUnsplit", "ShardHashes", "Account", "Transaction", "Message",
   "BlockIdExt", "ValidatorSet"}
    \cup (UNION {Opened(Loader[t]) : t \in DOMAIN Loader} \cap DOMAIN Loader)
=============================================================================
