----------------------------- MODULE BlockReading -----------------------------
(* A cell of a block, written by a node as TlbScheme says and read by the      *)
(* loaders of BlockParser.  Both go through the cell once, from its start, so  *)
(* the reader is let run as soon as what it wants is written.  What was        *)
(* written carries the name of the field it is the value of: the reader is     *)
(* right when it finds under its position the field it takes it for.           *)
EXTENDS BlockParser, TlbScheme, SequencesExt

CONSTANT Roots          \* the types of the cells that are read from their start
ASSUME RootsAssumption == Roots \subseteq DOMAIN Loader

VARIABLES
  root,     \* the type of the cell
  wr,       \* what is left to write of it
  put,      \* the values written that decide what is written later
  bits,     \* the bits written and not read, [f, w, v]: a field, its width, its value
  refs,     \* the references written and not read, [t, pruned]
  rd,       \* what is left to read of it: the position of t.cs and t.ref in the loader
  got,      \* the values read that decide what is read later
  result,   \* how reading ended
  at        \* the field it ended at
vars == <<root, wr, put, bits, refs, rd, got, result, at>>

Ends == {"read", "unread", "misread", "threw"}

(* The values that the items s still ask for. *)
Asked(s) == UNION {CASE s[i].op = "when" -> {s[i].f}
                     [] s[i].op = "var" -> {s[i].len}
                     [] s[i].op = "among" -> {s[i].a}
                     [] s[i].op = "leq" -> {s[i].a, s[i].b}
                     [] OTHER -> {} : i \in DOMAIN s}
Remembered(mem, s) == [f \in DOMAIN mem \cap Asked(s) |-> mem[f]]

Init == /\ root \in Roots
        /\ wr = Scheme[root] /\ rd = Loader[root]
        /\ put = << >> /\ got = << >> /\ bits = << >> /\ refs = << >>
        /\ result = "reading" /\ at = ""

(* --------------------------------- the reader ------------------------------- *)
Width(s) == FoldLeft(LAMBDA n, b : n + b.w, 0, s)
Wanted(x) == CASE x.op \in {"field", "switch"} -> x.w
               [] x.op = "var" -> x.per * got[x.len]
               [] OTHER -> 0
(* The reader waits for the writer only where the writer can go on. *)
Waits(x) == wr # << >> /\ \/ x.op = "ref" /\ refs = << >>
                          \/ Width(bits) < Wanted(x)

GoOn(rest, mem) == /\ rd' = rest /\ got' = Remembered(mem, rest)
                   /\ UNCHANGED <<root, wr, put, result, at>>
Fail(how, f) == result' = how /\ at' = f /\ UNCHANGED <<root, wr, put, bits, refs, rd, got>>

(* The field f of w bits is under the position. *)
Under(f, w) == bits # << >> /\ Head(bits).f = f /\ Head(bits).w = w
ReadField(x, rest) ==
  /\ x.op \in {"field", "var"}
  /\ IF Wanted(x) = 0 THEN GoOn(rest, got) /\ UNCHANGED <<bits, refs>>
     ELSE IF ~Under(x.f, Wanted(x)) THEN Fail("misread", x.f)
     ELSE /\ GoOn(rest, IF Head(bits).v = << >> THEN got ELSE x.f :> Head(bits).v[1] @@ got)
          /\ bits' = Tail(bits) /\ UNCHANGED refs
(* The tag is made of the atoms before the k-th, and it must be one. *)
ReadTag(x, rest) ==
  /\ x.op = "switch"
  /\ LET ks == {k \in 0..Len(bits) : /\ Width(SubSeq(bits, 1, k)) = x.w
                                     /\ \A i \in 1..k : bits[i].f = x.f}
         tag == FlattenSeq([i \in 1..Max(ks) |-> bits[i].v])
     IN  IF ks = {} THEN Fail("misread", x.f)
         ELSE IF tag \notin DOMAIN x.cases THEN Fail("threw", x.f)
         ELSE /\ GoOn(x.cases[tag] \o rest, got)
              /\ bits' = SubSeq(bits, Max(ks) + 1, Len(bits)) /\ UNCHANGED refs
ReadRef(x, rest) ==
  /\ x.op = "ref"
  /\ IF refs = << >> THEN Fail("threw", x.t)
     ELSE IF Head(refs).t # x.t \/ (x.raw /\ Head(refs).pruned) THEN Fail("misread", x.t)
     ELSE GoOn(rest, got) /\ refs' = Tail(refs) /\ UNCHANGED bits
CheckValue(x, rest) ==
  /\ x.op \in {"among", "leq"}
  /\ IF IF x.op = "among" THEN got[x.a] \in x.s ELSE got[x.a] <= got[x.b]
     THEN GoOn(rest, got) /\ UNCHANGED <<bits, refs>> ELSE Fail("threw", x.a)
ReadOn(x, rest) ==
  /\ \/ x.op = "when" /\ GoOn((IF got[x.f] = x.v THEN x.x ELSE << >>) \o rest, got)
     \/ x.op = "in" /\ GoOn(Loader[x.t] \o rest, got)
  /\ UNCHANGED <<bits, refs>>
LosePosition(x) == x.op = "lost" /\ Fail("misread", x.f)

Read == /\ result = "reading" /\ rd # << >> /\ ~Waits(Head(rd))
        /\ LET x == Head(rd)
               rest == Tail(rd)
           IN  \/ ReadField(x, rest) \/ ReadTag(x, rest) \/ ReadRef(x, rest)
               \/ CheckValue(x, rest) \/ ReadOn(x, rest) \/ LosePosition(x)

(* The loader returns; what it has not read of the cell is lost to the caller. *)
Return == /\ result = "reading" /\ rd = << >> /\ wr = << >>
          /\ result' = IF bits = << >> /\ refs = << >> THEN "read" ELSE "unread"
          /\ at' = IF bits # << >> THEN Head(bits).f ELSE IF refs # << >> THEN Head(refs).t ELSE ""
          /\ UNCHANGED <<root, wr, put, bits, refs, rd, got>>

(* --------------------------------- the writer ------------------------------- *)
Atom(f, w, v) == [f |-> f, w |-> w, v |-> v]
Put(rest, mem, b, r) == /\ wr' = rest /\ put' = Remembered(mem, rest)
                        /\ bits' = bits \o b /\ refs' = refs \o r
                        /\ UNCHANGED <<root, rd, got, result, at>>
WriteField(x, rest) ==
  \/ x.op = "field" /\ Put(rest, put, <<Atom(x.f, x.w, << >>)>>, << >>)
  \/ x.op = "tag" /\ Put(rest, put, <<Atom(x.f, x.w, <<x.v>>)>>, << >>)
  \/ x.op = "var" /\ Put(rest, put, IF put[x.len] = 0 THEN << >>
                                    ELSE <<Atom(x.f, x.per * put[x.len], << >>)>>, << >>)
WriteValues(x, rest) ==
  /\ x.op = "vals"
  /\ \E v \in x.s : Put(rest, [f \in ToSet(x.fs) |-> v[CHOOSE i \in DOMAIN x.fs : x.fs[i] = f]] @@ put,
                        [i \in DOMAIN x.fs |-> Atom(x.fs[i], x.w, <<v[i]>>)], << >>)
WriteCell(x, rest) ==
  x.op = "cell" /\ \E p \in BOOLEAN : Put(rest, put, << >>, <<[t |-> x.t, pruned |-> p]>>)
WriteOn(x, rest) ==
  \/ x.op = "oneof" /\ \E i \in DOMAIN x.alts : Put(x.alts[i] \o rest, put, << >>, << >>)
  \/ x.op = "when" /\ Put((IF put[x.f] = x.v THEN x.x ELSE << >>) \o rest, put, << >>, << >>)
  \/ x.op = "in" /\ Put(Scheme[x.t] \o rest, put, << >>, << >>)

Write == /\ result = "reading" /\ wr # << >>
         /\ rd # << >> => Waits(Head(rd))
         /\ LET x == Head(wr)
                rest == Tail(wr)
            IN  \/ WriteField(x, rest) \/ WriteValues(x, rest)
                \/ WriteCell(x, rest) \/ WriteOn(x, rest)

Next == Read \/ Return \/ Write
Spec == Init /\ [][Next]_vars /\ WF_vars(Next)

(* -------------------------------- properties -------------------------------- *)
(* Where the loaders are known to lose their place, by cell and field:         *)
(*   the library of a StateInit is taken for a Maybe of a dictionary;          *)
(*   an external address of a message is added to the position as a string;    *)
(*   the extra of an augmented dictionary is not read, neither after           *)
(*     its root nor at a fork, and what follows it is shifted;                 *)
(*   the accounts of a shard state are parsed though they may be pruned, and   *)
(*     its histories are read at tr1.cs, a number that takes no property.      *)
Misplaced ==
  {<<"StateInit", "tag">>, <<"Account", "tag">>, <<"Message", "tag">>,
   <<"Message", "external_address">>,
   <<"HmAccountBlock", "HASH_UPDATE">>, <<"McStateExtra_r1", "after_key_block">>,
   <<"McBlockExtra", "McBlockExtra_r1">>, <<"McBlockExtra", "config_addr">>,
   <<"ShardStateUnsplit", "ShardAccounts">>, <<"ShardStateUnsplit_r1", "overload_history">>}

(* Whatever a node writes, in every form a type has, each loader finds every   *)
(* field, tag and reference it wants where it is, opens no pruned branch, and  *)
(* refuses nothing: the two walks through the cell agree at every step, except *)
(* at the places of Misplaced.                                                 *)
FieldsInPlace == result \in {"misread", "threw"} => <<root, at>> \in Misplaced

(* The cells that end in something the loaders do not describe, or in the      *)
(* extra of an augmented dictionary.                                           *)
Undescribed == {"ConfigParam", "HmLibDescr", "HmSimpleLib", "InMsg", "InMsgDescr",
                "OutMsgDescr", "ValueFlow"}
Augmented == {"ShardAccounts", "ShardAccountBlocks", "McBlockExtra", "HmShardAccount",
              "HmAccountBlock", "HmTransaction", "HmKeyExtBlkRef", "HmCreatorStatsExt",
              "HmShardFeeCreated"}

(* A loader that returns has read all of its cell: nothing that was written,   *)
(* bits or references, stays behind unseen, except in the cells named above.   *)
NothingLeft == result = "unread" => root \in Undescribed \cup Augmented
===============================================================================
