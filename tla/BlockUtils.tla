------------------------------ MODULE BlockUtils ------------------------------
(* The loaders of BlockUtils.js and the dictionaries of BlockParser.js, as    *)
(* data: what a loader does with a cell is the sequence of the items it reads.*)
(* A cell has two streams, its bits and its references, and a loader two      *)
(* cursors, t.cs and t.ref; the values that are read are abstracted to those  *)
(* a loader branches on.                                                      *)
EXTENDS Integers, Sequences, TLC

(* How many binary digits n has: the width of a number that is at most n. *)
BitLen(n) == CHOOSE k \in 1..31 : 2^(k - 1) <= n /\ n < 2^k

(* w bits are read as the field f.  Reading past the end throws (loadBits     *)
(* returns 0 instead and stays where it is).                                  *)
loadUint(f, w) == << [op |-> "field", f |-> f, w |-> w] >>
Fields(w, fs) == [i \in 1..Len(fs) |-> [op |-> "field", f |-> fs[i], w |-> w]]

(* per * got[len] bits are read as the field f. *)
VarField(f, len, per) == << [op |-> "var", f |-> f, len |-> len, per |-> per] >>

loadUintLeq(f, n) == loadUint(f, BitLen(n))
loadUintLess(f, n) == loadUintLeq(f, n - 1)
\* Faulty: the length is taken to be at most n, not less.
loadVarUIntegerLeq(n) == loadUintLeq("len", n) \o VarField("value", "len", 8)
loadVarUInteger(n) == loadUintLess("len", n) \o VarField("value", "len", 8)
loadGrams == loadVarUInteger(16)

(* w bits are read, and what they say decides how reading goes on: a value    *)
(* without a case throws.  The key of a case is the sequence of the tag's     *)
(* digits.                                                                    *)
Switch(f, w, cases) == << [op |-> "switch", f |-> f, w |-> w, cases |-> cases] >>
Tag(w, v) == Switch("tag", w, v :> << >>)
Maybe(x) == Switch("tag", 1, <<0>> :> << >> @@ <<1>> :> x)
Either(x, y) == Switch("tag", 1, <<0>> :> x @@ <<1>> :> y)

(* x is read only if the field f had the value v; the check throws unless the *)
(* value of a is among S, or at most that of b.                               *)
When(f, v, x) == << [op |-> "when", f |-> f, v |-> v, x |-> x] >>
Among(a, S) == << [op |-> "among", a |-> a, s |-> S] >>
Leq(a, b) == << [op |-> "leq", a |-> a, b |-> b] >>

(* The loader of the type t goes on in the same cell. *)
In(t) == << [op |-> "in", t |-> t] >>

(* A reference to a cell of type t, which has a position of its own.  The     *)
(* checked form leaves a pruned branch alone, the raw one parses any cell.    *)
loadRefIfExist(t) == << [op |-> "ref", t |-> t, raw |-> FALSE] >>
RawRef(t) == << [op |-> "ref", t |-> t, raw |-> TRUE] >>
loadMaybeRef(t) == Maybe(loadRefIfExist(t))

(* Dictionaries.  An edge is a label and, where the label ends the key, the   *)
(* value, otherwise two references to further edges, cells of type t.         *)
loadHashmap(n, t, leaf) ==
  Switch("label", n, <<"leaf">> :> leaf
                     @@ <<"fork">> :> loadRefIfExist(t) \o loadRefIfExist(t))
loadHashmapE(t) == loadMaybeRef(t)
loadHashmapAug(n, t, leaf, extra) == loadHashmap(n, t, extra \o leaf)
loadHashmapAugE(t) == loadHashmapE(t)

(* A position that is not a number: nothing that is read from here on is what *)
(* was written, or reading throws.                                            *)
LostPosition(f) == << [op |-> "lost", f |-> f] >>
===============================================================================
