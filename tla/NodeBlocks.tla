------------------------------ MODULE NodeBlocks ------------------------------
(* Blocks as the nodes write them, made of cells: as much of them as proofs   *)
(* go through or prune.  A block b is told by                                 *)
(*   kind      "key", "mc" (no key block) or "shard"                          *)
(*   n         how many validators its configuration lists                    *)
(*   params    the keys of its configuration that hold a validator set        *)
(*   txs       its transactions, <<account, lt>>                              *)
EXTENDS BlockProofs

ListBits == 16
AccountBits == 8            \* two hexadecimal digits stand for an account's 64
LtBits == 2

Leaf(v) == Cell(Bits(v), << >>, FALSE)
Node(v, refs) == Cell(Bits(v), refs, FALSE)
Dictionary(edge) == Node(<<EdgeByte>> \o edge.v, edge.refs)

(* Weights that the index alone does not tell. *)
Weight(i) == 1 + ((7 * i) % 11)
Validators(n) == {<<i, Weight(i)>> : i \in 0..(n - 1)}
MainOf(n) == IF n > 100 THEN 100 ELSE n

(* Two sets of the same block share their list, not their times. *)
ValidatorSet(n, since) ==
  Node(<<18, since, n, MainOf(n)>>,
       <<Dictionary(Edge(0..(n - 1), ListBits, 0,
                         [i \in 0..(n - 1) |-> [v |-> <<83, i, Weight(i)>>, refs |-> << >>]]))>>)

Config(n, params) ==
  Dictionary(Edge(params, ConfigBits, 0, [p \in params |->
                     [v |-> << >>,
                      refs |-> <<IF p \in 32..37 THEN ValidatorSet(n, p) ELSE Leaf(<<p>>)>>]]))

Custom(b) ==
  Node(McBlockExtra \o <<IF b.kind = "key" THEN 1 ELSE 0>>,
       <<Leaf(<<2, 2>>), Leaf(<<3, 3>>)>>
         \o IF b.kind = "key" THEN <<Config(b.n, b.params)>> ELSE << >>)

(* An account with one transaction holds the same update as the transaction;  *)
(* two messages of a transaction hold the same body.                          *)
HashUpdate(a, lt) == Leaf(<<114, a, lt>>)
Messages(a, lt) ==
  Dictionary(Edge(0..1, 1, 0, [m \in 0..1 |->
                [v |-> << >>, refs |-> <<Node(<<96, a, lt, m>>, <<Leaf(<<9, 9>>)>>)>>]]))
Transaction(a, lt) ==
  Node(<<112, a, lt>>, <<Node(<<64>>, <<Messages(a, lt)>>), HashUpdate(a, lt),
                         Node(<<PrunnedBranchCell, a>>, <<Leaf(<<8, lt>>)>>)>>)
LtsOf(b, a) == {t[2] : t \in {u \in b.txs : u[1] = a}}
AccountBlock(b, a) ==
  LET inner == Edge(LtsOf(b, a), LtBits, 0,
                    [lt \in LtsOf(b, a) |-> [v |-> << >>, refs |-> <<Transaction(a, lt)>>]])
  IN  [v |-> <<5, a>> \o inner.v, refs |-> inner.refs \o <<HashUpdate(a, MaxOf(LtsOf(b, a)))>>]
AccountBlocks(b) ==
  LET accounts == {t[1] : t \in b.txs}
  IN  IF accounts = {} THEN Leaf(<<0, 0, 0>>)
      ELSE Node(<<128, 0, 0>>, <<Dictionary(Edge(accounts, AccountBits, 0,
                                                 [a \in accounts |-> AccountBlock(b, a)]))>>)

(* States are kept by their hash: what is left of one has a pruned branch.    *)
StateHash(s) == getHash(finalize(Leaf(<<s>>)))
State(s) == finalize(Node(<<144, s>>, <<createPrunnedBranchCell(StateHash(s), 3)>>))
MerkleUpdate(old, new) ==
  Cell([Bits(<<MerkleUpdateCell>>) EXCEPT !.hashes = <<getHash(old), getHash(new)>>,
                                          !.depths = <<getDepthAt(old, 0), getDepthAt(new, 0)>>],
       <<old, new>>, TRUE)
OldState == 7
NewState == 8

Extra(b) ==
  Node(<<74>>, <<Leaf(<<0, 4>>), Leaf(<<0, 5>>), AccountBlocks(b)>>
                 \o IF b.kind = "shard" THEN << >> ELSE <<Custom(b)>>)
Block(b) ==
  finalizeTree(Node(<<17>>, <<Node(<<155>>, <<Leaf(<<6>>)>>), Node(<<184>>, <<Leaf(<<6>>)>>),
                              MerkleUpdate(State(OldState), State(NewState)), Extra(b)>>))
===============================================================================
