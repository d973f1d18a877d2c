--------------------------- MODULE MerkleProofProofs ---------------------------
(* Proofs about verifyMerkleProof, for any nodes, any path and any value: it  *)
(* accepts a proof for exactly the paths that differ at most where the key of *)
(* a leaf or an extension ends, and for one value; and about the parts that a *)
(* buffer is cut into to be sent.                                             *)
EXTENDS MerkleProof, SequenceTheorems, WellFoundedInduction, TLAPS

(* A set of natural numbers has a least.                                      *)
LEMMA LeastNatural ==
  ASSUME NEW S \in SUBSET Nat, NEW k \in S
  PROVE  \E m \in S : \A n \in S : m <= n
<1> DEFINE R == {p \in Nat \X Nat : p[1] < p[2]}
<1>1. IsWellFoundedOn(R, Nat)
  BY NatLessThanWellFounded DEF OpToRel
<1>2. PICK m \in S : \A n \in S : ~(<<n, m>> \in R)
  <2>1. S # {}
    OBVIOUS
  <2> HIDE DEF R
  <2>2. QED
    BY <1>1, <2>1, WFMin
<1>3. \A n \in S : m <= n
  <2>1. SUFFICES ASSUME NEW n \in S PROVE m <= n
    OBVIOUS
  <2>2. m \in Nat /\ n \in Nat
    OBVIOUS
  <2>3. ~(n < m)
    BY <1>2, <2>2
  <2>4. QED
    BY <2>2, <2>3
<1>4. QED
  BY <1>3

(* What holds at first, and after each turn if before it, holds all along.    *)
LEMMA UpTo ==
  ASSUME NEW N \in Nat, NEW S, 0 \in S, \A i \in 0..(N - 1) : i \in S => i + 1 \in S
  PROVE  \A i \in 0..N : i \in S
<1> DEFINE T == {i \in 0..N : i \notin S}
<1>1. SUFFICES ASSUME NEW k \in T PROVE FALSE
  OBVIOUS
<1>2. T \in SUBSET Nat
  OBVIOUS
<1>3. PICK m \in T : \A n \in T : m <= n
  BY <1>1, <1>2, LeastNatural
<1>4. m \in 0..N /\ m # 0 /\ m \notin S
  BY <1>3
<1>5. m - 1 \in 0..(N - 1) /\ m - 1 \in 0..N /\ (m - 1) + 1 = m
  BY <1>4
<1>6. m - 1 \in S
  BY <1>3, <1>4, <1>5
<1>7. QED
  BY <1>4, <1>5, <1>6
-----------------------------------------------------------------------------
(* What is left of a sequence after its first k elements.                     *)
LEMMA DropRest ==
  ASSUME NEW S, NEW s \in Seq(S), NEW k \in 0..Len(s)
  PROVE  /\ Drop(s, k) \in Seq(S) /\ Len(Drop(s, k)) = Len(s) - k
         /\ \A j \in 1..(Len(s) - k) : Drop(s, k)[j] = s[k + j]
<1>1. Len(s) \in Nat /\ k + 1 \in 1..(Len(s) + 1)
  BY LenProperties
<1>2. QED
  BY <1>1, SubSeqProperties DEF Drop

(* Dropping more than there is leaves nothing.                                *)
LEMMA DropAll ==
  ASSUME NEW S, NEW s \in Seq(S), NEW k \in Nat, k >= Len(s)
  PROVE  Drop(s, k) = << >>
<1>1. Len(s) \in Nat
  BY LenProperties
<1>2. QED
  BY <1>1, SubSeqProperties DEF Drop

(* Dropping in two steps.                                                     *)
LEMMA DropTwice ==
  ASSUME NEW S, NEW s \in Seq(S), NEW k \in Nat, NEW m \in Nat, k + m <= Len(s)
  PROVE  Drop(Drop(s, k), m) = Drop(s, k + m)
<1>1. Len(s) \in Nat /\ k \in 0..Len(s) /\ k + m \in 0..Len(s)
  BY LenProperties
<1>2. /\ Drop(s, k) \in Seq(S) /\ Len(Drop(s, k)) = Len(s) - k
      /\ \A j \in 1..(Len(s) - k) : Drop(s, k)[j] = s[k + j]
  BY <1>1, DropRest
<1>3. /\ Drop(s, k + m) \in Seq(S) /\ Len(Drop(s, k + m)) = Len(s) - (k + m)
      /\ \A j \in 1..(Len(s) - (k + m)) : Drop(s, k + m)[j] = s[(k + m) + j]
  BY <1>1, DropRest
<1> DEFINE t == Drop(s, k)
<1>4. m \in 0..Len(t)
  BY <1>1, <1>2
<1>5. /\ Drop(t, m) \in Seq(S) /\ Len(Drop(t, m)) = Len(t) - m
      /\ \A j \in 1..(Len(t) - m) : Drop(t, m)[j] = t[m + j]
  BY <1>2, <1>4, DropRest
<1>6. \A j \in 1..(Len(s) - (k + m)) : Drop(t, m)[j] = Drop(s, k + m)[j]
  <2>1. SUFFICES ASSUME NEW j \in 1..(Len(s) - (k + m)) PROVE Drop(t, m)[j] = Drop(s, k + m)[j]
    OBVIOUS
  <2>2. j \in 1..(Len(t) - m) /\ m + j \in 1..(Len(s) - k) /\ k + (m + j) = (k + m) + j
    BY <1>1, <1>2
  <2>3. Drop(t, m)[j] = t[m + j]
    BY <1>5, <2>2
  <2>4. t[m + j] = s[k + (m + j)]
    BY <1>2, <2>2
  <2>5. QED
    BY <1>3, <2>2, <2>3, <2>4
<1>7. Len(Drop(t, m)) = Len(Drop(s, k + m))
  BY <1>1, <1>2, <1>3, <1>5
<1>8. QED
  BY <1>3, <1>5, <1>6, <1>7, SeqEqual

(* What is left, whether or not there is so much to drop.                     *)
LEMMA Dropping ==
  ASSUME NEW S, NEW s \in Seq(S), NEW k \in Nat
  PROVE  /\ Drop(s, k) \in Seq(S)
         /\ Drop(s, k) # << >> <=> k < Len(s)
         /\ Len(Drop(s, k)) = IF k < Len(s) THEN Len(s) - k ELSE 0
         /\ \A j \in 1..Len(Drop(s, k)) : Drop(s, k)[j] = s[k + j]
         /\ \A m \in Nat : Drop(Drop(s, k), m) = Drop(s, k + m)
<1>1. Len(s) \in Nat
  BY LenProperties
<1>2. CASE k < Len(s)
  <2>1. k \in 0..Len(s)
    BY <1>1, <1>2
  <2>2. /\ Drop(s, k) \in Seq(S) /\ Len(Drop(s, k)) = Len(s) - k
        /\ \A j \in 1..(Len(s) - k) : Drop(s, k)[j] = s[k + j]
    BY <2>1, DropRest
  <2>3. Len(Drop(s, k)) # 0
    BY <1>1, <1>2, <2>2
  <2>4. Drop(s, k) # << >>
    BY <2>3
  <2>5. ASSUME NEW m \in Nat PROVE Drop(Drop(s, k), m) = Drop(s, k + m)
    <3>1. CASE k + m <= Len(s)
      BY <3>1, DropTwice
    <3>2. CASE k + m > Len(s)
      <4>1. m >= Len(Drop(s, k)) /\ k + m \in Nat /\ k + m >= Len(s)
        BY <1>1, <2>2, <3>2
      <4>2. Drop(Drop(s, k), m) = << >>
        BY <2>2, <4>1, DropAll
      <4>3. Drop(s, k + m) = << >>
        BY <4>1, DropAll
      <4>4. QED
        BY <4>2, <4>3
    <3>3. QED
      BY <1>1, <3>1, <3>2
  <2>6. QED
    BY <1>2, <2>2, <2>4, <2>5
<1>3. CASE ~(k < Len(s))
  <2>1. Drop(s, k) = << >>
    <3>1. k >= Len(s)
      BY <1>1, <1>3
    <3>2. QED
      BY <3>1, DropAll
  <2>2. ASSUME NEW m \in Nat PROVE Drop(Drop(s, k), m) = Drop(s, k + m)
    <3>1. k + m >= Len(s) /\ k + m \in Nat
      BY <1>1, <1>3
    <3>2. Drop(s, k + m) = << >>
      BY <3>1, DropAll
    <3>3. << >> \in Seq(S) /\ m >= Len(<< >>)
      OBVIOUS
    <3>4. Drop(<< >>, m) = << >>
      BY <3>3, DropAll
    <3>5. QED
      BY <2>1, <3>2, <3>4
  <2>3. << >> \in Seq(S) /\ Len(<< >>) = 0
    OBVIOUS
  <2>4. QED
    BY <1>3, <2>1, <2>2, <2>3
<1>4. QED
  BY <1>2, <1>3

(* One element less.                                                          *)
LEMMA TailDrops ==
  ASSUME NEW S, NEW s \in Seq(S), s # << >>
  PROVE  Tail(s) = Drop(s, 1)
BY DEF Drop
-----------------------------------------------------------------------------
(* matchingNibbleLength gives the whole length of a key exactly for the paths *)
(* that agree with it in all but its last nibble: whatever stands there, or   *)
(* nothing, is taken for a match (verify-merkle-proof.ts:6).                  *)
LastNibbleIgnored ==
  \A a, b \in Seq(0..15) :
    matchingNibbleLength(a, b) = Len(a)
      <=> \A i \in 1..(Len(a) - 1) : i <= Len(b) /\ a[i] = b[i]

THEOREM KeysMatchButLast == LastNibbleIgnored
<1>1. SUFFICES ASSUME NEW a \in Seq(0..15), NEW b \in Seq(0..15)
      PROVE  matchingNibbleLength(a, b) = Len(a)
               <=> \A i \in 1..(Len(a) - 1) : i <= Len(b) /\ a[i] = b[i]
  BY DEF LastNibbleIgnored
<1> DEFINE differ == {i \in DOMAIN a : i > Len(b) \/ a[i] # b[i]}
           Least(i) == i \in differ /\ \A j \in differ : i <= j
<1>2. DOMAIN a = 1..Len(a) /\ Len(a) \in Nat /\ Len(b) \in Nat
  BY LenProperties
<1>3. CASE differ = {}
  <2>1. matchingNibbleLength(a, b) = Len(a)
    BY <1>3 DEF matchingNibbleLength
  <2>2. \A i \in 1..(Len(a) - 1) : i <= Len(b) /\ a[i] = b[i]
    BY <1>2, <1>3
  <2>3. QED
    BY <2>1, <2>2
<1>4. CASE differ # {}
  <2>1. PICK k \in differ : TRUE
    BY <1>4
  <2>2. \E i : Least(i)
    <3>1. differ \in SUBSET Nat
      BY <1>2
    <3> HIDE DEF differ
    <3>2. QED
      BY <2>1, <3>1, LeastNatural
  <2>3. PICK m : matchingNibbleLength(a, b) = m /\ Least(m)
    BY <1>4, <2>2 DEF matchingNibbleLength
  <2>4. m \in 1..Len(a) /\ (m > Len(b) \/ a[m] # b[m])
    BY <1>2, <2>3
  <2>5. \A i \in 1..Len(a) : i < m => i <= Len(b) /\ a[i] = b[i]
    BY <1>2, <2>3
  <2>6. QED
    BY <1>2, <2>3, <2>4, <2>5
<1>5. QED
  BY <1>3, <1>4

(* An interval tells its length.                                              *)
LEMMA SameLength ==
  ASSUME NEW m \in Nat, NEW n \in Nat, 1..m = 1..n
  PROVE  m = n
<1>1. m \in 1..m \/ m = 0
  OBVIOUS
<1>2. n \in 1..n \/ n = 0
  OBVIOUS
<1>3. m <= n
  BY <1>1
<1>4. n <= m
  BY <1>2
<1>5. QED
  BY <1>3, <1>4

(* Bytes have two nibbles each.                                               *)
LEMMA NibblesOf ==
  ASSUME NEW b \in Seq(0..255)
  PROVE  stringToNibbles(b) \in Seq(0..15) /\ Len(stringToNibbles(b)) = 2 * Len(b)
<1>1. Len(b) \in Nat /\ \A j \in 1..Len(b) : b[j] \in 0..255
  BY LenProperties, ElementOfSeq
<1>2. ASSUME NEW i \in 1..(2 * Len(b))
      PROVE  (IF i % 2 = 1 THEN b[(i + 1) \div 2] \div 16 ELSE b[i \div 2] % 16) \in 0..15
  <2>1. CASE i % 2 = 1
    <3>1. (i + 1) \div 2 \in 1..Len(b)
      BY <1>1, <2>1
    <3>2. b[(i + 1) \div 2] \in 0..255
      BY <1>1, <3>1
    <3>3. \A n \in 0..255 : n \div 16 \in 0..15
      OBVIOUS
    <3>4. QED
      BY <2>1, <3>2, <3>3
  <2>2. CASE i % 2 # 1
    <3>1. i \div 2 \in 1..Len(b)
      BY <1>1, <2>2
    <3>2. b[i \div 2] \in 0..255
      BY <1>1, <3>1
    <3>3. \A n \in 0..255 : n % 16 \in 0..15
      OBVIOUS
    <3>4. QED
      BY <2>2, <3>2, <3>3
  <2>3. QED
    BY <2>1, <2>2
<1>3. stringToNibbles(b) \in [1..(2 * Len(b)) -> 0..15]
  BY <1>2 DEF stringToNibbles
<1>4. 2 * Len(b) \in Nat
  BY <1>1
<1> DEFINE s == stringToNibbles(b)
           n == 2 * Len(b)
<1>5. s \in Seq(0..15)
  <2>1. s \in [1..n -> 0..15] /\ n \in Nat
    BY <1>3, <1>4
  <2> HIDE DEF s, n
  <2>2. QED
    BY <2>1, SeqDef
<1>6. Len(s) = n
  <2>1. DOMAIN s = 1..Len(s) /\ Len(s) \in Nat
    BY <1>5, LenProperties
  <2>2. DOMAIN s = 1..n /\ n \in Nat
    BY <1>3, <1>4
  <2> HIDE DEF s, n
  <2>3. QED
    BY <2>1, <2>2, SameLength
<1>7. QED
  BY <1>5, <1>6
-----------------------------------------------------------------------------
KeyOf(data) == Node(data).key
Width(data) == IF Node(data).type = "branch" THEN 1 ELSE Len(KeyOf(data))

(* What a node is made of.                                                    *)
LEMMA NodeOf ==
  ASSUME NEW data, IsPair(data) => data[1].b \in Seq(0..255)
  PROVE  /\ Node(data).type = "branch" <=> IsBranch(data)
         /\ Node(data).type \in {"leaf", "extension"} <=> IsPair(data)
         /\ Node(data).type \in {"branch", "leaf", "extension", "empty"}
         /\ IsBranch(data) => Node(data).raw = data /\ KeyOf(data) = << >> /\ Width(data) = 1
         /\ IsPair(data) => Width(data) = Len(KeyOf(data))
         /\ KeyOf(data) \in Seq(0..15)
         /\ KeyOf(data) # << >> => IsPair(data)
         /\ Width(data) \in Nat
<1>1. CASE IsBranch(data)
  <2>1. Node(data) = [type |-> "branch", raw |-> data, key |-> << >>, value |-> data[17]]
    BY <1>1 DEF IsBranch, Node
  <2>2. QED
    BY <1>1, <2>1 DEF IsBranch, IsPair, KeyOf, Width
<1>2. CASE IsPair(data)
  <2> DEFINE nibbles == stringToNibbles(data[1].b)
  <2>1. PICK type \in {"leaf", "extension"}, k \in {1, 2} :
          Node(data) = [type |-> type, raw |-> data, value |-> data[2], key |-> Drop(nibbles, k)]
    BY <1>2 DEF IsPair, Node
  <2>2. nibbles \in Seq(0..15) /\ Len(nibbles) \in Nat
    BY <1>2, NibblesOf, LenProperties
  <2> HIDE DEF nibbles
  <2>3. Drop(nibbles, k) \in Seq(0..15)
    <3>1. CASE k <= Len(nibbles)
      BY <2>2, <3>1, DropRest
    <3>2. CASE ~(k <= Len(nibbles))
      <4>1. k \in Nat /\ k >= Len(nibbles)
        BY <2>2, <3>2
      <4>2. Drop(nibbles, k) = << >>
        BY <2>2, <4>1, DropAll
      <4>3. QED
        BY <4>2
    <3>3. QED
      BY <3>1, <3>2
  <2>4. KeyOf(data) \in Seq(0..15) /\ Len(KeyOf(data)) \in Nat
    BY <2>1, <2>3, LenProperties DEF KeyOf
  <2>5. QED
    BY <1>2, <2>1, <2>4 DEF IsBranch, IsPair, Width
<1>3. CASE ~IsBranch(data) /\ ~IsPair(data)
  <2>1. Node(data) = [type |-> "empty", raw |-> << >>, key |-> << >>, value |-> Bytes(<< >>)]
    BY <1>3 DEF IsBranch, IsPair, Node
  <2>2. QED
    BY <1>3, <2>1 DEF KeyOf, Width
<1>4. QED
  BY <1>1, <1>2, <1>3
-----------------------------------------------------------------------------
(* How far a proof's nodes go along a path is the sum of their widths.        *)
Sums(f, proof, n) ==
  f = [i \in 0..n |-> IF i = 0 THEN 0 ELSE f[i - 1] + Width(proof[i])]

(* The sum over one node more.                                                *)
LEMMA SumsGrow ==
  ASSUME NEW proof, NEW n \in Nat, NEW f, Sums(f, proof, n)
  PROVE  \E g : Sums(g, proof, n + 1)
<1> DEFINE g == [i \in 0..(n + 1) |-> IF i = n + 1 THEN f[n] + Width(proof[n + 1]) ELSE f[i]]
<1>1. ASSUME NEW i \in 0..(n + 1)
      PROVE  g[i] = IF i = 0 THEN 0 ELSE g[i - 1] + Width(proof[i])
  <2>1. CASE i = n + 1
    <3>1. g[i] = f[n] + Width(proof[n + 1]) /\ i # 0 /\ g[i - 1] = f[n]
      BY <2>1
    <3>2. QED
      BY <2>1, <3>1
  <2>2. CASE i # n + 1
    <3>1. i \in 0..n /\ g[i] = f[i] /\ (i # 0 => g[i - 1] = f[i - 1])
      BY <2>2
    <3>2. f[i] = IF i = 0 THEN 0 ELSE f[i - 1] + Width(proof[i])
      BY <3>1 DEF Sums
    <3>3. QED
      BY <3>1, <3>2
  <2>3. QED
    BY <2>1, <2>2
<1>2. g = [i \in 0..(n + 1) |-> g[i]]
  OBVIOUS
<1> HIDE DEF g
<1>3. g = [i \in 0..(n + 1) |-> IF i = 0 THEN 0 ELSE g[i - 1] + Width(proof[i])]
  BY <1>1, <1>2
<1>4. QED
  BY <1>3 DEF Sums

(* Each node of a proof adds its width.                                       *)
LEMMA PassedSums ==
  ASSUME NEW proof, IsProof(proof)
  PROVE  /\ Len(proof) \in Nat
         /\ Passed(proof)[0] = 0
         /\ \A i \in 1..Len(proof) : Passed(proof)[i] = Passed(proof)[i - 1] + Width(proof[i])
         /\ \A i \in 0..Len(proof) : Passed(proof)[i] \in Nat
         /\ \A i \in 0..Len(proof), j \in 0..Len(proof) :
              i <= j => Passed(proof)[i] <= Passed(proof)[j]
<1> DEFINE N == Len(proof)
           w == Passed(proof)
<1>1. N \in Nat
  BY LenProperties DEF IsProof
<1> HIDE DEF N
<1>2. \E f : Sums(f, proof, N)
  <2> DEFINE S == {n \in Nat : \E f : Sums(f, proof, n)}
  <2>1. 0 \in S
    <3>1. Sums([i \in 0..0 |-> 0], proof, 0)
      BY DEF Sums
    <3>2. QED
      BY <3>1
  <2>2. \A i \in 0..(N - 1) : i \in S => i + 1 \in S
    BY SumsGrow
  <2> HIDE DEF S
  <2>3. N \in S
    BY <1>1, <2>1, <2>2, UpTo
  <2>4. QED
    BY <2>3 DEF S
<1>3. Sums(w, proof, N)
  BY <1>2 DEF Sums, Passed, Width, KeyOf, N
<1> HIDE DEF w
<1>4. w[0] = 0 /\ \A i \in 1..N : w[i] = w[i - 1] + Width(proof[i])
  BY <1>1, <1>3 DEF Sums
<1>5. \A i \in 1..N : Width(proof[i]) \in Nat
  BY NodeOf DEF IsProof, IsPair, N
<1>6. \A i \in 0..N : w[i] \in Nat
  <2> DEFINE S == {n \in 0..N : w[n] \in Nat}
  <2>1. 0 \in S
    BY <1>1, <1>4
  <2>2. \A i \in 0..(N - 1) : i \in S => i + 1 \in S
    <3>1. SUFFICES ASSUME NEW i \in 0..(N - 1), i \in S PROVE i + 1 \in S
      OBVIOUS
    <3>2. i + 1 \in 1..N /\ (i + 1) - 1 = i
      BY <1>1
    <3>3. w[i + 1] = w[i] + Width(proof[i + 1]) /\ Width(proof[i + 1]) \in Nat
      BY <1>4, <1>5, <3>2
    <3>4. QED
      BY <1>1, <3>1, <3>2, <3>3
  <2>3. \A i \in 0..N : i \in S
    <3> HIDE DEF S
    <3>1. QED
      BY <1>1, <2>1, <2>2, UpTo
  <2>4. QED
    BY <2>3
<1>7. \A i \in 0..N, j \in 0..N : i <= j => w[i] <= w[j]
  <2> DEFINE S == {n \in 0..N : \A i \in 0..n : w[i] <= w[n]}
  <2>1. 0 \in S
    BY <1>1, <1>4
  <2>2. \A j \in 0..(N - 1) : j \in S => j + 1 \in S
    <3>1. SUFFICES ASSUME NEW j \in 0..(N - 1), j \in S PROVE j + 1 \in S
      OBVIOUS
    <3>2. j + 1 \in 1..N /\ (j + 1) - 1 = j /\ j \in 0..N
      BY <1>1
    <3>3. w[j + 1] = w[j] + Width(proof[j + 1]) /\ Width(proof[j + 1]) \in Nat /\ w[j] \in Nat
      BY <1>4, <1>5, <1>6, <3>2
    <3>4. \A i \in 0..(j + 1) : w[i] <= w[j + 1]
      <4>1. SUFFICES ASSUME NEW i \in 0..(j + 1) PROVE w[i] <= w[j + 1]
        OBVIOUS
      <4>2. CASE i = j + 1
        BY <3>3, <4>2
      <4>3. CASE i # j + 1
        <5>1. i \in 0..j /\ i \in 0..N
          BY <1>1, <4>3
        <5>2. w[i] <= w[j] /\ w[i] \in Nat
          BY <1>6, <3>1, <5>1
        <5>3. QED
          BY <3>3, <5>2
      <4>4. QED
        BY <4>2, <4>3
    <3>5. QED
      BY <1>1, <3>2, <3>4
  <2>3. \A j \in 0..N : j \in S
    <3> HIDE DEF S
    <3>1. QED
      BY <1>1, <2>1, <2>2, UpTo
  <2>4. QED
    BY <2>3
<1>8. QED
  BY <1>1, <1>4, <1>6, <1>7 DEF N, w
-----------------------------------------------------------------------------
(* The loop, turn by turn.                                                    *)
After(st, proof, i, expected) ==
  IF ~st.going THEN st ELSE CheckNode(st, proof[i], i = 1, i = Len(proof), expected)
Turns(f, rootHash, bkey, proof, expected, n) ==
  f = [i \in 0..n |-> IF i = 0 THEN Goes(rootHash, stringToNibbles(bkey))
                      ELSE After(f[i - 1], proof, i, expected)]

(* One turn more.                                                             *)
LEMMA TurnsGrow ==
  ASSUME NEW rootHash, NEW bkey, NEW proof, NEW expected, NEW n \in Nat,
         NEW f, Turns(f, rootHash, bkey, proof, expected, n)
  PROVE  \E g : Turns(g, rootHash, bkey, proof, expected, n + 1)
<1> DEFINE first == Goes(rootHash, stringToNibbles(bkey))
           g == [i \in 0..(n + 1) |-> IF i = n + 1 THEN After(f[n], proof, n + 1, expected) ELSE f[i]]
<1>1. ASSUME NEW i \in 0..(n + 1)
      PROVE  g[i] = IF i = 0 THEN first ELSE After(g[i - 1], proof, i, expected)
  <2>1. CASE i = n + 1
    <3>1. g[i] = After(f[n], proof, n + 1, expected) /\ i # 0 /\ g[i - 1] = f[n]
      BY <2>1
    <3>2. QED
      BY <2>1, <3>1
  <2>2. CASE i # n + 1
    <3>1. i \in 0..n /\ g[i] = f[i] /\ (i # 0 => g[i - 1] = f[i - 1])
      BY <2>2
    <3>2. f[i] = IF i = 0 THEN first ELSE After(f[i - 1], proof, i, expected)
      BY <3>1 DEF Turns
    <3>3. QED
      BY <3>1, <3>2
  <2>3. QED
    BY <2>1, <2>2
<1>2. g = [i \in 0..(n + 1) |-> g[i]]
  OBVIOUS
<1> HIDE DEF g
<1>3. g = [i \in 0..(n + 1) |-> IF i = 0 THEN first ELSE After(g[i - 1], proof, i, expected)]
  BY <1>1, <1>2
<1>4. QED
  BY <1>3 DEF Turns

(* What the loop ends with is told by its turns.                              *)
LEMMA LoopTurns ==
  ASSUME NEW rootHash, NEW bkey, NEW proof, NEW expected, Len(proof) \in Nat
  PROVE  \E f : /\ f[0] = Goes(rootHash, stringToNibbles(bkey))
                /\ \A i \in 1..Len(proof) : f[i] = After(f[i - 1], proof, i, expected)
                /\ Checked(rootHash, bkey, proof, expected) = f[Len(proof)]
<1> DEFINE N == Len(proof)
           Solves(f, n) == Turns(f, rootHash, bkey, proof, expected, n)
<1>1. \E f : Solves(f, N)
  <2> DEFINE S == {n \in Nat : \E f : Solves(f, n)}
  <2>1. 0 \in S
    <3>1. Solves([i \in 0..0 |-> Goes(rootHash, stringToNibbles(bkey))], 0)
      BY DEF Turns
    <3>2. QED
      BY <3>1
  <2>2. \A i \in 0..(N - 1) : i \in S => i + 1 \in S
    BY TurnsGrow
  <2>3. N \in Nat
    OBVIOUS
  <2> HIDE DEF S, N, Solves
  <2>4. \A i \in 0..N : i \in S
    BY <2>1, <2>2, <2>3, UpTo
  <2>5. N \in S
    BY <2>3, <2>4
  <2>6. QED
    BY <2>5 DEF S
<1>2. PICK f : Solves(f, N) /\ Checked(rootHash, bkey, proof, expected) = f[N]
  BY <1>1 DEF Turns, After, Checked
<1>3. f[0] = Goes(rootHash, stringToNibbles(bkey)) /\ \A i \in 1..N : f[i] = After(f[i - 1], proof, i, expected)
  BY <1>2 DEF Turns
<1>4. QED
  BY <1>2, <1>3
-----------------------------------------------------------------------------
(* One turn of the loop, at node data with the rest key of the path: it goes  *)
(* on to the node that Next names, or the path ends there with value v.       *)
Matches(data, key) == matchingNibbleLength(KeyOf(data), key) = Len(KeyOf(data))
Onward(data, key) ==
  \/ IsBranch(data) /\ key # << >>
  \/ IsPair(data) /\ Matches(data, key) /\ Drop(key, Len(KeyOf(data))) # << >>
Next(data, key) == IF IsBranch(data) THEN data[key[1] + 1] ELSE Node(data).value
EndsWith(data, key, v) ==
  \/ IsBranch(data) /\ key = << >>
  \/ IsPair(data) /\ Matches(data, key) /\ Drop(key, Len(KeyOf(data))) = << >> /\ v = Node(data).value

(* What a turn does.                                                          *)
LEMMA OneTurn ==
  ASSUME NEW data, IsPair(data) => data[1].b \in Seq(0..255),
         NEW key \in Seq(0..15), \A a \in 1..16 : IsBranch(data) => data[a].t # "node",
         NEW wanted, NEW first, NEW last \in BOOLEAN, NEW v, v # Null
  PROVE  LET st == CheckNode(Goes(wanted, key), data, first, last, v)
         IN  /\ wanted = Hash(data) /\ Onward(data, key) => st = Goes(Next(data, key), Drop(key, Width(data)))
             /\ ~(wanted = Hash(data) /\ Onward(data, key))
                  => ~st.going /\ (st.result.ok <=> wanted = Hash(data) /\ last /\ EndsWith(data, key, v))
<1> DEFINE st == CheckNode(Goes(wanted, key), data, first, last, v)
           node == Node(data)
           more == Drop(key, Len(node.key))
<1>1. /\ node.type = "branch" <=> IsBranch(data)
      /\ node.type \in {"leaf", "extension"} <=> IsPair(data)
      /\ node.type \in {"branch", "leaf", "extension", "empty"}
      /\ IsBranch(data) => node.raw = data /\ Width(data) = 1
      /\ IsPair(data) => Width(data) = Len(node.key)
  BY NodeOf DEF KeyOf
<1>2. Goes(wanted, key).key = key /\ Goes(wanted, key).wanted = wanted
  BY DEF Goes
<1>3. \A r : ~Ends(r).going /\ Ends(r).result = r
  BY DEF Ends
<1>4. ~Throw.ok /\ \A x : Gives(x).ok
  BY DEF Throw, Gives
<1>5. CASE wanted # Hash(data)
  <2>1. st = Ends(Throw)
    BY <1>2, <1>5 DEF CheckNode
  <2>2. QED
    BY <1>3, <1>4, <1>5, <2>1
<1>6. CASE wanted = Hash(data) /\ IsBranch(data)
  <2>1. node.type = "branch" /\ node.raw = data /\ ~IsPair(data)
    BY <1>1, <1>6
  <2> DEFINE child == data[key[1] + 1]
  <2>2. st = IF key = << >> THEN Ends(IF last THEN Gives(node.value) ELSE Throw)
             ELSE IF child.t = "node" /\ Len(child.node) = 2 THEN Ends(InBranch(child.node, Tail(key), last))
             ELSE Goes(child, Tail(key))
    BY <1>2, <1>6, <2>1 DEF CheckNode
  <2>3. CASE key = << >>
    <3>1. st = Ends(IF last THEN Gives(node.value) ELSE Throw)
      BY <2>2, <2>3
    <3>2. ~Onward(data, key) /\ EndsWith(data, key, v)
      BY <1>6, <2>1, <2>3 DEF Onward, EndsWith
    <3> HIDE DEF st
    <3>3. QED
      BY <1>3, <1>4, <1>6, <3>1, <3>2 DEF st
  <2>4. CASE key # << >>
    <3>1. key[1] \in 0..15
      BY <2>4, EmptySeq, LenProperties
    <3>2. key[1] + 1 \in 1..16
      BY <3>1
    <3>3. child.t # "node"
      BY <1>6, <3>2
    <3>4. st = Goes(child, Tail(key))
      BY <2>2, <2>4, <3>3
    <3>5. Onward(data, key) /\ Next(data, key) = child /\ Tail(key) = Drop(key, 1) /\ Width(data) = 1
      BY <1>1, <1>6, <2>4, TailDrops DEF Onward, Next
    <3> HIDE DEF st, child
    <3>6. QED
      BY <1>6, <3>4, <3>5 DEF st
  <2>5. QED
    BY <2>3, <2>4
<1>7. CASE wanted = Hash(data) /\ IsPair(data)
  <2>1. node.type \in {"leaf", "extension"} /\ node.type # "branch" /\ node.type # "empty" /\ ~IsBranch(data)
    BY <1>1, <1>7
  <2>2. st = IF matchingNibbleLength(node.key, key) # Len(node.key)
             THEN Ends(IF Len(key) = Len(node.key) /\ last /\ v = Null THEN Gives(node.value) ELSE Throw)
             ELSE IF more = << >> THEN Ends(Found(node, v, last))
             ELSE Goes(node.value, more)
    BY <1>2, <1>7, <2>1 DEF CheckNode
  <2>3. CASE ~Matches(data, key)
    <3>1. st = Ends(Throw)
      BY <2>2, <2>3 DEF Matches, KeyOf
    <3>2. ~Onward(data, key) /\ ~EndsWith(data, key, v)
      BY <2>1, <2>3 DEF Onward, EndsWith
    <3> HIDE DEF st
    <3>3. QED
      BY <1>3, <1>4, <3>1, <3>2 DEF st
  <2>4. CASE Matches(data, key) /\ more = << >>
    <3>1. st = Ends(Found(node, v, last))
      BY <2>2, <2>4 DEF Matches, KeyOf
    <3>2. ~Onward(data, key) /\ (EndsWith(data, key, v) <=> v = node.value)
      BY <1>7, <2>1, <2>4 DEF Onward, EndsWith, KeyOf
    <3>3. Found(node, v, last).ok <=> last /\ v = node.value
      BY <1>4 DEF Found
    <3> HIDE DEF st, node
    <3>4. QED
      BY <1>3, <1>7, <3>1, <3>2, <3>3 DEF st
  <2>5. CASE Matches(data, key) /\ more # << >>
    <3>1. st = Goes(node.value, more)
      BY <2>2, <2>5 DEF Matches, KeyOf
    <3>2. Onward(data, key) /\ Next(data, key) = node.value /\ more = Drop(key, Width(data))
      BY <1>1, <1>7, <2>1, <2>5 DEF Onward, Next, KeyOf
    <3> HIDE DEF st, node, more
    <3>3. QED
      BY <1>7, <3>1, <3>2 DEF st
  <2>6. QED
    BY <2>3, <2>4, <2>5
<1>8. CASE wanted = Hash(data) /\ ~IsBranch(data) /\ ~IsPair(data)
  <2>1. node.type = "empty"
    BY <1>1, <1>8
  <2>2. st = Ends(Throw)
    BY <1>2, <1>8, <2>1 DEF CheckNode
  <2>3. ~Onward(data, key) /\ ~EndsWith(data, key, v)
    BY <1>8 DEF Onward, EndsWith
  <2> HIDE DEF st
  <2>4. QED
    BY <1>3, <1>4, <2>2, <2>3 DEF st
<1>9. QED
  BY <1>5, <1>6, <1>7, <1>8
-----------------------------------------------------------------------------
(* The way of a path p through a proof: what is left of the path after the    *)
(* first i nodes, what is then looked for, and whether node i leads on.       *)
Left(proof, p, i) == Drop(p, Passed(proof)[i])
Wants(root, proof, p, i) == IF i = 0 THEN root ELSE Next(proof[i], Left(proof, p, i - 1))
Fits(root, proof, p, i) == Wants(root, proof, p, i - 1) = Hash(proof[i])
LeadsOn(root, proof, p, i) == Fits(root, proof, p, i) /\ Onward(proof[i], Left(proof, p, i - 1))
Arrives(root, proof, p, v) ==
  /\ Len(proof) >= 1
  /\ \A i \in 1..(Len(proof) - 1) : LeadsOn(root, proof, p, i)
  /\ Fits(root, proof, p, Len(proof))
  /\ EndsWith(proof[Len(proof)], Left(proof, p, Len(proof) - 1), v)

(* A path does not both end at a node and go on from it.                      *)
LEMMA EndIsNotOnward ==
  ASSUME NEW data, NEW key, NEW v, EndsWith(data, key, v)
  PROVE  ~Onward(data, key)
BY DEF EndsWith, Onward, IsBranch, IsPair

(* A proof is accepted for a value exactly if the path arrives at it.         *)
LEMMA AcceptedIff ==
  ASSUME NEW root, NEW bkey \in Seq(0..255), NEW proof, IsProof(proof), Hashed(proof),
         NEW v, v # Null
  PROVE  verifyMerkleProof(root, bkey, proof, v).ok <=> Arrives(root, proof, stringToNibbles(bkey), v)
<1> DEFINE N == Len(proof)
           p == stringToNibbles(bkey)
           w == Passed(proof)
           L(i) == Left(proof, p, i)
           Wanted(i) == Wants(root, proof, p, i)
           Fit(i) == Fits(root, proof, p, i)
           On(i) == LeadsOn(root, proof, p, i)
<1>1. /\ N \in Nat /\ w[0] = 0
      /\ \A i \in 1..N : w[i] = w[i - 1] + Width(proof[i])
      /\ \A i \in 0..N : w[i] \in Nat
  BY PassedSums
<1>2. p \in Seq(0..15)
  BY NibblesOf
<1>3. \A i \in 0..N : L(i) \in Seq(0..15)
  <2> HIDE DEF p, N, w
  <2>1. QED
    BY <1>1, <1>2, Dropping DEF Left, w
<1>4. \A i \in 1..N : L(i) = Drop(L(i - 1), Width(proof[i]))
  <2>1. SUFFICES ASSUME NEW i \in 1..N PROVE L(i) = Drop(L(i - 1), Width(proof[i]))
    OBVIOUS
  <2>2. i - 1 \in 0..N /\ w[i - 1] \in Nat /\ w[i] = w[i - 1] + Width(proof[i])
    BY <1>1
  <2>3. Width(proof[i]) \in Nat
    BY NodeOf DEF IsProof, IsPair
  <2>4. Drop(Drop(p, w[i - 1]), Width(proof[i])) = Drop(p, w[i - 1] + Width(proof[i]))
    <3> HIDE DEF p, N, w
    <3>1. QED
      BY <1>2, <2>2, <2>3, Dropping
  <2>5. QED
    BY <2>2, <2>4 DEF Left
<1>5. L(0) = p
  <2>1. Drop(p, 0) \in Seq(0..15) /\ Len(Drop(p, 0)) = Len(p) /\ \A j \in 1..Len(p) : Drop(p, 0)[j] = p[j]
    <3>1. Len(p) \in Nat /\ 0 \in 0..Len(p) /\ Len(p) - 0 = Len(p)
      BY <1>2, LenProperties
    <3> HIDE DEF p
    <3>2. /\ Drop(p, 0) \in Seq(0..15) /\ Len(Drop(p, 0)) = Len(p) - 0
          /\ \A j \in 1..(Len(p) - 0) : Drop(p, 0)[j] = p[0 + j]
      BY <1>2, <3>1, DropRest
    <3>3. QED
      BY <3>1, <3>2
  <2> HIDE DEF p
  <2>2. Drop(p, 0) = p
    BY <1>2, <2>1, SeqEqual
  <2>3. QED
    BY <1>1, <2>2 DEF Left
<1>6. PICK f : /\ f[0] = Goes(root, p)
               /\ \A i \in 1..N : f[i] = After(f[i - 1], proof, i, v)
               /\ Checked(root, bkey, proof, v) = f[N]
  BY <1>1, LoopTurns
<1> DEFINE Going(i) == f[i] = Goes(Wanted(i), L(i)) /\ \A j \in 1..i : On(j)
           Over(i) == /\ ~f[i].going
                      /\ \E j \in 1..i :
                           /\ \A k \in 1..(j - 1) : On(k)
                           /\ ~On(j)
                           /\ f[i].result.ok <=> j = N /\ Fit(j) /\ EndsWith(proof[j], L(j - 1), v)
           S == {i \in Nat : Going(i) \/ Over(i)}
<1>7. 0 \in S
  <2>1. Going(0)
    BY <1>5, <1>6 DEF Wants
  <2>2. QED
    BY <2>1
<1>8. \A i \in 0..(N - 1) : i \in S => i + 1 \in S
  <2>1. SUFFICES ASSUME NEW i \in 0..(N - 1), i \in S PROVE Going(i + 1) \/ Over(i + 1)
    BY <1>1
  <2>2. i + 1 \in 1..N /\ (i + 1) - 1 = i /\ i \in 0..N /\ i \in Nat
    BY <1>1
  <2>3. f[i + 1] = After(f[i], proof, i + 1, v)
    BY <1>6, <2>2
  <2>4. CASE Over(i)
    <3>1. f[i + 1] = f[i]
      BY <2>3, <2>4 DEF After
    <3>2. \A j \in 1..i : j \in 1..(i + 1)
      BY <2>2
    <3> HIDE DEF On, Fit, L, N
    <3>3. Over(i + 1)
      BY <2>4, <3>1, <3>2
    <3>4. QED
      BY <3>3
  <2>5. CASE Going(i)
    <3> DEFINE data == proof[i + 1]
               first == (i + 1 = 1)
               last == (i + 1 = N)
               st == CheckNode(Goes(Wanted(i), L(i)), data, first, last, v)
    <3>1. f[i + 1] = st
      BY <2>3, <2>5 DEF After, Goes
    <3>2. /\ Wanted(i) = Hash(data) /\ Onward(data, L(i)) => st = Goes(Next(data, L(i)), Drop(L(i), Width(data)))
          /\ ~(Wanted(i) = Hash(data) /\ Onward(data, L(i)))
               => ~st.going /\ (st.result.ok <=> Wanted(i) = Hash(data) /\ last /\ EndsWith(data, L(i), v))
      <4>1. IsPair(data) => data[1].b \in Seq(0..255)
        BY <2>2 DEF IsProof, IsPair
      <4>2. \A a \in 1..16 : IsBranch(data) => data[a].t # "node"
        BY <2>2 DEF Hashed
      <4>3. L(i) \in Seq(0..15)
        BY <1>3, <2>2
      <4>4. last \in BOOLEAN
        OBVIOUS
      <4> HIDE DEF data, L, Wanted, N, first, last
      <4>5. QED
        BY <4>1, <4>2, <4>3, <4>4, OneTurn
    <3>3. On(i + 1) <=> Wanted(i) = Hash(data) /\ Onward(data, L(i))
      BY <2>2 DEF LeadsOn, Fits
    <3>4. Fit(i + 1) <=> Wanted(i) = Hash(data)
      BY <2>2 DEF Fits
    <3>5. Wanted(i + 1) = Next(data, L(i)) /\ L(i + 1) = Drop(L(i), Width(data))
      <4>1. i + 1 # 0
        BY <2>2
      <4>2. QED
        BY <1>4, <2>2, <4>1 DEF Wants
    <3>6. \A j \in 1..(i + 1) : j = i + 1 \/ j \in 1..i
      BY <2>2
    <3>7. \A k \in 1..i : On(k)
      BY <2>5
    <3> HIDE DEF On, Fit, L, Wanted, N, data, st
    <3>8. CASE On(i + 1)
      <4>1. Going(i + 1)
        BY <3>1, <3>2, <3>3, <3>5, <3>6, <3>7, <3>8
      <4>2. QED
        BY <4>1
    <3>9. CASE ~On(i + 1)
      <4>1. ~f[i + 1].going /\ (f[i + 1].result.ok <=> i + 1 = N /\ Fit(i + 1) /\ EndsWith(data, L(i), v))
        BY <3>1, <3>2, <3>3, <3>4, <3>9
      <4>2. i + 1 \in 1..(i + 1) /\ (i + 1) - 1 = i
        BY <2>2
      <4>3. Over(i + 1)
        BY <3>7, <3>9, <4>1, <4>2 DEF data
      <4>4. QED
        BY <4>3
    <3>10. QED
      BY <3>8, <3>9
  <2>6. QED
    BY <2>1, <2>4, <2>5
<1>9. Going(N) \/ Over(N)
  <2>1. \A i \in 0..N : i \in S
    <3> HIDE DEF S, N
    <3>1. QED
      BY <1>1, <1>7, <1>8, UpTo
  <2>2. N \in 0..N
    BY <1>1
  <2>3. N \in S
    BY <2>1, <2>2
  <2>4. QED
    BY <2>3
<1>10. verifyMerkleProof(root, bkey, proof, v).ok <=> ~f[N].going /\ f[N].result.ok
  BY <1>6 DEF verifyMerkleProof, Throw
<1>11. Arrives(root, proof, p, v) <=>
         N >= 1 /\ (\A i \in 1..(N - 1) : On(i)) /\ Fit(N) /\ EndsWith(proof[N], L(N - 1), v)
  BY DEF Arrives
<1>12. \A i \in 1..N : On(i) => ~EndsWith(proof[i], L(i - 1), v)
  BY EndIsNotOnward DEF LeadsOn
<1> HIDE DEF On, Fit, L, Wanted, N, p
<1>13. CASE Going(N)
  <2>1. f[N].going
    BY <1>13 DEF Goes
  <2>2. N >= 1 => N \in 1..N
    BY <1>1
  <2>3. ~Arrives(root, proof, p, v)
    BY <1>11, <1>12, <1>13, <2>2
  <2>4. QED
    BY <1>10, <2>1, <2>3 DEF p
<1>14. CASE Over(N)
  <2>1. PICK j \in 1..N :
          /\ \A k \in 1..(j - 1) : On(k)
          /\ ~On(j)
          /\ f[N].result.ok <=> j = N /\ Fit(j) /\ EndsWith(proof[j], L(j - 1), v)
    BY <1>14
  <2>2. j = N \/ j \in 1..(N - 1)
    BY <1>1
  <2>3. N >= 1
    BY <1>1
  <2>4. QED
    BY <1>10, <1>11, <1>14, <2>1, <2>2, <2>3 DEF p
<1>15. QED
  BY <1>9, <1>13, <1>14
-----------------------------------------------------------------------------
(* The key of a leaf or an extension matches what is left of a path from      *)
(* place k if it agrees with the path there in all nibbles but its last.      *)
LEMMA MatchesAt ==
  ASSUME NEW data, IsPair(data) => data[1].b \in Seq(0..255),
         NEW p \in Seq(0..15), NEW k \in Nat
  PROVE  Matches(data, Drop(p, k))
           <=> \A m \in 1..(Len(KeyOf(data)) - 1) : k + m <= Len(p) /\ KeyOf(data)[m] = p[k + m]
<1> DEFINE key == KeyOf(data)
           rest == Drop(p, k)
<1>1. key \in Seq(0..15) /\ Len(key) \in Nat /\ Len(p) \in Nat
  BY NodeOf, LenProperties
<1>2. /\ rest \in Seq(0..15)
      /\ Len(rest) = IF k < Len(p) THEN Len(p) - k ELSE 0
      /\ \A j \in 1..Len(rest) : rest[j] = p[k + j]
  BY Dropping
<1> HIDE DEF key, rest
<1>3. Matches(data, rest) <=> \A m \in 1..(Len(key) - 1) : m <= Len(rest) /\ key[m] = rest[m]
  BY <1>1, <1>2, KeysMatchButLast DEF LastNibbleIgnored, Matches, key
<1>4. ASSUME NEW m \in 1..(Len(key) - 1)
      PROVE  m <= Len(rest) /\ key[m] = rest[m] <=> k + m <= Len(p) /\ key[m] = p[k + m]
  <2>1. m \in Nat /\ m >= 1
    BY <1>1
  <2>2. m <= Len(rest) <=> k + m <= Len(p)
    BY <1>1, <1>2, <2>1
  <2>3. m <= Len(rest) => m \in 1..Len(rest)
    BY <1>1, <1>2, <2>1
  <2>4. QED
    BY <1>2, <2>2, <2>3
<1>5. QED
  BY <1>3, <1>4 DEF key, rest

(* How long a path is that arrives: it does not end before the last node, and *)
(* there after the whole key, or all of it but the last nibble.               *)
LEMMA WayLength ==
  ASSUME NEW root, NEW p \in Seq(0..15), NEW proof, IsProof(proof), NEW v,
         Arrives(root, proof, p, v)
  PROVE  /\ \A i \in 0..(Len(proof) - 1) : Passed(proof)[i] <= Len(p)
         /\ IsBranch(proof[Len(proof)]) => Len(p) = Passed(proof)[Len(proof) - 1]
         /\ IsPair(proof[Len(proof)]) => Len(p) \in {Passed(proof)[Len(proof)], Passed(proof)[Len(proof)] - 1}
         /\ IsBranch(proof[Len(proof)]) \/ IsPair(proof[Len(proof)])
<1> DEFINE N == Len(proof)
           w == Passed(proof)
           L(i) == Left(proof, p, i)
<1>1. /\ N \in Nat /\ w[0] = 0
      /\ \A i \in 1..N : w[i] = w[i - 1] + Width(proof[i])
      /\ \A i \in 0..N : w[i] \in Nat
  BY PassedSums
<1>2. /\ N >= 1
      /\ \A i \in 1..(N - 1) : Onward(proof[i], L(i - 1))
      /\ EndsWith(proof[N], L(N - 1), v)
  BY DEF Arrives, LeadsOn
<1>3. Len(p) \in Nat
  BY LenProperties
<1>4. \A i \in 1..N : /\ IsPair(proof[i]) => proof[i][1].b \in Seq(0..255)
                      /\ IsPair(proof[i]) => Width(proof[i]) = Len(KeyOf(proof[i]))
                      /\ IsBranch(proof[i]) => Width(proof[i]) = 1
                      /\ Width(proof[i]) \in Nat
                      /\ ~(IsPair(proof[i]) /\ IsBranch(proof[i]))
  <2>1. SUFFICES ASSUME NEW i \in 1..N
        PROVE  /\ IsPair(proof[i]) => proof[i][1].b \in Seq(0..255)
               /\ IsPair(proof[i]) => Width(proof[i]) = Len(KeyOf(proof[i]))
               /\ IsBranch(proof[i]) => Width(proof[i]) = 1
               /\ Width(proof[i]) \in Nat
               /\ ~(IsPair(proof[i]) /\ IsBranch(proof[i]))
    OBVIOUS
  <2>2. IsPair(proof[i]) => proof[i][1].b \in Seq(0..255)
    BY DEF IsProof, IsPair
  <2>3. ~(IsPair(proof[i]) /\ IsBranch(proof[i]))
    BY <2>2, NodeOf
  <2>4. QED
    BY <2>2, <2>3, NodeOf
<1>5. \A k \in Nat : /\ Drop(p, k) # << >> <=> k < Len(p)
                     /\ \A m \in Nat : Drop(Drop(p, k), m) = Drop(p, k + m)
  BY Dropping
<1>6. \A i \in 0..N : /\ L(i) # << >> <=> w[i] < Len(p)
                      /\ \A m \in Nat : Drop(L(i), m) = Drop(p, w[i] + m)
  BY <1>1, <1>5 DEF Left
<1>7. ASSUME NEW i \in 1..(N - 1) PROVE w[i] <= Len(p)
  <2>1. i \in 1..N /\ i - 1 \in 0..N
    BY <1>1
  <2>2. w[i] = w[i - 1] + Width(proof[i]) /\ w[i - 1] \in Nat /\ w[i] \in Nat
    BY <1>1, <2>1
  <2>3. CASE IsBranch(proof[i]) /\ L(i - 1) # << >>
    <3>1. w[i - 1] < Len(p) /\ Width(proof[i]) = 1
      BY <1>4, <1>6, <2>1, <2>3
    <3>2. QED
      BY <1>3, <2>2, <3>1
  <2>4. CASE IsPair(proof[i]) /\ Drop(L(i - 1), Len(KeyOf(proof[i]))) # << >>
    <3>1. Len(KeyOf(proof[i])) = Width(proof[i]) /\ Width(proof[i]) \in Nat
      BY <1>4, <2>1, <2>4
    <3>2. Drop(p, w[i]) # << >>
      BY <1>6, <2>1, <2>2, <2>4, <3>1
    <3>3. w[i] < Len(p)
      BY <1>5, <2>2, <3>2
    <3>4. QED
      BY <1>3, <2>2, <3>3
  <2>5. Onward(proof[i], L(i - 1))
    BY <1>2
  <2>6. QED
    BY <2>3, <2>4, <2>5 DEF Onward
<1>8. \A i \in 0..(N - 1) : w[i] <= Len(p)
  <2>1. \A i \in 0..(N - 1) : i = 0 \/ i \in 1..(N - 1)
    BY <1>1
  <2>2. w[0] <= Len(p)
    BY <1>1, <1>3
  <2>3. QED
    BY <1>7, <2>1, <2>2
<1>9. /\ N \in 1..N /\ N - 1 \in 0..(N - 1) /\ N - 1 \in 0..N
      /\ w[N] = w[N - 1] + Width(proof[N]) /\ w[N - 1] \in Nat /\ w[N] \in Nat
  BY <1>1, <1>2
<1>10. CASE IsBranch(proof[N]) /\ L(N - 1) = << >>
  <2>1. ~(w[N - 1] < Len(p)) /\ w[N - 1] <= Len(p)
    BY <1>6, <1>8, <1>9, <1>10
  <2>2. Len(p) = w[N - 1]
    BY <1>3, <1>9, <2>1
  <2>3. QED
    BY <1>4, <1>8, <1>9, <1>10, <2>2
<1>11. CASE /\ IsPair(proof[N]) /\ Matches(proof[N], L(N - 1))
            /\ Drop(L(N - 1), Len(KeyOf(proof[N]))) = << >>
  <2> DEFINE K == Len(KeyOf(proof[N]))
  <2>1. K = Width(proof[N]) /\ K \in Nat
    BY <1>4, <1>9, <1>11
  <2>2. ~(w[N] < Len(p))
    <3>1. Drop(p, w[N]) = << >>
      BY <1>6, <1>9, <1>11, <2>1
    <3>2. QED
      BY <1>5, <1>9, <3>1
  <2>3. \A m \in 1..(K - 1) : w[N - 1] + m <= Len(p)
    <3>1. IsPair(proof[N]) => proof[N][1].b \in Seq(0..255)
      BY <1>4, <1>9
    <3>2. Matches(proof[N], Drop(p, w[N - 1]))
      BY <1>11 DEF Left
    <3> HIDE DEF N, w
    <3>3. QED
      BY <1>9, <3>1, <3>2, MatchesAt
  <2>4. w[N - 1] <= Len(p)
    BY <1>8, <1>9
  <2> HIDE DEF K, N, w
  <2>5. Len(p) >= w[N] - 1
    <3>1. CASE K >= 2
      <4>1. K - 1 \in 1..(K - 1)
        BY <2>1, <3>1
      <4>2. w[N - 1] + (K - 1) <= Len(p)
        BY <2>3, <4>1
      <4>3. QED
        BY <1>3, <1>9, <2>1, <4>2
    <3>2. CASE ~(K >= 2)
      BY <1>3, <1>9, <2>1, <2>4, <3>2
    <3>3. QED
      BY <3>1, <3>2
  <2>6. Len(p) \in {w[N], w[N] - 1}
    BY <1>3, <1>9, <2>2, <2>5
  <2>7. QED
    BY <1>4, <1>8, <1>9, <1>11, <2>6 DEF N, w
<1>12. QED
  BY <1>2, <1>10, <1>11 DEF EndsWith
-----------------------------------------------------------------------------
(* No key ends at a place strictly inside a key, or where a branch is passed. *)
LEMMA NoKeyEndsAt ==
  ASSUME NEW proof, IsProof(proof), NEW i \in 1..Len(proof), NEW k \in Nat,
         Passed(proof)[i - 1] < k, k <= Passed(proof)[i],
         k < Passed(proof)[i] \/ IsBranch(proof[i])
  PROVE  k \notin KeyEnds(proof)
<1> DEFINE N == Len(proof)
           w == Passed(proof)
<1>1. /\ N \in Nat
      /\ \A j \in 1..N : w[j] = w[j - 1] + Width(proof[j])
      /\ \A j \in 0..N : w[j] \in Nat
      /\ \A a \in 0..N, b \in 0..N : a <= b => w[a] <= w[b]
  BY PassedSums
<1>2. SUFFICES ASSUME NEW j \in 1..N, KeyOf(proof[j]) # << >>, k = w[j] PROVE FALSE
  <2>1. DOMAIN proof = 1..N
    BY LenProperties DEF IsProof
  <2>2. KeyEnds(proof) = {w[j] : j \in {j \in 1..N : KeyOf(proof[j]) # << >>}}
    BY <2>1 DEF KeyEnds, KeyOf
  <2>3. QED
    BY <2>2
<1>3. /\ IsPair(proof[j])
      /\ ~IsBranch(proof[j])
      /\ Width(proof[j]) \in Nat /\ Width(proof[j]) >= 1
  <2>1. IsPair(proof[j]) => proof[j][1].b \in Seq(0..255)
    BY DEF IsProof, IsPair
  <2>2. /\ IsPair(proof[j]) /\ ~IsBranch(proof[j])
        /\ Width(proof[j]) = Len(KeyOf(proof[j]))
        /\ KeyOf(proof[j]) \in Seq(0..15)
    BY <1>2, <2>1, NodeOf
  <2>3. Len(KeyOf(proof[j])) \in Nat /\ Len(KeyOf(proof[j])) # 0
    BY <1>2, <2>2, EmptySeq, LenProperties
  <2>4. QED
    BY <2>2, <2>3
<1>4. i \in 1..N /\ i - 1 \in 0..N /\ i \in 0..N /\ j - 1 \in 0..N /\ j \in 0..N
  BY <1>1
<1>5. /\ w[i - 1] < k /\ k <= w[i] /\ (k < w[i] \/ IsBranch(proof[i]))
      /\ w[i - 1] \in Nat /\ w[i] \in Nat /\ w[j - 1] \in Nat
      /\ w[j] = w[j - 1] + Width(proof[j])
  BY <1>1, <1>4
<1> HIDE DEF w, N
<1>6. CASE j < i
  <2>1. j <= i - 1
    BY <1>4, <1>6
  <2>2. w[j] <= w[i - 1]
    BY <1>1, <1>4, <2>1
  <2>3. QED
    BY <1>2, <1>5, <2>2
<1>7. CASE j > i
  <2>1. i <= j - 1
    BY <1>4, <1>7
  <2>2. w[i] <= w[j - 1]
    BY <1>1, <1>4, <2>1
  <2>3. QED
    BY <1>2, <1>3, <1>5, <2>2
<1>8. CASE j = i
  BY <1>2, <1>3, <1>5, <1>8
<1>9. QED
  BY <1>4, <1>6, <1>7, <1>8

(* A path that differs from one that arrives only where keys end arrives.     *)
LEMMA AlikeArrives ==
  ASSUME NEW root, NEW proof, IsProof(proof), NEW v,
         NEW p \in Seq(0..15), NEW q \in Seq(0..15), AlikeBut(p, q, KeyEnds(proof)),
         Arrives(root, proof, p, v)
  PROVE  Arrives(root, proof, q, v)
<1> DEFINE N == Len(proof)
           w == Passed(proof)
           n == Len(p)
<1>1. /\ N \in Nat /\ w[0] = 0
      /\ \A i \in 1..N : w[i] = w[i - 1] + Width(proof[i])
      /\ \A i \in 0..N : w[i] \in Nat
  BY PassedSums
<1>2. n \in Nat /\ Len(q) = n /\ \A k \in 1..n : k \notin KeyEnds(proof) => p[k] = q[k]
  BY LenProperties DEF AlikeBut
<1>3. /\ \A k \in Nat : Drop(p, k) # << >> <=> k < n
      /\ \A k, m \in Nat : Drop(Drop(p, k), m) = Drop(p, k + m)
      /\ \A k \in Nat : k < n => Drop(p, k)[1] = p[k + 1]
  <2>1. SUFFICES ASSUME NEW k \in Nat
        PROVE  /\ Drop(p, k) # << >> <=> k < n
               /\ \A m \in Nat : Drop(Drop(p, k), m) = Drop(p, k + m)
               /\ k < n => Drop(p, k)[1] = p[k + 1]
    OBVIOUS
  <2>2. /\ Drop(p, k) # << >> <=> k < n
        /\ Len(Drop(p, k)) = IF k < n THEN n - k ELSE 0
        /\ \A j \in 1..Len(Drop(p, k)) : Drop(p, k)[j] = p[k + j]
        /\ \A m \in Nat : Drop(Drop(p, k), m) = Drop(p, k + m)
    BY Dropping
  <2>3. k < n => 1 \in 1..Len(Drop(p, k))
    BY <1>2, <2>2
  <2>4. QED
    BY <2>2, <2>3
<1>4. /\ \A k \in Nat : Drop(q, k) # << >> <=> k < n
      /\ \A k, m \in Nat : Drop(Drop(q, k), m) = Drop(q, k + m)
      /\ \A k \in Nat : k < n => Drop(q, k)[1] = q[k + 1]
  <2>1. SUFFICES ASSUME NEW k \in Nat
        PROVE  /\ Drop(q, k) # << >> <=> k < n
               /\ \A m \in Nat : Drop(Drop(q, k), m) = Drop(q, k + m)
               /\ k < n => Drop(q, k)[1] = q[k + 1]
    OBVIOUS
  <2>2. /\ Drop(q, k) # << >> <=> k < Len(q)
        /\ Len(Drop(q, k)) = IF k < Len(q) THEN Len(q) - k ELSE 0
        /\ \A j \in 1..Len(Drop(q, k)) : Drop(q, k)[j] = q[k + j]
        /\ \A m \in Nat : Drop(Drop(q, k), m) = Drop(q, k + m)
    BY Dropping
  <2>3. k < n => 1 \in 1..Len(Drop(q, k))
    BY <1>2, <2>2
  <2>4. QED
    BY <1>2, <2>2, <2>3
<1>5. ASSUME NEW i \in 1..N
      PROVE  LET data == proof[i]
                 a == Drop(p, w[i - 1])
                 b == Drop(q, w[i - 1])
             IN  /\ Onward(data, a) => Onward(data, b) /\ Next(data, a) = Next(data, b)
                 /\ EndsWith(data, a, v) => EndsWith(data, b, v)
  <2> DEFINE data == proof[i]
             k == w[i - 1]
             key == KeyOf(data)
  <2>1. k \in Nat /\ w[i] = k + Width(data) /\ w[i] \in Nat
    BY <1>1
  <2>2. IsPair(data) => data[1].b \in Seq(0..255)
    BY DEF IsProof, IsPair
  <2>3. /\ IsBranch(data) => Width(data) = 1
        /\ IsPair(data) => Width(data) = Len(key) /\ ~IsBranch(data)
        /\ key \in Seq(0..15) /\ Len(key) \in Nat
    BY <2>2, NodeOf, LenProperties
  <2>4. Drop(p, k) # << >> <=> Drop(q, k) # << >>
    BY <1>3, <1>4, <2>1
  <2>5. IsBranch(data) /\ Drop(p, k) # << >> => Drop(p, k)[1] = Drop(q, k)[1]
    <3>1. SUFFICES ASSUME IsBranch(data), k < n PROVE Drop(p, k)[1] = Drop(q, k)[1]
      BY <1>3, <2>1
    <3>2. w[i] = k + 1
      BY <2>1, <2>3, <3>1
    <3>3. k + 1 \in Nat /\ w[i - 1] < k + 1 /\ k + 1 <= w[i]
      BY <2>1, <3>2
    <3>4. k + 1 \notin KeyEnds(proof)
      BY <3>1, <3>3, NoKeyEndsAt
    <3>5. k + 1 \in 1..n
      BY <1>2, <2>1, <3>1
    <3>6. p[k + 1] = q[k + 1]
      BY <1>2, <3>4, <3>5
    <3>7. QED
      BY <1>3, <1>4, <2>1, <3>1, <3>6
  <2>6. IsPair(data) /\ Matches(data, Drop(p, k)) => Matches(data, Drop(q, k))
    <3>1. SUFFICES ASSUME IsPair(data), Matches(data, Drop(p, k)) PROVE Matches(data, Drop(q, k))
      OBVIOUS
    <3>2. \A m \in 1..(Len(key) - 1) : k + m <= n /\ key[m] = p[k + m]
      <4> HIDE DEF data, k
      <4>1. QED
        BY <2>1, <2>2, <3>1, MatchesAt
    <3>3. ASSUME NEW m \in 1..(Len(key) - 1) PROVE k + m <= n /\ key[m] = q[k + m]
      <4>1. m \in Nat /\ m >= 1 /\ m < Len(key) /\ w[i] = k + Len(key)
        BY <2>1, <2>3, <3>1
      <4>2. k + m \in Nat /\ k < k + m /\ k + m < w[i]
        BY <2>1, <2>3, <4>1
      <4>3. k + m <= w[i]
        BY <2>1, <4>2
      <4>4. k + m \notin KeyEnds(proof)
        BY <4>2, <4>3, NoKeyEndsAt
      <4>5. k + m <= n /\ key[m] = p[k + m]
        BY <3>2
      <4>6. k + m \in 1..n
        BY <1>2, <2>1, <4>1, <4>5
      <4>7. QED
        BY <1>2, <4>4, <4>5, <4>6
    <3>4. \A m \in 1..(Len(key) - 1) : k + m <= Len(q) /\ key[m] = q[k + m]
      BY <1>2, <3>3
    <3> HIDE DEF data, k
    <3>5. QED
      BY <2>1, <2>2, <3>4, MatchesAt
  <2>7. Drop(Drop(p, k), Len(key)) # << >> <=> Drop(Drop(q, k), Len(key)) # << >>
    <3>1. k + Len(key) \in Nat
      BY <2>1, <2>3
    <3>2. /\ Drop(Drop(p, k), Len(key)) = Drop(p, k + Len(key))
          /\ Drop(Drop(q, k), Len(key)) = Drop(q, k + Len(key))
      BY <1>3, <1>4, <2>1, <2>3
    <3>3. QED
      BY <1>3, <1>4, <3>1, <3>2
  <2> HIDE DEF data, k
  <2>8. Onward(data, Drop(p, k)) => Onward(data, Drop(q, k))
    BY <2>4, <2>6, <2>7 DEF Onward, key
  <2>9. Onward(data, Drop(p, k)) => Next(data, Drop(p, k)) = Next(data, Drop(q, k))
    BY <2>3, <2>5 DEF Onward, Next
  <2>10. EndsWith(data, Drop(p, k), v) => EndsWith(data, Drop(q, k), v)
    BY <2>4, <2>6, <2>7 DEF EndsWith, key
  <2>11. QED
    BY <2>8, <2>9, <2>10 DEF data, k
<1>6. /\ N >= 1 /\ N \in 1..N
      /\ \A i \in 1..(N - 1) : LeadsOn(root, proof, p, i)
      /\ Fits(root, proof, p, N)
      /\ EndsWith(proof[N], Drop(p, w[N - 1]), v)
  BY <1>1 DEF Arrives, Left
<1>7. ASSUME NEW i \in 1..N PROVE Fits(root, proof, q, i)
  <2>1. Fits(root, proof, p, i)
    BY <1>1, <1>6 DEF LeadsOn
  <2>2. Wants(root, proof, p, i - 1) = Wants(root, proof, q, i - 1)
    <3>1. CASE i = 1
      BY <3>1 DEF Wants
    <3>2. CASE i # 1
      <4>1. i - 1 \in 1..(N - 1) /\ i - 1 \in 1..N /\ i - 1 # 0
        BY <1>1, <3>2
      <4>2. Onward(proof[i - 1], Drop(p, w[(i - 1) - 1]))
        BY <1>6, <4>1 DEF LeadsOn, Left
      <4>3. Next(proof[i - 1], Drop(p, w[(i - 1) - 1])) = Next(proof[i - 1], Drop(q, w[(i - 1) - 1]))
        BY <1>5, <4>1, <4>2
      <4>4. QED
        BY <4>1, <4>3 DEF Wants, Left
    <3>3. QED
      BY <3>1, <3>2
  <2>3. QED
    BY <2>1, <2>2 DEF Fits
<1>8. \A i \in 1..(N - 1) : LeadsOn(root, proof, q, i)
  <2>1. \A i \in 1..(N - 1) : i \in 1..N
    BY <1>1
  <2>2. \A i \in 1..(N - 1) : Onward(proof[i], Drop(q, w[i - 1]))
    BY <1>5, <1>6, <2>1 DEF LeadsOn, Left
  <2>3. QED
    BY <1>7, <2>1, <2>2 DEF LeadsOn, Left
<1>9. EndsWith(proof[N], Drop(q, w[N - 1]), v)
  BY <1>5, <1>6
<1>10. QED
  BY <1>6, <1>7, <1>8, <1>9 DEF Arrives, Left

(* Every place of a path that arrives is passed by one of the nodes.          *)
LEMMA WhereItIsPassed ==
  ASSUME NEW proof, IsProof(proof), NEW k \in Nat, k >= 1, k <= Passed(proof)[Len(proof)]
  PROVE  \E i \in 1..Len(proof) : Passed(proof)[i - 1] < k /\ k <= Passed(proof)[i]
<1> DEFINE N == Len(proof)
           w == Passed(proof)
           T == {i \in 0..N : k <= w[i]}
<1>1. N \in Nat /\ w[0] = 0 /\ \A i \in 0..N : w[i] \in Nat
  BY PassedSums
<1>2. PICK i \in T : \A j \in T : i <= j
  <2>1. N \in T /\ T \in SUBSET Nat
    BY <1>1
  <2> HIDE DEF T
  <2>2. QED
    BY <2>1, LeastNatural
<1>3. i \in 0..N /\ k <= w[i]
  BY <1>2
<1>4. i # 0
  BY <1>1, <1>3
<1>5. i \in 1..N /\ i - 1 \in 0..N /\ ~(i <= i - 1)
  BY <1>1, <1>3, <1>4
<1>6. ~(k <= w[i - 1])
  BY <1>2, <1>5
<1>7. w[i - 1] < k
  BY <1>1, <1>5, <1>6
<1>8. QED
  BY <1>3, <1>5, <1>7

(* Two paths of bytes that both arrive differ only where keys end.            *)
LEMMA BothArrive ==
  ASSUME NEW root, NEW proof, IsProof(proof), ToldApart(proof), NEW v,
         NEW p \in Seq(0..15), NEW q \in Seq(0..15),
         NEW a \in Nat, Len(p) = 2 * a, NEW b \in Nat, Len(q) = 2 * b,
         Arrives(root, proof, p, v), Arrives(root, proof, q, v)
  PROVE  AlikeBut(p, q, KeyEnds(proof))
<1> DEFINE N == Len(proof)
           w == Passed(proof)
           n == Len(p)
<1>1. /\ N \in Nat
      /\ \A i \in 1..N : w[i] = w[i - 1] + Width(proof[i])
      /\ \A i \in 0..N : w[i] \in Nat
  BY PassedSums
<1>2. N >= 1 /\ N \in 1..N /\ N \in 0..N /\ N - 1 \in 0..N /\ n \in Nat /\ Len(q) \in Nat
  BY <1>1, LenProperties DEF Arrives
<1>3. /\ IsBranch(proof[N]) => n = w[N - 1] /\ Len(q) = w[N - 1]
      /\ IsPair(proof[N]) => n \in {w[N], w[N] - 1} /\ Len(q) \in {w[N], w[N] - 1}
      /\ IsBranch(proof[N]) \/ IsPair(proof[N])
  BY WayLength
<1>4. Len(q) = n
  <2>1. CASE IsBranch(proof[N])
    BY <1>3, <2>1
  <2>2. CASE IsPair(proof[N])
    <3>1. n = 2 * a /\ Len(q) = 2 * b /\ w[N] \in Nat
      BY <1>1, <1>2
    <3>2. n \in {w[N], w[N] - 1} /\ Len(q) \in {w[N], w[N] - 1}
      BY <1>3, <2>2
    <3> HIDE DEF n, N, w
    <3>3. QED
      BY <3>1, <3>2
  <2>3. QED
    BY <1>3, <2>1, <2>2
<1>5. /\ \A i \in 1..(N - 1) : LeadsOn(root, proof, p, i) /\ LeadsOn(root, proof, q, i)
      /\ Fits(root, proof, p, N) /\ Fits(root, proof, q, N)
      /\ EndsWith(proof[N], Drop(p, w[N - 1]), v) /\ EndsWith(proof[N], Drop(q, w[N - 1]), v)
  BY DEF Arrives, Left
<1>6. ASSUME NEW k \in 1..n, k \notin KeyEnds(proof) PROVE p[k] = q[k]
  <2>1. k \in Nat /\ k >= 1 /\ k <= n
    BY <1>2
  <2>2. k <= w[N]
    <3>1. CASE IsBranch(proof[N])
      <4>1. w[N] = w[N - 1] + Width(proof[N]) /\ Width(proof[N]) = 1 /\ w[N - 1] \in Nat
        <5>1. Width(proof[N]) = 1
          <6>1. IsPair(proof[N]) => proof[N][1].b \in Seq(0..255)
            BY <1>2 DEF IsProof, IsPair
          <6>2. QED
            BY <3>1, <6>1, NodeOf
        <5>2. QED
          BY <1>1, <1>2, <5>1
      <4>2. n = w[N - 1]
        BY <1>3, <3>1
      <4> HIDE DEF n, N, w
      <4>3. QED
        BY <2>1, <4>1, <4>2
    <3>2. CASE IsPair(proof[N])
      <4>1. n \in {w[N], w[N] - 1} /\ w[N] \in Nat
        BY <1>1, <1>2, <1>3, <3>2
      <4> HIDE DEF n, N, w
      <4>2. QED
        BY <2>1, <4>1
    <3>3. QED
      BY <1>3, <3>1, <3>2
  <2>3. PICK i \in 1..N : w[i - 1] < k /\ k <= w[i]
    BY <2>1, <2>2, WhereItIsPassed
  <2> DEFINE data == proof[i]
             key == KeyOf(data)
             d == w[i - 1]
  <2>4. d \in Nat /\ w[i] \in Nat /\ w[i] = d + Width(data) /\ d < k /\ k <= w[i]
    BY <1>1, <2>3
  <2>5. IsPair(data) => data[1].b \in Seq(0..255)
    BY DEF IsProof, IsPair
  <2>6. /\ IsBranch(data) => Width(data) = 1
        /\ IsPair(data) => Width(data) = Len(key) /\ ~IsBranch(data)
        /\ key \in Seq(0..15) /\ Len(key) \in Nat
        /\ key # << >> => IsPair(data)
    BY <2>5, NodeOf, LenProperties
  <2>7. \/ i # N /\ i \in 1..(N - 1) /\ Onward(data, Drop(p, d)) /\ Onward(data, Drop(q, d))
        \/ i = N /\ EndsWith(data, Drop(p, d), v) /\ EndsWith(data, Drop(q, d), v)
    <3>1. i = N \/ i \in 1..(N - 1)
      BY <1>1
    <3>2. QED
      BY <1>1, <1>5, <3>1 DEF LeadsOn, Left
  <2>8. CASE IsPair(data)
    <3>1. Matches(data, Drop(p, d)) /\ Matches(data, Drop(q, d))
      BY <2>6, <2>7, <2>8 DEF Onward, EndsWith
    <3>2. \A m \in 1..(Len(key) - 1) : key[m] = p[d + m] /\ key[m] = q[d + m]
      <4> HIDE DEF data, d
      <4>1. QED
        BY <2>4, <2>5, <3>1, MatchesAt
    <3>3. k # w[i]
      <4>1. DOMAIN proof = 1..N
        BY LenProperties DEF IsProof
      <4>2. Len(key) # 0
        BY <2>4, <2>6, <2>8
      <4>3. key # << >>
        BY <4>2
      <4>4. w[i] \in KeyEnds(proof)
        BY <4>1, <4>3 DEF KeyEnds, KeyOf
      <4>5. QED
        BY <1>6, <4>4
    <3>4. k - d \in 1..(Len(key) - 1) /\ d + (k - d) = k
      <4>1. w[i] = d + Len(key) /\ Len(key) \in Nat
        BY <2>4, <2>6, <2>8
      <4>2. PICK e \in Nat, l \in Nat, t \in Nat : e = d /\ l = Len(key) /\ t = k
        BY <2>1, <2>4, <4>1
      <4>3. e < t /\ t < e + l
        BY <2>4, <3>3, <4>1, <4>2
      <4>4. t - e \in 1..(l - 1) /\ e + (t - e) = t
        BY <4>3
      <4>5. QED
        BY <4>2, <4>4
    <3>5. QED
      BY <3>2, <3>4
  <2>9. CASE IsBranch(data)
    <3>1. w[i] = d + 1 /\ k = d + 1
      <4>1. Width(data) = 1
        BY <2>6, <2>9
      <4> HIDE DEF data, d
      <4>2. QED
        BY <2>1, <2>4, <4>1
    <3>2. i # N
      <4>1. SUFFICES ASSUME i = N PROVE FALSE
        OBVIOUS
      <4>2. n = d
        BY <1>3, <2>9, <4>1
      <4>3. QED
        BY <2>1, <2>4, <4>2
    <3>3. i \in 1..(N - 1) /\ i + 1 \in 1..N /\ (i + 1) - 1 = i /\ i # 0
      BY <1>1, <2>7, <3>2
    <3>4. /\ Next(data, Drop(p, d)) = Hash(proof[i + 1])
          /\ Next(data, Drop(q, d)) = Hash(proof[i + 1])
      <4>1. Fits(root, proof, p, i + 1) /\ Fits(root, proof, q, i + 1)
        BY <1>1, <1>5, <3>3 DEF LeadsOn
      <4>2. QED
        BY <3>3, <4>1 DEF Fits, Wants, Left
    <3>5. Drop(p, d)[1] = p[k] /\ Drop(q, d)[1] = q[k]
      <4>1. /\ Len(Drop(p, d)) = IF d < n THEN n - d ELSE 0
            /\ \A j \in 1..Len(Drop(p, d)) : Drop(p, d)[j] = p[d + j]
        <5> HIDE DEF d
        <5>1. QED
          BY <2>4, Dropping
      <4>2. /\ Len(Drop(q, d)) = IF d < Len(q) THEN Len(q) - d ELSE 0
            /\ \A j \in 1..Len(Drop(q, d)) : Drop(q, d)[j] = q[d + j]
        <5> HIDE DEF d
        <5>1. QED
          BY <2>4, Dropping
      <4>3. d < n /\ n - d >= 1 /\ n - d \in Nat
        BY <1>2, <2>1, <2>4
      <4>4. 1 \in 1..Len(Drop(p, d)) /\ 1 \in 1..Len(Drop(q, d))
        BY <1>4, <4>1, <4>2, <4>3
      <4>5. QED
        BY <3>1, <4>1, <4>2, <4>4
    <3>6. data[p[k] + 1] = Hash(proof[i + 1]) /\ data[q[k] + 1] = Hash(proof[i + 1])
      BY <2>9, <3>4, <3>5 DEF Next
    <3>7. PICK x \in 0..15, y \in 0..15 : x = p[k] /\ y = q[k]
      BY <1>4, ElementOfSeq
    <3>8. x + 1 \in 1..16 /\ y + 1 \in 1..16
      OBVIOUS
    <3>9. x + 1 = y + 1
      BY <2>9, <3>3, <3>6, <3>7, <3>8 DEF ToldApart
    <3>10. x = y
      BY <3>9
    <3>11. QED
      BY <3>7, <3>10
  <2>10. QED
    BY <2>7, <2>8, <2>9 DEF Onward, EndsWith
<1>7. DOMAIN p = 1..n
  BY LenProperties
<1>8. QED
  BY <1>4, <1>6, <1>7 DEF AlikeBut
-----------------------------------------------------------------------------
(* verifyMerkleProof accepts a proof that it accepts for one place, with one  *)
(* value, for exactly the places whose paths differ at most in the nibbles    *)
(* where the key of a leaf or an extension ends (verify-merkle-proof.ts:6):   *)
(* these are never told apart, and any others always are.                     *)
PlacesToldApart ==
  \A root, proof, v : \A place, other \in Seq(0..255) :
    /\ IsProof(proof) /\ Hashed(proof) /\ ToldApart(proof) /\ v # Null
    /\ verifyMerkleProof(root, place, proof, v).ok
    => ( verifyMerkleProof(root, other, proof, v).ok
           <=> AlikeBut(stringToNibbles(place), stringToNibbles(other), KeyEnds(proof)) )

THEOREM ProofIsForAlikePlaces == PlacesToldApart
<1>1. SUFFICES ASSUME NEW root, NEW proof, NEW v, NEW place \in Seq(0..255), NEW other \in Seq(0..255),
                      IsProof(proof), Hashed(proof), ToldApart(proof), v # Null,
                      verifyMerkleProof(root, place, proof, v).ok
      PROVE  verifyMerkleProof(root, other, proof, v).ok
               <=> AlikeBut(stringToNibbles(place), stringToNibbles(other), KeyEnds(proof))
  BY DEF PlacesToldApart
<1> DEFINE p == stringToNibbles(place)
           q == stringToNibbles(other)
<1>2. /\ p \in Seq(0..15) /\ Len(p) = 2 * Len(place) /\ Len(place) \in Nat
      /\ q \in Seq(0..15) /\ Len(q) = 2 * Len(other) /\ Len(other) \in Nat
  BY NibblesOf, LenProperties
<1>3. Arrives(root, proof, p, v)
  BY <1>1, AcceptedIff
<1>4. verifyMerkleProof(root, other, proof, v).ok <=> Arrives(root, proof, q, v)
  BY <1>1, AcceptedIff
<1> HIDE DEF p, q
<1>5. ASSUME Arrives(root, proof, q, v) PROVE AlikeBut(p, q, KeyEnds(proof))
  BY <1>1, <1>2, <1>3, <1>5, BothArrive
<1>6. ASSUME AlikeBut(p, q, KeyEnds(proof)) PROVE Arrives(root, proof, q, v)
  BY <1>1, <1>2, <1>3, <1>6, AlikeArrives
<1>7. QED
  BY <1>4, <1>5, <1>6 DEF p, q

(* For a place it accepts a proof with one value only, under the root that is *)
(* the hash of its first node; but if the path ends at a branch with any,     *)
(* since what a branch holds is not compared (verify-merkle-proof.ts).        *)
ValuesToldApart ==
  \A root, proof, v, w : \A place \in Seq(0..255) :
    /\ IsProof(proof) /\ Hashed(proof) /\ v # Null /\ w # Null
    /\ verifyMerkleProof(root, place, proof, v).ok
    => /\ Len(proof) >= 1 /\ root = Hash(proof[1])
       /\ verifyMerkleProof(root, place, proof, w).ok <=> (w = v \/ IsBranch(proof[Len(proof)]))

THEOREM ProofIsForOneValue == ValuesToldApart
<1>1. SUFFICES ASSUME NEW root, NEW proof, NEW v, NEW w, NEW place \in Seq(0..255),
                      IsProof(proof), Hashed(proof), v # Null, w # Null,
                      verifyMerkleProof(root, place, proof, v).ok
      PROVE  /\ Len(proof) >= 1 /\ root = Hash(proof[1])
             /\ verifyMerkleProof(root, place, proof, w).ok <=> (w = v \/ IsBranch(proof[Len(proof)]))
  BY DEF ValuesToldApart
<1> DEFINE p == stringToNibbles(place)
           N == Len(proof)
           end == proof[N]
           rest == Left(proof, p, N - 1)
<1>2. Arrives(root, proof, p, v)
  BY <1>1, AcceptedIff
<1>3. verifyMerkleProof(root, place, proof, w).ok <=> Arrives(root, proof, p, w)
  BY <1>1, AcceptedIff
<1>4. N \in Nat /\ N >= 1
  BY <1>1, <1>2, PassedSums DEF Arrives
<1>5. root = Hash(proof[1])
  <2>1. Fits(root, proof, p, 1)
    <3>1. N = 1 \/ 1 \in 1..(N - 1)
      <4> HIDE DEF N
      <4>1. QED
        BY <1>4
    <3>2. QED
      BY <1>2, <3>1 DEF Arrives, LeadsOn
  <2>2. QED
    BY <2>1 DEF Fits, Wants
<1>6. IsPair(end) => ~IsBranch(end)
  <2>1. N \in 1..N
    BY <1>4
  <2>2. IsPair(end) => end[1].b \in Seq(0..255)
    BY <1>1, <2>1 DEF IsProof, IsPair
  <2> HIDE DEF end
  <2>3. QED
    BY <2>2, NodeOf
<1>7. EndsWith(end, rest, w) <=> (w = v \/ IsBranch(end))
  <2>1. EndsWith(end, rest, v)
    BY <1>2 DEF Arrives
  <2> HIDE DEF end, rest
  <2>2. QED
    BY <1>6, <2>1 DEF EndsWith
<1>8. Arrives(root, proof, p, w) <=> EndsWith(end, rest, w)
  BY <1>2 DEF Arrives
<1>9. QED
  BY <1>3, <1>4, <1>5, <1>7, <1>8
-----------------------------------------------------------------------------
(* Division leaves less than the divisor.                                     *)
LEMMA Division ==
  ASSUME NEW a \in Nat, NEW d \in Nat \ {0}
  PROVE  /\ a \div d \in Nat
         /\ (a \div d) * d <= a
         /\ a < ((a \div d) + 1) * d
OBVIOUS

(* The cut of a buffer into parts that fit a cell (beacon.controller.ts) is   *)
(* the buffer again, part after part: none is empty, all but the last are     *)
(* full, the last holds what is left, and every byte is in its place.         *)
CutIntoParts ==
  \A b \in Seq(0..255) :
    LET parts == Parts(b)
        n == Len(parts)
    IN  /\ parts \in Seq(Seq(0..255))
        /\ b # << >> => n >= 1
        /\ \A i \in 1..n :
             /\ Len(parts[i]) = IF i < n THEN PartLength ELSE Len(b) - ((n - 1) * PartLength)
             /\ Len(parts[i]) \in 1..PartLength
             /\ \A j \in 1..Len(parts[i]) : parts[i][j] = b[((i - 1) * PartLength) + j]

THEOREM PartsLoseNothing == CutIntoParts
<1>1. SUFFICES ASSUME NEW b \in Seq(0..255)
      PROVE  LET parts == Parts(b)
                 n == Len(parts)
             IN  /\ parts \in Seq(Seq(0..255))
                 /\ b # << >> => n >= 1
                 /\ \A i \in 1..n :
                      /\ Len(parts[i]) = IF i < n THEN PartLength ELSE Len(b) - ((n - 1) * PartLength)
                      /\ Len(parts[i]) \in 1..PartLength
                      /\ \A j \in 1..Len(parts[i]) : parts[i][j] = b[((i - 1) * PartLength) + j]
  BY DEF CutIntoParts
<1>2. PICK P \in Nat \ {0} : P = PartLength
  BY PartLengthAssumption
<1>3. PICK L \in Nat : L = Len(b)
  BY LenProperties
<1>4. PICK n \in Nat : n = (L + P - 1) \div P /\ n * P <= L + P - 1 /\ L + P - 1 < (n + 1) * P
  <2>1. L + P - 1 \in Nat
    OBVIOUS
  <2>2. QED
    BY <2>1, Division
<1>5. L <= n * P /\ (n = 0 => L = 0)
  <2>1. (n + 1) * P = (n * P) + P /\ n * P \in Nat
    OBVIOUS
  <2>2. L <= n * P
    BY <1>4, <2>1
  <2>3. QED
    BY <2>2
<1> DEFINE part(i) == FirstOf(Drop(b, (i - 1) * P), P)
<1>6. Parts(b) = [i \in 1..n |-> part(i)]
  BY <1>2, <1>3, <1>4 DEF Parts
<1>7. ASSUME NEW i \in 1..n
      PROVE  /\ part(i) \in Seq(0..255)
             /\ Len(part(i)) = IF i < n THEN P ELSE L - ((n - 1) * P)
             /\ Len(part(i)) \in 1..P
             /\ \A j \in 1..Len(part(i)) : part(i)[j] = b[((i - 1) * P) + j]
  <2>1. PICK k \in Nat : k = (i - 1) * P
    <3>1. i - 1 \in Nat
      OBVIOUS
    <3>2. (i - 1) * P \in Nat
      BY <3>1
    <3>3. QED
      BY <3>2
  <2>2. k < L
    <3>1. (n - 1) * P = (n * P) - P /\ n * P \in Nat
      OBVIOUS
    <3>2. (n - 1) * P < L
      BY <1>4, <3>1
    <3>3. (i - 1) * P <= (n - 1) * P
      OBVIOUS
    <3>4. QED
      BY <2>1, <3>1, <3>2, <3>3
  <2>3. i < n => L - k > P
    <3>1. SUFFICES ASSUME i < n PROVE L - k > P
      OBVIOUS
    <3>2. (n - 1) * P = (n * P) - P /\ n * P \in Nat /\ i * P \in Nat /\ k = (i * P) - P
      BY <2>1
    <3>3. i * P <= (n - 1) * P
      BY <3>1
    <3>4. QED
      BY <1>4, <3>2, <3>3
  <2>4. i = n => L - k <= P /\ L - ((n - 1) * P) = L - k
    <3>1. SUFFICES ASSUME i = n PROVE L - k <= P /\ L - ((n - 1) * P) = L - k
      OBVIOUS
    <3>2. k = (n * P) - P /\ n * P \in Nat
      BY <2>1, <3>1
    <3>3. QED
      BY <1>5, <2>1, <3>1, <3>2
  <2> DEFINE rest == Drop(b, k)
  <2>5. /\ rest \in Seq(0..255) /\ Len(rest) = L - k
        /\ \A j \in 1..(L - k) : rest[j] = b[k + j]
    <3>1. k \in 0..Len(b)
      BY <1>3, <2>2
    <3> HIDE DEF rest
    <3>2. QED
      BY <1>3, <3>1, DropRest DEF rest
  <2>6. part(i) = IF L - k < P THEN rest ELSE SubSeq(rest, 1, P)
    BY <2>1, <2>5 DEF FirstOf
  <2>7. i < n \/ i = n
    OBVIOUS
  <2> HIDE DEF rest, part
  <2>8. CASE L - k < P
    <3>1. i = n /\ part(i) = rest
      BY <2>2, <2>3, <2>6, <2>7, <2>8
    <3>2. Len(rest) = L - ((n - 1) * P) /\ Len(rest) \in 1..P
      BY <2>2, <2>4, <2>5, <2>8, <3>1
    <3>3. \A j \in 1..Len(rest) : rest[j] = b[((i - 1) * P) + j]
      BY <2>1, <2>5
    <3>4. QED
      BY <2>5, <3>1, <3>2, <3>3
  <2>9. CASE ~(L - k < P)
    <3>1. part(i) = SubSeq(rest, 1, P) /\ P <= L - k
      BY <2>6, <2>9
    <3>2. 1 \in 1..(Len(rest) + 1) /\ P \in (1 - 1)..Len(rest)
      BY <2>2, <2>5, <3>1
    <3>3. /\ part(i) \in Seq(0..255) /\ Len(part(i)) = P
          /\ \A j \in 1..P : part(i)[j] = rest[j]
      <4>1. /\ SubSeq(rest, 1, P) \in Seq(0..255)
            /\ Len(SubSeq(rest, 1, P)) = IF 1 <= P THEN P - 1 + 1 ELSE 0
            /\ \A j \in 1..(P - 1 + 1) : SubSeq(rest, 1, P)[j] = rest[1 + j - 1]
        <5>1. 1 \in Int /\ P \in Int
          OBVIOUS
        <5>2. \A m \in 1..P : rest[m] \in 0..255
          <6>1. \A m \in 1..P : m \in 1..Len(rest)
            BY <2>2, <2>5, <3>1
          <6>2. \A m \in 1..Len(rest) : rest[m] \in 0..255
            BY <2>5, ElementOfSeq
          <6>3. QED
            BY <6>1, <6>2
        <5>3. QED
          BY <5>1, <5>2, SubSeqProperties
      <4>2. P - 1 + 1 = P /\ 1 <= P /\ \A j \in 1..P : 1 + j - 1 = j
        OBVIOUS
      <4>3. QED
        BY <3>1, <4>1, <4>2
    <3>4. i < n \/ P = L - ((n - 1) * P)
      BY <2>2, <2>4, <2>7, <3>1
    <3>5. \A j \in 1..P : part(i)[j] = b[((i - 1) * P) + j]
      BY <2>1, <2>2, <2>5, <3>1, <3>3
    <3>6. QED
      BY <3>3, <3>4, <3>5
  <2>10. QED
    BY <2>8, <2>9
<1> HIDE DEF part
<1>8. Parts(b) \in Seq(Seq(0..255)) /\ Len(Parts(b)) = n /\ \A i \in 1..n : Parts(b)[i] = part(i)
  <2>1. Parts(b) \in [1..n -> Seq(0..255)]
    BY <1>6, <1>7
  <2>2. Parts(b) \in Seq(Seq(0..255))
    BY <2>1, SeqDef
  <2>3. Len(Parts(b)) = n
    <3>1. DOMAIN Parts(b) = 1..Len(Parts(b)) /\ Len(Parts(b)) \in Nat /\ DOMAIN Parts(b) = 1..n
      BY <1>6, <2>2, LenProperties
    <3>2. QED
      BY <3>1, SameLength
  <2>4. QED
    BY <1>6, <2>2, <2>3
<1>9. b # << >> => n >= 1
  BY <1>3, <1>5, EmptySeq
<1> DEFINE parts == Parts(b)
<1> HIDE DEF parts
<1>10. ASSUME NEW i \in 1..n
       PROVE  /\ Len(parts[i]) = IF i < n THEN PartLength ELSE Len(b) - ((n - 1) * PartLength)
              /\ Len(parts[i]) \in 1..PartLength
              /\ \A j \in 1..Len(parts[i]) : parts[i][j] = b[((i - 1) * PartLength) + j]
  <2>1. parts[i] = part(i)
    BY <1>8 DEF parts
  <2>2. QED
    BY <1>2, <1>3, <1>7, <2>1
<1>11. parts \in Seq(Seq(0..255)) /\ Len(parts) = n
  BY <1>8 DEF parts
<1>12. QED
  BY <1>9, <1>10, <1>11 DEF parts
===============================================================================
