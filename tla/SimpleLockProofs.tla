-------------------------- MODULE SimpleLockProofs --------------------------
(* Proofs about SimpleLock for any finite set of clients and any bound on  *)
(* stray releases: types, the bound on the number of clients inside, and   *)
(* that a taken lock is held by somebody.                                  *)
EXTENDS SimpleLock, FiniteSetTheorems, TLAPS

(* Adding one element cannot make a finite set larger by more than one.    *)
LEMMA AddOne ==
  ASSUME NEW S, IsFiniteSet(S), NEW x
  PROVE  Cardinality(S \cup {x}) <= Cardinality(S) + 1
<1>1. Cardinality(S) \in Nat
  BY FS_CardinalityType
<1>2. Cardinality(S \cup {x}) = IF x \in S THEN Cardinality(S) ELSE Cardinality(S) + 1
  BY FS_AddElement
<1>3. QED
  BY <1>1, <1>2

(* Swapping one member for another cannot make a finite set larger.        *)
LEMMA SwapOne ==
  ASSUME NEW S, IsFiniteSet(S), NEW c \in S, NEW x
  PROVE  Cardinality((S \ {c}) \cup {x}) <= Cardinality(S)
<1>1. IsFiniteSet(S \ {c}) /\ Cardinality(S \ {c}) = Cardinality(S) - 1
  BY FS_RemoveElement
<1>2. Cardinality((S \ {c}) \cup {x}) <= Cardinality(S \ {c}) + 1
  BY <1>1, AddOne
<1>3. Cardinality(S) \in Nat /\ Cardinality((S \ {c}) \cup {x}) \in Nat
  BY <1>1, FS_CardinalityType, FS_AddElement
<1>4. QED
  BY <1>1, <1>2, <1>3

(* What release() does to the set of holders: the leaving clients go, the  *)
(* woken one comes.                                                        *)
LEMMA HandoverHolders ==
  ASSUME TypeOK, NEW leaving, Handover(leaving)
  PROVE  Holders' = (Holders \ leaving) \cup Woken
<1>1. Woken \subseteq Clients
  BY DEF TypeOK, Woken
<1>2. QED
  BY <1>1 DEF TypeOK, Handover, Holders, Stages

(* The set of holders is finite, so it can be counted. *)
LEMMA HoldersFinite ==
  /\ IsFiniteSet(Holders)
  /\ Cardinality(Holders) \in Nat
BY ClientsFinite, FS_Subset, FS_CardinalityType DEF Holders
-----------------------------------------------------------------------------
(* The fields of the lock and the stages of its clients keep their types.  *)
THEOREM TypeCorrect == Spec => []TypeOK
<1>1. Init => TypeOK
  <2> SUFFICES ASSUME Init PROVE TypeOK
    OBVIOUS
  <2>1a. waiting \in Seq(Clients)
    BY DEF Init
  <2>1b. taken \in BOOLEAN
    BY DEF Init
  <2>2. pc \in [Clients -> Stages]
    BY DEF Init, Stages
  <2>3. strays \in 0..MaxStrays
    BY StraysNat DEF Init
  <2>4. QED
    BY <2>1a, <2>1b, <2>2, <2>3 DEF TypeOK
<1>2. TypeOK /\ [Next]_vars => TypeOK'
  <2> SUFFICES ASSUME TypeOK, [Next]_vars PROVE TypeOK'
    OBVIOUS
  <2> USE DEF TypeOK, Stages
  <2>1. ASSUME NEW c \in Clients, Acquire(c) PROVE TypeOK'
    BY <2>1 DEF Acquire, acquire
  <2>2. ASSUME NEW c \in Clients, Resume(c) PROVE TypeOK'
    BY <2>2 DEF Resume
  <2>3. ASSUME NEW c \in Clients, Release(c) PROVE TypeOK'
    <3>1a. waiting' \in Seq(Clients)
      BY <2>3 DEF Release, release
    <3>1b. taken' \in BOOLEAN
      BY <2>3 DEF Release, release
    <3>2. pc' \in [Clients -> Stages]
      BY <2>3 DEF Release, Handover
    <3>3. QED
      BY <2>3, <3>1a, <3>1b, <3>2 DEF Release
  <2>4. ASSUME NEW c \in Clients, StrayRelease(c) PROVE TypeOK'
    <3>1a. waiting' \in Seq(Clients)
      BY <2>4 DEF StrayRelease, release
    <3>1b. taken' \in BOOLEAN
      BY <2>4 DEF StrayRelease, release
    <3>2. pc' \in [Clients -> Stages]
      BY <2>4 DEF StrayRelease, Handover
    <3>3. strays' \in 0..MaxStrays
      BY <2>4, StraysNat DEF StrayRelease
    <3>4. QED
      BY <3>1a, <3>1b, <3>2, <3>3
  <2>5. CASE createLock
    <3>1. waiting' \in Seq(Clients)
      BY <2>5 DEF createLock
    <3>2. taken' \in BOOLEAN /\ pc' \in [Clients -> Stages]
      BY <2>5 DEF createLock
    <3>3. strays' \in 0..MaxStrays
      BY <2>5, StraysNat DEF createLock
    <3>4. QED
      BY <3>1, <3>2, <3>3
  <2>6. CASE UNCHANGED vars
    BY <2>6 DEF vars
  <2>7. QED
    BY <2>1, <2>2, <2>3, <2>4, <2>5, <2>6 DEF Next
<1>3. QED
  BY <1>1, <1>2, PTL DEF Spec
-----------------------------------------------------------------------------
(* The number of clients inside never exceeds one plus the stray releases. *)
(* Inductive with the types: each release lets out at least as many as it  *)
(* lets in, except a stray, which pays with `strays'.                      *)
THEOREM BoundedHolders == Spec => []HoldersBound
<1>1. Init => HoldersBound
  <2> SUFFICES ASSUME Init PROVE HoldersBound
    OBVIOUS
  <2>1. Holders = {}
    BY DEF Init, Holders
  <2>2. QED
    BY <2>1, FS_EmptySet DEF Init, HoldersBound
<1>2. TypeOK /\ TypeOK' /\ HoldersBound /\ [Next]_vars => HoldersBound'
  <2> SUFFICES ASSUME TypeOK, TypeOK', HoldersBound, [Next]_vars
               PROVE  HoldersBound'
    OBVIOUS
  <2> USE DEF HoldersBound
  <2>0. /\ IsFiniteSet(Holders) /\ Cardinality(Holders) \in Nat
        /\ taken \in BOOLEAN /\ taken' \in BOOLEAN
        /\ strays \in Nat /\ strays' \in Nat
    BY HoldersFinite, StraysNat DEF TypeOK
  <2>1. ASSUME NEW c \in Clients, Acquire(c) PROVE HoldersBound'
    <3>1. CASE taken
      <4>1. Holders' = Holders
        BY <2>1, <3>1 DEF Acquire, Holders, TypeOK
      <4>2. QED
        BY <2>0, <2>1, <3>1, <4>1 DEF Acquire, acquire
    <3>2. CASE ~taken
      <4>1. Holders' = Holders \cup {c}
        BY <2>1, <3>2 DEF Acquire, Holders, TypeOK
      <4>2. Cardinality(Holders') <= Cardinality(Holders) + 1
        BY <2>0, <4>1, AddOne
      <4>3. Cardinality(Holders') \in Nat
        BY <2>0, <4>1, FS_AddElement, FS_CardinalityType
      <4>4. QED
        BY <2>0, <2>1, <3>2, <4>2, <4>3 DEF Acquire, acquire
    <3>3. QED
      BY <3>1, <3>2
  <2>2. ASSUME NEW c \in Clients, Resume(c) PROVE HoldersBound'
    <3>1. Holders' = Holders
      BY <2>2 DEF Resume, Holders, TypeOK
    <3>2. QED
      BY <2>2, <3>1 DEF Resume
  <2>3. ASSUME NEW c \in Clients, Release(c) PROVE HoldersBound'
    <3>1. c \in Holders /\ Holders' = (Holders \ {c}) \cup Woken
      BY <2>3, HandoverHolders DEF Release, Holders
    <3>2. /\ Cardinality(Holders \ {c}) = Cardinality(Holders) - 1
          /\ strays' = strays
      BY <2>0, <2>3, <3>1, FS_RemoveElement DEF Release
    <3>3. CASE taken /\ waiting # <<>>
      <4>1. Holders' = (Holders \ {c}) \cup {Head(waiting)}
        BY <3>1, <3>3 DEF Woken
      <4>2. Cardinality(Holders') <= Cardinality(Holders)
        BY <2>0, <3>1, <4>1, SwapOne
      <4>3. Cardinality(Holders') \in Nat
        BY <2>0, <4>1, FS_RemoveElement, FS_AddElement, FS_CardinalityType
      <4>4. taken'
        BY <2>3, <3>3 DEF Release, release
      <4>5. QED
        BY <2>0, <3>2, <3>3, <4>2, <4>3, <4>4
    <3>4. CASE ~(taken /\ waiting # <<>>)
      <4>1. Holders' = Holders \ {c}
        BY <3>1, <3>4 DEF Woken
      <4>2. ~taken'
        BY <2>3, <3>4 DEF Release, release
      <4>3. QED
        BY <2>0, <3>2, <4>1, <4>2
    <3>5. QED
      BY <3>3, <3>4
  <2>4. ASSUME NEW c \in Clients, StrayRelease(c) PROVE HoldersBound'
    <3>1. Holders' = Holders \cup Woken
      BY <2>4, HandoverHolders DEF StrayRelease
    <3>2. CASE taken /\ waiting # <<>>
      <4>1. Holders' = Holders \cup {Head(waiting)}
        BY <3>1, <3>2 DEF Woken
      <4>2. Cardinality(Holders') <= Cardinality(Holders) + 1
        BY <2>0, <4>1, AddOne
      <4>3. Cardinality(Holders') \in Nat
        BY <2>0, <4>1, FS_AddElement, FS_CardinalityType
      <4>4. taken' /\ strays' = strays + 1
        BY <2>4, <3>2 DEF StrayRelease, release
      <4>5. QED
        BY <2>0, <3>2, <4>2, <4>3, <4>4
    <3>3. CASE ~(taken /\ waiting # <<>>)
      <4>1. Holders' = Holders
        BY <3>1, <3>3 DEF Woken
      <4>2. ~taken' /\ strays' = IF taken THEN strays + 1 ELSE strays
        BY <2>4, <3>3 DEF StrayRelease, release
      <4>3. QED
        BY <2>0, <4>1, <4>2
    <3>4. QED
      BY <3>2, <3>3
  <2>5. CASE createLock
    <3>1. Holders' = {} /\ strays' = 0 /\ ~taken'
      BY <2>5 DEF createLock, Holders
    <3>2. QED
      BY <3>1, FS_EmptySet
  <2>6. CASE UNCHANGED vars
    BY <2>6 DEF vars, Holders
  <2>7. QED
    BY <2>1, <2>2, <2>3, <2>4, <2>5, <2>6 DEF Next
<1>3. QED
  BY <1>1, <1>2, TypeCorrect, PTL DEF Spec

(* With disciplined callers the lock is a lock: never two clients inside.  *)
THEOREM MutualExclusion ==
  ASSUME MaxStrays = 0
  PROVE  Spec => [](\A c, d \in Holders : c = d)
<1>1. TypeOK /\ HoldersBound => \A c, d \in Holders : c = d
  <2> SUFFICES ASSUME TypeOK, HoldersBound, NEW c \in Holders, NEW d \in Holders
               PROVE  c = d
    OBVIOUS
  <2>1. strays = 0 /\ taken \in BOOLEAN
    BY DEF TypeOK
  <2>2. Cardinality(Holders) <= 1
    BY <2>1, HoldersFinite DEF HoldersBound
  <2>3. Cardinality(Holders) = 0 \/ Cardinality(Holders) = 1
    BY <2>2, HoldersFinite
  <2>4. Holders = {} \/ \E x : Holders = {x}
    BY <2>3, HoldersFinite, FS_EmptySet, FS_Singleton
  <2>5. QED
    BY <2>4
<1>2. QED
  BY <1>1, TypeCorrect, BoundedHolders, PTL

(* A taken lock is held: whoever waits waits for a client that will call   *)
(* release(), even after stray releases.                                   *)
THEOREM NoLostWakeup == Spec => []TakenIsHeld
<1>1. Init => TakenIsHeld
  BY DEF Init, TakenIsHeld
<1>2. TypeOK /\ TakenIsHeld /\ [Next]_vars => TakenIsHeld'
  <2> SUFFICES ASSUME TypeOK, TakenIsHeld, [Next]_vars PROVE TakenIsHeld'
    OBVIOUS
  <2> USE DEF TakenIsHeld
  <2>1. ASSUME NEW c \in Clients, Acquire(c) PROVE TakenIsHeld'
    <3>1. CASE taken
      <4>1. PICK d \in Holders : TRUE
        BY <3>1
      <4>2. d \in Holders'
        BY <2>1, <4>1 DEF Acquire, Holders, TypeOK
      <4>3. QED
        BY <4>2
    <3>2. CASE ~taken
      <4>1. c \in Holders'
        BY <2>1, <3>2 DEF Acquire, Holders, TypeOK
      <4>2. QED
        BY <4>1
    <3>3. QED
      BY <3>1, <3>2
  <2>2. ASSUME NEW c \in Clients, Resume(c) PROVE TakenIsHeld'
    <3>1. Holders' = Holders /\ taken' = taken
      BY <2>2 DEF Resume, Holders, TypeOK
    <3>2. QED
      BY <3>1
  <2>3. ASSUME NEW leaving, release, Handover(leaving) PROVE TakenIsHeld'
    <3>1. taken' => Woken # {}
      BY <2>3 DEF release, Woken
    <3>2. QED
      BY <2>3, <3>1, HandoverHolders
  <2>4. ASSUME NEW c \in Clients, Release(c) \/ StrayRelease(c) PROVE TakenIsHeld'
    BY <2>3, <2>4 DEF Release, StrayRelease
  <2>5. CASE createLock
    BY <2>5 DEF createLock
  <2>6. CASE UNCHANGED vars
    BY <2>6 DEF vars, Holders
  <2>7. QED
    BY <2>1, <2>2, <2>4, <2>5, <2>6 DEF Next
<1>3. QED
  BY <1>1, <1>2, TypeCorrect, PTL DEF Spec
-----------------------------------------------------------------------------
(* What a hand-over does to the queue: the first waiter leaves it, and he is *)
(* nowhere else in it.                                                       *)
LEMMA HandoverQueue ==
  ASSUME TypeOK, QueueExact, NEW leaving \in SUBSET Clients, release, Handover(leaving),
         \A c \in leaving : pc[c] # "waiting"
  PROVE  QueueExact'
<1>0. waiting \in Seq(Clients) /\ pc \in [Clients -> Stages]
  BY DEF TypeOK
<1>1. CASE taken /\ waiting # <<>>
  <2>1. waiting' = Tail(waiting) /\ taken' = taken
    BY <1>1 DEF release
  <2>2. /\ Len(waiting) \in Nat \ {0} /\ Len(waiting') = Len(waiting) - 1
        /\ waiting' \in Seq(Clients)
        /\ \A i \in 1..Len(waiting') : waiting'[i] = waiting[i + 1]
        /\ Head(waiting) = waiting[1]
    BY <1>0, <1>1, <2>1
  <2>3. DOMAIN waiting = 1..Len(waiting) /\ DOMAIN waiting' = 1..Len(waiting')
    BY <1>0, <2>2
  <2>4. \A c \in Clients : pc'[c] = IF c = waiting[1] THEN "granted"
                                     ELSE IF c \in leaving THEN "out" ELSE pc[c]
    BY <1>1, <2>2 DEF Handover, Woken
  <2>5. \A c \in Clients : pc'[c] = "waiting" <=> pc[c] = "waiting" /\ c # waiting[1]
    BY <2>4
  <2>6. \A c \in Clients : (\E i \in DOMAIN waiting' : waiting'[i] = c)
                             <=> (\E i \in DOMAIN waiting : waiting[i] = c) /\ c # waiting[1]
    <3>1. ASSUME NEW c \in Clients, NEW i \in DOMAIN waiting', waiting'[i] = c
          PROVE  (\E j \in DOMAIN waiting : waiting[j] = c) /\ c # waiting[1]
      <4>1. i + 1 \in DOMAIN waiting /\ 1 \in DOMAIN waiting /\ i + 1 # 1
        BY <2>2, <2>3
      <4>2. waiting[i + 1] = c
        BY <2>2, <2>3, <3>1
      <4>3. waiting[i + 1] # waiting[1]
        BY <4>1 DEF QueueExact
      <4>4. QED
        BY <4>1, <4>2, <4>3
    <3>2. ASSUME NEW c \in Clients, NEW j \in DOMAIN waiting, waiting[j] = c, c # waiting[1]
          PROVE  \E i \in DOMAIN waiting' : waiting'[i] = c
      <4>1. j # 1 /\ j - 1 \in DOMAIN waiting' /\ (j - 1) + 1 = j
        BY <2>2, <2>3, <3>2
      <4>2. waiting'[j - 1] = c
        BY <2>2, <2>3, <3>2, <4>1
      <4>3. QED
        BY <4>1, <4>2
    <3>3. QED
      BY <3>1, <3>2
  <2>7. \A i, j \in DOMAIN waiting' : waiting'[i] = waiting'[j] => i = j
    <3> SUFFICES ASSUME NEW i \in DOMAIN waiting', NEW j \in DOMAIN waiting',
                        waiting'[i] = waiting'[j]
                 PROVE  i = j
      OBVIOUS
    <3>1. i + 1 \in DOMAIN waiting /\ j + 1 \in DOMAIN waiting /\ i \in Nat /\ j \in Nat
      BY <2>2, <2>3
    <3>2. waiting[i + 1] = waiting[j + 1]
      BY <2>2, <2>3
    <3>3. i + 1 = j + 1
      BY <3>1, <3>2 DEF QueueExact
    <3>4. QED
      BY <3>1, <3>3
  <2>8. taken'
    BY <1>1, <2>1
  <2>9. \A c \in Clients : pc'[c] = "waiting" <=> \E i \in DOMAIN waiting' : waiting'[i] = c
    BY <2>5, <2>6 DEF QueueExact
  <2>10. QED
    BY <2>7, <2>8, <2>9 DEF QueueExact
<1>2. CASE ~(taken /\ waiting # <<>>)
  <2>1. waiting = <<>>
    BY <1>2 DEF QueueExact
  <2>2. waiting' = waiting /\ taken' = FALSE
    BY <1>2 DEF release
  <2>3. \A c \in Clients : pc'[c] = "waiting" <=> pc[c] = "waiting"
    BY <1>2 DEF Handover, Woken
  <2>4. QED
    BY <2>1, <2>2, <2>3 DEF QueueExact
<1>3. QED
  BY <1>1, <1>2

(* The queue holds exactly the clients that wait, each once, behind a taken *)
(* lock: a resolve function is neither lost nor called twice.               *)
THEOREM ExactQueue == Spec => []QueueExact
<1>1. Init => QueueExact
  BY DEF Init, QueueExact
<1>2. TypeOK /\ QueueExact /\ [Next]_vars => QueueExact'
  <2> SUFFICES ASSUME TypeOK, QueueExact, [Next]_vars PROVE QueueExact'
    OBVIOUS
  <2>0. waiting \in Seq(Clients) /\ pc \in [Clients -> Stages]
    BY DEF TypeOK
  <2>1. ASSUME NEW c \in Clients, Acquire(c) PROVE QueueExact'
    <3>1. /\ pc[c] = "out" /\ taken'
          /\ pc' = [pc EXCEPT ![c] = IF taken THEN "waiting" ELSE "granted"]
          /\ waiting' = IF taken THEN Append(waiting, c) ELSE waiting
      BY <2>1 DEF Acquire, acquire
    <3>2. CASE taken
      <4>1. /\ waiting' = Append(waiting, c) /\ Len(waiting) \in Nat
            /\ DOMAIN waiting = 1..Len(waiting)
            /\ DOMAIN waiting' = 1..(Len(waiting) + 1)
            /\ \A i \in 1..Len(waiting) : waiting'[i] = waiting[i]
            /\ waiting'[Len(waiting) + 1] = c
        BY <2>0, <3>1, <3>2
      <4>2. \A i \in DOMAIN waiting : waiting[i] # c
        BY <3>1 DEF QueueExact
      <4>3. \A d \in Clients : pc'[d] = "waiting" <=> pc[d] = "waiting" \/ d = c
        BY <2>0, <3>1, <3>2
      <4>4. \A d \in Clients : (\E i \in DOMAIN waiting' : waiting'[i] = d)
                                <=> (\E i \in DOMAIN waiting : waiting[i] = d) \/ d = c
        BY <4>1
      <4>5. \A i, j \in DOMAIN waiting' : waiting'[i] = waiting'[j] => i = j
        BY <4>1, <4>2 DEF QueueExact
      <4>6. QED
        BY <3>1, <4>3, <4>4, <4>5 DEF QueueExact
    <3>3. CASE ~taken
      <4>1. waiting' = waiting
        BY <3>1, <3>3
      <4>2. \A d \in Clients : pc'[d] = "waiting" <=> pc[d] = "waiting"
        BY <2>0, <3>1, <3>3
      <4>3. QED
        BY <3>1, <4>1, <4>2 DEF QueueExact
    <3>4. QED
      BY <3>2, <3>3
  <2>2. ASSUME NEW c \in Clients, Resume(c) PROVE QueueExact'
    <3>1. \A d \in Clients : pc'[d] = "waiting" <=> pc[d] = "waiting"
      BY <2>0, <2>2 DEF Resume
    <3>2. waiting' = waiting /\ taken' = taken
      BY <2>2 DEF Resume
    <3>3. QED
      BY <3>1, <3>2 DEF QueueExact
  <2>3. ASSUME NEW c \in Clients, Release(c) PROVE QueueExact'
    BY <2>3, HandoverQueue DEF Release
  <2>4. ASSUME NEW c \in Clients, StrayRelease(c) PROVE QueueExact'
    BY <2>4, HandoverQueue DEF StrayRelease
  <2>5. CASE createLock
    BY <2>5 DEF createLock, QueueExact
  <2>6. CASE UNCHANGED vars
    BY <2>6 DEF vars, QueueExact
  <2>7. QED
    BY <2>1, <2>2, <2>3, <2>4, <2>5, <2>6 DEF Next
<1>3. QED
  BY <1>1, <1>2, TypeCorrect, PTL DEF Spec
-----------------------------------------------------------------------------
(* Refinement of FifoMutex, as long as there is no stray release.            *)

\* One holder at most, and one exactly when the lock is taken.
OneHolder ==
  /\ taken => \E h \in Holders : Holders = {h}
  /\ ~taken => Holders = {}

Disciplined == strays = 0 => OneHolder

LEMMA DisciplinedHolders ==
  ASSUME strays = 0, TypeOK, HoldersBound, TakenIsHeld
  PROVE  OneHolder
<1>1. strays = 0 /\ taken \in BOOLEAN
  BY DEF TypeOK
<1>2. /\ IsFiniteSet(Holders) /\ Cardinality(Holders) \in Nat
      /\ taken => Cardinality(Holders) <= 1
      /\ ~taken => Cardinality(Holders) <= 0
  BY <1>1, HoldersFinite DEF HoldersBound
<1>3. ~taken => Holders = {}
  BY <1>2, FS_EmptySet
<1>4. taken => Cardinality(Holders) = 0 \/ Cardinality(Holders) = 1
  BY <1>2
<1>5. taken => Holders = {} \/ \E h : Holders = {h}
  BY <1>2, <1>4, FS_EmptySet, FS_Singleton
<1>6. QED
  BY <1>3, <1>5 DEF OneHolder, TakenIsHeld

(* What the abstract queue is when there is a holder. *)
LEMMA ServedBy ==
  ASSUME NEW h, Holders = {h}
  PROVE  served = <<h>> \o waiting
BY DEF served

\* The mutex that the lock is while nobody has released what was another's.
Queue == INSTANCE FifoMutex WITH
  queue <- served,
  busy <- \E c \in Clients : pc[c] = "inside"

(* Every step of disciplined callers is one of the FIFO mutex, or changes    *)
(* nothing that it sees.                                                     *)
LEMMA QueueStep ==
  ASSUME strays = 0, strays' = 0, TypeOK, TypeOK', QueueExact, OneHolder, OneHolder', [Next]_vars
  PROVE  [Queue!MutexNext]_(Queue!mutexVars)
<1> DEFINE busy == \E c \in Clients : pc[c] = "inside"
<1>0. /\ waiting \in Seq(Clients) /\ pc \in [Clients -> Stages]
      /\ waiting' \in Seq(Clients) /\ pc' \in [Clients -> Stages]
  BY DEF TypeOK
<1>1. ASSUME NEW c \in Clients, Acquire(c) PROVE Queue!Request(c)
  <2>0. /\ pc[c] = "out" /\ taken'
        /\ pc' = [pc EXCEPT ![c] = IF taken THEN "waiting" ELSE "granted"]
        /\ waiting' = IF taken THEN Append(waiting, c) ELSE waiting
    BY <1>1 DEF Acquire, acquire
  <2>1. busy' = busy
    BY <1>0, <2>0 DEF Stages
  <2>2. CASE taken
    <3>1. PICK h \in Holders : Holders = {h}
      BY <2>2 DEF OneHolder
    <3>2. Holders' = {h}
      BY <1>0, <2>0, <2>2, <3>1 DEF Holders
    <3>3. served = <<h>> \o waiting /\ served' = <<h>> \o Append(waiting, c)
      BY <2>0, <2>2, <3>1, <3>2 DEF served
    <3>4. h \in Clients /\ h # c
      BY <2>0, <3>1 DEF Holders
    <3>5. served' = Append(served, c)
      BY <1>0, <3>3, <3>4
    <3>6. ASSUME NEW i \in DOMAIN served PROVE served[i] # c
      <4>1. /\ Len(waiting) \in Nat /\ DOMAIN waiting = 1..Len(waiting)
            /\ DOMAIN served = 1..(Len(waiting) + 1)
            /\ served[1] = h
            /\ \A j \in 2..(Len(waiting) + 1) : served[j] = waiting[j - 1]
        BY <1>0, <3>3, <3>4
      <4>2. CASE i = 1
        BY <3>4, <4>1, <4>2
      <4>3. CASE i # 1
        <5>1. i - 1 \in DOMAIN waiting /\ served[i] = waiting[i - 1]
          BY <4>1, <4>3
        <5>2. QED
          BY <2>0, <5>1 DEF QueueExact
      <4>4. QED
        BY <4>2, <4>3
    <3>7. QED
      BY <2>1, <3>5, <3>6 DEF Queue!Request, Queue!Queued
  <2>3. CASE ~taken
    <3>1. Holders = {} /\ waiting = <<>>
      BY <2>3 DEF OneHolder, QueueExact
    <3>2. Holders' = {c}
      BY <1>0, <2>0, <2>3, <3>1 DEF Holders
    <3>3. served = <<>> /\ served' = <<c>> \o <<>>
      BY <2>0, <2>3, <3>1, <3>2 DEF served
    <3>4. served' = Append(served, c) /\ \A i \in DOMAIN served : served[i] # c
      BY <3>3
    <3>5. QED
      BY <2>1, <3>4 DEF Queue!Request, Queue!Queued
  <2>4. QED
    BY <2>2, <2>3
<1>2. ASSUME NEW c \in Clients, Resume(c) PROVE Queue!Enter
  <2>1. /\ pc[c] = "granted" /\ pc' = [pc EXCEPT ![c] = "inside"]
        /\ waiting' = waiting
    BY <1>2 DEF Resume
  <2>2. c \in Holders /\ Holders = {c}
    BY <2>1 DEF Holders, OneHolder
  <2>3. Holders' = {c}
    BY <1>0, <2>1, <2>2 DEF Holders
  <2>4. served = <<c>> \o waiting /\ served' = served
    BY <2>1, <2>2, <2>3 DEF served
  <2>5. served # <<>>
    BY <1>0, <2>4
  <2>6. ~busy
    BY <2>1, <2>2 DEF Holders
  <2>7. busy'
    BY <1>0, <2>1
  <2>8. QED
    BY <2>4, <2>5, <2>6, <2>7 DEF Queue!Enter
<1>3. ASSUME NEW c \in Clients, Release(c) PROVE Queue!Leave
  <2>0. pc[c] = "inside" /\ release /\ Handover({c})
    BY <1>3 DEF Release
  <2>1. c \in Holders /\ Holders = {c} /\ taken
    BY <2>0 DEF Holders, OneHolder
  <2>2. Holders' = (Holders \ {c}) \cup Woken
    BY <2>0, HandoverHolders
  <2>3. served = <<c>> \o waiting
    BY <2>1, ServedBy
  <2>4. Tail(served) = waiting
    BY <1>0, <2>3
  <2>5. busy
    BY <2>0
  <2>6. ~busy'
    BY <1>0, <2>0, <2>1 DEF Handover, Holders, Woken
  <2>7. served' = waiting
    <3>1. CASE waiting # <<>>
      <4>1. Holders' = {Head(waiting)} /\ waiting' = Tail(waiting)
        BY <2>0, <2>1, <2>2, <3>1 DEF Woken, release
      <4>2. served' = <<Head(waiting)>> \o Tail(waiting)
        BY <4>1 DEF served
      <4>3. QED
        BY <1>0, <3>1, <4>2
    <3>2. CASE waiting = <<>>
      <4>1. Holders' = {} /\ waiting' = waiting
        BY <2>0, <2>1, <2>2, <3>2 DEF Woken, release
      <4>2. QED
        BY <4>1 DEF served
    <3>3. QED
      BY <3>1, <3>2
  <2>8. QED
    BY <2>4, <2>5, <2>6, <2>7 DEF Queue!Leave
<1>4. ASSUME NEW c \in Clients, StrayRelease(c) PROVE UNCHANGED Queue!mutexVars
  <2>1. ~taken /\ release /\ Handover({})
    BY <1>4 DEF StrayRelease, TypeOK
  <2>2. waiting' = waiting /\ pc' = pc
    BY <1>0, <2>1 DEF release, Handover, Woken
  <2>3. QED
    BY <2>2 DEF Queue!mutexVars, served, Holders
<1>5. CASE createLock
  <2>1. Holders' = {} /\ waiting' = <<>> /\ ~busy'
    BY <1>5 DEF createLock, Holders
  <2>2. Queue!Reset
    BY <2>1 DEF Queue!Reset, served
  <2>3. QED
    BY <2>2 DEF Queue!MutexNext
<1>6. CASE UNCHANGED vars
  BY <1>6 DEF vars, Queue!mutexVars, served, Holders
<1>7. QED
  BY <1>1, <1>2, <1>3, <1>4, <1>5, <1>6 DEF Next, Queue!MutexNext

(* With a stray release the promise ends, and nothing is seen of what follows *)
(* up to the restart.                                                         *)
LEMMA FifoStep ==
  ASSUME TypeOK, TypeOK', QueueExact, Disciplined, Disciplined', [Next]_vars
  PROVE  [Fifo!MutexNext]_(Fifo!mutexVars)
<1>1. CASE strays = 0 /\ strays' = 0
  <2>1. [Queue!MutexNext]_(Queue!mutexVars)
    BY <1>1, QueueStep DEF Disciplined
  <2>2. QED
    BY <1>1, <2>1
      DEF Fifo!MutexNext, Fifo!mutexVars, Fifo!Request, Fifo!Queued, Fifo!Enter, Fifo!Leave,
          Fifo!Reset, Queue!MutexNext, Queue!mutexVars, Queue!Request, Queue!Queued,
          Queue!Enter, Queue!Leave, Queue!Reset
<1>2. CASE strays' # 0
  BY <1>2 DEF Fifo!MutexNext, Fifo!Reset
<1>3. CASE strays # 0 /\ strays' = 0
  <2>1. createLock
    <3>1. strays \in Nat /\ ~UNCHANGED vars
      BY <1>3, StraysNat DEF TypeOK, vars
    <3>2. ASSUME NEW c \in Clients, Acquire(c) \/ Resume(c) \/ Release(c) PROVE FALSE
      BY <1>3, <3>2 DEF Acquire, Resume, Release
    <3>3. ASSUME NEW c \in Clients, StrayRelease(c) PROVE FALSE
      BY <1>3, <3>1, <3>3 DEF StrayRelease
    <3>4. QED
      BY <3>1, <3>2, <3>3 DEF Next
  <2>2. waiting' = <<>> /\ \A c \in Clients : pc'[c] = "out"
    BY <2>1 DEF createLock
  <2>3. served' = <<>> /\ ~\E c \in Clients : pc'[c] = "inside"
    BY <2>2 DEF served, Holders
  <2>4. QED
    BY <1>3, <2>3 DEF Fifo!MutexNext, Fifo!Reset
<1>4. QED
  BY <1>1, <1>2, <1>3

(* Until the first stray release the callers see a FIFO mutex. *)
THEOREM ImplementsFifo == Spec => FifoOrder
<1>1. Init => Fifo!MutexInit
  BY DEF Init, Fifo!MutexInit, served, Holders
<1>2. TypeOK /\ HoldersBound /\ TakenIsHeld => Disciplined
  BY DisciplinedHolders DEF Disciplined
<1>3. TypeOK /\ TypeOK' /\ QueueExact /\ Disciplined /\ Disciplined' /\ [Next]_vars
        => [Fifo!MutexNext]_(Fifo!mutexVars)
  BY FifoStep
<1>4. QED
  BY <1>1, <1>2, <1>3, TypeCorrect, BoundedHolders, NoLostWakeup, ExactQueue, PTL
    DEF Spec, FifoOrder, Fifo!MutexSpec
=============================================================================
