----------------------- MODULE ValidatorServiceProofs -----------------------
(* Proofs about ValidatorService for any finite set of requests, any rows    *)
(* and any bounds: the types, how many state proofs can be in flight, whose  *)
(* the in-progress marks are, what a proof rests on, and that the requests   *)
(* drive validatorLock as the clients of SimpleLock do.                      *)
EXTENDS ValidatorService, FiniteSetTheorems, TLAPS

(* Adding one element cannot make a finite set larger by more than one.    *)
LEMMA AddOne ==
  ASSUME NEW S, IsFiniteSet(S), NEW x
  PROVE  Cardinality(S \cup {x}) <= Cardinality(S) + 1
<1>1. Cardinality(S) \in Nat
  BY FS_CardinalityType
<1>2. Cardinality(S \cup {x}) = IF x \in S THEN Cardinality(S) ELSE Cardinality(S) + 1
  BY FS_AddElement
<1>3. QED
  BY <1>1, <1>2

\* The stages in which a request is between its two updates of the mark.
Working == {"find", "decide", "waiting", "granted", "clear"} \cup Locked

\* Whoever is queued waits, once, and behind a taken lock.
QueueWaits ==
  /\ \A i \in DOMAIN waiting : pc[waiting[i]] = "waiting"
  /\ \A i, j \in DOMAIN waiting : waiting[i] = waiting[j] => i = j
  /\ waiting # <<>> => taken

\* Every stray release is some refused request's.
StraysCounted == strays <= Cardinality(Refused)

\* What TypeOK says of everything but the history variable `strays'.
Typed ==
  /\ checked \in [Blocks -> BOOLEAN]
  /\ inprogress \in [Blocks -> BOOLEAN]
  /\ taken \in BOOLEAN
  /\ waiting \in Seq(Requests)
  /\ pc \in [Requests -> Stages]
  /\ block \in [Requests -> Blocks \cup {None}]
  /\ next \in [Requests -> McBlocks \cup {None}]
  /\ strays \in Nat
  /\ rescanned \in SUBSET Blocks
  /\ crashes \in 0..MaxCrashes

LockInv == Typed /\ QueueWaits /\ StraysCounted

(* The refused requests are some of finitely many, so they can be counted.   *)
LEMMA RefusedFinite ==
  /\ IsFiniteSet(Refused) /\ Cardinality(Refused) \in Nat
  /\ Cardinality(Refused) <= Cardinality(Requests) /\ Cardinality(Requests) \in Nat
BY RequestsFinite, FS_Subset, FS_CardinalityType DEF Refused

(* What is proved inductive includes the types the runs check.               *)
LEMMA LockInvTypes == LockInv => TypeOK
BY RefusedFinite DEF LockInv, Typed, StraysCounted, TypeOK

(* Every stage a step can move a request to is a stage.                      *)
LEMMA StagesClosed ==
  /\ {"new", "mark", "find", "decide", "waiting", "granted", "prove", "store", "unlock",
      "clear", "sync", "done"} = Stages
  /\ Locked = {"prove", "store", "unlock"}
BY DEF Stages, Locked

(* What release() does to the two fields, whoever calls it.                  *)
LEMMA ReleaseEffect ==
  ASSUME Typed, QueueWaits, Lock!release
  PROVE  /\ waiting = <<>> => /\ waiting' = waiting /\ ~taken' /\ Lock!Woken = {}
         /\ waiting # <<>> => /\ waiting' = Tail(waiting) /\ taken /\ taken'
                              /\ Lock!Woken = {Head(waiting)}
                              /\ Head(waiting) \in Requests
                              /\ pc[Head(waiting)] = "waiting"
                              /\ Head(waiting) = waiting[1]
                              /\ 1 \in DOMAIN waiting
         /\ taken' \in BOOLEAN /\ waiting' \in Seq(Requests)
<1>1. waiting \in Seq(Requests) /\ taken \in BOOLEAN
  BY DEF Typed
<1>2. CASE waiting = <<>>
  BY <1>1, <1>2 DEF Lock!release, Lock!Woken
<1>3. CASE waiting # <<>>
  <2>1. taken
    BY <1>3 DEF QueueWaits
  <2>2. waiting' = Tail(waiting) /\ taken' = taken /\ Lock!Woken = {Head(waiting)}
    BY <1>3, <2>1 DEF Lock!release, Lock!Woken
  <2>3. /\ Head(waiting) \in Requests /\ Head(waiting) = waiting[1]
        /\ 1 \in DOMAIN waiting /\ Tail(waiting) \in Seq(Requests)
    BY <1>1, <1>3
  <2>4. QED
    BY <1>1, <1>3, <2>1, <2>2, <2>3 DEF QueueWaits
<1>4. QED
  BY <1>2, <1>3
-----------------------------------------------------------------------------
(* A request that moves on without touching the lock leaves the queue right. *)
LEMMA QueueAfterMove ==
  ASSUME Typed, QueueWaits, NEW r \in Requests, NEW to, pc[r] # "waiting",
         Go(r, to), UNCHANGED lock
  PROVE  QueueWaits'
<1>1. waiting' = waiting /\ taken' = taken /\ waiting \in Seq(Requests)
  BY DEF lock, Typed
<1>2. ASSUME NEW i \in DOMAIN waiting PROVE pc'[waiting[i]] = "waiting"
  <2>1. pc[waiting[i]] = "waiting" /\ waiting[i] \in Requests
    BY <1>1 DEF QueueWaits
  <2>2. QED
    BY <2>1 DEF Go, Typed
<1>3. QED
  BY <1>1, <1>2 DEF QueueWaits

(* After a hand-over the first of the queue is granted, who released is      *)
(* where it goes, and the rest of the queue still waits.                     *)
LEMMA QueueAfterRelease ==
  ASSUME Typed, QueueWaits, NEW r \in Requests, NEW to \in Stages, pc[r] # "waiting",
         Lock!release, HandOn(r, to)
  PROVE  /\ QueueWaits'
         /\ pc' \in [Requests -> Stages]
         /\ pc'[r] = to
         /\ \A q \in Requests : q # r =>
              pc'[q] = pc[q] \/ (q \in Lock!Woken /\ pc[q] = "waiting" /\ pc'[q] = "granted")
<1>1. CASE waiting = <<>>
  <2>1. waiting' = <<>> /\ Lock!Woken = {}
    BY <1>1, ReleaseEffect
  <2>2. \A q \in Requests : pc'[q] = IF q = r THEN to ELSE pc[q]
    BY <2>1 DEF HandOn
  <2>3. pc' \in [Requests -> Stages]
    BY <2>1 DEF HandOn, Typed
  <2>4. QED
    BY <2>1, <2>2, <2>3 DEF QueueWaits
<1>2. CASE waiting # <<>>
  <2> DEFINE h == Head(waiting)
  <2>1. /\ waiting' = Tail(waiting) /\ taken' /\ Lock!Woken = {h} /\ h \in Requests
        /\ pc[h] = "waiting" /\ h = waiting[1] /\ 1 \in DOMAIN waiting
    BY <1>2, ReleaseEffect
  <2> HIDE DEF h
  <2>2. \A q \in Requests : pc'[q] = IF q = h THEN "granted" ELSE IF q = r THEN to ELSE pc[q]
    BY <2>1 DEF HandOn
  <2>3. pc' \in [Requests -> Stages]
    BY <2>1, StagesClosed DEF HandOn, Typed
  <2>4. /\ \A i \in DOMAIN waiting' : /\ i + 1 \in DOMAIN waiting /\ i \in Nat /\ i + 1 # 1
                                     /\ waiting'[i] = waiting[i + 1]
                                     /\ waiting[i + 1] \in Requests
    BY <1>2, <2>1 DEF Typed
  <2>5. ASSUME NEW i \in DOMAIN waiting' PROVE pc'[waiting'[i]] = "waiting"
    <3>1. waiting[i + 1] # h /\ pc[waiting[i + 1]] = "waiting"
      BY <2>1, <2>4 DEF QueueWaits
    <3>2. QED
      BY <2>2, <2>4, <3>1
  <2>6. ASSUME NEW i \in DOMAIN waiting', NEW j \in DOMAIN waiting', waiting'[i] = waiting'[j]
        PROVE  i = j
    <3>1. i + 1 = j + 1
      BY <2>4, <2>6 DEF QueueWaits
    <3>2. QED
      BY <2>4, <3>1
  <2>7. QueueWaits'
    BY <2>1, <2>5, <2>6 DEF QueueWaits
  <2>8. r # h
    BY <2>1
  <2>9. QED
    BY <2>1, <2>2, <2>3, <2>7, <2>8
<1>3. QED
  BY <1>1, <1>2

(* A refused request stays refused as long as requests only move on.         *)
LEMMA RefusedGrows ==
  ASSUME Refused \subseteq Refused'
  PROVE  Cardinality(Refused) <= Cardinality(Refused') /\ Cardinality(Refused') \in Nat
<1>1. IsFiniteSet(Refused')
  BY RequestsFinite, FS_Subset DEF Refused
<1>2. QED
  BY <1>1, FS_Subset, FS_CardinalityType

\* The steps that leave the lock alone.
PlainStep(r) ==
  \/ MarkInProgress(r) \/ FindNext(r) \/ Resume(r) \/ Prove(r) \/ StoreChecked(r)
  \/ ClearProgress(r) \/ SyncVerifying(r) \/ (\E b \in Blocks : Receive(r, b))

(* What those steps do to the requests: one moves, and not into the queue.   *)
LEMMA PlainMove ==
  ASSUME Typed, NEW r \in Requests, PlainStep(r)
  PROVE  /\ \E to \in Stages \ {"waiting"} : Go(r, to)
         /\ pc[r] # "waiting"
         /\ UNCHANGED <<taken, waiting, strays, rescanned, crashes>>
         /\ Refused \subseteq Refused'
<1> USE DEF Typed, Go, rows, lock
<1>1. CASE MarkInProgress(r)
  BY <1>1, StagesClosed DEF MarkInProgress, Refused
<1>2. CASE FindNext(r)
  BY <1>2, StagesClosed DEF FindNext, Refused
<1>3. CASE Resume(r)
  BY <1>3, StagesClosed DEF Resume, Refused
<1>4. CASE Prove(r)
  BY <1>4, StagesClosed DEF Prove, Refused
<1>5. CASE StoreChecked(r)
  BY <1>5, StagesClosed DEF StoreChecked, Refused
<1>6. CASE ClearProgress(r)
  BY <1>6, StagesClosed DEF ClearProgress, Refused
<1>7. CASE SyncVerifying(r)
  BY <1>7, StagesClosed DEF SyncVerifying, Refused
<1>8. CASE \E b \in Blocks : Receive(r, b)
  BY <1>8, StagesClosed DEF Receive, Refused
<1>9. QED
  BY <1>1, <1>2, <1>3, <1>4, <1>5, <1>6, <1>7, <1>8 DEF PlainStep

(* The steps that leave the lock alone keep the types of what they change.   *)
LEMMA PlainTyped ==
  ASSUME Typed, NEW r \in Requests, PlainStep(r)
  PROVE  Typed'
<1>1. pc' \in [Requests -> Stages]
  BY PlainMove DEF Go, Typed
<1>2. UNCHANGED <<taken, waiting, strays, rescanned, crashes>>
  BY PlainMove
<1>3. checked' \in [Blocks -> BOOLEAN] /\ inprogress' \in [Blocks -> BOOLEAN]
  BY DEF PlainStep, Typed, MarkInProgress, FindNext, Resume, Prove, StoreChecked,
         ClearProgress, SyncVerifying, Receive, isBlockVerified, rows
<1>4. block' \in [Requests -> Blocks \cup {None}]
  BY DEF PlainStep, Typed, MarkInProgress, FindNext, Resume, Prove, StoreChecked,
         ClearProgress, SyncVerifying, Receive
<1>5. next' \in [Requests -> McBlocks \cup {None}]
  BY DEF PlainStep, Typed, MarkInProgress, FindNext, LaterChecked, Resume, Prove, StoreChecked,
         ClearProgress, SyncVerifying, Receive
<1>6. QED
  BY <1>1, <1>2, <1>3, <1>4, <1>5 DEF Typed

(* What acquire() of a request that is not queued does to the queue.         *)
LEMMA AcquireStep ==
  ASSUME Typed, QueueWaits, NEW r \in Requests, Acquire(r)
  PROVE  Typed' /\ QueueWaits'
<1>1. /\ pc[r] = "decide" /\ taken'
      /\ waiting' = IF taken THEN Append(waiting, r) ELSE waiting
      /\ pc' = [pc EXCEPT ![r] = IF taken THEN "waiting" ELSE "granted"]
      /\ UNCHANGED <<checked, inprogress, block, next, strays, rescanned, crashes>>
  BY DEF Acquire, Lock!acquire, Go, rows
<1>2. Typed'
  BY <1>1, StagesClosed DEF Typed
<1>3. ASSUME NEW i \in DOMAIN waiting
      PROVE  waiting[i] # r /\ pc'[waiting[i]] = "waiting"
  BY <1>1 DEF Typed, QueueWaits
<1>4. CASE taken
  <2>1. /\ Len(waiting) \in Nat /\ DOMAIN waiting = 1..Len(waiting)
        /\ DOMAIN waiting' = 1..(Len(waiting) + 1)
        /\ \A i \in 1..Len(waiting) : waiting'[i] = waiting[i]
        /\ waiting'[Len(waiting) + 1] = r
    BY <1>1, <1>4 DEF Typed
  <2>2. pc'[r] = "waiting"
    BY <1>1, <1>4 DEF Typed
  <2>3. \A i \in DOMAIN waiting' : pc'[waiting'[i]] = "waiting"
    BY <1>3, <2>1, <2>2
  <2>4. \A i, j \in DOMAIN waiting' : waiting'[i] = waiting'[j] => i = j
    BY <1>3, <2>1 DEF QueueWaits
  <2>5. QED
    BY <1>1, <1>2, <2>3, <2>4 DEF QueueWaits
<1>5. CASE ~taken
  BY <1>1, <1>2, <1>3, <1>5 DEF QueueWaits
<1>6. QED
  BY <1>4, <1>5, <1>1 DEF Typed

\* The steps in which `finally' releases what the request had acquired.
Leave(r) == ProveFails(r) \/ Unlock(r)

(* A release keeps the types and the queue, and forgets no refused request.  *)
LEMMA LeaveStep ==
  ASSUME Typed, QueueWaits, NEW r \in Requests, Leave(r) \/ Refuse(r)
  PROVE  Typed' /\ QueueWaits' /\ Refused \subseteq Refused'
<1>1. /\ pc[r] \in Locked \cup {"decide"} /\ Lock!release /\ HandOn(r, "clear")
      /\ UNCHANGED <<checked, inprogress, block, next, rescanned, crashes>>
      /\ strays' \in {strays, strays + 1}
  BY DEF Leave, ProveFails, Unlock, Refuse, rows, Locked
<1>2. pc[r] # "waiting" /\ pc[r] \notin {"clear", "sync", "done"} /\ "clear" \in Stages
  BY <1>1, StagesClosed
<1>3. /\ QueueWaits' /\ pc' \in [Requests -> Stages] /\ pc'[r] = "clear"
      /\ \A q \in Requests : q # r =>
           pc'[q] = pc[q] \/ (q \in Lock!Woken /\ pc[q] = "waiting" /\ pc'[q] = "granted")
  BY <1>1, <1>2, QueueAfterRelease
<1>4. taken' \in BOOLEAN /\ waiting' \in Seq(Requests)
  BY <1>1, ReleaseEffect
<1>5. Typed'
  BY <1>1, <1>3, <1>4 DEF Typed
<1>6. Refused \subseteq Refused'
  BY <1>1, <1>2, <1>3 DEF Refused
<1>7. QED
  BY <1>3, <1>5, <1>6

(* A refusal counts one stray more, and one refused request more.            *)
LEMMA RefuseCounted ==
  ASSUME Typed, QueueWaits, NEW r \in Requests, Refuse(r)
  PROVE  Cardinality(Refused') >= Cardinality(Refused) + 1
<1>1. /\ pc[r] = "decide" /\ next[r] = None /\ next' = next
      /\ Lock!release /\ HandOn(r, "clear")
  BY DEF Refuse
<1>2. Refused \subseteq Refused'
  BY LeaveStep
<1>3. r \notin Refused
  BY <1>1 DEF Refused
<1>4. pc'[r] = "clear"
  BY <1>1, QueueAfterRelease, StagesClosed
<1>5. r \in Refused'
  BY <1>1, <1>4 DEF Refused
<1>6. IsFiniteSet(Refused') /\ IsFiniteSet(Refused)
  BY RequestsFinite, FS_Subset DEF Refused
<1>7. Cardinality(Refused \cup {r}) = Cardinality(Refused) + 1 /\ IsFiniteSet(Refused \cup {r})
  BY <1>3, <1>6, FS_AddElement
<1>8. Cardinality(Refused \cup {r}) <= Cardinality(Refused')
  BY <1>2, <1>5, <1>6, FS_Subset
<1>9. QED
  BY <1>6, <1>7, <1>8, FS_CardinalityType

(* The types, the queue and the count of strays are kept by every step.      *)
LEMMA LockInvStep == LockInv /\ [Next]_vars => LockInv'
<1> SUFFICES ASSUME LockInv, [Next]_vars PROVE LockInv'
  OBVIOUS
<1>0. Typed /\ QueueWaits /\ StraysCounted /\ strays \in Nat
  BY DEF LockInv, Typed
<1>1. ASSUME NEW r \in Requests, PlainStep(r) PROVE LockInv'
  <2>1. Typed'
    BY <1>0, <1>1, PlainTyped
  <2>2. PICK to \in Stages \ {"waiting"} : Go(r, to)
    BY <1>0, <1>1, PlainMove
  <2>3. /\ pc[r] # "waiting" /\ UNCHANGED lock /\ strays' = strays
        /\ Refused \subseteq Refused'
    BY <1>0, <1>1, PlainMove DEF lock
  <2>4. QueueWaits'
    BY <1>0, <2>2, <2>3, QueueAfterMove
  <2>5. StraysCounted'
    BY <1>0, <2>3, RefusedGrows, RefusedFinite DEF StraysCounted
  <2>6. QED
    BY <2>1, <2>4, <2>5 DEF LockInv
<1>2. ASSUME NEW r \in Requests, Acquire(r) PROVE LockInv'
  <2>1. Refused \subseteq Refused' /\ strays' = strays
    BY <1>0, <1>2 DEF Acquire, Go, Refused, Typed
  <2>2. StraysCounted'
    BY <1>0, <2>1, RefusedGrows, RefusedFinite DEF StraysCounted
  <2>3. QED
    BY <1>0, <1>2, <2>2, AcquireStep DEF LockInv
<1>3. ASSUME NEW r \in Requests, Leave(r) PROVE LockInv'
  <2>1. Typed' /\ QueueWaits' /\ Refused \subseteq Refused'
    BY <1>0, <1>3, LeaveStep
  <2>2. strays' = strays
    BY <1>3 DEF Leave, ProveFails, Unlock
  <2>3. StraysCounted'
    BY <1>0, <2>1, <2>2, RefusedGrows, RefusedFinite DEF StraysCounted
  <2>4. QED
    BY <2>1, <2>3 DEF LockInv
<1>4. ASSUME NEW r \in Requests, Refuse(r) PROVE LockInv'
  <2>1. Typed' /\ QueueWaits' /\ Refused \subseteq Refused'
    BY <1>0, <1>4, LeaveStep
  <2>2. strays' = strays \/ strays' = strays + 1
    BY <1>4 DEF Refuse
  <2>3. Cardinality(Refused') >= Cardinality(Refused) + 1
    BY <1>0, <1>4, RefuseCounted
  <2>4. StraysCounted'
    BY <1>0, <2>1, <2>2, <2>3, RefusedGrows, RefusedFinite DEF StraysCounted
  <2>5. QED
    BY <2>1, <2>4 DEF LockInv
<1>5. ASSUME NEW b \in Blocks, Rescan(b) PROVE LockInv'
  <2>1. UNCHANGED <<taken, waiting, pc, block, next, strays, crashes>>
    BY <1>5 DEF Rescan, lock
  <2>2. Typed'
    BY <1>0, <1>5, <2>1 DEF Rescan, Typed
  <2>3. QED
    BY <1>0, <2>1, <2>2 DEF LockInv, QueueWaits, StraysCounted, Refused
<1>6. CASE Crash
  <2>1. /\ taken' = FALSE /\ waiting' = <<>> /\ strays' = 0
        /\ pc' = [r \in Requests |-> IF pc[r] = "new" THEN "new" ELSE "done"]
        /\ UNCHANGED <<checked, inprogress, block, next, rescanned>>
        /\ crashes' = crashes + 1 /\ crashes < MaxCrashes
    BY <1>6 DEF Crash, rows
  <2>2. pc' \in [Requests -> Stages] /\ waiting' \in Seq(Requests) /\ crashes' \in 0..MaxCrashes
    BY <1>0, <2>1, StagesClosed, BoundsNat DEF Typed
  <2>3. Typed'
    <3>1. taken' \in BOOLEAN /\ strays' \in Nat
      BY <2>1
    <3>2. /\ checked' \in [Blocks -> BOOLEAN] /\ inprogress' \in [Blocks -> BOOLEAN]
          /\ block' \in [Requests -> Blocks \cup {None}]
          /\ next' \in [Requests -> McBlocks \cup {None}]
          /\ rescanned' \in SUBSET Blocks
      BY <1>0, <2>1 DEF Typed
    <3>3. QED
      BY <2>2, <3>1, <3>2 DEF Typed
  <2>4. Cardinality(Refused') \in Nat
    BY RequestsFinite, FS_Subset, FS_CardinalityType DEF Refused
  <2>5. QED
    BY <2>1, <2>3, <2>4 DEF LockInv, QueueWaits, StraysCounted
<1>7. CASE UNCHANGED vars
  BY <1>0, <1>7 DEF vars, LockInv, Typed, QueueWaits, StraysCounted, Refused
<1>8. QED
  BY <1>1, <1>2, <1>3, <1>4, <1>5, <1>6, <1>7 DEF Next, Step, PlainStep, Leave
-----------------------------------------------------------------------------
(* It holds when the process starts, whatever rows there are, and always.    *)
LEMMA LockInvInit == Init => LockInv
<1> SUFFICES ASSUME Init PROVE LockInv
  OBVIOUS
<1>1. waiting \in Seq(Requests) /\ pc \in [Requests -> Stages]
  BY StagesClosed DEF Init
<1>2. Typed
  <2>1. taken = FALSE /\ strays = 0 /\ crashes = 0
    BY DEF Init
  <2>2. /\ checked \in [Blocks -> BOOLEAN] /\ inprogress \in [Blocks -> BOOLEAN]
        /\ block \in [Requests -> Blocks \cup {None}]
        /\ next \in [Requests -> McBlocks \cup {None}]
        /\ rescanned \in SUBSET Blocks
    BY DEF Init
  <2>3. crashes \in 0..MaxCrashes
    BY <2>1, BoundsNat
  <2>4. QED
    BY <1>1, <2>1, <2>2, <2>3 DEF Typed
<1>3. StraysCounted
  BY RefusedFinite DEF Init, StraysCounted
<1>4. QED
  BY <1>2, <1>3 DEF Init, LockInv, QueueWaits

(* Hence in every state of every behaviour.                                  *)
LEMMA LockInvAlways == Spec => []LockInv
BY LockInvInit, LockInvStep, PTL DEF Spec

(* The columns, the lock and the locals of every request have their types;  *)
(* the releases of another's lock are no more than the requests refused.    *)
THEOREM TypeCorrect == Spec => []TypeOK
BY LockInvAlways, LockInvTypes, PTL
-----------------------------------------------------------------------------
\* The lock lets in one request, and one more for each stray release.
HoldersCounted == Cardinality(InLock) <= strays + (IF taken THEN 1 ELSE 0)

(* The requests let in are finitely many, so they can be counted.            *)
LEMMA InLockFinite == IsFiniteSet(InLock) /\ Cardinality(InLock) \in Nat
BY RequestsFinite, FS_Subset, FS_CardinalityType DEF InLock

(* A release lets in the first of the queue and lets out only who releases.  *)
LEMMA InLockAfterRelease ==
  ASSUME Typed, QueueWaits, NEW r \in Requests, pc[r] # "waiting",
         Lock!release, HandOn(r, "clear")
  PROVE  InLock' = (InLock \ {r}) \cup Lock!Woken
<1>1. Lock!Woken \subseteq Requests
  BY ReleaseEffect
<1>2. r \notin Lock!Woken
  BY ReleaseEffect
<1>3. \A q \in Requests : pc'[q] = IF q \in Lock!Woken THEN "granted"
                                    ELSE IF q = r THEN "clear" ELSE pc[q]
  BY DEF HandOn
<1>4. QED
  BY <1>1, <1>2, <1>3, StagesClosed DEF InLock

(* A release lets in at most who it lets out, or counts as a stray.          *)
LEMMA CountAfterRelease ==
  ASSUME LockInv, LockInv', HoldersCounted, NEW r \in Requests, pc[r] # "waiting",
         Lock!release, HandOn(r, "clear"),
         \/ r \in InLock /\ strays' = strays
         \/ r \notin InLock /\ strays' = (IF taken THEN strays + 1 ELSE strays)
  PROVE  HoldersCounted'
<1>0. /\ Typed /\ QueueWaits /\ taken \in BOOLEAN /\ taken' \in BOOLEAN
      /\ strays \in Nat /\ strays' \in Nat
      /\ IsFiniteSet(InLock) /\ Cardinality(InLock) \in Nat
  BY InLockFinite DEF LockInv, Typed
<1>1. InLock' = (InLock \ {r}) \cup Lock!Woken
  BY <1>0, InLockAfterRelease
<1>2. /\ IsFiniteSet(InLock \ {r}) /\ Cardinality(InLock \ {r}) \in Nat
      /\ r \in InLock => Cardinality(InLock \ {r}) = Cardinality(InLock) - 1
      /\ r \notin InLock => InLock \ {r} = InLock
  BY <1>0, FS_RemoveElement, FS_Subset, FS_CardinalityType
<1>3. Cardinality(InLock \ {r}) <= strays'
  <2>1. Cardinality(InLock) <= strays + (IF taken THEN 1 ELSE 0)
    BY DEF HoldersCounted
  <2>2. CASE r \in InLock /\ strays' = strays
    BY <1>0, <1>2, <2>1, <2>2
  <2>3. CASE r \notin InLock /\ strays' = (IF taken THEN strays + 1 ELSE strays)
    <3>1. Cardinality(InLock \ {r}) = Cardinality(InLock)
      BY <1>2, <2>3
    <3>2. CASE taken
      BY <1>0, <2>1, <2>3, <3>1, <3>2
    <3>3. CASE ~taken
      BY <1>0, <2>1, <2>3, <3>1, <3>3
    <3>4. QED
      BY <3>2, <3>3
  <2>4. QED
    BY <2>2, <2>3
<1>4. CASE waiting = <<>>
  <2>1. ~taken' /\ InLock' = InLock \ {r}
    BY <1>0, <1>1, <1>4, ReleaseEffect
  <2>2. QED
    BY <1>0, <1>3, <2>1 DEF HoldersCounted
<1>5. CASE waiting # <<>>
  <2>1. taken' /\ InLock' = (InLock \ {r}) \cup {Head(waiting)}
    BY <1>0, <1>1, <1>5, ReleaseEffect
  <2>2. /\ Cardinality(InLock') <= Cardinality(InLock \ {r}) + 1
        /\ Cardinality(InLock') \in Nat
    BY <1>2, <2>1, AddOne, FS_AddElement, FS_CardinalityType
  <2>3. Cardinality(InLock') <= strays' + 1
    BY <1>0, <1>2, <1>3, <2>2
  <2>4. QED
    BY <2>1, <2>3 DEF HoldersCounted
<1>6. QED
  BY <1>4, <1>5

(* Two state proofs are in flight at once only for requests that found no    *)
(* later checked block: the strays that let them in are at most as many.     *)
THEOREM ProversBounded == Spec => []OneProverPerRefusal
<1>1. Init => HoldersCounted
  <2> SUFFICES ASSUME Init PROVE HoldersCounted
    OBVIOUS
  <2>1. InLock = {}
    BY StagesClosed DEF Init, InLock
  <2>2. QED
    BY <2>1, FS_EmptySet DEF Init, HoldersCounted
<1>2. LockInv /\ LockInv' /\ HoldersCounted /\ [Next]_vars => HoldersCounted'
  <2> SUFFICES ASSUME LockInv, LockInv', HoldersCounted, [Next]_vars PROVE HoldersCounted'
    OBVIOUS
  <2>0. /\ Typed /\ QueueWaits /\ taken \in BOOLEAN /\ strays \in Nat
        /\ pc \in [Requests -> Stages]
        /\ IsFiniteSet(InLock) /\ Cardinality(InLock) \in Nat
    BY InLockFinite DEF LockInv, Typed
  <2>1. ASSUME NEW r \in Requests, PlainStep(r) PROVE HoldersCounted'
    <3>1. InLock' = InLock
      BY <2>0, <2>1, StagesClosed
        DEF PlainStep, MarkInProgress, FindNext, Resume, Prove, StoreChecked,
            ClearProgress, SyncVerifying, Receive, Go, InLock
    <3>2. taken' = taken /\ strays' = strays
      BY <2>0, <2>1, PlainMove
    <3>3. QED
      BY <3>1, <3>2 DEF HoldersCounted
  <2>2. ASSUME NEW r \in Requests, Acquire(r) PROVE HoldersCounted'
    <3>1. /\ pc[r] = "decide" /\ taken' = TRUE /\ strays' = strays
          /\ pc' = [pc EXCEPT ![r] = IF taken THEN "waiting" ELSE "granted"]
      BY <2>2 DEF Acquire, Lock!acquire, Go
    <3>2. CASE taken
      <4>1. InLock' = InLock
        BY <2>0, <3>1, <3>2, StagesClosed DEF InLock
      <4>2. QED
        BY <3>1, <3>2, <4>1 DEF HoldersCounted
    <3>3. CASE ~taken
      <4>1. InLock' = InLock \cup {r}
        BY <2>0, <3>1, <3>3, StagesClosed DEF InLock
      <4>2. Cardinality(InLock') <= Cardinality(InLock) + 1 /\ Cardinality(InLock') \in Nat
        BY <2>0, <4>1, AddOne, FS_AddElement, FS_CardinalityType
      <4>3. QED
        BY <2>0, <3>1, <3>3, <4>2 DEF HoldersCounted
    <3>4. QED
      BY <3>2, <3>3
  <2>3. ASSUME NEW r \in Requests, Leave(r) PROVE HoldersCounted'
    <3>1. pc[r] \in Locked /\ Lock!release /\ HandOn(r, "clear") /\ strays' = strays
      BY <2>3, StagesClosed DEF Leave, ProveFails, Unlock
    <3>2. r \in InLock /\ pc[r] # "waiting"
      BY <3>1, StagesClosed DEF InLock
    <3>3. QED
      BY <3>1, <3>2, CountAfterRelease
  <2>4. ASSUME NEW r \in Requests, Refuse(r) PROVE HoldersCounted'
    <3>1. /\ pc[r] = "decide" /\ Lock!release /\ HandOn(r, "clear")
          /\ strays' = IF taken THEN strays + 1 ELSE strays
      BY <2>4 DEF Refuse
    <3>2. r \notin InLock /\ pc[r] # "waiting"
      BY <3>1, StagesClosed DEF InLock
    <3>3. QED
      BY <3>1, <3>2, CountAfterRelease
  <2>5. ASSUME NEW b \in Blocks, Rescan(b) PROVE HoldersCounted'
    BY <2>5 DEF Rescan, lock, HoldersCounted, InLock
  <2>6. CASE Crash
    <3>1. InLock' = {} /\ strays' = 0 /\ taken' = FALSE
      BY <2>6, StagesClosed DEF Crash, InLock
    <3>2. QED
      BY <3>1, FS_EmptySet DEF HoldersCounted
  <2>7. CASE UNCHANGED vars
    BY <2>7 DEF vars, HoldersCounted, InLock
  <2>8. QED
    BY <2>1, <2>2, <2>3, <2>4, <2>5, <2>6, <2>7 DEF Next, Step, PlainStep, Leave
<1>3. LockInv /\ HoldersCounted => OneProverPerRefusal
  BY InLockFinite, RefusedFinite
    DEF LockInv, Typed, StraysCounted, HoldersCounted, OneProverPerRefusal
<1>4. QED
  BY <1>1, <1>2, <1>3, LockInvAlways, PTL DEF Spec
-----------------------------------------------------------------------------
(* A request that releases or moves on keeps whatever others were doing.     *)
LEMMA WorkersStay ==
  ASSUME Typed, QueueWaits, NEW r \in Requests, NEW q \in Requests, q # r,
         pc[q] \in Working, Step(r) \/ (\E b \in Blocks : Receive(r, b))
  PROVE  pc'[q] \in Working /\ block'[q] = block[q]
<1>1. CASE PlainStep(r)
  <2>1. pc'[q] = pc[q]
    BY <1>1, PlainMove DEF Go, Typed
  <2>2. block'[q] = block[q]
    BY <1>1 DEF PlainStep, MarkInProgress, FindNext, Resume, Prove, StoreChecked,
                ClearProgress, SyncVerifying, Receive, Typed
  <2>3. QED
    BY <2>1, <2>2
<1>2. CASE Acquire(r)
  BY <1>2 DEF Acquire, Go, Typed
<1>3. CASE Leave(r) \/ Refuse(r)
  <2>1. /\ pc[r] # "waiting" /\ Lock!release /\ HandOn(r, "clear") /\ block' = block
    BY <1>3, StagesClosed DEF Leave, ProveFails, Unlock, Refuse
  <2>2. pc'[q] = pc[q] \/ pc'[q] = "granted"
    BY <2>1, QueueAfterRelease, StagesClosed
  <2>3. QED
    BY <2>1, <2>2 DEF Working
<1>4. QED
  BY <1>1, <1>2, <1>3 DEF Step, PlainStep, Leave

(* A working request stays at work until it clears its mark.                 *)
LEMMA WorkerMoves ==
  ASSUME Typed, QueueWaits, NEW r \in Requests, pc[r] \in Working,
         Step(r) \/ (\E b \in Blocks : Receive(r, b))
  PROVE  block'[r] = block[r] /\ (pc'[r] \in Working \/ ClearProgress(r))
<1>1. CASE Leave(r) \/ Refuse(r)
  <2>1. /\ pc[r] # "waiting" /\ Lock!release /\ HandOn(r, "clear") /\ block' = block
    BY <1>1, StagesClosed DEF Leave, ProveFails, Unlock, Refuse
  <2>2. pc'[r] = "clear"
    BY <2>1, QueueAfterRelease, StagesClosed
  <2>3. QED
    BY <2>1, <2>2 DEF Working
<1>2. CASE Acquire(r)
  BY <1>2 DEF Acquire, Go, Typed, Working
<1>3. CASE FindNext(r) \/ Resume(r) \/ Prove(r) \/ StoreChecked(r)
  BY <1>3, StagesClosed DEF FindNext, Resume, Prove, StoreChecked, Go, Typed, Working
<1>4. CASE ClearProgress(r)
  BY <1>4 DEF ClearProgress
<1>5. CASE MarkInProgress(r) \/ SyncVerifying(r) \/ (\E b \in Blocks : Receive(r, b))
  BY <1>5, StagesClosed DEF MarkInProgress, SyncVerifying, Receive, Working
<1>6. QED
  BY <1>1, <1>2, <1>3, <1>4, <1>5 DEF Step, Leave

(* Without a restart, no row stays marked in progress with nobody working    *)
(* on it: `finally' clears what every way out of the request had set.        *)
THEOREM MarksHaveWorkers == Spec => []MarkHasWorker
<1>0. MarkHasWorker <=> \A b \in Blocks : inprogress[b] /\ crashes = 0 =>
                           \E r \in Requests : block[r] = b /\ pc[r] \in Working
  BY DEF MarkHasWorker, Working
<1>1. Init => MarkHasWorker
  BY DEF Init, MarkHasWorker
<1>2. LockInv /\ MarkHasWorker /\ [Next]_vars => MarkHasWorker'
  <2> SUFFICES ASSUME LockInv, MarkHasWorker, [Next]_vars,
                      NEW b \in Blocks, inprogress'[b], crashes' = 0
               PROVE  \E r \in Requests : block'[r] = b /\ pc'[r] \in Working
    BY DEF MarkHasWorker, Working
  <2>0. Typed /\ QueueWaits
    BY DEF LockInv
  <2>1. ASSUME NEW r \in Requests, Step(r) \/ (\E c \in Blocks : Receive(r, c)),
               ~MarkInProgress(r)
        PROVE  \E q \in Requests : block'[q] = b /\ pc'[q] \in Working
    <3>1. crashes' = crashes /\ inprogress[b] /\ (ClearProgress(r) => block[r] # b)
      BY <2>0, <2>1
        DEF Step, FindNext, Acquire, Refuse, Resume, Prove, ProveFails, StoreChecked, Unlock,
            ClearProgress, SyncVerifying, Receive, rows, Typed
    <3>2. PICK q \in Requests : block[q] = b /\ pc[q] \in Working
      BY <1>0, <3>1
    <3>3. CASE q = r
      BY <2>0, <2>1, <3>1, <3>2, <3>3, WorkerMoves
    <3>4. CASE q # r
      BY <2>0, <2>1, <3>2, <3>4, WorkersStay
    <3>5. QED
      BY <3>3, <3>4
  <2>2. ASSUME NEW r \in Requests, MarkInProgress(r)
        PROVE  \E q \in Requests : block'[q] = b /\ pc'[q] \in Working
    <3>1. /\ pc'[r] = "find" /\ block' = block /\ crashes' = crashes
          /\ block[r] # b => inprogress[b]
      BY <2>0, <2>2 DEF MarkInProgress, Go, Typed
    <3>2. CASE block[r] = b
      BY <3>1, <3>2 DEF Working
    <3>3. CASE block[r] # b
      <4>1. PICK q \in Requests : block[q] = b /\ pc[q] \in Working
        BY <1>0, <3>1, <3>3
      <4>2. q # r
        BY <3>3, <4>1
      <4>3. QED
        BY <2>0, <2>2, <4>1, <4>2, WorkersStay DEF Step
    <3>4. QED
      BY <3>2, <3>3
  <2>3. ASSUME NEW c \in Blocks, Rescan(c)
        PROVE  \E q \in Requests : block'[q] = b /\ pc'[q] \in Working
    <3>1. inprogress[b] /\ UNCHANGED <<pc, block, crashes>>
      BY <2>0, <2>3 DEF Rescan, Typed
    <3>2. QED
      BY <1>0, <3>1
  <2>4. CASE Crash
    <3>1. crashes \in Nat /\ crashes' = crashes + 1
      BY <2>0, <2>4, BoundsNat DEF Crash, Typed
    <3>2. QED
      BY <3>1
  <2>5. CASE UNCHANGED vars
    BY <1>0, <2>5 DEF vars
  <2>6. QED
    BY <2>1, <2>2, <2>3, <2>4, <2>5 DEF Next
<1>3. QED
  BY <1>1, <1>2, LockInvAlways, PTL DEF Spec
-----------------------------------------------------------------------------
\* A request that has not been received yet has looked nothing up.
NewHasNone == \A r \in Requests : pc[r] = "new" => next[r] = None

(* Only queries set `next', and a request does not become new again.         *)
LEMMA NewStaysNone == LockInv /\ NewHasNone /\ [Next]_vars => NewHasNone'
<1> SUFFICES ASSUME LockInv, NewHasNone, [Next]_vars, NEW q \in Requests, pc'[q] = "new"
             PROVE  next'[q] = None
  BY DEF NewHasNone
<1>0. Typed /\ QueueWaits
  BY DEF LockInv
<1>1. SUFFICES pc[q] = "new" /\ next'[q] = next[q]
  BY DEF NewHasNone
<1>2. ASSUME NEW r \in Requests, PlainStep(r) PROVE pc[q] = "new" /\ next'[q] = next[q]
  BY <1>0, <1>2, StagesClosed
    DEF PlainStep, MarkInProgress, FindNext, Resume, Prove, StoreChecked, ClearProgress,
        SyncVerifying, Receive, Go, Typed
<1>3. ASSUME NEW r \in Requests, Acquire(r) PROVE pc[q] = "new" /\ next'[q] = next[q]
  BY <1>0, <1>3 DEF Acquire, Go, Typed
<1>4. ASSUME NEW r \in Requests, Leave(r) \/ Refuse(r)
      PROVE  pc[q] = "new" /\ next'[q] = next[q]
  <2>1. pc[r] # "waiting" /\ Lock!release /\ HandOn(r, "clear") /\ next' = next
    BY <1>4, StagesClosed DEF Leave, ProveFails, Unlock, Refuse
  <2>2. pc'[r] = "clear" /\ (q # r => pc'[q] = pc[q] \/ pc'[q] = "granted")
    BY <1>0, <2>1, QueueAfterRelease, StagesClosed
  <2>3. QED
    BY <2>1, <2>2
<1>5. ASSUME NEW b \in Blocks, Rescan(b) PROVE pc[q] = "new" /\ next'[q] = next[q]
  BY <1>5 DEF Rescan
<1>6. CASE Crash
  BY <1>6 DEF Crash
<1>7. CASE UNCHANGED vars
  BY <1>7 DEF vars
<1>8. QED
  BY <1>2, <1>3, <1>4, <1>5, <1>6, <1>7 DEF Next, Step, PlainStep, Leave

(* The block a state proof rests on is later than the one proved and stays   *)
(* checked from the query to the transaction, unless the indexer resets it.  *)
THEOREM EvidenceStays == Spec => []EvidenceKept
<1>1. Init => NewHasNone /\ EvidenceKept
  BY DEF Init, NewHasNone, EvidenceKept
<1>2. LockInv /\ NewHasNone /\ EvidenceKept /\ [Next]_vars => EvidenceKept'
  <2> SUFFICES ASSUME LockInv, NewHasNone, EvidenceKept, [Next]_vars,
                      NEW q \in Requests, next'[q] # None
               PROVE  /\ next'[q] > block'[q]
                      /\ checked'[next'[q]] \/ next'[q] \in rescanned'
    BY DEF EvidenceKept
  <2> DEFINE Goal == /\ next'[q] > block'[q]
                     /\ checked'[next'[q]] \/ next'[q] \in rescanned'
  <2>0. Typed
    BY DEF LockInv
  <2>1. next[q] # None => /\ next[q] > block[q] /\ next[q] \in Blocks
                          /\ checked[next[q]] \/ next[q] \in rescanned
    BY <2>0 DEF EvidenceKept, Typed, Blocks
  <2>2. CASE UNCHANGED <<checked, block, next, rescanned>>
    BY <2>1, <2>2
  <2>3. ASSUME NEW r \in Requests, NEW b \in Blocks, Receive(r, b) PROVE Goal
    BY <2>0, <2>1, <2>3 DEF Receive, rows, NewHasNone, Typed
  <2>4. ASSUME NEW r \in Requests, FindNext(r) PROVE Goal
    <3>1. UNCHANGED <<checked, block, rescanned>>
      BY <2>4 DEF FindNext, rows
    <3>2. CASE q = r
      BY <2>0, <2>4, <3>1, <3>2 DEF FindNext, LaterChecked, Typed
    <3>3. CASE q # r
      BY <2>0, <2>1, <2>4, <3>1, <3>3 DEF FindNext, Typed
    <3>4. QED
      BY <3>2, <3>3
  <2>5. ASSUME NEW r \in Requests, StoreChecked(r) \/ SyncVerifying(r) PROVE Goal
    BY <2>0, <2>1, <2>5 DEF StoreChecked, SyncVerifying, isBlockVerified, Typed
  <2>6. ASSUME NEW b \in Blocks, Rescan(b) PROVE Goal
    BY <2>0, <2>1, <2>6 DEF Rescan, Typed
  <2>7. ASSUME NEW r \in Requests,
               \/ MarkInProgress(r) \/ Acquire(r) \/ Refuse(r) \/ Resume(r) \/ Prove(r)
               \/ ProveFails(r) \/ Unlock(r) \/ ClearProgress(r)
        PROVE  UNCHANGED <<checked, block, next, rescanned>>
    BY <2>7 DEF MarkInProgress, Acquire, Refuse, Resume, Prove, ProveFails, Unlock,
                ClearProgress, rows
  <2>8. CASE Crash
    BY <2>2, <2>8 DEF Crash, rows
  <2>9. CASE UNCHANGED vars
    BY <2>2, <2>9 DEF vars
  <2>10. QED
    BY <2>2, <2>3, <2>4, <2>5, <2>6, <2>7, <2>8, <2>9 DEF Next, Step
<1>3. QED
  BY <1>1, <1>2, NewStaysNone, LockInvAlways, PTL DEF Spec
-----------------------------------------------------------------------------
(* The requests as clients of SimpleLock: each step is one of the lock's, or *)
(* one that the lock does not see.                                           *)

(* A hand-over of the requests is a hand-over of the clients they are.       *)
LEMMA HandoverSeen ==
  ASSUME Typed, QueueWaits, NEW r \in Requests, NEW leaving \in SUBSET {r},
         pc[r] # "waiting", Stage(r) = "out" \/ leaving = {r},
         Lock!release, HandOn(r, "clear")
  PROVE  Lock!Handover(leaving)
<1>1. Lock!Woken \subseteq Requests /\ r \notin Lock!Woken
  BY ReleaseEffect
<1>2. \A q \in Requests : pc'[q] = IF q \in Lock!Woken THEN "granted"
                                    ELSE IF q = r THEN "clear" ELSE pc[q]
  BY DEF HandOn
<1>3. \A q \in Requests : Stage(q)' = IF q \in Lock!Woken THEN "granted"
                                       ELSE IF q \in leaving THEN "out" ELSE Stage(q)
  BY <1>1, <1>2, StagesClosed DEF Stage
<1>4. QED
  BY <1>3 DEF Lock!Handover

(* Every step of the service is a step of the lock, or a stutter.            *)
LEMMA LockStep ==
  ASSUME LockInv, LockInv', [Next]_vars
  PROVE  [Lock!Next]_(Lock!vars)
<1>0. Typed /\ QueueWaits /\ StraysCounted
  BY DEF LockInv
<1>1. ASSUME NEW r \in Requests, PlainStep(r), ~Resume(r) PROVE UNCHANGED Lock!vars
  <2>1. UNCHANGED <<taken, waiting, strays>>
    BY <1>0, <1>1, PlainMove
  <2>2. \A q \in Requests : Stage(q)' = Stage(q)
    BY <1>0, <1>1, StagesClosed
      DEF PlainStep, MarkInProgress, FindNext, Prove, StoreChecked, ClearProgress,
          SyncVerifying, Receive, Go, Stage, Typed
  <2>3. QED
    BY <2>1, <2>2 DEF Lock!vars
<1>2. ASSUME NEW r \in Requests, Resume(r) PROVE Lock!Resume(r)
  <2>1. UNCHANGED <<taken, waiting, strays>> /\ Stage(r) = "granted"
    BY <1>2, StagesClosed DEF Resume, Stage, lock
  <2>2. \A q \in Requests : Stage(q)' = IF q = r THEN "inside" ELSE Stage(q)
    BY <1>0, <1>2, StagesClosed DEF Resume, Go, Stage, Typed
  <2>3. QED
    BY <2>1, <2>2 DEF Lock!Resume
<1>3. ASSUME NEW r \in Requests, Acquire(r) PROVE Lock!Acquire(r)
  <2>1. Lock!acquire(r) /\ strays' = strays /\ Stage(r) = "out"
    BY <1>3, StagesClosed DEF Acquire, Stage
  <2>2. \A q \in Requests :
          Stage(q)' = IF q = r THEN (IF taken THEN "waiting" ELSE "granted") ELSE Stage(q)
    BY <1>0, <1>3, StagesClosed DEF Acquire, Go, Stage, Typed
  <2>3. QED
    BY <2>1, <2>2 DEF Lock!Acquire
<1>4. ASSUME NEW r \in Requests, Leave(r) PROVE Lock!Release(r)
  <2>1. /\ pc[r] \in Locked /\ Lock!release /\ HandOn(r, "clear") /\ strays' = strays
    BY <1>4, StagesClosed DEF Leave, ProveFails, Unlock
  <2>2. pc[r] # "waiting" /\ Stage(r) = "inside"
    BY <2>1, StagesClosed DEF Stage
  <2>3. Lock!Handover({r})
    BY <1>0, <2>1, <2>2, HandoverSeen
  <2>4. QED
    BY <2>1, <2>2, <2>3 DEF Lock!Release
<1>5. ASSUME NEW r \in Requests, Refuse(r) PROVE Lock!StrayRelease(r)
  <2>1. /\ pc[r] = "decide" /\ next[r] = None /\ Lock!release /\ HandOn(r, "clear")
        /\ strays' = IF taken THEN strays + 1 ELSE strays
    BY <1>5 DEF Refuse
  <2>2. pc[r] # "waiting" /\ Stage(r) = "out"
    BY <2>1, StagesClosed DEF Stage
  <2>3. Lock!Handover({})
    BY <1>0, <2>1, <2>2, HandoverSeen
  <2>4. strays < Cardinality(Requests)
    <3>1. strays \in Nat /\ strays <= Cardinality(Refused)
      BY <1>0 DEF Typed, StraysCounted
    <3>2. Cardinality(Refused') >= Cardinality(Refused) + 1
      BY <1>0, <1>5, RefuseCounted
    <3>3. Cardinality(Refused') <= Cardinality(Requests) /\ Cardinality(Refused') \in Nat
      BY RequestsFinite, FS_Subset, FS_CardinalityType DEF Refused
    <3>4. QED
      BY <3>1, <3>2, <3>3, RefusedFinite
  <2>5. QED
    BY <2>1, <2>2, <2>3, <2>4 DEF Lock!StrayRelease
<1>6. ASSUME NEW b \in Blocks, Rescan(b) PROVE UNCHANGED Lock!vars
  BY <1>6 DEF Rescan, lock, Lock!vars, Stage
<1>7. CASE Crash
  <2>1. \A q \in Requests : Stage(q)' = "out"
    BY <1>7, StagesClosed DEF Crash, Stage
  <2>2. Lock!createLock
    BY <1>7, <2>1 DEF Crash, Lock!createLock
  <2>3. QED
    BY <2>2 DEF Lock!Next
<1>8. CASE UNCHANGED vars
  BY <1>8 DEF vars, Lock!vars, Stage
<1>9. QED
  BY <1>1, <1>2, <1>3, <1>4, <1>5, <1>6, <1>7, <1>8
    DEF Next, Step, PlainStep, Leave, Lock!Next

(* The requests drive validatorLock as the clients of SimpleLock do, refusals *)
(* being its stray releases: what is proved of the lock holds in the service. *)
THEOREM ImplementsLock == Spec => LockRefined
<1>1. Init => Lock!Init
  BY StagesClosed DEF Init, Lock!Init, Stage
<1>2. LockInv /\ LockInv' /\ [Next]_vars => [Lock!Next]_(Lock!vars)
  BY LockStep
<1>3. QED
  BY <1>1, <1>2, LockInvAlways, PTL DEF Spec, LockRefined, Lock!Spec
=============================================================================
