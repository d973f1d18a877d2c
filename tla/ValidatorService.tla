--------------------------- MODULE ValidatorService ---------------------------
(***************************************************************************)
(* The HTTP requests `checkmcblock' and `checkshard' of ton-validator, as  *)
(* interleaved at every await of ValidatorService: the status columns of   *)
(* the TonBlock rows, the in-memory lock `validatorLock', and the indexer  *)
(* (createTonBlock on a row that exists) resetting those columns.          *)
(*                                                                         *)
(* A masterchain row is named by its seqno, a shard row by a value that is *)
(* not a number.  A request runs once; the lock's state is that of module  *)
(* SimpleLock, whose clients are the requests.                             *)
(***************************************************************************)
EXTENDS Naturals, Sequences, FiniteSets

CONSTANTS Requests,    \* the HTTP requests that arrive
          McBlocks,    \* rows with workchain = -1, by seqno
          ShardBlocks, \* rows of shard blocks
          McParent,    \* TonBlock.mcParent of each shard row
          MaxRescans,  \* bound: rows the indexer saves again
          MaxCrashes,  \* bound: restarts of the process
          None         \* no row: the `undefined' of a query that found none

Blocks == McBlocks \cup ShardBlocks

ASSUME RequestsFinite == IsFiniteSet(Requests)
ASSUME McBlocksNat == McBlocks \subseteq Nat
ASSUME NoneFresh == None \notin Blocks
ASSUME McParentType == McParent \in [ShardBlocks -> McBlocks]
ASSUME BoundsNat == MaxRescans \in Nat /\ MaxCrashes \in Nat

VARIABLES checked,    \* TonBlock.checked
          inprogress, \* TonBlock.inprogress
          taken,      \* validatorLock.taken
          waiting,    \* validatorLock.waiting
          pc,         \* the await each request stands at
          block,      \* the `id' of each request
          next,       \* nextBlock of each request's validateMCBlockByState
          strays,     \* history: releases of a lock that was another's
          rescanned,  \* history: rows the indexer has reset; bounded by MaxRescans
          crashes     \* history: restarts

rows == <<checked, inprogress>>
lock == <<taken, waiting>>
vars == <<checked, inprogress, taken, waiting, pc, block, next, strays, rescanned, crashes>>

\* Between acquire() and release() a request sends the transaction and
\* stores its outcome.
Locked == {"prove", "store", "unlock"}
Stages == {"new", "mark", "find", "decide", "waiting", "granted",
           "clear", "sync", "done"} \cup Locked

Stage(r) == IF pc[r] \in Locked THEN "inside"
            ELSE IF pc[r] \in {"waiting", "granted"} THEN pc[r] ELSE "out"

Lock == INSTANCE SimpleLock WITH
          Clients <- Requests,
          MaxStrays <- Cardinality(Requests),
          pc <- [r \in Requests |-> Stage(r)]

\* After release(): the woken request is granted, r moves on to `to'.
Go(r, to) == pc' = [pc EXCEPT ![r] = to]
HandOn(r, to) ==
  pc' = [q \in Requests |-> IF q \in Lock!Woken THEN "granted"
                            ELSE IF q = r THEN to ELSE pc[q]]
-----------------------------------------------------------------------------
Init ==
  /\ checked \in [Blocks -> BOOLEAN]
  /\ inprogress = [b \in Blocks |-> FALSE]
  /\ taken = FALSE /\ waiting = <<>>
  /\ pc = [r \in Requests |-> "new"]
  /\ block = [r \in Requests |-> None]
  /\ next = [r \in Requests |-> None]
  /\ strays = 0 /\ rescanned = {} /\ crashes = 0

\* POST checkmcblock / checkshard: a shard request begins with syncVerifying.
Receive(r, b) ==
  /\ pc[r] = "new"
  /\ block' = [block EXCEPT ![r] = b]
  /\ Go(r, IF b \in McBlocks THEN "mark" ELSE "sync")
  /\ UNCHANGED <<rows, lock, next, strays, rescanned, crashes>>

\* validateMCBlockByState: updateTonBlockStatus({inprogress: true}).
MarkInProgress(r) ==
  /\ pc[r] = "mark"
  /\ inprogress' = [inprogress EXCEPT ![block[r]] = TRUE]
  /\ Go(r, "find")
  /\ UNCHANGED <<checked, lock, block, next, strays, rescanned, crashes>>

\* The rows a later checked block can be taken from; findMany has no order.
LaterChecked(b) == {n \in McBlocks : n > b /\ checked[n]}

FindNext(r) ==
  /\ pc[r] = "find"
  /\ IF LaterChecked(block[r]) = {} THEN next' = [next EXCEPT ![r] = None]
     ELSE \E n \in LaterChecked(block[r]) : next' = [next EXCEPT ![r] = n]
  /\ Go(r, "decide")
  /\ UNCHANGED <<rows, lock, block, strays, rescanned, crashes>>

\* Faulty: acquire() without await.
AcquireNoAwait(r) ==
  /\ pc[r] = "decide" /\ next[r] # None
  /\ Lock!acquire(r)
  /\ Go(r, "granted")
  /\ UNCHANGED <<rows, block, next, strays, rescanned, crashes>>

\* A later checked block exists: validatorLock.acquire().
Acquire(r) ==
  /\ pc[r] = "decide" /\ next[r] # None
  /\ Lock!acquire(r)
  /\ Go(r, IF taken THEN "waiting" ELSE "granted")
  /\ UNCHANGED <<rows, block, next, strays, rescanned, crashes>>

\* Faulty: the refusal returns before the in-progress mark is cleared.
RefuseKeepsMark(r) ==
  /\ pc[r] = "decide" /\ next[r] = None
  /\ Lock!release
  /\ HandOn(r, "sync")
  /\ strays' = IF taken THEN strays + 1 ELSE strays
  /\ UNCHANGED <<rows, block, next, rescanned, crashes>>

\* None exists: the throw precedes acquire() but `finally' releases all the same.
Refuse(r) ==
  /\ pc[r] = "decide" /\ next[r] = None
  /\ Lock!release
  /\ HandOn(r, "clear")
  /\ strays' = IF taken THEN strays + 1 ELSE strays
  /\ UNCHANGED <<rows, block, next, rescanned, crashes>>

Resume(r) ==
  /\ pc[r] = "granted"
  /\ Go(r, "prove")
  /\ UNCHANGED <<rows, lock, block, next, strays, rescanned, crashes>>

\* getStateProof and readStateProof(...).wait() succeed.
Prove(r) ==
  /\ pc[r] = "prove"
  /\ Go(r, "store")
  /\ UNCHANGED <<rows, lock, block, next, strays, rescanned, crashes>>

\* Faulty: no `finally', an error leaves the lock taken.
ProveFailsKeepsLock(r) ==
  /\ pc[r] = "prove"
  /\ Go(r, "clear")
  /\ UNCHANGED <<rows, lock, block, next, strays, rescanned, crashes>>

\* One of them fails: catch, then `finally' releases.
ProveFails(r) ==
  /\ pc[r] = "prove"
  /\ Lock!release
  /\ HandOn(r, "clear")
  /\ UNCHANGED <<rows, block, next, strays, rescanned, crashes>>

StoreChecked(r) ==
  /\ pc[r] = "store"
  /\ checked' = [checked EXCEPT ![block[r]] = TRUE]
  /\ Go(r, "unlock")
  /\ UNCHANGED <<inprogress, lock, block, next, strays, rescanned, crashes>>

\* Faulty: the waiter leaves the queue and is not resumed.
UnlockForgetsWaiter(r) ==
  /\ pc[r] = "unlock"
  /\ Lock!release
  /\ Go(r, "clear")
  /\ UNCHANGED <<rows, block, next, strays, rescanned, crashes>>

Unlock(r) ==
  /\ pc[r] = "unlock"
  /\ Lock!release
  /\ HandOn(r, "clear")
  /\ UNCHANGED <<rows, block, next, strays, rescanned, crashes>>

\* The rest of `finally': updateTonBlockStatus({inprogress: false}).
ClearProgress(r) ==
  /\ pc[r] = "clear"
  /\ inprogress' = [inprogress EXCEPT ![block[r]] = FALSE]
  /\ Go(r, "sync")
  /\ UNCHANGED <<checked, lock, block, next, strays, rescanned, crashes>>

\* Faulty: the answer is always no.
isBlockVerifiedNever == FALSE

\* isBlockVerified answers true without asking the contract.
isBlockVerified == TRUE

\* syncVerifying, and the empty answer to the request that follows from it.
SyncVerifying(r) ==
  /\ pc[r] = "sync"
  /\ checked' = [checked EXCEPT ![block[r]] = isBlockVerified]
  /\ Go(r, "done")
  /\ UNCHANGED <<inprogress, lock, block, next, strays, rescanned, crashes>>
-----------------------------------------------------------------------------
\* The indexer saves a block that has a row: createTonBlock's update.
Rescan(b) ==
  /\ b \notin rescanned /\ Cardinality(rescanned) < MaxRescans
  /\ checked' = [checked EXCEPT ![b] = FALSE]
  /\ inprogress' = [inprogress EXCEPT ![b] = FALSE]
  /\ rescanned' = rescanned \cup {b}
  /\ UNCHANGED <<lock, pc, block, next, strays, crashes>>

\* The process restarts: rows stay, the lock and the requests in flight go.
Crash ==
  /\ crashes < MaxCrashes
  /\ taken' = FALSE /\ waiting' = <<>> /\ strays' = 0
  /\ pc' = [r \in Requests |-> IF pc[r] = "new" THEN "new" ELSE "done"]
  /\ crashes' = crashes + 1
  /\ UNCHANGED <<rows, block, next, rescanned>>

Step(r) ==
  \/ MarkInProgress(r) \/ FindNext(r) \/ Acquire(r) \/ Refuse(r) \/ Resume(r)
  \/ Prove(r) \/ ProveFails(r) \/ StoreChecked(r) \/ Unlock(r)
  \/ ClearProgress(r) \/ SyncVerifying(r)

Next ==
  \/ \E r \in Requests : Step(r)
  \/ \E r \in Requests, b \in Blocks : Receive(r, b)
  \/ \E b \in Blocks : Rescan(b)
  \/ Crash

\* A request that stands at an await gets its answer and goes on.
Fairness == \A r \in Requests : WF_vars(Step(r))

Spec == Init /\ [][Next]_vars
FairSpec == Spec /\ Fairness
-----------------------------------------------------------------------------
(* The columns, the lock and the locals of each request have their types.   *)
TypeOK ==
  /\ checked \in [Blocks -> BOOLEAN]
  /\ inprogress \in [Blocks -> BOOLEAN]
  /\ taken \in BOOLEAN
  /\ waiting \in Seq(Requests)
  /\ pc \in [Requests -> Stages]
  /\ block \in [Requests -> Blocks \cup {None}]
  /\ next \in [Requests -> McBlocks \cup {None}]
  /\ strays \in 0..Cardinality(Requests)
  /\ rescanned \in SUBSET Blocks
  /\ crashes \in 0..MaxCrashes

InLock == {r \in Requests : pc[r] \in Locked \cup {"granted"}}

\* The requests whose `finally' released what they had not acquired.
Refused == {r \in Requests : pc[r] \in {"clear", "sync", "done"} /\ next[r] = None}

(* Two state proofs are in flight at once only because of requests that     *)
(* found no later checked block, and at most one more for each of those.    *)
OneProverPerRefusal == Cardinality(InLock) <= 1 + Cardinality(Refused)

(* A row is marked in progress only while a request is between its two      *)
(* updates of that row; only a crash in between leaves it marked for good.  *)
MarkHasWorker ==
  \A b \in Blocks : inprogress[b] /\ crashes = 0 =>
    \E r \in Requests :
      /\ block[r] = b
      /\ pc[r] \in {"find", "decide", "waiting", "granted", "clear"} \cup Locked

(* The block a request proves from is a later one, and stays checked from   *)
(* the query to the transaction unless the indexer saved it again.          *)
EvidenceKept ==
  \A r \in Requests : next[r] # None =>
    /\ next[r] > block[r]
    /\ checked[next[r]] \/ next[r] \in rescanned

(* The requests use the lock as SimpleLock's clients do, refusals being its *)
(* stray releases: what is proved of SimpleLock holds of validatorLock.     *)
LockRefined == Lock!Spec

(* Every request is answered, however the lock was passed around.           *)
EveryRequestEnds ==
  \A r \in Requests : pc[r] = "mark" ~> pc[r] = "done"

(* A shard block becomes checked only under a checked masterchain block:    *)
(* validateShardBlock means to refuse with `first check mc block'.          *)
McBlockFirst ==
  [][\A s \in ShardBlocks : ~checked[s] /\ checked'[s] => checked[McParent[s]]]_vars
=============================================================================
