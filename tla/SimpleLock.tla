----------------------------- MODULE SimpleLock -----------------------------
(***************************************************************************)
(* The named promise lock of ton-validator/utils/SimpleLock.ts: a flag     *)
(* `taken' and a FIFO of the resolve functions of the callers that found   *)
(* it taken.  The lock keeps no owner, so release() hands it on or frees   *)
(* it whoever calls it; callers that release without having acquired are   *)
(* part of the model (StrayRelease) because validateMCBlockByState is one. *)
(*                                                                         *)
(* A client is one call in flight of a function that uses the lock:        *)
(*   "out"     it has not called acquire(), or is done with the lock;      *)
(*   "waiting" its promise is pending and its resolve is in `waiting';     *)
(*   "granted" its promise is resolved, its continuation is not yet run;   *)
(*   "inside"  it runs between `await acquire()' and release().            *)
(***************************************************************************)
EXTENDS Naturals, Sequences, FiniteSets

CONSTANTS Clients,   \* the calls that use the lock
          MaxStrays  \* bound: effective releases by a caller that holds nothing

ASSUME ClientsFinite == IsFiniteSet(Clients)
ASSUME StraysNat == MaxStrays \in Nat

VARIABLES taken,    \* SimpleLock.taken
          waiting,  \* SimpleLock.waiting
          pc,       \* where each client is
          strays    \* history: releases that took the lock from somebody

vars == <<taken, waiting, pc, strays>>

Stages == {"out", "waiting", "granted", "inside"}

\* The clients that may act, or are about to act, as if the lock were theirs.
Holders == {c \in Clients : pc[c] \in {"granted", "inside"}}
-----------------------------------------------------------------------------
(* The methods of the class, as their effect on its two fields.  A caller  *)
(* that finds the lock free is granted at once; release() grants the first *)
(* waiter and keeps `taken', or frees the lock, or does nothing if free.   *)

\* Faulty variants, each the code with one slip (see the README on mutants):
\* the queue used as a stack.
acquireStack(c) ==
  /\ taken' = TRUE
  /\ waiting' = IF taken THEN <<c>> \o waiting ELSE waiting

acquire(c) ==
  /\ taken' = TRUE
  /\ waiting' = IF taken THEN Append(waiting, c) ELSE waiting

\* The first waiter is looked at instead of shifted; `taken' cleared on hand-over.
releaseNoShift ==
  \/ taken /\ waiting # <<>> /\ UNCHANGED <<taken, waiting>>
  \/ (waiting = <<>> \/ ~taken) /\ taken' = FALSE /\ UNCHANGED waiting
releaseFreesOnHandover ==
  /\ taken' = FALSE
  /\ waiting' = IF taken /\ waiting # <<>> THEN Tail(waiting) ELSE waiting

release ==
  \/ /\ taken /\ waiting # <<>>
     /\ waiting' = Tail(waiting)
     /\ UNCHANGED taken
  \/ /\ waiting = <<>> \/ ~taken
     /\ taken' = FALSE
     /\ UNCHANGED waiting

\* The resolve function is shifted out and not called.
WokenNever == {}

\* The client whose promise release() resolves, if any.
Woken == IF taken /\ waiting # <<>> THEN {Head(waiting)} ELSE {}

\* pc after release(): the woken client is granted, those in leaving are out.
Handover(leaving) ==
  pc' = [c \in Clients |-> IF c \in Woken THEN "granted"
                           ELSE IF c \in leaving THEN "out" ELSE pc[c]]
-----------------------------------------------------------------------------
Init ==
  /\ taken = FALSE
  /\ waiting = <<>>
  /\ pc = [c \in Clients |-> "out"]
  /\ strays = 0

Acquire(c) ==
  /\ pc[c] = "out"
  /\ acquire(c)
  /\ pc' = [pc EXCEPT ![c] = IF taken THEN "waiting" ELSE "granted"]
  /\ UNCHANGED strays

\* The microtask that continues the client after its promise was resolved.
Resume(c) ==
  /\ pc[c] = "granted"
  /\ pc' = [pc EXCEPT ![c] = "inside"]
  /\ UNCHANGED <<taken, waiting, strays>>

\* The `finally' of a client that did acquire.
Release(c) ==
  /\ pc[c] = "inside"
  /\ release
  /\ Handover({c})
  /\ UNCHANGED strays

\* The `finally' of a client that threw before it acquired: it counts as a
\* stray when the lock was taken, that is, when it was somebody else's.
StrayRelease(c) ==
  /\ pc[c] = "out"
  /\ taken => strays < MaxStrays
  /\ release
  /\ Handover({})
  /\ strays' = IF taken THEN strays + 1 ELSE strays

\* The process restarts: createLock builds a new object, calls in flight are gone.
createLock ==
  /\ taken' = FALSE
  /\ waiting' = <<>>
  /\ pc' = [c \in Clients |-> "out"]
  /\ strays' = 0

Next ==
  \/ \E c \in Clients : Acquire(c) \/ Resume(c) \/ Release(c) \/ StrayRelease(c)
  \/ createLock

\* Continuations run, and every client that is inside gets to its `finally'.
Fairness == \A c \in Clients : WF_vars(Resume(c)) /\ WF_vars(Release(c))

Spec == Init /\ [][Next]_vars
FairSpec == Spec /\ Fairness
-----------------------------------------------------------------------------
(* The fields and the stages have their types. *)
TypeOK ==
  /\ taken \in BOOLEAN
  /\ waiting \in Seq(Clients)
  /\ pc \in [Clients -> Stages]
  /\ strays \in 0..MaxStrays

(* `waiting' holds exactly the clients that wait, each once, and only while *)
(* the lock is taken: acquire() queues a caller only behind a holder.       *)
QueueExact ==
  /\ \A c \in Clients : pc[c] = "waiting" <=> \E i \in DOMAIN waiting : waiting[i] = c
  /\ \A i, j \in DOMAIN waiting : waiting[i] = waiting[j] => i = j
  /\ waiting # <<>> => taken

(* Mutual exclusion degrades by one client for each stray release and by no *)
(* more: with disciplined callers (strays = 0) at most one client is inside. *)
HoldersBound == Cardinality(Holders) <= strays + (IF taken THEN 1 ELSE 0)

(* No lost wake-up, stray releases or not: whoever waits, waits for a client *)
(* that holds the lock and will call release().                              *)
TakenIsHeld == taken => Holders # {}

(* Every client that waits is let in (or forgotten, if the process restarts): *)
(* no hand-over loses a resolve function, stray releases or not.              *)
WaiterServed ==
  \A c \in Clients : pc[c] = "waiting" ~> pc[c] \in {"inside", "out"}

\* The requests not yet served, as FifoMutex has them: the client inside or
\* about to be, then those that wait.
served == IF Holders = {} THEN waiting ELSE <<CHOOSE c \in Holders : TRUE>> \o waiting

\* A stray release voids what the lock promises, until a restart.
Fifo == INSTANCE FifoMutex WITH
  queue <- IF strays = 0 THEN served ELSE <<>>,
  busy <- strays = 0 /\ \E c \in Clients : pc[c] = "inside"

(* As long as nobody releases a lock that is another's, callers are served   *)
(* one at a time in the order they called acquire(): the lock implements a   *)
(* FIFO mutex.                                                               *)
FifoOrder == Fifo!MutexSpec
=============================================================================
