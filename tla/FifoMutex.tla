----------------------------- MODULE FifoMutex ------------------------------
(***************************************************************************)
(* What the lock of ton-validator/utils/SimpleLock.ts promises to callers  *)
(* that release only what they acquired: requests queue in the order they  *)
(* were made, the one at the front is let in, nobody else is until it      *)
(* leaves.  Reset is the restart of the process.                           *)
(***************************************************************************)
EXTENDS Naturals, Sequences

CONSTANT Clients

VARIABLES queue,  \* the requests not yet served, the served one first
          busy    \* the request at the front has been let in

mutexVars == <<queue, busy>>

Queued(c) == \E i \in DOMAIN queue : queue[i] = c

MutexInit == queue = <<>> /\ busy = FALSE

Request(c) ==
  /\ ~Queued(c)
  /\ queue' = Append(queue, c)
  /\ UNCHANGED busy

Enter ==
  /\ queue # <<>> /\ ~busy
  /\ busy' = TRUE
  /\ UNCHANGED queue

Leave ==
  /\ busy
  /\ queue' = Tail(queue)
  /\ busy' = FALSE

Reset == queue' = <<>> /\ busy' = FALSE

MutexNext == (\E c \in Clients : Request(c)) \/ Enter \/ Leave \/ Reset

MutexSpec == MutexInit /\ [][MutexNext]_mutexVars
=============================================================================
