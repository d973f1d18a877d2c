--------------------------- MODULE CommitteeTracker ---------------------------
(***************************************************************************)
(* Which sync committee BeaconService believes in: onFinalityUpdate brings *)
(* ContractEmulator's committee up to the period of the finalised header,  *)
(* fetching one period after the other, then checks the signature of the   *)
(* update with it.  The watcher does not wait for the handler, so handlers *)
(* of several updates overlap at every await.                              *)
(*                                                                         *)
(* An update is its number; all that matters of it is the period of its    *)
(* finalised header and the period whose committee signed it, which is the *)
(* next one when the attested header is already past the period's end.     *)
(***************************************************************************)
EXTENDS Naturals, FiniteSets

CONSTANTS Count,      \* finality updates the chain publishes
          FinPeriod,  \* computeSyncPeriodAtSlot of the finalised header
          SigPeriod,  \* the period of the committee that signed
          MaxFails    \* bound: requests to the API or the contract that fail

Updates == 1..Count

ASSUME CountNat == Count \in Nat \ {0} /\ MaxFails \in Nat
ASSUME PeriodType == /\ FinPeriod \in [Updates -> Nat \ {0}]
                     /\ SigPeriod \in [Updates -> Nat \ {0}]
ASSUME PeriodsGrow == \A u, v \in Updates : u <= v => FinPeriod[u] <= FinPeriod[v]
ASSUME SignedLater == \A u \in Updates : FinPeriod[u] <= SigPeriod[u]

VARIABLES published,     \* the update the API answers with; 0 before the first
          seen,          \* _currentSlot of the watcher, as an update
          stage,         \* where onFinalityUpdate of each update is
          fetching,      \* the argument of its updateCommittee
          committee,     \* the period contract.committee is of; 0 for null
          currentPeriod, \* _currentPeriod
          accepted,      \* history: updates handed to savePool
          refused,       \* history: updates whose signature was rejected
          overlapped,    \* history: updates handled while another one was
          fails          \* history, bounded

process == <<seen, stage, fetching, committee, currentPeriod>>
history == <<accepted, refused, overlapped>>
vars == <<published, seen, stage, fetching, committee, currentPeriod,
          accepted, refused, overlapped, fails>>

InFlight == {u \in Updates : stage[u] # "none"}
-----------------------------------------------------------------------------
\* Faulty: the watcher keeps the update it saw last.
RestartKeepsSeen ==
  /\ stage' = [u \in Updates |-> "none"]
  /\ fetching' = [u \in Updates |-> 0]
  /\ committee' = 0 /\ currentPeriod' = 0
  /\ UNCHANGED seen

\* The process ends and is started again: all it knew is gone.
Restart ==
  /\ seen' = 0
  /\ stage' = [u \in Updates |-> "none"]
  /\ fetching' = [u \in Updates |-> 0]
  /\ committee' = 0 /\ currentPeriod' = 0

\* processFinalityUpdate and what follows it in the same turn.  A rejection is
\* not caught by the emitter, so it ends the process.
Verify(u, seenNow) ==
  \/ /\ committee = SigPeriod[u]
     /\ accepted' = accepted \cup {u}
     /\ seen' = seenNow
     /\ stage' = [stage EXCEPT ![u] = "none"]
     /\ UNCHANGED <<fetching, committee, currentPeriod, refused>>
  \/ /\ committee # SigPeriod[u]
     /\ refused' = refused \cup {u}
     /\ Restart
     /\ UNCHANGED accepted

Fetch(u, period) ==
  /\ stage' = [stage EXCEPT ![u] = "fetch"]
  /\ fetching' = [fetching EXCEPT ![u] = period]

\* Faulty: the committee of the target period is fetched at once.
FirstFetchJumps(target) == target

\* updateCommitteeFor: the committee to begin with, then one period at a time.
FirstFetch(target) == IF currentPeriod = 0 THEN target ELSE currentPeriod + 1

\* The watcher sees a new update and emits it; the handler runs to its first await.
Poll ==
  /\ published # seen /\ published > 0
  /\ overlapped' = IF InFlight = {} THEN overlapped \ {published}
                   ELSE overlapped \cup InFlight \cup {published}
  /\ IF FinPeriod[published] > currentPeriod
     THEN /\ Fetch(published, FirstFetch(FinPeriod[published]))
          /\ seen' = published
          /\ UNCHANGED <<committee, currentPeriod, accepted, refused>>
     ELSE Verify(published, published)
  /\ UNCHANGED <<published, fails>>

\* Faulty: getUpdates(period, 1), whose next committee is one period too late.
FetchedThisPeriod(u) ==
  /\ stage[u] = "fetch"
  /\ committee' = fetching[u] + 1 /\ currentPeriod' = fetching[u]
  /\ stage' = [stage EXCEPT ![u] = "settle"]
  /\ UNCHANGED <<published, seen, fetching, history, fails>>

\* getUpdates(period - 1, 1) answers: its next committee is that of `period'.
\* The committee and _currentPeriod change in the same turn of the event loop.
Fetched(u) ==
  /\ stage[u] = "fetch"
  /\ committee' = fetching[u] /\ currentPeriod' = fetching[u]
  /\ stage' = [stage EXCEPT ![u] = "settle"]
  /\ UNCHANGED <<published, seen, fetching, history, fails>>

\* Faulty: <= for <.
SettledInclusive(u) ==
  /\ stage[u] = "settle"
  /\ IF fetching[u] <= FinPeriod[u]
     THEN /\ Fetch(u, fetching[u] + 1)
          /\ UNCHANGED <<seen, committee, currentPeriod, accepted, refused>>
     ELSE Verify(u, seen)
  /\ UNCHANGED <<published, overlapped, fails>>

\* getLastFinalityHash answers and, in the loop, 300 ms pass: the next period
\* is fetched, or the signature is checked.
Settled(u) ==
  /\ stage[u] = "settle"
  /\ IF fetching[u] < FinPeriod[u]
     THEN /\ Fetch(u, fetching[u] + 1)
          /\ UNCHANGED <<seen, committee, currentPeriod, accepted, refused>>
     ELSE Verify(u, seen)
  /\ UNCHANGED <<published, overlapped, fails>>

\* One of the handler's requests fails: nothing catches that either.
RequestFails(u) ==
  /\ stage[u] # "none" /\ fails < MaxFails
  /\ fails' = fails + 1
  /\ Restart
  /\ UNCHANGED <<published, history>>

Publish ==
  /\ published < Count
  /\ published' = published + 1
  /\ UNCHANGED <<process, history, fails>>
-----------------------------------------------------------------------------
Init ==
  /\ published = 0 /\ seen = 0
  /\ stage = [u \in Updates |-> "none"]
  /\ fetching = [u \in Updates |-> 0]
  /\ committee = 0 /\ currentPeriod = 0
  /\ accepted = {} /\ refused = {} /\ overlapped = {}
  /\ fails = 0

Handle(u) == Fetched(u) \/ Settled(u)

Next ==
  \/ Publish \/ Poll
  \/ \E u \in Updates : Handle(u) \/ RequestFails(u)

Spec == Init /\ [][Next]_vars

\* The watcher polls every second and the requests it leads to are answered.
Fairness == WF_vars(Poll) /\ \A u \in Updates : WF_vars(Handle(u))
FairSpec == Spec /\ Fairness
-----------------------------------------------------------------------------
(* The fields of the service and the stages of its handlers have their     *)
(* types; a handler fetches no period beyond that of its finalised header.  *)
TypeOK ==
  /\ published \in 0..Count /\ seen \in 0..Count
  /\ stage \in [Updates -> {"none", "fetch", "settle"}]
  /\ fetching \in [Updates -> Nat]
  /\ \A u \in Updates : stage[u] # "none" => fetching[u] \in 1..FinPeriod[u]
  /\ committee \in Nat /\ currentPeriod \in Nat
  /\ accepted \in SUBSET Updates /\ refused \in SUBSET Updates
  /\ overlapped \in SUBSET Updates
  /\ fails \in 0..MaxFails

\* What the chain publishes is signed by the committee of its signing period.
AtBoundary == {u \in Updates : FinPeriod[u] # SigPeriod[u]}

(* An update is rejected only where a period ends, between the attested and *)
(* the finalised header, or because another handler moved the committee:    *)
(* whatever was fetched or lost before, a handler on its own arrives at the *)
(* committee of its period.                                                 *)
RefusedOnlyAtBoundary == [][refused' \ refused \subseteq AtBoundary \cup overlapped']_vars

(* A committee is replaced by the next one, never skipping a period, except *)
(* by a handler that another one has overtaken.                             *)
CommitteeStepsByOne ==
  [][committee # 0 /\ committee' > committee =>
       \/ committee' = committee + 1
       \/ \E u \in overlapped : stage[u] = "fetch" /\ stage'[u] = "settle"]_vars

(* An update that is not at a boundary is stored in the end, however many   *)
(* restarts boundaries, failures and overlaps caused, unless a newer one    *)
(* replaces it first.                                                       *)
StoredOrReplaced ==
  \A u \in Updates \ AtBoundary : published = u ~> u \in accepted \/ published # u

(* Only an update whose signature is invalid is rejected; the chain here    *)
(* publishes none, so none may be.                                          *)
RejectedIsInvalid == refused = {}
=============================================================================
