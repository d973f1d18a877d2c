------------------------- MODULE CommitteeTrackerProofs -------------------------
(* Proofs about CommitteeTracker for any number of updates and any periods    *)
(* that do not decrease: types, and the two action properties about what a    *)
(* handler on its own does to the committee.                                  *)
EXTENDS CommitteeTracker, TLAPS

\* Where the committee is, seen from a handler that no other one has overlapped.
Alone(u) == stage[u] # "none" /\ u \notin overlapped

Companions == \A u, v \in InFlight : u # v => u \in overlapped

OnTheWay ==
  \A u \in Updates : Alone(u) =>
    /\ stage[u] = "fetch" /\ committee # 0 => fetching[u] = committee + 1
    /\ stage[u] = "settle" => fetching[u] = committee

\* Nothing is fetched beyond the newest update that was seen.
NotAhead ==
  /\ seen <= published
  /\ \A u \in InFlight : u <= seen
  /\ committee # 0 => seen # 0 /\ committee <= FinPeriod[seen]

\* The committee is the one of _currentPeriod.
InStep == committee = currentPeriod

IInv == TypeOK /\ InStep /\ Companions /\ OnTheWay /\ NotAhead
-----------------------------------------------------------------------------
(* A restart forgets everything, which is a state to begin from. *)
LEMMA RestartInv ==
  ASSUME IInv, Restart, published' \in 0..Count, published <= published',
         accepted' \in SUBSET Updates, refused' \in SUBSET Updates,
         overlapped' \in SUBSET Updates, fails' \in 0..MaxFails
  PROVE  IInv'
<1>1. stage' = [u \in Updates |-> "none"] /\ fetching' = [u \in Updates |-> 0]
  BY DEF Restart
<1>2. seen' = 0 /\ committee' = 0 /\ currentPeriod' = 0
  BY DEF Restart
<1>3. TypeOK'
  BY <1>1, <1>2, CountNat DEF TypeOK
<1>4. InFlight' = {} /\ \A u \in Updates : ~Alone(u)'
  BY <1>1 DEF InFlight, Alone
<1>5. InStep' /\ Companions' /\ OnTheWay'
  BY <1>2, <1>4 DEF InStep, Companions, OnTheWay
<1>6. NotAhead'
  BY <1>2, <1>4, CountNat DEF NotAhead
<1>7. QED
  BY <1>3, <1>5, <1>6 DEF IInv

(* The check at the end of a handler ends the handler or the process. *)
LEMMA VerifyInv ==
  ASSUME IInv, NEW u \in Updates, NEW now \in 0..Count, Verify(u, now),
         seen <= now, now <= published,
         UNCHANGED <<published, fails>>,
         overlapped' \in SUBSET Updates,
         overlapped \ {u} \subseteq overlapped',
         InFlight \ {u} # {} => InFlight \ {u} \subseteq overlapped'
  PROVE  IInv'
<1>0. published' = published /\ fails' = fails /\ TypeOK
  BY DEF IInv
<1>1. CASE committee # SigPeriod[u]
  <2>1. Restart /\ accepted' = accepted /\ refused' = refused \cup {u}
    BY <1>1 DEF Verify
  <2>2. accepted' \in SUBSET Updates /\ refused' \in SUBSET Updates
    BY <1>0, <2>1 DEF TypeOK
  <2>3. fails' \in 0..MaxFails /\ published' \in 0..Count /\ published <= published'
    BY <1>0, CountNat DEF TypeOK
  <2>4. QED
    BY <2>1, <2>2, <2>3, RestartInv
<1>2. CASE committee = SigPeriod[u]
  <2>1. /\ accepted' = accepted \cup {u}
        /\ seen' = now
        /\ stage' = [stage EXCEPT ![u] = "none"]
        /\ UNCHANGED <<fetching, committee, currentPeriod, refused>>
    BY <1>2 DEF Verify
  <2>2. stage'[u] = "none" /\ \A v \in Updates \ {u} : stage'[v] = stage[v]
    BY <1>0, <2>1 DEF TypeOK
  <2>3. TypeOK'
    BY <1>0, <2>1, <2>2 DEF TypeOK
  <2>4. InFlight' = InFlight \ {u}
    BY <2>2 DEF InFlight
  <2>5. Companions'
    BY <2>4 DEF Companions
  <2>6. OnTheWay'
    BY <2>1, <2>2, <2>4 DEF IInv, OnTheWay, Alone, InFlight
  <2>7. NotAhead'
    <3>1. \A v \in InFlight : v <= seen /\ v \in Nat
      BY CountNat DEF IInv, NotAhead, InFlight, Updates
    <3>2. seen \in 0..Count /\ seen # 0 => seen \in Updates /\ now \in Updates
      BY CountNat DEF Updates
    <3>3. seen \in Updates /\ now \in Updates =>
            /\ FinPeriod[seen] <= FinPeriod[now]
            /\ FinPeriod[seen] \in Nat /\ FinPeriod[now] \in Nat
      BY PeriodsGrow, PeriodType
    <3>4. seen \in 0..Count /\ committee \in Nat
      BY <1>0 DEF TypeOK
    <3>5. seen' <= published' /\ \A v \in InFlight' : v <= seen'
      BY <1>0, <2>1, <2>4, <3>1, <3>4, CountNat DEF TypeOK
    <3>6. committee # 0 => now # 0 /\ committee <= FinPeriod[now]
      BY <3>2, <3>3, <3>4, CountNat DEF IInv, NotAhead, Updates
    <3>7. QED
      BY <2>1, <3>5, <3>6 DEF NotAhead
  <2>8. InStep'
    BY <2>1 DEF IInv, InStep
  <2>9. QED
    BY <2>3, <2>5, <2>6, <2>7, <2>8 DEF IInv
<1>3. QED
  BY <1>1, <1>2
-----------------------------------------------------------------------------
LEMMA InitInv == Init => IInv
<1> SUFFICES ASSUME Init PROVE IInv
  OBVIOUS
<1>1. TypeOK
  BY CountNat DEF Init, TypeOK
<1>2. InFlight = {}
  BY DEF Init, InFlight
<1>3. QED
  BY <1>1, <1>2, CountNat DEF Init, IInv, InStep, Companions, OnTheWay, Alone, NotAhead, InFlight

(* The watcher sees a new update: an overlapped handler, or one on its own   *)
(* that begins where the committee is.                                       *)
LEMMA PollInv == IInv /\ Poll => IInv'
<1> SUFFICES ASSUME IInv, Poll PROVE IInv'
  OBVIOUS
<1> DEFINE p == published
<1>1. /\ TypeOK /\ p \in Updates /\ p \in Nat /\ Count \in Nat
      /\ FinPeriod[p] \in Nat \ {0} /\ currentPeriod \in Nat /\ committee = currentPeriod
  <2>1. TypeOK /\ committee = currentPeriod
    BY DEF IInv, InStep
  <2>2. p \in 0..Count /\ p > 0 /\ currentPeriod \in Nat
    BY <2>1 DEF TypeOK, Poll
  <2>3. p \in Updates /\ p \in Nat /\ Count \in Nat
    BY <2>2, CountNat DEF Updates
  <2>4. FinPeriod[p] \in Nat \ {0}
    BY <2>3, PeriodType
  <2>5. QED
    BY <2>1, <2>2, <2>3, <2>4
<1>2. /\ overlapped' \in SUBSET Updates
      /\ overlapped \ {p} \subseteq overlapped'
      /\ InFlight # {} => InFlight \cup {p} \subseteq overlapped'
  BY <1>1 DEF TypeOK, Poll, InFlight
<1>3. UNCHANGED <<published, fails>>
  BY DEF Poll
<1>4. CASE FinPeriod[p] > currentPeriod
  <2>1. /\ stage' = [stage EXCEPT ![p] = "fetch"]
        /\ fetching' = [fetching EXCEPT ![p] = FirstFetch(FinPeriod[p])]
        /\ seen' = p
        /\ UNCHANGED <<committee, currentPeriod, accepted, refused>>
    BY <1>4 DEF Poll, Fetch
  <2>2. FirstFetch(FinPeriod[p]) \in 1..FinPeriod[p]
    BY <1>1, <1>4 DEF FirstFetch
  <2>3. /\ stage'[p] = "fetch" /\ fetching'[p] = FirstFetch(FinPeriod[p])
        /\ \A v \in Updates \ {p} : stage'[v] = stage[v] /\ fetching'[v] = fetching[v]
    BY <1>1, <2>1 DEF TypeOK
  <2>4. TypeOK'
    <3>1. stage' \in [Updates -> {"none", "fetch", "settle"}]
      BY <1>1, <2>1 DEF TypeOK
    <3>2. fetching' \in [Updates -> Nat]
      BY <1>1, <2>1, <2>2 DEF TypeOK
    <3>3. \A v \in Updates : stage'[v] # "none" => fetching'[v] \in 1..FinPeriod[v]
      BY <1>1, <2>2, <2>3 DEF TypeOK
    <3>4. seen' \in 0..Count /\ published' \in 0..Count
      BY <1>1, <1>3, <2>1 DEF TypeOK
    <3>5. QED
      BY <1>1, <1>2, <1>3, <2>1, <3>1, <3>2, <3>3, <3>4 DEF TypeOK
  <2>5. InFlight' = InFlight \cup {p}
    BY <1>1, <2>3 DEF InFlight
  <2>6. Companions'
    BY <1>2, <2>5 DEF Companions
  <2>7. OnTheWay'
    <3>1. CASE InFlight # {}
      <4>1. \A v \in Updates : ~Alone(v)'
        BY <1>2, <2>5, <3>1 DEF Alone, InFlight
      <4>2. QED
        BY <4>1 DEF OnTheWay
    <3>2. CASE InFlight = {}
      <4>1. \A v \in Updates : Alone(v)' => v = p
        BY <2>5, <3>2 DEF Alone, InFlight
      <4>2. committee' # 0 => fetching'[p] = committee' + 1
        BY <1>1, <2>1, <2>3 DEF FirstFetch
      <4>3. QED
        BY <2>3, <4>1, <4>2 DEF OnTheWay
    <3>3. QED
      BY <3>1, <3>2
  <2>8. NotAhead'
    <3>1. seen' <= published' /\ \A v \in InFlight' : v <= seen'
      BY <1>1, <1>3, <2>1, <2>5 DEF IInv, NotAhead, InFlight, Updates, TypeOK
    <3>2. committee' # 0 => seen' # 0 /\ committee' <= FinPeriod[seen']
      BY <1>1, <1>4, <2>1 DEF Updates
    <3>3. QED
      BY <3>1, <3>2 DEF NotAhead
  <2>9. InStep'
    BY <2>1 DEF IInv, InStep
  <2>10. QED
    BY <2>4, <2>6, <2>7, <2>8, <2>9 DEF IInv
<1>5. CASE ~(FinPeriod[p] > currentPeriod)
  <2>1. Verify(p, p)
    BY <1>5 DEF Poll
  <2>2. p \in 0..Count /\ seen <= p /\ p <= published
    BY <1>1 DEF IInv, NotAhead, Updates
  <2>3. InFlight \ {p} # {} => InFlight \ {p} \subseteq overlapped'
    BY <1>2
  <2>4. QED
    BY <1>1, <1>2, <1>3, <2>1, <2>2, <2>3, VerifyInv
<1>6. QED
  BY <1>4, <1>5

(* The committee of the period that was asked for arrives. *)
LEMMA FetchedInv == ASSUME IInv, NEW u \in Updates, Fetched(u) PROVE IInv'
<1>1. /\ stage[u] = "fetch" /\ u \in InFlight
      /\ committee' = fetching[u] /\ currentPeriod' = fetching[u]
      /\ stage' = [stage EXCEPT ![u] = "settle"]
      /\ UNCHANGED <<published, seen, fetching, accepted, refused, overlapped, fails>>
  BY DEF Fetched, history, InFlight
<1>2. TypeOK /\ fetching[u] \in Nat /\ fetching[u] \in 1..FinPeriod[u]
  BY <1>1 DEF IInv, TypeOK
<1>3. stage'[u] = "settle" /\ \A v \in Updates \ {u} : stage'[v] = stage[v]
  BY <1>1, <1>2 DEF TypeOK
<1>4. TypeOK'
  BY <1>1, <1>2, <1>3 DEF TypeOK
<1>5. InFlight' = InFlight
  BY <1>1, <1>3 DEF InFlight
<1>6. Companions'
  BY <1>1, <1>5 DEF IInv, Companions
<1>7. OnTheWay'
  <2>1. \A v \in Updates : Alone(v)' => v = u
    BY <1>1, <1>5 DEF IInv, Companions, Alone, InFlight
  <2>2. QED
    BY <1>1, <1>3, <2>1 DEF OnTheWay
<1>8. NotAhead'
  <2>1. /\ u <= seen /\ u \in Nat \ {0} /\ seen \in 0..Count /\ Count \in Nat
    BY <1>1, <1>2, CountNat DEF IInv, NotAhead, TypeOK, Updates
  <2>2. seen \in Updates
    BY <2>1 DEF Updates
  <2>3. FinPeriod[u] <= FinPeriod[seen]
    BY <2>1, <2>2, PeriodsGrow
  <2>4. FinPeriod[u] \in Nat /\ FinPeriod[seen] \in Nat
    BY <2>2, PeriodType
  <2>5. seen # 0 /\ fetching[u] <= FinPeriod[seen]
    BY <1>2, <2>1, <2>3, <2>4
  <2>6. QED
    BY <1>1, <1>5, <2>5 DEF IInv, NotAhead
<1>9. InStep'
  BY <1>1 DEF InStep
<1>10. QED
  BY <1>4, <1>6, <1>7, <1>8, <1>9 DEF IInv

(* The next period is asked for, or the handler ends. *)
LEMMA SettledInv == ASSUME IInv, NEW u \in Updates, Settled(u) PROVE IInv'
<1>1. /\ TypeOK /\ stage[u] = "settle" /\ u \in InFlight
      /\ UNCHANGED <<published, overlapped, fails>>
  BY DEF IInv, Settled, InFlight
<1>2. /\ fetching[u] \in 1..FinPeriod[u] /\ fetching[u] \in Nat /\ FinPeriod[u] \in Nat
      /\ committee \in Nat
  BY <1>1, PeriodType DEF TypeOK
<1>3. CASE fetching[u] < FinPeriod[u]
  <2>1. /\ stage' = [stage EXCEPT ![u] = "fetch"]
        /\ fetching' = [fetching EXCEPT ![u] = fetching[u] + 1]
        /\ UNCHANGED <<seen, committee, currentPeriod, accepted, refused>>
    BY <1>3 DEF Settled, Fetch
  <2>2. /\ stage'[u] = "fetch" /\ fetching'[u] = fetching[u] + 1
        /\ \A v \in Updates \ {u} : stage'[v] = stage[v] /\ fetching'[v] = fetching[v]
    BY <1>1, <2>1 DEF TypeOK
  <2>3. TypeOK'
    <3>1. stage' \in [Updates -> {"none", "fetch", "settle"}]
      BY <1>1, <2>1 DEF TypeOK
    <3>2. fetching' \in [Updates -> Nat]
      BY <1>1, <1>2, <2>1 DEF TypeOK
    <3>3. \A v \in Updates : stage'[v] # "none" => fetching'[v] \in 1..FinPeriod[v]
      BY <1>1, <1>2, <1>3, <2>2 DEF TypeOK
    <3>4. QED
      BY <1>1, <2>1, <3>1, <3>2, <3>3 DEF TypeOK
  <2>4. InFlight' = InFlight
    BY <1>1, <2>2 DEF InFlight
  <2>5. Companions'
    BY <1>1, <2>4 DEF IInv, Companions
  <2>6. OnTheWay'
    <3>1. \A v \in Updates : Alone(v)' => v = u /\ Alone(u)
      BY <1>1, <2>4 DEF IInv, Companions, Alone, InFlight
    <3>2. Alone(u) => fetching'[u] = committee' + 1
      BY <1>1, <2>1, <2>2 DEF IInv, OnTheWay
    <3>3. QED
      BY <2>2, <3>1, <3>2 DEF OnTheWay
  <2>7. NotAhead' /\ InStep'
    BY <1>1, <2>1, <2>4 DEF IInv, NotAhead, InStep
  <2>8. QED
    BY <2>3, <2>5, <2>6, <2>7 DEF IInv
<1>4. CASE ~(fetching[u] < FinPeriod[u])
  <2>1. Verify(u, seen) /\ seen \in 0..Count /\ seen <= seen /\ seen <= published
    BY <1>1, <1>4 DEF Settled, TypeOK, IInv, NotAhead
  <2>2. overlapped' \in SUBSET Updates /\ overlapped \ {u} \subseteq overlapped'
    BY <1>1 DEF TypeOK
  <2>3. InFlight \ {u} # {} => InFlight \ {u} \subseteq overlapped'
    BY <1>1 DEF IInv, Companions
  <2>4. QED
    BY <1>1, <2>1, <2>2, <2>3, VerifyInv
<1>5. QED
  BY <1>3, <1>4

LEMMA NextInv == IInv /\ [Next]_vars => IInv'
<1> SUFFICES ASSUME IInv, [Next]_vars PROVE IInv'
  OBVIOUS
<1>1. CASE Publish
  <2>1. /\ published' = published + 1 /\ published < Count
        /\ UNCHANGED <<process, history, fails>>
    BY <1>1 DEF Publish
  <2>2. published' \in 0..Count /\ published <= published' /\ published \in Nat
    BY <2>1, CountNat DEF IInv, TypeOK
  <2>3. TypeOK'
    BY <2>1, <2>2 DEF IInv, TypeOK, process, history
  <2>4. InFlight' = InFlight
    BY <2>1 DEF InFlight, process
  <2>5. NotAhead'
    BY <2>1, <2>2, <2>4, CountNat DEF IInv, TypeOK, NotAhead, process
  <2>6. QED
    BY <2>1, <2>3, <2>4, <2>5
      DEF IInv, InStep, Companions, OnTheWay, Alone, process, history
<1>2. CASE Poll
  BY <1>2, PollInv
<1>3. ASSUME NEW u \in Updates, Handle(u) PROVE IInv'
  BY <1>3, FetchedInv, SettledInv DEF Handle
<1>4. ASSUME NEW u \in Updates, RequestFails(u) PROVE IInv'
  <2>1. Restart /\ UNCHANGED <<published, accepted, refused, overlapped>>
    BY <1>4 DEF RequestFails, history
  <2>2. fails' \in 0..MaxFails
    BY <1>4, CountNat DEF RequestFails, IInv, TypeOK
  <2>3. /\ published' \in 0..Count /\ published <= published'
        /\ accepted' \in SUBSET Updates /\ refused' \in SUBSET Updates
        /\ overlapped' \in SUBSET Updates
    BY <2>1, CountNat DEF IInv, TypeOK
  <2>4. QED
    BY <2>1, <2>2, <2>3, RestartInv
<1>5. CASE UNCHANGED vars
  BY <1>5 DEF vars, IInv, TypeOK, InStep, Companions, OnTheWay, Alone, NotAhead, InFlight
<1>6. QED
  BY <1>1, <1>2, <1>3, <1>4, <1>5 DEF Next

(* The inductive invariant. *)
THEOREM Invariance == Spec => []IInv
  BY InitInv, NextInv, PTL DEF Spec

(* The fields of the service keep their types, and no handler fetches a     *)
(* period beyond that of its finalised header.                              *)
THEOREM TypeCorrect == Spec => []TypeOK
<1>1. IInv => TypeOK
  BY DEF IInv
<1>2. QED
  BY <1>1, Invariance, PTL

(* How a handler that verifies at the end of its own way finds the committee: *)
(* it is that of its finalised header's period.                               *)
LEMMA ArrivedAlone ==
  ASSUME IInv, NEW u \in Updates, stage[u] = "settle", u \notin overlapped,
         ~(fetching[u] < FinPeriod[u])
  PROVE  committee = FinPeriod[u]
<1>1. fetching[u] \in 1..FinPeriod[u] /\ FinPeriod[u] \in Nat
  BY PeriodType DEF IInv, TypeOK
<1>2. committee = fetching[u]
  BY DEF IInv, OnTheWay, Alone
<1>3. QED
  BY <1>1, <1>2

(* The same for an update whose period is the current one already. *)
LEMMA ThereAlready ==
  ASSUME IInv, published \in Updates, ~(FinPeriod[published] > currentPeriod)
  PROVE  committee = FinPeriod[published]
<1>1. /\ seen \in 0..Count /\ Count \in Nat /\ currentPeriod \in Nat
      /\ committee = currentPeriod /\ seen <= published
      /\ committee # 0 => seen # 0 /\ committee <= FinPeriod[seen]
  BY CountNat DEF IInv, InStep, NotAhead, TypeOK
<1>2. FinPeriod[published] \in Nat \ {0}
  BY PeriodType
<1>3. committee # 0
  BY <1>1, <1>2
<1>4. seen \in Updates
  BY <1>1, <1>3 DEF Updates
<1>5. FinPeriod[seen] <= FinPeriod[published] /\ FinPeriod[seen] \in Nat
  BY <1>1, <1>4, PeriodsGrow, PeriodType
<1>6. QED
  BY <1>1, <1>2, <1>3, <1>5

(* An update is rejected only where a period ends or because handlers       *)
(* overlapped: a handler on its own arrives at the committee of its period. *)
THEOREM RejectionsExplained == Spec => RefusedOnlyAtBoundary
<1>1. IInv /\ [Next]_vars => [refused' \ refused \subseteq AtBoundary \cup overlapped']_vars
  <2> SUFFICES ASSUME IInv, [Next]_vars
               PROVE  refused' \ refused \subseteq AtBoundary \cup overlapped'
    OBVIOUS
  <2>1. CASE Publish
    BY <2>1 DEF Publish, history
  <2>2. CASE Poll
    <3>1. published \in Updates
      <4>1. published \in 0..Count /\ published > 0 /\ Count \in Nat
        BY <2>2, CountNat DEF Poll, IInv, TypeOK
      <4>2. QED
        BY <4>1 DEF Updates
    <3>2. CASE FinPeriod[published] > currentPeriod
      BY <2>2, <3>2 DEF Poll
    <3>3. CASE ~(FinPeriod[published] > currentPeriod)
      <4>1. Verify(published, published)
        BY <2>2, <3>3 DEF Poll
      <4>2. committee = FinPeriod[published]
        BY <3>1, <3>3, ThereAlready
      <4>3. QED
        BY <3>1, <4>1, <4>2 DEF Verify, AtBoundary
    <3>4. QED
      BY <3>2, <3>3
  <2>3. ASSUME NEW u \in Updates, Fetched(u)
        PROVE  refused' \ refused \subseteq AtBoundary \cup overlapped'
    BY <2>3 DEF Fetched, history
  <2>4. ASSUME NEW u \in Updates, Settled(u)
        PROVE  refused' \ refused \subseteq AtBoundary \cup overlapped'
    <3>1. CASE fetching[u] < FinPeriod[u]
      BY <2>4, <3>1 DEF Settled
    <3>2. CASE ~(fetching[u] < FinPeriod[u])
      <4>1. Verify(u, seen) /\ overlapped' = overlapped /\ stage[u] = "settle"
        BY <2>4, <3>2 DEF Settled
      <4>2. u \in overlapped \/ committee = FinPeriod[u]
        BY <3>2, <4>1, ArrivedAlone
      <4>3. QED
        BY <4>1, <4>2 DEF Verify, AtBoundary
    <3>3. QED
      BY <3>1, <3>2
  <2>5. ASSUME NEW u \in Updates, RequestFails(u)
        PROVE  refused' \ refused \subseteq AtBoundary \cup overlapped'
    BY <2>5 DEF RequestFails, history
  <2>6. CASE UNCHANGED vars
    BY <2>6 DEF vars
  <2>7. QED
    BY <2>1, <2>2, <2>3, <2>4, <2>5, <2>6 DEF Next, Handle
<1>2. QED
  BY <1>1, Invariance, PTL DEF Spec, RefusedOnlyAtBoundary

(* A committee gives way to the next one only, unless an overtaken handler  *)
(* replaces it.                                                             *)
THEOREM NoPeriodSkipped == Spec => CommitteeStepsByOne
<1> DEFINE Stepped == committee # 0 /\ committee' > committee =>
                        \/ committee' = committee + 1
                        \/ \E u \in overlapped : stage[u] = "fetch" /\ stage'[u] = "settle"
<1>1. IInv /\ [Next]_vars => [Stepped]_vars
  <2> SUFFICES ASSUME IInv, [Next]_vars PROVE Stepped
    OBVIOUS
  <2>0. committee \in Nat
    BY DEF IInv, TypeOK
  <2>1. ASSUME committee' = committee \/ committee' = 0 PROVE Stepped
    BY <2>0, <2>1
  <2>2. ASSUME NEW u \in Updates, NEW now, Verify(u, now) PROVE Stepped
    BY <2>1, <2>2 DEF Verify, Restart
  <2>3. CASE Publish
    BY <2>1, <2>3 DEF Publish, process
  <2>4. CASE Poll
    <3>1. published \in Updates
      <4>1. published \in 0..Count /\ published > 0 /\ Count \in Nat
        BY <2>4, CountNat DEF Poll, IInv, TypeOK
      <4>2. QED
        BY <4>1 DEF Updates
    <3>2. committee' = committee \/ Verify(published, published)
      BY <2>4 DEF Poll
    <3>3. QED
      BY <2>1, <2>2, <3>1, <3>2
  <2>5. ASSUME NEW u \in Updates, Fetched(u) PROVE Stepped
    <3>1. /\ stage[u] = "fetch" /\ committee' = fetching[u]
          /\ stage' = [stage EXCEPT ![u] = "settle"]
      BY <2>5 DEF Fetched
    <3>2. stage'[u] = "settle"
      BY <3>1 DEF IInv, TypeOK
    <3>3. CASE u \in overlapped
      BY <3>1, <3>2, <3>3
    <3>4. CASE u \notin overlapped
      BY <3>1, <3>4 DEF IInv, OnTheWay, Alone
    <3>5. QED
      BY <3>3, <3>4
  <2>6. ASSUME NEW u \in Updates, Settled(u) PROVE Stepped
    <3>1. committee' = committee \/ Verify(u, seen)
      BY <2>6 DEF Settled
    <3>2. QED
      BY <2>1, <2>2, <3>1
  <2>7. ASSUME NEW u \in Updates, RequestFails(u) PROVE Stepped
    BY <2>1, <2>7 DEF RequestFails, Restart
  <2>8. CASE UNCHANGED vars
    BY <2>1, <2>8 DEF vars
  <2>9. QED
    BY <2>3, <2>4, <2>5, <2>6, <2>7, <2>8 DEF Next, Handle
<1>2. QED
  BY <1>1, Invariance, PTL DEF Spec, CommitteeStepsByOne
=============================================================================
