-------------------------- MODULE ProofRequestsProofs --------------------------
(* Proofs about ProofRequests for any blocks, any number of signatures, any   *)
(* way to make bags of cells of a block and any check of them: the steps that *)
(* are kept can be read again, and the contract is fed in the right order.    *)
EXTENDS ProofRequests, FiniteSetTheorems, SequenceTheorems, TLAPS

IsSequence(s) == \E S : s \in Seq(S)
IsStep(s) == \E type, block, bocs, signatures, tx, hash :
               s = Step(type, block, bocs, signatures, tx, hash)
IsState(p) == p = [ok |-> TRUE, steps |-> p.steps, state |-> p.state]

Typed ==
  /\ request \in Requests
  /\ pc \in {"build", "add", "send", "done", "threw"}
  /\ pc \in {"add", "send"} => IsStep(step)
  /\ IsState(proven) /\ IsSequence(proven.steps)
  /\ IsSequence(calls)

(* What fromJSON computes is told by its equation: the equation has solutions,*)
(* and all of them agree on the last value.                                   *)
Solves(f, steps) ==
  f = [n \in 0..Len(steps) |-> IF n = 0 THEN Fresh ELSE add(f[n - 1], Restored(steps[n]))]
Replays(steps, p) ==
  /\ \E f : Solves(f, steps)
  /\ \A f : Solves(f, steps) => f[Len(steps)] = p

(* The steps as they come back, with the same outcome.                        *)
Again == [ok |-> TRUE,
          steps |-> [i \in 1..Len(proven.steps) |-> Restored(proven.steps[i])],
          state |-> proven.state]
Replayed == Replays(proven.steps, Again)

ReplayIInv == Typed /\ Replayed
-----------------------------------------------------------------------------
(* Appending to a sequence, whatever its elements are.                        *)
LEMMA SequenceGrows ==
  ASSUME NEW s, IsSequence(s), NEW e
  PROVE  /\ IsSequence(Append(s, e))
         /\ Len(s) \in Nat /\ Len(Append(s, e)) = Len(s) + 1
         /\ DOMAIN s = 1..Len(s) /\ DOMAIN Append(s, e) = 1..(Len(s) + 1)
         /\ \A i \in 1..Len(s) : Append(s, e)[i] = s[i]
         /\ Append(s, e)[Len(s) + 1] = e
<1>1. PICK S : s \in Seq(S)
  BY DEF IsSequence
<1> DEFINE T == S \cup {e}
<1>2. s \in Seq(T) /\ e \in T
  BY <1>1, SeqMonotonic
<1>3. Append(s, e) \in Seq(T)
  BY <1>2, AppendProperties
<1>4. DOMAIN s = 1..Len(s) /\ Len(s) \in Nat
  BY <1>2, LenProperties
<1>5. DOMAIN Append(s, e) = 1..Len(Append(s, e))
  BY <1>3, LenProperties
<1> HIDE DEF T
<1>6. QED
  BY <1>2, <1>3, <1>4, <1>5, AppendProperties DEF IsSequence

(* The empty sequence is one.                                                 *)
LEMMA NoElements == IsSequence(<< >>) /\ Len(<< >>) = 0
BY EmptySeq DEF IsSequence

(* A step is checked alike before it is written and after it is read.         *)
LEMMA CheckedAlike ==
  ASSUME NEW s, IsStep(s), NEW st
  PROVE  check(Restored(s), st) = check(s, st)
<1>1. PICK type, block, bocs, signatures, tx, hash :
        s = Step(type, block, bocs, signatures, tx, hash)
  BY DEF IsStep
<1>2. /\ Restored(s).type = s.type /\ Restored(s).block = s.block
      /\ Restored(s).bocs = s.bocs /\ Restored(s).tx = s.tx
      /\ Restored(s).hash = s.hash
  BY <1>1 DEF Step, Restored
<1>3. checkShardState(Restored(s)) = checkShardState(s)
  BY <1>2 DEF checkShardState
<1>4. checkShardBlock(Restored(s), st) = checkShardBlock(s, st)
  BY <1>2 DEF checkShardBlock
<1>5. QED
  BY <1>2, <1>3, <1>4 DEF check

(* No steps make a fresh state.                                               *)
LEMMA ReplayOfNone == Replays(<< >>, Fresh)
<1>1. Len(<< >>) = 0
  BY NoElements
<1> DEFINE f == [n \in 0..0 |-> Fresh]
<1>2. Solves(f, << >>)
  BY <1>1 DEF Solves
<1>3. ASSUME NEW g, Solves(g, << >>) PROVE g[0] = Fresh
  BY <1>1, <1>3 DEF Solves
<1>4. QED
  BY <1>1, <1>2, <1>3 DEF Replays

(* One more step is added to what the steps before it make.                   *)
LEMMA ReplayOfOneMore ==
  ASSUME NEW steps, IsSequence(steps), NEW s, NEW p, Replays(steps, p)
  PROVE  Replays(Append(steps, s), add(p, Restored(s)))
<1> DEFINE more == Append(steps, s)
           N == Len(steps)
           q == add(p, Restored(s))
<1>1. N \in Nat /\ Len(more) = N + 1 /\ more[N + 1] = s /\ \A i \in 1..N : more[i] = steps[i]
  BY SequenceGrows
<1> HIDE DEF more, N
<1>2. \E g : Solves(g, more)
  <2>1. PICK f : Solves(f, steps)
    BY DEF Replays
  <2>2. f[N] = p
    BY <2>1 DEF Replays, N
  <2> DEFINE g == [n \in 0..(N + 1) |-> IF n = N + 1 THEN q ELSE f[n]]
  <2>3. ASSUME NEW n \in 0..(N + 1)
        PROVE  g[n] = IF n = 0 THEN Fresh ELSE add(g[n - 1], Restored(more[n]))
    <3>1. CASE n = N + 1
      <4>1. g[n] = q /\ g[n - 1] = p /\ more[n] = s /\ n # 0
        BY <1>1, <2>2, <3>1
      <4>2. QED
        BY <4>1
    <3>2. CASE n # N + 1
      <4>1. n \in 0..N /\ g[n] = f[n]
        BY <1>1, <3>2
      <4>2. f[n] = IF n = 0 THEN Fresh ELSE add(f[n - 1], Restored(steps[n]))
        BY <2>1, <4>1 DEF Solves, N
      <4>3. n # 0 => g[n - 1] = f[n - 1] /\ more[n] = steps[n]
        BY <1>1, <4>1
      <4>4. QED
        BY <4>1, <4>2, <4>3
    <3>3. QED
      BY <3>1, <3>2
  <2>4. DOMAIN g = 0..(N + 1)
    OBVIOUS
  <2> HIDE DEF g
  <2>5. g = [n \in 0..(N + 1) |-> g[n]]
    BY DEF g
  <2>6. g = [n \in 0..(N + 1) |-> IF n = 0 THEN Fresh ELSE add(g[n - 1], Restored(more[n]))]
    BY <2>3, <2>5
  <2>7. QED
    BY <1>1, <2>6 DEF Solves
<1>3. ASSUME NEW g, Solves(g, more) PROVE g[N + 1] = q
  <2> DEFINE f == [n \in 0..N |-> g[n]]
  <2>1. g = [n \in 0..(N + 1) |-> IF n = 0 THEN Fresh ELSE add(g[n - 1], Restored(more[n]))]
    BY <1>1, <1>3 DEF Solves
  <2>2. ASSUME NEW n \in 0..N
        PROVE  f[n] = IF n = 0 THEN Fresh ELSE add(f[n - 1], Restored(steps[n]))
    <3>1. f[n] = IF n = 0 THEN Fresh ELSE add(g[n - 1], Restored(more[n]))
      BY <1>1, <2>1
    <3>2. n # 0 => f[n - 1] = g[n - 1] /\ more[n] = steps[n]
      BY <1>1
    <3>3. QED
      BY <3>1, <3>2
  <2>3. f = [n \in 0..N |-> IF n = 0 THEN Fresh ELSE add(f[n - 1], Restored(steps[n]))]
    BY <2>2
  <2>4. Solves(f, steps)
    BY <2>3 DEF Solves, N
  <2>5. f[N] = p
    BY <2>4 DEF Replays, N
  <2>6. g[N] = p
    BY <1>1, <2>5
  <2>7. g[N + 1] = add(g[N], Restored(more[N + 1]))
    BY <1>1, <2>1
  <2>8. QED
    BY <1>1, <2>6, <2>7
<1>4. QED
  BY <1>1, <1>2, <1>3 DEF Replays, more

(* What the equation tells is what fromJSON gives.                            *)
LEMMA ReplayIsFromJSON ==
  ASSUME NEW steps, NEW p, Replays(steps, p)
  PROVE  fromJSON(steps) = p
BY DEF fromJSON, Replays, Solves
-----------------------------------------------------------------------------
(* What is added to: nothing but a step that is accepted changes it.          *)
LEMMA AddRefused ==
  ASSUME IsState(proven), ~check(step, proven.state).ok
  PROVE  [add(proven, step) EXCEPT !.ok = TRUE] = proven
<1>1. add(proven, step) = [proven EXCEPT !.ok = FALSE]
  BY DEF add, Checked
<1>2. add(proven, step) = [ok |-> FALSE, steps |-> proven.steps, state |-> proven.state]
  BY <1>1 DEF IsState
<1>3. QED
  BY <1>2 DEF IsState

LEMMA AddAccepted ==
  ASSUME IsState(proven), check(step, proven.state).ok
  PROVE  /\ add(proven, step).ok
         /\ [add(proven, step) EXCEPT !.ok = TRUE] =
              [ok |-> TRUE, steps |-> Append(proven.steps, step),
               state |-> Merge(proven.state, check(step, proven.state).update)]
<1> DEFINE yes == TRUE
           kept == Append(proven.steps, step)
           st == Merge(proven.state, check(step, proven.state).update)
           old == [ok |-> yes, steps |-> proven.steps, state |-> proven.state]
           new == [ok |-> yes, steps |-> kept, state |-> st]
<1>1. add(proven, step) = [proven EXCEPT !.steps = kept, !.state = st]
  BY DEF add, Checked
<1>2. proven = old
  BY DEF IsState
<1> HIDE DEF yes, kept, st
<1> DEFINE half == [ok |-> yes, steps |-> kept, state |-> proven.state]
<1>3. [old EXCEPT !.steps = kept] = half
  OBVIOUS
<1>4. [old EXCEPT !.steps = kept, !.state = st] = new
  <2>1. [half EXCEPT !.state = st] = new
    OBVIOUS
  <2> HIDE DEF half, old, new
  <2>2. QED
    BY <1>3, <2>1
<1>5. [new EXCEPT !.ok = yes] = new /\ new.ok = yes
  OBVIOUS
<1> HIDE DEF old, new
<1>6. add(proven, step) = new
  BY <1>1, <1>2, <1>4
<1>7. QED
  BY <1>5, <1>6 DEF new, kept, st, yes

(* The contract's calls append to the calls and touch nothing else.           *)
LEMMA CallTyped ==
  ASSUME Typed, NEW call, NEW boc, NEW nodes, Call(call, boc, nodes), pc' \in {"send", "done"},
         pc = "send"
  PROVE  Typed'
<1>1. IsSequence(calls')
  BY SequenceGrows DEF Typed, Call
<1>2. QED
  BY <1>1 DEF Typed, Call

(* A request builds its step and fails, or goes on to the check.              *)
LEMMA BuiltTyped ==
  ASSUME Typed, NEW s, IsStep(s), Built(s)
  PROVE  Typed'
BY DEF Typed, Built

LEMMA FailsTyped ==
  ASSUME Typed, Fails
  PROVE  Typed'
BY DEF Typed, Fails

LEMMA InitTyped == Init => Typed
BY NoElements DEF Init, Typed, Fresh, IsState

(* The step that is checked, kept when the check does not throw.              *)
LEMMA AddTyped ==
  ASSUME Typed, Add
  PROVE  Typed'
<1>1. pc = "add" /\ proven' = [add(proven, step) EXCEPT !.ok = TRUE]
  BY DEF Add
<1>2. pc' \in {"build", "add", "send", "done", "threw"}
  BY DEF Add
<1>3. request' = request /\ calls' = calls
  BY DEF Add
<1>4. pc' = "send" => request.flow # "chain" /\ step' = step
  BY DEF Add
<1>5. pc' # "add"
  BY DEF Add
<1>6. IsState(proven') /\ IsSequence(proven'.steps)
  <2>1. CASE check(step, proven.state).ok
    <3>1. proven' = [ok |-> TRUE, steps |-> Append(proven.steps, step),
                     state |-> Merge(proven.state, check(step, proven.state).update)]
      BY <1>1, <2>1, AddAccepted DEF Typed
    <3>2. IsSequence(Append(proven.steps, step))
      BY SequenceGrows DEF Typed
    <3>3. QED
      BY <3>1, <3>2 DEF IsState
  <2>2. CASE ~check(step, proven.state).ok
    BY <1>1, <2>2, AddRefused DEF Typed
  <2>3. QED
    BY <2>1, <2>2
<1>7. QED
  BY <1>1, <1>2, <1>3, <1>4, <1>5, <1>6 DEF Typed

(* Type correctness of a step: by the action that is taken.                   *)
LEMMA NextTyped ==
  ASSUME Typed, [Next]_vars
  PROVE  Typed'
<1>1. ASSUME NEW flow, NEW type, BuildValidators(flow, type) PROVE Typed'
  <2>1. PICK bocs \in {ValidatorsData(request.block, request.split)} :
          IF bocs # << >> THEN Built(Step(type, 0, bocs, Signed, <<0, 0>>, << >>)) ELSE Fails
    BY <1>1 DEF BuildValidators
  <2>2. IsStep(Step(type, 0, bocs, Signed, <<0, 0>>, << >>))
    BY DEF IsStep
  <2>3. QED
    BY <2>1, <2>2, BuiltTyped, FailsTyped
<1>2. CASE PSSetValidators \/ PSProofValidators
  BY <1>1, <1>2 DEF PSSetValidators, PSProofValidators
<1>3. CASE PSTransaction
  <2>1. PICK bocs \in {TransactionData(request.block, request.tx)} :
          IF bocs # << >>
          THEN Built(Step("tx-proof", 0, bocs, << >>, request.tx, <<TransactionHash(request.tx)>>))
          ELSE Fails
    BY <1>3 DEF PSTransaction
  <2>2. IsStep(Step("tx-proof", 0, bocs, << >>, request.tx, <<TransactionHash(request.tx)>>))
    BY DEF IsStep
  <2>3. QED
    BY <2>1, <2>2, BuiltTyped, FailsTyped
<1>4. CASE PSNewStateHash
  <2>1. IsStep(Step("state-hash", 0, <<StateData(request.block)>>, << >>, <<0, 0>>, << >>))
    BY DEF IsStep
  <2>2. QED
    BY <1>4, <2>1, BuiltTyped DEF PSNewStateHash
<1>5. ASSUME NEW type, NEW b, PSShard(type, b) PROVE Typed'
  <2>1. IsStep(Step(type, b, << >>, << >>, <<0, 0>>, << >>))
    BY DEF IsStep
  <2>2. QED
    BY <1>5, <2>1, BuiltTyped DEF PSShard
<1>6. CASE Add
  BY <1>6, AddTyped
<1>7. CASE ParseCandidatesRootBlock
  BY <1>7, CallTyped DEF ParseCandidatesRootBlock
<1>8. CASE ParsePartValidators
  BY <1>8, CallTyped DEF ParsePartValidators
<1>9. CASE VerifyValidators
  BY <1>9, CallTyped DEF VerifyValidators
<1>10. CASE InitValidators
  BY <1>10, CallTyped DEF InitValidators
<1>11. CASE SetValidatorSet
  BY <1>11, CallTyped DEF SetValidatorSet
<1>12. CASE CallFails
  BY <1>12 DEF CallFails, Typed
<1>13. CASE UNCHANGED vars
  BY <1>13 DEF vars, Typed
<1>14. QED
  BY <1>2, <1>3, <1>4, <1>5, <1>6, <1>7, <1>8, <1>9, <1>10, <1>11, <1>12, <1>13 DEF Next

(* A request is a request, a step a record, and what is kept a sequence.      *)
THEOREM TypeCorrect == Spec => []Typed
BY InitTyped, NextTyped, PTL DEF Spec

(* Only Add changes what is proven.                                           *)
LEMMA KeptElsewhere ==
  ASSUME [Next]_vars, ~Add
  PROVE  proven' = proven
BY DEF Next, vars, PSSetValidators, PSProofValidators, BuildValidators, PSTransaction,
       PSNewStateHash, PSShard, Built, Fails, ParseCandidatesRootBlock, ParsePartValidators,
       VerifyValidators, InitValidators, SetValidatorSet, CallFails, Call

(* What is replayed keeps up with what is proven.                             *)
LEMMA AddReplayed ==
  ASSUME Typed, Replayed, Add
  PROVE  Replayed'
<1>1. pc = "add" /\ proven' = [add(proven, step) EXCEPT !.ok = TRUE]
  BY DEF Add
<1>2. IsStep(step) /\ IsState(proven) /\ IsSequence(proven.steps)
  BY <1>1 DEF Typed
<1>3. CASE ~check(step, proven.state).ok
  <2>1. proven' = proven
    BY <1>1, <1>2, <1>3, AddRefused
  <2>2. QED
    BY <2>1 DEF Replayed, Again
<1>4. CASE check(step, proven.state).ok
  <2> DEFINE N == Len(proven.steps)
             st == Merge(proven.state, check(step, proven.state).update)
  <2>1. proven' = [ok |-> TRUE, steps |-> Append(proven.steps, step), state |-> st]
    BY <1>1, <1>2, <1>4, AddAccepted
  <2>2. check(Restored(step), Again.state) = check(step, proven.state)
    BY <1>2, CheckedAlike DEF Again
  <2>3. add(Again, Restored(step)) =
          [ok |-> TRUE, steps |-> Append(Again.steps, Restored(step)), state |-> st]
    BY <1>4, <2>2 DEF add, Checked, Again
  <2>4. Append(Again.steps, Restored(step)) =
          [i \in 1..(N + 1) |-> Restored(Append(proven.steps, step)[i])]
    <3>1. N \in Nat
      BY <1>2, SequenceGrows
    <3>2. IsSequence(Again.steps) /\ Len(Again.steps) = N
      <4> DEFINE T == {Restored(proven.steps[i]) : i \in 1..N}
      <4>1. Again.steps \in [1..N -> T]
        BY DEF Again
      <4>2. Again.steps \in Seq(T)
        BY <3>1, <4>1, SeqDef
      <4>3. DOMAIN Again.steps = 1..N
        BY DEF Again
      <4>4. Len(Again.steps) = N
        BY <3>1, <4>2, <4>3, LenProperties
      <4>5. QED
        BY <4>2, <4>4 DEF IsSequence
    <3> DEFINE a == Append(Again.steps, Restored(step))
               b == Append(proven.steps, step)
    <3>3. /\ IsSequence(a) /\ DOMAIN a = 1..(N + 1)
          /\ \A i \in 1..N : a[i] = Again.steps[i]
          /\ a[N + 1] = Restored(step)
      BY <3>2, SequenceGrows
    <3>4. b[N + 1] = step /\ \A i \in 1..N : b[i] = proven.steps[i]
      BY <1>2, SequenceGrows
    <3>5. \A i \in 1..N : Again.steps[i] = Restored(proven.steps[i])
      BY DEF Again
    <3>6. \A i \in 1..(N + 1) : a[i] = Restored(b[i])
      <4> HIDE DEF a, b, N
      <4>1. QED
        BY <3>1, <3>3, <3>4, <3>5
    <3>7. a = [i \in DOMAIN a |-> a[i]]
      <4>1. PICK T : a \in Seq(T)
        BY <3>3 DEF IsSequence
      <4> HIDE DEF a
      <4>2. QED
        BY <4>1, LenProperties
    <3> HIDE DEF a, b
    <3>8. a = [i \in 1..(N + 1) |-> Restored(b[i])]
      BY <3>3, <3>6, <3>7
    <3>9. QED
      BY <3>8 DEF a, b
  <2>5. Again' = add(Again, Restored(step))
    <3>1. Len(Append(proven.steps, step)) = N + 1
      BY <1>2, SequenceGrows
    <3>2. QED
      BY <2>1, <2>3, <2>4, <3>1 DEF Again
  <2>6. Replays(Append(proven.steps, step), add(Again, Restored(step)))
    BY <1>2, ReplayOfOneMore DEF Replayed
  <2>7. QED
    BY <2>1, <2>5, <2>6 DEF Replayed
<1>5. QED
  BY <1>3, <1>4

(* No step is the replay of a fresh state.                                    *)
LEMMA InitReplayed == Init => Replayed
<1>1. SUFFICES ASSUME Init PROVE Replayed
  OBVIOUS
<1>2. proven = Fresh /\ proven.steps = << >>
  BY <1>1 DEF Init, Fresh
<1>3. Again = [ok |-> TRUE, steps |-> << >>, state |-> proven.state]
  <2>1. Again.steps \in [{} -> {}]
    BY <1>2, NoElements DEF Again
  <2>2. Again.steps = << >>
    BY <2>1
  <2>3. QED
    BY <2>2 DEF Again
<1>4. QED
  BY <1>2, <1>3, ReplayOfNone DEF Replayed, Fresh

LEMMA NextReplayed ==
  ASSUME Typed, Replayed, [Next]_vars
  PROVE  Replayed'
<1>1. CASE Add
  BY <1>1, AddReplayed
<1>2. CASE ~Add
  <2>1. proven' = proven
    BY <1>2, KeptElsewhere
  <2>2. QED
    BY <2>1 DEF Replayed, Again
<1>3. QED
  BY <1>1, <1>2

(* At every moment, not only between two steps, what fromJSON makes of the    *)
(* steps as they are written is the state that was proven, with those steps.  *)
RestoredWhole == fromJSON(proven.steps) = Again

THEOREM WrittenIsRestored == Spec => []RestoredWhole
<1>1. Replayed => RestoredWhole
  BY ReplayIsFromJSON DEF Replayed, RestoredWhole
<1>2. QED
  BY <1>1, InitTyped, NextTyped, InitReplayed, NextReplayed, PTL DEF Spec

(* The steps that were kept are accepted again, to the same state.            *)
THEOREM KeptIsReplayed == Spec => []ReplayAgrees
<1>1. Typed /\ RestoredWhole => ReplayAgrees
  <2>1. SUFFICES ASSUME Typed, RestoredWhole PROVE ReplayAgrees
    OBVIOUS
  <2>2. Len(Again.steps) = Len(proven.steps)
    <3> DEFINE N == Len(proven.steps)
               T == {Restored(proven.steps[i]) : i \in 1..N}
    <3>1. N \in Nat
      BY <2>1, SequenceGrows DEF Typed
    <3>2. Again.steps \in [1..N -> T]
      BY DEF Again
    <3>3. Again.steps \in Seq(T)
      BY <3>1, <3>2, SeqDef
    <3>4. QED
      BY <3>1, <3>2, <3>3, LenProperties
  <2>3. QED
    BY <2>1, <2>2 DEF ReplayAgrees, RestoredWhole, Again
<1>2. QED
  BY <1>1, TypeCorrect, WrittenIsRestored, PTL
-----------------------------------------------------------------------------
(* What a request is about to check was made for it, and no request but that  *)
(* of a chain has a step before.                                              *)
Validating == request.flow \in {"init", "update"}
OfRequest ==
  /\ pc \in {"build", "add", "threw"} => calls = << >>
  /\ pc \in {"build", "add"} /\ request.flow # "chain" => proven = Fresh
  /\ pc = "add" /\ Validating =>
       /\ step.type \in {"set-validators", "proof-validators"}
       /\ step.bocs = ValidatorsData(request.block, request.split) /\ step.bocs # << >>
       /\ step.signatures = Signed

(* What is sent was made of the block that the request names, all of it can   *)
(* be read, its check did not throw, and what that found is what is proven.   *)
AcceptedOf(bocs) ==
  /\ bocs # << >> /\ bocs = ValidatorsData(request.block, request.split)
  /\ \A i \in DOMAIN bocs : ~Broken(bocs[i])
  /\ CheckValidators(bocs).ok
  /\ proven.state = Merge(Unknown, CheckValidators(bocs).update)
Accepted ==
  pc = "send" \/ calls # << >> =>
    /\ Validating
    /\ Len(proven.steps) = 1 /\ proven.steps[1].signatures = Signed
    /\ AcceptedOf(Bocs)

SendIInv == Typed /\ OfRequest /\ Accepted

(* Nothing is checked and nothing sent at first.                              *)
LEMMA InitAccepted == Init => OfRequest /\ Accepted
BY DEF Init, OfRequest, Accepted

(* While a step is built.                                                     *)
LEMMA BuildAccepted ==
  ASSUME SendIInv, NEW flow, NEW type \in {"set-validators", "proof-validators"},
         BuildValidators(flow, type)
  PROVE  (OfRequest /\ Accepted)'
<1> DEFINE bocs == ValidatorsData(request.block, request.split)
           s == Step(type, 0, bocs, Signed, <<0, 0>>, << >>)
<1>1. pc = "build" /\ IF bocs # << >> THEN Built(s) ELSE Fails
  BY DEF BuildValidators
<1>2. s.type = type /\ s.bocs = bocs /\ s.signatures = Signed
  BY DEF Step
<1>3. calls' = << >> /\ request' = request /\ pc' # "send" /\ proven' = proven
  BY <1>1 DEF SendIInv, OfRequest, Built, Fails
<1>4. Signed' = Signed /\ Validating' = Validating
  BY <1>3 DEF Signed, Validating
<1>5. (request.flow # "chain" => proven = Fresh)'
  BY <1>1, <1>3 DEF SendIInv, OfRequest
<1>6. pc' = "add" => bocs # << >> /\ step' = s
  BY <1>1 DEF Built, Fails
<1> HIDE DEF s
<1>7. OfRequest'
  BY <1>2, <1>3, <1>4, <1>5, <1>6 DEF OfRequest
<1>8. QED
  BY <1>3, <1>7 DEF Accepted

LEMMA OthersBuildAccepted ==
  ASSUME SendIInv, pc = "build", ~Validating, NEW s, Built(s) \/ Fails
  PROVE  (OfRequest /\ Accepted)'
<1>1. calls' = << >> /\ request' = request /\ pc' # "send" /\ proven' = proven
  BY DEF SendIInv, OfRequest, Built, Fails
<1>2. ~Validating'
  BY <1>1 DEF Validating
<1>3. (request.flow # "chain" => proven = Fresh)'
  BY <1>1 DEF SendIInv, OfRequest
<1>4. QED
  BY <1>1, <1>2, <1>3 DEF OfRequest, Accepted

(* The only way to the contract is a check that did not throw.                *)
LEMMA AddIsAccepted ==
  ASSUME SendIInv, Add
  PROVE  (OfRequest /\ Accepted)'
<1>1. /\ pc = "add" /\ calls = << >> /\ calls' = << >> /\ request' = request
      /\ proven' = [add(proven, step) EXCEPT !.ok = TRUE]
      /\ pc' = IF request.flow = "chain" THEN "build"
               ELSE IF ~add(proven, step).ok THEN "threw"
               ELSE IF request.flow \in {"init", "update"} THEN "send" ELSE "done"
  BY DEF Add, SendIInv, OfRequest
<1>2. pc' # "add" /\ (pc' = "build" => request'.flow = "chain")
  BY <1>1
<1>3. OfRequest'
  BY <1>1, <1>2 DEF OfRequest
<1>4. ASSUME pc' = "send" PROVE Accepted'
  <2>1. Validating /\ Validating' /\ request.flow # "chain" /\ add(proven, step).ok
    BY <1>1, <1>4 DEF Validating
  <2>2. proven = Fresh /\ proven.steps = << >> /\ proven.state = Unknown
    BY <1>1, <2>1 DEF SendIInv, OfRequest, Fresh
  <2> DEFINE res == check(step, Unknown)
  <2>b. PICK bocs : bocs = step.bocs
    OBVIOUS
  <2>3. res.ok
    <3>1. CASE ~check(step, proven.state).ok
      <4>1. add(proven, step) = [proven EXCEPT !.ok = FALSE]
        BY <3>1 DEF add, Checked
      <4>2. add(proven, step).ok = FALSE
        BY <2>2, <4>1 DEF Fresh
      <4>3. QED
        BY <2>1, <4>2
    <3>2. QED
      BY <2>2, <3>1
  <2>4. /\ bocs = ValidatorsData(request.block, request.split) /\ bocs # << >>
        /\ step.signatures = Signed /\ step.type \in {"set-validators", "proof-validators"}
    BY <1>1, <2>1, <2>b DEF SendIInv, OfRequest
  <2>5. (\A i \in DOMAIN bocs : ~Broken(bocs[i])) /\ res = CheckValidators(bocs)
    <3>1. CASE \E i \in DOMAIN bocs : Broken(bocs[i])
      <4>1. res = Threw
        BY <2>b, <3>1 DEF check
      <4>2. QED
        BY <2>3, <4>1 DEF Threw
    <3>2. CASE \A i \in DOMAIN bocs : ~Broken(bocs[i])
      BY <2>b, <2>4, <3>2 DEF check
    <3>3. QED
      BY <3>1, <3>2
  <2>6. proven' = [ok |-> TRUE, steps |-> Append(proven.steps, step),
                   state |-> Merge(Unknown, res.update)]
    BY <1>1, <2>2, <2>3, AddAccepted DEF SendIInv, Typed
  <2>7. Len(Append(<< >>, step)) = 1 /\ Append(<< >>, step)[1] = step
    BY NoElements, SequenceGrows
  <2>8. Len(proven'.steps) = 1 /\ proven'.steps[1] = step /\ Bocs' = bocs
    BY <2>b, <2>2, <2>6, <2>7 DEF Bocs
  <2>9. Signed' = Signed
    BY <1>1 DEF Signed
  <2>10. proven'.state = Merge(Unknown, CheckValidators(bocs).update)
    BY <2>5, <2>6
  <2> HIDE DEF res
  <2>11. AcceptedOf(bocs)'
    BY <1>1, <2>3, <2>4, <2>5, <2>10 DEF AcceptedOf
  <2>12. QED
    BY <2>1, <2>4, <2>8, <2>9, <2>11 DEF Accepted
<1>5. QED
  BY <1>1, <1>3, <1>4 DEF Accepted

(* A call to the contract leaves what was accepted as it is.                  *)
LEMMA CallAccepted ==
  ASSUME SendIInv, pc = "send", pc' \in {"send", "done"},
         UNCHANGED <<request, step, proven>>
  PROVE  (OfRequest /\ Accepted)'
<1>1. Signed' = Signed /\ Bocs' = Bocs /\ Validating' = Validating
  BY DEF Signed, Bocs, Validating
<1>2. OfRequest'
  BY DEF OfRequest
<1>3. Validating /\ Len(proven.steps) = 1 /\ proven.steps[1].signatures = Signed /\ AcceptedOf(Bocs)
  BY DEF SendIInv, Accepted
<1>4. PICK bocs : bocs = Bocs
  OBVIOUS
<1>5. AcceptedOf(bocs)'
  BY <1>3, <1>4 DEF AcceptedOf
<1>6. QED
  BY <1>1, <1>2, <1>3, <1>4, <1>5 DEF Accepted

LEMMA NextAccepted ==
  ASSUME SendIInv, [Next]_vars
  PROVE  (OfRequest /\ Accepted)'
<1>1. CASE PSSetValidators \/ PSProofValidators
  BY <1>1, BuildAccepted DEF PSSetValidators, PSProofValidators
<1>2. CASE PSTransaction
  <2>1. pc = "build" /\ ~Validating /\ \E s : Built(s) \/ Fails
    BY <1>2 DEF PSTransaction, Validating
  <2>2. QED
    BY <2>1, OthersBuildAccepted
<1>3. CASE PSNewStateHash
  <2>1. pc = "build" /\ ~Validating /\ \E s : Built(s) \/ Fails
    BY <1>3 DEF PSNewStateHash, Validating
  <2>2. QED
    BY <2>1, OthersBuildAccepted
<1>4. ASSUME NEW type, NEW b, PSShard(type, b) PROVE (OfRequest /\ Accepted)'
  <2>1. pc = "build" /\ ~Validating /\ \E s : Built(s) \/ Fails
    BY <1>4 DEF PSShard, Validating
  <2>2. QED
    BY <2>1, OthersBuildAccepted
<1>5. CASE Add
  BY <1>5, AddIsAccepted
<1>6. CASE \/ ParseCandidatesRootBlock \/ ParsePartValidators \/ VerifyValidators
           \/ InitValidators \/ SetValidatorSet \/ CallFails
  <2>1. pc = "send" /\ pc' \in {"send", "done"} /\ UNCHANGED <<request, step, proven>>
    BY <1>6 DEF ParseCandidatesRootBlock, ParsePartValidators, VerifyValidators,
                InitValidators, SetValidatorSet, CallFails, Call
  <2>2. QED
    BY <2>1, CallAccepted
<1>7. CASE UNCHANGED vars
  <2>1. Signed' = Signed /\ Bocs' = Bocs /\ Validating' = Validating
    BY <1>7 DEF vars, Signed, Bocs, Validating
  <2>2. OfRequest'
    BY <1>7, <2>1 DEF vars, SendIInv, OfRequest
  <2>3. PICK bocs : bocs = Bocs
    OBVIOUS
  <2>4. AcceptedOf(bocs) => AcceptedOf(bocs)'
    BY <1>7 DEF vars, AcceptedOf
  <2>5. QED
    BY <1>7, <2>1, <2>2, <2>3, <2>4 DEF vars, SendIInv, Accepted
<1>8. QED
  BY <1>1, <1>2, <1>3, <1>4, <1>5, <1>6, <1>7 DEF Next

LEMMA SendInvariance == Spec => []SendIInv
<1>1. Init => SendIInv
  BY InitTyped, InitAccepted DEF SendIInv
<1>2. SendIInv /\ [Next]_vars => SendIInv'
  BY NextTyped, NextAccepted DEF SendIInv
<1>3. QED
  BY <1>1, <1>2, PTL DEF Spec

(* The contract is called with nothing but what the service has checked: as   *)
(* soon as it may be called, and after any call, whether or not another one   *)
(* failed, the parts are those of the block in the request, and the set of    *)
(* validators that their check found is the one that is proven.               *)
THEOREM SentIsChecked == Spec => []Accepted
BY SendInvariance, PTL DEF SendIInv
-----------------------------------------------------------------------------
(* The calls up to the last: the root, the parts up to the p-th in their      *)
(* order, and v times the next five signatures.                               *)
Scripted(p, v) ==
  /\ calls[1] = [call |-> "root", boc |-> 1, nodes |-> << >>]
  /\ \A k \in 2..p : calls[k] = [call |-> "part", boc |-> k, nodes |-> << >>]
  /\ \A k \in 1..v : calls[p + k] = [call |-> "verify", boc |-> 0,
                                     nodes |-> Chunk(ChunkSize * (k - 1), Signed)]

(* Signatures come after the last part, none is left out and none is checked  *)
(* without need; only then is the contract asked to take the validators over. *)
InOrder(p, v) ==
  /\ Scripted(p, v)
  /\ v > 0 => /\ request.flow = "update" /\ p = Len(Bocs)
              /\ ChunkSize * (v - 1) < request.signatures
  /\ \/ Len(calls) = p + v
     \/ /\ Len(calls) = p + v + 1 /\ pc = "done" /\ p = Len(Bocs)
        /\ calls[p + v + 1].call = IF request.flow = "init" THEN "init" ELSE "set"
        /\ request.flow = "update" => ChunkSize * v >= request.signatures
CallsInOrder == calls # << >> => \E p \in Nat \ {0}, v \in Nat : InOrder(p, v)

FedIInv == SendIInv /\ CallsInOrder

(* How many parts and how many signatures were sent.                          *)
LEMMA Counted ==
  ASSUME Typed, NEW p \in Nat \ {0}, NEW v \in Nat, Scripted(p, v), Len(calls) = p + v
  PROVE  Cardinality(Sent("part")) = p - 1 /\ Cardinality(Sent("verify")) = v
<1>1. DOMAIN calls = 1..(p + v)
  BY SequenceGrows DEF Typed
<1>2. ASSUME NEW k \in 1..(p + v)
      PROVE  calls[k].call = IF k = 1 THEN "root" ELSE IF k <= p THEN "part" ELSE "verify"
  <2>1. CASE k = 1
    <3>1. calls[1].call = "root"
      BY DEF Scripted
    <3>2. QED
      BY <2>1, <3>1
  <2>2. CASE k \in 2..p
    <3>1. calls[k] = [call |-> "part", boc |-> k, nodes |-> << >>]
      BY <2>2 DEF Scripted
    <3>2. calls[k].call = "part"
      BY <3>1
    <3>3. QED
      BY <2>2, <3>2
  <2>3. CASE k > p
    <3>1. PICK i \in 1..v : k = p + i
      BY <2>3
    <3>2. calls[p + i] = [call |-> "verify", boc |-> 0,
                          nodes |-> Chunk(ChunkSize * (i - 1), Signed)]
      BY DEF Scripted
    <3>3. calls[p + i].call = "verify"
      BY <3>2
    <3>4. QED
      BY <2>3, <3>1, <3>3
  <2>4. QED
    BY <2>1, <2>2, <2>3
<1>3. Sent("part") = 2..p
  BY <1>1, <1>2 DEF Sent
<1>4. Sent("verify") = (p + 1)..(p + v)
  BY <1>1, <1>2 DEF Sent
<1>5. Cardinality(2..p) = p - 1
  BY FS_Interval
<1>6. Cardinality((p + 1)..(p + v)) = v
  <2>1. Cardinality((p + 1)..(p + v)) = IF p + 1 > p + v THEN 0 ELSE (p + v) - (p + 1) + 1
    BY FS_Interval
  <2>2. QED
    BY <2>1
<1>7. QED
  BY <1>3, <1>4, <1>5, <1>6

(* As many signatures as the request has validators, counted from 1.          *)
LEMMA SignedLength ==
  ASSUME Typed
  PROVE  request.signatures \in Nat /\ Signed \in Seq(Nat) /\ Len(Signed) = request.signatures
<1>1. request.signatures \in Nat
  <2>1. ASSUME NEW f, NEW c, NEW k, NEW t PROVE Request(f, c, k, t).signatures = k
    BY DEF Request
  <2>2. request \in Requests
    BY DEF Typed
  <2>3. CASE \E f, c, t : request = Request(f, c, 0, t)
    BY <2>1, <2>3
  <2>4. CASE \E k \in SignatureCounts : \E c : request = Request("update", c, k, <<0, 0>>)
    BY <2>1, <2>4, ProofRequestsAssumption
  <2>5. CASE request \in {Request(f, c, 0, <<0, 0>>) : f \in {"init", "state"}, c \in Of({"key", "mc"})}
    BY <2>3, <2>5
  <2>6. CASE request \in {Request("update", c, k, <<0, 0>>) : c \in Of({"key"}), k \in SignatureCounts}
    BY <2>4, <2>6
  <2>7. CASE request \in UNION {{Request("tx", c, 0, t) : t \in c[1].txs} : c \in Cases}
    BY <2>3, <2>7
  <2>8. CASE request \in {Request("chain", c, 0, <<0, 0>>) : c \in Of({"mc"})}
    BY <2>3, <2>8
  <2>9. QED
    BY <2>2, <2>5, <2>6, <2>7, <2>8 DEF Requests
<1>2. Signed \in [1..request.signatures -> Nat]
  BY <1>1 DEF Signed
<1>3. Signed \in Seq(Nat)
  BY <1>1, <1>2, SeqDef
<1>4. QED
  BY <1>1, <1>2, <1>3, LenProperties

(* While calls are sent, the last one was not yet.                            *)
LEMMA StillSending ==
  ASSUME FedIInv, pc = "send", calls # << >>
  PROVE  \E p \in Nat \ {0}, v \in Nat :
           /\ InOrder(p, v) /\ Len(calls) = p + v
           /\ Cardinality(Sent("part")) = p - 1 /\ Cardinality(Sent("verify")) = v
<1>1. PICK p \in Nat \ {0}, v \in Nat : InOrder(p, v)
  BY DEF FedIInv, CallsInOrder
<1>2. Scripted(p, v) /\ Len(calls) = p + v
  BY <1>1 DEF InOrder
<1>3. QED
  BY <1>1, <1>2, Counted DEF FedIInv, SendIInv

(* A call that is added leaves the others where they are.                     *)
LEMMA OthersStay ==
  ASSUME Typed, NEW p \in Nat \ {0}, NEW v \in Nat, Scripted(p, v), p + v <= Len(calls),
         NEW call, NEW boc, NEW nodes, Call(call, boc, nodes)
  PROVE  /\ Scripted(p, v)'
         /\ Len(calls') = Len(calls) + 1 /\ Len(calls) \in Nat
         /\ calls'[Len(calls) + 1] = [call |-> call, boc |-> boc, nodes |-> nodes]
         /\ Bocs' = Bocs /\ Signed' = Signed
<1>1. /\ Len(calls') = Len(calls) + 1 /\ Len(calls) \in Nat
      /\ \A i \in 1..Len(calls) : calls'[i] = calls[i]
      /\ calls'[Len(calls) + 1] = [call |-> call, boc |-> boc, nodes |-> nodes]
  BY SequenceGrows DEF Typed, Call
<1>2. Bocs' = Bocs /\ Signed' = Signed
  BY DEF Call, Bocs, Signed
<1>3. \A k \in 1..(p + v) : calls'[k] = calls[k]
  BY <1>1
<1>4. calls'[1] = calls[1] /\ \A k \in 2..p : calls'[k] = calls[k]
  BY <1>3
<1>5. \A k \in 1..v : calls'[p + k] = calls[p + k]
  BY <1>3
<1>6. Scripted(p, v)'
  BY <1>2, <1>4, <1>5 DEF Scripted
<1>7. QED
  BY <1>1, <1>2, <1>6

(* The root is the first call.                                                *)
LEMMA RootInOrder ==
  ASSUME FedIInv, ParseCandidatesRootBlock
  PROVE  CallsInOrder'
<1>1. calls = << >> /\ calls' = Append(calls, [call |-> "root", boc |-> 1, nodes |-> << >>])
  BY DEF ParseCandidatesRootBlock, Call
<1>2. Len(calls') = 1 /\ calls'[1] = [call |-> "root", boc |-> 1, nodes |-> << >>]
  BY <1>1, NoElements, SequenceGrows
<1>3. Scripted(1, 0)'
  BY <1>2 DEF Scripted
<1>4. InOrder(1, 0)'
  BY <1>2, <1>3 DEF InOrder
<1>5. QED
  BY <1>4 DEF CallsInOrder

(* A part comes after the part before it, and before any signature.           *)
LEMMA PartInOrder ==
  ASSUME FedIInv, ParsePartValidators
  PROVE  CallsInOrder'
<1>1. pc = "send" /\ calls # << >> /\ pc' = pc
  BY DEF ParsePartValidators
<1>2. PICK p \in Nat \ {0}, v \in Nat :
        /\ InOrder(p, v) /\ Len(calls) = p + v
        /\ Cardinality(Sent("part")) = p - 1 /\ Cardinality(Sent("verify")) = v
  BY <1>1, StillSending
<1>3. p + 1 <= Len(Bocs) /\ Call("part", p + 1, << >>)
  BY <1>2 DEF ParsePartValidators
<1>4. v = 0
  BY <1>2, <1>3 DEF InOrder
<1>5. /\ Scripted(p, 0)' /\ Len(calls') = p + 1
      /\ calls'[p + 1] = [call |-> "part", boc |-> p + 1, nodes |-> << >>]
  BY <1>2, <1>3, <1>4, OthersStay DEF FedIInv, SendIInv, InOrder
<1>6. \A k \in 2..(p + 1) : k = p + 1 \/ k \in 2..p
  OBVIOUS
<1>7. Scripted(p + 1, 0)'
  BY <1>5, <1>6 DEF Scripted
<1>8. InOrder(p + 1, 0)'
  BY <1>5, <1>7 DEF InOrder
<1>9. QED
  BY <1>8 DEF CallsInOrder

(* Once all parts are sent there are as many as bags of cells.                *)
LEMMA AllParts ==
  ASSUME FedIInv, pc = "send", PartsSent
  PROVE  \E p \in Nat \ {0}, v \in Nat :
           /\ InOrder(p, v) /\ Len(calls) = p + v /\ p = Len(Bocs)
           /\ Cardinality(Sent("verify")) = v
           /\ proven.steps[1].signatures = Signed
<1>1. calls # << >>
  BY DEF PartsSent
<1>2. PICK p \in Nat \ {0}, v \in Nat :
        /\ InOrder(p, v) /\ Len(calls) = p + v
        /\ Cardinality(Sent("part")) = p - 1 /\ Cardinality(Sent("verify")) = v
  BY <1>1, StillSending
<1>3. p = Len(Bocs)
  BY <1>2 DEF PartsSent
<1>4. proven.steps[1].signatures = Signed
  BY DEF FedIInv, SendIInv, Accepted
<1>5. QED
  BY <1>2, <1>3, <1>4

(* The next five signatures.                                                  *)
LEMMA VerifyInOrder ==
  ASSUME FedIInv, VerifyValidators
  PROVE  CallsInOrder'
<1>1. pc = "send" /\ PartsSent /\ request.flow = "update"
  BY DEF VerifyValidators
<1>2. PICK p \in Nat \ {0}, v \in Nat :
        /\ InOrder(p, v) /\ Len(calls) = p + v /\ p = Len(Bocs)
        /\ Cardinality(Sent("verify")) = v
        /\ proven.steps[1].signatures = Signed
  BY <1>1, AllParts
<1>3. ChunkSize * v < request.signatures /\ Call("verify", 0, Chunk(ChunkSize * v, Signed))
  BY <1>2, SignedLength DEF VerifyValidators, FedIInv, SendIInv
<1>4. /\ Scripted(p, v)' /\ Len(calls') = p + v + 1 /\ Bocs' = Bocs /\ Signed' = Signed
      /\ calls'[p + v + 1] = [call |-> "verify", boc |-> 0, nodes |-> Chunk(ChunkSize * v, Signed)]
  BY <1>2, <1>3, OthersStay DEF FedIInv, SendIInv, InOrder
<1>5. \A k \in 1..(v + 1) : k = v + 1 \/ k \in 1..v
  OBVIOUS
<1>6. calls'[p + (v + 1)] = [call |-> "verify", boc |-> 0,
                            nodes |-> Chunk(ChunkSize * ((v + 1) - 1), Signed)]
  <2>1. p + (v + 1) = p + v + 1 /\ (v + 1) - 1 = v
    OBVIOUS
  <2>2. QED
    BY <1>4, <2>1
<1>7. Scripted(p, v + 1)'
  BY <1>4, <1>5, <1>6 DEF Scripted
<1>8. request' = request
  BY <1>3 DEF Call
<1>9. ChunkSize * ((v + 1) - 1) < request.signatures /\ Len(calls') = p + (v + 1)
  BY <1>3, <1>4
<1>10. InOrder(p, v + 1)'
  BY <1>1, <1>2, <1>4, <1>7, <1>8, <1>9 DEF InOrder
<1>11. QED
  BY <1>10 DEF CallsInOrder

(* The last call.                                                             *)
LEMMA LastInOrder ==
  ASSUME FedIInv, InitValidators \/ SetValidatorSet
  PROVE  CallsInOrder'
<1>1. /\ pc = "send" /\ PartsSent /\ request.flow \in {"init", "update"} /\ pc' = "done"
      /\ Call(IF request.flow = "init" THEN "init" ELSE "set", 0, << >>)
  BY DEF InitValidators, SetValidatorSet
<1>2. PICK p \in Nat \ {0}, v \in Nat :
        /\ InOrder(p, v) /\ Len(calls) = p + v /\ p = Len(Bocs)
        /\ Cardinality(Sent("verify")) = v
        /\ proven.steps[1].signatures = Signed
  BY <1>1, AllParts
<1>3. request.flow = "update" => ChunkSize * v >= request.signatures
  BY <1>2, SignedLength DEF InitValidators, SetValidatorSet, FedIInv, SendIInv
<1>4. /\ Scripted(p, v)' /\ Len(calls') = p + v + 1 /\ Bocs' = Bocs
      /\ calls'[p + v + 1] = [call |-> IF request.flow = "init" THEN "init" ELSE "set",
                              boc |-> 0, nodes |-> << >>]
  BY <1>1, <1>2, OthersStay DEF FedIInv, SendIInv, InOrder
<1>5. calls'[p + v + 1].call = IF request.flow = "init" THEN "init" ELSE "set"
  BY <1>4
<1>6. request' = request
  BY <1>1 DEF Call
<1>7. InOrder(p, v)'
  BY <1>1, <1>2, <1>3, <1>4, <1>5, <1>6 DEF InOrder
<1>8. QED
  BY <1>7 DEF CallsInOrder

(* Every other step leaves the calls, or there are none.                      *)
LEMMA NextInOrder ==
  ASSUME FedIInv, [Next]_vars
  PROVE  CallsInOrder'
<1>1. CASE ParseCandidatesRootBlock \/ ParsePartValidators \/ VerifyValidators
           \/ InitValidators \/ SetValidatorSet
  BY <1>1, RootInOrder, PartInOrder, VerifyInOrder, LastInOrder
<1>2. CASE pc \in {"build", "add"} /\ calls' = calls
  BY <1>2 DEF FedIInv, SendIInv, OfRequest, CallsInOrder
<1>3. CASE CallFails \/ UNCHANGED vars
  <2>1. /\ calls' = calls /\ request' = request /\ proven' = proven
        /\ pc = "done" => pc' = "done"
    BY <1>3 DEF CallFails, vars
  <2>2. Bocs' = Bocs /\ Signed' = Signed
    BY <2>1 DEF Bocs, Signed
  <2>3. ASSUME NEW p \in Nat \ {0}, NEW v \in Nat, InOrder(p, v)
        PROVE  InOrder(p, v)'
    <3>1. Scripted(p, v)'
      BY <2>1, <2>2, <2>3 DEF InOrder, Scripted
    <3>2. QED
      BY <2>1, <2>2, <2>3, <3>1 DEF InOrder
  <2>4. QED
    BY <2>1, <2>3 DEF FedIInv, CallsInOrder
<1>4. QED
  <2>1. ASSUME PSSetValidators \/ PSProofValidators
        PROVE  pc \in {"build", "add"} /\ calls' = calls
    BY <2>1 DEF PSSetValidators, PSProofValidators, BuildValidators, Built, Fails
  <2>2. ASSUME PSTransaction \/ PSNewStateHash \/ \E type, b : PSShard(type, b)
        PROVE  pc \in {"build", "add"} /\ calls' = calls
    BY <2>2 DEF PSTransaction, PSNewStateHash, PSShard, Built, Fails
  <2>3. ASSUME Add PROVE pc \in {"build", "add"} /\ calls' = calls
    BY <2>3 DEF Add
  <2>4. QED
    BY <1>1, <1>2, <1>3, <2>1, <2>2, <2>3 DEF Next

LEMMA FedInvariance == Spec => []FedIInv
<1>1. Init => FedIInv
  BY InitTyped, InitAccepted DEF FedIInv, SendIInv, CallsInOrder, Init
<1>2. FedIInv /\ [Next]_vars => FedIInv'
  BY NextTyped, NextAccepted, NextInOrder DEF FedIInv, SendIInv
<1>3. QED
  BY <1>1, <1>2, PTL DEF Spec

(* However far a request gets before a call fails, the contract has had the   *)
(* root, then the parts one by one in their order, then the signatures in     *)
(* theirs, and the closing call only after the last of them.                  *)
THEOREM CalledInOrder == Spec => []CallsInOrder
BY FedInvariance, PTL DEF FedIInv

(* Five signatures from any place are five, and the validators numbered from  *)
(* that place are among them.                                                 *)
LEMMA ChunkHolds ==
  ASSUME Typed, NEW from \in Nat, from < request.signatures
  PROVE  /\ Len(Chunk(from, Signed)) = ChunkSize
         /\ Range(Chunk(from, Signed)) \subseteq 1..request.signatures
         /\ \A s \in 1..request.signatures :
              s \in (from + 1)..(from + ChunkSize) => s \in Range(Chunk(from, Signed))
<1> DEFINE n == request.signatures
           c == Chunk(from, Signed)
<1>1. n \in Nat /\ Len(Signed) = n
  BY SignedLength
<1>2. c = [i \in 1..5 |-> IF from + i <= n THEN from + i ELSE 1]
  <2>1. \A i \in 1..5 : (IF from + i <= Len(Signed) THEN Signed[from + i] ELSE Signed[1]) =
                         (IF from + i <= n THEN from + i ELSE 1)
    BY <1>1 DEF Signed
  <2>2. QED
    BY <2>1 DEF Chunk, ChunkSize
<1>3. c \in [1..5 -> 1..n]
  BY <1>1, <1>2
<1>4. c \in Seq(1..n) /\ Len(c) = 5
  <2> HIDE DEF c, n
  <2>1. c \in Seq(1..n)
    BY <1>3, SeqDef
  <2>2. DOMAIN c = 1..5 /\ DOMAIN c = 1..Len(c) /\ Len(c) \in Nat
    BY <1>3, <2>1, LenProperties
  <2>3. QED
    BY <2>1, <2>2
<1>5. \A s \in 1..n : s \in (from + 1)..(from + 5) => c[s - from] = s /\ s - from \in 1..5
  BY <1>1, <1>2
<1> HIDE DEF c, n
<1>6. Range(c) = {c[i] : i \in 1..5}
  BY <1>3 DEF Range
<1>7. Range(c) \subseteq 1..n
  BY <1>3, <1>6
<1>8. \A s \in 1..n : s \in (from + 1)..(from + 5) => s \in Range(c)
  BY <1>5, <1>6
<1>9. QED
  BY <1>4, <1>7, <1>8 DEF c, n, ChunkSize

(* A request that installs the first validators has no signatures.            *)
LEMMA NothingSignedFirst ==
  ASSUME Typed, request.flow = "init"
  PROVE  request.signatures = 0
<1>1. ASSUME NEW f, NEW c, NEW k, NEW t
      PROVE  Request(f, c, k, t).signatures = k /\ Request(f, c, k, t).flow = f
  BY DEF Request
<1>2. request \in Requests
  BY DEF Typed
<1>3. CASE \E f, c, t : request = Request(f, c, 0, t)
  BY <1>1, <1>3
<1>4. CASE \E c, k : request = Request("update", c, k, <<0, 0>>)
  BY <1>1, <1>4
<1>5. CASE request \in {Request(f, c, 0, <<0, 0>>) : f \in {"init", "state"}, c \in Of({"key", "mc"})}
  BY <1>3, <1>5
<1>6. CASE request \in {Request("update", c, k, <<0, 0>>) : c \in Of({"key"}), k \in SignatureCounts}
  BY <1>4, <1>6
<1>7. CASE request \in UNION {{Request("tx", c, 0, t) : t \in c[1].txs} : c \in Cases}
  BY <1>3, <1>7
<1>8. CASE request \in {Request("chain", c, 0, <<0, 0>>) : c \in Of({"mc"})}
  BY <1>3, <1>8
<1>9. QED
  BY <1>2, <1>5, <1>6, <1>7, <1>8 DEF Requests

(* What the run checks of a closing call: every part once and in order, every *)
(* signature in one of the calls, and five in each of them.                   *)
THEOREM ContractIsFed == Spec => []ContractFed
<1>1. FedIInv => ContractFed
  <2>1. SUFFICES ASSUME FedIInv, NEW i \in DOMAIN calls, calls[i].call \in {"init", "set"}
        PROVE  LET verified == {calls[k].nodes : k \in Sent("verify")}
               IN  /\ [k \in 1..Len(Bocs) |-> calls[k].boc] = [k \in 1..Len(Bocs) |-> k]
                   /\ UNION {Range(nodes) : nodes \in verified} = 1..request.signatures
                   /\ \A nodes \in verified : Len(nodes) = ChunkSize
    BY DEF ContractFed
  <2> DEFINE verified == {calls[k].nodes : k \in Sent("verify")}
             n == request.signatures
  <2>2. Typed /\ n \in Nat /\ DOMAIN calls = 1..Len(calls) /\ Len(calls) \in Nat
    BY <2>1, SignedLength, SequenceGrows DEF FedIInv, SendIInv, Typed
  <2>3. PICK p \in Nat \ {0}, v \in Nat : InOrder(p, v)
    <3>1. calls # << >>
      BY <2>1, <2>2, NoElements
    <3>2. QED
      BY <2>1, <3>1 DEF FedIInv, CallsInOrder
  <2>4. /\ calls[1].call = "root" /\ calls[1].boc = 1
        /\ \A k \in 2..p : calls[k].call = "part" /\ calls[k].boc = k
    <3>1. calls[1] = [call |-> "root", boc |-> 1, nodes |-> << >>]
      BY <2>3 DEF InOrder, Scripted
    <3>2. ASSUME NEW k \in 2..p PROVE calls[k].call = "part" /\ calls[k].boc = k
      <4>1. calls[k] = [call |-> "part", boc |-> k, nodes |-> << >>]
        BY <2>3 DEF InOrder, Scripted
      <4>2. QED
        BY <4>1
    <3>3. QED
      BY <3>1, <3>2
  <2>5. ASSUME NEW k \in 1..v
        PROVE  /\ calls[p + k].call = "verify"
               /\ calls[p + k].nodes = Chunk(ChunkSize * (k - 1), Signed)
    <3>1. calls[p + k] = [call |-> "verify", boc |-> 0,
                          nodes |-> Chunk(ChunkSize * (k - 1), Signed)]
      BY <2>3 DEF InOrder, Scripted
    <3>2. QED
      BY <3>1
  <2>6. \A k \in 1..(p + v) : calls[k].call \notin {"init", "set"}
    <3>1. ASSUME NEW k \in 1..(p + v) PROVE calls[k].call \notin {"init", "set"}
      <4>1. CASE k <= p
        <5>1. k = 1 \/ k \in 2..p
          BY <4>1
        <5>2. QED
          BY <2>4, <5>1
      <4>2. CASE k > p
        <5>1. k - p \in 1..v /\ p + (k - p) = k
          BY <4>2
        <5>2. calls[k].call = "verify"
          BY <2>5, <5>1
        <5>3. QED
          BY <5>2
      <4>3. QED
        BY <4>1, <4>2
    <3>2. QED
      BY <3>1
  <2>7. /\ Len(calls) = p + v + 1 /\ p = Len(Bocs)
        /\ calls[p + v + 1].call = IF request.flow = "init" THEN "init" ELSE "set"
        /\ request.flow = "update" => ChunkSize * v >= n
    <3>1. \/ Len(calls) = p + v
          \/ /\ Len(calls) = p + v + 1 /\ p = Len(Bocs)
             /\ calls[p + v + 1].call = IF request.flow = "init" THEN "init" ELSE "set"
             /\ request.flow = "update" => ChunkSize * v >= n
      <4> HIDE DEF n
      <4>1. QED
        BY <2>3 DEF InOrder, n
    <3>2. i \in 1..Len(calls)
      BY <2>1, <2>2
    <3>3. Len(calls) # p + v
      <4>1. i \notin 1..(p + v)
        BY <2>1, <2>6
      <4>2. QED
        BY <3>2, <4>1
    <3>4. QED
      BY <3>1, <3>3
  <2>8. Sent("verify") = (p + 1)..(p + v)
    <3>1. ASSUME NEW k \in 1..(p + v + 1)
          PROVE  calls[k].call = "verify" <=> k \in (p + 1)..(p + v)
      <4>1. CASE k = p + v + 1
        <5>1. calls[k].call # "verify"
          BY <2>7, <4>1
        <5>2. QED
          BY <4>1, <5>1
      <4>2. CASE k \in (p + 1)..(p + v)
        <5>1. k - p \in 1..v /\ p + (k - p) = k
          BY <4>2
        <5>2. calls[k].call = "verify"
          BY <2>5, <5>1
        <5>3. QED
          BY <4>2, <5>2
      <4>3. CASE k <= p
        <5>1. k = 1 \/ k \in 2..p
          BY <4>3
        <5>2. calls[k].call # "verify"
          BY <2>4, <5>1
        <5>3. QED
          BY <4>3, <5>2
      <4>4. QED
        BY <4>1, <4>2, <4>3
    <3>2. DOMAIN calls = 1..(p + v + 1)
      BY <2>2, <2>7
    <3>3. QED
      BY <3>1, <3>2 DEF Sent
  <2>9. verified = {Chunk(ChunkSize * (k - 1), Signed) : k \in 1..v}
    <3>1. ASSUME NEW k \in (p + 1)..(p + v)
          PROVE  k - p \in 1..v /\ calls[k].nodes = Chunk(ChunkSize * ((k - p) - 1), Signed)
      <4>1. k - p \in 1..v /\ p + (k - p) = k
        OBVIOUS
      <4>2. QED
        BY <2>5, <4>1
    <3>2. \A k \in 1..v : p + k \in (p + 1)..(p + v)
      OBVIOUS
    <3>3. QED
      BY <2>5, <2>8, <3>1, <3>2
  <2>10. ASSUME NEW k \in 1..v PROVE ChunkSize * (k - 1) \in Nat /\ ChunkSize * (k - 1) < n
    <3>1. ChunkSize * (v - 1) < n
      BY <2>3 DEF InOrder
    <3>2. QED
      BY <2>2, <3>1 DEF ChunkSize
  <2>11. ASSUME NEW k \in 1..v
         PROVE  LET c == Chunk(ChunkSize * (k - 1), Signed)
                IN  Len(c) = ChunkSize /\ Range(c) \subseteq 1..n
    <3>1. PICK from \in Nat : from = ChunkSize * (k - 1) /\ from < n
      BY <2>10
    <3>2. Len(Chunk(from, Signed)) = ChunkSize /\ Range(Chunk(from, Signed)) \subseteq 1..n
      BY <2>2, <3>1, ChunkHolds
    <3>3. QED
      BY <3>1, <3>2
  <2>12. \A s \in 1..n : \E k \in 1..v : s \in Range(Chunk(ChunkSize * (k - 1), Signed))
    <3>1. ASSUME NEW s \in 1..n
          PROVE  \E k \in 1..v : s \in Range(Chunk(ChunkSize * (k - 1), Signed))
      <4> DEFINE k == (s + 4) \div 5
      <4>1. k \in Nat /\ ChunkSize * (k - 1) < s /\ s <= ChunkSize * (k - 1) + ChunkSize
        BY <2>2 DEF ChunkSize
      <4>2. k \in 1..v
        <5>1. ChunkSize * v >= n
          BY <2>1, <2>2, <2>7, NothingSignedFirst DEF FedIInv, SendIInv, Accepted, Validating
        <5>2. QED
          BY <2>2, <4>1, <5>1 DEF ChunkSize
      <4>3. PICK from \in Nat : from = ChunkSize * (k - 1) /\ from < n
        BY <2>10, <4>2
      <4> HIDE DEF k
      <4>4. s \in (from + 1)..(from + ChunkSize)
        BY <2>2, <4>1, <4>3 DEF ChunkSize
      <4>5. s \in Range(Chunk(from, Signed))
        BY <2>2, <4>3, <4>4, ChunkHolds
      <4>6. QED
        BY <4>2, <4>3, <4>5
    <3>2. QED
      BY <3>1
  <2>13. UNION {Range(nodes) : nodes \in verified} = 1..n
    BY <2>9, <2>11, <2>12
  <2>14. \A nodes \in verified : Len(nodes) = ChunkSize
    BY <2>9, <2>11
  <2>15. \A k \in 1..Len(Bocs) : calls[k].boc = k
    <3>1. \A k \in 1..p : k = 1 \/ k \in 2..p
      OBVIOUS
    <3>2. QED
      BY <2>4, <2>7, <3>1
  <2>16. QED
    BY <2>13, <2>14, <2>15
<1>2. QED
  BY <1>1, FedInvariance, PTL
-----------------------------------------------------------------------------
(* Each step of a chain leaves one reference, in the place of the step; that  *)
(* of a shard block is of another form than checkShardBlock looks for.        *)
Raw(b) == [form |-> "raw", block |-> b]
BlockAfterState(k) ==
  \E i \in 1..(k - 1) :
    /\ proven.steps[i].type = "shard-state" /\ proven.steps[i].block = proven.steps[k].block
    /\ \A j \in 1..(i - 1) : proven.steps[j].type = "shard-state"
Referenced(k) ==
  \/ proven.steps[k].type = "shard-state" /\ proven.state.blkRefs[k] = Raw(proven.steps[k].block)
  \/ /\ proven.steps[k].type = "shard-block" /\ proven.state.blkRefs[k].form = "ext"
     /\ BlockAfterState(k)
ChainRight ==
  request.flow = "chain" =>
    /\ pc = "add" => step.type \in {"shard-state", "shard-block"} /\ step.bocs = << >>
    /\ IsSequence(proven.state.blkRefs) /\ Len(proven.state.blkRefs) = Len(proven.steps)
    /\ \A k \in 1..Len(proven.steps) : Referenced(k)

ChainIInv == Typed /\ ChainRight

LEMMA InitChain == Init => ChainRight
BY NoElements DEF Init, Fresh, Unknown, ChainRight

(* A sequence that one more reference is put behind.                          *)
LEMMA OneMoreReference ==
  ASSUME NEW s, IsSequence(s), NEW e
  PROVE  /\ IsSequence(s \o <<e>>) /\ Len(s \o <<e>>) = Len(s) + 1
         /\ \A i \in 1..Len(s) : (s \o <<e>>)[i] = s[i]
         /\ (s \o <<e>>)[Len(s) + 1] = e
<1>1. PICK S : s \in Seq(S)
  BY DEF IsSequence
<1> DEFINE T == S \cup {e}
<1>2. s \in Seq(T) /\ <<e>> \in Seq(T) /\ e \in T
  <2>1. s \in Seq(T) /\ e \in T
    BY <1>1, SeqMonotonic
  <2> HIDE DEF T
  <2>2. QED
    BY <2>1
<1> HIDE DEF T
<1>3. s \o <<e>> = Append(s, e)
  <2>1. \A q \in Seq(T), x \in T : Append(q, x) = q \o <<x>>
    BY AppendIsConcat
  <2>2. QED
    BY <1>2, <2>1
<1>4. /\ IsSequence(Append(s, e)) /\ Len(Append(s, e)) = Len(s) + 1
      /\ \A i \in 1..Len(s) : Append(s, e)[i] = s[i]
      /\ Append(s, e)[Len(s) + 1] = e
  BY SequenceGrows
<1>5. PICK more : more = s \o <<e>> /\ more = Append(s, e)
  BY <1>3
<1>6. /\ IsSequence(more) /\ Len(more) = Len(s) + 1
      /\ \A i \in 1..Len(s) : more[i] = s[i]
      /\ more[Len(s) + 1] = e
  BY <1>4, <1>5, Zenon
<1>7. QED
  BY <1>5, <1>6, Zenon

(* A step of a chain that is accepted adds one reference.                     *)
LEMMA ChainGrows ==
  ASSUME ChainIInv, request.flow = "chain", pc = "add", check(step, proven.state).ok
  PROVE  \E ref :
           /\ Merge(proven.state, check(step, proven.state).update).blkRefs = proven.state.blkRefs \o <<ref>>
           /\ \/ step.type = "shard-state" /\ ref = Raw(step.block)
              \/ /\ step.type = "shard-block" /\ ref.form = "ext"
                 /\ \E i \in 1..Len(proven.steps) :
                      /\ proven.steps[i].type = "shard-state" /\ proven.steps[i].block = step.block
                      /\ \A j \in 1..(i - 1) : proven.steps[j].type = "shard-state"
<1> DEFINE st == proven.state
           res == check(step, st)
           N == Len(proven.steps)
<1>1. /\ step.type \in {"shard-state", "shard-block"} /\ step.bocs = << >>
      /\ IsSequence(st.blkRefs) /\ Len(st.blkRefs) = N /\ \A k \in 1..N : Referenced(k)
  BY DEF ChainIInv, ChainRight
<1>2. DOMAIN st.blkRefs = 1..N /\ N \in Nat
  BY <1>1, SequenceGrows
<1>3. ASSUME NEW u PROVE Merge(st, u).blkRefs = st.blkRefs \o u.blkRefs
  BY DEF Merge
<1>4. ASSUME NEW r PROVE Update([Unknown EXCEPT !.blkRefs = <<r>>]).update.blkRefs = <<r>>
  <2>1. ASSUME NEW u PROVE Update(u).update = u
    BY DEF Update
  <2>2. [Unknown EXCEPT !.blkRefs = <<r>>].blkRefs = <<r>>
    <3> DEFINE x == <<r>>
    <3> HIDE DEF x
    <3>1. [Unknown EXCEPT !.blkRefs = x].blkRefs = x
      BY DEF Unknown
    <3>2. QED
      BY <3>1 DEF x
  <2>3. QED
    BY <2>1, <2>2
<1>5. ~\E i \in DOMAIN step.bocs : Broken(step.bocs[i])
  BY <1>1
<1>6. CASE step.type = "shard-state"
  <2>1. res = Update([Unknown EXCEPT !.blkRefs = <<Raw(step.block)>>])
    BY <1>5, <1>6 DEF check, checkShardState, Raw
  <2>2. Merge(st, res.update).blkRefs = st.blkRefs \o <<Raw(step.block)>>
    BY <1>3, <1>4, <2>1
  <2>3. QED
    BY <1>6, <2>2
<1>7. CASE step.type = "shard-block"
  <2>1. res = checkShardBlock(step, st)
    BY <1>5, <1>7 DEF check
  <2>2. Threw.ok = FALSE
    BY DEF Threw
  <2> DEFINE Found(i) == /\ st.blkRefs[i] = Raw(step.block)
                         /\ \A j \in 1..(i - 1) : st.blkRefs[j].form = "raw"
             ref == [form |-> "ext", block |-> ChainBlocks[step.block]]
  <2>3. res = IF \E i \in DOMAIN st.blkRefs : Found(i)
              THEN Update([Unknown EXCEPT !.blkRefs = <<ref>>]) ELSE Threw
    BY <2>1 DEF checkShardBlock, Raw
  <2>4. PICK i \in DOMAIN st.blkRefs : Found(i)
    <3> HIDE DEF Found, ref
    <3>1. QED
      BY <2>2, <2>3
  <2>5. Merge(st, res.update).blkRefs = st.blkRefs \o <<ref>>
    <3>1. res = Update([Unknown EXCEPT !.blkRefs = <<ref>>])
      BY <2>3, <2>4
    <3> HIDE DEF ref
    <3>2. QED
      BY <1>3, <1>4, <3>1
  <2>6. ref.form = "ext"
    OBVIOUS
  <2>7. i \in 1..N
    BY <1>2, <2>4
  <2>8. ASSUME NEW k \in 1..N, st.blkRefs[k].form = "raw"
        PROVE  proven.steps[k].type = "shard-state" /\ st.blkRefs[k] = Raw(proven.steps[k].block)
    BY <1>1, <2>8 DEF Referenced
  <2>9. ASSUME NEW b PROVE Raw(b).form = "raw" /\ Raw(b).block = b
    BY DEF Raw
  <2>10. proven.steps[i].type = "shard-state" /\ proven.steps[i].block = step.block
    <3>1. st.blkRefs[i] = Raw(step.block) /\ st.blkRefs[i].form = "raw"
      <4>1. Raw(step.block).form = "raw"
        BY <2>9
      <4>2. st.blkRefs[i] = Raw(step.block)
        BY <2>4
      <4>3. QED
        BY <4>1, <4>2
    <3>2. st.blkRefs[i] = Raw(proven.steps[i].block) /\ proven.steps[i].type = "shard-state"
      BY <2>7, <2>8, <3>1
    <3>3. QED
      BY <2>9, <3>1, <3>2
  <2>11. \A j \in 1..(i - 1) : proven.steps[j].type = "shard-state"
    BY <1>2, <2>4, <2>7, <2>8
  <2> HIDE DEF ref
  <2>12. QED
    BY <1>7, <2>5, <2>6, <2>7, <2>10, <2>11
<1>8. QED
  BY <1>1, <1>6, <1>7

(* A refused step leaves the chain; an accepted one has its place at the end. *)
LEMMA AddChain ==
  ASSUME ChainIInv, Add
  PROVE  ChainRight'
<1>1. /\ pc = "add" /\ request' = request
      /\ proven' = [add(proven, step) EXCEPT !.ok = TRUE]
      /\ pc' # "add"
  BY DEF Add
<1>2. CASE ~check(step, proven.state).ok
  <2>1. proven' = proven
    BY <1>1, <1>2, AddRefused DEF ChainIInv, Typed
  <2>2. \A k : Referenced(k)' = Referenced(k)
    BY <2>1 DEF Referenced, BlockAfterState
  <2>3. QED
    BY <1>1, <2>1, <2>2 DEF ChainIInv, ChainRight
<1>3. CASE check(step, proven.state).ok /\ request.flow = "chain"
  <2> DEFINE st == proven.state
             new == Merge(st, check(step, st).update)
  <2>n. PICK N : N = Len(proven.steps)
    OBVIOUS
  <2>1. proven'.steps = Append(proven.steps, step) /\ proven'.state = new
    BY <1>1, <1>3, AddAccepted DEF ChainIInv, Typed
  <2>2. PICK ref :
          /\ new.blkRefs = st.blkRefs \o <<ref>>
          /\ \/ step.type = "shard-state" /\ ref = Raw(step.block)
             \/ /\ step.type = "shard-block" /\ ref.form = "ext"
                /\ \E i \in 1..N :
                     /\ proven.steps[i].type = "shard-state" /\ proven.steps[i].block = step.block
                     /\ \A j \in 1..(i - 1) : proven.steps[j].type = "shard-state"
    BY <1>1, <1>3, <2>n, ChainGrows
  <2>3. IsSequence(st.blkRefs) /\ Len(st.blkRefs) = N /\ \A k \in 1..N : Referenced(k)
    BY <1>3, <2>n DEF ChainIInv, ChainRight
  <2>4. /\ IsSequence(new.blkRefs) /\ Len(new.blkRefs) = N + 1
        /\ \A i \in 1..N : new.blkRefs[i] = st.blkRefs[i]
        /\ new.blkRefs[N + 1] = ref
    <3>1. /\ IsSequence(st.blkRefs \o <<ref>>) /\ Len(st.blkRefs \o <<ref>>) = Len(st.blkRefs) + 1
          /\ \A i \in 1..Len(st.blkRefs) : (st.blkRefs \o <<ref>>)[i] = st.blkRefs[i]
          /\ (st.blkRefs \o <<ref>>)[Len(st.blkRefs) + 1] = ref
      BY <2>3, OneMoreReference
    <3> HIDE DEF new
    <3>2. QED
      BY <2>2, <2>3, <3>1
  <2>5. /\ N \in Nat /\ Len(proven'.steps) = N + 1
        /\ \A i \in 1..N : proven'.steps[i] = proven.steps[i]
        /\ proven'.steps[N + 1] = step
    BY <2>1, <2>n, SequenceGrows DEF ChainIInv, Typed
  <2> HIDE DEF new
  <2>6. ASSUME NEW k \in 1..N PROVE Referenced(k)'
    <3>1. Referenced(k) /\ proven'.steps[k] = proven.steps[k]
          /\ proven'.state.blkRefs[k] = st.blkRefs[k]
      BY <2>1, <2>3, <2>4, <2>5
    <3>2. BlockAfterState(k) => BlockAfterState(k)'
      <4>1. SUFFICES ASSUME BlockAfterState(k) PROVE BlockAfterState(k)'
        OBVIOUS
      <4>2. PICK i \in 1..(k - 1) :
              /\ proven.steps[i].type = "shard-state"
              /\ proven.steps[i].block = proven.steps[k].block
              /\ \A j \in 1..(i - 1) : proven.steps[j].type = "shard-state"
        BY <4>1 DEF BlockAfterState
      <4>3. i \in 1..N /\ \A j \in 1..(i - 1) : j \in 1..N
        BY <2>5, <4>2
      <4>4. /\ proven'.steps[i].type = "shard-state"
            /\ proven'.steps[i].block = proven'.steps[k].block
            /\ \A j \in 1..(i - 1) : proven'.steps[j].type = "shard-state"
        BY <2>5, <3>1, <4>2, <4>3
      <4>5. QED
        BY <4>2, <4>4 DEF BlockAfterState
    <3>3. QED
      BY <3>1, <3>2 DEF Referenced
  <2>7. Referenced(N + 1)'
    <3>1. proven'.steps[N + 1] = step /\ proven'.state.blkRefs[N + 1] = ref
      BY <2>1, <2>4, <2>5
    <3>2. CASE step.type = "shard-state" /\ ref = Raw(step.block)
      <4>1. proven'.steps[N + 1].type = "shard-state"
            /\ proven'.state.blkRefs[N + 1] = Raw(proven'.steps[N + 1].block)
        BY <3>1, <3>2
      <4>2. QED
        BY <4>1 DEF Referenced, Raw
    <3>3. CASE step.type # "shard-state" \/ ref # Raw(step.block)
      <4>1. PICK i \in 1..N :
              /\ proven.steps[i].type = "shard-state" /\ proven.steps[i].block = step.block
              /\ \A j \in 1..(i - 1) : proven.steps[j].type = "shard-state"
        BY <2>2, <3>3
      <4>2. step.type = "shard-block" /\ ref.form = "ext"
        BY <2>2, <3>3
      <4>3. i \in 1..((N + 1) - 1) /\ \A j \in 1..(i - 1) : j \in 1..N
        BY <2>5
      <4>4. /\ proven'.steps[i].type = "shard-state"
            /\ proven'.steps[i].block = proven'.steps[N + 1].block
            /\ \A j \in 1..(i - 1) : proven'.steps[j].type = "shard-state"
        BY <2>5, <4>1, <4>3
      <4>5. BlockAfterState(N + 1)'
        BY <4>3, <4>4 DEF BlockAfterState
      <4>6. QED
        BY <3>1, <4>2, <4>5 DEF Referenced
    <3>4. QED
      BY <3>2, <3>3
  <2>8. \A k \in 1..(N + 1) : k = N + 1 \/ k \in 1..N
    BY <2>5
  <2>9. \A k \in 1..Len(proven'.steps) : Referenced(k)'
    BY <2>5, <2>6, <2>7, <2>8
  <2>10. IsSequence(proven'.state.blkRefs) /\ Len(proven'.state.blkRefs) = Len(proven'.steps)
    BY <2>1, <2>4, <2>5
  <2>11. QED
    BY <1>1, <2>9, <2>10 DEF ChainRight
<1>4. CASE request.flow # "chain"
  BY <1>1, <1>4 DEF ChainRight
<1>5. QED
  BY <1>2, <1>3, <1>4

LEMMA NextChain ==
  ASSUME ChainIInv, [Next]_vars
  PROVE  ChainRight'
<1>1. CASE Add
  BY <1>1, AddChain
<1>2. CASE ~Add
  <2>1. proven' = proven
    BY <1>2, KeptElsewhere
  <2>2. \A k : Referenced(k)' = Referenced(k)
    BY <2>1 DEF Referenced, BlockAfterState
  <2>3. request' = request
    BY <1>2 DEF Next, vars, PSSetValidators, PSProofValidators, BuildValidators, PSTransaction,
         PSNewStateHash, PSShard, Built, Fails, ParseCandidatesRootBlock, ParsePartValidators,
         VerifyValidators, InitValidators, SetValidatorSet, CallFails, Call
  <2>4. request.flow = "chain" /\ pc' = "add" =>
          step'.type \in {"shard-state", "shard-block"} /\ step'.bocs = << >>
    <3>1. SUFFICES ASSUME request.flow = "chain", pc' = "add"
          PROVE  step'.type \in {"shard-state", "shard-block"} /\ step'.bocs = << >>
      OBVIOUS
    <3>2. CASE \E b : PSShard("shard-state", b) \/ PSShard("shard-block", b)
      <4>1. PICK type \in {"shard-state", "shard-block"} :
              \E b : step' = Step(type, b, << >>, << >>, <<0, 0>>, << >>)
        BY <3>2 DEF PSShard, Built
      <4>2. step'.type = type /\ step'.bocs = << >>
        BY <4>1 DEF Step
      <4>3. QED
        BY <4>2
    <3>3. CASE UNCHANGED vars
      BY <3>1, <3>3 DEF vars, ChainIInv, ChainRight
    <3>4. CASE PSSetValidators \/ PSProofValidators \/ PSTransaction \/ PSNewStateHash
      BY <3>1, <3>4 DEF PSSetValidators, PSProofValidators, BuildValidators, PSTransaction, PSNewStateHash
    <3>5. CASE \/ ParseCandidatesRootBlock \/ ParsePartValidators \/ VerifyValidators
               \/ InitValidators \/ SetValidatorSet \/ CallFails
      BY <3>1, <3>5 DEF ParseCandidatesRootBlock, ParsePartValidators, VerifyValidators,
           InitValidators, SetValidatorSet, CallFails, Call
    <3>6. QED
      BY <1>2, <3>2, <3>3, <3>4, <3>5 DEF Next
  <2>5. QED
    BY <2>1, <2>2, <2>3, <2>4 DEF ChainIInv, ChainRight
<1>3. QED
  BY <1>1, <1>2

(* A shard block is proven by a chain only after the state of the masterchain *)
(* block that lists it, and only if no shard block was proven before that     *)
(* state: what a chain proves of a second shard is lost to checkShardBlock.   *)
ShardAfterState ==
  request.flow = "chain" =>
    \A k \in 1..Len(proven.steps) : proven.steps[k].type = "shard-block" => BlockAfterState(k)

THEOREM ShardsFollowStates == Spec => []ShardAfterState
<1>1. Init => ChainIInv
  BY InitTyped, InitChain DEF ChainIInv
<1>2. ChainIInv /\ [Next]_vars => ChainIInv'
  BY NextTyped, NextChain DEF ChainIInv
<1>3. ChainIInv => ShardAfterState
  BY DEF ChainIInv, ChainRight, ShardAfterState, Referenced
<1>4. QED
  BY <1>1, <1>2, <1>3, PTL DEF Spec
================================================================================
