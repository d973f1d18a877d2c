-------------------------- MODULE BeaconIndexProofs --------------------------
(* Proofs about BeaconIndex for any set of headers, any tree they form and  *)
(* any slots, with restarts and failing requests allowed or not: the rows   *)
(* and their links are right after every step, and finality is never lost;  *)
(* and about the requests of HeaderWalk that read the rows meanwhile.       *)
EXTENDS HeaderWalk, FiniteSetTheorems, SequenceTheorems, TLAPS

(* Rows are numbered from 1 without a gap above them, and a link is the      *)
(* number of a row.                                                          *)
Numbered ==
  /\ IsFiniteSet(table)
  /\ \A r \in table : r.id <= Cardinality(table) /\ r.parent <= Cardinality(table)

(* createBeacon looked for the header and for its parent, and nothing that    *)
(* it did not find has been stored since: there is one createBeacon at a time.*)
HeaderIsNew == stage \in {"parent", "create"} => Rows(Current.header) = {}
ParentLooked ==
  stage = "create" =>
    \/ Rows(ParentOf[Current.header]) = {} /\ parentId = 0
    \/ \E q \in Rows(ParentOf[Current.header]) : parentId = q.id

TableRight == Numbered /\ OneRowPerHeader /\ LinksFollowChain /\ OneChild
StageRight == HeaderIsNew /\ ParentLooked /\ ExecutionStored
IInv == TypeOK /\ TableRight /\ StageRight
-----------------------------------------------------------------------------
(* The queue keeps its type, and appending to it leaves its head.            *)
LEMMA QueueHead ==
  ASSUME NEW s \in Seq(Update), s # << >>
  PROVE  Head(s) \in Update /\ Tail(s) \in Seq(Update)
BY HeadTailProperties

LEMMA QueueAppend ==
  ASSUME NEW s \in Seq(Update), NEW u \in Update
  PROVE  /\ Append(s, u) \in Seq(Update)
         /\ Append(s, u) # << >>
         /\ s # << >> => Head(Append(s, u)) = Head(s)
<1>1. Append(s, u) \in Seq(Update) /\ Append(s, u) # << >>
  BY AppendProperties
<1>2. ASSUME s # << >> PROVE Head(Append(s, u)) = Head(s)
  <2>1. Len(s) \in Nat \ {0}
    BY <1>2, EmptySeq
  <2>2. Append(s, u)[1] = s[1]
    BY <2>1, AppendProperties
  <2>3. QED
    BY <2>2, <1>1, <1>2
<1>3. QED
  BY <1>1, <1>2

(* The header in work and its parent, when createBeacon runs.                *)
LEMMA InWork ==
  ASSUME TypeOK, stage # "idle"
  PROVE  /\ Current \in Update
         /\ Current.header \in Headers
         /\ Tail(pool) \in Seq(Update)
BY QueueHead DEF TypeOK, Current, Update

(* A change that keeps each row's number, header and link keeps the table    *)
(* right: it has as many rows as before.                                     *)
LEMMA RowsMarked ==
  ASSUME TypeOK, TableRight, NEW f \in [table -> Row],
         \A r \in table : f[r].id = r.id /\ f[r].header = r.header /\ f[r].parent = r.parent,
         table' = {f[r] : r \in table}
  PROVE  TableRight' /\ table' \in SUBSET Row
<1>1. f \in Bijection(table, table')
  <2>1. f \in [table -> table']
    OBVIOUS
  <2>2. \A r, q \in table : f[r] = f[q] => r = q
    BY DEF TableRight, OneRowPerHeader
  <2>3. \A t \in table' : \E r \in table : f[r] = t
    OBVIOUS
  <2>4. QED
    BY <2>1, <2>2, <2>3 DEF Bijection, Injection, Surjection, IsInjective
<1>2. IsFiniteSet(table') /\ Cardinality(table') = Cardinality(table)
  BY <1>1, FS_Bijection DEF ExistsBijection, TableRight, Numbered
<1>3. Numbered'
  BY <1>2 DEF TableRight, Numbered
<1>4. OneRowPerHeader'
  BY DEF TableRight, OneRowPerHeader
<1>5. LinksFollowChain'
  BY DEF TableRight, LinksFollowChain
<1>6. OneChild'
  BY DEF TableRight, OneChild
<1>7. table' \in SUBSET Row
  OBVIOUS
<1>8. QED
  BY <1>3, <1>4, <1>5, <1>6, <1>7 DEF TableRight

(* A new row: createBeacon has looked, and the constraint holds.             *)
LEMMA RowAdded ==
  ASSUME IInv, stage = "create", ~ParentTaken, NEW n \in Row,
         n.id = Cardinality(table) + 1, n.header = Current.header, n.parent = parentId,
         table' = table \cup {n}
  PROVE  TableRight'
<1>1. IsFiniteSet(table) /\ Cardinality(table) \in Nat
  BY FS_CardinalityType DEF IInv, TableRight, Numbered
<1>2. \A r \in table : /\ r \in Row /\ r.id \in Nat \ {0} /\ r.parent \in Nat
                       /\ r.id <= Cardinality(table) /\ r.parent <= Cardinality(table)
  BY DEF IInv, TypeOK, TableRight, Numbered, Row
<1>3. n \notin table
  BY <1>1, <1>2
<1>4. IsFiniteSet(table') /\ Cardinality(table') = Cardinality(table) + 1
  BY <1>1, <1>3, FS_AddElement
<1>5. parentId \in Nat /\ parentId <= Cardinality(table)
  BY <1>1, <1>2 DEF IInv, TypeOK, StageRight, ParentLooked, Rows
<1>6. \A r \in table : r.header # n.header
  BY DEF IInv, StageRight, HeaderIsNew, Rows
<1>7. Numbered'
  BY <1>1, <1>2, <1>4, <1>5 DEF Numbered
<1>8. OneRowPerHeader'
  BY <1>1, <1>2, <1>6 DEF OneRowPerHeader, IInv, TableRight
<1>9. LinksFollowChain'
  <2>1. SUFFICES ASSUME NEW r \in table', NEW q \in table'
                 PROVE  /\ r.parent = q.id => ParentOf[r.header] = q.header
                        /\ ParentOf[r.header] = q.header /\ q.id < r.id => r.parent = q.id
    BY DEF LinksFollowChain
  <2>2. CASE r \in table /\ q \in table
    BY <2>2 DEF IInv, TableRight, LinksFollowChain
  <2>3. CASE q = n
    BY <1>1, <1>2, <1>5, <2>3
  <2>4. CASE r = n /\ q \in table
    <3>1. q.id # 0
      BY <1>2, <2>4
    <3>2. \A p \in table : p.id = q.id \/ p.header = q.header => p = q
      BY <2>4 DEF IInv, TableRight, OneRowPerHeader
    <3>3. CASE Rows(ParentOf[Current.header]) = {} /\ parentId = 0
      BY <2>4, <3>1, <3>3 DEF Rows
    <3>4. CASE \E p \in Rows(ParentOf[Current.header]) : parentId = p.id
      BY <2>4, <3>2, <3>4 DEF Rows
    <3>5. QED
      BY <3>3, <3>4 DEF IInv, StageRight, ParentLooked
  <2>5. QED
    BY <2>2, <2>3, <2>4
<1>10. OneChild'
  BY DEF OneChild, IInv, TableRight, ParentTaken
<1>11. QED
  BY <1>7, <1>8, <1>9, <1>10 DEF TableRight
-----------------------------------------------------------------------------
(* Steps outside createBeacon leave the rows and the header in work.         *)
LEMMA WorkUntouched ==
  ASSUME IInv, TypeOK', UNCHANGED <<table, stage, parentId, crashed>>,
         stage # "idle" => Current' = Current
  PROVE  IInv'
<1>1. TableRight'
  BY DEF IInv, TableRight, Numbered, OneRowPerHeader, LinksFollowChain, OneChild
<1>2. HeaderIsNew' /\ ParentLooked'
  BY DEF IInv, StageRight, HeaderIsNew, ParentLooked, Rows
<1>3. ExecutionStored'
  BY DEF IInv, StageRight, ExecutionStored
<1>4. QED
  BY <1>1, <1>2, <1>3 DEF IInv, StageRight

(* The rows stay when createBeacon dies.                                     *)
LEMMA WorkLost ==
  ASSUME IInv, TypeOK', table' = table, stage' = "idle",
         crashed' = TRUE
  PROVE  IInv'
<1>1. TableRight'
  BY DEF IInv, TableRight, Numbered, OneRowPerHeader, LinksFollowChain, OneChild
<1>2. HeaderIsNew' /\ ParentLooked'
  BY DEF HeaderIsNew, ParentLooked
<1>3. ExecutionStored'
  BY DEF IInv, StageRight, ExecutionStored
<1>4. QED
  BY <1>1, <1>2, <1>3 DEF IInv, StageRight

(* Everything holds at the start. *)
LEMMA InitIInv == Init => IInv
<1> SUFFICES ASSUME Init PROVE IInv
  OBVIOUS
<1>1. TypeOK
  BY EmptySeq DEF Init, TypeOK, Watchers
<1>2. TableRight
  BY FS_EmptySet DEF Init, TableRight, Numbered, OneRowPerHeader, LinksFollowChain, OneChild
<1>3. StageRight
  BY DEF Init, StageRight, HeaderIsNew, ParentLooked, ExecutionStored
<1>4. QED
  BY <1>1, <1>2, <1>3 DEF IInv

(* A restart. *)
LEMMA RestartIInv ==
  ASSUME IInv, Restart
  PROVE  IInv'
<1>1. TypeOK'
  BY EmptySeq DEF IInv, TypeOK, Restart, env, Watchers
<1>2. table' = table /\ stage' = "idle" /\ crashed' = TRUE
  BY DEF Restart
<1>3. QED
  BY <1>1, <1>2, WorkLost

(* The database calls of createBeacon that only read. *)
LEMMA ReadsIInv ==
  ASSUME IInv, FindExisting \/ FindParent
  PROVE  IInv'
<1>1. CASE FindExisting
  <2>1. Tail(pool) \in Seq(Update)
    BY <1>1, QueueHead DEF IInv, TypeOK, FindExisting
  <2>2. TypeOK'
    <3>1. UNCHANGED <<latest, watching, seen, handling, table, crashed>>
      BY <1>1 DEF FindExisting, env, watch
    <3>2. pool' \in Seq(Update) /\ parentId' \in Nat
      <4>1. /\ pool' = pool \/ pool' = Tail(pool)
            /\ parentId' = parentId \/ parentId' = 0
        BY <1>1, Zenon DEF FindExisting, Finish
      <4>2. pool \in Seq(Update) /\ parentId \in Nat
        BY DEF IInv, TypeOK
      <4>3. pool' \in Seq(Update)
        BY <2>1, <4>1, <4>2
      <4>4. parentId' \in Nat
        BY <4>1, <4>2
      <4>5. QED
        BY <4>3, <4>4
    <3>3. \/ stage' \in {"parent", "flag"} /\ pool' # << >>
          \/ stage' = "idle"
      BY <1>1 DEF FindExisting, Finish
    <3>4. QED
      BY <3>1, <3>2, <3>3 DEF IInv, TypeOK
  <2>3. TableRight'
    BY <1>1 DEF FindExisting, IInv, TableRight, Numbered, OneRowPerHeader, LinksFollowChain, OneChild
  <2>4. HeaderIsNew' /\ ParentLooked'
    BY <1>1 DEF FindExisting, Finish, HeaderIsNew, ParentLooked, Rows, Current
  <2>5. ExecutionStored'
    BY <1>1 DEF FindExisting, IInv, StageRight, ExecutionStored
  <2>6. QED
    BY <2>2, <2>3, <2>4, <2>5 DEF IInv, StageRight
<1>2. CASE FindParent
  <2>1. \A r \in table : r.id \in Nat
    BY DEF IInv, TypeOK, Row
  <2>2. TypeOK'
    BY <1>2, <2>1 DEF IInv, TypeOK, FindParent, Rows, env, watch
  <2>3. TableRight'
    BY <1>2 DEF FindParent, IInv, TableRight, Numbered, OneRowPerHeader, LinksFollowChain, OneChild
  <2>4. HeaderIsNew'
    BY <1>2 DEF FindParent, IInv, StageRight, HeaderIsNew, Rows, Current
  <2>5. ParentLooked'
    BY <1>2 DEF FindParent, ParentLooked, Rows, Current
  <2>6. ExecutionStored'
    BY <1>2 DEF FindParent, IInv, StageRight, ExecutionStored
  <2>7. QED
    BY <2>2, <2>3, <2>4, <2>5, <2>6 DEF IInv, StageRight
<1>3. QED
  BY <1>1, <1>2

(* The writes of createBeacon. *)
LEMMA FlagIInv ==
  ASSUME IInv, FlagFinality
  PROVE  IInv'
<1> DEFINE f == [r \in table |-> IF r.header = Current.header
                                 THEN [r EXCEPT !.isFinality = TRUE] ELSE r]
<1>1. stage = "flag" /\ stage' = "idle" /\ table' = {f[r] : r \in table}
  BY DEF FlagFinality, Finish
<1>2. \A r \in table : /\ f[r] \in Row
                       /\ f[r].id = r.id /\ f[r].header = r.header /\ f[r].parent = r.parent
                       /\ f[r].execution = r.execution
  BY DEF IInv, TypeOK, Row
<1>3. TableRight' /\ table' \in SUBSET Row
  <2>1. f \in [table -> Row]
    BY <1>2
  <2> HIDE DEF f
  <2>2. QED
    BY <1>1, <1>2, <2>1, RowsMarked DEF IInv
<1>4. TypeOK'
  <2>1. pool' \in Seq(Update)
    BY <1>1, InWork DEF IInv, FlagFinality, Finish
  <2>2. QED
    BY <1>3, <2>1 DEF IInv, TypeOK, FlagFinality, Finish, env, watch
<1>5. HeaderIsNew' /\ ParentLooked'
  BY <1>1 DEF HeaderIsNew, ParentLooked
<1>6. ExecutionStored'
  <2> HIDE DEF f
  <2>1. \A r \in table : ~r.execution => crashed
    BY <1>1 DEF IInv, StageRight, ExecutionStored
  <2>2. crashed' = crashed
    BY DEF FlagFinality
  <2>3. QED
    BY <1>1, <1>2, <2>1, <2>2 DEF ExecutionStored
<1>7. QED
  BY <1>3, <1>4, <1>5, <1>6 DEF IInv, StageRight

LEMMA ExecutionIInv ==
  ASSUME IInv, CreateExecution
  PROVE  IInv'
<1> DEFINE f == [r \in table |-> IF r.header = Current.header
                                 THEN [r EXCEPT !.execution = TRUE] ELSE r]
<1>1. stage = "execution" /\ stage' = "idle" /\ table' = {f[r] : r \in table}
  BY DEF CreateExecution, Finish
<1>2. \A r \in table : /\ f[r] \in Row
                       /\ f[r].id = r.id /\ f[r].header = r.header /\ f[r].parent = r.parent
                       /\ ~f[r].execution => ~r.execution /\ r.header # Current.header
  BY DEF IInv, TypeOK, Row
<1>3. TableRight' /\ table' \in SUBSET Row
  <2>1. f \in [table -> Row]
    BY <1>2
  <2> HIDE DEF f
  <2>2. QED
    BY <1>1, <1>2, <2>1, RowsMarked DEF IInv
<1>4. TypeOK'
  <2>1. pool' \in Seq(Update)
    BY <1>1, InWork DEF IInv, CreateExecution, Finish
  <2>2. QED
    BY <1>3, <2>1 DEF IInv, TypeOK, CreateExecution, Finish, env, watch
<1>5. HeaderIsNew' /\ ParentLooked'
  BY <1>1 DEF HeaderIsNew, ParentLooked
<1>6. ExecutionStored'
  <2> HIDE DEF f
  <2>1. \A r \in table : ~r.execution => crashed \/ r.header = Current.header
    BY DEF IInv, StageRight, ExecutionStored
  <2>2. crashed' = crashed
    BY DEF CreateExecution
  <2>3. QED
    BY <1>1, <1>2, <2>1, <2>2 DEF ExecutionStored
<1>7. QED
  BY <1>3, <1>4, <1>5, <1>6 DEF IInv, StageRight

LEMMA CreateIInv ==
  ASSUME IInv, CreateRow
  PROVE  IInv'
<1> DEFINE n == [id |-> Cardinality(table) + 1, header |-> Current.header,
                 isFinality |-> Current.isFinality, parent |-> parentId, execution |-> FALSE]
<1>1. n \in Row
  <2>1. Cardinality(table) \in Nat
    BY FS_CardinalityType DEF IInv, TableRight, Numbered
  <2>2. Current \in Update
    BY InWork DEF IInv, CreateRow
  <2>3. QED
    BY <2>1, <2>2 DEF IInv, TypeOK, Row, Update
<1>2. /\ n.id = Cardinality(table) + 1 /\ n.header = Current.header
      /\ n.parent = parentId /\ ~n.execution
  OBVIOUS
<1>3. /\ stage = "create" /\ ~ParentTaken /\ table' = table \cup {n} /\ stage' = "execution"
      /\ UNCHANGED <<env, watch, pool, parentId, crashed>>
  BY DEF CreateRow
<1> HIDE DEF n
<1>4. TableRight'
  BY <1>1, <1>2, <1>3, RowAdded
<1>5. TypeOK'
  BY <1>1, <1>3 DEF IInv, TypeOK, env, watch
<1>6. HeaderIsNew' /\ ParentLooked'
  BY <1>3 DEF HeaderIsNew, ParentLooked
<1>7. ExecutionStored'
  BY <1>2, <1>3 DEF IInv, StageRight, ExecutionStored, Current
<1>8. QED
  BY <1>4, <1>5, <1>6, <1>7 DEF IInv, StageRight

(* The chain, and the watchers. *)
LEMMA WatchersIInv ==
  ASSUME IInv,
         \/ NewFinality
         \/ \E h \in Headers : NewHead(h) \/ HandleFinality(h)
         \/ \E w \in Watchers : Poll(w) \/ PollFails(w)
  PROVE  IInv'
<1>1. ASSUME NEW h \in Headers, NewHead(h) PROVE IInv'
  <2>1. TypeOK'
    BY <1>1 DEF IInv, TypeOK, NewHead, watch, create, Watchers
  <2>2. QED
    BY <1>1, <2>1, WorkUntouched DEF NewHead, create, Current
<1>2. CASE NewFinality
  <2>1. TypeOK'
    BY <1>2 DEF IInv, TypeOK, NewFinality, watch, create, Watchers
  <2>2. QED
    BY <1>2, <2>1, WorkUntouched DEF NewFinality, create, Current
<1>3. ASSUME NEW h \in Headers, HandleFinality(h) PROVE IInv'
  <2>1. [header |-> h, isFinality |-> TRUE] \in Update /\ pool \in Seq(Update)
    BY DEF IInv, TypeOK, Update
  <2>2. /\ pool' \in Seq(Update) /\ pool' # << >>
        /\ pool # << >> => Head(pool') = Head(pool)
    BY <1>3, <2>1, QueueAppend DEF HandleFinality
  <2>3. TypeOK'
    BY <1>3, <2>2 DEF IInv, TypeOK, HandleFinality, env, create
  <2>4. stage # "idle" => Current' = Current
    BY <2>2 DEF IInv, TypeOK, Current
  <2>5. QED
    BY <1>3, <2>3, <2>4, WorkUntouched DEF HandleFinality, create
<1>4. ASSUME NEW w \in Watchers, Poll(w) PROVE IInv'
  <2>1. latest[w] \in Headers
    BY <1>4 DEF IInv, TypeOK, Poll
  <2>2. [header |-> latest[w], isFinality |-> FALSE] \in Update /\ pool \in Seq(Update)
    BY <2>1 DEF IInv, TypeOK, Update
  <2>3. /\ pool' \in Seq(Update)
        /\ pool # << >> => pool' # << >> /\ Head(pool') = Head(pool)
    BY <1>4, <2>2, QueueAppend DEF Poll
  <2>4. Slot[latest[w]] \in Nat
    BY <2>1, SlotType
  <2>5. handling' \in SUBSET Headers
    BY <1>4, <2>1 DEF IInv, TypeOK, Poll
  <2>6. TypeOK'
    BY <1>4, <2>3, <2>4, <2>5 DEF IInv, TypeOK, Poll, env, create
  <2>7. stage # "idle" => Current' = Current
    BY <2>3 DEF IInv, TypeOK, Current
  <2>8. QED
    BY <1>4, <2>6, <2>7, WorkUntouched DEF Poll, create
<1>5. ASSUME NEW w \in Watchers, PollFails(w) PROVE IInv'
  <2>1. TypeOK'
    BY <1>5 DEF IInv, TypeOK, PollFails, env, create
  <2>2. QED
    BY <1>5, <2>1, WorkUntouched DEF PollFails, create, Current
<1>6. QED
  BY <1>1, <1>2, <1>3, <1>4, <1>5
-----------------------------------------------------------------------------
(* Three steps write rows, no other does. *)
LEMMA RowsUntouched ==
  ASSUME [Next]_vars, ~FlagFinality, ~CreateRow, ~CreateExecution
  PROVE  table' = table
<1>1. CASE Runs
  BY <1>1 DEF Runs, Stores, NewFinality, NewHead, HandleFinality, Poll, PollFails,
              FindExisting, FindParent
<1>2. CASE Dies
  BY <1>2 DEF Dies, CreateFails, Crash, Restart
<1>3. CASE UNCHANGED vars
  BY <1>3 DEF vars
<1>4. QED
  BY <1>1, <1>2, <1>3 DEF Next

(* Each action keeps the invariant. *)
LEMMA NextIInv == IInv /\ [Next]_vars => IInv'
<1> SUFFICES ASSUME IInv, [Next]_vars PROVE IInv'
  OBVIOUS
<1>1. CASE Runs
  <2>1. CASE Stores
    BY <2>1, ReadsIInv, FlagIInv, CreateIInv, ExecutionIInv DEF Stores
  <2>2. QED
    BY <1>1, <2>1, WatchersIInv DEF Runs
<1>2. CASE Dies
  BY <1>2, RestartIInv DEF Dies, CreateFails, Crash
<1>3. CASE UNCHANGED vars
  <2>1. TypeOK'
    BY <1>3 DEF IInv, TypeOK, vars, env, watch, create
  <2>2. QED
    BY <1>3, <2>1, WorkUntouched DEF vars, create, Current
<1>4. QED
  BY <1>1, <1>2, <1>3 DEF Next

LEMMA Invariance == Spec => []IInv
BY InitIInv, NextIInv, PTL DEF Spec

(* Rows, queue and watchers keep their types. *)
THEOREM TypeCorrect == Spec => []TypeOK
<1>1. IInv => TypeOK
  BY DEF IInv
<1>2. QED
  BY <1>1, Invariance, PTL

(* A header is stored once, whatever the two watchers hand over and however  *)
(* often the process starts again.                                           *)
THEOREM HeadersStoredOnce == Spec => []OneRowPerHeader
<1>1. IInv => OneRowPerHeader
  BY DEF IInv, TableRight
<1>2. QED
  BY <1>1, Invariance, PTL

(* Links are true, and missing only where the child was there first.         *)
THEOREM LinksAreTrue == Spec => []LinksFollowChain
<1>1. IInv => LinksFollowChain
  BY DEF IInv, TableRight
<1>2. QED
  BY <1>1, Invariance, PTL

(* No row has two children. *)
THEOREM ChildIsUnique == Spec => []OneChild
<1>1. IInv => OneChild
  BY DEF IInv, TableRight
<1>2. QED
  BY <1>1, Invariance, PTL

(* A payload is missing only between the two inserts or after a crash there. *)
THEOREM PayloadsStored == Spec => []ExecutionStored
<1>1. IInv => ExecutionStored
  BY DEF IInv, StageRight
<1>2. QED
  BY <1>1, Invariance, PTL

(* A finalised header stays finalised: each write keeps the flag.            *)
THEOREM FinalityNeverLost == Spec => FinalityKept
<1> DEFINE Kept == \A r \in table : r.isFinality =>
                     \E q \in table' : q.header = r.header /\ q.isFinality
<1>1. TypeOK /\ [Next]_vars => [Kept]_vars
  <2> SUFFICES ASSUME TypeOK, Next PROVE Kept
    OBVIOUS
  <2>1. CASE table' = table
    BY <2>1
  <2>2. CASE FlagFinality
    <3> SUFFICES ASSUME NEW r \in table, r.isFinality
                 PROVE  \E q \in table' : q.header = r.header /\ q.isFinality
      OBVIOUS
    <3>1. r \in Row
      BY DEF TypeOK
    <3>2. (IF r.header = Current.header THEN [r EXCEPT !.isFinality = TRUE] ELSE r) \in table'
      BY <2>2 DEF FlagFinality
    <3>3. QED
      BY <3>1, <3>2 DEF Row
  <2>3. CASE CreateRow
    BY <2>3 DEF CreateRow
  <2>4. CASE CreateExecution
    <3> SUFFICES ASSUME NEW r \in table, r.isFinality
                 PROVE  \E q \in table' : q.header = r.header /\ q.isFinality
      OBVIOUS
    <3>1. r \in Row
      BY DEF TypeOK
    <3>2. (IF r.header = Current.header THEN [r EXCEPT !.execution = TRUE] ELSE r) \in table'
      BY <2>4 DEF CreateExecution
    <3>3. QED
      BY <3>1, <3>2 DEF Row
  <2>5. ASSUME ~FlagFinality, ~CreateRow, ~CreateExecution PROVE table' = table
    BY <2>5, RowsUntouched
  <2>6. QED
    BY <2>1, <2>2, <2>3, <2>4, <2>5
<1>2. QED
  BY <1>1, TypeCorrect, PTL DEF Spec, FinalityKept
-----------------------------------------------------------------------------
StoredHeaders == {r.header : r \in table}
FinalHeaders == {r.header : r \in {q \in table : q.isFinality}}
StoredLinks == {<<p[1].header, p[2].header>> : p \in {p \in table \X table : p[1].parent = p[2].id}}

(* A link is a pair of headers whose rows are linked.                        *)
LEMMA LinkRows ==
  ASSUME NEW T, NEW l
  PROVE  l \in {<<p[1].header, p[2].header>> : p \in {p \in T \X T : p[1].parent = p[2].id}}
           <=> \E r, q \in T : r.parent = q.id /\ l = <<r.header, q.header>>
<1> DEFINE S == {p \in T \X T : p[1].parent = p[2].id}
<1>1. ASSUME NEW p \in S, l = <<p[1].header, p[2].header>>
      PROVE  \E r, q \in T : r.parent = q.id /\ l = <<r.header, q.header>>
  <2>1. p[1] \in T /\ p[2] \in T /\ p[1].parent = p[2].id
    OBVIOUS
  <2>2. QED
    BY <1>1, <2>1
<1>2. ASSUME NEW r \in T, NEW q \in T, r.parent = q.id, l = <<r.header, q.header>>
      PROVE  \E p \in S : l = <<p[1].header, p[2].header>>
  <2>1. <<r, q>> \in S /\ <<r, q>>[1] = r /\ <<r, q>>[2] = q
    BY <1>2
  <2> HIDE DEF S
  <2>2. QED
    BY <1>2, <2>1
<1> HIDE DEF S
<1>3. l \in {<<p[1].header, p[2].header>> : p \in S} <=> \E p \in S : l = <<p[1].header, p[2].header>>
  OBVIOUS
<1>4. QED
  BY <1>1, <1>2, <1>3 DEF S

(* The insert: what the queries found still holds, so the header is added as *)
(* one step would add it.                                                    *)
LEMMA CreateAdds ==
  ASSUME IInv, CreateRow
  PROVE  Store!Add(Current.header)
<1> DEFINE h == Current.header
           n == [id |-> Cardinality(table) + 1, header |-> h,
                 isFinality |-> Current.isFinality, parent |-> parentId, execution |-> FALSE]
<1>1. /\ stage = "create" /\ ~ParentTaken /\ table' = table \cup {n}
      /\ n.header = h /\ n.parent = parentId /\ n.id = Cardinality(table) + 1
      /\ n.isFinality = Current.isFinality
  BY DEF CreateRow
<1>2. h \notin StoredHeaders
  BY <1>1 DEF IInv, StageRight, HeaderIsNew, Rows, StoredHeaders
<1>3. /\ Cardinality(table) \in Nat
      /\ \A r \in table : /\ r.id \in Nat \ {0} /\ r.parent \in Nat
                          /\ r.id <= Cardinality(table) /\ r.parent <= Cardinality(table)
  BY FS_CardinalityType DEF IInv, TypeOK, TableRight, Numbered, Row
<1>4. parentId \in Nat /\ parentId <= Cardinality(table)
  BY <1>1, <1>3 DEF IInv, TypeOK, StageRight, ParentLooked, Rows
<1> HIDE DEF n, h
<1>5. \A r \in table' : r \in table \/ r = n
  BY <1>1
<1>6. \A r, q \in table : r.header = q.header \/ r.id = q.id => r = q
  BY DEF IInv, TableRight, OneRowPerHeader
<1>7. ~Store!HasChild(ParentOf[h])
  <2> SUFFICES ASSUME NEW r \in table, NEW q \in table, r.parent = q.id,
                      q.header = ParentOf[h]
               PROVE  FALSE
    BY DEF Store!HasChild
  <2>1. parentId = q.id
    BY <1>1, <1>6 DEF IInv, StageRight, ParentLooked, Rows, h
  <2>2. QED
    BY <1>1, <1>3, <2>1 DEF ParentTaken
<1>8. StoredHeaders' = StoredHeaders \cup {h}
  BY <1>1 DEF StoredHeaders
<1>9. FinalHeaders' \in {FinalHeaders, FinalHeaders \cup {h}}
  <2>1. CASE n.isFinality
    <3>1. FinalHeaders' = FinalHeaders \cup {h}
      BY <1>1, <2>1 DEF FinalHeaders
    <3>2. QED
      BY <3>1
  <2>2. CASE ~n.isFinality
    <3>1. FinalHeaders' = FinalHeaders
      BY <1>1, <2>2 DEF FinalHeaders
    <3>2. QED
      BY <3>1
  <2>3. QED
    BY <2>1, <2>2
<1>10. \A r \in table : r.parent # n.id
  BY <1>1, <1>3
<1>11. n.parent # n.id
  BY <1>1, <1>3, <1>4
<1>12. StoredLinks' = StoredLinks \cup Store!LinkOf(h)
  <2>1. \A l : l \in StoredLinks' <=>
                 \E r, q \in table' : r.parent = q.id /\ l = <<r.header, q.header>>
    BY LinkRows DEF StoredLinks
  <2>2. \A l : l \in StoredLinks <=>
                 \E r, q \in table : r.parent = q.id /\ l = <<r.header, q.header>>
    BY LinkRows DEF StoredLinks
  <2>3. \A l : l \in StoredLinks' <=>
                 \/ l \in StoredLinks
                 \/ \E q \in table : parentId = q.id /\ l = <<h, q.header>>
    BY <1>1, <1>5, <1>10, <1>11, <2>1, <2>2
  <2>4. \A l : l \in Store!LinkOf(h) <=> ParentOf[h] \in StoredHeaders /\ l = <<h, ParentOf[h]>>
    BY DEF Store!LinkOf, StoredHeaders
  <2>5. \A l : l \in Store!LinkOf(h) <=>
                 \E q \in table : parentId = q.id /\ l = <<h, q.header>>
    <3>1. CASE Rows(ParentOf[h]) = {} /\ parentId = 0
      <4>1. ParentOf[h] \notin StoredHeaders
        BY <3>1 DEF Rows, StoredHeaders
      <4>2. \A q \in table : parentId # q.id
        BY <1>3, <3>1
      <4>3. QED
        BY <2>4, <4>1, <4>2
    <3>2. CASE \E q \in Rows(ParentOf[h]) : parentId = q.id
      <4>1. PICK q \in table : q.header = ParentOf[h] /\ parentId = q.id
        BY <3>2 DEF Rows
      <4>2. ParentOf[h] \in StoredHeaders
        BY <4>1 DEF StoredHeaders
      <4>3. \A p \in table : parentId = p.id => p = q
        BY <1>6, <4>1
      <4>4. QED
        BY <2>4, <4>1, <4>2, <4>3
    <3>3. QED
      BY <1>1, <3>1, <3>2 DEF IInv, StageRight, ParentLooked, h
  <2>6. QED
    BY <2>3, <2>5
<1>13. QED
  BY <1>2, <1>7, <1>8, <1>9, <1>12
     DEF Store!Add, h, StoredHeaders, FinalHeaders, StoredLinks

(* Flagging a row turns its header final and changes nothing else.           *)
LEMMA FlagFinalises ==
  ASSUME IInv, FlagFinality
  PROVE  Store!Finalise(Current.header) \/ UNCHANGED Store!storeVars
<1> DEFINE h == Current.header
           f == [r \in table |-> IF r.header = h THEN [r EXCEPT !.isFinality = TRUE] ELSE r]
<1>1. table' = {f[r] : r \in table}
  BY DEF FlagFinality
<1>2. \A r \in table : /\ f[r].header = r.header /\ f[r].id = r.id /\ f[r].parent = r.parent
                       /\ f[r].isFinality <=> r.isFinality \/ r.header = h
  BY DEF IInv, TypeOK, Row
<1> HIDE DEF f, h
<1>3. StoredHeaders' = StoredHeaders
  BY <1>1, <1>2 DEF StoredHeaders
<1>4. FinalHeaders' = FinalHeaders \cup (StoredHeaders \cap {h})
  BY <1>1, <1>2 DEF FinalHeaders, StoredHeaders
<1>5. StoredLinks' = StoredLinks
  <2>1. ASSUME NEW l PROVE l \in StoredLinks' <=> l \in StoredLinks
    <3>1. l \in StoredLinks' <=>
            \E r, q \in table' : r.parent = q.id /\ l = <<r.header, q.header>>
      BY LinkRows DEF StoredLinks
    <3>2. l \in StoredLinks <=>
            \E r, q \in table : r.parent = q.id /\ l = <<r.header, q.header>>
      BY LinkRows DEF StoredLinks
    <3>3. QED
      BY <1>1, <1>2, <3>1, <3>2
  <2>2. /\ \A l \in StoredLinks' : l \in StoredLinks
        /\ \A l \in StoredLinks : l \in StoredLinks'
    BY <2>1
  <2>3. StoredLinks' \subseteq StoredLinks /\ StoredLinks \subseteq StoredLinks'
    BY <2>2
  <2>4. QED
    BY <2>3
<1>6. CASE h \in StoredHeaders
  BY <1>3, <1>4, <1>5, <1>6 DEF Store!Finalise, h, StoredHeaders, FinalHeaders, StoredLinks
<1>7. CASE h \notin StoredHeaders
  BY <1>3, <1>4, <1>5, <1>7 DEF Store!storeVars, StoredHeaders, FinalHeaders, StoredLinks
<1>8. QED
  BY <1>6, <1>7

(* The payload of a row is no part of what the store promises.               *)
LEMMA ExecutionStutters ==
  ASSUME IInv, CreateExecution
  PROVE  UNCHANGED Store!storeVars
<1> DEFINE f == [r \in table |-> IF r.header = Current.header
                                 THEN [r EXCEPT !.execution = TRUE] ELSE r]
<1>1. table' = {f[r] : r \in table}
  BY DEF CreateExecution
<1>2. \A r \in table : /\ f[r].header = r.header /\ f[r].id = r.id /\ f[r].parent = r.parent
                       /\ f[r].isFinality = r.isFinality
  BY DEF IInv, TypeOK, Row
<1> HIDE DEF f
<1>3. StoredHeaders' = StoredHeaders /\ FinalHeaders' = FinalHeaders
  BY <1>1, <1>2 DEF StoredHeaders, FinalHeaders
<1>4. StoredLinks' = StoredLinks
  <2>1. ASSUME NEW l PROVE l \in StoredLinks' <=> l \in StoredLinks
    <3>1. l \in StoredLinks' <=>
            \E r, q \in table' : r.parent = q.id /\ l = <<r.header, q.header>>
      BY LinkRows DEF StoredLinks
    <3>2. l \in StoredLinks <=>
            \E r, q \in table : r.parent = q.id /\ l = <<r.header, q.header>>
      BY LinkRows DEF StoredLinks
    <3>3. QED
      BY <1>1, <1>2, <3>1, <3>2
  <2>2. StoredLinks' \subseteq StoredLinks /\ StoredLinks \subseteq StoredLinks'
    BY <2>1
  <2>3. QED
    BY <2>2
<1>5. QED
  BY <1>3, <1>4 DEF Store!storeVars, StoredHeaders, FinalHeaders, StoredLinks

(* createBeacon stores headers as one step would: its queries and inserts     *)
(* implement HeaderStore, whatever arrives and dies between them.            *)
THEOREM ImplementsStore == Spec => StoredAtOnce
<1>1. Init => Store!StoreInit
  BY DEF Init, Store!StoreInit
<1>2. IInv /\ [Next]_vars => [Store!StoreNext]_(Store!storeVars)
  <2> SUFFICES ASSUME IInv, [Next]_vars PROVE Store!StoreNext \/ UNCHANGED Store!storeVars
    BY DEF Store!storeVars
  <2>1. CASE FlagFinality
    <3>1. Current.header \in Headers
      BY <2>1, InWork DEF IInv, FlagFinality
    <3>2. QED
      BY <2>1, <3>1, FlagFinalises DEF Store!StoreNext, Store!Finalise
  <2>2. CASE CreateRow
    <3>1. Current.header \in Headers
      BY <2>2, InWork DEF IInv, CreateRow
    <3>2. QED
      BY <2>2, <3>1, CreateAdds DEF Store!StoreNext, Store!Add
  <2>3. CASE CreateExecution
    BY <2>3, ExecutionStutters
  <2>4. ASSUME ~FlagFinality, ~CreateRow, ~CreateExecution PROVE UNCHANGED Store!storeVars
    <3>1. table' = table
      BY <2>4, RowsUntouched
    <3>2. QED
      BY <3>1 DEF Store!storeVars
  <2>5. QED
    BY <2>1, <2>2, <2>3, <2>4
<1>3. QED
  BY <1>1, <1>2, Invariance, PTL DEF Spec, StoredAtOnce, Store!StoreSpec
-----------------------------------------------------------------------------
(* The requests of HeaderWalk, for any number of them: what is put together  *)
(* from rows read at different times, while createBeacon adds and flags      *)
(* rows, is one chain.                                                       *)

Copy == [header : Headers \cup {None}, isFinality : BOOLEAN, child : Headers \cup {None}]

ReqTyped ==
  /\ at \in [Requests -> {"new", "walk", "answered", "refused", "lost"}]
  /\ target \in [Requests -> Headers \cup {None}]
  /\ update \in [Requests -> Copy]
  /\ path \in [Requests -> Seq(Copy)]

(* A copy may be out of date, but what it says stays true: the child it       *)
(* names, if any, is a child of its header and is stored.                    *)
CopyRight(c) ==
  /\ c \in Copy /\ c.header \in Headers
  /\ c.child # None => ParentOf[c.child] = c.header /\ Rows(c.child) # {}

(* Headers from the latest down to a child of h's parent.                    *)
Chain(p, h) ==
  /\ Len(p) # 0
  /\ \A i \in 1..(Len(p) - 1) : ParentOf[p[i].header] = p[i + 1].header
  /\ ParentOf[p[Len(p)].header] = ParentOf[h]

RequestRight(r) ==
  /\ at[r] \in {"walk", "answered"} =>
       /\ CopyRight(update[r]) /\ ParentOf[update[r].header] = ParentOf[target[r]]
       /\ Chain(path[r], target[r])
       /\ \A i \in 1..Len(path[r]) : CopyRight(path[r][i])
  /\ at[r] = "answered" => path[r][1].isFinality

ReqIInv == IInv /\ ReqTyped /\ \A r \in Requests : RequestRight(r)
-----------------------------------------------------------------------------
(* No step takes a row away, though writes replace rows by changed ones.     *)
LEMMA RowsStay ==
  ASSUME TypeOK, [Next]_vars, NEW g, Rows(g) # {}
  PROVE  (Rows(g) # {})'
<1>1. PICK r \in table : r.header = g
  BY DEF Rows
<1>2. r \in Row
  BY DEF TypeOK
<1>3. SUFFICES \E q \in table' : q.header = g
  BY DEF Rows
<1>4. CASE table' = table
  BY <1>1, <1>4
<1>5. CASE FlagFinality
  <2>1. (IF r.header = Current.header THEN [r EXCEPT !.isFinality = TRUE] ELSE r) \in table'
    BY <1>1, <1>5 DEF FlagFinality
  <2>2. QED
    BY <1>1, <1>2, <2>1 DEF Row
<1>6. CASE CreateRow
  BY <1>1, <1>6 DEF CreateRow
<1>7. CASE CreateExecution
  <2>1. (IF r.header = Current.header THEN [r EXCEPT !.execution = TRUE] ELSE r) \in table'
    BY <1>1, <1>7 DEF CreateExecution
  <2>2. QED
    BY <1>1, <1>2, <2>1 DEF Row
<1>8. ASSUME ~FlagFinality, ~CreateRow, ~CreateExecution PROVE table' = table
  BY <1>8, RowsUntouched
<1>9. QED
  BY <1>4, <1>5, <1>6, <1>7, <1>8

(* So a copy that is right stays right.                                      *)
LEMMA CopyStaysRight ==
  ASSUME TypeOK, [Next]_vars, NEW c, CopyRight(c)
  PROVE  /\ c \in Copy /\ c.header \in Headers
         /\ c.child # None => ParentOf[c.child] = c.header /\ \E q \in table' : q.header = c.child
<1>1. CopyRight(c) /\ (Rows(c.child) # {} => \E q \in table' : q.header = c.child)
  BY RowsStay DEF Rows
<1>2. QED
  BY <1>1 DEF CopyRight

(* What findNext returns: copies of children of the hash, with true links.   *)
LEMMA NextRowsRight ==
  ASSUME IInv, NEW hash, NEW u \in NextRows(hash)
  PROVE  CopyRight(u) /\ ParentOf[u.header] = hash
<1>1. PICK row \in table : ParentOf[row.header] = hash /\ u = Read(row)
  BY DEF NextRows
<1>2. row \in Row
  BY DEF IInv, TypeOK
<1>3. CASE \E q \in table : q.parent = row.id
  <2>1. PICK q \in table : q.parent = row.id /\ ChildOf(row) = q.header
    BY <1>3 DEF ChildOf
  <2>2. ParentOf[q.header] = row.header
    BY <2>1 DEF IInv, TableRight, LinksFollowChain
  <2>3. q.header \in Headers /\ Rows(q.header) # {}
    BY DEF IInv, TypeOK, Row, Rows
  <2>4. QED
    BY <1>1, <1>2, <2>1, <2>2, <2>3 DEF CopyRight, Copy, Read, Row
<1>4. CASE ~\E q \in table : q.parent = row.id
  <2>1. ChildOf(row) = None
    BY <1>4 DEF ChildOf
  <2>2. QED
    BY <1>1, <1>2, <2>1 DEF CopyRight, Copy, Read, Row
<1>5. QED
  BY <1>3, <1>4

(* One copy is a chain, and a child of the latest header makes it longer.    *)
LEMMA ChainOfOne ==
  ASSUME NEW u \in Copy, NEW h, ParentOf[u.header] = ParentOf[h]
  PROVE  /\ <<u>> \in Seq(Copy) /\ Len(<<u>>) = 1 /\ <<u>>[1] = u
         /\ Chain(<<u>>, h)
<1>1. <<u>> \in Seq(Copy) /\ Len(<<u>>) = 1 /\ <<u>>[1] = u
  OBVIOUS
<1>2. QED
  BY <1>1 DEF Chain

LEMMA ChainGrows ==
  ASSUME NEW p \in Seq(Copy), NEW h, Chain(p, h), NEW u \in Copy,
         ParentOf[u.header] = Head(p).header
  PROVE  /\ <<u>> \o p \in Seq(Copy)
         /\ Len(<<u>> \o p) = Len(p) + 1
         /\ (<<u>> \o p)[1] = u
         /\ \A i \in 1..Len(p) : (<<u>> \o p)[i + 1] = p[i]
         /\ Chain(<<u>> \o p, h)
<1> DEFINE s == <<u>> \o p
<1>1. Len(p) \in Nat \ {0}
  BY DEF Chain
<1>2. <<u>> \in Seq(Copy) /\ Len(<<u>>) = 1 /\ <<u>>[1] = u
  OBVIOUS
<1>3. /\ s \in Seq(Copy) /\ Len(s) = Len(p) + 1
      /\ \A i \in 1..Len(s) : s[i] = IF i <= 1 THEN <<u>>[i] ELSE p[i - 1]
  BY <1>2, ConcatProperties
<1>4. s[1] = u /\ \A i \in 1..Len(p) : s[i + 1] = p[i]
  BY <1>1, <1>2, <1>3
<1>5. Head(p) = p[1]
  BY <1>1
<1> HIDE DEF s
<1>6. \A i \in 1..(Len(s) - 1) : ParentOf[s[i].header] = s[i + 1].header
  <2> SUFFICES ASSUME NEW i \in 1..(Len(s) - 1)
               PROVE  ParentOf[s[i].header] = s[i + 1].header
    OBVIOUS
  <2>1. CASE i = 1
    BY <1>1, <1>4, <1>5, <2>1
  <2>2. CASE i # 1
    <3>1. i - 1 \in 1..(Len(p) - 1) /\ i - 1 \in 1..Len(p) /\ i \in 1..Len(p)
      BY <1>1, <1>3, <2>2
    <3>2. s[(i - 1) + 1] = p[i - 1] /\ s[i + 1] = p[i] /\ (i - 1) + 1 = i
      BY <1>4, <3>1
    <3>3. ParentOf[p[i - 1].header] = p[(i - 1) + 1].header
      BY <3>1 DEF Chain
    <3>4. QED
      BY <3>2, <3>3
  <2>3. QED
    BY <2>1, <2>2
<1>7. ParentOf[s[Len(s)].header] = ParentOf[h]
  <2>1. s[Len(p) + 1] = p[Len(p)]
    BY <1>1, <1>4
  <2>2. QED
    BY <1>3, <2>1 DEF Chain
<1>8. Chain(s, h)
  BY <1>1, <1>3, <1>6, <1>7 DEF Chain
<1>9. QED
  BY <1>3, <1>4, <1>8 DEF s
-----------------------------------------------------------------------------
LEMMA ReqInitIInv == ReqInit => ReqIInv
<1> SUFFICES ASSUME ReqInit PROVE ReqIInv
  OBVIOUS
<1>1. IInv
  BY InitIInv DEF ReqInit
<1>2. ReqTyped
  <2>1. Headed(None) \in Copy /\ << >> \in Seq(Copy)
    BY EmptySeq DEF Headed, Copy
  <2>2. QED
    BY <2>1 DEF ReqInit, ReqTyped
<1>3. \A r \in Requests : RequestRight(r)
  BY DEF ReqInit, RequestRight
<1>4. QED
  BY <1>1, <1>2, <1>3 DEF ReqIInv

(* A request that does not move stays right while rows are stored, and so    *)
(* does one that ends without an answer.                                     *)
LEMMA OthersStayRight ==
  ASSUME TypeOK, [Next]_vars, NEW r \in Requests, RequestRight(r),
         target'[r] = target[r], update'[r] = update[r], path'[r] = path[r],
         at'[r] = at[r] \/ at'[r] \notin {"walk", "answered"}
  PROVE  RequestRight(r)'
<1>1. CASE at'[r] \notin {"walk", "answered"}
  BY <1>1 DEF RequestRight
<1>2. CASE at'[r] = at[r] /\ at[r] \in {"walk", "answered"}
  <2>1. /\ CopyRight(update[r]) /\ update'[r] = update[r]
        /\ \A i \in 1..Len(path[r]) : CopyRight(path[r][i])
    BY <1>2 DEF RequestRight
  <2>2. CopyRight(update[r])'
    BY <2>1, CopyStaysRight DEF CopyRight, Rows
  <2>3. \A i \in 1..Len(path'[r]) : CopyRight(path[r][i])'
    BY <2>1, CopyStaysRight DEF CopyRight, Rows
  <2>4. QED
    BY <1>2, <2>2, <2>3 DEF RequestRight, Chain
<1>3. QED
  BY <1>1, <1>2

(* What one request does leaves the rows and the other requests alone.       *)
LEMMA OneMoves ==
  ASSUME ReqIInv, NEW r \in Requests, UNCHANGED vars, ReqTyped', RequestRight(r)',
         \A o \in Requests \ {r} : /\ at'[o] = at[o] /\ target'[o] = target[o]
                                   /\ update'[o] = update[o] /\ path'[o] = path[o]
  PROVE  ReqIInv'
<1>1. IInv'
  BY NextIInv DEF ReqIInv
<1>2. ASSUME NEW o \in Requests \ {r} PROVE RequestRight(o)'
  <2>1. TypeOK /\ [Next]_vars /\ RequestRight(o)
    BY DEF ReqIInv, IInv
  <2>2. QED
    BY <2>1, OthersStayRight
<1>3. QED
  BY <1>1, <1>2 DEF ReqIInv

(* getUpdateByReceipt found a row. *)
LEMMA GetUpdateIInv ==
  ASSUME ReqIInv, NEW r \in Requests, NEW h \in Headers, GetUpdate(r, h)
  PROVE  ReqIInv'
<1>1. PICK u \in NextRows(ParentOf[h]) : /\ update' = [update EXCEPT ![r] = u]
                                         /\ path' = [path EXCEPT ![r] = <<u>>]
  BY DEF GetUpdate
<1>2. /\ UNCHANGED vars /\ target' = [target EXCEPT ![r] = h]
      /\ at' = [at EXCEPT ![r] = "walk"]
  BY DEF GetUpdate
<1>3. CopyRight(u) /\ u \in Copy /\ ParentOf[u.header] = ParentOf[h]
  BY NextRowsRight DEF ReqIInv, CopyRight
<1>4. /\ <<u>> \in Seq(Copy) /\ Len(<<u>>) = 1 /\ <<u>>[1] = u
      /\ Chain(<<u>>, h)
  BY <1>3, ChainOfOne
<1>5. ReqTyped'
  BY <1>1, <1>2, <1>3, <1>4 DEF ReqIInv, ReqTyped
<1>6. at'[r] = "walk" /\ target'[r] = h /\ update'[r] = u /\ path'[r] = <<u>>
  BY <1>1, <1>2 DEF ReqIInv, ReqTyped
<1>7. RequestRight(r)'
  <2>1. CopyRight(update[r])' /\ table' = table
    BY <1>2, <1>3, <1>6 DEF CopyRight, Rows, vars
  <2>2. \A i \in 1..Len(path'[r]) : path'[r][i] = update'[r]
    BY <1>4, <1>6
  <2>3. \A i \in 1..Len(path'[r]) : CopyRight(path[r][i])'
    BY <2>1, <2>2 DEF CopyRight, Rows
  <2>4. QED
    BY <1>3, <1>4, <1>6, <2>1, <2>3 DEF RequestRight, Chain
<1>8. QED
  BY <1>1, <1>2, <1>5, <1>7, OneMoves DEF ReqIInv, ReqTyped

(* One row is put before the path. *)
LEMMA WalkOnIInv ==
  ASSUME ReqIInv, NEW r \in Requests, WalkOn(r)
  PROVE  ReqIInv'
<1>1. PICK u \in NextRows(Head(path[r]).header) : path' = [path EXCEPT ![r] = <<u>> \o @]
  BY DEF WalkOn
<1>2. at[r] = "walk" /\ UNCHANGED <<vars, at, target, update>>
  BY DEF WalkOn
<1>3. CopyRight(u) /\ u \in Copy /\ ParentOf[u.header] = Head(path[r]).header
  BY <1>1, NextRowsRight DEF ReqIInv, CopyRight
<1>4. /\ path[r] \in Seq(Copy) /\ Chain(path[r], target[r])
      /\ CopyRight(update[r]) /\ ParentOf[update[r].header] = ParentOf[target[r]]
      /\ \A i \in 1..Len(path[r]) : CopyRight(path[r][i])
  BY <1>2 DEF ReqIInv, ReqTyped, RequestRight
<1> DEFINE s == <<u>> \o path[r]
<1>5. /\ s \in Seq(Copy) /\ Len(s) = Len(path[r]) + 1 /\ s[1] = u
      /\ \A i \in 1..Len(path[r]) : s[i + 1] = path[r][i]
      /\ Chain(s, target[r])
  BY <1>3, <1>4, ChainGrows
<1>6. path' = [path EXCEPT ![r] = s]
  BY <1>1
<1> HIDE DEF s
<1>7. ReqTyped' /\ path'[r] = s
  BY <1>2, <1>5, <1>6 DEF ReqIInv, ReqTyped
<1>8. RequestRight(r)'
  <2>1. \A i \in 1..Len(s) : CopyRight(s[i])
    <3> SUFFICES ASSUME NEW i \in 1..Len(s) PROVE CopyRight(s[i])
      OBVIOUS
    <3>1. CASE i = 1
      BY <1>3, <1>5, <3>1
    <3>2. CASE i # 1
      <4>1. Len(path[r]) \in Nat
        BY <1>4
      <4>2. i - 1 \in 1..Len(path[r]) /\ (i - 1) + 1 = i
        BY <1>5, <3>2, <4>1
      <4>3. s[i] = path[r][i - 1]
        BY <1>5, <4>2
      <4>4. QED
        BY <1>4, <4>2, <4>3
    <3>3. QED
      BY <3>1, <3>2
  <2>2. \A i \in 1..Len(path'[r]) : CopyRight(path[r][i])'
    BY <1>2, <1>7, <2>1 DEF CopyRight, Rows, vars
  <2>3. CopyRight(update[r])'
    BY <1>2, <1>4 DEF CopyRight, Rows, vars
  <2>4. QED
    BY <1>2, <1>4, <1>5, <1>7, <2>2, <2>3 DEF RequestRight, Chain
<1>9. QED
  BY <1>2, <1>6, <1>7, <1>8, OneMoves DEF ReqIInv, ReqTyped

(* The path begins again with the row that was read first. *)
LEMMA StartOverIInv ==
  ASSUME ReqIInv, NEW r \in Requests, StartOver(r)
  PROVE  ReqIInv'
<1>1. /\ at[r] = "walk" /\ UNCHANGED <<vars, at, target, update>>
      /\ path' = [path EXCEPT ![r] = <<update[r]>>]
  BY DEF StartOver
<1>2. /\ CopyRight(update[r]) /\ update[r] \in Copy
      /\ ParentOf[update[r].header] = ParentOf[target[r]]
  BY <1>1 DEF ReqIInv, RequestRight, CopyRight
<1>3. /\ <<update[r]>> \in Seq(Copy) /\ Len(<<update[r]>>) = 1 /\ <<update[r]>>[1] = update[r]
      /\ Chain(<<update[r]>>, target[r])
  BY <1>2, ChainOfOne
<1>4. ReqTyped' /\ path'[r] = <<update[r]>>
  BY <1>1, <1>3 DEF ReqIInv, ReqTyped
<1>5. RequestRight(r)'
  <2>1. CopyRight(update[r])'
    BY <1>1, <1>2 DEF CopyRight, Rows, vars
  <2>2. \A i \in 1..Len(path'[r]) : path'[r][i] = update'[r]
    BY <1>1, <1>3, <1>4
  <2>3. \A i \in 1..Len(path'[r]) : CopyRight(path[r][i])'
    BY <2>1, <2>2 DEF CopyRight, Rows
  <2>4. QED
    BY <1>1, <1>2, <1>3, <1>4, <2>1, <2>3 DEF RequestRight, Chain
<1>6. QED
  BY <1>1, <1>4, <1>5, OneMoves DEF ReqIInv, ReqTyped

(* A request ends. *)
LEMMA EndIInv ==
  ASSUME ReqIInv, NEW r \in Requests, Answer(r) \/ \E h \in Headers : NotInIndex(r, h)
  PROVE  ReqIInv'
<1>1. UNCHANGED <<vars, target, update, path>>
  BY DEF Answer, NotInIndex
<1>2. PICK e \in {"answered", "refused"} : at' = [at EXCEPT ![r] = e]
  BY DEF Answer, NotInIndex
<1>3. e = "answered" => at[r] = "walk" /\ Head(path[r]).isFinality
  <2>1. at'[r] = e
    BY <1>2 DEF ReqIInv, ReqTyped
  <2>2. QED
    BY <2>1 DEF Answer, NotInIndex, ReqIInv, ReqTyped
<1>4. ReqTyped'
  BY <1>1, <1>2 DEF ReqIInv, ReqTyped
<1>5. at'[r] = e
  BY <1>2 DEF ReqIInv, ReqTyped
<1>6. CASE e = "answered"
  <2>1. /\ at[r] = "walk" /\ path[r][1].isFinality /\ RequestRight(r)
    BY <1>3, <1>6 DEF ReqIInv, ReqTyped, RequestRight, Chain
  <2>2. CopyRight(update[r])' /\ \A i \in 1..Len(path'[r]) : CopyRight(path[r][i])'
    BY <1>1, <2>1 DEF RequestRight, CopyRight, Rows, vars
  <2>3. RequestRight(r)'
    BY <1>1, <2>1, <2>2 DEF RequestRight, Chain
  <2>4. QED
    BY <1>1, <1>2, <1>4, <2>3, OneMoves DEF ReqIInv, ReqTyped
<1>7. CASE e = "refused"
  <2>1. RequestRight(r)'
    BY <1>5, <1>7 DEF RequestRight
  <2>2. QED
    BY <1>1, <1>2, <1>4, <2>1, OneMoves DEF ReqIInv, ReqTyped
<1>8. QED
  BY <1>6, <1>7

(* What BeaconIndex does, alone or with the end of the process. *)
LEMMA IndexIInv ==
  ASSUME ReqIInv, [Next]_vars, UNCHANGED <<target, update, path>>,
         \/ at' = at
         \/ at' = [r \in Requests |-> IF at[r] = "walk" THEN "lost" ELSE at[r]]
  PROVE  ReqIInv'
<1>1. IInv'
  BY NextIInv DEF ReqIInv
<1>2. ReqTyped'
  BY DEF ReqIInv, ReqTyped
<1>3. ASSUME NEW r \in Requests PROVE RequestRight(r)'
  <2>1. TypeOK /\ RequestRight(r) /\ (at'[r] = at[r] \/ at'[r] \notin {"walk", "answered"})
    BY DEF ReqIInv, IInv
  <2>2. QED
    BY <2>1, OthersStayRight
<1>4. QED
  BY <1>1, <1>2, <1>3 DEF ReqIInv

LEMMA ReqNextIInv == ReqIInv /\ [ReqNext]_reqVars => ReqIInv'
<1> SUFFICES ASSUME ReqIInv, [ReqNext]_reqVars PROVE ReqIInv'
  OBVIOUS
<1>1. CASE Runs /\ UNCHANGED reqs
  BY <1>1, IndexIInv DEF reqs, Next
<1>2. CASE ReqDies
  BY <1>2, IndexIInv DEF ReqDies, Next
<1>3. ASSUME NEW r \in Requests, NEW h \in Headers, GetUpdate(r, h) \/ NotInIndex(r, h)
      PROVE  ReqIInv'
  BY <1>3, GetUpdateIInv, EndIInv
<1>4. ASSUME NEW r \in Requests, Walk(r) PROVE ReqIInv'
  BY <1>4, WalkOnIInv, StartOverIInv, EndIInv DEF Walk
<1>5. CASE UNCHANGED reqVars
  <2>1. UNCHANGED vars /\ UNCHANGED reqs
    BY <1>5 DEF reqVars
  <2>2. QED
    BY <2>1, IndexIInv DEF reqs
<1>6. QED
  BY <1>1, <1>2, <1>3, <1>4, <1>5 DEF ReqNext

LEMMA ReqInvariance == ReqSpec => []ReqIInv
BY ReqInitIInv, ReqNextIInv, PTL DEF ReqSpec

(* What a request answers is one chain of headers from a finalised one down   *)
(* to a child of the receipt's parent root, however its reads of rows, one    *)
(* query at a time, fall between the writes of createBeacon.                 *)
THEOREM AnswersAreChains == ReqSpec => []AnswerIsChain
<1>1. ReqIInv => AnswerIsChain
  BY DEF ReqIInv, RequestRight, Chain, AnswerIsChain
<1>2. QED
  BY <1>1, ReqInvariance, PTL

(* The child hash sent with a header is the header sent before it, or none,   *)
(* or both branches of a fork are stored.                                    *)
THEOREM ChildHashesMatch == ReqSpec => []ChildIsNext
<1>1. ReqIInv => ChildIsNext
  <2> SUFFICES ASSUME ReqIInv, NEW r \in Requests, at[r] = "answered",
                      NEW i \in 2..Len(path[r])
               PROVE  \/ path[r][i].child \in {None, path[r][i - 1].header}
                      \/ Forked(path[r][i - 1].header)
    BY DEF ChildIsNext
  <2>1. path[r] \in Seq(Copy) /\ RequestRight(r) /\ Len(path[r]) \in Nat
    BY DEF ReqIInv, ReqTyped
  <2>2. i - 1 \in 1..(Len(path[r]) - 1) /\ (i - 1) + 1 = i /\ i \in 1..Len(path[r])
    BY <2>1
  <2>3. ParentOf[path[r][i - 1].header] = path[r][i].header
    BY <2>1, <2>2 DEF RequestRight, Chain
  <2>4. CopyRight(path[r][i])
    BY <2>1, <2>2 DEF RequestRight
  <2>5. CASE path[r][i].child # None
    <3>1. /\ path[r][i].child \in Headers /\ Rows(path[r][i].child) # {}
          /\ ParentOf[path[r][i].child] = path[r][i].header
      BY <2>4, <2>5 DEF CopyRight, Copy
    <3>2. QED
      BY <2>3, <3>1 DEF Forked
  <2>6. QED
    BY <2>5
<1>2. QED
  BY <1>1, ReqInvariance, PTL
===============================================================================
