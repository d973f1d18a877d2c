------------------------------ MODULE BeaconIndex ------------------------------
(***************************************************************************)
(* How Ethereum beacon headers get into the database: the two watchers     *)
(* poll the light-client API, BeaconService queues what they see in        *)
(* savePool, and EthBeaconService.createBeacon stores one header at a time *)
(* in several database calls, between any two of which the process may     *)
(* die.  Headers form a tree, as they do when the chain reorganises.       *)
(***************************************************************************)
EXTENDS Naturals, Sequences, FiniteSets

CONSTANTS Headers,   \* attested headers (Beacon.selfHash)
          Slot,      \* their slots
          ParentOf,  \* their parentRoot; Genesis for a header outside Headers
          Genesis,
          None,      \* nothing published yet
          MayCrash,  \* the process may be killed at any time
          MayFail    \* a request of a watcher may fail

ASSUME SlotType == Slot \in [Headers -> Nat \ {0}]
ASSUME ParentType == /\ ParentOf \in [Headers -> Headers \cup {Genesis}]
                     /\ \A h \in Headers : ParentOf[h] # Genesis =>
                                             Slot[ParentOf[h]] < Slot[h]
ASSUME OutsideHeaders == Genesis \notin Headers /\ None \notin Headers
ASSUME FlagsBoolean == MayCrash \in BOOLEAN /\ MayFail \in BOOLEAN

Watchers == {"optimistic", "finality"}

VARIABLES latest,    \* what the API answers to each watcher's request
          watching,  \* the watcher's run() has not ended
          seen,      \* _currentSlot of each watcher
          handling,  \* finality updates inside onFinalityUpdate
          pool,      \* savePool: the updates concatMap has not finished with
          stage,     \* where createBeacon of the first of them is
          parentId,  \* its local `parent?.id'
          table,     \* Beacon rows: [id, header, isFinality, parent, execution]
          crashed    \* history: the process died at least once

env == <<latest>>
watch == <<watching, seen, handling>>
create == <<stage, parentId>>
vars == <<latest, watching, seen, handling, pool, stage, parentId, table, crashed>>

Rows(h) == {r \in table : r.header = h}
Current == Head(pool)
-----------------------------------------------------------------------------
\* The chain has a new head; reorganisations may leave a header behind.
NewHead(h) ==
  /\ latest["optimistic"] # None => Slot[latest["optimistic"]] < Slot[h]
  /\ latest' = [latest EXCEPT !["optimistic"] = h]
  /\ UNCHANGED <<watch, pool, create, table, crashed>>

\* A finality update is attested by the head.
NewFinality ==
  /\ latest["optimistic"] # None /\ latest["finality"] # latest["optimistic"]
  /\ latest' = [latest EXCEPT !["finality"] = latest["optimistic"]]
  /\ UNCHANGED <<watch, pool, create, table, crashed>>

\* One turn of a watcher's loop that sees another slot than the last time.
\* onOptimisticUpdate queues it at once, onFinalityUpdate awaits first.
Poll(w) ==
  /\ watching[w] /\ latest[w] # None /\ Slot[latest[w]] # seen[w]
  /\ seen' = [seen EXCEPT ![w] = Slot[latest[w]]]
  /\ IF w = "optimistic"
     THEN /\ pool' = Append(pool, [header |-> latest[w], isFinality |-> FALSE])
          /\ UNCHANGED handling
     ELSE /\ handling' = handling \cup {latest[w]}
          /\ UNCHANGED pool
  /\ UNCHANGED <<env, watching, create, table, crashed>>

\* A request that fails ends run(): its catch only logs.
PollFails(w) ==
  /\ MayFail /\ watching[w]
  /\ watching' = [watching EXCEPT ![w] = FALSE]
  /\ UNCHANGED <<env, seen, handling, pool, create, table, crashed>>

\* Faulty: the update is not queued.
HandleFinalityDrops(h) ==
  /\ h \in handling
  /\ handling' = handling \ {h}
  /\ UNCHANGED <<env, watching, seen, pool, create, table, crashed>>

\* onFinalityUpdate gets past its awaits; handlers of two updates may overlap.
HandleFinality(h) ==
  /\ h \in handling
  /\ handling' = handling \ {h}
  /\ pool' = Append(pool, [header |-> h, isFinality |-> TRUE])
  /\ UNCHANGED <<env, watching, seen, create, table, crashed>>
-----------------------------------------------------------------------------
(* createBeacon, one action per database call. *)

Finish == pool' = Tail(pool) /\ stage' = "idle" /\ parentId' = 0

\* Faulty: no look for the header itself.
FindExistingSkipped ==
  /\ pool # <<>> /\ stage = "idle"
  /\ stage' = "parent"
  /\ UNCHANGED <<env, watch, pool, parentId, table, crashed>>

\* findFirst by selfHash; an optimistic update of a known header ends here.
FindExisting ==
  /\ pool # <<>> /\ stage = "idle"
  /\ \/ /\ Rows(Current.header) = {}
        /\ stage' = "parent"
        /\ UNCHANGED <<pool, parentId>>
     \/ /\ Rows(Current.header) # {} /\ Current.isFinality
        /\ stage' = "flag"
        /\ UNCHANGED <<pool, parentId>>
     \/ /\ Rows(Current.header) # {} /\ ~Current.isFinality
        /\ Finish
  /\ UNCHANGED <<env, watch, table, crashed>>

\* Faulty: the flag is moved instead of added.
FlagFinalityMoves ==
  /\ stage = "flag"
  /\ table' = {[r EXCEPT !.isFinality = (r.header = Current.header)] : r \in table}
  /\ Finish
  /\ UNCHANGED <<env, watch, crashed>>

FlagFinality ==
  /\ stage = "flag"
  /\ table' = {IF r.header = Current.header THEN [r EXCEPT !.isFinality = TRUE] ELSE r :
                 r \in table}
  /\ Finish
  /\ UNCHANGED <<env, watch, crashed>>

\* Faulty: selfHash compared with selfHash.
FindParentBySelf ==
  /\ stage = "parent"
  /\ IF Rows(Current.header) = {} THEN parentId' = 0
     ELSE \E r \in Rows(Current.header) : parentId' = r.id
  /\ stage' = "create"
  /\ UNCHANGED <<env, watch, pool, table, crashed>>

\* Faulty: a hash that is undefined is no condition, any row is the parent.
FindParentAny ==
  /\ stage = "parent"
  /\ IF table = {} THEN parentId' = 0 ELSE \E r \in table : parentId' = r.id
  /\ stage' = "create"
  /\ UNCHANGED <<env, watch, pool, table, crashed>>

FindParent ==
  /\ stage = "parent"
  /\ IF Rows(ParentOf[Current.header]) = {} THEN parentId' = 0
     ELSE \E r \in Rows(ParentOf[Current.header]) : parentId' = r.id
  /\ stage' = "create"
  /\ UNCHANGED <<env, watch, pool, table, crashed>>

\* Faulty: no unique constraint.
ParentNeverTaken == FALSE

\* ParentBeaconId is unique: a parent has one child.
ParentTaken == parentId # 0 /\ \E r \in table : r.parent = parentId

\* Faulty: the execution payload is not stored.
CreateRowOnly ==
  /\ stage = "create" /\ ~ParentTaken
  /\ table' = table \cup {[id |-> Cardinality(table) + 1, header |-> Current.header,
                           isFinality |-> Current.isFinality, parent |-> parentId,
                           execution |-> FALSE]}
  /\ Finish
  /\ UNCHANGED <<env, watch, crashed>>

CreateRow ==
  /\ stage = "create" /\ ~ParentTaken
  /\ table' = table \cup {[id |-> Cardinality(table) + 1, header |-> Current.header,
                           isFinality |-> Current.isFinality, parent |-> parentId,
                           execution |-> FALSE]}
  /\ stage' = "execution"
  /\ UNCHANGED <<env, watch, pool, parentId, crashed>>

CreateExecution ==
  /\ stage = "execution"
  /\ table' = {IF r.header = Current.header THEN [r EXCEPT !.execution = TRUE] ELSE r :
                 r \in table}
  /\ Finish
  /\ UNCHANGED <<env, watch, crashed>>

\* Memory is lost, the rows stay; the watchers start again.
Restart ==
  /\ watching' = [w \in Watchers |-> TRUE]
  /\ seen' = [w \in Watchers |-> 0]
  /\ handling' = {} /\ pool' = <<>>
  /\ stage' = "idle" /\ parentId' = 0
  /\ crashed' = TRUE
  /\ UNCHANGED <<env, table>>

\* The insert of a second child is rejected; savePool$ has no error handler.
CreateFails == stage = "create" /\ ParentTaken /\ Restart

Crash == MayCrash /\ Restart
-----------------------------------------------------------------------------
Init ==
  /\ latest = [w \in Watchers |-> None]
  /\ watching = [w \in Watchers |-> TRUE]
  /\ seen = [w \in Watchers |-> 0]
  /\ handling = {} /\ pool = <<>>
  /\ stage = "idle" /\ parentId = 0
  /\ table = {}
  /\ crashed = FALSE

Stores == FindExisting \/ FlagFinality \/ FindParent \/ CreateRow \/ CreateExecution
createBeacon == Stores \/ CreateFails

\* What happens while the process lives, and what ends it.
Runs ==
  \/ NewFinality
  \/ \E h \in Headers : NewHead(h) \/ HandleFinality(h)
  \/ \E w \in Watchers : Poll(w) \/ PollFails(w)
  \/ Stores
Dies == CreateFails \/ Crash

Next == Runs \/ Dies

Spec == Init /\ [][Next]_vars

\* The event loop runs, the database and the API answer.
Fairness ==
  /\ WF_vars(createBeacon)
  /\ \A w \in Watchers : WF_vars(Poll(w))
  /\ \A h \in Headers : WF_vars(HandleFinality(h))
FairSpec == Spec /\ Fairness
-----------------------------------------------------------------------------
Update == [header : Headers, isFinality : BOOLEAN]
Row == [id : Nat \ {0}, header : Headers, isFinality : BOOLEAN, parent : Nat,
        execution : BOOLEAN]

(* Rows, queue and watchers have their types; createBeacon runs on an update. *)
TypeOK ==
  /\ latest \in [Watchers -> Headers \cup {None}]
  /\ watching \in [Watchers -> BOOLEAN]
  /\ seen \in [Watchers -> Nat]
  /\ handling \in SUBSET Headers
  /\ pool \in Seq(Update)
  /\ stage \in {"idle", "flag", "parent", "create", "execution"}
  /\ stage # "idle" => pool # <<>>
  /\ parentId \in Nat
  /\ table \in SUBSET Row
  /\ crashed \in BOOLEAN

(* A header has one row, though it arrives from both watchers and again     *)
(* after every restart, and nothing in the schema forbids a second one.     *)
OneRowPerHeader == \A r, q \in table : r.header = q.header \/ r.id = q.id => r = q

(* A stored link is a true one, and a link is missing only where the child  *)
(* was stored before its parent.                                            *)
LinksFollowChain ==
  \A r, q \in table :
    /\ r.parent = q.id => ParentOf[r.header] = q.header
    /\ ParentOf[r.header] = q.header /\ q.id < r.id => r.parent = q.id

(* A parent row has at most one child row, so `Child' is well defined.      *)
OneChild == \A r, q \in table : r.parent = q.parent /\ r.parent # 0 => r = q

(* A row has its execution payload, except while createBeacon stands        *)
(* between its two inserts, or if the process died there.                   *)
ExecutionStored ==
  \A r \in table : ~r.execution =>
    \/ crashed
    \/ stage = "execution" /\ r.header = Current.header

(* Once a header counts as finalised it always does: no late optimistic     *)
(* update of the same header takes the flag back.                           *)
FinalityKept ==
  [][\A r \in table : r.isFinality =>
       \E q \in table' : q.header = r.header /\ q.isFinality]_vars

Store == INSTANCE HeaderStore WITH
           stored <- {r.header : r \in table},
           final <- {r.header : r \in {q \in table : q.isFinality}},
           links <- {<<p[1].header, p[2].header>> :
                       p \in {p \in table \X table : p[1].parent = p[2].id}}

(* The queries of createBeacon act on the stored headers as one step would, *)
(* whatever arrives and dies in between.                                    *)
StoredAtOnce == Store!StoreSpec

(* Whatever the watchers hand over is stored, with its finality, unless the *)
(* process dies first.                                                      *)
UpdateStored ==
  \A h \in Headers :
    /\ h \in handling ~> crashed \/ \E r \in Rows(h) : r.isFinality
    /\ (\E i \in DOMAIN pool : pool[i].header = h)
         ~> crashed \/ \E r \in Rows(h) : r.execution
=============================================================================
