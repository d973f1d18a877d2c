------------------------------ MODULE HeaderWalk ------------------------------
(***************************************************************************)
(* The request getethvalidation of BeaconController, running next to the   *)
(* indexing of module BeaconIndex: find the row of the header that holds   *)
(* the receipt, then walk from child to child, one query at a time, until  *)
(* a finalised header, starting over every five seconds as long as there   *)
(* is none.  Rows are read once; what the walk holds are copies of them.   *)
(* Module ProofRequest adds the receipt that goes into the message.        *)
(***************************************************************************)
EXTENDS BeaconIndex

CONSTANTS Requests,
          Prepared   \* headers whose blocks have receipts that can be prepared

ASSUME PreparedType == Prepared \subseteq Headers

VARIABLES at,      \* "new", "walk", "answered", "refused" or "lost" (restart)
          target,  \* the header whose block has the receipt
          update,  \* getUpdateByReceipt's row, as it was when it was read
          path     \* getProofUpdates' res: latest header first

reqs == <<at, target, update, path>>
reqVars == <<vars, reqs>>

Headed(h) == [header |-> h, isFinality |-> FALSE, child |-> None]

\* Faulty: the other end of the relation.
ChildOfIsParent(row) ==
  IF \E q \in table : row.parent = q.id
  THEN (CHOOSE q \in table : row.parent = q.id).header ELSE None

\* findNext(hash): a row whose parentRoot is the hash, with its Child.
ChildOf(row) ==
  IF \E q \in table : q.parent = row.id
  THEN (CHOOSE q \in table : q.parent = row.id).header ELSE None
Read(row) == [header |-> row.header, isFinality |-> row.isFinality, child |-> ChildOf(row)]
NextRows(hash) == {Read(r) : r \in {r \in table : ParentOf[r.header] = hash}}
-----------------------------------------------------------------------------
\* getUpdateByReceipt looks for a child of the receipt's parentBeaconBlockRoot.
GetUpdate(r, h) ==
  /\ at[r] = "new"
  /\ target' = [target EXCEPT ![r] = h]
  /\ \E u \in NextRows(ParentOf[h]) :
       /\ update' = [update EXCEPT ![r] = u]
       /\ path' = [path EXCEPT ![r] = <<u>>]
  /\ at' = [at EXCEPT ![r] = "walk"]
  /\ UNCHANGED vars

\* `Not in index': the request fails.
NotInIndex(r, h) ==
  /\ at[r] = "new" /\ NextRows(ParentOf[h]) = {}
  /\ at' = [at EXCEPT ![r] = "refused"]
  /\ UNCHANGED <<vars, target, update, path>>

\* Faulty: `upd' is not moved on.
WalkOnFromUpdate(r) ==
  /\ at[r] = "walk" /\ ~Head(path[r]).isFinality
  /\ \E u \in NextRows(update[r].header) :
       path' = [path EXCEPT ![r] = <<u>> \o @]
  /\ UNCHANGED <<vars, at, target, update>>

\* One turn of getProofUpdates' while: the child of the latest header so far.
WalkOn(r) ==
  /\ at[r] = "walk" /\ ~Head(path[r]).isFinality
  /\ \E u \in NextRows(Head(path[r]).header) :
       path' = [path EXCEPT ![r] = <<u>> \o @]
  /\ UNCHANGED <<vars, at, target, update>>

\* Faulty: the request is given up.
StartOverGivesUp(r) ==
  /\ at[r] = "walk" /\ ~Head(path[r]).isFinality
  /\ NextRows(Head(path[r]).header) = {}
  /\ at' = [at EXCEPT ![r] = "refused"]
  /\ UNCHANGED <<vars, target, update, path>>

\* `Not finalized yet': the controller sleeps and walks again from `update'.
StartOver(r) ==
  /\ at[r] = "walk" /\ ~Head(path[r]).isFinality
  /\ NextRows(Head(path[r]).header) = {}
  /\ path' = [path EXCEPT ![r] = <<update[r]>>]
  /\ UNCHANGED <<vars, at, target, update>>

\* The request ends; prepareReceipt throws at a proof of one node.
Answer(r) ==
  /\ at[r] = "walk" /\ Head(path[r]).isFinality
  /\ at' = [at EXCEPT ![r] = IF target[r] \in Prepared THEN "answered" ELSE "refused"]
  /\ UNCHANGED <<vars, target, update, path>>

Walk(r) == WalkOn(r) \/ StartOver(r) \/ Answer(r)
-----------------------------------------------------------------------------
ReqInit ==
  /\ Init
  /\ at = [r \in Requests |-> "new"]
  /\ target = [r \in Requests |-> None]
  /\ update = [r \in Requests |-> Headed(None)]
  /\ path = [r \in Requests |-> <<>>]

\* A restart of the process takes the requests in flight with it.
ReqDies ==
  /\ Dies
  /\ at' = [r \in Requests |-> IF at[r] = "walk" THEN "lost" ELSE at[r]]
  /\ UNCHANGED <<target, update, path>>

ReqNext ==
  \/ Runs /\ UNCHANGED reqs
  \/ ReqDies
  \/ \E r \in Requests, h \in Headers : GetUpdate(r, h) \/ NotInIndex(r, h)
  \/ \E r \in Requests : Walk(r)

ReqSpec == ReqInit /\ [][ReqNext]_reqVars
ReqFairSpec == ReqSpec /\ \A r \in Requests : WF_reqVars(Walk(r))
-----------------------------------------------------------------------------
(* The answer is a chain of headers from a finalised one down to a child of *)
(* the receipt's parent root, although each was read at another time and    *)
(* rows were added and flagged in between.                                  *)
AnswerIsChain ==
  \A r \in Requests : at[r] = "answered" =>
    /\ path[r][1].isFinality
    /\ \A i \in 1..(Len(path[r]) - 1) : ParentOf[path[r][i].header] = path[r][i + 1].header
    /\ ParentOf[path[r][Len(path[r])].header] = ParentOf[target[r]]

Forked(h) == \E g \in Headers \ {h} : ParentOf[g] = ParentOf[h] /\ Rows(g) # {}

(* The child hash that is sent with each optimistic header of the answer is *)
(* the header before it in the answer, or is missing; it can be another one *)
(* only where both branches of a fork were stored.                          *)
ChildIsNext ==
  \A r \in Requests : at[r] = "answered" =>
    \A i \in 2..Len(path[r]) :
      \/ path[r][i].child \in {None, path[r][i - 1].header}
      \/ Forked(path[r][i - 1].header)
=============================================================================
