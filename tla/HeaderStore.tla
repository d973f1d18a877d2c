------------------------------ MODULE HeaderStore ------------------------------
(***************************************************************************)
(* What createBeacon (prisma/services/eth-beacon) promises of the stored   *)
(* headers, as if its queries were one step: a header comes in once,       *)
(* together with its link if its parent is there and has no child yet, and *)
(* is never taken out; it may turn final at any time, and stays final.     *)
(***************************************************************************)
CONSTANTS Headers, ParentOf

VARIABLES stored,  \* headers with a row
          final,   \* those flagged as finalised
          links    \* <<child, parent>>

storeVars == <<stored, final, links>>

HasChild(p) == \E g \in stored : <<g, p>> \in links
LinkOf(h) == IF ParentOf[h] \in stored THEN {<<h, ParentOf[h]>>} ELSE {}
-----------------------------------------------------------------------------
StoreInit == stored = {} /\ final = {} /\ links = {}

Add(h) ==
  /\ h \notin stored /\ ~HasChild(ParentOf[h])
  /\ stored' = stored \cup {h}
  /\ links' = links \cup LinkOf(h)
  /\ final' \in {final, final \cup {h}}

Finalise(h) ==
  /\ h \in stored
  /\ final' = final \cup {h}
  /\ UNCHANGED <<stored, links>>

StoreNext == \E h \in Headers : Add(h) \/ Finalise(h)

StoreSpec == StoreInit /\ [][StoreNext]_storeVars
=============================================================================
