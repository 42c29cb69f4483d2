------------------------------ MODULE Catalog ------------------------------
(***************************************************************************)
(* What the collection registry promises about one collection name: each   *)
(* operation looks at the entry as it is and changes it in one step, or    *)
(* fails and changes nothing.                                              *)
(***************************************************************************)
CONSTANTS Versions, NoEntry

VARIABLES
  entry,    \* the stored entry, NoEntry if the collection does not exist
  tables    \* the physical collections that exist

cvars == <<entry, tables>>

Listed == DOMAIN entry.physical
Exists == entry # NoEntry

Init == entry = NoEntry /\ tables = {}

Create(v) ==
  /\ ~Exists
  /\ entry' = [active |-> v, physical |-> [w \in {v} |-> v]]
  /\ tables' = tables \union {v}

(* A version with a table t of its own, or of a version already listed.    *)
Add(v, t) ==
  /\ Exists
  /\ v \notin Listed
  /\ entry' = [entry EXCEPT !.physical = [w \in Listed \union {v} |->
                                            IF w = v THEN t ELSE @[w]]]
  /\ \/ t = v /\ tables' = tables \union {v}
     \/ (\E w \in Listed : t = entry.physical[w]) /\ UNCHANGED tables

Activate(v) ==
  /\ Exists
  /\ v \in Listed
  /\ v # entry.active
  /\ entry' = [entry EXCEPT !.active = v]
  /\ UNCHANGED tables

Prune(v) ==
  /\ Exists
  /\ v \in Listed
  /\ v # entry.active
  /\ entry' = [entry EXCEPT !.physical = [w \in Listed \ {v} |-> @[w]]]
  /\ tables' = tables \ {entry.physical[v]}

Drop ==
  /\ Exists
  /\ entry' = NoEntry
  /\ \/ tables' = tables \ {entry.physical[w] : w \in Listed}
     \/ UNCHANGED tables

Next ==
  \/ Drop
  \/ \E v \in Versions :
       \/ Create(v) \/ Activate(v) \/ Prune(v)
       \/ \E t \in Versions : Add(v, t)

Spec == Init /\ [][Next]_cvars

=============================================================================
