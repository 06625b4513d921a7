---------------------------- MODULE AtomicStore -----------------------------
(***************************************************************************)
(* What the state store promises to the code above it: processes write in  *)
(* units, one unit at a time in the whole system; the rows of a unit get   *)
(* into the store all at once, at its end, or not at all, whatever fails;  *)
(* and no row gets lost again.                                             *)
(***************************************************************************)
CONSTANTS Procs, Rows, Nobody

VARIABLES
  store,   \* the rows that everybody can read
  owner,   \* whose unit is open
  unit     \* the rows it has written

vars == <<store, owner, unit>>

Init == store = {} /\ owner = Nobody /\ unit = {}

Open(p) ==
  /\ owner = Nobody
  /\ owner' = p
  /\ UNCHANGED <<store, unit>>

Put(p, r) ==
  /\ owner = p
  /\ r \notin store \cup unit
  /\ unit' = unit \cup {r}
  /\ UNCHANGED <<store, owner>>

Publish(p) ==
  /\ owner = p
  /\ store' = store \cup unit
  /\ owner' = Nobody /\ unit' = {}

Drop(p) ==
  /\ owner = p
  /\ owner' = Nobody /\ unit' = {}
  /\ UNCHANGED store

Next ==
  \E p \in Procs :
    Open(p) \/ (\E r \in Rows : Put(p, r)) \/ Publish(p) \/ Drop(p)

Spec == Init /\ [][Next]_vars
=============================================================================
