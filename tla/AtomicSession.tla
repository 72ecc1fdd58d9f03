---------------------------- MODULE AtomicSession ----------------------------
(***************************************************************************)
(* What the session store promises the code that updates a session: an     *)
(* update is applied at most once, at one instant, to the session that is  *)
(* then in the store, and changes the update's own fields and no other.    *)
(***************************************************************************)
CONSTANTS Mut,      \* updates: calls of TouchActivity, SetWorkerInfo, ...
          Field,    \* the fields of a session that updates write
          FieldsOf, \* the fields an update writes
          NoMut     \* the value of a field nobody has written

VARIABLES present, \* the session is in the store
          blob,    \* for each field, the update that wrote it last
          applied  \* the updates that took effect

vars == <<present, blob, applied>>

Fresh == [f \in Field |-> NoMut]

\* b with the fields of m written by m.
Written(b, m) == [f \in Field |-> IF f \in FieldsOf[m] THEN m ELSE b[f]]

Init == present = FALSE /\ blob = Fresh /\ applied = {}

Update(m) ==
    /\ present
    /\ m \notin applied
    /\ blob' = Written(blob, m)
    /\ applied' = applied \cup {m}
    /\ UNCHANGED present

Create == present' = TRUE /\ blob' = Fresh /\ UNCHANGED applied
Remove == present' = FALSE /\ blob' = Fresh /\ UNCHANGED applied

Next == Create \/ Remove \/ \E m \in Mut : Update(m)

Spec == Init /\ [][Next]_vars
=============================================================================
