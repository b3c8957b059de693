-------------------------------- MODULE RowFeed --------------------------------
(***************************************************************************)
(* What a scan of a table function promises a query: every row its source  *)
(* gives reaches the query once, and a scan that ends by itself has        *)
(* delivered them all.  A scan may be stopped, by an error or because the  *)
(* query needs no more, and a statement may scan again.                    *)
(***************************************************************************)
EXTENDS Naturals

CONSTANT Row

VARIABLES
  rows,      \* the rows the source has
  left,      \* those it has yet to give
  delivered, \* those the query got
  state      \* "ready", "scanning", "done" or "stopped"

vars == <<rows, left, delivered, state>>

Init == rows \in SUBSET Row /\ left = rows /\ delivered = {} /\ state = "ready"

Begin ==
  /\ state # "scanning" /\ state' = "scanning"
  /\ left' = rows /\ delivered' = {} /\ UNCHANGED rows

Give ==
  /\ state = "scanning"
  /\ \E some \in SUBSET left : left' = left \ some
  /\ UNCHANGED <<rows, delivered, state>>

\* Only rows that were given, and not delivered before.
Deliver ==
  /\ state = "scanning"
  /\ \E some \in SUBSET (rows \ (left \cup delivered)) : delivered' = delivered \cup some
  /\ UNCHANGED <<rows, left, state>>

Done ==
  /\ state = "scanning" /\ left = {} /\ delivered = rows
  /\ state' = "done" /\ UNCHANGED <<rows, left, delivered>>

Stop ==
  /\ state = "scanning"
  /\ state' = "stopped" /\ UNCHANGED <<rows, left, delivered>>

Next == Begin \/ Give \/ Deliver \/ Done \/ Stop

Spec == Init /\ [][Next]_vars
=============================================================================
