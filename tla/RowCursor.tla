------------------------------ MODULE RowCursor ------------------------------
(***************************************************************************)
(* What driver.Rows promises its reader: the rows of the result, each one  *)
(* once and in their order, then the end, as often as it is asked for.  A  *)
(* result with a column type that the driver cannot read gives no row.     *)
(***************************************************************************)
EXTENDS Naturals

VARIABLES
  total,    \* how many rows the result has
  readable, \* whether the driver can read all of its columns
  open,     \* whether the rows are open
  given,    \* how many rows the reader was given
  row,      \* which row of the result the last one was
  answer    \* what Next answered last

vars == <<total, readable, open, given, row, answer>>

Init ==
  /\ total \in Nat /\ readable \in BOOLEAN
  /\ open = TRUE /\ given = 0 /\ row = 0 /\ answer = "none"

GiveRow ==
  /\ open /\ readable /\ given < total
  /\ given' = given + 1 /\ row' = given + 1 /\ answer' = "row"
  /\ UNCHANGED <<total, readable, open>>

End ==
  /\ open /\ (readable => given = total)
  /\ answer' = "eof"
  /\ UNCHANGED <<total, readable, open, given, row>>

Fail ==
  /\ open /\ ~readable
  /\ answer' \in {"error", "panic"}
  /\ UNCHANGED <<total, readable, open, given, row>>

Close ==
  /\ open /\ open' = FALSE
  /\ UNCHANGED <<total, readable, given, row, answer>>

Next == GiveRow \/ End \/ Fail \/ Close

Spec == Init /\ [][Next]_vars
=============================================================================
