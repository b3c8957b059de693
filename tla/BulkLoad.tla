------------------------------- MODULE BulkLoad -------------------------------
(***************************************************************************)
(* What an Appender promises (the comments of src/appender.go:28-43 and    *)
(* 201-219): the rows it has accepted reach the table in order, unchanged, *)
(* each at most once, at a time of its choosing; a Flush or Close that     *)
(* reports success leaves none behind; after a reported failure nothing    *)
(* more reaches the table.                                                 *)
(***************************************************************************)
EXTENDS Naturals, Sequences

CONSTANT Row \* the rows a table can hold

VARIABLES
  accepted, \* the rows AppendRow has acknowledged
  table,    \* the rows that have reached the table
  state,    \* "open", "failed" or "closed"
  reply     \* the last call, and whether it reported success

vars == <<accepted, table, state, reply>>

Init == accepted = <<>> /\ table = <<>> /\ state = "open" /\ reply = <<"new", "ok">>

Answer(op, res) == reply' = <<op, res>>

\* More of the accepted rows reach the table, while no failure was reported.
Progress ==
  /\ state = "open"
  /\ \E n \in Len(table)..Len(accepted) : table' = SubSeq(accepted, 1, n)

Append1(r) ==
  /\ state # "closed"
  /\ Answer("append", "ok")
  /\ accepted' = Append(accepted, r)
  /\ Progress \/ UNCHANGED table
  /\ UNCHANGED state

\* A call reports an error: the load may have failed with it.
Error(op) ==
  /\ Answer(op, "error")
  /\ Progress \/ UNCHANGED table
  /\ UNCHANGED accepted
  /\ state' = state \/ (state = "open" /\ state' = "failed")

FlushOk ==
  /\ state = "open"
  /\ Answer("flush", "ok")
  /\ table' = accepted
  /\ UNCHANGED <<accepted, state>>

Close(res) ==
  /\ state # "closed"
  /\ Answer("close", res)
  /\ state' = "closed"
  /\ IF res = "ok" THEN state = "open" /\ table' = accepted
                   ELSE Progress \/ UNCHANGED table
  /\ UNCHANGED accepted

Next == \/ \E r \in Row : Append1(r)
        \/ \E op \in {"append", "flush", "close"} : Error(op)
        \/ FlushOk
        \/ \E res \in {"ok", "error"} : Close(res)

Spec == Init /\ [][Next]_vars
=============================================================================
