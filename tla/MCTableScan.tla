----------------------------- MODULE MCTableScan -----------------------------
(***************************************************************************)
(* Scans of up to five rows by two threads, and registrations with trouble.*)
(***************************************************************************)
EXTENDS TableScan, TLC

CONSTANTS t1, t2, table, scalar, set, replacement, nobody

MCThread == {t1, t2}
MCFn == {table, scalar, set, replacement}
MCKindOf == table :> "table" @@ scalar :> "scalar" @@ set :> "scalar set"
            @@ replacement :> "replacement scan"

OnlyTable == table :> "none"
Query(ids, rows, fails, parallel, lazy) ==
  [fn |-> table, registers |-> OnlyTable, columns |-> 2, bindable |-> TRUE, ids |-> ids,
   rows |-> rows, fails |-> fails, parallel |-> parallel, lazy |-> lazy]

\* The table's columns in another order, one of them, or only the row id; a source
\* that is empty, fills one chunk, or more than two; it may fail at its third row.
Queries ==
  {Query(ids, rows, 0, parallel, FALSE) :
     ids \in {<<1, 2>>, <<2, RowId, 1>>, <<2>>, <<RowId>>}, rows \in {0, 2}, parallel \in BOOLEAN}
  \cup {Query(<<2, RowId>>, 5, fails, parallel, TRUE) : fails \in {0, 3}, parallel \in BOOLEAN}

\* Every problem of a table function with every one of the others, and a query over
\* the table function where it has none.
Troubles == {p \in [MCFn -> Problems] : p[replacement] = "none" /\ (p[table] = "none" => p[scalar] = p[set])}
Registrations == {[Query(<<1>>, 1, 0, FALSE, FALSE) EXCEPT !.registers = p] : p \in Troubles}

\* A function whose arguments or columns are refused.
Refused == {[Query(<<1>>, 1, 0, FALSE, FALSE) EXCEPT !.bindable = FALSE]}

MCScans == Queries \cup Registrations \cup Refused
=============================================================================
