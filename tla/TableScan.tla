------------------------------ MODULE TableScan ------------------------------
(***************************************************************************)
(* Table functions: the callbacks DuckDB makes to bind one, to begin a     *)
(* scan and to have chunks filled, on several threads (src/table_udf.go,   *)
(* src/table_source.go, src/row.go), over functions that UdfRegistry       *)
(* registers.                                                              *)
(*                                                                         *)
(* The bind data, with the source and the projection, is shared by the     *)
(* threads and lives as long as the plan; each thread has a local state of *)
(* its own.  The user's source and DuckDB are external.  The source claims *)
(* rows for a thread's local state under a lock and fills them in without  *)
(* it; it begins anew with every scan.                                     *)
(***************************************************************************)
EXTENDS UdfRegistry, Sequences

CONSTANTS
  Thread,    \* DuckDB's threads
  Capacity,  \* GetDataChunkCapacity()
  Claim,     \* how many rows the source claims at a time
  Scans,     \* table functions and the queries over them
  MaxScans   \* bound: how often the statement is executed

ASSUME ScanAssumption ==
  /\ Capacity \in Nat \ {0} /\ Claim \in Nat \ {0} /\ MaxScans \in Nat

\* A query asks for a column of the table once, in any order, and for the row id (0)
\* as it likes.
ASSUME QueryAssumption ==
  \A s \in Scans :
    /\ DOMAIN s.registers \subseteq Fn /\ s.registers \in [DOMAIN s.registers -> Problems]
    /\ s.rows \in Nat /\ s.columns \in Nat /\ s.parallel \in BOOLEAN /\ s.lazy \in BOOLEAN
    /\ s.ids \in Seq(0..s.columns)
    /\ \A i, j \in DOMAIN s.ids : s.ids[i] = s.ids[j] /\ s.ids[i] # 0 => i = j

VARIABLES
  setup,    \* which one
  plan,     \* "none", "bound", "refused" or "dropped"
  scan,     \* "none", "scanning", "stopping", "done" or "stopped"
  proj,     \* tableFunctionData.projection: the chunk's column, or NotProjected
  threads,  \* how many threads may scan
  next,     \* the rows the source has claimed
  claim,    \* a thread's local state: the rows claimed for it and not yet filled in
  pc,       \* "off", "ready", "filling", "failing" or "ended"
  chunk,    \* the rows written to a thread's output chunk
  out,      \* history: what each thread handed to the query, in order
  scans     \* how many scans were begun

scanVars == <<setup, plan, scan, proj, threads, next, claim, pc, chunk, out, scans>>
vars == <<registry, scanVars>>

\* Columns count from 1, in the table and in the chunk.  The columns a query asks
\* for may include DuckDB's row id, which is not in the table.
RowId == 0
NotProjected == 0
Column == 1..setup.columns
Ids == setup.ids
ChunkColumn == DOMAIN Ids

F == setup.fn
BindHandle == <<"bind data", F, Nobody>>
LocalHandle(t) == <<"local state", F, t>>

Row == 1..setup.rows
Nothing == [t \in Thread |-> <<>>]

Init ==
  /\ setup \in Scans
  /\ RegistryInit(setup.registers)
  /\ plan = "none" /\ scan = "none" /\ proj = <<>> /\ threads = 0 /\ next = 0 /\ scans = 0
  /\ claim = [t \in Thread |-> <<>>] /\ pc = [t \in Thread |-> "off"]
  /\ chunk = [t \in Thread |-> <<>>] /\ out = Nothing

-----------------------------------------------------------------------------
\* udfBindTyped: DuckDB resolved the function in its catalog.  The arguments are
\* read back, the function is bound, its columns are checked, and the bind data
\* gets a handle last: with an error before, there is none.
Bind ==
  /\ plan = "none" /\ F \in catalog
  /\ \/ plan' = "refused" /\ UNCHANGED <<handles, proj>>
     \/ /\ plan' = "bound" /\ setup.bindable
        /\ proj' = [c \in Column |-> NotProjected]
        /\ handles' = handles \cup {BindHandle}
  /\ UNCHANGED <<problem, called, catalog, native>>
  /\ UNCHANGED <<setup, scan, threads, next, claim, pc, chunk, out, scans>>

\* Mutant: a sequential source leaves the number of threads to DuckDB.
AnyThreads == Cardinality(Thread)

\* MaxThreads: that of the parallel source (0 for DuckDB's own), 1 for the wrapped
\* sequential ones.
MaxThreads == IF setup.parallel THEN Cardinality(Thread) ELSE 1

\* Mutant: the places of the columns are those of the table.
OwnPlaces == [c \in Column |-> IF \E i \in ChunkColumn : Ids[i] = c THEN c ELSE proj[c]]

\* setColumnCount: where each column that is asked for is in the chunk.  Nothing is
\* unset, and the row id is skipped.
SetColumnCount == [c \in Column |-> IF \E i \in ChunkColumn : Ids[i] = c
                                      THEN CHOOSE i \in ChunkColumn : Ids[i] = c ELSE proj[c]]

\* table_udf_init, when the statement is executed.
TableInit ==
  /\ plan = "bound" /\ scan \notin {"scanning", "stopping"} /\ scans < MaxScans
  /\ scan' = "scanning" /\ scans' = scans + 1
  /\ proj' = SetColumnCount /\ threads' = MaxThreads
  /\ next' = 0 /\ out' = Nothing
  /\ UNCHANGED <<registry, setup, plan, claim, pc, chunk>>

\* table_udf_local_init, for each thread that joins.
Started == {t \in Thread : pc[t] # "off"}
LocalInit(t) ==
  /\ scan = "scanning" /\ pc[t] = "off" /\ Cardinality(Started) < threads
  /\ pc' = [pc EXCEPT ![t] = "ready"]
  /\ claim' = [claim EXCEPT ![t] = <<>>]
  /\ handles' = handles \cup {LocalHandle(t)}
  /\ UNCHANGED <<problem, called, catalog, native>>
  /\ UNCHANGED <<setup, plan, scan, proj, threads, next, chunk, out, scans>>

\* table_udf_callback with an empty chunk.
Callback(t) ==
  /\ scan = "scanning" /\ pc[t] = "ready"
  /\ pc' = [pc EXCEPT ![t] = "filling"]
  /\ chunk' = [chunk EXCEPT ![t] = <<>>]
  /\ UNCHANGED <<registry, setup, plan, scan, proj, threads, next, claim, out, scans>>

-----------------------------------------------------------------------------
\* The source claims its next rows for a thread that has none.
ClaimRows(t) ==
  /\ pc[t] = "filling" /\ claim[t] = <<>> /\ next < setup.rows /\ Len(chunk[t]) < Capacity
  /\ LET n == IF next + Claim <= setup.rows THEN Claim ELSE setup.rows - next
     IN /\ next' = next + n
        /\ claim' = [claim EXCEPT ![t] = [i \in 1..n |-> next + i]]
  /\ UNCHANGED <<registry, setup, plan, scan, proj, threads, pc, chunk, out, scans>>

\* Row.IsProjected, which a source may ask before it makes a value.
IsProjected(c) == proj[c] # NotProjected

\* What the chunk's columns hold of row r: each one the value of a column of the
\* table.  SetRowValue writes a column to its place, and nothing when it is not
\* projected; a row id is not written.
Blank == RowId
RowOf(r) ==
  [i \in ChunkColumn |-> IF \E c \in Column : proj[c] = i /\ (setup.lazy => IsProjected(c))
                           THEN CHOOSE c \in Column : proj[c] = i ELSE Blank]

\* A FillRow that writes a claimed row and returns true, or a part of FillChunk; or
\* the row is the one its source fails at.
FillRow(t) ==
  /\ pc[t] = "filling" /\ claim[t] # <<>> /\ Len(chunk[t]) < Capacity
  /\ claim' = [claim EXCEPT ![t] = Tail(@)]
  /\ IF Head(claim[t]) = setup.fails
       THEN pc' = [pc EXCEPT ![t] = "failing"] /\ UNCHANGED chunk
       ELSE chunk' = [chunk EXCEPT ![t] = Append(@, [row |-> Head(claim[t]), cells |-> RowOf(Head(claim[t]))])]
            /\ UNCHANGED pc
  /\ UNCHANGED <<registry, setup, plan, scan, proj, threads, next, out, scans>>

\* The chunk is full, or the source has no more rows and FillRow returns false.
Exhausted(t) == claim[t] = <<>> /\ next = setup.rows
Full(t) == Len(chunk[t]) = Capacity

\* Mutant: row.r counts from 1, and the last row is not.
ShortChunk(t) == SubSeq(chunk[t], 1, Len(chunk[t]) - (IF Full(t) THEN 1 ELSE 0))

\* DataChunkSetSize: what DuckDB sees of the chunk.
Sized(t) == chunk[t]

\* Mutant: an empty chunk is not told from one with rows.
NeverEnds(t) == FALSE

\* DuckDB asks no more after an empty chunk.
Ends(t) == Sized(t) = <<>>

\* The callback returns; an empty chunk ends the thread's part of the scan.
Return(t) ==
  /\ pc[t] = "filling" /\ (Full(t) \/ Exhausted(t))
  /\ out' = [out EXCEPT ![t] = @ \o Sized(t)]
  /\ pc' = [pc EXCEPT ![t] = IF Ends(t) THEN "ended" ELSE "ready"]
  /\ chunk' = [chunk EXCEPT ![t] = <<>>]
  /\ UNCHANGED <<registry, setup, plan, scan, proj, threads, next, claim, scans>>

\* FunctionSetError: DuckDB throws the chunk away and stops the query.
ReturnError(t) ==
  /\ pc[t] = "failing"
  /\ pc' = [pc EXCEPT ![t] = "ended"] /\ chunk' = [chunk EXCEPT ![t] = <<>>]
  /\ scan' = "stopping"
  /\ UNCHANGED <<registry, setup, plan, proj, threads, next, claim, out, scans>>

-----------------------------------------------------------------------------
\* The query needs no more rows, or is cancelled.
Stop ==
  /\ scan = "scanning" /\ scan' = "stopping"
  /\ UNCHANGED <<registry, setup, plan, proj, threads, next, claim, pc, chunk, out, scans>>

\* DuckDB ends the scan when its threads have, and drops their local states.
Busy(t) == pc[t] \in {"filling", "failing"}
EndScan ==
  /\ \/ scan = "scanning" /\ Started # {} /\ \A t \in Started : pc[t] = "ended"
     \/ scan = "stopping" /\ \A t \in Thread : ~Busy(t)
  /\ scan' = IF scan = "scanning" THEN "done" ELSE "stopped"
  /\ DeleteCallback({LocalHandle(t) : t \in Started})
  /\ pc' = [t \in Thread |-> "off"] /\ claim' = [t \in Thread |-> <<>>]
  /\ chunk' = [t \in Thread |-> <<>>]
  /\ UNCHANGED <<problem, called, catalog, native>>
  /\ UNCHANGED <<setup, plan, proj, threads, next, out, scans>>

\* The statement is closed.
DropPlan ==
  /\ plan = "bound" /\ scan \notin {"scanning", "stopping"}
  /\ plan' = "dropped" /\ DeleteCallback({BindHandle})
  /\ UNCHANGED <<problem, called, catalog, native>>
  /\ UNCHANGED <<setup, scan, proj, threads, next, claim, pc, chunk, out, scans>>

Close == plan # "bound" /\ CloseDatabase /\ UNCHANGED scanVars

Fill(t) == Callback(t) \/ ClaimRows(t) \/ FillRow(t) \/ Return(t) \/ ReturnError(t)

Next ==
  \/ \E f \in Fn : Register(f) /\ UNCHANGED scanVars
  \/ Bind \/ TableInit \/ Stop \/ EndScan \/ DropPlan \/ Close
  \/ \E t \in Thread : LocalInit(t) \/ Fill(t)

\* DuckDB's scheduler runs a thread that has work to do, and at least one thread of
\* a scan starts.
Fairness == /\ \A t \in Thread : WF_vars(Fill(t))
            /\ WF_vars(\E t \in Thread : LocalInit(t))
            /\ WF_vars(EndScan)

Spec == Init /\ [][Next]_vars /\ Fairness

-----------------------------------------------------------------------------
\* The rows the query got.
Delivered == UNION {{out[t][i].row : i \in DOMAIN out[t]} : t \in Thread}

\* The callbacks of all threads together, refined to a feed of rows: what is
\* claimed or in a chunk was given and not delivered.
Feed == INSTANCE RowFeed WITH
  rows <- Row,
  left <- (next + 1)..setup.rows,
  delivered <- Delivered,
  state <- CASE scan = "none" -> "ready" [] scan = "stopping" -> "scanning" [] OTHER -> scan,
  Row <- Nat

ImplementsRowFeed == Feed!Spec

\* table_udf_callback, setColumnCount and SetRowValue: a row reaches the query once,
\* and each of its columns that the query asks for holds that column's value,
\* whatever the order and whether the source asks IsProjected or not.
RowsArriveWhole ==
  \A t, u \in Thread : \A i \in DOMAIN out[t], j \in DOMAIN out[u] :
    /\ out[t][i].row = out[u][j].row => t = u /\ i = j
    /\ out[t][i].row \in Row /\ \A k \in ChunkColumn : out[t][i].cells[k] = Ids[k]

\* parallelRowTSWrapper and parallelChunkTSWrapper: a source that is not parallel is
\* never called by two threads, and no thread has rows left when another begins.
SequentialIsSequential ==
  ~setup.parallel => Cardinality({t \in Thread : Busy(t) \/ claim[t] # <<>>}) <= 1

\* The delete callbacks: a handle is alive as long as what it was made for, so that
\* every callback finds its function, bind data and local state, and none is left
\* behind; but for a registration that returned before it destroyed its object.
Abandoned == {f \in called : /\ problem[f] \in {"no function", "nil type", "connection closed"}
                             /\ FunctionHandle(f) \in handles}
Owned == {FunctionHandle(f) : f \in catalog}
         \cup (IF plan = "bound" THEN {BindHandle} ELSE {})
         \cup {LocalHandle(t) : t \in Started}
HandlesOwned ==
  /\ handles = Owned \cup {FunctionHandle(f) : f \in Abandoned}
  /\ \A f \in Abandoned : f \in native /\ KindOf[f] \in {"table", "scalar set"}

\* A scan over a source that ends ends, however its threads are scheduled.
ScanEnds == scan = "scanning" ~> scan \in {"done", "stopped"}
=============================================================================
