--------------------------- MODULE TableScanProofs ---------------------------
(***************************************************************************)
(* Table functions for any functions, queries, threads and chunk capacity: *)
(* every handle is owned, a sequential source stays sequential, a row      *)
(* reaches the query once and whole, and the callbacks of all threads      *)
(* together are a feed of rows.                                            *)
(***************************************************************************)
EXTENDS TableScan, FiniteSetTheorems, SequenceTheorems, TLAPS

\* The columns of a chunk when they hold what the query asked for.
Wanted == [k \in ChunkColumn |-> Ids[k]]
ChunkRow == [row : Row, cells : {Wanted}]
ThreadState == {"off", "ready", "filling", "failing", "ended"}

RegistryOK ==
  /\ setup \in Scans /\ problem = setup.registers
  /\ called \in SUBSET DOMAIN problem
  /\ catalog \in SUBSET called /\ \A f \in catalog : problem[f] = "none"
ScanOK ==
  /\ plan \in {"none", "bound", "refused", "dropped"}
  /\ scan \in {"none", "scanning", "stopping", "done", "stopped"}
  /\ next \in 0..setup.rows
  /\ pc \in [Thread -> ThreadState]
  /\ claim \in [Thread -> Seq(Row)]
  /\ chunk \in [Thread -> Seq(ChunkRow)]
  /\ out \in [Thread -> Seq(ChunkRow)]
TypeOK == RegistryOK /\ ScanOK

\* Each column of the table that is asked for knows its place in the chunk, once a
\* scan has begun, and no other column has a place.
ProjectionOK ==
  /\ plan = "none" => scan = "none"
  /\ plan = "bound" => \A c \in Column, k \in ChunkColumn : proj[c] = k => Ids[k] = c
  /\ scan # "none" => \A c \in Column, k \in ChunkColumn : proj[c] = k <=> Ids[k] = c

\* What a thread may hold at each point of its part of a scan.
ThreadsOK ==
  /\ scan \notin {"scanning", "stopping"} => \A t \in Thread : pc[t] = "off"
  /\ \A t \in Thread :
       /\ pc[t] = "off" => claim[t] = <<>>
       /\ pc[t] \in {"off", "ready", "ended"} => chunk[t] = <<>>
       /\ pc[t] = "ended" /\ scan = "scanning" => claim[t] = <<>> /\ next = setup.rows
  /\ ~setup.parallel => threads \in {0, 1} /\ \A t, u \in Started : t = u

\* No row is in two places.
NoneTwice ==
  \A t, u \in Thread :
    /\ \A i \in DOMAIN claim[t], j \in DOMAIN claim[u] : claim[t][i] = claim[u][j] => t = u /\ i = j
    /\ \A i \in DOMAIN chunk[t], j \in DOMAIN chunk[u] : chunk[t][i].row = chunk[u][j].row => t = u /\ i = j
    /\ \A i \in DOMAIN out[t], j \in DOMAIN out[u] : out[t][i].row = out[u][j].row => t = u /\ i = j
    /\ \A i \in DOMAIN claim[t], j \in DOMAIN chunk[u] : claim[t][i] # chunk[u][j].row
    /\ \A i \in DOMAIN claim[t], j \in DOMAIN out[u] : claim[t][i] # out[u][j].row
    /\ \A i \in DOMAIN chunk[t], j \in DOMAIN out[u] : chunk[t][i].row # out[u][j].row

\* Only rows that the source has claimed are anywhere.
OnlyClaimed ==
  \A t \in Thread :
    /\ \A i \in DOMAIN claim[t] : claim[t][i] <= next
    /\ \A i \in DOMAIN chunk[t] : chunk[t][i].row <= next
    /\ \A i \in DOMAIN out[t] : out[t][i].row <= next

\* As long as nothing fails or stops, a row that was claimed is somewhere.
Somewhere(r) ==
  \E t \in Thread :
    \/ \E i \in DOMAIN claim[t] : claim[t][i] = r
    \/ \E i \in DOMAIN chunk[t] : chunk[t][i].row = r
    \/ \E i \in DOMAIN out[t] : out[t][i].row = r
NoneLost ==
  scan = "scanning" /\ (\A t \in Thread : pc[t] # "failing") => \A r \in 1..next : Somewhere(r)

ScanInv == TypeOK /\ ProjectionOK /\ ThreadsOK /\ NoneTwice /\ OnlyClaimed /\ NoneLost

-----------------------------------------------------------------------------
\* Before anything is registered nothing is claimed and every thread is off.
LEMMA InitInv == Init => ScanInv
<1> SUFFICES ASSUME Init PROVE ScanInv OBVIOUS
<1>1. setup \in Scans /\ setup.rows \in Nat /\ problem = setup.registers
  BY QueryAssumption DEF Init, RegistryInit
<1>2. TypeOK
  BY <1>1, EmptySeq DEF Init, RegistryInit, TypeOK, RegistryOK, ScanOK, ThreadState, Nothing
<1>3. ProjectionOK /\ ThreadsOK
  BY DEF Init, ProjectionOK, ThreadsOK, Started
<1>4. \A t \in Thread : claim[t] = <<>> /\ chunk[t] = <<>> /\ out[t] = <<>>
  BY DEF Init, Nothing
<1>5. NoneTwice /\ OnlyClaimed
  BY <1>4 DEF NoneTwice, OnlyClaimed
<1>6. NoneLost
  BY DEF Init, NoneLost
<1> QED BY <1>2, <1>3, <1>5, <1>6 DEF ScanInv

\* The constants of the query that is run.
LEMMA SetupTyped ==
  ASSUME RegistryOK
  PROVE  /\ setup.rows \in Nat /\ setup.columns \in Nat /\ Ids \in Seq(0..setup.columns)
         /\ setup.parallel \in BOOLEAN
         /\ DOMAIN problem \subseteq Fn /\ problem \in [DOMAIN problem -> Problems]
         /\ ChunkColumn \subseteq Nat \ {0}
         /\ \A k \in ChunkColumn : Ids[k] \in 0..setup.columns
         /\ \A j, k \in ChunkColumn : Ids[j] = Ids[k] /\ Ids[j] # 0 => j = k
<1>1. /\ setup.rows \in Nat /\ setup.columns \in Nat /\ Ids \in Seq(0..setup.columns)
      /\ setup.parallel \in BOOLEAN
      /\ DOMAIN problem \subseteq Fn /\ problem \in [DOMAIN problem -> Problems]
      /\ \A j, k \in ChunkColumn : Ids[j] = Ids[k] /\ Ids[j] # 0 => j = k
  BY QueryAssumption DEF RegistryOK, Ids, ChunkColumn
<1>2. ChunkColumn = 1..Len(Ids) /\ Len(Ids) \in Nat
  BY <1>1, LenProperties DEF ChunkColumn
<1>3. \A k \in ChunkColumn : Ids[k] \in 0..setup.columns
  BY <1>1, <1>2, ElementOfSeq
<1> QED BY <1>1, <1>2, <1>3

\* SetColumnCount gives each column that is asked for its one place.
LEMMA PlacesRight ==
  ASSUME RegistryOK, ProjectionOK, plan = "bound", NEW c \in Column, NEW k \in ChunkColumn
  PROVE  SetColumnCount[c] = k <=> Ids[k] = c
<1>1. /\ Ids[k] \in 0..setup.columns /\ c # 0
      /\ \A i, j \in ChunkColumn : Ids[i] = Ids[j] /\ Ids[i] # 0 => i = j
  BY SetupTyped DEF Column
<1>2. CASE \E i \in ChunkColumn : Ids[i] = c
  <2> DEFINE p == CHOOSE i \in ChunkColumn : Ids[i] = c
  <2>1. p \in ChunkColumn /\ Ids[p] = c
    BY <1>2
  <2>2. SetColumnCount[c] = p
    BY <1>2 DEF SetColumnCount
  <2> HIDE DEF p
  <2> QED BY <1>1, <2>1, <2>2
<1>3. CASE ~\E i \in ChunkColumn : Ids[i] = c
  <2>1. SetColumnCount[c] = proj[c]
    BY <1>3 DEF SetColumnCount
  <2> QED BY <1>3, <2>1 DEF ProjectionOK
<1> QED BY <1>2, <1>3

\* SetRowValue fills each column of the chunk with the column that was asked for,
\* whether the source asks IsProjected or not.
LEMMA RowIsWanted ==
  ASSUME RegistryOK, ProjectionOK, scan # "none", NEW r
  PROVE  RowOf(r) = Wanted
<1>1. ASSUME NEW k \in ChunkColumn PROVE RowOf(r)[k] = Ids[k]
  <2>1. Ids[k] \in 0..setup.columns /\ k # NotProjected
    BY SetupTyped DEF NotProjected
  <2>2. \A c \in Column : proj[c] = k <=> Ids[k] = c
    BY DEF ProjectionOK
  <2>3. CASE Ids[k] = RowId
    <3>1. ~\E c \in Column : proj[c] = k
      BY <2>2, <2>3, SetupTyped DEF Column, RowId
    <3> QED BY <2>3, <3>1 DEF RowOf, Blank
  <2>4. CASE Ids[k] # RowId
    <3>1. Ids[k] \in Column /\ proj[Ids[k]] = k
      BY <2>1, <2>2, <2>4, SetupTyped DEF Column, RowId
    <3>2. \E c \in Column : proj[c] = k /\ (setup.lazy => IsProjected(c))
      BY <2>1, <3>1 DEF IsProjected
    <3>3. (CHOOSE c \in Column : proj[c] = k) = Ids[k]
      BY <2>2, <3>1
    <3> QED BY <3>2, <3>3 DEF RowOf
  <2> QED BY <2>3, <2>4
<1> QED BY <1>1 DEF RowOf, Wanted

\* A thread that fills a chunk does so within a scan.
LEMMA FillingScans ==
  ASSUME ThreadsOK, NEW t \in Thread, pc[t] # "off"
  PROVE  scan \in {"scanning", "stopping"}
BY DEF ThreadsOK

-----------------------------------------------------------------------------
\* Every step is well typed, and the rows in a chunk hold what was asked for.
LEMMA StepTyped ==
  ASSUME TypeOK, ProjectionOK, ThreadsOK, [Next]_vars
  PROVE  TypeOK'
<1> USE DEF TypeOK
<1>0. ASSUME UNCHANGED setup PROVE UNCHANGED <<Row, ChunkRow>>
  BY <1>0 DEF Row, ChunkRow, Wanted, ChunkColumn, Ids
<1>1. ASSUME NEW f \in Fn, Register(f), UNCHANGED scanVars PROVE TypeOK'
  <2>1. RegistryOK'
    BY <1>1 DEF Register, RegistryOK, scanVars
  <2> QED BY <1>0, <1>1, <2>1 DEF scanVars, ScanOK
<1>2. CASE Bind
  BY <1>0, <1>2 DEF Bind, RegistryOK, ScanOK
<1>3. CASE TableInit
  BY <1>0, <1>3, EmptySeq, SetupTyped DEF TableInit, RegistryOK, ScanOK, Nothing, registry
<1>4. CASE Stop \/ EndScan \/ DropPlan
  BY <1>0, <1>4, EmptySeq DEF Stop, EndScan, DropPlan, RegistryOK, ScanOK, ThreadState, registry
<1>5. CASE Close
  BY <1>0, <1>5 DEF Close, CloseDatabase, RegistryOK, ScanOK, scanVars
<1>6. ASSUME NEW t \in Thread, LocalInit(t) PROVE TypeOK'
  BY <1>0, <1>6, EmptySeq DEF LocalInit, RegistryOK, ScanOK, ThreadState
<1>7. ASSUME NEW t \in Thread, Callback(t) PROVE TypeOK'
  BY <1>0, <1>7, EmptySeq DEF Callback, RegistryOK, ScanOK, ThreadState, registry
<1>8. ASSUME NEW t \in Thread, ClaimRows(t) PROVE TypeOK'
  <2> DEFINE n == IF next + Claim <= setup.rows THEN Claim ELSE setup.rows - next
  <2>1. setup.rows \in Nat /\ next \in 0..setup.rows /\ next < setup.rows
    BY <1>8, SetupTyped DEF ClaimRows, ScanOK
  <2>2. n \in Nat /\ next + n \in 0..setup.rows
    BY <2>1, ScanAssumption
  <2>3. \A i \in 1..n : next + i \in Row
    BY <2>1, <2>2 DEF Row
  <2> HIDE DEF n
  <2>4. [i \in 1..n |-> next + i] \in Seq(Row)
    BY <2>2, <2>3
  <2>5. next' = next + n /\ claim' = [claim EXCEPT ![t] = [i \in 1..n |-> next + i]]
    BY <1>8 DEF ClaimRows, n
  <2> QED BY <1>0, <1>8, <2>2, <2>4, <2>5 DEF ClaimRows, RegistryOK, ScanOK, registry
<1>9. ASSUME NEW t \in Thread, FillRow(t) PROVE TypeOK'
  <2>1. Head(claim[t]) \in Row /\ Tail(claim[t]) \in Seq(Row)
    BY <1>9, HeadTailProperties DEF FillRow, ScanOK
  <2>2. [row |-> Head(claim[t]), cells |-> RowOf(Head(claim[t]))] \in ChunkRow
    BY <1>9, <2>1, RowIsWanted, FillingScans DEF FillRow, ChunkRow
  <2> DEFINE x == [row |-> Head(claim[t]), cells |-> RowOf(Head(claim[t]))]
  <2>3. chunk' \in [Thread -> Seq(ChunkRow)]
    <3> HIDE DEF x
    <3>1. chunk' = chunk \/ chunk' = [chunk EXCEPT ![t] = Append(@, x)]
      BY <1>9 DEF FillRow, x
    <3>2. Append(chunk[t], x) \in Seq(ChunkRow)
      BY <2>2, AppendProperties DEF ScanOK, x
    <3> QED BY <3>1, <3>2 DEF ScanOK
  <2>4. claim' \in [Thread -> Seq(Row)] /\ pc' \in [Thread -> ThreadState]
    BY <1>9, <2>1 DEF FillRow, ScanOK, ThreadState
  <2> QED BY <1>0, <1>9, <2>3, <2>4 DEF FillRow, RegistryOK, ScanOK, registry
<1>10. ASSUME NEW t \in Thread, Return(t) PROVE TypeOK'
  <2>1. out[t] \o Sized(t) \in Seq(ChunkRow)
    BY ConcatProperties DEF ScanOK, Sized
  <2> QED BY <1>0, <1>10, <2>1, EmptySeq DEF Return, RegistryOK, ScanOK, ThreadState, registry
<1>11. ASSUME NEW t \in Thread, ReturnError(t) PROVE TypeOK'
  BY <1>0, <1>11, EmptySeq DEF ReturnError, RegistryOK, ScanOK, ThreadState, registry
<1>12. CASE UNCHANGED vars
  BY <1>0, <1>12 DEF vars, scanVars, registry, RegistryOK, ScanOK
<1> QED
  BY <1>1, <1>2, <1>3, <1>4, <1>5, <1>6, <1>7, <1>8, <1>9, <1>10, <1>11, <1>12 DEF Next, Fill

\* A column's place is set before the first row is filled in, and stays.
LEMMA StepProjection ==
  ASSUME RegistryOK, ProjectionOK, ThreadsOK, [Next]_vars
  PROVE  ProjectionOK'
<1>0. ASSUME UNCHANGED <<setup, plan, scan, proj>> PROVE ProjectionOK'
  BY <1>0 DEF ProjectionOK, Column, ChunkColumn, Ids
<1>1. CASE Bind
  <2>1. UNCHANGED <<Column, Ids, ChunkColumn>>
    BY <1>1 DEF Bind, Column, ChunkColumn, Ids
  <2>2. \A k \in ChunkColumn : k # 0
    BY SetupTyped
  <2> QED BY <1>1, <2>1, <2>2 DEF Bind, ProjectionOK, NotProjected
<1>2. CASE TableInit
  <2>1. UNCHANGED <<Column, Ids, ChunkColumn>>
    BY <1>2 DEF TableInit, Column, ChunkColumn, Ids
  <2> QED BY <1>2, <2>1, PlacesRight DEF TableInit, ProjectionOK
<1>3. CASE Stop \/ EndScan \/ DropPlan \/ \E t \in Thread : ReturnError(t)
  <2>1. UNCHANGED <<Column, Ids, ChunkColumn, proj>>
    BY <1>3 DEF Stop, EndScan, DropPlan, ReturnError, Column, ChunkColumn, Ids
  <2>2. (scan' # "none" => scan # "none") /\ (plan' = "none" <=> plan = "none")
    BY <1>3, FillingScans DEF Stop, EndScan, DropPlan, ReturnError
  <2> QED BY <1>3, <2>1, <2>2, FillingScans DEF Stop, EndScan, DropPlan, ReturnError, ProjectionOK
<1> QED
  BY <1>0, <1>1, <1>2, <1>3 DEF Next, Fill, vars, scanVars, Close, LocalInit, Callback, ClaimRows, FillRow, Return

-----------------------------------------------------------------------------
\* A thread holds what its part of the scan has come to; a sequential scan has one.
LEMMA StepThreads ==
  ASSUME TypeOK, ThreadsOK, [Next]_vars
  PROVE  ThreadsOK'
<1> USE DEF TypeOK
<1>0. ASSUME UNCHANGED <<setup, scan, pc, claim, chunk, next, threads>> PROVE ThreadsOK'
  BY <1>0 DEF ThreadsOK, Started
<1>1. CASE TableInit
  <2>1. /\ setup' = setup /\ pc' = pc /\ claim' = claim /\ chunk' = chunk /\ threads' = MaxThreads
        /\ scan' = "scanning" /\ \A t \in Thread : pc[t] = "off"
    BY <1>1 DEF TableInit, ThreadsOK
  <2>2. ~setup.parallel => threads' \in {0, 1}
    BY <2>1 DEF MaxThreads
  <2> QED BY <2>1, <2>2 DEF ThreadsOK, Started
<1>2. CASE Stop
  BY <1>2 DEF Stop, ThreadsOK, Started
<1>3. CASE EndScan
  BY <1>3 DEF EndScan, ThreadsOK, Started
<1>4. ASSUME NEW t \in Thread, LocalInit(t) PROVE ThreadsOK'
  <2>1. /\ scan = "scanning" /\ UNCHANGED <<setup, scan, chunk, next, threads>>
        /\ \A u \in Thread : pc'[u] = IF u = t THEN "ready" ELSE pc[u]
        /\ \A u \in Thread : claim'[u] = IF u = t THEN <<>> ELSE claim[u]
        /\ pc[t] = "off" /\ chunk[t] = <<>>
    BY <1>4 DEF LocalInit, ScanOK, ThreadsOK
  <2>2. ASSUME ~setup.parallel PROVE Started = {}
    <3>1. threads \in {0, 1} /\ \A u, v \in Started : u = v
      BY <2>2 DEF ThreadsOK
    <3>2. ASSUME NEW u \in Started PROVE FALSE
      <4>1. Started = {u}
        BY <3>1, <3>2
      <4>2. Cardinality(Started) = 1
        BY <4>1, FS_Singleton
      <4> QED BY <1>4, <3>1, <4>2 DEF LocalInit
    <3> QED BY <3>2
  <2>3. ~setup'.parallel => threads' \in {0, 1} /\ \A u, v \in Started' : u = v
    BY <2>1, <2>2 DEF ThreadsOK, Started
  <2> QED BY <2>1, <2>3 DEF ThreadsOK
<1>5. ASSUME NEW t \in Thread, pc[t] # "off", UNCHANGED <<setup, threads>>,
             NEW st \in {"ready", "filling", "failing", "ended"}, pc' = [pc EXCEPT ![t] = st],
             scan' = scan \/ scan' = "stopping", next' = next,
             \A u \in Thread : u # t => claim'[u] = claim[u] /\ chunk'[u] = chunk[u],
             st \in {"ready", "ended"} => chunk'[t] = <<>>,
             st = "ended" /\ scan' = "scanning" => claim'[t] = <<>> /\ next' = setup'.rows
      PROVE  ThreadsOK'
  <2>1. /\ \A u \in Thread : pc'[u] = IF u = t THEN st ELSE pc[u]
        /\ scan \in {"scanning", "stopping"} /\ scan' \in {"scanning", "stopping"}
        /\ Started' = Started
    BY <1>5, FillingScans DEF ScanOK, Started
  <2> QED BY <1>5, <2>1 DEF ThreadsOK
<1>6. ASSUME NEW t \in Thread, Callback(t) PROVE ThreadsOK'
  BY <1>5, <1>6 DEF Callback, ScanOK
<1>7. ASSUME NEW t \in Thread, ClaimRows(t) PROVE ThreadsOK'
  <2>1. /\ UNCHANGED <<setup, scan, pc, chunk, threads>> /\ pc[t] = "filling" /\ next # setup.rows
        /\ \A u \in Thread : u # t => claim'[u] = claim[u]
    BY <1>7, SetupTyped DEF ClaimRows, ScanOK
  <2> QED BY <2>1 DEF ThreadsOK, Started
<1>8. ASSUME NEW t \in Thread, FillRow(t) PROVE ThreadsOK'
  <2>1. /\ pc[t] = "filling" /\ UNCHANGED <<setup, scan, threads, next>>
        /\ \A u \in Thread : u # t => claim'[u] = claim[u] /\ chunk'[u] = chunk[u]
    BY <1>8 DEF FillRow, ScanOK
  <2>2. pc' = [pc EXCEPT ![t] = "failing"] \/ pc' = [pc EXCEPT ![t] = "filling"]
    BY <1>8 DEF FillRow, ScanOK
  <2> QED BY <1>5, <2>1, <2>2
<1>9. ASSUME NEW t \in Thread, Return(t) PROVE ThreadsOK'
  <2> DEFINE st == IF Ends(t) THEN "ended" ELSE "ready"
  <2>1. /\ pc[t] = "filling" /\ UNCHANGED <<setup, scan, threads, next, claim>>
        /\ pc' = [pc EXCEPT ![t] = st] /\ st \in {"ready", "ended"}
        /\ \A u \in Thread : u # t => chunk'[u] = chunk[u]
        /\ chunk'[t] = <<>>
    BY <1>9 DEF Return, ScanOK
  <2>2. ASSUME st = "ended" PROVE claim[t] = <<>> /\ next = setup.rows
    <3>1. Len(chunk[t]) # Capacity
      BY <2>2, EmptySeq, ScanAssumption DEF Ends, Sized
    <3> QED BY <1>9, <3>1 DEF Return, Full, Exhausted
  <2> HIDE DEF st
  <2> QED BY <1>5, <2>1, <2>2
<1>10. ASSUME NEW t \in Thread, ReturnError(t) PROVE ThreadsOK'
  BY <1>5, <1>10 DEF ReturnError, ScanOK
<1>11. CASE UNCHANGED vars
  BY <1>0, <1>11 DEF vars, scanVars
<1>12. CASE Bind \/ DropPlan \/ Close
  BY <1>0, <1>12 DEF Bind, DropPlan, Close, scanVars, ThreadsOK, Started
<1> QED
  BY <1>0, <1>1, <1>2, <1>3, <1>4, <1>6, <1>7, <1>8, <1>9, <1>10, <1>11, <1>12 DEF Next, Fill, scanVars

-----------------------------------------------------------------------------
\* Every row stays in one place, from the claim over the chunk to the query.
RowsInv == NoneTwice /\ OnlyClaimed /\ NoneLost

\* Where a thread's rows are, as a step leaves them.
SameRows(t) == claim'[t] = claim[t] /\ chunk'[t] = chunk[t] /\ out'[t] = out[t]

\* A step that moves no row: no thread that goes on has failed meanwhile.
LEMMA RowsKept ==
  ASSUME RowsInv, \A t \in Thread : SameRows(t), next' = next,
         scan' = "scanning" => scan = "scanning" /\ \A t \in Thread : pc[t] = "failing" => pc'[t] = "failing"
  PROVE  RowsInv'
<1>1. NoneTwice' /\ OnlyClaimed'
  BY DEF RowsInv, NoneTwice, OnlyClaimed, SameRows
<1>2. NoneLost'
  BY DEF RowsInv, NoneLost, Somewhere, SameRows
<1> QED BY <1>1, <1>2 DEF RowsInv

\* Wherever a row is, it is one of the source's.
LEMMA PlacesTyped ==
  ASSUME TypeOK, NEW u \in Thread
  PROVE  /\ DOMAIN claim[u] \subseteq Nat /\ \A i \in DOMAIN claim[u] : claim[u][i] \in Nat
         /\ \A i \in DOMAIN chunk[u] : chunk[u][i].row \in Nat
         /\ \A i \in DOMAIN out[u] : out[u][i].row \in Nat
<1>1. claim[u] \in Seq(Row) /\ chunk[u] \in Seq(ChunkRow) /\ out[u] \in Seq(ChunkRow)
  BY DEF TypeOK, ScanOK
<1>2. Row \subseteq Nat /\ \A x \in ChunkRow : x.row \in Nat
  BY SetupTyped DEF Row, ChunkRow, TypeOK
<1>3. \A i \in DOMAIN claim[u] : claim[u][i] \in Row
  BY <1>1
<1>4. \A i \in DOMAIN chunk[u] : chunk[u][i] \in ChunkRow
  BY <1>1
<1>5. \A i \in DOMAIN out[u] : out[u][i] \in ChunkRow
  BY <1>1
<1>6. DOMAIN claim[u] \subseteq Nat
  BY <1>1
<1> QED BY <1>2, <1>3, <1>4, <1>5, <1>6

\* The source claims rows that nobody has claimed.
LEMMA RowsClaimed ==
  ASSUME TypeOK, RowsInv, NEW t \in Thread, ClaimRows(t)
  PROVE  RowsInv'
<1> DEFINE n == IF next + Claim <= setup.rows THEN Claim ELSE setup.rows - next
<1>1. n \in Nat /\ next \in Nat /\ next' = next + n
  BY SetupTyped, ScanAssumption DEF ClaimRows, TypeOK, ScanOK
<1>2. /\ claim[t] = <<>> /\ claim'[t] = [i \in 1..n |-> next + i]
      /\ \A u \in Thread : u # t => claim'[u] = claim[u]
      /\ UNCHANGED <<chunk, out, scan, pc>>
  BY DEF ClaimRows, TypeOK, ScanOK
<1> HIDE DEF n
<1>3. DOMAIN claim'[t] = 1..n /\ \A i \in 1..n : claim'[t][i] = next + i
  BY <1>2
<1>4. \A u \in Thread : \A i \in DOMAIN claim'[u] :
        \/ u # t /\ i \in DOMAIN claim[u] /\ claim'[u][i] = claim[u][i]
        \/ u = t /\ i \in 1..n /\ claim'[u][i] = next + i
  BY <1>2, <1>3
<1>5. \A u \in Thread :
        /\ DOMAIN claim[u] \subseteq Nat /\ \A i \in DOMAIN claim[u] : claim[u][i] \in Nat /\ claim[u][i] <= next
        /\ \A i \in DOMAIN chunk[u] : chunk[u][i].row \in Nat /\ chunk[u][i].row <= next
        /\ \A i \in DOMAIN out[u] : out[u][i].row \in Nat /\ out[u][i].row <= next
  BY PlacesTyped DEF RowsInv, OnlyClaimed
<1>6. OnlyClaimed'
  BY <1>1, <1>2, <1>4, <1>5 DEF OnlyClaimed
<1>7. NoneTwice'
  <2> SUFFICES ASSUME NEW u \in Thread, NEW v \in Thread
               PROVE  /\ \A i \in DOMAIN claim'[u], j \in DOMAIN claim'[v] :
                           claim'[u][i] = claim'[v][j] => u = v /\ i = j
                      /\ \A i \in DOMAIN claim'[u], j \in DOMAIN chunk[v] : claim'[u][i] # chunk[v][j].row
                      /\ \A i \in DOMAIN claim'[u], j \in DOMAIN out[v] : claim'[u][i] # out[v][j].row
    BY <1>2 DEF RowsInv, NoneTwice
  <2>1. ASSUME NEW i \in DOMAIN claim'[u], NEW j \in DOMAIN claim'[v], claim'[u][i] = claim'[v][j]
        PROVE  u = v /\ i = j
    BY <1>1, <1>4, <1>5, <2>1 DEF RowsInv, NoneTwice
  <2>2. ASSUME NEW i \in DOMAIN claim'[u], NEW j \in DOMAIN chunk[v] PROVE claim'[u][i] # chunk[v][j].row
    BY <1>1, <1>4, <1>5, <2>2 DEF RowsInv, NoneTwice
  <2>3. ASSUME NEW i \in DOMAIN claim'[u], NEW j \in DOMAIN out[v] PROVE claim'[u][i] # out[v][j].row
    BY <1>1, <1>4, <1>5, <2>3 DEF RowsInv, NoneTwice
  <2> QED BY <2>1, <2>2, <2>3
<1>8. NoneLost'
  <2> SUFFICES ASSUME scan = "scanning", \A u \in Thread : pc[u] # "failing", NEW r \in 1..next'
               PROVE  Somewhere(r)'
    BY <1>2 DEF NoneLost
  <2>1. CASE r \in 1..next
    <3>1. Somewhere(r)
      BY <2>1 DEF RowsInv, NoneLost
    <3> QED BY <1>2, <3>1 DEF Somewhere
  <2>2. CASE r \notin 1..next
    <3>1. r - next \in 1..n /\ next + (r - next) = r
      BY <1>1, <2>2
    <3> QED BY <1>3, <3>1 DEF Somewhere
  <2> QED BY <2>1, <2>2
<1> QED BY <1>6, <1>7, <1>8 DEF RowsInv

\* FillRow takes the first row of a claim, which goes to the chunk or is the one the
\* source fails at.
LEMMA RowsFilled ==
  ASSUME TypeOK, RowsInv, NEW t \in Thread, FillRow(t)
  PROVE  RowsInv'
<1> DEFINE c == claim[t]
           h == chunk[t]
<1>1. /\ c \in Seq(Row) /\ c # <<>> /\ h \in Seq(ChunkRow)
      /\ Len(c) \in Nat \ {0} /\ DOMAIN c = 1..Len(c) /\ Len(h) \in Nat /\ DOMAIN h = 1..Len(h)
  BY EmptySeq, LenProperties DEF FillRow, TypeOK, ScanOK
<1>2. /\ claim'[t] = Tail(c) /\ \A u \in Thread : u # t => claim'[u] = claim[u]
      /\ UNCHANGED <<out, scan, next>>
  BY DEF FillRow, TypeOK, ScanOK
<1>3. DOMAIN claim'[t] = 1..(Len(c) - 1) /\ \A i \in 1..(Len(c) - 1) : claim'[t][i] = c[i + 1]
  BY <1>1, <1>2, HeadTailProperties, LenProperties
<1>4. \A u \in Thread : \A i \in DOMAIN claim'[u] :
        \E k \in DOMAIN claim[u] : /\ claim'[u][i] = claim[u][k]
                                   /\ k = IF u = t THEN i + 1 ELSE i
                                   /\ u = t => k # 1
  <2> SUFFICES ASSUME NEW u \in Thread, NEW i \in DOMAIN claim'[u]
               PROVE  \E k \in DOMAIN claim[u] : /\ claim'[u][i] = claim[u][k]
                                                 /\ k = IF u = t THEN i + 1 ELSE i
                                                 /\ u = t => k # 1
    OBVIOUS
  <2>1. CASE u = t
    <3>1. i \in 1..(Len(c) - 1) /\ claim'[u][i] = claim[u][i + 1]
      BY <1>3, <2>1
    <3>2. i + 1 \in DOMAIN claim[u] /\ i + 1 # 1
      BY <1>1, <2>1, <3>1
    <3> QED BY <2>1, <3>1, <3>2
  <2>2. CASE u # t
    BY <1>2, <2>2
  <2> QED BY <2>1, <2>2
<1>5. DOMAIN claim[t] \subseteq Nat /\ \A u \in Thread : \A i \in DOMAIN claim'[u] : i \in Nat
  <2>1. \A i \in DOMAIN claim'[t] : i \in Nat
    BY <1>1, <1>3
  <2>2. \A u \in Thread : u # t => \A i \in DOMAIN claim'[u] : i \in Nat
    BY <1>2, PlacesTyped
  <2> QED BY <1>1, <2>1, <2>2
<1>6. CASE pc' = [pc EXCEPT ![t] = "failing"] /\ UNCHANGED chunk
  <2>1. NoneTwice'
    <3>1. ASSUME NEW u \in Thread, NEW v \in Thread, NEW i \in DOMAIN claim'[u], NEW j \in DOMAIN claim'[v],
                 claim'[u][i] = claim'[v][j]
          PROVE  u = v /\ i = j
      BY <1>4, <1>5, <3>1 DEF RowsInv, NoneTwice
    <3>2. ASSUME NEW u \in Thread, NEW v \in Thread, NEW i \in DOMAIN claim'[u]
          PROVE  /\ \A j \in DOMAIN chunk[v] : claim'[u][i] # chunk[v][j].row
                 /\ \A j \in DOMAIN out[v] : claim'[u][i] # out[v][j].row
      BY <1>4 DEF RowsInv, NoneTwice
    <3> QED BY <1>2, <1>6, <3>1, <3>2 DEF RowsInv, NoneTwice
  <2>2. OnlyClaimed'
    BY <1>2, <1>4, <1>6 DEF RowsInv, OnlyClaimed
  <2>3. pc'[t] = "failing"
    BY <1>6 DEF TypeOK, ScanOK
  <2>4. NoneLost'
    BY <2>3 DEF NoneLost
  <2> QED BY <2>1, <2>2, <2>4 DEF RowsInv
<1>7. CASE UNCHANGED pc /\ chunk' = [chunk EXCEPT ![t] = Append(@, [row |-> Head(c), cells |-> RowOf(Head(c))])]
  <2> DEFINE x == [row |-> Head(c), cells |-> RowOf(Head(c))]
  <2>1. x.row = c[1] /\ 1 \in DOMAIN c
    BY <1>1
  <2>2. chunk'[t] = Append(h, x) /\ \A u \in Thread : u # t => chunk'[u] = chunk[u]
    BY <1>7 DEF TypeOK, ScanOK
  <2> HIDE DEF x
  <2>3. /\ DOMAIN chunk'[t] = 1..(Len(h) + 1) /\ chunk'[t][Len(h) + 1].row = c[1]
        /\ \A i \in 1..Len(h) : chunk'[t][i] = h[i]
    BY <1>1, <2>1, <2>2
  <2>4. \A u \in Thread : \A j \in DOMAIN chunk'[u] :
          \/ j \in DOMAIN chunk[u] /\ chunk'[u][j] = chunk[u][j]
          \/ u = t /\ j = Len(h) + 1 /\ chunk'[u][j].row = c[1]
    BY <1>1, <2>2, <2>3
  <2>5. OnlyClaimed'
    BY <1>1, <1>2, <1>4, <2>1, <2>4 DEF RowsInv, OnlyClaimed
  <2>6. NoneTwice'
    <3>1. ASSUME NEW u \in Thread, NEW v \in Thread, NEW i \in DOMAIN claim'[u], NEW j \in DOMAIN claim'[v],
                 claim'[u][i] = claim'[v][j]
          PROVE  u = v /\ i = j
      BY <1>4, <1>5, <3>1 DEF RowsInv, NoneTwice
    <3>2. ASSUME NEW u \in Thread, NEW v \in Thread, NEW i \in DOMAIN claim'[u]
          PROVE  /\ \A j \in DOMAIN chunk'[v] : claim'[u][i] # chunk'[v][j].row
                 /\ \A j \in DOMAIN out[v] : claim'[u][i] # out[v][j].row
      BY <1>4, <2>1, <2>4 DEF RowsInv, NoneTwice
    <3>3. ASSUME NEW u \in Thread, NEW v \in Thread, NEW i \in DOMAIN chunk'[u], NEW j \in DOMAIN chunk'[v],
                 chunk'[u][i].row = chunk'[v][j].row
          PROVE  u = v /\ i = j
      BY <2>1, <2>4, <3>3 DEF RowsInv, NoneTwice
    <3>4. ASSUME NEW u \in Thread, NEW v \in Thread, NEW i \in DOMAIN chunk'[u], NEW j \in DOMAIN out[v]
          PROVE  chunk'[u][i].row # out[v][j].row
      BY <2>1, <2>4, <3>4 DEF RowsInv, NoneTwice
    <3> QED BY <1>2, <3>1, <3>2, <3>3, <3>4 DEF RowsInv, NoneTwice
  <2>7. NoneLost'
    <3> SUFFICES ASSUME NoneLost, NEW r, Somewhere(r) PROVE Somewhere(r)'
      BY <1>2, <1>7 DEF RowsInv, NoneLost
    <3>1. PICK u \in Thread :
            \/ \E i \in DOMAIN claim[u] : claim[u][i] = r
            \/ \E i \in DOMAIN chunk[u] : chunk[u][i].row = r
            \/ \E i \in DOMAIN out[u] : out[u][i].row = r
      BY DEF Somewhere
    <3>2. CASE \E i \in DOMAIN out[u] : out[u][i].row = r
      BY <1>2, <3>2 DEF Somewhere
    <3>3. CASE \E i \in DOMAIN chunk[u] : chunk[u][i].row = r
      <4>1. PICK i \in DOMAIN chunk[u] : chunk[u][i].row = r
        BY <3>3
      <4>2. i \in DOMAIN chunk'[u] /\ chunk'[u][i] = chunk[u][i]
        BY <1>1, <2>2, <2>3
      <4> QED BY <4>1, <4>2 DEF Somewhere
    <3>4. CASE \E i \in DOMAIN claim[u] : claim[u][i] = r
      <4>1. PICK i \in DOMAIN claim[u] : claim[u][i] = r
        BY <3>4
      <4>2. CASE u # t
        BY <1>2, <4>1, <4>2 DEF Somewhere
      <4>3. CASE u = t /\ i = 1
        <5>1. Len(h) + 1 \in DOMAIN chunk'[t] /\ chunk'[t][Len(h) + 1].row = r
          BY <1>1, <2>3, <4>1, <4>3
        <5> QED BY <5>1 DEF Somewhere
      <4>4. CASE u = t /\ i # 1
        <5>1. i - 1 \in DOMAIN claim'[t] /\ claim'[t][i - 1] = c[(i - 1) + 1] /\ (i - 1) + 1 = i
          BY <1>1, <1>3, <4>4
        <5> QED BY <4>1, <4>4, <5>1 DEF Somewhere
      <4> QED BY <4>2, <4>3, <4>4
    <3> QED BY <3>1, <3>2, <3>3, <3>4
  <2> QED BY <2>5, <2>6, <2>7 DEF RowsInv
<1> QED BY <1>6, <1>7 DEF FillRow

\* The callback hands a whole chunk to the query.
LEMMA RowsHanded ==
  ASSUME TypeOK, RowsInv, NEW t \in Thread, Return(t)
  PROVE  RowsInv'
<1> DEFINE h == chunk[t]
           o == out[t]
<1>1. /\ h \in Seq(ChunkRow) /\ o \in Seq(ChunkRow)
      /\ Len(h) \in Nat /\ DOMAIN h = 1..Len(h) /\ Len(o) \in Nat /\ DOMAIN o = 1..Len(o)
  BY LenProperties DEF TypeOK, ScanOK
<1>2. /\ out'[t] = o \o h /\ \A u \in Thread : u # t => out'[u] = out[u] /\ chunk'[u] = chunk[u]
      /\ chunk'[t] = <<>> /\ UNCHANGED <<claim, scan, next>>
      /\ \A u \in Thread : pc[u] = "failing" => pc'[u] = "failing"
  BY DEF Return, Sized, TypeOK, ScanOK
<1>3. /\ DOMAIN out'[t] = 1..(Len(o) + Len(h))
      /\ \A i \in DOMAIN out'[t] : out'[t][i] = IF i <= Len(o) THEN o[i] ELSE h[i - Len(o)]
  <2> HIDE DEF h, o
  <2>1. /\ o \o h \in Seq(ChunkRow) /\ Len(o \o h) = Len(o) + Len(h)
        /\ \A i \in 1..(Len(o) + Len(h)) : (o \o h)[i] = IF i <= Len(o) THEN o[i] ELSE h[i - Len(o)]
    BY <1>1, ConcatProperties
  <2>2. DOMAIN (o \o h) = 1..(Len(o) + Len(h))
    BY <2>1, LenProperties
  <2> QED BY <1>2, <2>1, <2>2
<1>4. /\ \A u \in Thread : \A i \in DOMAIN chunk'[u] : u # t /\ i \in DOMAIN chunk[u] /\ chunk'[u][i] = chunk[u][i]
      /\ \A u \in Thread : DOMAIN out[u] \subseteq Nat
  BY <1>2, LenProperties DEF TypeOK, ScanOK
<1>5. \A u \in Thread : \A i \in DOMAIN out'[u] :
        \/ i \in DOMAIN out[u] /\ out'[u][i] = out[u][i]
        \/ u = t /\ i - Len(o) \in DOMAIN h /\ out'[u][i] = h[i - Len(o)]
  <2> SUFFICES ASSUME NEW i \in DOMAIN out'[t]
               PROVE  \/ i \in DOMAIN o /\ out'[t][i] = o[i]
                      \/ i - Len(o) \in DOMAIN h /\ out'[t][i] = h[i - Len(o)]
    BY <1>2
  <2> HIDE DEF h, o
  <2>1. i \in 1..(Len(o) + Len(h))
    BY <1>3
  <2> QED BY <1>1, <1>3, <2>1
<1>6. \A u \in Thread : \A i \in DOMAIN out'[u] : i \in Nat
  <2>1. \A i \in DOMAIN out'[t] : i \in Nat
    BY <1>1, <1>3
  <2>2. \A u \in Thread : u # t => \A i \in DOMAIN out'[u] : i \in Nat
    BY <1>2, <1>4
  <2> QED BY <2>1, <2>2
<1>7. OnlyClaimed'
  BY <1>2, <1>4, <1>5 DEF RowsInv, OnlyClaimed
<1>8. NoneTwice'
  <2>1. ASSUME NEW u \in Thread, NEW v \in Thread, NEW i \in DOMAIN out'[u], NEW j \in DOMAIN out'[v],
               out'[u][i].row = out'[v][j].row
        PROVE  u = v /\ i = j
    <3>1. CASE i \in DOMAIN out[u] /\ out'[u][i] = out[u][i] /\ j \in DOMAIN out[v] /\ out'[v][j] = out[v][j]
      BY <2>1, <3>1 DEF RowsInv, NoneTwice
    <3>2. CASE /\ u = t /\ i - Len(o) \in DOMAIN h /\ out'[u][i] = h[i - Len(o)]
               /\ v = t /\ j - Len(o) \in DOMAIN h /\ out'[v][j] = h[j - Len(o)]
      <4>1. i - Len(o) = j - Len(o)
        BY <2>1, <3>2 DEF RowsInv, NoneTwice
      <4> QED BY <1>1, <1>6, <3>2, <4>1
    <3> QED BY <1>5, <2>1, <3>1, <3>2 DEF RowsInv, NoneTwice
  <2>2. ASSUME NEW u \in Thread, NEW v \in Thread, NEW j \in DOMAIN out'[v]
        PROVE  /\ \A i \in DOMAIN claim[u] : claim[u][i] # out'[v][j].row
               /\ \A i \in DOMAIN chunk'[u] : chunk'[u][i].row # out'[v][j].row
    BY <1>4, <1>5 DEF RowsInv, NoneTwice
  <2> QED BY <1>2, <1>4, <2>1, <2>2 DEF RowsInv, NoneTwice
<1>9. NoneLost'
  <2> SUFFICES ASSUME NoneLost, NEW r, Somewhere(r) PROVE Somewhere(r)'
    BY <1>2 DEF RowsInv, NoneLost
  <2>1. PICK u \in Thread :
          \/ \E i \in DOMAIN claim[u] : claim[u][i] = r
          \/ \E i \in DOMAIN chunk[u] : chunk[u][i].row = r
          \/ \E i \in DOMAIN out[u] : out[u][i].row = r
    BY DEF Somewhere
  <2>2. CASE \E i \in DOMAIN claim[u] : claim[u][i] = r
    BY <1>2, <2>2 DEF Somewhere
  <2>3. CASE u # t
    BY <1>2, <2>1, <2>3 DEF Somewhere
  <2>4. ASSUME u = t, NEW i \in DOMAIN h, h[i].row = r PROVE Somewhere(r)'
    <3>1. i + Len(o) \in DOMAIN out'[t] /\ out'[t][i + Len(o)] = h[i]
      <4> HIDE DEF h, o
      <4>1. i \in 1..Len(h) /\ (i + Len(o)) - Len(o) = i /\ ~(i + Len(o) <= Len(o))
        BY <1>1
      <4>2. i + Len(o) \in 1..(Len(o) + Len(h))
        BY <1>1, <4>1
      <4> QED BY <1>3, <4>1, <4>2
    <3> QED BY <2>4, <3>1 DEF Somewhere
  <2>5. ASSUME u = t, NEW i \in DOMAIN o, o[i].row = r PROVE Somewhere(r)'
    <3>1. i \in DOMAIN out'[t] /\ out'[t][i] = o[i]
      <4> HIDE DEF h, o
      <4>1. i \in 1..(Len(o) + Len(h)) /\ i <= Len(o)
        BY <1>1
      <4> QED BY <1>3, <4>1
    <3> QED BY <2>5, <3>1 DEF Somewhere
  <2> QED BY <2>1, <2>2, <2>3, <2>4, <2>5
<1> QED BY <1>7, <1>8, <1>9 DEF RowsInv

\* One step of any actor.
LEMMA StepRows ==
  ASSUME TypeOK, ThreadsOK, RowsInv, [Next]_vars
  PROVE  RowsInv'
<1> USE DEF TypeOK
<1>0. ASSUME UNCHANGED <<scan, pc, claim, chunk, next, out>> PROVE RowsInv'
  BY <1>0, RowsKept DEF SameRows
<1>1. CASE TableInit
  <2>1. \A t \in Thread : claim'[t] = <<>> /\ chunk'[t] = <<>> /\ out'[t] = <<>>
    BY <1>1 DEF TableInit, ThreadsOK, Nothing
  <2>2. next' = 0
    BY <1>1 DEF TableInit
  <2>3. NoneTwice' /\ OnlyClaimed'
    BY <2>1 DEF NoneTwice, OnlyClaimed
  <2>4. NoneLost'
    BY <2>2 DEF NoneLost
  <2> QED BY <2>3, <2>4 DEF RowsInv
<1>2. CASE Stop
  BY <1>2, RowsKept DEF Stop, SameRows
<1>3. CASE EndScan
  <2>1. \A t \in Thread : claim'[t] = <<>> /\ chunk'[t] = <<>> /\ out'[t] = out[t]
    BY <1>3 DEF EndScan
  <2>2. next' = next /\ scan' # "scanning"
    BY <1>3 DEF EndScan
  <2>3. NoneTwice' /\ OnlyClaimed'
    BY <2>1, <2>2 DEF NoneTwice, OnlyClaimed, RowsInv
  <2>4. NoneLost'
    BY <2>2 DEF NoneLost
  <2> QED BY <2>3, <2>4 DEF RowsInv
<1>4. ASSUME NEW t \in Thread, LocalInit(t) PROVE RowsInv'
  <2>1. \A u \in Thread : SameRows(u)
    BY <1>4 DEF LocalInit, ThreadsOK, ScanOK, SameRows
  <2>2. \A u \in Thread : pc[u] = "failing" => pc'[u] = "failing"
    BY <1>4 DEF LocalInit, ScanOK
  <2> QED BY <1>4, <2>1, <2>2, RowsKept DEF LocalInit
<1>5. ASSUME NEW t \in Thread, Callback(t) PROVE RowsInv'
  <2>1. \A u \in Thread : SameRows(u)
    BY <1>5 DEF Callback, ThreadsOK, ScanOK, SameRows
  <2>2. \A u \in Thread : pc[u] = "failing" => pc'[u] = "failing"
    BY <1>5 DEF Callback, ScanOK
  <2> QED BY <1>5, <2>1, <2>2, RowsKept DEF Callback
<1>6. ASSUME NEW t \in Thread, ReturnError(t) PROVE RowsInv'
  <2>1. /\ \A u \in Thread : u # t => chunk'[u] = chunk[u]
        /\ chunk'[t] = <<>> /\ UNCHANGED <<claim, out, next>> /\ scan' # "scanning"
    BY <1>6 DEF ReturnError, ScanOK
  <2>2. \A u \in Thread : \A i \in DOMAIN chunk'[u] : i \in DOMAIN chunk[u] /\ chunk'[u][i] = chunk[u][i]
    BY <2>1
  <2>3. NoneTwice'
    BY <2>1, <2>2 DEF NoneTwice, RowsInv
  <2>4. OnlyClaimed'
    BY <2>1, <2>2 DEF OnlyClaimed, RowsInv
  <2>5. NoneLost'
    BY <2>1 DEF NoneLost
  <2> QED BY <2>3, <2>4, <2>5 DEF RowsInv
<1>7. CASE UNCHANGED vars
  BY <1>0, <1>7 DEF vars, scanVars
<1>8. CASE Bind \/ DropPlan \/ Close
  BY <1>0, <1>8 DEF Bind, DropPlan, Close, scanVars
<1> QED
  BY <1>0, <1>1, <1>2, <1>3, <1>4, <1>5, <1>6, <1>7, <1>8, RowsClaimed, RowsFilled, RowsHanded
  DEF Next, Fill, scanVars

\* The invariant holds along every run.
LEMMA AlwaysInv == Spec => []ScanInv
<1>1. ScanInv /\ [Next]_vars => ScanInv'
  BY StepTyped, StepProjection, StepThreads, StepRows DEF ScanInv, TypeOK, RowsInv
<1> QED BY <1>1, InitInv, PTL DEF Spec

\* What table_udf_callback (table_udf.go:297-322) claims, fills and delivers are rows
\* of the source, never more than it has, and the database only knows functions that
\* nothing was wrong with.
THEOREM TypeCorrect == Spec => []TypeOK
<1>1. ScanInv => TypeOK
  BY DEF ScanInv
<1> QED BY <1>1, AlwaysInv, PTL

\* Every row that table_udf_callback (table_udf.go:297-322) hands to the query
\* reaches it once, and SetRowValue and setColumnCount (row.go:25-45,
\* table_udf.go:144-155) put each value in the column that was asked for.
THEOREM RowsWhole == Spec => []RowsArriveWhole
<1>1. ScanInv => RowsArriveWhole
  <2> SUFFICES ASSUME ScanInv, NEW t \in Thread, NEW u \in Thread, NEW i \in DOMAIN out[t], NEW j \in DOMAIN out[u]
               PROVE  /\ out[t][i].row = out[u][j].row => t = u /\ i = j
                      /\ out[t][i].row \in Row /\ \A k \in ChunkColumn : out[t][i].cells[k] = Ids[k]
    BY DEF RowsArriveWhole
  <2>1. out[t][i] \in ChunkRow
    BY DEF ScanInv, TypeOK, ScanOK
  <2>2. out[t][i].row \in Row /\ out[t][i].cells = Wanted
    BY <2>1 DEF ChunkRow
  <2> QED BY <2>2 DEF ScanInv, NoneTwice, Wanted
<1> QED BY <1>1, AlwaysInv, PTL

\* parallelRowTSWrapper and parallelChunkTSWrapper (table_source.go:97-146): a
\* source that is not parallel is called by one thread at a time.
THEOREM StaysSequential == Spec => []SequentialIsSequential
<1>1. ScanInv => SequentialIsSequential
  <2> SUFFICES ASSUME ScanInv, ~setup.parallel
               PROVE  Cardinality({t \in Thread : Busy(t) \/ claim[t] # <<>>}) <= 1
    BY DEF SequentialIsSequential
  <2> DEFINE B == {t \in Thread : Busy(t) \/ claim[t] # <<>>}
  <2>1. \A t, u \in B : t = u
    BY DEF ScanInv, ThreadsOK, Started, Busy
  <2>2. B = {} \/ \E t \in B : TRUE
    OBVIOUS
  <2>3. ASSUME NEW t \in B PROVE B = {t}
    BY <2>1
  <2>4. ASSUME NEW t \in B PROVE Cardinality(B) = 1
    <3>1. Cardinality({t}) = 1
      BY FS_Singleton
    <3> QED BY <2>3, <3>1
  <2> HIDE DEF B
  <2>5. Cardinality(B) \in {0, 1}
    BY <2>2, <2>4, FS_EmptySet
  <2> QED BY <2>5 DEF B
<1> QED BY <1>1, AlwaysInv, PTL

-----------------------------------------------------------------------------
\* Handles of different things are different.
LEMMA HandlesDiffer ==
  /\ \A f, g : FunctionHandle(f) = FunctionHandle(g) => f = g
  /\ \A t, u : LocalHandle(t) = LocalHandle(u) => t = u
  /\ \A f, t : FunctionHandle(f) # LocalHandle(t)
  /\ \A f : FunctionHandle(f) # BindHandle
  /\ \A t : BindHandle # LocalHandle(t)
BY DEF FunctionHandle, LocalHandle, BindHandle

\* What each way of registering leaves behind.
LEMMA Outcomes ==
  ASSUME RegistryOK, NEW f \in DOMAIN problem
  PROVE  /\ problem[f] = "none" => OutcomeOf(f).pinned
         /\ problem[f] # "none" /\ OutcomeOf(f).pinned /\ ~OutcomeOf(f).destroyed =>
              /\ problem[f] \in {"no function", "nil type", "connection closed"}
              /\ OutcomeOf(f).made /\ KindOf[f] \in {"table", "scalar set"}
<1>1. problem[f] \in Problems /\ KindOf[f] \in Kinds
  BY SetupTyped, RegistryAssumption
<1>2. CASE KindOf[f] = "table"
  BY <1>1, <1>2 DEF OutcomeOf, TableOutcome, Outcome, Problems
<1>3. CASE KindOf[f] = "scalar"
  BY <1>1, <1>3 DEF OutcomeOf, ScalarOutcome, ScalarPinned, ScalarMade, Outcome, Problems
<1>4. CASE KindOf[f] = "scalar set"
  BY <1>1, <1>4 DEF OutcomeOf, SetOutcome, ScalarPinned, Outcome, Problems
<1>5. CASE KindOf[f] = "replacement scan"
  BY <1>1, <1>5 DEF OutcomeOf, ReplacementOutcome, Outcome
<1> QED BY <1>1, <1>2, <1>3, <1>4, <1>5 DEF Kinds

\* A registration pins its function, or destroys what it made, or abandons both.
LEMMA RegisterOwned ==
  ASSUME RegistryOK, HandlesOwned, NEW f \in Fn, Register(f), UNCHANGED scanVars
  PROVE  HandlesOwned'
<1> DEFINE o == OutcomeOf(f)
           bad == {"no function", "nil type", "connection closed"}
<1>1. /\ f \in DOMAIN problem /\ f \notin called /\ called' = called \cup {f} /\ UNCHANGED problem
      /\ catalog' = IF problem[f] = "none" THEN catalog \cup {f} ELSE catalog
      /\ native' = IF o.made /\ ~o.destroyed THEN native \cup {f} ELSE native
      /\ handles' = IF o.pinned /\ (problem[f] = "none" \/ ~o.destroyed)
                      THEN handles \cup {FunctionHandle(f)} ELSE handles
      /\ UNCHANGED <<plan, BindHandle, Started>>
  BY DEF Register, scanVars, BindHandle, F, Started
<1>2. /\ problem[f] = "none" => o.pinned
      /\ problem[f] # "none" /\ o.pinned /\ ~o.destroyed =>
           problem[f] \in bad /\ o.made /\ KindOf[f] \in {"table", "scalar set"}
  BY <1>1, Outcomes
<1> HIDE DEF o
<1>3. FunctionHandle(f) \notin handles
  <2>1. f \notin catalog /\ f \notin Abandoned
    BY <1>1 DEF RegistryOK, Abandoned
  <2> QED BY <2>1, HandlesDiffer DEF HandlesOwned, Owned
<1>4. CASE problem[f] = "none"
  <2>1. catalog' = catalog \cup {f} /\ handles' = handles \cup {FunctionHandle(f)} /\ native \subseteq native'
    BY <1>1, <1>2, <1>4
  <2>2. Abandoned' = Abandoned
    BY <1>1, <1>4, <2>1, HandlesDiffer DEF Abandoned
  <2>3. Owned' = Owned \cup {FunctionHandle(f)}
    BY <1>1, <2>1 DEF Owned, LocalHandle, F, Started, scanVars
  <2> QED BY <2>1, <2>2, <2>3 DEF HandlesOwned
<1>5. CASE problem[f] # "none"
  <2>1. catalog' = catalog /\ native \subseteq native'
    BY <1>1, <1>5
  <2>2. Owned' = Owned
    BY <1>1, <2>1 DEF Owned, LocalHandle, F, Started, scanVars
  <2>3. CASE o.pinned /\ ~o.destroyed
    <3>1. /\ handles' = handles \cup {FunctionHandle(f)} /\ problem[f] \in bad /\ f \in native'
          /\ KindOf[f] \in {"table", "scalar set"}
      BY <1>1, <1>2, <1>5, <2>3
    <3>2. Abandoned' = Abandoned \cup {f}
      BY <1>1, <3>1, HandlesDiffer DEF Abandoned
    <3> QED BY <2>1, <2>2, <3>1, <3>2 DEF HandlesOwned
  <2>4. CASE ~(o.pinned /\ ~o.destroyed)
    <3>1. handles' = handles
      BY <1>1, <1>5, <2>4
    <3>2. Abandoned' = Abandoned
      BY <1>1, <1>3, <3>1 DEF Abandoned
    <3> QED BY <2>1, <2>2, <3>1, <3>2 DEF HandlesOwned
  <2> QED BY <2>3, <2>4
<1> QED BY <1>4, <1>5

\* The rest of the steps hand handles out and take them back.
LEMMA StepHandles ==
  ASSUME TypeOK, ThreadsOK, HandlesOwned, [Next]_vars
  PROVE  HandlesOwned'
<1> USE DEF TypeOK
<1>0. ASSUME UNCHANGED <<setup, problem, called, catalog, native, handles, plan, Started>>
      PROVE  HandlesOwned'
  BY <1>0 DEF HandlesOwned, Owned, Abandoned, BindHandle, LocalHandle, FunctionHandle, F
<1>1. ASSUME UNCHANGED <<setup, problem, called, catalog, native>>,
             \A f : FunctionHandle(f) \in handles' <=> FunctionHandle(f) \in handles
      PROVE  /\ Abandoned' = Abandoned /\ BindHandle' = BindHandle
             /\ \A t : LocalHandle(t)' = LocalHandle(t)
  BY <1>1 DEF Abandoned, BindHandle, LocalHandle, F, FunctionHandle
<1>2. CASE Bind
  <2>1. CASE UNCHANGED handles /\ plan' = "refused" /\ plan = "none"
    <3>1. Abandoned' = Abandoned /\ Owned' = Owned
      BY <1>1, <1>2, <2>1 DEF Bind, Owned, Started, LocalHandle, F
    <3> QED BY <1>2, <2>1, <3>1 DEF Bind, HandlesOwned
  <2>2. CASE handles' = handles \cup {BindHandle} /\ plan' = "bound"
    <3>1. \A f : FunctionHandle(f) \in handles' <=> FunctionHandle(f) \in handles
      BY <2>2, HandlesDiffer
    <3>2. Abandoned' = Abandoned /\ BindHandle' = BindHandle
      BY <1>1, <1>2, <3>1 DEF Bind
    <3>3. Owned' = Owned \cup {BindHandle}
      BY <1>2, <2>2, <3>2 DEF Bind, Owned, Started, LocalHandle, F
    <3> QED BY <1>2, <2>2, <3>2, <3>3 DEF Bind, HandlesOwned
  <2> QED BY <1>2, <2>1, <2>2 DEF Bind
<1>3. CASE DropPlan
  <2>1. handles' = handles \ {BindHandle}
    BY <1>3 DEF DropPlan, DeleteCallback
  <2>2. Abandoned' = Abandoned /\ Owned' = Owned \ {BindHandle}
    BY <1>1, <1>3, <2>1, HandlesDiffer DEF DropPlan, Owned, Started, LocalHandle, F
  <2> QED BY <1>3, <2>1, <2>2, HandlesDiffer DEF DropPlan, HandlesOwned
<1>4. CASE Close
  <2>1. /\ handles' = handles \ {FunctionHandle(f) : f \in catalog} /\ catalog' = {}
        /\ UNCHANGED <<problem, called, native, scanVars>>
    BY <1>4 DEF Close, CloseDatabase, DeleteCallback
  <2>2. \A f \in Abandoned : f \notin catalog
    BY DEF Abandoned, RegistryOK
  <2>3. \A f : f \notin catalog => (FunctionHandle(f) \in handles' <=> FunctionHandle(f) \in handles)
    BY <2>1, HandlesDiffer
  <2>4. \A f \in catalog : FunctionHandle(f) \notin handles' /\ f \notin Abandoned
    BY <2>1, <2>2
  <2>5. Abandoned' = Abandoned
    BY <2>1, <2>3, <2>4 DEF Abandoned
  <2>6. Owned' = Owned \ {FunctionHandle(f) : f \in catalog}
    BY <2>1, HandlesDiffer DEF Owned, Started, LocalHandle, BindHandle, F, scanVars
  <2>7. {FunctionHandle(f) : f \in Abandoned} \cap {FunctionHandle(f) : f \in catalog} = {}
    BY <2>2, HandlesDiffer
  <2>8. handles' = Owned' \cup {FunctionHandle(f) : f \in Abandoned'}
    BY <2>1, <2>5, <2>6, <2>7 DEF HandlesOwned
  <2> QED BY <2>1, <2>5, <2>8 DEF HandlesOwned
<1>5. ASSUME NEW t \in Thread, LocalInit(t) PROVE HandlesOwned'
  <2>1. handles' = handles \cup {LocalHandle(t)} /\ Started' = Started \cup {t}
    BY <1>5 DEF LocalInit, ScanOK, Started
  <2>2. \A f : FunctionHandle(f) \in handles' <=> FunctionHandle(f) \in handles
    BY <2>1, HandlesDiffer
  <2>3. Abandoned' = Abandoned /\ BindHandle' = BindHandle /\ \A u : LocalHandle(u)' = LocalHandle(u)
    BY <1>1, <1>5, <2>2 DEF LocalInit
  <2>4. Owned' = Owned \cup {LocalHandle(t)}
    BY <1>5, <2>1, <2>3 DEF LocalInit, Owned
  <2> QED BY <1>5, <2>1, <2>3, <2>4 DEF LocalInit, HandlesOwned
<1>6. CASE EndScan
  <2>1. handles' = handles \ {LocalHandle(t) : t \in Started} /\ Started' = {}
    BY <1>6 DEF EndScan, DeleteCallback, Started
  <2>2. Abandoned' = Abandoned
    BY <1>1, <1>6, <2>1, HandlesDiffer DEF EndScan
  <2>3. Owned' = Owned \ {LocalHandle(t) : t \in Started}
    BY <1>1, <1>6, <2>1, HandlesDiffer DEF EndScan, Owned
  <2>4. {FunctionHandle(f) : f \in Abandoned} \cap {LocalHandle(t) : t \in Started} = {}
    BY HandlesDiffer
  <2>5. handles' = Owned' \cup {FunctionHandle(f) : f \in Abandoned'}
    BY <2>1, <2>2, <2>3, <2>4 DEF HandlesOwned
  <2> QED BY <1>6, <2>2, <2>5 DEF EndScan, HandlesOwned
<1>7. ASSUME NEW t \in Thread, Fill(t) PROVE HandlesOwned'
  <2>1. pc[t] # "off" /\ UNCHANGED <<registry, setup, plan>>
    BY <1>7 DEF Fill, Callback, ClaimRows, FillRow, Return, ReturnError
  <2>2. pc' = pc \/ \E st \in {"ready", "filling", "failing", "ended"} : pc' = [pc EXCEPT ![t] = st]
    BY <1>7 DEF Fill, Callback, ClaimRows, FillRow, Return, ReturnError
  <2>3. Started' = Started
    BY <2>1, <2>2 DEF Started, ScanOK
  <2> QED BY <1>0, <2>1, <2>3 DEF registry
<1>8. CASE TableInit \/ Stop \/ UNCHANGED vars
  BY <1>0, <1>8 DEF TableInit, Stop, vars, scanVars, registry, Started
<1> QED
  BY <1>2, <1>3, <1>4, <1>5, <1>6, <1>7, <1>8, RegisterOwned DEF Next

\* udfBindTyped, table_udf_local_init, the registrations and
\* table_udf_delete_callback (table_udf.go:166-255, 267-279 and 325-331): every cgo
\* handle lives as long as what it was made for, and only a registration that
\* returned early leaves one behind.
THEOREM NoHandleLost == Spec => []HandlesOwned
<1>1. Init => HandlesOwned
  BY DEF Init, RegistryInit, HandlesOwned, Owned, Abandoned, Started
<1>2. ScanInv /\ HandlesOwned /\ [Next]_vars => HandlesOwned'
  BY StepHandles DEF ScanInv
<1> QED BY <1>1, <1>2, AlwaysInv, PTL DEF Spec

-----------------------------------------------------------------------------
\* What the query got, when nothing or a chunk is handed to it.
LEMMA SameDelivered ==
  ASSUME UNCHANGED out
  PROVE  Delivered' = Delivered
BY DEF Delivered

\* A callback that returns adds the rows of its chunk.
LEMMA MoreDelivered ==
  ASSUME TypeOK, NEW t \in Thread, Return(t)
  PROVE  Delivered' = Delivered \cup {chunk[t][i].row : i \in DOMAIN chunk[t]}
<1> DEFINE h == chunk[t]
           o == out[t]
<1>1. /\ h \in Seq(ChunkRow) /\ o \in Seq(ChunkRow)
      /\ Len(h) \in Nat /\ DOMAIN h = 1..Len(h) /\ Len(o) \in Nat /\ DOMAIN o = 1..Len(o)
  BY LenProperties DEF TypeOK, ScanOK
<1>2. out'[t] = o \o h /\ \A u \in Thread : u # t => out'[u] = out[u]
  BY DEF Return, Sized, TypeOK, ScanOK
<1>3. {out'[t][i].row : i \in DOMAIN out'[t]} = {o[i].row : i \in DOMAIN o} \cup {h[i].row : i \in DOMAIN h}
  <2> HIDE DEF h, o
  <2> DEFINE oh == o \o h
  <2>1. /\ oh \in Seq(ChunkRow) /\ Len(oh) = Len(o) + Len(h)
        /\ \A i \in 1..(Len(o) + Len(h)) : oh[i] = IF i <= Len(o) THEN o[i] ELSE h[i - Len(o)]
    BY <1>1, ConcatProperties
  <2>2. DOMAIN oh = 1..(Len(o) + Len(h))
    BY <2>1, LenProperties
  <2> HIDE DEF oh
  <2>3. ASSUME NEW i \in DOMAIN oh
        PROVE  oh[i].row \in {o[j].row : j \in DOMAIN o} \cup {h[j].row : j \in DOMAIN h}
    <3>1. CASE i <= Len(o)
      BY <1>1, <2>1, <2>2, <3>1
    <3>2. CASE ~(i <= Len(o))
      <4>1. i - Len(o) \in DOMAIN h /\ oh[i] = h[i - Len(o)]
        BY <1>1, <2>1, <2>2, <3>2
      <4> QED BY <4>1
    <3> QED BY <3>1, <3>2
  <2>4. ASSUME NEW j \in DOMAIN o PROVE o[j].row \in {oh[i].row : i \in DOMAIN oh}
    <3>1. j \in DOMAIN oh /\ oh[j] = o[j]
      BY <1>1, <2>1, <2>2
    <3> QED BY <3>1
  <2>5. ASSUME NEW j \in DOMAIN h PROVE h[j].row \in {oh[i].row : i \in DOMAIN oh}
    <3>1. j + Len(o) \in 1..(Len(o) + Len(h)) /\ ~(j + Len(o) <= Len(o)) /\ (j + Len(o)) - Len(o) = j
      BY <1>1
    <3>2. j + Len(o) \in DOMAIN oh /\ oh[j + Len(o)] = h[j]
      BY <2>1, <2>2, <3>1
    <3> QED BY <3>2
  <2>6. {oh[i].row : i \in DOMAIN oh} = {o[i].row : i \in DOMAIN o} \cup {h[i].row : i \in DOMAIN h}
    BY <2>3, <2>4, <2>5
  <2> QED BY <1>2, <2>6 DEF oh
<1> DEFINE D(u) == {out[u][i].row : i \in DOMAIN out[u]}
           E(u) == {out'[u][i].row : i \in DOMAIN out'[u]}
<1>4. Delivered = UNION {D(u) : u \in Thread} /\ Delivered' = UNION {E(u) : u \in Thread}
  BY DEF Delivered
<1>5. E(t) = D(t) \cup {chunk[t][i].row : i \in DOMAIN chunk[t]} /\ \A u \in Thread : u # t => E(u) = D(u)
  BY <1>2, <1>3
<1> HIDE DEF D, E
<1> QED BY <1>4, <1>5

\* A scan that ends by itself has delivered every row.
LEMMA DoneMeansAll ==
  ASSUME ScanInv, scan = "scanning", Started # {}, \A t \in Started : pc[t] = "ended"
  PROVE  next = setup.rows /\ Delivered = Row
<1> USE DEF ScanInv
<1>1. next = setup.rows
  BY DEF ThreadsOK, Started
<1>2. \A t \in Thread : claim[t] = <<>> /\ chunk[t] = <<>> /\ pc[t] # "failing"
  BY DEF ThreadsOK, Started
<1>3. ASSUME NEW r \in Row PROVE r \in Delivered
  <2>1. Somewhere(r)
    BY <1>1, <1>2 DEF NoneLost, Row
  <2>2. PICK t \in Thread : \E i \in DOMAIN out[t] : out[t][i].row = r
    BY <1>2, <2>1 DEF Somewhere
  <2> QED BY <2>2 DEF Delivered
<1>4. ASSUME NEW t \in Thread, NEW i \in DOMAIN out[t] PROVE out[t][i].row \in Row
  <2>1. out[t][i] \in ChunkRow
    BY DEF TypeOK, ScanOK
  <2> QED BY <2>1 DEF ChunkRow
<1> QED BY <1>1, <1>3, <1>4 DEF Delivered

\* The rows in a chunk were claimed and are not delivered.
LEMMA ChunkRowsAreNew ==
  ASSUME ScanInv, NEW t \in Thread
  PROVE  {chunk[t][i].row : i \in DOMAIN chunk[t]} \subseteq Row \ (((next + 1)..setup.rows) \cup Delivered)
<1> SUFFICES ASSUME NEW i \in DOMAIN chunk[t]
             PROVE  chunk[t][i].row \in Row /\ chunk[t][i].row \notin (next + 1)..setup.rows
                    /\ chunk[t][i].row \notin Delivered
  OBVIOUS
<1>1. chunk[t][i].row \in Row /\ chunk[t][i].row <= next
  <2>1. chunk[t][i] \in ChunkRow
    BY DEF ScanInv, TypeOK, ScanOK
  <2> QED BY <2>1 DEF ChunkRow, ScanInv, OnlyClaimed
<1>2. chunk[t][i].row \notin Delivered
  BY DEF Delivered, ScanInv, NoneTwice
<1> QED BY <1>1, <1>2, SetupTyped DEF Row, ScanInv, TypeOK, ScanOK

-----------------------------------------------------------------------------
\* The refinement: the first state,
LEMMA InitFeeds == Init => Feed!Init
<1> SUFFICES ASSUME Init PROVE Feed!Init OBVIOUS
<1>1. setup.rows \in Nat /\ next = 0 /\ scan = "none"
  BY QueryAssumption DEF Init
<1>2. Row \in SUBSET Nat /\ (next + 1)..setup.rows = Row
  BY <1>1 DEF Row
<1>3. Delivered = {}
  BY DEF Init, Nothing, Delivered
<1> QED BY <1>1, <1>2, <1>3 DEF Feed!Init

\* and every step, which is one of the feed or none.
LEMMA StepFeeds == ScanInv /\ [Next]_vars => [Feed!Next]_Feed!vars
<1> SUFFICES ASSUME ScanInv, [Next]_vars PROVE [Feed!Next]_Feed!vars OBVIOUS
<1> USE DEF ScanInv, TypeOK
<1> DEFINE st == CASE scan = "none" -> "ready" [] scan = "stopping" -> "scanning" [] OTHER -> scan
           left == (next + 1)..setup.rows
<1>0. ASSUME UNCHANGED <<setup, next, out>>, st' = st PROVE UNCHANGED Feed!vars
  <2>1. Row' = Row /\ left' = left /\ Delivered' = Delivered
    BY <1>0, SameDelivered DEF Row
  <2> QED BY <1>0, <2>1 DEF Feed!vars
<1>1. CASE TableInit
  <2>1. /\ st # "scanning" /\ st' = "scanning" /\ setup' = setup /\ next' = 0
    BY <1>1 DEF TableInit, ScanOK
  <2>2. Row' = Row /\ left' = Row
    BY <2>1, SetupTyped DEF Row
  <2>3. Delivered' = {}
    BY <1>1 DEF TableInit, Nothing, Delivered
  <2> HIDE DEF st, left
  <2> QED BY <2>1, <2>2, <2>3 DEF Feed!Next, Feed!Begin, st, left
<1>2. ASSUME NEW t \in Thread, ClaimRows(t) PROVE Feed!Next
  <2>1. scan \in {"scanning", "stopping"} /\ scan' = scan /\ setup' = setup /\ UNCHANGED out
    BY <1>2, FillingScans DEF ClaimRows
  <2>2. st = "scanning" /\ st' = st /\ Row' = Row /\ Delivered' = Delivered
    BY <2>1, SameDelivered DEF Row
  <2>3. next' >= next /\ next \in Nat /\ next' \in Nat /\ setup.rows \in Nat
    BY <1>2, SetupTyped, ScanAssumption DEF ClaimRows, ScanOK
  <2>4. left' = left \ ((next + 1)..next')
    BY <2>1, <2>3
  <2>5. \E some \in SUBSET left : left' = left \ some
    <3>1. left' = left \ (left \cap ((next + 1)..next'))
      BY <2>4
    <3> QED BY <3>1
  <2> QED BY <2>2, <2>5 DEF Feed!Next, Feed!Give
<1>3. ASSUME NEW t \in Thread, Return(t) PROVE Feed!Next
  <2> DEFINE some == {chunk[t][i].row : i \in DOMAIN chunk[t]}
  <2>1. scan \in {"scanning", "stopping"} /\ UNCHANGED <<scan, setup, next>>
    BY <1>3, FillingScans DEF Return
  <2>2. st = "scanning" /\ st' = st /\ Row' = Row /\ left' = left
    BY <2>1 DEF Row
  <2>3. Delivered' = Delivered \cup some /\ some \subseteq Row \ (left \cup Delivered)
    BY <1>3, MoreDelivered, ChunkRowsAreNew
  <2> HIDE DEF some, st, left
  <2>4. \E more \in SUBSET (Row \ (left \cup Delivered)) : Delivered' = Delivered \cup more
    BY <2>3
  <2> QED BY <2>2, <2>4 DEF Feed!Next, Feed!Deliver, st, left
<1>4. CASE EndScan
  <2>1. Row' = Row /\ left' = left /\ Delivered' = Delivered
    BY <1>4, SameDelivered DEF EndScan, Row
  <2>2. CASE scan = "scanning" /\ Started # {} /\ \A t \in Started : pc[t] = "ended"
    <3>1. left = {} /\ Delivered = Row
      <4>1. next = setup.rows /\ Delivered = Row
        BY <2>2, DoneMeansAll
      <4> QED BY <4>1, SetupTyped
    <3>2. st = "scanning" /\ st' = "done"
      BY <1>4, <2>2 DEF EndScan
    <3> QED BY <2>1, <3>1, <3>2 DEF Feed!Next, Feed!Done
  <2>3. CASE scan = "stopping"
    <3>1. st = "scanning" /\ st' = "stopped"
      BY <1>4, <2>3 DEF EndScan
    <3> QED BY <2>1, <3>1 DEF Feed!Next, Feed!Stop
  <2> QED BY <1>4, <2>2, <2>3 DEF EndScan
<1>5. CASE Stop \/ \E t \in Thread : ReturnError(t)
  <2>1. UNCHANGED <<setup, next, out>> /\ scan \in {"scanning", "stopping"} /\ scan' = "stopping"
    BY <1>5, FillingScans DEF Stop, ReturnError
  <2> QED BY <1>0, <2>1
<1>6. ASSUME UNCHANGED <<setup, scan, next, out>> PROVE UNCHANGED Feed!vars
  BY <1>0, <1>6
<1>7. CASE Bind \/ DropPlan \/ Close \/ UNCHANGED vars
  BY <1>6, <1>7 DEF Bind, DropPlan, Close, scanVars, vars
<1>8. ASSUME NEW t \in Thread, LocalInit(t) \/ Callback(t) \/ FillRow(t) PROVE UNCHANGED Feed!vars
  BY <1>6, <1>8 DEF LocalInit, Callback, FillRow
<1> QED BY <1>1, <1>2, <1>3, <1>4, <1>5, <1>6, <1>7, <1>8 DEF Next, Fill, scanVars

\* The callbacks of all threads (table_udf.go:258-322), for every source, division
\* of its rows into claims and chunks, and number of threads, are a feed of rows: a
\* row is given before it is delivered, delivered once, and a scan that ends by
\* itself has delivered them all.
THEOREM Implements == Spec => ImplementsRowFeed
<1> QED BY AlwaysInv, InitFeeds, StepFeeds, PTL DEF Spec, ImplementsRowFeed, Feed!Spec
=============================================================================
