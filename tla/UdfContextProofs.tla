--------------------------- MODULE UdfContextProofs ---------------------------
(***************************************************************************)
(* The context store and the contexts of the row functions, for any        *)
(* connections, plans and threads.  An entry is its connection's running   *)
(* call because only the outermost frame stores and deletes it; a row      *)
(* function's context is a call of its own plan because a plan's bind data *)
(* is written from its own connection's entry only, while a call runs.     *)
(***************************************************************************)
EXTENDS UdfContext, SequenceTheorems, TLAPS

Frame == [ctx : AnyCtx, stored : BOOLEAN]
BoundPlan == [conn : Conn \cup {Nil}, binder : BOOLEAN, ctx : AnyCtx \cup {Nil, Torn}]
Threads == Conn \X Thread

StoreType == m \in [Conn -> AnyCtx \cup {Nil}] /\ frames \in [Conn -> Seq(Frame)]

PlanType ==
  /\ plan \in [Plan -> BoundPlan] /\ calls \in [Plan -> SUBSET AnyCtx]
  /\ running \in [Conn -> Plan \cup {Nil}]
  /\ pc \in [Threads -> {"idle", "check", "load", "write", "rows", "over"}]
  /\ loaded \in [Threads -> AnyCtx \cup {Nil}]
  /\ seen \in [Threads -> AnyCtx \cup {Nil, Torn}]

\* Only the outermost frame has stored its context.
OutermostStores == \A k \in Conn : \A i \in 1..Len(frames[k]) : frames[k][i].stored <=> i = 1

StoreInv == StoreType /\ OutermostStores /\ StoreFollowsCalls

\* A connection executes a plan of its own inside a call that is the plan's.
RunsInCall ==
  \A k \in Conn : running[k] # Nil =>
    frames[k] # <<>> /\ plan[running[k]].conn = k /\ CallCtx(k) \in calls[running[k]]
IdleOutside == \A t \in Threads : running[t[1]] = Nil => pc[t] = "idle" /\ seen[t] = Nil

\* The bind data holds a context of one of the plan's calls, or half of one.
PlansKeep == \A p \in Plan : plan[p].ctx \in {Nil, Torn} \cup calls[p]

\* So do the threads.
ThreadsKeep ==
  \A t \in Threads : running[t[1]] # Nil =>
    /\ pc[t] = "write" => loaded[t] \in calls[running[t[1]]]
    /\ seen[t] \in {Nil, Torn} \cup calls[running[t[1]]]

RunInv == PlanType /\ RunsInCall /\ IdleOutside /\ PlansKeep /\ ThreadsKeep

-----------------------------------------------------------------------------
\* The first of some frames.
LEMMA HeadOf == \A s \in Seq(Frame) : Len(s) # 0 => s # <<>> /\ Head(s) = s[1]
<1> SUFFICES ASSUME NEW s \in Seq(Frame), Len(s) # 0 PROVE s # <<>> /\ Head(s) = s[1]
  OBVIOUS
<1>1. s # <<>>
  BY EmptySeq
<1> QED BY <1>1

\* What is stored for a connection is the context of its call, Background outside.
LEMMA LoadIsCall ==
  ASSUME StoreInv, NEW k \in Conn
  PROVE  /\ Load(k) = CallCtx(k) /\ CallCtx(k) \in AnyCtx
         /\ frames[k] = <<>> <=> m[k] = Nil
         /\ frames[k] # <<>> => CallCtx(k) = frames[k][1].ctx
<1>1. frames[k] \in Seq(Frame) /\ Nil \notin AnyCtx
  BY ContextAssumption DEF StoreInv, StoreType, AnyCtx
<1>2. CASE frames[k] = <<>>
  BY <1>2 DEF StoreInv, StoreFollowsCalls, Load, CallCtx, AnyCtx
<1>3. CASE frames[k] # <<>>
  <2>1. frames[k][1] \in Frame /\ Head(frames[k]) = frames[k][1]
    BY <1>1, <1>3
  <2>2. CallCtx(k) = frames[k][1].ctx /\ CallCtx(k) \in AnyCtx
    BY <1>3, <2>1 DEF CallCtx, Frame
  <2>3. m[k] = CallCtx(k)
    BY <1>3 DEF StoreInv, StoreFollowsCalls
  <2> QED BY <1>1, <1>3, <2>2, <2>3 DEF Load
<1> QED BY <1>2, <1>3

\* A new frame stores its context only where there is none.
LEMMA SetsContext ==
  ASSUME StoreInv, NEW k \in Conn, NEW x \in AnyCtx, SetContext(k, x)
  PROVE  /\ StoreInv'
         /\ \A j \in Conn : frames[j] # <<>> => frames'[j] # <<>> /\ CallCtx(j)' = CallCtx(j)
<1> DEFINE f == [ctx |-> x, stored |-> Stores(k)]
<1>1. /\ m' = [m EXCEPT ![k] = IF Stores(k) THEN x ELSE @]
      /\ frames' = [frames EXCEPT ![k] = Append(@, f)]
      /\ f \in Frame /\ f.ctx = x /\ f.stored = Stores(k) /\ Stores(k) = (frames[k] = <<>>)
      /\ frames[k] \in Seq(Frame) /\ Nil \notin AnyCtx
  BY LoadIsCall, ContextAssumption DEF SetContext, Frame, Stores, StoreInv, StoreType, AnyCtx
<1> HIDE DEF f
<1>2. /\ frames'[k] = Append(frames[k], f) /\ frames'[k] \in Seq(Frame)
      /\ \A j \in Conn : j # k => frames'[j] = frames[j] /\ m'[j] = m[j]
      /\ m'[k] = IF frames[k] = <<>> THEN x ELSE m[k]
  BY <1>1, AppendProperties DEF StoreInv, StoreType
<1>3. StoreType'
  BY <1>1, <1>2 DEF StoreInv, StoreType
<1>4. /\ Len(frames'[k]) = Len(frames[k]) + 1 /\ frames'[k][Len(frames[k]) + 1] = f
      /\ \A i \in 1..Len(frames[k]) : frames'[k][i] = frames[k][i]
      /\ Len(frames[k]) \in Nat /\ (frames[k] = <<>> <=> Len(frames[k]) = 0)
  BY <1>1, <1>2, AppendProperties, LenProperties, EmptySeq
<1>5. OutermostStores'
  <2> SUFFICES ASSUME NEW j \in Conn, NEW i \in 1..Len(frames'[j])
               PROVE  frames'[j][i].stored <=> i = 1
    BY DEF OutermostStores
  <2>1. CASE j # k
    BY <1>2, <2>1 DEF StoreInv, OutermostStores
  <2>2. CASE j = k /\ i \in 1..Len(frames[k])
    BY <1>4, <2>2 DEF StoreInv, OutermostStores
  <2>3. CASE j = k /\ i = Len(frames[k]) + 1
    <3>1. f.stored <=> Len(frames[k]) = 0
      BY <1>1, <1>4, Zenon
    <3>2. Len(frames[k]) = 0 <=> i = 1
      BY <1>4, <2>3
    <3>3. frames'[j][i] = f
      BY <1>4, <2>3
    <3> QED BY <3>1, <3>2, <3>3, Zenon
  <2>4. j = k => i \in 1..Len(frames[k]) \/ i = Len(frames[k]) + 1
    <3>1. j = k => i \in 1..(Len(frames[k]) + 1)
      BY <1>4
    <3> QED BY <1>4, <3>1
  <2> QED BY <2>1, <2>2, <2>3, <2>4
<1>6. frames'[k] # <<>> /\ Head(frames'[k]) = frames'[k][1]
  <2>1. Len(frames'[k]) # 0
    BY <1>4
  <2> QED BY <1>2, <2>1, HeadOf
<1>7. \A j \in Conn : frames[j] # <<>> => frames'[j] # <<>> /\ CallCtx(j)' = CallCtx(j)
  <2> SUFFICES ASSUME NEW j \in Conn, frames[j] # <<>>
               PROVE  frames'[j] # <<>> /\ CallCtx(j)' = CallCtx(j)
    OBVIOUS
  <2>1. CASE j # k
    BY <1>2, <2>1 DEF CallCtx
  <2>2. CASE j = k
    <3>1. frames'[k][1] = frames[k][1]
      BY <1>4, <2>2
    <3>2. CallCtx(k)' = frames'[k][1].ctx
      BY <1>6 DEF CallCtx
    <3> QED BY <1>6, <2>2, <3>1, <3>2, LoadIsCall
  <2> QED BY <2>1, <2>2
<1>8. StoreFollowsCalls'
  <2> SUFFICES ASSUME NEW j \in Conn
               PROVE  m'[j] = IF frames'[j] = <<>> THEN Nil ELSE CallCtx(j)'
    BY DEF StoreFollowsCalls
  <2>1. CASE j # k
    BY <1>2, <2>1 DEF StoreInv, StoreFollowsCalls, CallCtx
  <2>2. CASE j = k /\ frames[k] # <<>>
    BY <1>2, <1>7, <2>2 DEF StoreInv, StoreFollowsCalls
  <2>3. CASE j = k /\ frames[k] = <<>>
    <3>1. CallCtx(k)' = x
      BY <1>1, <1>4, <1>6, <2>3 DEF CallCtx
    <3> QED BY <1>2, <1>6, <2>3, <3>1
  <2> QED BY <2>1, <2>2, <2>3
<1> QED BY <1>3, <1>5, <1>7, <1>8 DEF StoreInv

\* The innermost frame is taken away, and the entry with the outermost.
LEMMA LeavesContext ==
  ASSUME StoreInv, NEW k \in Conn, Leave(k)
  PROVE  /\ StoreInv'
         /\ \A j \in Conn : j # k => frames'[j] = frames[j]
<1> DEFINE n == Len(frames[k])
<1>1. /\ frames[k] # <<>> /\ frames[k] \in Seq(Frame)
      /\ m' = [m EXCEPT ![k] = IF frames[k][n].stored THEN Nil ELSE @]
      /\ frames' = [frames EXCEPT ![k] = SubSeq(@, 1, n - 1)]
  BY DEF Leave, StoreInv, StoreType
<1>2. n \in Nat \ {0}
  BY <1>1, LenProperties, EmptySeq
<1>3. frames[k][n].stored <=> n = 1
  <2>1. n \in 1..Len(frames[k])
    BY <1>2
  <2> QED BY <2>1 DEF StoreInv, OutermostStores
<1>4. /\ frames'[k] = SubSeq(frames[k], 1, n - 1) /\ frames'[k] \in Seq(Frame)
      /\ Len(frames'[k]) = n - 1 /\ \A i \in 1..(n - 1) : frames'[k][i] = frames[k][i]
      /\ \A j \in Conn : j # k => frames'[j] = frames[j] /\ m'[j] = m[j]
      /\ m'[k] = IF n = 1 THEN Nil ELSE m[k]
  <2>1. /\ SubSeq(frames[k], 1, n - 1) \in Seq(Frame) /\ Len(SubSeq(frames[k], 1, n - 1)) = n - 1
        /\ \A i \in 1..(n - 1) : SubSeq(frames[k], 1, n - 1)[i] = frames[k][i]
    BY <1>1, <1>2
  <2> QED BY <1>1, <1>3, <2>1 DEF StoreInv, StoreType
<1> HIDE DEF n
<1>5. StoreType'
  BY <1>1, <1>4, ContextAssumption DEF StoreInv, StoreType
<1>6. OutermostStores'
  <2> SUFFICES ASSUME NEW j \in Conn, NEW i \in 1..Len(frames'[j])
               PROVE  frames'[j][i].stored <=> i = 1
    BY DEF OutermostStores
  <2>1. CASE j # k
    BY <1>4, <2>1 DEF StoreInv, OutermostStores
  <2>2. CASE j = k
    <3>1. i \in 1..(n - 1) /\ i \in 1..Len(frames[k])
      BY <1>2, <1>4, <2>2 DEF n
    <3> QED BY <1>4, <2>2, <3>1 DEF StoreInv, OutermostStores
  <2> QED BY <2>1, <2>2
<1>7. StoreFollowsCalls'
  <2> SUFFICES ASSUME NEW j \in Conn
               PROVE  m'[j] = IF frames'[j] = <<>> THEN Nil ELSE CallCtx(j)'
    BY DEF StoreFollowsCalls
  <2>1. CASE j # k
    BY <1>4, <2>1 DEF StoreInv, StoreFollowsCalls, CallCtx
  <2>2. CASE j = k /\ n = 1
    <3>1. frames'[k] = <<>>
      BY <1>4, <2>2, EmptySeq
    <3> QED BY <1>4, <2>2, <3>1
  <2>3. CASE j = k /\ n # 1
    <3>1. frames'[k] # <<>> /\ Head(frames'[k]) = frames[k][1]
      <4>1. n - 1 \in Nat /\ 1 \in 1..(n - 1)
        BY <1>2, <2>3
      <4>2. Len(frames'[k]) # 0 /\ frames'[k][1] = frames[k][1]
        BY <1>4, <4>1
      <4>3. frames'[k] # <<>> /\ Head(frames'[k]) = frames'[k][1]
        BY <1>4, <4>2, HeadOf
      <4> QED BY <4>2, <4>3
    <3>2. CallCtx(k)' = CallCtx(k) /\ m[k] = CallCtx(k)
      BY <1>1, <3>1, LoadIsCall DEF CallCtx, StoreInv, StoreFollowsCalls
    <3> QED BY <1>4, <2>3, <3>1, <3>2
  <2> QED BY <2>1, <2>2, <2>3
<1> QED BY <1>4, <1>5, <1>6, <1>7 DEF StoreInv

\* No other step touches the store.
LEMMA StepStores == StoreInv /\ [Next]_vars => StoreInv'
<1> SUFFICES ASSUME StoreInv, [Next]_vars PROVE StoreInv' OBVIOUS
<1>1. ASSUME UNCHANGED <<m, frames>> PROVE StoreInv'
  BY <1>1 DEF StoreInv, StoreType, OutermostStores, StoreFollowsCalls, CallCtx
<1>2. ASSUME NEW k \in Conn, NEW x \in AnyCtx, Begin(k, x) PROVE StoreInv'
  BY <1>2, SetsContext DEF Begin
<1>3. ASSUME NEW k \in Conn, Nest(k) PROVE StoreInv'
  BY <1>3, SetsContext, LoadIsCall DEF Nest
<1>4. ASSUME NEW k \in Conn, Leave(k) PROVE StoreInv'
  BY <1>4, LeavesContext
<1>5. ASSUME NEW x \in Ctx, Cancel(x) PROVE StoreInv'
  BY <1>1, <1>5 DEF Cancel
<1>6. ASSUME NEW k \in Conn, NEW p \in Plan, Bind(k, p) \/ Execute(k, p) PROVE StoreInv'
  BY <1>1, <1>6 DEF Bind, Execute
<1>7. ASSUME NEW p \in Plan, NEW q \in Plan, Copy(p, q) PROVE StoreInv'
  BY <1>1, <1>7 DEF Copy
<1>8. ASSUME NEW k \in Conn, ExecuteDone(k) PROVE StoreInv'
  BY <1>1, <1>8 DEF ExecuteDone
<1>9. ASSUME NEW t \in Conn \X Thread, CheckCtx(t) \/ LoadCtx(t) \/ WriteCtx(t) \/ CallRow(t)
      PROVE  StoreInv'
  BY <1>1, <1>9 DEF CheckCtx, LoadCtx, WriteCtx, CallRow
<1>10. CASE UNCHANGED vars
  BY <1>1, <1>10 DEF vars
<1> QED BY <1>2, <1>3, <1>4, <1>5, <1>6, <1>7, <1>8, <1>9, <1>10 DEF Next

-----------------------------------------------------------------------------
\* Steps that leave the plans and the threads alone, and the frames of every
\* connection that executes.
LEMMA RunKept ==
  ASSUME RunInv, UNCHANGED <<plan, running, threads, calls>>,
         \A k \in Conn : running[k] # Nil /\ frames[k] # <<>> =>
           frames'[k] # <<>> /\ CallCtx(k)' = CallCtx(k)
  PROVE  RunInv'
<1>1. PlanType' /\ PlansKeep' /\ ThreadsKeep' /\ IdleOutside'
  BY DEF threads, RunInv, PlanType, PlansKeep, ThreadsKeep, IdleOutside
<1>2. RunsInCall'
  BY DEF RunInv, RunsInCall
<1> QED BY <1>1, <1>2 DEF RunInv

\* Steps of driver calls and users: a connection that executes is inside its call.
LEMMA CallStep ==
  ASSUME StoreInv, RunInv,
         \/ \E x \in Ctx : Cancel(x)
         \/ \E k \in Conn : (\E x \in AnyCtx : Begin(k, x)) \/ Nest(k) \/ Leave(k)
         \/ UNCHANGED vars
  PROVE  RunInv'
<1>1. ASSUME NEW x \in Ctx, Cancel(x) PROVE RunInv'
  BY <1>1, RunKept DEF Cancel, CallCtx
<1>2. ASSUME NEW k \in Conn, NEW x \in AnyCtx, Begin(k, x) PROVE RunInv'
  BY <1>2, RunKept, SetsContext DEF Begin
<1>3. ASSUME NEW k \in Conn, Nest(k) PROVE RunInv'
  BY <1>3, RunKept, SetsContext, LoadIsCall DEF Nest
<1>4. ASSUME NEW k \in Conn, Leave(k) PROVE RunInv'
  <2>1. running[k] = Nil /\ UNCHANGED <<plan, running, threads, calls>>
    BY <1>4 DEF Leave
  <2>2. \A j \in Conn : j # k => frames'[j] = frames[j]
    BY <1>4, LeavesContext
  <2> QED BY <2>1, <2>2, RunKept DEF CallCtx
<1>5. CASE UNCHANGED vars
  BY <1>5, RunKept DEF vars, threads, CallCtx
<1> QED BY <1>1, <1>2, <1>3, <1>4, <1>5

\* A plan is bound with the context of the call, or copied in it: no connection
\* executes it yet.
LEMMA Binds ==
  ASSUME RunInv, NEW p \in Plan, plan[p].conn = Nil, NEW b \in BoundPlan, NEW S \in SUBSET AnyCtx,
         b.ctx \in {Nil, Torn} \cup S,
         plan' = [plan EXCEPT ![p] = b], calls' = [calls EXCEPT ![p] = S],
         UNCHANGED <<frames, running, threads>>
  PROVE  RunInv'
<1>1. \A k \in Conn : running[k] # p
  BY ContextAssumption DEF RunInv, RunsInCall
<1>2. /\ plan'[p] = b /\ calls'[p] = S
      /\ \A q \in Plan : q # p => plan'[q] = plan[q] /\ calls'[q] = calls[q]
  BY DEF RunInv, PlanType
<1>3. PlanType'
  BY DEF RunInv, PlanType, threads
<1>4. \A k \in Conn : running[k] # Nil =>
        running[k] \in Plan /\ plan'[running[k]] = plan[running[k]] /\ calls'[running[k]] = calls[running[k]]
  BY <1>1, <1>2 DEF RunInv, PlanType
<1>5. RunsInCall'
  BY <1>4 DEF RunInv, RunsInCall, CallCtx
<1>6. IdleOutside'
  BY DEF RunInv, IdleOutside, threads
<1>7. PlansKeep'
  BY <1>2 DEF RunInv, PlansKeep
<1>8. ThreadsKeep'
  BY <1>4 DEF RunInv, ThreadsKeep, threads, Threads
<1> QED BY <1>3, <1>5, <1>6, <1>7, <1>8 DEF RunInv

\* A bind of a function keeps what is known of the passes in flight.
LEMMA BindStep ==
  ASSUME StoreInv, RunInv, NEW k \in Conn, NEW p \in Plan, Bind(k, p)
  PROVE  RunInv'
<1>1. PICK b \in BOOLEAN :
        plan' = [plan EXCEPT ![p] = [conn |-> k, binder |-> b, ctx |-> IF b THEN Load(k) ELSE Nil]]
  BY DEF Bind
<1> DEFINE bound == [conn |-> k, binder |-> b, ctx |-> IF b THEN Load(k) ELSE Nil]
           S == {CallCtx(k)}
<1>2. Load(k) = CallCtx(k) /\ CallCtx(k) \in AnyCtx
  BY LoadIsCall
<1>3. bound \in BoundPlan /\ bound.ctx \in {Nil, Torn} \cup S /\ S \in SUBSET AnyCtx
  BY <1>2 DEF BoundPlan
<1>4. /\ plan[p].conn = Nil /\ plan' = [plan EXCEPT ![p] = bound] /\ calls' = [calls EXCEPT ![p] = S]
      /\ UNCHANGED <<frames, running, threads>>
  BY <1>1 DEF Bind
<1> HIDE DEF bound, S
<1> QED BY <1>3, <1>4, Binds

\* So does a copy of its bind data,
LEMMA CopyStep ==
  ASSUME StoreInv, RunInv, NEW p \in Plan, NEW q \in Plan, Copy(p, q)
  PROVE  RunInv'
<1> DEFINE S == calls[p] \cup {CallCtx(plan[p].conn)}
<1>1. /\ plan[p] \in BoundPlan /\ plan[p].conn \in Conn /\ plan[q].conn = Nil
      /\ plan' = [plan EXCEPT ![q] = plan[p]] /\ calls' = [calls EXCEPT ![q] = S]
      /\ UNCHANGED <<frames, running, threads>>
  BY DEF Copy, RunInv, PlanType, BoundPlan
<1>2. CallCtx(plan[p].conn) \in AnyCtx
  BY <1>1, LoadIsCall
<1>3. S \in SUBSET AnyCtx /\ plan[p].ctx \in {Nil, Torn} \cup S
  BY <1>2 DEF RunInv, PlanType, PlansKeep
<1> HIDE DEF S
<1> QED BY <1>1, <1>3, Binds

\* The plan's executions.
LEMMA ExecuteStep ==
  ASSUME StoreInv, RunInv, NEW k \in Conn, NEW p \in Plan, Execute(k, p)
  PROVE  RunInv'
<1>1. /\ frames[k] # <<>> /\ running[k] = Nil /\ plan[p].conn = k
      /\ running' = [running EXCEPT ![k] = p]
      /\ pc' = [t \in Threads |-> IF t[1] = k THEN "check" ELSE pc[t]]
      /\ calls' = [calls EXCEPT ![p] = @ \cup {CallCtx(k)}]
      /\ UNCHANGED <<frames, plan, loaded, seen>>
  BY DEF Execute, Threads
<1>2. CallCtx(k) \in AnyCtx /\ p # Nil
  BY LoadIsCall, ContextAssumption
<1>3. /\ running'[k] = p /\ \A j \in Conn : j # k => running'[j] = running[j]
      /\ calls'[p] = calls[p] \cup {CallCtx(k)}
      /\ \A q \in Plan : calls[q] \subseteq calls'[q]
  BY <1>1 DEF RunInv, PlanType
<1>4. PlanType'
  BY <1>1, <1>2 DEF RunInv, PlanType
<1>5. RunsInCall'
  <2> SUFFICES ASSUME NEW j \in Conn, running'[j] # Nil
               PROVE  /\ frames'[j] # <<>> /\ plan'[running'[j]].conn = j
                      /\ CallCtx(j)' \in calls'[running'[j]]
    BY DEF RunsInCall
  <2>1. CallCtx(j)' = CallCtx(j)
    BY <1>1 DEF CallCtx
  <2>2. CASE j = k
    BY <1>1, <1>3, <2>1, <2>2
  <2>3. CASE j # k
    BY <1>1, <1>3, <2>1, <2>3 DEF RunInv, RunsInCall, PlanType
  <2> QED BY <2>2, <2>3
<1>6. IdleOutside'
  BY <1>1, <1>2, <1>3 DEF RunInv, IdleOutside, Threads
<1>7. PlansKeep'
  BY <1>1, <1>3 DEF RunInv, PlansKeep
<1>8. ThreadsKeep'
  <2> SUFFICES ASSUME NEW t \in Threads, running'[t[1]] # Nil
               PROVE  /\ pc'[t] = "write" => loaded'[t] \in calls'[running'[t[1]]]
                      /\ seen'[t] \in {Nil, Torn} \cup calls'[running'[t[1]]]
    BY DEF ThreadsKeep
  <2>0. t[1] \in Conn
    BY DEF Threads
  <2>1. CASE t[1] = k
    <3>1. pc'[t] = "check" /\ seen'[t] = Nil
      BY <1>1, <2>1 DEF RunInv, IdleOutside
    <3> QED BY <3>1
  <2>2. CASE t[1] # k
    <3>1. /\ running'[t[1]] = running[t[1]] /\ running[t[1]] \in Plan /\ pc'[t] = pc[t]
          /\ loaded'[t] = loaded[t] /\ seen'[t] = seen[t]
      BY <1>1, <1>3, <2>0, <2>2 DEF RunInv, PlanType
    <3> QED BY <1>3, <3>1 DEF RunInv, ThreadsKeep
  <2> QED BY <2>1, <2>2
<1> QED BY <1>4, <1>5, <1>6, <1>7, <1>8 DEF RunInv

\* the end of a call,
LEMMA DoneStep ==
  ASSUME StoreInv, RunInv, NEW k \in Conn, ExecuteDone(k)
  PROVE  RunInv'
<1>1. /\ running' = [running EXCEPT ![k] = Nil]
      /\ pc' = [t \in Threads |-> IF t[1] = k THEN "idle" ELSE pc[t]]
      /\ seen' = [t \in Threads |-> IF t[1] = k THEN Nil ELSE seen[t]]
      /\ UNCHANGED <<frames, plan, loaded, calls>>
  BY DEF ExecuteDone, Threads
<1>2. running'[k] = Nil /\ \A j \in Conn : j # k => running'[j] = running[j]
  BY <1>1 DEF RunInv, PlanType
<1>3. PlanType'
  BY <1>1 DEF RunInv, PlanType
<1>4. RunsInCall'
  BY <1>1, <1>2 DEF RunInv, RunsInCall, CallCtx
<1>5. IdleOutside'
  BY <1>1, <1>2 DEF RunInv, IdleOutside, Threads
<1>6. PlansKeep'
  BY <1>1 DEF RunInv, PlansKeep
<1>7. ThreadsKeep'
  BY <1>1, <1>2 DEF RunInv, ThreadsKeep, Threads
<1> QED BY <1>3, <1>4, <1>5, <1>6, <1>7 DEF RunInv

-----------------------------------------------------------------------------
\* A thread in the callback: its connection runs a plan, in a call of the plan's.
LEMMA InCallback ==
  ASSUME StoreInv, RunInv, NEW t \in Threads, pc[t] # "idle"
  PROVE  /\ t[1] \in Conn /\ running[t[1]] \in Plan /\ running[t[1]] # Nil
         /\ Info(t) = plan[running[t[1]]] /\ Info(t).conn = t[1] /\ Info(t) \in BoundPlan
         /\ Load(t[1]) \in calls[running[t[1]]] /\ Load(t[1]) \in AnyCtx
         /\ Info(t).ctx \in {Nil, Torn} \cup calls[running[t[1]]]
<1>1. t[1] \in Conn /\ running[t[1]] # Nil
  BY DEF Threads, RunInv, IdleOutside
<1>2. running[t[1]] \in Plan /\ plan[running[t[1]]] \in BoundPlan
  BY <1>1 DEF RunInv, PlanType
<1>3. /\ plan[running[t[1]]].conn = t[1] /\ CallCtx(t[1]) \in calls[running[t[1]]]
      /\ plan[running[t[1]]].ctx \in {Nil, Torn} \cup calls[running[t[1]]]
  BY <1>1, <1>2 DEF RunInv, RunsInCall, PlansKeep
<1> QED BY <1>1, <1>2, <1>3, LoadIsCall DEF Info

\* What a thread does to the rest: it writes a context of the plan's calls, or half
\* of one, and keeps such ones itself.
LEMMA ThreadKept ==
  ASSUME StoreInv, RunInv, NEW t \in Threads, pc[t] # "idle",
         NEW c, c \in AnyCtx \cup {Nil, Torn}, c \in {Nil, Torn} \cup calls[running[t[1]]],
         plan' = [plan EXCEPT ![running[t[1]]].ctx = c],
         pc' \in [Threads -> {"idle", "check", "load", "write", "rows", "over"}],
         loaded' \in [Threads -> AnyCtx \cup {Nil}], seen' \in [Threads -> AnyCtx \cup {Nil, Torn}],
         \A u \in Threads : u # t => pc'[u] = pc[u] /\ loaded'[u] = loaded[u] /\ seen'[u] = seen[u],
         pc'[t] = "write" => loaded'[t] \in calls[running[t[1]]],
         seen'[t] \in {Nil, Torn} \cup calls[running[t[1]]],
         UNCHANGED <<frames, running, calls>>
  PROVE  RunInv'
<1>1. /\ t[1] \in Conn /\ running[t[1]] \in Plan /\ running[t[1]] # Nil
      /\ plan[running[t[1]]] \in BoundPlan
  BY InCallback
<1>2. /\ plan'[running[t[1]]] = [plan[running[t[1]]] EXCEPT !.ctx = c]
      /\ \A p \in Plan : p # running[t[1]] => plan'[p] = plan[p]
      /\ plan' \in [Plan -> BoundPlan] /\ plan'[running[t[1]]].ctx = c
      /\ \A p \in Plan : plan'[p].conn = plan[p].conn
  BY <1>1 DEF RunInv, PlanType, BoundPlan
<1>3. PlanType'
  BY <1>2 DEF RunInv, PlanType
<1>4. RunsInCall'
  BY <1>2 DEF RunInv, RunsInCall, PlanType, CallCtx
<1>5. IdleOutside'
  <2> SUFFICES ASSUME NEW u \in Threads, running'[u[1]] = Nil
               PROVE  pc'[u] = "idle" /\ seen'[u] = Nil
    BY DEF IdleOutside
  <2>1. u # t
    BY <1>1
  <2> QED BY <2>1 DEF RunInv, IdleOutside
<1>6. PlansKeep'
  BY <1>2 DEF RunInv, PlansKeep
<1>7. ThreadsKeep'
  <2> SUFFICES ASSUME NEW u \in Threads, running'[u[1]] # Nil
               PROVE  /\ pc'[u] = "write" => loaded'[u] \in calls'[running'[u[1]]]
                      /\ seen'[u] \in {Nil, Torn} \cup calls'[running'[u[1]]]
    BY DEF ThreadsKeep
  <2>1. CASE u = t
    BY <2>1
  <2>2. CASE u # t
    BY <2>2 DEF RunInv, ThreadsKeep
  <2> QED BY <2>1, <2>2
<1> QED BY <1>3, <1>4, <1>5, <1>6, <1>7 DEF RunInv

\* and every step of a thread.
LEMMA ThreadStep ==
  ASSUME StoreInv, RunInv, NEW t \in Threads,
         CheckCtx(t) \/ LoadCtx(t) \/ WriteCtx(t) \/ CallRow(t)
  PROVE  RunInv'
<1> DEFINE p == running[t[1]]
<1>1. /\ pc[t] \in {"check", "load", "write", "rows"} /\ pc[t] # "idle"
      /\ UNCHANGED <<frames, running, calls>>
  BY DEF CheckCtx, LoadCtx, WriteCtx, CallRow
<1>2. /\ t[1] \in Conn /\ p \in Plan /\ p # Nil /\ Info(t) = plan[p] /\ plan[p].conn = t[1]
      /\ plan[p] \in BoundPlan /\ Load(t[1]) \in calls[p] /\ Load(t[1]) \in AnyCtx
      /\ plan[p].ctx \in {Nil, Torn} \cup calls[p] /\ plan[p].ctx \in AnyCtx \cup {Nil, Torn}
  BY <1>1, InCallback DEF BoundPlan
<1>3. /\ plan \in [Plan -> BoundPlan]
      /\ pc \in [Threads -> {"idle", "check", "load", "write", "rows", "over"}]
      /\ loaded \in [Threads -> AnyCtx \cup {Nil}] /\ seen \in [Threads -> AnyCtx \cup {Nil, Torn}]
      /\ pc[t] = "write" => loaded[t] \in calls[p]
      /\ seen[t] \in {Nil, Torn} \cup calls[p]
  BY <1>2 DEF RunInv, PlanType, ThreadsKeep
<1>4. plan = [plan EXCEPT ![p].ctx = plan[p].ctx]
  BY <1>2, <1>3 DEF BoundPlan
<1>5. CASE CheckCtx(t)
  <2>1. PICK l \in {"load", "over", "rows"} : pc' = [pc EXCEPT ![t] = l]
    BY <1>5 DEF CheckCtx, Goto
  <2>2. UNCHANGED <<plan, loaded, seen>>
    BY <1>5 DEF CheckCtx
  <2> QED BY <1>1, <1>2, <1>3, <1>4, <2>1, <2>2, ThreadKept
<1>6. CASE LoadCtx(t)
  <2>1. /\ pc' = [pc EXCEPT ![t] = "write"] /\ loaded' = [loaded EXCEPT ![t] = Load(t[1])]
        /\ plan' = [plan EXCEPT ![p].ctx = IF @ = Nil THEN Torn ELSE @] /\ seen' = seen
    BY <1>2, <1>6 DEF LoadCtx, Goto
  <2> DEFINE c == IF plan[p].ctx = Nil THEN Torn ELSE plan[p].ctx
  <2>2. plan' = [plan EXCEPT ![p].ctx = c] /\ c \in {Nil, Torn} \cup calls[p] /\ c \in AnyCtx \cup {Nil, Torn}
    BY <1>2, <1>3, <2>1
  <2> HIDE DEF c
  <2> QED BY <1>1, <1>2, <1>3, <2>1, <2>2, ThreadKept
<1>7. CASE WriteCtx(t)
  <2>1. /\ pc[t] = "write" /\ pc' = [pc EXCEPT ![t] = "rows"] /\ loaded' = [loaded EXCEPT ![t] = Nil]
        /\ plan' = [plan EXCEPT ![p].ctx = loaded[t]] /\ seen' = seen
    BY <1>7 DEF WriteCtx, Goto
  <2>2. loaded[t] \in calls[p] /\ loaded[t] \in AnyCtx \cup {Nil, Torn}
    BY <1>3, <2>1
  <2> QED BY <1>1, <1>2, <1>3, <2>1, <2>2, ThreadKept
<1>8. CASE CallRow(t)
  <2>1. PICK l \in {"rows", "over"} : pc' = [pc EXCEPT ![t] = l]
    BY <1>8 DEF CallRow, Goto
  <2>2. seen' = [seen EXCEPT ![t] = plan[p].ctx] /\ UNCHANGED <<plan, loaded>>
    BY <1>2, <1>8 DEF CallRow
  <2> QED BY <1>1, <1>2, <1>3, <1>4, <2>1, <2>2, ThreadKept
<1> QED BY <1>5, <1>6, <1>7, <1>8

\* Every step keeps it.
LEMMA StepRuns == StoreInv /\ RunInv /\ [Next]_vars => RunInv'
<1> SUFFICES ASSUME StoreInv, RunInv, [Next]_vars PROVE RunInv' OBVIOUS
<1>1. \A t \in Conn \X Thread : CheckCtx(t) \/ LoadCtx(t) \/ WriteCtx(t) \/ CallRow(t) => RunInv'
  BY ThreadStep DEF Threads
<1> QED BY <1>1, CallStep, BindStep, CopyStep, ExecuteStep, DoneStep DEF Next

-----------------------------------------------------------------------------
\* Nothing is stored, bound or executed at first.
LEMMA InitContext == Init => StoreInv /\ RunInv
<1> SUFFICES ASSUME Init PROVE StoreInv /\ RunInv OBVIOUS
<1>1. StoreInv
  BY EmptySeq DEF Init, StoreInv, StoreType, OutermostStores, StoreFollowsCalls
<1>2. PlanType
  BY DEF Init, PlanType, BoundPlan, Threads
<1>3. RunsInCall /\ IdleOutside /\ PlansKeep /\ ThreadsKeep
  BY DEF Init, RunsInCall, IdleOutside, PlansKeep, ThreadsKeep, Threads
<1> QED BY <1>1, <1>2, <1>3 DEF RunInv

\* It always holds.
LEMMA AlwaysInContext == Spec => [](StoreInv /\ RunInv)
<1>1. StoreInv /\ RunInv /\ [Next]_vars => (StoreInv /\ RunInv)'
  BY StepStores, StepRuns
<1> QED BY <1>1, InitContext, PTL DEF Spec

\* context.go:36-49 and connection.go:321-324: with any number of connections and
\* calls, the entry of a connection is the context of the call it runs, whatever
\* calls are made inside it, and there is none between calls.
THEOREM StoreHoldsTheCall == Spec => []StoreFollowsCalls
<1>1. StoreInv => StoreFollowsCalls
  BY DEF StoreInv
<1> QED BY <1>1, AlwaysInContext, PTL

\* scalar_udf.go:114-135 and 368-392: for any number of plans, copies and threads,
\* a row function never gets the context of another plan's call, though the plan
\* keeps its context from one call to the next.
THEOREM RowsGetAPlansCall == Spec => []ContextOfAPlansCall
<1>1. ASSUME RunInv PROVE ContextOfAPlansCall
  <2> SUFFICES ASSUME NEW k \in Conn, NEW t \in Thread, running[k] # Nil,
                      seen[<<k, t>>] \notin {Nil, Torn}
               PROVE  seen[<<k, t>>] \in calls[running[k]]
    BY DEF ContextOfAPlansCall
  <2>1. <<k, t>> \in Threads /\ <<k, t>>[1] = k
    BY DEF Threads
  <2> QED BY <1>1, <2>1 DEF RunInv, ThreadsKeep
<1> QED BY <1>1, AlwaysInContext, PTL
=============================================================================
