-------------------------- MODULE ArrowReaderProofs --------------------------
(***************************************************************************)
(* The Arrow reader's safety for any number of goroutines that share it.   *)
(* The invariant counts the references: refCount is the number of workers  *)
(* between a Retain that counted and their Release, plus the owner's       *)
(* reference; with a skipped Retain it is only bounded by that.            *)
(***************************************************************************)
EXTENDS ArrowReader, FiniteSetTheorems, TLAPS

\* The workers whose reference was counted, and the owner's reference.
Counted == {w \in Worker : worker[w] \notin {"start", "done"}} \ skipped
OwnerRef == IF owner \in {"wait", "asked"} THEN 1 ELSE 0

\* The workers start after the query, and the owner goes on after the workers.
Phases ==
  /\ owner \in {"query", "failed"} =>
       /\ refCount = 0 /\ ~closed
       /\ \A w \in Worker : worker[w] = "start"
  /\ owner \in {"asked", "released"} => \A w \in Worker : worker[w] = "done"
  /\ \A w \in skipped : worker[w] # "start"

\* The reader is closed with its last reference, and has its handles until then.
Handles ==
  /\ ~misuse
  /\ closed => refCount = 0 /\ handles = {} /\ owner \notin {"query", "failed"}
  /\ owner \in {"wait", "asked", "released"} /\ ~closed =>
       refCount > 0 /\ handles = Handle

Counting ==
  /\ refCount <= Cardinality(Counted) + OwnerRef
  /\ skipped = {} => refCount = Cardinality(Counted) + OwnerRef

ReaderInv == TypeOK /\ Phases /\ Handles /\ OnlyCurrentBatch /\ Counting

-----------------------------------------------------------------------------
\* There are finitely many goroutines to count.
LEMMA CountedFinite ==
  /\ IsFiniteSet(Worker) /\ Cardinality(Worker) \in Nat
  /\ IsFiniteSet(Counted) /\ Cardinality(Counted) \in 0..Cardinality(Worker)
<1>1. Counted \in SUBSET Worker
  BY DEF Counted
<1>2. IsFiniteSet(Worker) /\ Cardinality(Worker) \in Nat
  BY ReaderAssumption, FS_CardinalityType
<1>3. IsFiniteSet(Counted) /\ Cardinality(Counted) <= Cardinality(Worker)
  BY <1>1, <1>2, FS_Subset
<1>4. Cardinality(Counted) \in Nat
  BY <1>3, FS_CardinalityType
<1> QED BY <1>2, <1>3, <1>4

\* Before QueryContext there is nothing to keep.
LEMMA InitInv == Init => ReaderInv
<1> SUFFICES ASSUME Init PROVE ReaderInv OBVIOUS
<1>1. TypeOK
  <2>1. 0 \in 0..(Cardinality(Worker) + 1) /\ 0 \in 0..Chunks
    BY CountedFinite, ReaderAssumption
  <2>2. worker \in [Worker -> {"start", "next", "check", "record", "release", "done"}]
    BY DEF Init
  <2> QED BY <2>1, <2>2 DEF Init, TypeOK
<1>2. Phases /\ Handles /\ OnlyCurrentBatch
  BY DEF Init, Phases, Handles, OnlyCurrentBatch
<1>3. Counted = {} /\ OwnerRef = 0
  BY DEF Init, Counted, OwnerRef
<1>4. Counting
  BY <1>3, FS_EmptySet DEF Init, Counting
<1> QED BY <1>1, <1>2, <1>4 DEF ReaderInv

\* Release gives up one reference, and the handles with the last one.
LEMMA ReleaseSafe ==
  ASSUME ReaderInv, Release, owner \in {"wait", "asked", "released"}
  PROVE  /\ refCount' = IF refCount = 0 THEN 0 ELSE refCount - 1
         /\ refCount' \in 0..(Cardinality(Worker) + 1)
         /\ closed' \in BOOLEAN /\ current' \in 0..Chunks /\ fetched' = fetched
         /\ err' \in {"nil", "ctx", "arrow", "closed"}
         /\ handles' \subseteq Handle /\ batches' \subseteq 1..Chunks
         /\ OnlyCurrentBatch' /\ ~misuse' /\ misuse' \in BOOLEAN
         /\ closed' => refCount' = 0 /\ handles' = {}
         /\ ~closed' => refCount' > 0 /\ handles' = Handle
<1>0. Cardinality(Worker) \in Nat /\ Chunks \in Nat
  BY CountedFinite, ReaderAssumption
<1>1. CASE refCount = 0
  BY <1>1, <1>0 DEF Release, NoReference, reader, ReaderInv, TypeOK, Handles, OnlyCurrentBatch
<1>2. CASE refCount = 1
  <2>1. /\ refCount' = 0 /\ closed' = TRUE /\ current' = 0 /\ fetched' = fetched
        /\ batches' = batches \ {current} /\ handles' = {} /\ err' = "nil"
        /\ misuse' = (misuse \/ handles # Handle)
    BY <1>2 DEF Release, NoReference, IsLast, CleanUp, Closed, DropCurrent
  <2>2. ~closed /\ handles = Handle
    BY <1>2 DEF ReaderInv, Handles
  <2> QED BY <2>1, <2>2, <1>0, <1>2
          DEF ReaderInv, TypeOK, Handles, OnlyCurrentBatch
<1>3. CASE refCount > 1
  <2>1. /\ refCount' = refCount - 1
        /\ UNCHANGED <<closed, current, err, handles, batches, misuse, fetched>>
    BY <1>3 DEF Release, NoReference, IsLast
  <2> QED BY <2>1, <1>0, <1>3 DEF ReaderInv, TypeOK, Handles, OnlyCurrentBatch
<1> QED BY <1>0, <1>1, <1>2, <1>3 DEF ReaderInv, TypeOK

\* Next keeps the references and the handles, and releases the current batch.
LEMMA NextSafe ==
  ASSUME ReaderInv, NextTrue \/ NextFalse, owner = "wait"
  PROVE  /\ UNCHANGED <<refCount, closed, handles>>
         /\ current' \in 0..Chunks /\ fetched' \in 0..Chunks
         /\ err' \in {"nil", "ctx", "arrow", "closed"}
         /\ batches' \subseteq 1..Chunks
         /\ OnlyCurrentBatch' /\ ~misuse' /\ misuse' \in BOOLEAN
<1>0. Chunks \in Nat
  BY ReaderAssumption
<1>1. ASSUME NEW e \in {"nil", "ctx", "arrow", "closed"}, NextFails(e)
      PROVE  /\ UNCHANGED <<refCount, closed, handles>>
             /\ current' \in 0..Chunks /\ fetched' \in 0..Chunks
             /\ err' \in {"nil", "ctx", "arrow", "closed"}
             /\ batches' \subseteq 1..Chunks
             /\ OnlyCurrentBatch' /\ ~misuse' /\ misuse' \in BOOLEAN
  BY <1>1, <1>0 DEF NextFails, DropCurrent, ReaderInv, TypeOK, Handles, OnlyCurrentBatch
<1>2. ASSUME ~closed, Fetch PROVE ~misuse' /\ misuse' \in BOOLEAN
  BY <1>2 DEF Fetch, ReaderInv, Handles, Handle
<1>3. CASE NextTrue
  BY <1>3, <1>2, <1>0 DEF NextTrue, DropCurrent, ReaderInv, TypeOK, OnlyCurrentBatch
<1>4. CASE NextFalse
  <2>1. CASE \E e \in {"nil", "ctx", "arrow", "closed"} : NextFails(e)
    BY <2>1, <1>1
  <2>2. CASE /\ ~closed /\ err = "nil" /\ ~canceled
             /\ Fetch /\ current' = 0 /\ batches' = DropCurrent
             /\ \/ fetched = Chunks /\ UNCHANGED <<fetched, err>>
                \/ Fallible /\ fetched < Chunks /\ fetched' = fetched + 1 /\ err' = "arrow"
             /\ UNCHANGED <<refCount, closed, handles>>
    BY <2>2, <1>2, <1>0 DEF DropCurrent, ReaderInv, TypeOK, OnlyCurrentBatch
  <2>3. \/ NextFails("closed") \/ NextFails(err) \/ NextFails("ctx")
        \/ /\ ~closed /\ err = "nil" /\ ~canceled
           /\ Fetch /\ current' = 0 /\ batches' = DropCurrent
           /\ \/ fetched = Chunks /\ UNCHANGED <<fetched, err>>
              \/ Fallible /\ fetched < Chunks /\ fetched' = fetched + 1 /\ err' = "arrow"
           /\ UNCHANGED <<refCount, closed, handles>>
    BY <1>4 DEF NextFalse
  <2>4. err \in {"nil", "ctx", "arrow", "closed"}
    BY DEF ReaderInv, TypeOK
  <2> QED BY <2>1, <2>2, <2>3, <2>4
<1> QED BY <1>3, <1>4

\* A step that leaves the references and the users' progress alone.
LEMMA CountingKept ==
  ASSUME Counting, UNCHANGED <<refCount, skipped, Counted, OwnerRef>>
  PROVE  Counting'
  BY DEF Counting

\* The owner keeps what is known of the reader.
LEMMA OwnerStep ==
  ASSUME ReaderInv, QueryContext \/ SchemaFails \/ OwnerErr \/ OwnerRelease
  PROVE  ReaderInv'
<1> USE DEF ReaderInv
<1>1. CASE QueryContext
  <2>0. refCount' \in {0, 1} /\ handles' \in {handles, Handle}
        /\ refCount' \in 0..(Cardinality(Worker) + 1)
    BY <1>1, CountedFinite DEF QueryContext, Phases
  <2>1. TypeOK' /\ Phases' /\ Handles' /\ OnlyCurrentBatch'
    <3>1. TypeOK'
      BY <1>1, <2>0 DEF QueryContext, TypeOK
    <3>2. Phases' /\ Handles' /\ OnlyCurrentBatch'
      BY <1>1 DEF QueryContext, Phases, Handles, OnlyCurrentBatch
    <3> QED BY <3>1, <3>2
  <2>2. Counted' = Counted /\ skipped' = skipped
    BY <1>1 DEF QueryContext, Counted
  <2>3. refCount' - refCount = OwnerRef' - OwnerRef /\ OwnerRef \in Nat /\ OwnerRef' \in Nat
    BY <1>1 DEF QueryContext, OwnerRef, Phases
  <2>4. Counting'
    BY <2>1, <2>2, <2>3, CountedFinite DEF Counting, TypeOK
  <2> QED BY <2>1, <2>4
<1>2. CASE SchemaFails
  <2>1. TypeOK' /\ Phases' /\ Handles' /\ OnlyCurrentBatch'
    BY <1>2 DEF SchemaFails, TypeOK, Phases, Handles, OnlyCurrentBatch, Handle
  <2> QED BY <1>2, <2>1, CountingKept DEF SchemaFails, Counted, OwnerRef
<1>3. CASE OwnerErr
  <2>1. TypeOK' /\ Phases' /\ Handles' /\ OnlyCurrentBatch'
    BY <1>3 DEF OwnerErr, reader, TypeOK, Phases, Handles, OnlyCurrentBatch
  <2> QED BY <1>3, <2>1, CountingKept DEF OwnerErr, reader, Counted, OwnerRef
<1>4. CASE OwnerRelease
  <2>1. TypeOK' /\ Phases' /\ Handles' /\ OnlyCurrentBatch'
    <3>1. TypeOK'
      BY <1>4, ReleaseSafe DEF OwnerRelease, TypeOK
    <3>2. Phases' /\ Handles' /\ OnlyCurrentBatch'
      BY <1>4, ReleaseSafe DEF OwnerRelease, Phases, Handles
    <3> QED BY <3>1, <3>2
  <2>2. Counted = {} /\ Counted' = {}
    BY <1>4 DEF OwnerRelease, Counted, Phases
  <2>3. OwnerRef' = 0 /\ OwnerRef \in {0, 1}
    BY <1>4 DEF OwnerRelease, OwnerRef
  <2>4. Counting'
    BY <1>4, <2>1, <2>2, <2>3, ReleaseSafe, FS_EmptySet DEF OwnerRelease, Counting, TypeOK
  <2> QED BY <2>1, <2>4
<1> QED BY <1>1, <1>2, <1>3, <1>4

\* So does a worker that takes a reference,
LEMMA RetainStep ==
  ASSUME ReaderInv, NEW w \in Worker, WorkerRetain(w)
  PROVE  ReaderInv'
<1> USE DEF ReaderInv
<1>0. Cardinality(Worker) \in Nat /\ refCount \in Nat
  BY CountedFinite DEF TypeOK
<1>1. /\ owner = "wait" /\ worker[w] = "start" /\ owner' = owner
      /\ worker' = [worker EXCEPT ![w] = "next"]
      /\ UNCHANGED <<canceled, closed, current, err, fetched, handles, batches, misuse,
                     lock, verdict, taken>>
  BY DEF WorkerRetain, Go
<1>2. OwnerRef' = OwnerRef /\ OwnerRef = 1
  BY <1>1 DEF OwnerRef
<1>3. worker' \in [Worker -> {"start", "next", "check", "record", "release", "done"}]
  BY <1>1 DEF TypeOK
<1>4. CASE Retains
  <2>1. refCount' = refCount + 1 /\ skipped' = skipped
    BY <1>4 DEF WorkerRetain, Retain
  <2>2. w \notin Counted /\ Counted' = Counted \cup {w}
    BY <1>1, <1>3, <2>1 DEF Counted, TypeOK, Phases
  <2>3. Cardinality(Counted') = Cardinality(Counted) + 1
    BY <2>2, CountedFinite, FS_AddElement
  <2>4. Counted' \in SUBSET Worker
    BY <1>3 DEF Counted
  <2>5. Cardinality(Counted') <= Cardinality(Worker)
    BY <2>4, CountedFinite, FS_Subset
  <2>6. Counting'
    BY <1>0, <1>2, <2>1, <2>3, CountedFinite DEF Counting
  <2>7. refCount' \in 0..(Cardinality(Worker) + 1)
    BY <1>0, <1>2, <2>1, <2>3, <2>5, CountedFinite DEF Counting
  <2>8. TypeOK'
    BY <1>1, <1>3, <2>1, <2>7 DEF TypeOK
  <2>9. Phases' /\ Handles' /\ OnlyCurrentBatch'
    BY <1>0, <1>1, <1>4, <2>1 DEF Retains, Phases, Handles, OnlyCurrentBatch, TypeOK
  <2> QED BY <2>6, <2>8, <2>9
<1>5. CASE ~Retains
  <2>1. refCount' = refCount /\ skipped' = skipped \cup {w}
    BY <1>5 DEF WorkerRetain, Retain
  <2>2. Counted' = Counted
    BY <1>1, <1>3, <2>1 DEF Counted, TypeOK
  <2>3. TypeOK'
    BY <1>1, <1>3, <2>1 DEF TypeOK
  <2>4. Phases' /\ Handles' /\ OnlyCurrentBatch'
    BY <1>1, <2>1 DEF Phases, Handles, OnlyCurrentBatch, TypeOK
  <2>5. Counting'
    BY <1>2, <2>1, <2>2 DEF Counting
  <2> QED BY <2>3, <2>4, <2>5
<1> QED BY <1>4, <1>5

\* The steps of a worker that holds a reference.
LEMMA ReadStep ==
  ASSUME ReaderInv, NEW w \in Worker, WorkerNext(w) \/ WorkerCheck(w) \/ WorkerRecord(w)
  PROVE  ReaderInv'
<1> USE DEF ReaderInv
<1>1. /\ worker[w] \in {"next", "check", "record"}
      /\ \E l \in {"next", "check", "record", "release"} :
           worker' = [worker EXCEPT ![w] = l]
      /\ UNCHANGED <<canceled, owner, verdict, skipped>>
      /\ lock' \in Worker \cup {Nobody}
  BY DEF WorkerNext, WorkerCheck, WorkerRecord, Go, TypeOK
<1>2. owner = "wait"
  BY <1>1 DEF Phases, TypeOK
<1>3. worker' \in [Worker -> {"start", "next", "check", "record", "release", "done"}]
  BY <1>1 DEF TypeOK
<1>4. Counted' = Counted /\ OwnerRef' = OwnerRef
  BY <1>1 DEF Counted, OwnerRef, TypeOK
<1>5. Phases'
  BY <1>1, <1>2 DEF Phases, TypeOK
<1>6. CASE WorkerNext(w)
  <2>1. (NextTrue \/ NextFalse) /\ taken' = taken
    BY <1>6 DEF WorkerNext
  <2>2. TypeOK'
    BY <1>1, <1>2, <1>3, <2>1, NextSafe DEF TypeOK
  <2>3. Handles' /\ OnlyCurrentBatch'
    BY <1>1, <1>2, <2>1, NextSafe DEF Handles
  <2>4. Counting'
    BY <1>1, <1>2, <1>4, <2>1, NextSafe, CountingKept
  <2> QED BY <1>5, <2>2, <2>3, <2>4
<1>7. CASE WorkerCheck(w) \/ WorkerRecord(w)
  <2>1. UNCHANGED reader /\ taken' \in {taken, taken \cup ({current} \ {0})}
    BY <1>7 DEF WorkerCheck, WorkerRecord, RecordBatch
  <2>2. TypeOK'
    BY <1>1, <1>3, <2>1 DEF TypeOK, reader
  <2>3. Handles' /\ OnlyCurrentBatch'
    BY <1>1, <2>1 DEF Handles, OnlyCurrentBatch, reader
  <2>4. Counting'
    BY <1>1, <1>4, <2>1, CountingKept DEF reader
  <2> QED BY <1>5, <2>2, <2>3, <2>4
<1> QED BY <1>6, <1>7

\* and one that gives it back.
LEMMA ReleaseStep ==
  ASSUME ReaderInv, NEW w \in Worker, WorkerRelease(w)
  PROVE  ReaderInv'
<1> USE DEF ReaderInv
<1>1. /\ worker[w] = "release" /\ worker' = [worker EXCEPT ![w] = "done"] /\ Release
      /\ UNCHANGED <<canceled, lock, owner, verdict, taken, skipped>>
  BY DEF WorkerRelease, Go
<1>2. owner = "wait"
  BY <1>1 DEF Phases, TypeOK
<1>3. worker' \in [Worker -> {"start", "next", "check", "record", "release", "done"}]
  BY <1>1 DEF TypeOK
<1>4. TypeOK'
  BY <1>1, <1>2, <1>3, ReleaseSafe DEF TypeOK
<1>5. Phases'
  BY <1>1, <1>2 DEF Phases, TypeOK
<1>6. Handles' /\ OnlyCurrentBatch'
  BY <1>1, <1>2, ReleaseSafe DEF Handles
<1>7. Counted' = Counted \ {w} /\ OwnerRef' = OwnerRef /\ OwnerRef = 1
  BY <1>1, <1>2 DEF Counted, OwnerRef, TypeOK
<1>8. Cardinality(Counted') = IF w \in Counted THEN Cardinality(Counted) - 1
                                               ELSE Cardinality(Counted)
  BY <1>7, CountedFinite, FS_RemoveElement
<1>9. skipped = {} => w \in Counted
  BY <1>1 DEF Counted
<1>10. w \in Counted => Cardinality(Counted) > 0
  BY CountedFinite, FS_EmptySet
<1>11. refCount' = IF refCount = 0 THEN 0 ELSE refCount - 1
  BY <1>1, <1>2, ReleaseSafe
<1>12. Counting'
  BY <1>1, <1>7, <1>8, <1>9, <1>10, <1>11, CountedFinite DEF Counting, TypeOK
<1> QED BY <1>4, <1>5, <1>6, <1>12

\* Every step keeps it.
LEMMA StepInv == ReaderInv /\ [Next]_vars => ReaderInv'
<1> SUFFICES ASSUME ReaderInv, [Next]_vars PROVE ReaderInv' OBVIOUS
<1>1. CASE Cancel
  <2>1. TypeOK' /\ Phases' /\ Handles' /\ OnlyCurrentBatch'
    BY <1>1 DEF Cancel, reader, users, ReaderInv, TypeOK, Phases, Handles, OnlyCurrentBatch
  <2>2. Counting'
    BY <1>1, CountingKept DEF Cancel, reader, users, ReaderInv, Counted, OwnerRef
  <2> QED BY <2>1, <2>2 DEF ReaderInv
<1>2. CASE UNCHANGED vars
  <2>1. TypeOK' /\ Phases' /\ Handles' /\ OnlyCurrentBatch'
    BY <1>2 DEF vars, reader, users, ReaderInv, TypeOK, Phases, Handles, OnlyCurrentBatch
  <2>2. Counting'
    BY <1>2, CountingKept DEF vars, reader, users, ReaderInv, Counted, OwnerRef
  <2> QED BY <2>1, <2>2 DEF ReaderInv
<1> QED BY <1>1, <1>2, OwnerStep, RetainStep, ReadStep, ReleaseStep DEF Next

-----------------------------------------------------------------------------
\* It always holds.
LEMMA Invariance == Spec => []ReaderInv
<1> QED BY InitInv, StepInv, PTL DEF Spec

\* The reader's state keeps its types: refCount never passes the number of the
\* goroutines that share it and their owner, and is never negative (arrow.go:213-232).
THEOREM TypeCorrect == Spec => []TypeOK
<1>1. ReaderInv => TypeOK
  BY DEF ReaderInv
<1> QED BY <1>1, Invariance, PTL

\* arrow.go:222-242: for any number of goroutines the handles are destroyed once,
\* with the last reference, and no chunk is fetched afterwards.
THEOREM DestroyedOnce == Spec => []DestroyedOnceWithReader
<1>1. ReaderInv => DestroyedOnceWithReader
  BY DEF ReaderInv, Phases, Handles, Handle, TypeOK, DestroyedOnceWithReader
<1> QED BY <1>1, Invariance, PTL

\* arrow.go:252-255 and 236-239: no batch leaks and none is released twice.
THEOREM OneBatch == Spec => []OnlyCurrentBatch
<1>1. ReaderInv => OnlyCurrentBatch
  BY DEF ReaderInv
<1> QED BY <1>1, Invariance, PTL

\* arrow.go:213-232: as long as no Retain was skipped, the reader stays open under
\* everybody who has a reference, for any number of goroutines.
THEOREM ReferencesKeepOpen == Spec => []OnlySkippedRetainCloses
<1>1. ASSUME ReaderInv, skipped = {}, closed PROVE ReferenceKeepsOpen
  <2>1. Cardinality(Counted) = 0 /\ OwnerRef = 0
    BY <1>1, CountedFinite DEF ReaderInv, Handles, Counting, OwnerRef
  <2>2. Counted = {}
    BY <2>1, CountedFinite, FS_EmptySet
  <2>3. owner = "released"
    BY <1>1, <2>1 DEF ReaderInv, TypeOK, Handles, OwnerRef
  <2> QED BY <1>1, <2>2, <2>3 DEF Counted, ReferenceKeepsOpen
<1>2. ReaderInv => OnlySkippedRetainCloses
  BY <1>1 DEF OnlySkippedRetainCloses, ReferenceKeepsOpen
<1> QED BY <1>2, Invariance, PTL

-----------------------------------------------------------------------------
\* Who reads: the holder of the users' lock has a batch to take.
LockHeld == \A w \in Worker : worker[w] \in {"check", "record"} <=> lock = w

\* As long as nothing failed, the chunks that were fetched are taken or about to be,
\* and a worker stops only when all were fetched.
AllTaken ==
  skipped = {} /\ ~closed /\ err = "nil" =>
    /\ lock = Nobody => taken = 1..fetched
    /\ lock # Nobody => current = fetched /\ fetched # 0 /\ taken \cup {current} = 1..fetched
    /\ (\E w \in Worker : worker[w] \in {"release", "done"}) => fetched = Chunks

VerdictKept ==
  /\ verdict # "none" => owner \in {"asked", "released"}
  /\ NoErrorMeansComplete

ReadInv == LockHeld /\ AllTaken /\ VerdictKept

\* Without a skipped Retain, only the owner's Release closes the reader.
LEMMA OwnerCloses == ReaderInv /\ skipped = {} /\ closed => owner = "released"
<1> SUFFICES ASSUME ReaderInv, skipped = {}, closed PROVE owner = "released"
  OBVIOUS
<1>1. OwnerRef = 0
  BY CountedFinite DEF ReaderInv, Handles, Counting, OwnerRef
<1> QED BY <1>1 DEF ReaderInv, TypeOK, Handles, OwnerRef

\* What a step does to the reader's words that is not a step of its reading.
LEMMA ReadingKept ==
  ASSUME ReadInv, ReaderInv, ReaderInv', owner' # "released",
         closed' \/ UNCHANGED <<closed, current, err, fetched>>, UNCHANGED <<lock, taken, verdict>>,
         skipped \subseteq skipped', verdict = "none",
         \A w \in Worker : worker'[w] = worker[w] \/ (worker[w] = "start" /\ worker'[w] = "next")
                                                  \/ (worker[w] = "release" /\ worker'[w] = "done")
  PROVE  ReadInv'
<1>1. LockHeld'
  BY DEF ReadInv, LockHeld
<1>2. skipped' = {} => skipped = {} /\ ~closed'
  <2>1. (ReaderInv /\ skipped = {} /\ closed => owner = "released")'
    BY OwnerCloses, PTL
  <2> QED BY <2>1
<1>3. (\E w \in Worker : worker'[w] \in {"release", "done"})
        => \E w \in Worker : worker[w] \in {"release", "done"}
  OBVIOUS
<1>4. AllTaken'
  BY <1>2, <1>3 DEF ReadInv, AllTaken
<1>5. VerdictKept'
  BY DEF VerdictKept, NoErrorMeansComplete
<1> QED BY <1>1, <1>4, <1>5 DEF ReadInv

\* Next reads on, or answers false for a reason.
LEMMA NextReads ==
  ASSUME ReadInv, ReaderInv, ReaderInv', NEW w \in Worker, WorkerNext(w)
  PROVE  ReadInv'
<1>1. /\ worker[w] = "next" /\ lock = Nobody /\ Nobody \notin Worker
      /\ worker \in [Worker -> {"start", "next", "check", "record", "release", "done"}]
      /\ UNCHANGED <<owner, verdict, taken, skipped>>
  BY ReaderAssumption DEF WorkerNext, ReaderInv, TypeOK
<1>2. verdict = "none"
  BY <1>1 DEF ReadInv, VerdictKept, ReaderInv, Phases
<1>3. VerdictKept'
  BY <1>1, <1>2 DEF VerdictKept, NoErrorMeansComplete
<1>4. CASE NextTrue /\ Go(w, "check") /\ lock' = w
  <2>1. LockHeld'
    BY <1>1, <1>4 DEF ReadInv, LockHeld, Go
  <2>2. AllTaken'
    <3> SUFFICES ASSUME skipped' = {}, ~closed', err' = "nil"
                 PROVE  /\ current' = fetched' /\ fetched' # 0 /\ taken' \cup {current'} = 1..fetched'
                        /\ ~\E u \in Worker : worker'[u] \in {"release", "done"}
      BY <1>1, <1>4 DEF AllTaken
    <3>1. ~closed /\ err = "nil" /\ fetched < Chunks /\ fetched' = fetched + 1 /\ current' = fetched + 1
      BY <1>4 DEF NextTrue
    <3>2. taken = 1..fetched /\ fetched \in Nat
      BY <1>1, <3>1, ReaderAssumption DEF ReadInv, AllTaken, ReaderInv, TypeOK
    <3>3. ~\E u \in Worker : worker[u] \in {"release", "done"}
      BY <1>1, <3>1, <3>2, ReaderAssumption DEF ReadInv, AllTaken
    <3>4. \A u \in Worker : worker'[u] \notin {"release", "done"}
      BY <1>1, <1>4, <3>3 DEF Go
    <3> QED BY <1>1, <3>1, <3>2, <3>4
  <2> QED BY <1>3, <2>1, <2>2 DEF ReadInv
<1>5. CASE NextFalse /\ Go(w, "release") /\ UNCHANGED lock
  <2>1. LockHeld'
    BY <1>1, <1>5 DEF ReadInv, LockHeld, Go
  <2>2. AllTaken'
    <3> SUFFICES ASSUME skipped' = {}, ~closed', err' = "nil"
                 PROVE  taken' = 1..fetched' /\ fetched' = Chunks
      BY <1>1, <1>5 DEF AllTaken
    <3>1. ~closed /\ err = "nil" /\ fetched = Chunks /\ fetched' = fetched
      BY <1>5 DEF NextFalse, NextFails
    <3> QED BY <1>1, <3>1 DEF ReadInv, AllTaken
  <2> QED BY <1>3, <2>1, <2>2 DEF ReadInv
<1> QED BY <1>4, <1>5 DEF WorkerNext

\* The holder of the lock finds no error, and takes its batch.
LEMMA HolderTakes ==
  ASSUME ReadInv, ReaderInv, ReaderInv', NEW w \in Worker, WorkerCheck(w) \/ WorkerRecord(w)
  PROVE  ReadInv'
<1>1. /\ worker[w] \in {"check", "record"} /\ lock = w /\ Nobody \notin Worker
      /\ worker \in [Worker -> {"start", "next", "check", "record", "release", "done"}]
      /\ UNCHANGED <<closed, current, err, fetched, owner, verdict, skipped>>
  BY ReaderAssumption DEF WorkerCheck, WorkerRecord, reader, ReaderInv, TypeOK, ReadInv, LockHeld
<1>2. verdict = "none"
  BY <1>1 DEF ReadInv, VerdictKept, ReaderInv, Phases
<1>3. VerdictKept'
  BY <1>1, <1>2 DEF VerdictKept, NoErrorMeansComplete
<1>4. CASE WorkerCheck(w)
  <2>1. taken' = taken
    BY <1>4 DEF WorkerCheck
  <2>2. CASE err = "nil"
    <3>1. Go(w, "record") /\ lock' = lock
      BY <1>4, <2>2 DEF WorkerCheck
    <3>2. LockHeld'
      BY <1>1, <3>1 DEF ReadInv, LockHeld, Go
    <3>3. (\E u \in Worker : worker'[u] \in {"release", "done"})
            => \E u \in Worker : worker[u] \in {"release", "done"}
      BY <1>1, <3>1 DEF Go
    <3>4. AllTaken'
      BY <1>1, <2>1, <3>1, <3>3 DEF ReadInv, AllTaken
    <3> QED BY <1>3, <3>2, <3>4 DEF ReadInv
  <2>3. CASE err # "nil"
    <3>1. Go(w, "release") /\ lock' = Nobody
      BY <1>4, <2>3 DEF WorkerCheck
    <3>2. LockHeld'
      BY <1>1, <3>1 DEF ReadInv, LockHeld, Go
    <3>3. AllTaken'
      BY <1>1, <2>3 DEF AllTaken
    <3> QED BY <1>3, <3>2, <3>3 DEF ReadInv
  <2> QED BY <2>2, <2>3
<1>5. CASE WorkerRecord(w)
  <2>1. Go(w, "next") /\ lock' = Nobody /\ err = "nil" /\ taken' = taken \cup {current}
    BY <1>5 DEF WorkerRecord, RecordBatch
  <2>2. LockHeld'
    BY <1>1, <2>1 DEF ReadInv, LockHeld, Go
  <2>3. (\E u \in Worker : worker'[u] \in {"release", "done"})
          => \E u \in Worker : worker[u] \in {"release", "done"}
    BY <1>1, <2>1 DEF Go
  <2>4. AllTaken'
    BY <1>1, <2>1, <2>3 DEF ReadInv, AllTaken
  <2> QED BY <1>3, <2>2, <2>4 DEF ReadInv
<1> QED BY <1>4, <1>5

\* The owner asks when all workers are done.
LEMMA OwnerAsks ==
  ASSUME ReadInv, ReaderInv, OwnerErr
  PROVE  ReadInv'
<1>1. /\ owner = "wait" /\ \A w \in Worker : worker[w] = "done"
      /\ owner' = "asked" /\ verdict' = err /\ UNCHANGED <<reader, worker, lock, taken, skipped>>
  BY DEF OwnerErr
<1>2. LockHeld' /\ AllTaken'
  BY <1>1 DEF reader, ReadInv, LockHeld, AllTaken
<1>3. ASSUME err = "nil", skipped = {}, Worker # {} PROVE taken = 1..Chunks
  <2>1. ~closed
    BY <1>1, <1>3, OwnerCloses
  <2>2. lock = Nobody
    BY <1>1 DEF ReadInv, LockHeld, ReaderInv, TypeOK
  <2>3. \E w \in Worker : worker[w] \in {"release", "done"}
    BY <1>1, <1>3
  <2> QED BY <1>3, <2>1, <2>2, <2>3 DEF ReadInv, AllTaken
<1>4. VerdictKept'
  BY <1>1, <1>3 DEF VerdictKept, NoErrorMeansComplete
<1> QED BY <1>2, <1>4 DEF ReadInv

\* Every step.
LEMMA StepReads == ReadInv /\ ReaderInv /\ ReaderInv' /\ [Next]_vars => ReadInv'
<1> SUFFICES ASSUME ReadInv, ReaderInv, ReaderInv', [Next]_vars PROVE ReadInv' OBVIOUS
<1>1. ASSUME UNCHANGED <<closed, current, err, fetched, owner, worker, lock, verdict, taken, skipped>>
      PROVE  ReadInv'
  BY <1>1 DEF ReadInv, LockHeld, AllTaken, VerdictKept, NoErrorMeansComplete
<1>2. CASE Cancel \/ UNCHANGED vars
  BY <1>1, <1>2 DEF Cancel, vars, reader, users
<1>3. CASE QueryContext \/ SchemaFails
  <2>1. /\ owner = "query" /\ owner' \in {"wait", "failed"}
        /\ UNCHANGED <<closed, current, err, fetched, worker, lock, verdict, taken, skipped>>
    BY <1>3 DEF QueryContext, SchemaFails
  <2>2. verdict = "none"
    BY <2>1 DEF ReadInv, VerdictKept
  <2> QED BY <2>1, <2>2 DEF ReadInv, LockHeld, AllTaken, VerdictKept, NoErrorMeansComplete
<1>4. CASE OwnerErr
  BY <1>4, OwnerAsks
<1>5. CASE OwnerRelease
  <2>1. /\ owner \in {"asked", "released"} /\ owner' = "released" /\ Release
        /\ UNCHANGED <<worker, lock, verdict, taken, skipped>>
    BY <1>5 DEF OwnerRelease
  <2>2. closed' \/ UNCHANGED <<closed, current, err, fetched>>
    BY <2>1 DEF Release, reader, CleanUp, Closed
  <2>3. LockHeld' /\ AllTaken' /\ VerdictKept'
    BY <2>1, <2>2 DEF ReadInv, LockHeld, AllTaken, VerdictKept, NoErrorMeansComplete
  <2> QED BY <2>3 DEF ReadInv
<1>6. ASSUME NEW w \in Worker, WorkerRetain(w) PROVE ReadInv'
  <2>1. /\ owner = "wait" /\ worker[w] = "start" /\ worker' = [worker EXCEPT ![w] = "next"]
        /\ UNCHANGED <<closed, current, err, fetched, owner, lock, verdict, taken>>
        /\ skipped \subseteq skipped'
    BY <1>6 DEF WorkerRetain, Go
  <2>2. verdict = "none"
    BY <2>1 DEF ReadInv, VerdictKept
  <2> QED BY <2>1, <2>2, ReadingKept DEF ReaderInv, TypeOK
<1>7. ASSUME NEW w \in Worker, WorkerRelease(w) PROVE ReadInv'
  <2>1. /\ worker[w] = "release" /\ worker' = [worker EXCEPT ![w] = "done"] /\ Release
        /\ UNCHANGED <<lock, owner, verdict, taken, skipped>>
    BY <1>7 DEF WorkerRelease, Go
  <2>2. closed' \/ UNCHANGED <<closed, current, err, fetched>>
    BY <2>1 DEF Release, reader, CleanUp, Closed
  <2>3. owner = "wait"
    BY <2>1 DEF ReaderInv, Phases, TypeOK
  <2>4. verdict = "none"
    BY <2>3 DEF ReadInv, VerdictKept
  <2> QED BY <2>1, <2>2, <2>3, <2>4, ReadingKept DEF ReaderInv, TypeOK
<1>8. ASSUME NEW w \in Worker, WorkerNext(w) \/ WorkerCheck(w) \/ WorkerRecord(w) PROVE ReadInv'
  BY <1>8, NextReads, HolderTakes
<1> QED BY <1>2, <1>3, <1>4, <1>5, <1>6, <1>7, <1>8 DEF Next

\* arrow.go:249-296: a reader that ends early says so.  For any number of goroutines
\* and chunks, an owner who sees no error knows that the workers got every chunk.
THEOREM NothingMissedSilently == Spec => []NoErrorMeansComplete
<1>1. Init => ReadInv
  BY ReaderAssumption DEF Init, ReadInv, LockHeld, AllTaken, VerdictKept, NoErrorMeansComplete
<1>2. ReadInv => NoErrorMeansComplete
  BY DEF ReadInv, VerdictKept
<1> QED BY <1>1, <1>2, StepReads, Invariance, PTL DEF Spec
=============================================================================
