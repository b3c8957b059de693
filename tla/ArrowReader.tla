----------------------------- MODULE ArrowReader -----------------------------
(***************************************************************************)
(* Arrow.QueryContext and the recordReader it returns (src/arrow.go): a    *)
(* reference-counted reader of a result's chunks, with r.mu around every   *)
(* method, so that each method is one step.                                *)
(*                                                                         *)
(* Its users are external and modelled after arrow_test.go:203-270: the    *)
(* owner hands the reader to workers, each retains it, reads batches under *)
(* the users' own lock, and releases it; the owner asks for the error when *)
(* all workers are done, then releases its reference, once too often.      *)
(***************************************************************************)
EXTENDS Naturals, FiniteSets

CONSTANTS
  Worker,   \* the goroutines the reader is shared with
  Nobody,   \* holds the users' lock when it is free
  Chunks,   \* how many chunks the result has
  Fallible  \* whether the context may be cancelled and a conversion may fail

ASSUME ReaderAssumption ==
  /\ IsFiniteSet(Worker) /\ Nobody \notin Worker
  /\ Chunks \in Nat /\ Fallible \in BOOLEAN

VARIABLES
  canceled, \* whether the reader's context is done
  refCount, \* recordReader.refCount
  closed,   \* recordReader.closed
  current,  \* recordReader.current: a chunk's number, 0 for nil
  err,      \* recordReader.err
  fetched,  \* DuckDB: how many chunks were fetched from the result
  handles,  \* DuckDB: the result, with its rows and statement, and the options
  batches,  \* the Arrow batches that have a reference
  worker,   \* where a worker is
  lock,     \* who holds the users' lock
  owner,    \* where the owner is
  verdict,  \* what Err() told the owner
  taken,    \* history: the chunks that workers got
  skipped,  \* history: the workers whose Retain did nothing
  misuse    \* history: a fetch from a destroyed result, or a second destroy

reader == <<refCount, closed, current, err, fetched, handles, batches, misuse>>
users == <<worker, lock, owner, verdict, taken, skipped>>
vars == <<canceled, reader, users>>

Handle == {"result", "options"}

TypeOK ==
  /\ canceled \in BOOLEAN
  /\ refCount \in 0..(Cardinality(Worker) + 1)
  /\ closed \in BOOLEAN
  /\ current \in 0..Chunks /\ fetched \in 0..Chunks
  /\ err \in {"nil", "ctx", "arrow", "closed"}
  /\ handles \subseteq Handle
  /\ batches \subseteq 1..Chunks
  /\ worker \in [Worker -> {"start", "next", "check", "record", "release", "done"}]
  /\ lock \in Worker \cup {Nobody}
  /\ owner \in {"query", "wait", "asked", "released", "failed"}
  /\ verdict \in {"none", "nil", "ctx", "arrow", "closed"}
  /\ taken \subseteq 1..Chunks
  /\ skipped \subseteq Worker
  /\ misuse \in BOOLEAN

Init ==
  /\ canceled = FALSE
  /\ refCount = 0 /\ closed = FALSE /\ current = 0 /\ err = "nil" /\ fetched = 0
  /\ handles = {} /\ batches = {} /\ misuse = FALSE
  /\ worker = [w \in Worker |-> "start"] /\ lock = Nobody
  /\ owner = "query" /\ verdict = "none"
  /\ taken = {} /\ skipped = {}

Cancel ==
  /\ Fallible /\ ~canceled
  /\ canceled' = TRUE
  /\ UNCHANGED <<reader, users>>

-----------------------------------------------------------------------------
\* The methods of recordReader.

\* QueryContext fails before there is a result, or returns the reader.
QueryContext ==
  /\ owner = "query"
  /\ \/ /\ owner' = "failed" /\ UNCHANGED <<refCount, handles>>
     \/ /\ owner' = "wait" /\ refCount' = 1 /\ handles' = Handle
  /\ UNCHANGED <<canceled, closed, current, err, fetched, batches, misuse,
                 worker, lock, verdict, taken, skipped>>

\* recordReaderFromRows cannot make a schema: it destroys the options, and
\* nobody closes the rows.
SchemaFails ==
  /\ owner = "query"
  /\ owner' = "failed" /\ handles' = {"result"}
  /\ UNCHANGED <<canceled, refCount, closed, current, err, fetched, batches, misuse,
                 worker, lock, verdict, taken, skipped>>

\* Retain counts only without an error and before the end.
Retains == err = "nil" /\ ~closed
Retain == refCount' = IF Retains THEN refCount + 1 ELSE refCount

\* Mutant: the batch is forgotten, not released.
KeepCurrent == batches

\* The batch of the last Next is released.
DropCurrent == batches \ {current}

\* Mutant: the count is not checked for zero.
Unchecked == FALSE

\* No reference is left: Release does nothing.
NoReference == refCount = 0

\* Mutant: the reader is not marked closed.
StillOpen == closed

\* Release of the last reference closes the reader and destroys its handles.
Closed == TRUE
CleanUp ==
  /\ closed' = Closed
  /\ current' = 0 /\ batches' = DropCurrent
  /\ handles' = {}
  /\ misuse' = (misuse \/ handles # Handle)
  /\ err' = "nil"                             \* what rows.Close() returns

\* Mutant: Release cleans up whatever the count.
LastOrNot == TRUE

\* The reference given up is the last one.
IsLast == refCount = 1

Release ==
  IF NoReference
    THEN UNCHANGED reader
    ELSE /\ refCount' = refCount - 1
         /\ IF IsLast THEN CleanUp
                      ELSE UNCHANGED <<closed, current, err, handles, batches, misuse>>
         /\ UNCHANGED fetched

\* Mutant: Next answers false and keeps no error.
LoseError(e) ==
  /\ err' = err /\ current' = 0 /\ batches' = DropCurrent
  /\ UNCHANGED <<refCount, closed, fetched, handles, misuse>>

\* Next drops the current batch in any case, and answers whether there is one.
NextFails(e) ==
  /\ err' = e /\ current' = 0 /\ batches' = DropCurrent
  /\ UNCHANGED <<refCount, closed, fetched, handles, misuse>>
Fetch == misuse' = (misuse \/ "result" \notin handles)
NextFalse ==
  \/ closed /\ NextFails("closed")
  \/ ~closed /\ err # "nil" /\ NextFails(err)
  \/ ~closed /\ err = "nil" /\ canceled /\ NextFails("ctx")
  \/ /\ ~closed /\ err = "nil" /\ ~canceled
     /\ Fetch /\ current' = 0 /\ batches' = DropCurrent
     /\ \/ fetched = Chunks /\ UNCHANGED <<fetched, err>>
        \/ Fallible /\ fetched < Chunks /\ fetched' = fetched + 1 /\ err' = "arrow"
     /\ UNCHANGED <<refCount, closed, handles>>
NextTrue ==
  /\ ~closed /\ err = "nil" /\ ~canceled /\ fetched < Chunks
  /\ Fetch /\ fetched' = fetched + 1
  /\ current' = fetched + 1 /\ batches' = DropCurrent \cup {fetched + 1}
  /\ UNCHANGED <<refCount, closed, err, handles>>

\* Mutant: RecordBatch asks the context again, too.
RecordUnlessDone == IF err = "nil" /\ ~canceled THEN current ELSE 0

\* RecordBatch: nil with an error.
RecordBatch == IF err = "nil" THEN current ELSE 0

-----------------------------------------------------------------------------
\* The users.

Go(w, l) == worker' = [worker EXCEPT ![w] = l]

WorkerRetain(w) ==
  /\ owner = "wait" /\ worker[w] = "start"
  /\ Retain /\ Go(w, "next")
  /\ skipped' = IF Retains THEN skipped ELSE skipped \cup {w}
  /\ UNCHANGED <<canceled, closed, current, err, fetched, handles, batches, misuse,
                 lock, owner, verdict, taken>>

WorkerNext(w) ==
  /\ worker[w] = "next" /\ lock = Nobody
  /\ \/ NextTrue /\ Go(w, "check") /\ lock' = w
     \/ NextFalse /\ Go(w, "release") /\ UNCHANGED lock
  /\ UNCHANGED <<canceled, owner, verdict, taken, skipped>>

\* Err() after a successful Next.
WorkerCheck(w) ==
  /\ worker[w] = "check"
  /\ IF err = "nil" THEN Go(w, "record") /\ UNCHANGED lock
                    ELSE Go(w, "release") /\ lock' = Nobody
  /\ UNCHANGED <<canceled, reader, owner, verdict, taken, skipped>>

\* The worker takes the batch; without one it would be stuck here.
WorkerRecord(w) ==
  /\ worker[w] = "record" /\ RecordBatch # 0
  /\ taken' = taken \cup {RecordBatch}
  /\ Go(w, "next") /\ lock' = Nobody
  /\ UNCHANGED <<canceled, reader, owner, verdict, skipped>>

WorkerRelease(w) ==
  /\ worker[w] = "release"
  /\ Release /\ Go(w, "done")
  /\ UNCHANGED <<canceled, lock, owner, verdict, taken, skipped>>

\* The owner waits for the workers and asks for the error.
OwnerErr ==
  /\ owner = "wait" /\ \A w \in Worker : worker[w] = "done"
  /\ owner' = "asked" /\ verdict' = err
  /\ UNCHANGED <<canceled, reader, worker, lock, taken, skipped>>

\* The owner's Release, and the Release too many.
OwnerRelease ==
  /\ owner \in {"asked", "released"}
  /\ owner' = "released" /\ Release
  /\ UNCHANGED <<canceled, worker, lock, verdict, taken, skipped>>

Next ==
  \/ Cancel \/ QueryContext \/ SchemaFails \/ OwnerErr \/ OwnerRelease
  \/ \E w \in Worker : \/ WorkerRetain(w) \/ WorkerNext(w) \/ WorkerCheck(w)
                       \/ WorkerRecord(w) \/ WorkerRelease(w)

\* The users' goroutines all go on.
Spec == Init /\ [][Next]_vars
FairSpec == Spec /\ WF_vars(OwnerErr \/ OwnerRelease \/ QueryContext)
                 /\ \A w \in Worker : WF_vars(WorkerRetain(w) \/ WorkerNext(w)
                      \/ WorkerCheck(w) \/ WorkerRecord(w) \/ WorkerRelease(w))

-----------------------------------------------------------------------------
\* arrow.go:222-242: the result, its rows and the options are destroyed once,
\* with the last reference, and no chunk is fetched from them afterwards.
DestroyedOnceWithReader ==
  /\ ~misuse
  /\ closed <=> handles = {} /\ owner \in {"wait", "asked", "released"}
  /\ closed => refCount = 0

\* arrow.go:252-255 and 236-239: the only batch with a reference of the reader's
\* is the one RecordBatch hands out; none is left when the reader is closed.
OnlyCurrentBatch == batches = {current} \ {0}

\* arrow.go:231, "Do not release if there are still references": the reader is
\* open as long as its owner, or a worker with a reference, has not released it.
ReferenceKeepsOpen ==
  closed => owner = "released" /\ \A w \in Worker : worker[w] \in {"start", "done"}

\* What is left of it: it breaks only by a Retain that an error has turned into
\* nothing (arrow.go:216-218).
OnlySkippedRetainCloses == skipped = {} => ReferenceKeepsOpen

\* A reader that ends early says so: without a skipped Retain the owner who sees
\* no error knows that the workers got every chunk.
NoErrorMeansComplete ==
  verdict = "nil" /\ skipped = {} /\ Worker # {} => taken = 1..Chunks

\* arrow.go:277-296: whatever fails and whoever cancels, a worker whose Next
\* answered true and whose Err is nil gets a batch (a nil one would stop it), so
\* that the workers and then the owner come to an end.
AllFinish == <>(owner \in {"released", "failed"})
=============================================================================
