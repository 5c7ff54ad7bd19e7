------------------------------- MODULE Ingest -------------------------------
(***************************************************************************)
(* The asynchronous ingestion of uploaded documents: the admin routes      *)
(* (app/api/routes_admin_documents.py), the Celery task they dispatch      *)
(* (app/workers/ingest_worker.py), and what both write: the ingest record  *)
(* and its status, the blob, and the chunks in the vector store.           *)
(*                                                                         *)
(* API processes and workers are different processes over one database,    *)
(* one object store and one broker, so every access to one of these is a   *)
(* step.  Chunks are keyed by document, a record by ingest: two uploads of *)
(* one document are siblings, and the store keeps the chunks of both (its  *)
(* upsert only inserts).  A request the code refuses is not a step.        *)
(***************************************************************************)
EXTENDS Integers, FiniteSets

CONSTANTS
    Ingests,      \* uploads that may arrive, each at most once
    Documents,    \* document_id values
    Workers,      \* Celery worker processes
    Admins,       \* admin requests that may be in progress at once
    None,         \* no ingest, no document
    MaxRequeues,  \* bound on requeue requests
    MaxCrashes    \* bound on crashes of a worker or of an API process

ASSUME ConstantsAssumption ==
    /\ None \notin Ingests \cup Documents
    /\ Workers \cap Admins = {}
    /\ MaxRequeues \in Nat
    /\ MaxCrashes \in Nat

VARIABLES
    status,    \* status[i]: the record's status, or why there is no record
    document,  \* document[i]: the record's document_id
    blobs,     \* ingests whose blob is in the object store
    batches,   \* batches[i]: times the chunks of i are in the vector store
    broker,    \* broker[i]: task messages of i waiting in the broker
    run,       \* run[p]: the task process p executes
    request,   \* request[a]: where admin request a is
    lost,      \* history: ingests with a task or a dispatch a crash destroyed
    excused,   \* history: documents a purge of which failed or was cut short
    late,      \* history: documents with chunks inserted after their record went
    requeues,  \* history: requeue requests so far
    crashes    \* history: crashes so far

vars == <<status, document, blobs, batches, broker, run, request, lost,
          excused, late, requeues, crashes>>

-----------------------------------------------------------------------------
Moving == {"queued", "extracting", "embedding"}
Stored == Moving \cup {"done", "failed"}
NoRecord == {"absent", "deleted"}

Processes == Workers \cup Admins

\* _run's position: before "extracting", before object_store.get, before
\* "embedding", before the insert, before "done", in an except clause.
TaskSteps == {"started", "reading", "extracted", "indexing", "indexed", "failing"}
Tasks == [at : {"idle"}, of : {None}] \cup [at : TaskSteps, of : Ingests]
NoTask == [at |-> "idle", of |-> None]

\* Where a route is: upload_document ("create"), delete_document ("drop",
\* "blob", "check", "purge"), _requeue_one ("reset") and its caller's loop
\* ("next"), _dispatch_ingest ("dispatch", "inline").
RequestSteps == {"create", "drop", "blob", "check", "purge", "reset", "dispatch", "inline"}
Requests ==
    [at : {"idle", "next"}, of : {None}, todo : SUBSET Ingests]
      \cup [at : RequestSteps, of : Ingests, todo : SUBSET Ingests]
NoRequest == [at |-> "idle", of |-> None, todo |-> {}]

Live(i) == status[i] \in Stored

\* update_status: no transition is refused, a missing row raises KeyError.
SetStatus(i, s) == status' = [status EXCEPT ![i] = s]

Goto(a, at) == request' = [request EXCEPT ![a].at = at]
Step(p, at) == run' = [run EXCEPT ![p].at = at]
EndTask(p) == run' = [run EXCEPT ![p] = NoTask]

Init ==
    /\ status = [i \in Ingests |-> "absent"]
    /\ document = [i \in Ingests |-> None]
    /\ blobs = {}
    /\ batches = [i \in Ingests |-> 0]
    /\ broker = [i \in Ingests |-> 0]
    /\ run = [p \in Processes |-> NoTask]
    /\ request = [a \in Admins |-> NoRequest]
    /\ lost = {}
    /\ excused = {}
    /\ late = {}
    /\ requeues = 0
    /\ crashes = 0

-----------------------------------------------------------------------------
(* The task.  p is a worker, or an API process running it inline.          *)

\* Mutant: a message that was acknowledged is delivered once more.
TakeAcknowledged(w, i) ==
    /\ run[w] = NoTask
    /\ Live(i)
    /\ broker' = [broker EXCEPT ![i] = @ - 1]
    /\ run' = [run EXCEPT ![w] = [at |-> "started", of |-> i]]
    /\ UNCHANGED <<status, document, blobs, batches, request, lost, excused, late,
                   requeues, crashes>>

\* A worker takes a message; acks_late keeps it unacknowledged meanwhile.
\* repo.get: a task whose record is gone returns at once.
Take(w, i) ==
    /\ run[w] = NoTask
    /\ broker[i] > 0
    /\ broker' = [broker EXCEPT ![i] = @ - 1]
    /\ run' = IF Live(i)
                THEN [run EXCEPT ![w] = [at |-> "started", of |-> i]]
                ELSE run
    /\ UNCHANGED <<status, document, blobs, batches, request, lost, excused, late,
                   requeues, crashes>>

\* A status update of the task: on a deleted record it raises KeyError, and so
\* does the update of the except clause, which ends the task.
Report(p, s, next) ==
    LET i == run[p].of IN
    /\ IF Live(i)
         THEN SetStatus(i, s) /\ (IF next = "idle" THEN EndTask(p) ELSE Step(p, next))
         ELSE EndTask(p) /\ UNCHANGED status
    /\ UNCHANGED <<document, blobs, batches, broker, request, lost, excused, late,
                   requeues, crashes>>

Extract(p) == run[p].at = "started" /\ Report(p, "extracting", "reading")

\* object_store.get and extract_text: the blob may be gone, the file unreadable.
ReadBlob(p) ==
    /\ run[p].at = "reading"
    /\ \/ run[p].of \in blobs /\ Step(p, "extracted")
       \/ Step(p, "failing")
    /\ UNCHANGED <<status, document, blobs, batches, broker, request, lost,
                   excused, late, requeues, crashes>>

Embed(p) == run[p].at = "extracted" /\ Report(p, "embedding", "indexing")

\* ingest_extracted_text: the embedding provider may fail; otherwise all chunks
\* are inserted in one transaction, whether or not the record still exists.
Index(p) ==
    LET i == run[p].of IN
    /\ run[p].at = "indexing"
    /\ \/ /\ batches' = [batches EXCEPT ![i] = @ + 1]
          /\ late' = IF Live(i) THEN late ELSE late \cup {document[i]}
          /\ Step(p, "indexed")
       \/ Step(p, "failing") /\ UNCHANGED <<batches, late>>
    /\ UNCHANGED <<status, document, blobs, broker, request, lost, excused,
                   requeues, crashes>>

Finish(p) == run[p].at = "indexed" /\ Report(p, "done", "idle")

\* Mutant: the except clause logs and returns without marking the record.
FailSilently(p) ==
    /\ run[p].at = "failing"
    /\ EndTask(p)
    /\ UNCHANGED <<status, document, blobs, batches, broker, request, lost,
                   excused, late, requeues, crashes>>

Fail(p) == run[p].at = "failing" /\ Report(p, "failed", "idle")

TaskStep(p) ==
    Extract(p) \/ ReadBlob(p) \/ Embed(p) \/ Index(p) \/ Finish(p) \/ Fail(p)

-----------------------------------------------------------------------------
(* upload_document                                                         *)

\* The blob is stored first, under a key of this ingest's own.
PutBlob(a, i) ==
    /\ request[a] = NoRequest
    /\ status[i] = "absent"
    /\ i \notin blobs
    /\ blobs' = blobs \cup {i}
    /\ request' = [request EXCEPT ![a] = [at |-> "create", of |-> i, todo |-> {}]]
    /\ UNCHANGED <<status, document, batches, broker, run, lost, excused, late,
                   requeues, crashes>>

CreateRecord(a) ==
    LET i == request[a].of IN
    /\ request[a].at = "create"
    /\ SetStatus(i, "queued")
    /\ \E d \in Documents : document' = [document EXCEPT ![i] = d]
    /\ Goto(a, "dispatch")
    /\ UNCHANGED <<blobs, batches, broker, run, lost, excused, late, requeues, crashes>>

-----------------------------------------------------------------------------
(* _dispatch_ingest                                                        *)

\* The caller goes on with its next target, or answers.
Return(a) ==
    request' = [request EXCEPT ![a] =
                  IF request[a].todo = {} THEN NoRequest
                  ELSE [at |-> "next", of |-> None, todo |-> request[a].todo]]

\* Mutant: a publish error is logged and nothing is run inline.
DispatchSwallows(a) ==
    LET i == request[a].of IN
    /\ request[a].at = "dispatch"
    /\ broker' \in {broker, [broker EXCEPT ![i] = @ + 1]}
    /\ Return(a)
    /\ UNCHANGED <<status, document, blobs, batches, run, lost, excused, late,
                   requeues, crashes>>

\* delay publishes the message, or raises and the task is run inline.
Dispatch(a) ==
    LET i == request[a].of IN
    /\ request[a].at = "dispatch"
    /\ \/ /\ broker' = [broker EXCEPT ![i] = @ + 1]
          /\ Return(a)
          /\ UNCHANGED run
       \/ /\ Goto(a, "inline")
          /\ run' = IF Live(i)
                      THEN [run EXCEPT ![a] = [at |-> "started", of |-> i]]
                      ELSE run
          /\ UNCHANGED broker
    /\ UNCHANGED <<status, document, blobs, batches, lost, excused, late, requeues,
                   crashes>>

\* apply(throw=False) returns once the inline task has ended, however it ended.
InlineReturns(a) ==
    /\ request[a].at = "inline"
    /\ run[a] = NoTask
    /\ Return(a)
    /\ UNCHANGED <<status, document, blobs, batches, broker, run, lost, excused, late,
                   requeues, crashes>>

\* apply itself raises: the record is marked failed, a missing one is let be.
DispatchFails(a) ==
    LET i == request[a].of IN
    /\ request[a].at = "dispatch"
    /\ IF Live(i) THEN SetStatus(i, "failed") ELSE UNCHANGED status
    /\ Return(a)
    /\ UNCHANGED <<document, blobs, batches, broker, run, lost, excused, late,
                   requeues, crashes>>

-----------------------------------------------------------------------------
(* requeue_document and requeue_stuck_documents                            *)

Requeueable == {"queued", "failed"}

\* One record, or every requeueable one; the statuses are read once.
ReadForRequeue(a) ==
    LET stuck == {i \in Ingests : status[i] \in Requeueable} IN
    /\ request[a] = NoRequest
    /\ requeues < MaxRequeues
    /\ requeues' = requeues + 1
    /\ \E targets \in {stuck} \cup {{i} : i \in stuck} :
          /\ targets # {}
          /\ request' = [request EXCEPT ![a] =
                           [at |-> "next", of |-> None, todo |-> targets]]
    /\ UNCHANGED <<status, document, blobs, batches, broker, run, lost, excused, late,
                   crashes>>

\* _requeue_one: back to queued, unless the record is gone by now.
Reset(a) ==
    /\ request[a].at = "next"
    /\ \E i \in request[a].todo :
          LET rest == request[a].todo \ {i} IN
          IF Live(i)
            THEN /\ SetStatus(i, "queued")
                 /\ request' = [request EXCEPT ![a] =
                                  [at |-> "dispatch", of |-> i, todo |-> rest]]
            ELSE /\ request' = [request EXCEPT ![a] =
                                  IF rest = {} THEN NoRequest
                                  ELSE [at |-> "next", of |-> None, todo |-> rest]]
                 /\ UNCHANGED status
    /\ UNCHANGED <<document, blobs, batches, broker, run, lost, excused, late,
                   requeues, crashes>>

-----------------------------------------------------------------------------
(* delete_document                                                         *)

\* Mutant: the blob goes before the record.
ReadForDeleteBlobFirst(a, i) ==
    /\ request[a] = NoRequest
    /\ Live(i)
    /\ blobs' = blobs \ {i}
    /\ request' = [request EXCEPT ![a] = [at |-> "drop", of |-> i, todo |-> {}]]
    /\ UNCHANGED <<status, document, batches, broker, run, lost, excused, late,
                   requeues, crashes>>

ReadForDelete(a, i) ==
    /\ request[a] = NoRequest
    /\ Live(i)
    /\ request' = [request EXCEPT ![a] = [at |-> "drop", of |-> i, todo |-> {}]]
    /\ UNCHANGED <<status, document, blobs, batches, broker, run, lost, excused, late,
                   requeues, crashes>>

DropRecord(a) ==
    /\ request[a].at = "drop"
    /\ SetStatus(request[a].of, "deleted")
    /\ Goto(a, "blob")
    /\ UNCHANGED <<document, blobs, batches, broker, run, lost, excused, late,
                   requeues, crashes>>

\* Best effort: a storage failure is logged and leaves the blob.
DropBlob(a) ==
    /\ request[a].at = "blob"
    /\ blobs' \in {blobs, blobs \ {request[a].of}}
    /\ Goto(a, "check")
    /\ UNCHANGED <<status, document, batches, broker, run, lost, excused, late,
                   requeues, crashes>>

Siblings(i) == {j \in Ingests : Live(j) /\ document[j] = document[i]}

\* Mutant: a sibling that was deleted before still counts.
CheckSiblingsEver(a) ==
    LET i == request[a].of IN
    /\ request[a].at = "check"
    /\ IF {j \in Ingests \ {i} : document[j] = document[i]} = {}
         THEN Goto(a, "purge")
         ELSE request' = [request EXCEPT ![a] = NoRequest]
    /\ UNCHANGED <<status, document, blobs, batches, broker, run, lost, excused,
                   late, requeues, crashes>>

\* Mutant: the chunks are purged whatever records the document still has.
CheckNoSiblings(a) ==
    /\ request[a].at = "check"
    /\ Goto(a, "purge")
    /\ UNCHANGED <<status, document, blobs, batches, broker, run, lost, excused,
                   late, requeues, crashes>>

\* Chunks are purged only when no record is left for the document.
CheckSiblings(a) ==
    /\ request[a].at = "check"
    /\ IF Siblings(request[a].of) = {}
         THEN Goto(a, "purge")
         ELSE request' = [request EXCEPT ![a] = NoRequest]
    /\ UNCHANGED <<status, document, blobs, batches, broker, run, lost, excused, late,
                   requeues, crashes>>

\* delete_document of the vector store, after an await; best effort as well.
Purge(a) ==
    LET d == document[request[a].of] IN
    /\ request[a].at = "purge"
    /\ \/ /\ batches' = [j \in Ingests |-> IF document[j] = d THEN 0 ELSE batches[j]]
          /\ UNCHANGED excused
       \/ excused' = excused \cup {d} /\ UNCHANGED batches
    /\ request' = [request EXCEPT ![a] = NoRequest]
    /\ UNCHANGED <<status, document, blobs, broker, run, lost, late, requeues,
                   crashes>>

-----------------------------------------------------------------------------
(* Crashes.  A task killed with its worker is delivered again, or, when    *)
(* only the child process died, acknowledged and gone.  An exception out   *)
(* of the last status update ends a task the same way.                     *)
WorkerCrash(w) ==
    LET i == run[w].of IN
    /\ run[w] # NoTask
    /\ crashes < MaxCrashes
    /\ crashes' = crashes + 1
    /\ \/ broker' = [broker EXCEPT ![i] = @ + 1] /\ UNCHANGED lost
       \/ lost' = lost \cup {i} /\ UNCHANGED broker
    /\ EndTask(w)
    /\ UNCHANGED <<status, document, blobs, batches, request, excused, late, requeues>>

\* The request and the task it runs inline are gone.
ApiCrash(a) ==
    LET i == request[a].of IN
    /\ request[a] # NoRequest
    /\ crashes < MaxCrashes
    /\ crashes' = crashes + 1
    /\ lost' = IF request[a].at \in {"dispatch", "inline"}
                 THEN lost \cup {i} ELSE lost
    /\ excused' = IF request[a].at \in {"blob", "check", "purge"}
                    THEN excused \cup {document[i]} ELSE excused
    /\ request' = [request EXCEPT ![a] = NoRequest]
    /\ EndTask(a)
    /\ UNCHANGED <<status, document, blobs, batches, broker, late, requeues>>

-----------------------------------------------------------------------------
Upload(a) == (\E i \in Ingests : PutBlob(a, i)) \/ CreateRecord(a)

Delete(a) ==
    \/ \E i \in Ingests : ReadForDelete(a, i)
    \/ DropRecord(a) \/ DropBlob(a) \/ CheckSiblings(a) \/ Purge(a)

Requeue(a) == ReadForRequeue(a) \/ Reset(a)

DispatchStep(a) == Dispatch(a) \/ InlineReturns(a) \/ DispatchFails(a)

WorkerStep(w) == (\E i \in Ingests : Take(w, i)) \/ TaskStep(w)

Next ==
    \/ \E w \in Workers : WorkerStep(w) \/ WorkerCrash(w)
    \/ \E a \in Admins :
          \/ Upload(a) \/ Delete(a) \/ Requeue(a) \/ DispatchStep(a)
          \/ TaskStep(a) \/ ApiCrash(a)

Spec == Init /\ [][Next]_vars

\* Fairness: a process goes on with the task or request it has begun, and a
\* worker that stays free takes a waiting message (one fair worker each: FIFO).
FairSpec ==
    /\ Spec
    /\ \A w \in Workers : WF_vars(TaskStep(w))
    /\ \A i \in Ingests : WF_vars(\E w \in Workers : Take(w, i))
    /\ \A a \in Admins :
          WF_vars(TaskStep(a) \/ DispatchStep(a) \/ CreateRecord(a) \/ Reset(a)
                  \/ DropRecord(a) \/ DropBlob(a) \/ CheckSiblings(a) \/ Purge(a))

-----------------------------------------------------------------------------
TypeOK ==
    /\ status \in [Ingests -> Stored \cup NoRecord]
    /\ document \in [Ingests -> Documents \cup {None}]
    /\ blobs \subseteq Ingests
    /\ batches \in [Ingests -> Nat]
    /\ broker \in [Ingests -> Nat]
    /\ run \in [Processes -> Tasks]
    /\ request \in [Admins -> Requests]
    /\ lost \subseteq Ingests
    /\ excused \subseteq Documents \cup {None}
    /\ late \subseteq Documents \cup {None}
    /\ requeues \in 0..MaxRequeues
    /\ crashes \in 0..MaxCrashes

\* Somebody still has to do something for i: a message waits, a process runs
\* its task, or a request is about to dispatch it.
Attended(i) ==
    \/ broker[i] > 0
    \/ \E p \in Processes : run[p].of = i
    \/ \E a \in Admins : request[a].at = "dispatch" /\ request[a].of = i

\* No record is stranded: whatever requeues, inline runs, failures and double
\* runs overlap, a record that is not done or failed is attended, unless a crash
\* destroyed its task or its dispatch.  The routes refuse to requeue an
\* "extracting" or "embedding" record, so nothing else would ever move it.
NothingStrands ==
    \A i \in Ingests : status[i] \in Moving => Attended(i) \/ i \in lost

\* Upload stores the blob before the record, deletion drops the record before
\* the blob: a requeued task always finds the file of its record.
RecordHasBlob == \A i \in Ingests : Live(i) => i \in blobs

\* The chunks of a document go with its last record, however deletions of its
\* siblings overlap; only a failed purge, a crash within a deletion or a task
\* that inserts after the record was dropped leaves any.
Purging(d) ==
    \E a \in Admins : /\ request[a].at \in {"blob", "check", "purge"}
                      /\ document[request[a].of] = d
Orphaned(i) ==
    batches[i] > 0 /\ Siblings(i) = {} /\ ~ Purging(document[i])
ChunksGoWithLastRecord ==
    \A i \in Ingests : Orphaned(i) => document[i] \in excused \cup late

\* A record that says "done" has its chunks in the store.  Purge spares "a
\* surviving duplicate's search results" (routes_admin_documents.py:164).  Holds
\* for one admin request at a time.
DoneIsSearchable == \A i \in Ingests : status[i] = "done" => batches[i] > 0

\* delete_document removes "its ingest record, the stored blob, and - when no
\* sibling ingest still represents the same document_id - its indexed vector
\* chunks" (:143): where no purge failed, no chunk outlives the last record.
DeletionPurges == \A i \in Ingests : Orphaned(i) => document[i] \in excused

\* A record that is not done or failed becomes so, or is deleted, unless a crash
\* destroyed its task.
Settles ==
    \A i \in Ingests :
       status[i] \in Moving ~> status[i] \notin Moving \/ i \in lost
=============================================================================
