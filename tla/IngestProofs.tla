---------------------------- MODULE IngestProofs ----------------------------
(***************************************************************************)
(* Theorems about Ingest for every set of uploads, documents, workers and  *)
(* admin requests, and every bound on requeues and crashes.                *)
(***************************************************************************)
EXTENDS Ingest, TLAPS

-----------------------------------------------------------------------------
(* Building blocks.                                                        *)

RunOK == run \in [Processes -> Tasks]
RequestOK == request \in [Admins -> Requests]

\* A task in progress is a task of some ingest.
LEMMA TaskShape ==
    ASSUME RunOK, NEW p \in Processes, run[p] # NoTask
    PROVE  /\ run[p].at \in TaskSteps
           /\ run[p].of \in Ingests
  BY DEF RunOK, Tasks, NoTask

\* A request that is at a step of one ingest names that ingest.
LEMMA RequestShape ==
    ASSUME RequestOK, NEW a \in Admins, request[a].at \in RequestSteps
    PROVE  /\ request[a].of \in Ingests
           /\ request[a].todo \subseteq Ingests
<1>1. request[a] \in Requests
  BY DEF RequestOK
<1>2. request[a].at \notin {"idle", "next"}
  BY DEF RequestSteps
<1> QED
  BY <1>1, <1>2 DEF Requests

\* A request between two targets still names its targets.
LEMMA LoopShape ==
    ASSUME RequestOK, NEW a \in Admins, request[a].at = "next"
    PROVE  request[a].todo \subseteq Ingests
<1>1. request[a] \in Requests
  BY DEF RequestOK
<1> QED
  BY <1>1 DEF Requests, RequestSteps

LEMMA GotoTyped ==
    ASSUME RequestOK, NEW a \in Admins, request[a].at \in RequestSteps,
           NEW at \in RequestSteps, Goto(a, at)
    PROVE  RequestOK'
<1>1. [request[a] EXCEPT !.at = at] \in Requests
  <2>1. request[a] \in [at : RequestSteps, of : Ingests, todo : SUBSET Ingests]
    <3>1. request[a] \in Requests
      BY DEF RequestOK
    <3> QED
      BY <3>1 DEF Requests, RequestSteps
  <2> QED
    BY <2>1 DEF Requests
<1> QED
  BY <1>1 DEF RequestOK, Goto

\* Moving a request to a freshly built position.
LEMMA NoRequestTyped == NoRequest \in Requests
  BY DEF NoRequest, Requests

LEMMA AtTyped ==
    ASSUME NEW at \in RequestSteps, NEW i \in Ingests, NEW t \in SUBSET Ingests
    PROVE  [at |-> at, of |-> i, todo |-> t] \in Requests
  BY DEF Requests

LEMMA NextTyped ==
    ASSUME NEW t \in SUBSET Ingests
    PROVE  [at |-> "next", of |-> None, todo |-> t] \in Requests
  BY DEF Requests

LEMMA ReturnTyped ==
    ASSUME RequestOK, NEW a \in Admins, request[a].at \in RequestSteps, Return(a)
    PROVE  RequestOK'
<1>1. request[a].todo \in SUBSET Ingests
  BY RequestShape
<1> QED
  BY <1>1, NoRequestTyped, NextTyped DEF Return, RequestOK

LEMMA EndTaskTyped ==
    ASSUME RunOK, NEW p \in Processes, EndTask(p)
    PROVE  RunOK'
  BY DEF RunOK, EndTask, Tasks, NoTask

LEMMA StepTyped ==
    ASSUME RunOK, NEW p \in Processes, run[p] # NoTask, NEW at \in TaskSteps,
           Step(p, at)
    PROVE  RunOK'
<1>1. [run[p] EXCEPT !.at = at] \in Tasks
  BY DEF RunOK, Tasks, NoTask
<1> QED
  BY <1>1 DEF RunOK, Step

LEMMA StartTyped ==
    ASSUME RunOK, NEW p \in Processes, NEW i \in Ingests,
           run' = [run EXCEPT ![p] = [at |-> "started", of |-> i]]
    PROVE  RunOK'
  BY DEF RunOK, Tasks, TaskSteps

-----------------------------------------------------------------------------
(* The invariant is of the right type in every reachable state.            *)

LEMMA TaskStepTyped ==
    ASSUME TypeOK, NEW p \in Processes, TaskStep(p)
    PROVE  TypeOK'
<1> DEFINE i == run[p].of
<1>1. run[p] # NoTask
  BY DEF TaskStep, Extract, ReadBlob, Embed, Index, Finish, Fail, NoTask
<1>2. RunOK /\ i \in Ingests
  BY <1>1, TaskShape DEF TypeOK, RunOK
<1>3. ASSUME NEW s \in Stored, NEW next \in TaskSteps \cup {"idle"},
             Report(p, s, next)
      PROVE  TypeOK'
  <2>1. RunOK'
    BY <1>1, <1>2, <1>3, EndTaskTyped, StepTyped DEF Report
  <2>2. status' \in [Ingests -> Stored \cup NoRecord]
    BY <1>2, <1>3 DEF Report, SetStatus, TypeOK
  <2> QED
    BY <2>1, <2>2, <1>3 DEF Report, TypeOK, RunOK
<1>4. CASE Extract(p)
  BY <1>3, <1>4 DEF Extract, Stored, Moving, TaskSteps
<1>5. CASE ReadBlob(p)
  <2>1. RunOK'
    BY <1>1, <1>2, <1>5, StepTyped DEF ReadBlob, TaskSteps
  <2> QED
    BY <2>1, <1>5 DEF ReadBlob, TypeOK, RunOK
<1>6. CASE Embed(p)
  BY <1>3, <1>6 DEF Embed, Stored, Moving, TaskSteps
<1>7. CASE Index(p)
  <2>1. RunOK'
    BY <1>1, <1>2, <1>7, StepTyped DEF Index, TaskSteps
  <2>2. batches' \in [Ingests -> Nat]
    BY <1>2, <1>7 DEF Index, TypeOK
  <2>3. late' \subseteq Documents \cup {None}
    BY <1>2, <1>7 DEF Index, TypeOK
  <2> QED
    BY <2>1, <2>2, <2>3, <1>7 DEF Index, TypeOK, RunOK
<1>8. CASE Finish(p)
  BY <1>3, <1>8 DEF Finish, Stored
<1>9. CASE Fail(p)
  BY <1>3, <1>9 DEF Fail, Stored
<1> QED
  BY <1>4, <1>5, <1>6, <1>7, <1>8, <1>9 DEF TaskStep

LEMMA WorkerTyped ==
    ASSUME TypeOK, NEW w \in Workers, NEW i \in Ingests, Take(w, i)
    PROVE  TypeOK'
<1>1. RunOK'
  BY StartTyped DEF Take, TypeOK, RunOK, Processes
<1>2. broker' \in [Ingests -> Nat]
  BY DEF Take, TypeOK
<1> QED
  BY <1>1, <1>2 DEF Take, TypeOK, RunOK

LEMMA UploadTyped ==
    ASSUME TypeOK, NEW a \in Admins, Upload(a)
    PROVE  TypeOK'
<1>1. ASSUME NEW i \in Ingests, PutBlob(a, i)
      PROVE  TypeOK'
  <2>1. [at |-> "create", of |-> i, todo |-> {}] \in Requests
    BY AtTyped DEF RequestSteps
  <2> QED
    BY <1>1, <2>1 DEF PutBlob, TypeOK
<1>2. CASE CreateRecord(a)
  <2>1. RequestOK /\ request[a].at \in RequestSteps
    BY <1>2 DEF CreateRecord, TypeOK, RequestOK, RequestSteps
  <2>2. request[a].of \in Ingests
    BY <2>1, RequestShape
  <2>3. RequestOK'
    BY <1>2, <2>1, GotoTyped DEF CreateRecord, RequestSteps
  <2>4. status' \in [Ingests -> Stored \cup NoRecord]
    BY <1>2, <2>2 DEF CreateRecord, SetStatus, TypeOK, Stored, Moving
  <2>5. document' \in [Ingests -> Documents \cup {None}]
    BY <1>2, <2>2 DEF CreateRecord, TypeOK
  <2> QED
    BY <1>2, <2>3, <2>4, <2>5 DEF CreateRecord, TypeOK, RequestOK
<1> QED
  BY <1>1, <1>2 DEF Upload

LEMMA DispatchTyped ==
    ASSUME TypeOK, NEW a \in Admins, DispatchStep(a)
    PROVE  TypeOK'
<1> DEFINE i == request[a].of
<1>1. RequestOK /\ RunOK /\ request[a].at \in RequestSteps /\ a \in Processes
  BY DEF DispatchStep, Dispatch, InlineReturns, DispatchFails, TypeOK,
         RequestOK, RunOK, RequestSteps, Processes
<1>2. i \in Ingests
  BY <1>1, RequestShape
<1>3. CASE Dispatch(a)
  <2>1. RequestOK'
    BY <1>1, <1>3, ReturnTyped, GotoTyped DEF Dispatch, RequestSteps
  <2>2. RunOK'
    BY <1>1, <1>2, <1>3, StartTyped DEF Dispatch, RunOK
  <2>3. broker' \in [Ingests -> Nat]
    BY <1>2, <1>3 DEF Dispatch, TypeOK
  <2> QED
    BY <1>3, <2>1, <2>2, <2>3 DEF Dispatch, TypeOK, RequestOK, RunOK
<1>4. CASE InlineReturns(a)
  <2>1. RequestOK'
    BY <1>1, <1>4, ReturnTyped DEF InlineReturns
  <2> QED
    BY <1>4, <2>1 DEF InlineReturns, TypeOK, RequestOK
<1>5. CASE DispatchFails(a)
  <2>1. RequestOK'
    BY <1>1, <1>5, ReturnTyped DEF DispatchFails
  <2>2. status' \in [Ingests -> Stored \cup NoRecord]
    BY <1>2, <1>5 DEF DispatchFails, SetStatus, TypeOK, Stored
  <2> QED
    BY <1>5, <2>1, <2>2 DEF DispatchFails, TypeOK, RequestOK
<1> QED
  BY <1>3, <1>4, <1>5 DEF DispatchStep

LEMMA RequeueTyped ==
    ASSUME TypeOK, NEW a \in Admins, Requeue(a)
    PROVE  TypeOK'
<1>1. CASE ReadForRequeue(a)
  <2>1. PICK t \in SUBSET Ingests :
           request' = [request EXCEPT ![a] =
                         [at |-> "next", of |-> None, todo |-> t]]
    BY <1>1 DEF ReadForRequeue
  <2>2. request' \in [Admins -> Requests]
    BY <2>1, NextTyped DEF TypeOK
  <2>3. requeues' \in 0..MaxRequeues
    BY <1>1, ConstantsAssumption DEF ReadForRequeue, TypeOK
  <2> QED
    BY <1>1, <2>2, <2>3 DEF ReadForRequeue, TypeOK
<1>2. CASE Reset(a)
  <2>1. request[a].todo \in SUBSET Ingests
    BY <1>2, LoopShape DEF Reset, TypeOK, RequestOK
  <2>2. PICK i \in request[a].todo :
          LET rest == request[a].todo \ {i} IN
          IF Live(i)
            THEN /\ SetStatus(i, "queued")
                 /\ request' = [request EXCEPT ![a] =
                                  [at |-> "dispatch", of |-> i, todo |-> rest]]
            ELSE /\ request' = [request EXCEPT ![a] =
                                  IF rest = {} THEN NoRequest
                                  ELSE [at |-> "next", of |-> None, todo |-> rest]]
                 /\ UNCHANGED status
    BY <1>2 DEF Reset
  <2> DEFINE rest == request[a].todo \ {i}
  <2>3. i \in Ingests /\ rest \in SUBSET Ingests
    BY <2>1
  <2>4. [at |-> "dispatch", of |-> i, todo |-> rest] \in Requests
    BY <2>3, AtTyped DEF RequestSteps
  <2>5. [at |-> "next", of |-> None, todo |-> rest] \in Requests
    BY <2>3, NextTyped
  <2>6. request' \in [Admins -> Requests]
    BY <2>2, <2>4, <2>5, NoRequestTyped DEF TypeOK
  <2>7. status' \in [Ingests -> Stored \cup NoRecord]
    BY <2>2, <2>3 DEF SetStatus, TypeOK, Stored, Moving
  <2> QED
    BY <1>2, <2>6, <2>7 DEF Reset, TypeOK
<1> QED
  BY <1>1, <1>2 DEF Requeue

LEMMA DeleteTyped ==
    ASSUME TypeOK, NEW a \in Admins, Delete(a)
    PROVE  TypeOK'
<1>1. ASSUME NEW i \in Ingests, ReadForDelete(a, i)
      PROVE  TypeOK'
  <2>1. [at |-> "drop", of |-> i, todo |-> {}] \in Requests
    BY AtTyped DEF RequestSteps
  <2> QED
    BY <1>1, <2>1 DEF ReadForDelete, TypeOK
<1>2. ASSUME request[a].at \in RequestSteps
      PROVE  RequestOK /\ request[a].of \in Ingests
  BY <1>2, RequestShape DEF TypeOK, RequestOK
<1>3. CASE DropRecord(a)
  <2>1. RequestOK'
    BY <1>2, <1>3, GotoTyped DEF DropRecord, RequestSteps
  <2>2. status' \in [Ingests -> Stored \cup NoRecord]
    BY <1>2, <1>3 DEF DropRecord, SetStatus, TypeOK, NoRecord, RequestSteps
  <2> QED
    BY <1>3, <2>1, <2>2 DEF DropRecord, TypeOK, RequestOK
<1>4. CASE DropBlob(a)
  <2>1. RequestOK'
    BY <1>2, <1>4, GotoTyped DEF DropBlob, RequestSteps
  <2> QED
    BY <1>4, <2>1 DEF DropBlob, TypeOK, RequestOK
<1>5. CASE CheckSiblings(a)
  <2>1. RequestOK'
    BY <1>2, <1>5, GotoTyped, NoRequestTyped
    DEF CheckSiblings, RequestSteps, RequestOK
  <2> QED
    BY <1>5, <2>1 DEF CheckSiblings, TypeOK, RequestOK
<1>6. CASE Purge(a)
  <2>1. request' \in [Admins -> Requests]
    BY <1>6, NoRequestTyped DEF Purge, TypeOK
  <2>2. batches' \in [Ingests -> Nat]
    BY <1>6 DEF Purge, TypeOK
  <2>3. excused' \subseteq Documents \cup {None}
    BY <1>2, <1>6 DEF Purge, TypeOK, RequestSteps
  <2> QED
    BY <1>6, <2>1, <2>2, <2>3 DEF Purge, TypeOK
<1> QED
  BY <1>1, <1>3, <1>4, <1>5, <1>6 DEF Delete

LEMMA CrashTyped ==
    ASSUME TypeOK,
           \/ \E w \in Workers : WorkerCrash(w)
           \/ \E a \in Admins : ApiCrash(a)
    PROVE  TypeOK'
<1>1. ASSUME NEW w \in Workers, WorkerCrash(w)
      PROVE  TypeOK'
  <2>1. RunOK /\ w \in Processes
    BY DEF TypeOK, RunOK, Processes
  <2>2. run[w].of \in Ingests
    BY <1>1, <2>1, TaskShape DEF WorkerCrash
  <2>3. RunOK'
    BY <1>1, <2>1, EndTaskTyped DEF WorkerCrash
  <2>4. broker' \in [Ingests -> Nat] /\ lost' \subseteq Ingests
    BY <1>1, <2>2 DEF WorkerCrash, TypeOK
  <2>5. crashes' \in 0..MaxCrashes
    BY <1>1, ConstantsAssumption DEF WorkerCrash, TypeOK
  <2> QED
    BY <1>1, <2>3, <2>4, <2>5 DEF WorkerCrash, TypeOK, RunOK
<1>2. ASSUME NEW a \in Admins, ApiCrash(a)
      PROVE  TypeOK'
  <2>1. RunOK /\ a \in Processes /\ RequestOK
    BY DEF TypeOK, RunOK, RequestOK, Processes
  <2>2. RunOK'
    BY <1>2, <2>1, EndTaskTyped DEF ApiCrash
  <2>3. lost' \subseteq Ingests /\ excused' \subseteq Documents \cup {None}
    BY <1>2, <2>1, RequestShape DEF ApiCrash, TypeOK, RequestSteps
  <2>4. request' \in [Admins -> Requests]
    BY <1>2, NoRequestTyped DEF ApiCrash, TypeOK
  <2>5. crashes' \in 0..MaxCrashes
    BY <1>2, ConstantsAssumption DEF ApiCrash, TypeOK
  <2> QED
    BY <1>2, <2>2, <2>3, <2>4, <2>5 DEF ApiCrash, TypeOK, RunOK
<1> QED
  BY <1>1, <1>2

\* Whatever requests, tasks and crashes overlap, the variables keep their types.
THEOREM TypeCorrect == Spec => []TypeOK
<1>1. Init => TypeOK
  BY ConstantsAssumption
  DEF Init, TypeOK, NoTask, Tasks, NoRequest, Requests, NoRecord
<1>2. TypeOK /\ [Next]_vars => TypeOK'
  <2> SUFFICES ASSUME TypeOK, [Next]_vars PROVE TypeOK'
    OBVIOUS
  <2>1. CASE UNCHANGED vars
    BY <2>1 DEF TypeOK, vars
  <2>2. ASSUME NEW w \in Workers, WorkerStep(w)
        PROVE  TypeOK'
    BY <2>2, WorkerTyped, TaskStepTyped DEF WorkerStep, Processes
  <2>3. ASSUME NEW a \in Admins, Upload(a) \/ Delete(a) \/ Requeue(a)
        PROVE  TypeOK'
    BY <2>3, UploadTyped, DeleteTyped, RequeueTyped
  <2>4. ASSUME NEW a \in Admins, DispatchStep(a) \/ TaskStep(a)
        PROVE  TypeOK'
    BY <2>4, DispatchTyped, TaskStepTyped DEF Processes
  <2> QED
    BY <2>1, <2>2, <2>3, <2>4, CrashTyped DEF Next
<1> QED
  BY <1>1, <1>2, PTL DEF Spec

-----------------------------------------------------------------------------
(* No record is stranded.  The invariant that carries the proof: a request *)
(* whose process runs a task waits for it, and for that ingest.            *)

InlineIsOwn ==
    \A a \in Admins :
       run[a] # NoTask => request[a].at = "inline" /\ request[a].of = run[a].of

StrandInv == TypeOK /\ InlineIsOwn /\ NothingStrands

\* What keeps one ingest attended: its messages, tasks and dispatches stay.
LEMMA StaysAttended ==
    ASSUME NEW i \in Ingests, Attended(i) \/ i \in lost,
           lost \subseteq lost',
           broker[i] > 0 => broker'[i] > 0 \/ Attended(i)' \/ i \in lost',
           \A p \in Processes :
              run[p].of = i => run'[p].of = i \/ Attended(i)' \/ i \in lost',
           \A a \in Admins :
              request[a].at = "dispatch" /\ request[a].of = i =>
                 \/ request'[a].at = "dispatch" /\ request'[a].of = i
                 \/ Attended(i)' \/ i \in lost'
    PROVE  Attended(i)' \/ i \in lost'
  BY DEF Attended

\* The four ways a step of a task ends, for its process and its record.
LEMMA TaskEffect ==
    ASSUME NEW p \in Processes, TaskStep(p)
    PROVE  \/ UNCHANGED status /\ \E at \in TaskSteps : Step(p, at)
           \/ UNCHANGED status /\ ~ Live(run[p].of) /\ EndTask(p)
           \/ /\ Live(run[p].of)
              /\ \E s \in Moving : SetStatus(run[p].of, s)
              /\ \E at \in TaskSteps : Step(p, at)
           \/ /\ Live(run[p].of)
              /\ \E s \in {"done", "failed"} : SetStatus(run[p].of, s)
              /\ EndTask(p)
<1>1. CASE Extract(p)
  BY <1>1 DEF Extract, Report, Moving, TaskSteps
<1>2. CASE ReadBlob(p)
  BY <1>2 DEF ReadBlob, TaskSteps
<1>3. CASE Embed(p)
  BY <1>3 DEF Embed, Report, Moving, TaskSteps
<1>4. CASE Index(p)
  BY <1>4 DEF Index, TaskSteps
<1>5. CASE Finish(p)
  BY <1>5 DEF Finish, Report
<1>6. CASE Fail(p)
  BY <1>6 DEF Fail, Report
<1> QED
  BY <1>1, <1>2, <1>3, <1>4, <1>5, <1>6 DEF TaskStep

LEMMA TaskStepAttended ==
    ASSUME StrandInv, TypeOK', NEW p \in Processes, TaskStep(p)
    PROVE  InlineIsOwn' /\ NothingStrands'
<1> DEFINE j == run[p].of
<1>1. run[p] # NoTask
  BY DEF TaskStep, Extract, ReadBlob, Embed, Index, Finish, Fail, NoTask
<1>2. j \in Ingests
  BY <1>1, TaskShape DEF StrandInv, TypeOK, RunOK
<1>3. UNCHANGED <<broker, lost, request>>
  BY DEF TaskStep, Extract, ReadBlob, Embed, Index, Finish, Fail, Report
<1>4. (\E at \in TaskSteps : Step(p, at)) \/ EndTask(p)
  BY TaskEffect
<1>5. run \in [Processes -> Tasks]
  BY DEF StrandInv, TypeOK
<1>6. \A r \in Processes : \/ run'[r] = NoTask
                           \/ run'[r].of = run[r].of /\ run[r] # NoTask
                           \/ run'[r] = run[r]
  <2>1. CASE EndTask(p)
    BY <1>5, <2>1 DEF EndTask
  <2>2. ASSUME NEW at \in TaskSteps, Step(p, at)
        PROVE  \A r \in Processes : \/ run'[r].of = run[r].of /\ run[r] # NoTask
                                    \/ run'[r] = run[r]
    <3>1. run' = [run EXCEPT ![p] = [run[p] EXCEPT !.at = at]]
      BY <2>2 DEF Step
    <3>2. [run[p] EXCEPT !.at = at].of = run[p].of
      BY <1>5 DEF Tasks
    <3> QED
      BY <1>1, <1>5, <3>1, <3>2
  <2> QED
    BY <1>4, <2>1, <2>2
<1>7. InlineIsOwn'
  BY <1>3, <1>6 DEF StrandInv, InlineIsOwn, Processes
<1>8. ASSUME NEW i \in Ingests, status'[i] \in Moving
      PROVE  Attended(i)' \/ i \in lost'
  <2>1. i # j => status[i] \in Moving
    BY <1>8, TaskEffect DEF SetStatus, StrandInv, TypeOK
  <2>2. CASE i = j /\ run'[p].of = i
    BY <2>2 DEF Attended
  <2>3. CASE i # j
    <3>1. Attended(i) \/ i \in lost
      BY <2>1, <2>3 DEF StrandInv, NothingStrands
    <3>2. \A r \in Processes \ {p} : run'[r] = run[r]
      BY <1>4, <1>5 DEF Step, EndTask
    <3>3. \A r \in Processes : run[r].of = i => run'[r].of = i
      BY <2>3, <3>2
    <3> QED
      BY <3>1, <3>3, <1>3, StaysAttended
  <2>4. CASE i = j /\ run'[p].of # i
    <3>1. ~ \E at \in TaskSteps : Step(p, at)
      BY <1>5, <2>4 DEF Step, Tasks
    <3>2. \/ UNCHANGED status /\ ~ Live(i)
          \/ \E s \in {"done", "failed"} : SetStatus(i, s)
      BY <2>4, <3>1, TaskEffect
    <3>3. status'[i] \notin Moving
      BY <3>2 DEF SetStatus, StrandInv, TypeOK, Live, Stored, Moving
    <3> QED
      BY <1>8, <3>3
  <2> QED
    BY <2>2, <2>3, <2>4
<1> QED
  BY <1>8, <1>7 DEF NothingStrands

LEMMA TakeAttended ==
    ASSUME StrandInv, NEW w \in Workers, NEW j \in Ingests, Take(w, j)
    PROVE  InlineIsOwn' /\ NothingStrands'
<1>1. run \in [Processes -> Tasks] /\ w \in Processes /\ w \notin Admins
  BY ConstantsAssumption DEF StrandInv, TypeOK, Processes
<1>2. InlineIsOwn'
  BY <1>1 DEF Take, StrandInv, InlineIsOwn
<1>3. ASSUME NEW i \in Ingests, status'[i] \in Moving
      PROVE  Attended(i)' \/ i \in lost'
  <2>1. Attended(i) \/ i \in lost
    BY <1>3 DEF Take, StrandInv, NothingStrands
  <2>2. CASE i = j
    <3>1. Live(j)
      BY <1>3, <2>2 DEF Take, Live, Stored
    <3> QED
      BY <1>1, <2>2, <3>1 DEF Take, Attended
  <2>3. CASE i # j
    <3>1. broker'[i] = broker[i]
      BY <2>3 DEF Take, StrandInv, TypeOK
    <3>2. \A p \in Processes : run[p].of = i => run'[p].of = i
      BY <1>1, ConstantsAssumption DEF Take, NoTask
    <3> QED
      BY <2>1, <3>1, <3>2, StaysAttended DEF Take
  <2> QED
    BY <2>2, <2>3
<1> QED
  BY <1>2, <1>3 DEF NothingStrands

\* A route that is not at "dispatch" or "inline" can move without anybody
\* losing attention, as long as it brings no status to Moving by itself.
LEMMA RouteAttended ==
    ASSUME StrandInv, NEW a \in Admins,
           \A b \in Admins \ {a} : request'[b] = request[b],
           request[a].at \notin {"dispatch", "inline"},
           UNCHANGED <<broker, run, lost>>,
           \A i \in Ingests :
              status'[i] \in Moving =>
                 \/ status[i] \in Moving
                 \/ request'[a].at = "dispatch" /\ request'[a].of = i
    PROVE  InlineIsOwn' /\ NothingStrands'
<1>1. InlineIsOwn'
  BY DEF StrandInv, InlineIsOwn
<1>2. ASSUME NEW i \in Ingests, status'[i] \in Moving
      PROVE  Attended(i)' \/ i \in lost'
  <2>1. CASE request'[a].at = "dispatch" /\ request'[a].of = i
    BY <2>1 DEF Attended
  <2>2. CASE status[i] \in Moving
    <3>1. Attended(i) \/ i \in lost
      BY <2>2 DEF StrandInv, NothingStrands
    <3> QED
      BY <3>1, StaysAttended
  <2> QED
    BY <1>2, <2>1, <2>2
<1> QED
  BY <1>1, <1>2 DEF NothingStrands

LEMMA UploadAttended ==
    ASSUME StrandInv, NEW a \in Admins, Upload(a)
    PROVE  InlineIsOwn' /\ NothingStrands'
<1>1. ASSUME NEW i \in Ingests, PutBlob(a, i)
      PROVE  InlineIsOwn' /\ NothingStrands'
  <2>1. \A b \in Admins \ {a} : request'[b] = request[b]
    BY <1>1 DEF PutBlob, StrandInv, TypeOK
  <2> QED
    BY <1>1, <2>1, RouteAttended DEF PutBlob, NoRequest
<1>2. CASE CreateRecord(a)
  <2>1. \A b \in Admins \ {a} : request'[b] = request[b]
    BY <1>2 DEF CreateRecord, Goto, StrandInv, TypeOK
  <2>2. request'[a].at = "dispatch" /\ request'[a].of = request[a].of
    <3>1. request[a] \in Requests
      BY DEF StrandInv, TypeOK
    <3> QED
      BY <1>2, <3>1 DEF CreateRecord, Goto, StrandInv, TypeOK, Requests
  <2>3. \A i \in Ingests : i # request[a].of => status'[i] = status[i]
    BY <1>2 DEF CreateRecord, SetStatus, StrandInv, TypeOK
  <2> QED
    BY <1>2, <2>1, <2>2, <2>3, RouteAttended DEF CreateRecord
<1> QED
  BY <1>1, <1>2 DEF Upload

LEMMA RequeueAttended ==
    ASSUME StrandInv, NEW a \in Admins, Requeue(a)
    PROVE  InlineIsOwn' /\ NothingStrands'
<1>1. CASE ReadForRequeue(a)
  <2>1. \A b \in Admins \ {a} : request'[b] = request[b]
    BY <1>1 DEF ReadForRequeue, StrandInv, TypeOK
  <2> QED
    BY <1>1, <2>1, RouteAttended DEF ReadForRequeue, NoRequest
<1>2. CASE Reset(a)
  <2>1. PICK i \in request[a].todo :
          LET rest == request[a].todo \ {i} IN
          IF Live(i)
            THEN /\ SetStatus(i, "queued")
                 /\ request' = [request EXCEPT ![a] =
                                  [at |-> "dispatch", of |-> i, todo |-> rest]]
            ELSE /\ request' = [request EXCEPT ![a] =
                                  IF rest = {} THEN NoRequest
                                  ELSE [at |-> "next", of |-> None, todo |-> rest]]
                 /\ UNCHANGED status
    BY <1>2 DEF Reset
  <2>2. \A b \in Admins \ {a} : request'[b] = request[b]
    BY <2>1 DEF StrandInv, TypeOK
  <2>3. CASE Live(i)
    <3>1. \A j \in Ingests : j # i => status'[j] = status[j]
      BY <2>1, <2>3 DEF SetStatus, StrandInv, TypeOK
    <3>2. request'[a].at = "dispatch" /\ request'[a].of = i
      BY <2>1, <2>3 DEF StrandInv, TypeOK
    <3> QED
      BY <1>2, <2>2, <3>1, <3>2, RouteAttended DEF Reset
  <2>4. CASE ~ Live(i)
    BY <1>2, <2>1, <2>4, <2>2, RouteAttended DEF Reset
  <2> QED
    BY <2>3, <2>4
<1> QED
  BY <1>1, <1>2 DEF Requeue

LEMMA DeleteAttended ==
    ASSUME StrandInv, NEW a \in Admins, Delete(a)
    PROVE  InlineIsOwn' /\ NothingStrands'
<1>1. \A b \in Admins \ {a} : request'[b] = request[b]
  BY DEF Delete, ReadForDelete, DropRecord, DropBlob, CheckSiblings, Purge, Goto,
         StrandInv, TypeOK
<1>2. request[a].at \notin {"dispatch", "inline"} /\ UNCHANGED <<broker, run, lost>>
  BY DEF Delete, ReadForDelete, DropRecord, DropBlob, CheckSiblings, Purge, NoRequest
<1>3. \A i \in Ingests : status'[i] \in Moving => status[i] \in Moving
  BY DEF Delete, ReadForDelete, DropRecord, DropBlob, CheckSiblings, Purge,
         SetStatus, StrandInv, TypeOK, Moving
<1> QED
  BY <1>1, <1>2, <1>3, RouteAttended

LEMMA DispatchAttended ==
    ASSUME StrandInv, NEW a \in Admins, DispatchStep(a)
    PROVE  InlineIsOwn' /\ NothingStrands'
<1> DEFINE j == request[a].of
<1>1. \A b \in Admins \ {a} : request'[b] = request[b]
  BY DEF DispatchStep, Dispatch, InlineReturns, DispatchFails, Return, Goto,
         StrandInv, TypeOK
<1>2. a \in Processes /\ run \in [Processes -> Tasks] /\ j \in Ingests
  BY RequestShape DEF DispatchStep, Dispatch, InlineReturns, DispatchFails,
     StrandInv, TypeOK, RequestOK, RequestSteps, Processes
<1>3. run[a] = NoTask /\ lost' = lost
  BY DEF DispatchStep, Dispatch, InlineReturns, DispatchFails, StrandInv, InlineIsOwn
<1>4. /\ \A p \in Processes \ {a} : run'[p] = run[p]
      /\ run'[a] = NoTask \/ (request'[a].at = "inline" /\ request'[a].of = run'[a].of)
  <2>1. CASE run' = run
    BY <1>3, <2>1
  <2>2. CASE run' # run
    <3>1. run' = [run EXCEPT ![a] = [at |-> "started", of |-> j]] /\ Goto(a, "inline")
      BY <2>2 DEF DispatchStep, Dispatch, InlineReturns, DispatchFails
    <3>2. request'[a] = [request[a] EXCEPT !.at = "inline"] /\ request[a] \in Requests
      BY <3>1 DEF Goto, StrandInv, TypeOK
    <3>3. request'[a].at = "inline" /\ request'[a].of = j
      BY <3>2 DEF Requests
    <3> QED
      BY <1>2, <3>1, <3>3
  <2> QED
    BY <2>1, <2>2
<1>5. InlineIsOwn'
  BY <1>1, <1>4 DEF StrandInv, InlineIsOwn, Processes
<1>6. \A i \in Ingests : broker[i] > 0 => broker'[i] > 0
  BY <1>2 DEF DispatchStep, Dispatch, InlineReturns, DispatchFails, StrandInv, TypeOK
<1>7. ASSUME NEW i \in Ingests, status'[i] \in Moving
      PROVE  Attended(i)' \/ i \in lost'
  <2>1. status[i] \in Moving
    BY <1>2, <1>7
    DEF DispatchStep, Dispatch, InlineReturns, DispatchFails, SetStatus,
        StrandInv, TypeOK, Moving
  <2>2. Attended(i) \/ i \in lost
    BY <2>1 DEF StrandInv, NothingStrands
  <2>3. request[a].at = "dispatch" /\ j = i => Attended(i)'
    <3> SUFFICES ASSUME request[a].at = "dispatch", j = i PROVE Attended(i)'
      OBVIOUS
    <3>1. Live(i)
      BY <2>1 DEF Live, Stored
    <3>2. \/ broker' = [broker EXCEPT ![i] = @ + 1]
          \/ run' = [run EXCEPT ![a] = [at |-> "started", of |-> i]]
          \/ SetStatus(i, "failed")
      BY <3>1 DEF DispatchStep, Dispatch, InlineReturns, DispatchFails
    <3>3. ~ SetStatus(i, "failed")
      BY <1>7 DEF SetStatus, StrandInv, TypeOK, Moving
    <3>4. CASE broker' = [broker EXCEPT ![i] = @ + 1]
      BY <3>4 DEF StrandInv, TypeOK, Attended
    <3>5. CASE run' = [run EXCEPT ![a] = [at |-> "started", of |-> i]]
      BY <1>2, <3>5 DEF Attended
    <3> QED
      BY <3>2, <3>3, <3>4, <3>5
  <2>4. \A p \in Processes : run[p].of = i => run'[p].of = i
    BY <1>3, <1>4, ConstantsAssumption DEF NoTask
  <2> QED
    BY <1>1, <1>3, <1>6, <2>2, <2>3, <2>4, StaysAttended
<1> QED
  BY <1>5, <1>7 DEF NothingStrands

LEMMA CrashAttended ==
    ASSUME StrandInv,
           \/ \E w \in Workers : WorkerCrash(w)
           \/ \E a \in Admins : ApiCrash(a)
    PROVE  InlineIsOwn' /\ NothingStrands'
<1>1. ASSUME NEW w \in Workers, WorkerCrash(w)
      PROVE  InlineIsOwn' /\ NothingStrands'
  <2> DEFINE j == run[w].of
  <2>1. w \in Processes /\ w \notin Admins /\ run \in [Processes -> Tasks]
    BY ConstantsAssumption DEF Processes, StrandInv, TypeOK
  <2>2. j \in Ingests
    BY <1>1, <2>1, TaskShape DEF WorkerCrash, RunOK
  <2>3. \A p \in Processes \ {w} : run'[p] = run[p]
    BY <1>1, <2>1 DEF WorkerCrash, EndTask
  <2>4. InlineIsOwn'
    BY <1>1, <2>1, <2>3 DEF WorkerCrash, StrandInv, InlineIsOwn, Processes
  <2>5. \A i \in Ingests : broker[i] > 0 => broker'[i] > 0
    BY <1>1, <2>2 DEF WorkerCrash, StrandInv, TypeOK
  <2>6. broker'[j] > 0 \/ j \in lost'
    BY <1>1, <2>2 DEF WorkerCrash, StrandInv, TypeOK
  <2>7. ASSUME NEW i \in Ingests, status'[i] \in Moving
        PROVE  Attended(i)' \/ i \in lost'
    <3>1. Attended(i) \/ i \in lost
      BY <1>1, <2>7 DEF WorkerCrash, StrandInv, NothingStrands
    <3>2. \A p \in Processes :
             run[p].of = i => run'[p].of = i \/ Attended(i)' \/ i \in lost'
      <4>1. CASE i = j
        BY <2>6, <4>1 DEF Attended
      <4>2. CASE i # j
        BY <2>3, <4>2
      <4> QED
        BY <4>1, <4>2
    <3>3. lost \subseteq lost' /\ UNCHANGED request
      BY <1>1 DEF WorkerCrash
    <3> QED
      BY <2>5, <3>1, <3>2, <3>3, StaysAttended
  <2> QED
    BY <2>4, <2>7 DEF NothingStrands
<1>2. ASSUME NEW a \in Admins, ApiCrash(a)
      PROVE  InlineIsOwn' /\ NothingStrands'
  <2> DEFINE j == request[a].of
  <2>1. a \in Processes /\ run \in [Processes -> Tasks]
    BY DEF Processes, StrandInv, TypeOK
  <2>2. /\ \A p \in Processes \ {a} : run'[p] = run[p]
        /\ run'[a] = NoTask
    BY <1>2, <2>1 DEF ApiCrash, EndTask
  <2>3. \A b \in Admins \ {a} : request'[b] = request[b]
    BY <1>2 DEF ApiCrash, StrandInv, TypeOK
  <2>4. InlineIsOwn'
    BY <2>2, <2>3 DEF StrandInv, InlineIsOwn, Processes
  <2>5. request[a].at \in {"dispatch", "inline"} => j \in lost'
    BY <1>2 DEF ApiCrash
  <2>6. \A i \in Ingests : run[a].of = i => i \in lost'
    BY <2>5, ConstantsAssumption DEF StrandInv, InlineIsOwn, NoTask
  <2>7. ASSUME NEW i \in Ingests, status'[i] \in Moving
        PROVE  Attended(i)' \/ i \in lost'
    <3>1. Attended(i) \/ i \in lost
      BY <1>2, <2>7 DEF ApiCrash, StrandInv, NothingStrands
    <3>2. \A p \in Processes : run[p].of = i => run'[p].of = i \/ i \in lost'
      BY <2>2, <2>6
    <3>3. lost \subseteq lost' /\ UNCHANGED broker
      BY <1>2 DEF ApiCrash
    <3> QED
      BY <2>3, <2>5, <3>1, <3>2, <3>3, StaysAttended
  <2> QED
    BY <2>4, <2>7 DEF NothingStrands
<1> QED
  BY <1>1, <1>2

\* A record that is not done or failed is always attended, unless a crash
\* destroyed its task or dispatch: no overlap of uploads, requeues, deletions,
\* failures and redeliveries strands one.
THEOREM NeverStranded == Spec => []NothingStrands
<1>1. Init => InlineIsOwn /\ NothingStrands
  BY DEF Init, InlineIsOwn, NothingStrands, Moving, Processes
<1>2. StrandInv /\ TypeOK' /\ [Next]_vars => (InlineIsOwn /\ NothingStrands)'
  <2> SUFFICES ASSUME StrandInv, TypeOK', [Next]_vars
               PROVE  InlineIsOwn' /\ NothingStrands'
    OBVIOUS
  <2>1. CASE UNCHANGED vars
    BY <2>1 DEF StrandInv, InlineIsOwn, NothingStrands, Attended, vars
  <2>2. ASSUME NEW w \in Workers, WorkerStep(w)
        PROVE  InlineIsOwn' /\ NothingStrands'
    BY <2>2, TakeAttended, TaskStepAttended DEF WorkerStep, Processes
  <2>3. ASSUME NEW a \in Admins, Upload(a) \/ Delete(a) \/ Requeue(a)
        PROVE  InlineIsOwn' /\ NothingStrands'
    BY <2>3, UploadAttended, DeleteAttended, RequeueAttended
  <2>4. ASSUME NEW a \in Admins, DispatchStep(a) \/ TaskStep(a)
        PROVE  InlineIsOwn' /\ NothingStrands'
    BY <2>4, DispatchAttended, TaskStepAttended DEF Processes
  <2> QED
    BY <2>1, <2>2, <2>3, <2>4, CrashAttended DEF Next
<1>3. Spec => [](InlineIsOwn /\ NothingStrands)
  BY <1>1, <1>2, TypeCorrect, PTL DEF Spec, StrandInv
<1> QED
  BY <1>3, PTL

-----------------------------------------------------------------------------
(* The file of a record is there as long as the record is.  A record is    *)
(* created once, by the request that stored its blob, and never comes back *)
(* once a deletion has dropped it.                                         *)

CreatesOnce ==
    \A a \in Admins :
       request[a].at = "create" =>
          /\ request[a].of \in blobs
          /\ status[request[a].of] = "absent"
          /\ \A b \in Admins :
                request[b].at = "create" /\ request[b].of = request[a].of => a = b

DropsAreFinal ==
    \A a \in Admins :
       /\ request[a].at = "drop" => status[request[a].of] # "absent"
       /\ request[a].at \in {"blob", "check", "purge"} =>
             status[request[a].of] = "deleted"

BlobInv == TypeOK /\ CreatesOnce /\ DropsAreFinal /\ RecordHasBlob

\* A step that moves requests out of uploads and deletions only, and changes statuses of
\* live records only, keeps the invariant.
Writing == {"create", "drop", "blob", "check", "purge"}

LEMMA LiveChangesKeepBlobs ==
    ASSUME BlobInv, TypeOK', UNCHANGED blobs,
           \A b \in Admins :
              request'[b] = request[b] \/ request'[b].at \notin Writing,
           \A i \in Ingests :
              status'[i] = status[i] \/ (Live(i) /\ status'[i] \in Stored)
    PROVE  BlobInv'
<1>1. RecordHasBlob'
  BY DEF BlobInv, RecordHasBlob, Live
<1>2. \A b \in Admins : request[b].at \in RequestSteps => request[b].of \in Ingests
  BY RequestShape DEF BlobInv, TypeOK, RequestOK
<1>3. CreatesOnce'
  BY <1>2 DEF BlobInv, CreatesOnce, RequestSteps, Live, Stored, Moving, Writing
<1>4. DropsAreFinal'
  BY <1>2 DEF BlobInv, DropsAreFinal, RequestSteps, Live, Stored, Moving, Writing
<1> QED
  BY <1>1, <1>3, <1>4 DEF BlobInv

LEMMA TaskKeepsBlobs ==
    ASSUME BlobInv, TypeOK', NEW p \in Processes, TaskStep(p)
    PROVE  BlobInv'
<1>1. UNCHANGED <<blobs, request>>
  BY DEF TaskStep, Extract, ReadBlob, Embed, Index, Finish, Fail, Report
<1>2. \A i \in Ingests : status'[i] = status[i] \/ (Live(i) /\ status'[i] \in Stored)
  BY TaskEffect DEF SetStatus, Stored, BlobInv, TypeOK
<1> QED
  BY <1>1, <1>2, LiveChangesKeepBlobs

LEMMA TakeKeepsBlobs ==
    ASSUME BlobInv, TypeOK', NEW w \in Workers, NEW i \in Ingests, Take(w, i)
    PROVE  BlobInv'
<1>1. UNCHANGED <<blobs, request, status>>
  BY DEF Take
<1> QED
  BY <1>1, LiveChangesKeepBlobs

LEMMA UploadKeepsBlobs ==
    ASSUME BlobInv, TypeOK', NEW a \in Admins, Upload(a)
    PROVE  BlobInv'
<1>1. \A b \in Admins : request[b].at \in RequestSteps => request[b].of \in Ingests
  BY RequestShape DEF BlobInv, TypeOK, RequestOK
<1>2. ASSUME NEW i \in Ingests, PutBlob(a, i)
      PROVE  BlobInv'
  <2>1. /\ \A b \in Admins \ {a} : request'[b] = request[b]
        /\ request'[a] = [at |-> "create", of |-> i, todo |-> {}]
        /\ UNCHANGED status
        /\ blobs' = blobs \cup {i}
    BY <1>2 DEF PutBlob, BlobInv, TypeOK
  <2>2. CreatesOnce'
    BY <1>2, <2>1 DEF PutBlob, BlobInv, CreatesOnce
  <2>3. DropsAreFinal' /\ RecordHasBlob'
    BY <2>1 DEF BlobInv, DropsAreFinal, RecordHasBlob, Live
  <2> QED
    BY <2>2, <2>3 DEF BlobInv
<1>3. CASE CreateRecord(a)
  <2> DEFINE i == request[a].of
  <2>1. i \in Ingests
    BY <1>1, <1>3 DEF CreateRecord, RequestSteps
  <2>2. /\ \A b \in Admins \ {a} : request'[b] = request[b]
        /\ request'[a].at = "dispatch"
        /\ \A k \in Ingests \ {i} : status'[k] = status[k]
        /\ status'[i] = "queued"
        /\ UNCHANGED blobs
    <3>1. request[a] \in Requests
      BY DEF BlobInv, TypeOK
    <3>2. request'[a].at = "dispatch"
      BY <1>3, <3>1 DEF CreateRecord, Goto, BlobInv, TypeOK, Requests
    <3> QED
      BY <1>3, <2>1, <3>2 DEF CreateRecord, Goto, SetStatus, BlobInv, TypeOK
  <2>3. i \in blobs /\ status[i] = "absent"
    BY <1>3 DEF CreateRecord, BlobInv, CreatesOnce
  <2>4. \A b \in Admins \ {a} : request[b].at = "create" => request[b].of # i
    BY <1>3 DEF CreateRecord, BlobInv, CreatesOnce
  <2>5. CreatesOnce'
    BY <1>1, <2>2, <2>4 DEF BlobInv, CreatesOnce, RequestSteps
  <2>6. DropsAreFinal'
    BY <1>1, <2>2, <2>3 DEF BlobInv, DropsAreFinal, RequestSteps
  <2>7. RecordHasBlob'
    BY <2>2, <2>3 DEF BlobInv, RecordHasBlob, Live
  <2> QED
    BY <2>5, <2>6, <2>7 DEF BlobInv
<1> QED
  BY <1>2, <1>3 DEF Upload

LEMMA RequeueKeepsBlobs ==
    ASSUME BlobInv, TypeOK', NEW a \in Admins, Requeue(a) \/ DispatchStep(a)
    PROVE  BlobInv'
<1>1. /\ UNCHANGED blobs
      /\ \A b \in Admins \ {a} : request'[b] = request[b]
  BY DEF Requeue, ReadForRequeue, Reset, DispatchStep, Dispatch, InlineReturns,
         DispatchFails, Return, Goto, BlobInv, TypeOK
<1>2. request'[a].at \notin Writing
  <2>1. ASSUME Return(a)
        PROVE  request'[a].at \in {"idle", "next"}
    BY <2>1 DEF Return, NoRequest, BlobInv, TypeOK
  <2>2. ASSUME Goto(a, "inline")
        PROVE  request'[a].at = "inline"
    <3>1. request[a] \in Requests
      BY DEF BlobInv, TypeOK
    <3> QED
      BY <2>2, <3>1 DEF Goto, BlobInv, TypeOK, Requests
  <2>3. CASE DispatchStep(a)
    BY <2>1, <2>2, <2>3
    DEF DispatchStep, Dispatch, InlineReturns, DispatchFails, Writing
  <2>4. CASE Requeue(a)
    BY <2>4 DEF Requeue, ReadForRequeue, Reset, NoRequest, BlobInv, TypeOK, Writing
  <2> QED
    BY <2>3, <2>4
<1>3. \A i \in Ingests : status'[i] = status[i] \/ (Live(i) /\ status'[i] \in Stored)
  BY DEF Requeue, ReadForRequeue, Reset, DispatchStep, Dispatch, InlineReturns,
         DispatchFails, SetStatus, BlobInv, TypeOK, Stored, Moving
<1> QED
  BY <1>1, <1>2, <1>3, LiveChangesKeepBlobs

LEMMA DeleteKeepsBlobs ==
    ASSUME BlobInv, TypeOK', NEW a \in Admins, Delete(a)
    PROVE  BlobInv'
<1>1. \A b \in Admins : request[b].at \in RequestSteps => request[b].of \in Ingests
  BY RequestShape DEF BlobInv, TypeOK, RequestOK
<1>2. \A b \in Admins \ {a} : request'[b] = request[b]
  BY DEF Delete, ReadForDelete, DropRecord, DropBlob, CheckSiblings, Purge, Goto,
         BlobInv, TypeOK
<1>3. ASSUME NEW at \in RequestSteps, Goto(a, at), request[a].at \in RequestSteps
      PROVE  request'[a].at = at /\ request'[a].of = request[a].of
  <2>1. request[a] \in Requests
    BY DEF BlobInv, TypeOK
  <2> QED
    BY <1>3, <2>1 DEF Goto, BlobInv, TypeOK, Requests
<1>4. ASSUME NEW i \in Ingests, ReadForDelete(a, i)
      PROVE  BlobInv'
  <2>1. /\ request'[a] = [at |-> "drop", of |-> i, todo |-> {}]
        /\ status[i] # "absent"
        /\ UNCHANGED <<status, blobs>>
    BY <1>4 DEF ReadForDelete, Live, Stored, Moving, BlobInv, TypeOK
  <2> QED
    BY <1>2, <2>1 DEF BlobInv, CreatesOnce, DropsAreFinal, RecordHasBlob, Live
<1>5. CASE DropRecord(a)
  <2>1. request[a].of \in Ingests /\ status[request[a].of] # "absent"
    BY <1>1, <1>5 DEF DropRecord, BlobInv, DropsAreFinal, RequestSteps
  <2>2. request'[a].at = "blob" /\ request'[a].of = request[a].of
    BY <1>3, <1>5 DEF DropRecord, RequestSteps
  <2>3. /\ \A k \in Ingests \ {request[a].of} : status'[k] = status[k]
        /\ status'[request[a].of] = "deleted"
        /\ UNCHANGED blobs
    BY <1>5, <2>1 DEF DropRecord, SetStatus, BlobInv, TypeOK
  <2>4. CreatesOnce'
    BY <1>1, <1>2, <2>1, <2>2, <2>3 DEF BlobInv, CreatesOnce, RequestSteps
  <2>5. DropsAreFinal'
    BY <1>1, <1>2, <2>2, <2>3 DEF BlobInv, DropsAreFinal, RequestSteps
  <2>6. RecordHasBlob'
    BY <2>3 DEF BlobInv, RecordHasBlob, Live, Stored, Moving
  <2> QED
    BY <2>4, <2>5, <2>6 DEF BlobInv
<1>6. CASE DropBlob(a)
  <2>1. request'[a].at = "check" /\ request'[a].of = request[a].of
    BY <1>3, <1>6 DEF DropBlob, RequestSteps
  <2>2. status[request[a].of] = "deleted" /\ UNCHANGED status
    BY <1>6 DEF DropBlob, BlobInv, DropsAreFinal
  <2>3. blobs' \in {blobs, blobs \ {request[a].of}}
    BY <1>6 DEF DropBlob
  <2>4. CreatesOnce'
    BY <1>2, <2>1, <2>2, <2>3 DEF BlobInv, CreatesOnce
  <2>5. DropsAreFinal'
    BY <1>2, <2>1, <2>2 DEF BlobInv, DropsAreFinal
  <2>6. RecordHasBlob'
    BY <2>2, <2>3 DEF BlobInv, RecordHasBlob, Live, Stored, Moving
  <2> QED
    BY <2>4, <2>5, <2>6 DEF BlobInv
<1>7. CASE CheckSiblings(a) /\ Goto(a, "purge")
  <2>1. request'[a].at = "purge" /\ request'[a].of = request[a].of
    BY <1>3, <1>7 DEF CheckSiblings, RequestSteps
  <2>2. UNCHANGED <<status, blobs>> /\ request[a].at = "check"
    BY <1>7 DEF CheckSiblings
  <2> QED
    BY <1>2, <2>1, <2>2 DEF BlobInv, CreatesOnce, DropsAreFinal, RecordHasBlob, Live
<1>8. CASE Purge(a) \/ (CheckSiblings(a) /\ ~ Goto(a, "purge"))
  <2>1. request'[a].at = "idle" /\ UNCHANGED <<status, blobs>>
    BY <1>8 DEF Purge, CheckSiblings, NoRequest, BlobInv, TypeOK
  <2> QED
    BY <1>2, <2>1, LiveChangesKeepBlobs DEF Writing
<1> QED
  BY <1>4, <1>5, <1>6, <1>7, <1>8 DEF Delete

LEMMA CrashKeepsBlobs ==
    ASSUME BlobInv, TypeOK',
           \/ \E w \in Workers : WorkerCrash(w)
           \/ \E a \in Admins : ApiCrash(a)
    PROVE  BlobInv'
<1>1. UNCHANGED <<status, blobs>>
  BY DEF WorkerCrash, ApiCrash
<1>2. \A b \in Admins : request'[b] = request[b] \/ request'[b].at = "idle"
  BY DEF WorkerCrash, ApiCrash, NoRequest, BlobInv, TypeOK
<1> QED
  BY <1>1, <1>2, LiveChangesKeepBlobs DEF Writing

LEMMA BlobInvHolds == Spec => []BlobInv
<1>1. Init => CreatesOnce /\ DropsAreFinal /\ RecordHasBlob
  BY DEF Init, CreatesOnce, DropsAreFinal, RecordHasBlob, NoRequest, Live,
         Stored, Moving
<1>2. BlobInv /\ TypeOK' /\ [Next]_vars => BlobInv'
  <2> SUFFICES ASSUME BlobInv, TypeOK', [Next]_vars PROVE BlobInv'
    OBVIOUS
  <2>1. CASE UNCHANGED vars
    BY <2>1, LiveChangesKeepBlobs DEF vars
  <2>2. ASSUME NEW w \in Workers, WorkerStep(w)
        PROVE  BlobInv'
    BY <2>2, TakeKeepsBlobs, TaskKeepsBlobs DEF WorkerStep, Processes
  <2>3. ASSUME NEW a \in Admins, Upload(a) \/ Delete(a) \/ Requeue(a)
        PROVE  BlobInv'
    BY <2>3, UploadKeepsBlobs, DeleteKeepsBlobs, RequeueKeepsBlobs
  <2>4. ASSUME NEW a \in Admins, DispatchStep(a) \/ TaskStep(a)
        PROVE  BlobInv'
    BY <2>4, RequeueKeepsBlobs, TaskKeepsBlobs DEF Processes
  <2> QED
    BY <2>1, <2>2, <2>3, <2>4, CrashKeepsBlobs DEF Next
<1> QED
  BY <1>1, <1>2, TypeCorrect, PTL DEF Spec, BlobInv

\* Every record has its file, so a requeued task always finds it: deletions
\* drop the record before the blob, and never a record of another ingest's.
THEOREM FilesOutliveRecords == Spec => []RecordHasBlob
<1>1. BlobInv => RecordHasBlob
  BY DEF BlobInv
<1> QED
  BY <1>1, BlobInvHolds, PTL

-----------------------------------------------------------------------------
(* The chunks of a document go with its last record: whoever drops that    *)
(* record sees no sibling when it looks, and until then it is in progress. *)

Leaving == {"blob", "check", "purge"}

\* A step that adds no chunks, drops no record and stops no deletion.
LEMMA OrphansKept ==
    ASSUME TypeOK, ChunksGoWithLastRecord,
           excused \subseteq excused', late \subseteq late', UNCHANGED document,
           \A i \in Ingests : (Live(i) => Live(i)') /\ (batches'[i] > 0 => batches[i] > 0),
           \A b \in Admins :
              request[b].at \in Leaving =>
                 request'[b].at \in Leaving /\ request'[b].of = request[b].of
    PROVE  ChunksGoWithLastRecord'
<1> SUFFICES ASSUME NEW i \in Ingests, Orphaned(i)'
             PROVE  document[i] \in excused' \cup late'
  BY DEF ChunksGoWithLastRecord
<1>1. batches[i] > 0
  BY DEF Orphaned
<1>2. Siblings(i) = {}
  BY DEF Orphaned, Siblings
<1>3. ~ Purging(document[i])
  BY DEF Orphaned, Purging, Leaving
<1> QED
  BY <1>1, <1>2, <1>3 DEF Orphaned, ChunksGoWithLastRecord

\* Statuses of live records change to statuses of live records.
LEMMA LiveStays ==
    ASSUME \A i \in Ingests : status'[i] = status[i] \/ (Live(i) /\ status'[i] \in Stored)
    PROVE  \A i \in Ingests : Live(i) => Live(i)'
  BY DEF Live

LEMMA TaskKeepsChunks ==
    ASSUME TypeOK, ChunksGoWithLastRecord, NEW p \in Processes, TaskStep(p)
    PROVE  ChunksGoWithLastRecord'
<1>1. UNCHANGED <<document, request, excused>>
  BY DEF TaskStep, Extract, ReadBlob, Embed, Index, Finish, Fail, Report
<1>2. \A i \in Ingests : status'[i] = status[i] \/ (Live(i) /\ status'[i] \in Stored)
  BY TaskEffect DEF SetStatus, Stored, TypeOK
<1>3. CASE UNCHANGED <<batches, late>>
  BY <1>1, <1>2, <1>3, LiveStays, OrphansKept
<1>4. CASE ~ UNCHANGED <<batches, late>>
  <2> DEFINE j == run[p].of
  <2>1. /\ batches' = [batches EXCEPT ![j] = @ + 1]
        /\ late' = IF Live(j) THEN late ELSE late \cup {document[j]}
        /\ UNCHANGED status
        /\ run[p].at = "indexing"
    BY <1>4 DEF TaskStep, Extract, ReadBlob, Embed, Index, Finish, Fail, Report
  <2>2. j \in Ingests
    BY <2>1, TaskShape DEF TypeOK, RunOK, NoTask
  <2> SUFFICES ASSUME NEW i \in Ingests, Orphaned(i)'
               PROVE  document[i] \in excused' \cup late'
    BY <1>1 DEF ChunksGoWithLastRecord
  <2>3. Siblings(i) = {} /\ ~ Purging(document[i])
    BY <1>1, <2>1 DEF Orphaned, Siblings, Purging, Live
  <2>4. CASE i = j
    <3>1. ~ Live(j)
      BY <2>2, <2>3, <2>4 DEF Siblings
    <3> QED
      BY <2>1, <2>4, <3>1
  <2>5. CASE i # j
    <3>1. batches[i] > 0
      BY <2>1, <2>2, <2>5 DEF Orphaned, TypeOK
    <3>2. Orphaned(i)
      BY <2>3, <3>1 DEF Orphaned
    <3> QED
      BY <1>1, <2>1, <3>2 DEF ChunksGoWithLastRecord
  <2> QED
    BY <2>4, <2>5
<1> QED
  BY <1>3, <1>4

LEMMA UploadKeepsChunks ==
    ASSUME BlobInv, ChunksGoWithLastRecord, NEW a \in Admins, Upload(a)
    PROVE  ChunksGoWithLastRecord'
<1>1. \A b \in Admins : request[b].at \in RequestSteps => request[b].of \in Ingests
  BY RequestShape DEF BlobInv, TypeOK, RequestOK
<1>2. \A b \in Admins \ {a} : request'[b] = request[b]
  BY DEF Upload, PutBlob, CreateRecord, Goto, BlobInv, TypeOK
<1>3. UNCHANGED <<batches, excused, late>>
  BY DEF Upload, PutBlob, CreateRecord
<1>4. ASSUME NEW i \in Ingests, PutBlob(a, i) PROVE ChunksGoWithLastRecord'
  <2>1. UNCHANGED <<status, document>> /\ request[a].at \notin Leaving
    BY <1>4 DEF PutBlob, NoRequest, Leaving
  <2>2. TypeOK
    BY DEF BlobInv
  <2> QED
    BY <1>2, <1>3, <2>1, <2>2, OrphansKept DEF Live
<1>5. CASE CreateRecord(a)
  <2> DEFINE i == request[a].of
  <2>1. /\ i \in Ingests /\ status[i] = "absent"
        /\ status' = [status EXCEPT ![i] = "queued"]
        /\ \A k \in Ingests \ {i} : document'[k] = document[k]
    BY <1>1, <1>5 DEF CreateRecord, SetStatus, RequestSteps, BlobInv, CreatesOnce, TypeOK
  <2>2. /\ status'[i] = "queued"
        /\ \A k \in Ingests \ {i} : status'[k] = status[k]
    BY <2>1 DEF BlobInv, TypeOK
  <2> SUFFICES ASSUME NEW k \in Ingests, Orphaned(k)'
               PROVE  document'[k] \in excused' \cup late'
    BY DEF ChunksGoWithLastRecord
  <2>3. k # i
    BY <2>2 DEF Orphaned, Siblings, Live, Stored, Moving
  <2>4. Siblings(k) = {}
    BY <2>1, <2>2, <2>3 DEF Orphaned, Siblings, Live, Stored, Moving
  <2>5. ~ Purging(document[k])
    <3>1. SUFFICES ASSUME NEW b \in Admins, request[b].at \in Leaving,
                          document[request[b].of] = document[k]
                   PROVE  FALSE
      BY DEF Purging, Leaving
    <3>2. b # a
      BY <1>5, <3>1 DEF CreateRecord, Leaving
    <3>3. request[b].of \in Ingests /\ status[request[b].of] = "deleted"
      BY <1>1, <3>1 DEF Leaving, RequestSteps, BlobInv, DropsAreFinal
    <3>4. document'[request[b].of] = document'[k]
      BY <2>1, <2>3, <3>1, <3>3
    <3> QED
      BY <1>2, <3>1, <3>2, <3>4 DEF Orphaned, Purging, Leaving
  <2>6. Orphaned(k)
    BY <1>3, <2>4, <2>5 DEF Orphaned
  <2> QED
    BY <1>3, <2>1, <2>3, <2>6 DEF ChunksGoWithLastRecord
<1> QED
  BY <1>4, <1>5 DEF Upload

LEMMA RequeueKeepsChunks ==
    ASSUME TypeOK, ChunksGoWithLastRecord, NEW a \in Admins, Requeue(a) \/ DispatchStep(a)
    PROVE  ChunksGoWithLastRecord'
<1>1. /\ UNCHANGED <<document, batches, excused, late>>
      /\ \A b \in Admins \ {a} : request'[b] = request[b]
  BY DEF Requeue, ReadForRequeue, Reset, DispatchStep, Dispatch, InlineReturns,
         DispatchFails, Return, Goto, TypeOK
<1>2. request[a].at \notin Leaving
  BY DEF Requeue, ReadForRequeue, Reset, DispatchStep, Dispatch, InlineReturns,
         DispatchFails, NoRequest, Leaving
<1>3. \A i \in Ingests : status'[i] = status[i] \/ (Live(i) /\ status'[i] \in Stored)
  BY DEF Requeue, ReadForRequeue, Reset, DispatchStep, Dispatch, InlineReturns,
         DispatchFails, SetStatus, TypeOK, Stored, Moving
<1> QED
  BY <1>1, <1>2, <1>3, LiveStays, OrphansKept

LEMMA DeleteKeepsChunks ==
    ASSUME BlobInv, ChunksGoWithLastRecord, NEW a \in Admins, Delete(a)
    PROVE  ChunksGoWithLastRecord'
<1> DEFINE j == request[a].of
<1>1. TypeOK /\ \A b \in Admins : request[b].at \in RequestSteps => request[b].of \in Ingests
  BY RequestShape DEF BlobInv, TypeOK, RequestOK
<1>2. /\ \A b \in Admins \ {a} : request'[b] = request[b]
      /\ UNCHANGED <<document, late>>
  BY DEF Delete, ReadForDelete, DropRecord, DropBlob, CheckSiblings, Purge, Goto,
         BlobInv, TypeOK
<1>3. ASSUME NEW at \in RequestSteps, Goto(a, at), request[a].at \in RequestSteps
      PROVE  request'[a].at = at /\ request'[a].of = j
  <2>1. request[a] \in Requests
    BY DEF BlobInv, TypeOK
  <2> QED
    BY <1>3, <2>1 DEF Goto, BlobInv, TypeOK, Requests
<1>4. ASSUME NEW i \in Ingests, ReadForDelete(a, i) PROVE ChunksGoWithLastRecord'
  <2>1. UNCHANGED <<status, batches, excused>> /\ request[a].at \notin Leaving
    BY <1>4 DEF ReadForDelete, NoRequest, Leaving
  <2> QED
    BY <1>1, <1>2, <2>1, OrphansKept DEF Live
<1>5. CASE DropBlob(a) \/ (CheckSiblings(a) /\ Goto(a, "purge"))
  <2>1. UNCHANGED <<status, batches, excused>>
    BY <1>5 DEF DropBlob, CheckSiblings
  <2>2. request'[a].at \in Leaving /\ request'[a].of = j
    BY <1>3, <1>5 DEF DropBlob, CheckSiblings, RequestSteps, Leaving
  <2> QED
    BY <1>1, <1>2, <2>1, <2>2, OrphansKept DEF Live
<1>6. CASE DropRecord(a)
  <2>1. j \in Ingests /\ request'[a].at = "blob" /\ request'[a].of = j
    BY <1>1, <1>3, <1>6 DEF DropRecord, RequestSteps
  <2>2. /\ UNCHANGED <<batches, excused>>
        /\ \A k \in Ingests \ {j} : status'[k] = status[k]
    BY <1>6, <2>1 DEF DropRecord, SetStatus, BlobInv, TypeOK
  <2> SUFFICES ASSUME NEW k \in Ingests, Orphaned(k)'
               PROVE  document[k] \in excused' \cup late'
    BY <1>2 DEF ChunksGoWithLastRecord
  <2>3. document[k] # document[j]
    BY <1>2, <2>1 DEF Orphaned, Purging
  <2>4. Siblings(k) = {}
    BY <1>2, <2>2, <2>3 DEF Orphaned, Siblings, Live
  <2>5. ~ Purging(document[k])
    <3>1. request[a].at \notin Leaving
      BY <1>6 DEF DropRecord, Leaving
    <3> QED
      BY <1>2, <3>1 DEF Orphaned, Purging, Leaving
  <2>6. Orphaned(k)
    BY <2>2, <2>4, <2>5 DEF Orphaned
  <2> QED
    BY <1>2, <2>2, <2>6 DEF ChunksGoWithLastRecord
<1>7. ASSUME \/ CheckSiblings(a) /\ ~ Goto(a, "purge")
             \/ Purge(a) /\ document[j] \in excused'
             \/ Purge(a) /\ \A k \in Ingests : document[k] = document[j] => batches'[k] = 0
      PROVE  ChunksGoWithLastRecord'
  <2>1. /\ UNCHANGED status /\ excused \subseteq excused'
        /\ \A k \in Ingests : batches'[k] > 0 => batches[k] > 0
    BY <1>7 DEF CheckSiblings, Purge, BlobInv, TypeOK
  <2> SUFFICES ASSUME NEW k \in Ingests, Orphaned(k)'
               PROVE  document[k] \in excused' \cup late'
    BY <1>2 DEF ChunksGoWithLastRecord
  <2>2. batches[k] > 0 /\ Siblings(k) = {}
    BY <1>2, <2>1 DEF Orphaned, Siblings, Live
  <2>3. document[k] = document[j] => document[j] \in excused'
    BY <1>7, <2>2 DEF CheckSiblings, Siblings, Orphaned
  <2>4. document[k] # document[j] => ~ Purging(document[k])
    BY <1>2 DEF Orphaned, Purging
  <2> QED
    BY <1>2, <2>1, <2>2, <2>3, <2>4 DEF Orphaned, ChunksGoWithLastRecord
<1>8. CASE Purge(a)
  <2>1. \/ excused' = excused \cup {document[j]}
        \/ batches' = [k \in Ingests |-> IF document[k] = document[j] THEN 0 ELSE batches[k]]
    BY <1>8 DEF Purge
  <2>2. CASE excused' = excused \cup {document[j]}
    BY <1>7, <1>8, <2>2
  <2>3. CASE batches' = [k \in Ingests |-> IF document[k] = document[j] THEN 0 ELSE batches[k]]
    <3>1. \A k \in Ingests : document[k] = document[j] => batches'[k] = 0
      BY <2>3
    <3> QED
      BY <1>7, <1>8, <3>1
  <2> QED
    BY <2>1, <2>2, <2>3
<1>9. CASE CheckSiblings(a)
  BY <1>5, <1>7, <1>9
<1> QED
  BY <1>4, <1>5, <1>6, <1>8, <1>9 DEF Delete

LEMMA CrashKeepsChunks ==
    ASSUME TypeOK, ChunksGoWithLastRecord,
           \/ \E w \in Workers : WorkerCrash(w)
           \/ \E a \in Admins : ApiCrash(a)
    PROVE  ChunksGoWithLastRecord'
<1>1. ASSUME NEW w \in Workers, WorkerCrash(w) PROVE ChunksGoWithLastRecord'
  <2>1. UNCHANGED <<status, document, batches, request, excused, late>>
    BY <1>1 DEF WorkerCrash
  <2> QED
    BY <2>1, OrphansKept DEF Live
<1>2. ASSUME NEW a \in Admins, ApiCrash(a) PROVE ChunksGoWithLastRecord'
  <2>1. /\ UNCHANGED <<status, document, batches, late>>
        /\ excused \subseteq excused'
        /\ request[a].at \in Leaving => document[request[a].of] \in excused'
        /\ \A b \in Admins \ {a} : request'[b] = request[b]
    BY <1>2 DEF ApiCrash, Leaving, TypeOK
  <2> SUFFICES ASSUME NEW k \in Ingests, Orphaned(k)'
               PROVE  document[k] \in excused' \cup late'
    BY <2>1 DEF ChunksGoWithLastRecord
  <2>2. batches[k] > 0 /\ Siblings(k) = {}
    BY <2>1 DEF Orphaned, Siblings, Live
  <2>3. CASE Purging(document[k])
    <3>1. PICK b \in Admins : request[b].at \in Leaving /\ document[request[b].of] = document[k]
      BY <2>3 DEF Purging, Leaving
    <3>2. b = a
      BY <2>1, <3>1 DEF Orphaned, Purging, Leaving
    <3> QED
      BY <2>1, <3>1, <3>2
  <2>4. CASE ~ Purging(document[k])
    BY <2>1, <2>2, <2>4 DEF Orphaned, ChunksGoWithLastRecord
  <2> QED
    BY <2>3, <2>4
<1> QED
  BY <1>1, <1>2

\* No chunk is left of a document without a record, however the deletions of its
\* uploads overlap each other and new uploads of it, but for what a failed purge,
\* a crash within a deletion or a late task has left.
THEOREM ChunksGo == Spec => []ChunksGoWithLastRecord
<1>1. Init => ChunksGoWithLastRecord
  BY DEF Init, ChunksGoWithLastRecord, Orphaned
<1>2. BlobInv /\ ChunksGoWithLastRecord /\ [Next]_vars => ChunksGoWithLastRecord'
  <2> SUFFICES ASSUME BlobInv, ChunksGoWithLastRecord, [Next]_vars
               PROVE  ChunksGoWithLastRecord'
    OBVIOUS
  <2>0. TypeOK
    BY DEF BlobInv
  <2>1. CASE UNCHANGED vars
    BY <2>1, <2>0, OrphansKept DEF vars, Live
  <2>2. ASSUME NEW w \in Workers, NEW i \in Ingests, Take(w, i)
        PROVE  ChunksGoWithLastRecord'
    <3>1. UNCHANGED <<status, document, batches, request, excused, late>>
      BY <2>2 DEF Take
    <3> QED
      BY <2>0, <3>1, OrphansKept DEF Live
  <2>3. ASSUME NEW p \in Processes, TaskStep(p) PROVE ChunksGoWithLastRecord'
    BY <2>0, <2>3, TaskKeepsChunks
  <2>4. ASSUME NEW a \in Admins, Upload(a) \/ Delete(a) \/ Requeue(a) \/ DispatchStep(a)
        PROVE  ChunksGoWithLastRecord'
    BY <2>0, <2>4, UploadKeepsChunks, DeleteKeepsChunks, RequeueKeepsChunks
  <2> QED
    BY <2>0, <2>1, <2>2, <2>3, <2>4, CrashKeepsChunks DEF Next, WorkerStep, Processes
<1> QED
  BY <1>1, <1>2, BlobInvHolds, PTL DEF Spec
-----------------------------------------------------------------------------
(* With one admin request at a time, done means searchable.                *)

OneAdmin == \A a, b \in Admins : a = b

SearchInv ==
    /\ DoneIsSearchable
    /\ \A p \in Processes : run[p].at # "idle" => status[run[p].of] # "absent"
    /\ \A p \in Processes :
          run[p].at = "indexed" /\ Live(run[p].of) => batches[run[p].of] > 0
    /\ \A a \in Admins : request[a].at = "purge" => Siblings(request[a].of) = {}

\* A step that brings no record into being and removes no chunk keeps it, if it
\* says "done" and "indexed" of what has chunks only, and begins no purge.
LEMMA SearchKept ==
    ASSUME TypeOK, SearchInv, UNCHANGED document,
           \A i \in Ingests : batches[i] > 0 => batches'[i] > 0,
           \A i \in Ingests :
              \/ status'[i] = status[i]
              \/ /\ status'[i] # "absent"
                 /\ status'[i] \in Stored => Live(i)
                 /\ status'[i] = "done" => batches'[i] > 0,
           \A p \in Processes :
              \/ run'[p] = run[p] \/ run'[p] = NoTask
              \/ /\ run'[p].of \in Ingests /\ status[run'[p].of] # "absent"
                 /\ run'[p].at = "indexed" => batches'[run'[p].of] > 0,
           \A a \in Admins : request'[a].at = "purge" => request'[a] = request[a]
    PROVE  SearchInv'
<1>0. /\ \A p \in Processes : run[p].at # "idle" => run[p].of \in Ingests
      /\ \A a \in Admins : request[a].at = "purge" => request[a].of \in Ingests
  <2>1. \A p \in Processes : run[p].at # "idle" => run[p] # NoTask
    BY DEF NoTask
  <2> QED
    BY <2>1, TaskShape, RequestShape DEF TypeOK, RunOK, RequestOK, RequestSteps
<1>1. \A i \in Ingests : /\ Live(i)' => Live(i)
                         /\ status[i] # "absent" => status'[i] # "absent"
  BY DEF Live
<1>2. DoneIsSearchable'
  BY DEF SearchInv, DoneIsSearchable
<1>3. \A p \in Processes : run'[p].at # "idle" => status'[run'[p].of] # "absent"
  BY <1>0, <1>1 DEF SearchInv, NoTask
<1>4. \A p \in Processes :
         run'[p].at = "indexed" /\ Live(run[p].of)' => batches'[run'[p].of] > 0
  BY <1>0, <1>1 DEF SearchInv, NoTask
<1>5. \A i \in Ingests : Siblings(i)' \subseteq Siblings(i)
  BY <1>1 DEF Siblings
<1>6. \A a \in Admins : request'[a].at = "purge" => Siblings(request[a].of)' = {}
  BY <1>0, <1>5 DEF SearchInv
<1> QED
  BY <1>2, <1>3, <1>4, <1>6 DEF SearchInv

LEMMA TaskSearch ==
    ASSUME TypeOK, SearchInv, NEW p \in Processes, TaskStep(p)
    PROVE  SearchInv'
<1> DEFINE i == run[p].of
<1>1. run[p] # NoTask /\ run[p].at # "idle"
  BY DEF TaskStep, Extract, ReadBlob, Embed, Index, Finish, Fail, NoTask
<1>2. i \in Ingests /\ status[i] # "absent" /\ run[p] \in Tasks
  BY <1>1, TaskShape DEF SearchInv, TypeOK, RunOK
<1>3. UNCHANGED <<document, request>>
  BY DEF TaskStep, Extract, ReadBlob, Embed, Index, Finish, Fail, Report
<1>4. ASSUME NEW at, Step(p, at)
      PROVE  /\ run'[p].at = at /\ run'[p].of = i
             /\ \A r \in Processes \ {p} : run'[r] = run[r]
  BY <1>2, <1>4 DEF Step, TypeOK, Tasks
<1>5. ASSUME EndTask(p)
      PROVE  run'[p] = NoTask /\ \A r \in Processes \ {p} : run'[r] = run[r]
  BY <1>5 DEF EndTask, TypeOK
<1>6. ASSUME NEW s, SetStatus(i, s)
      PROVE  status'[i] = s /\ \A k \in Ingests \ {i} : status'[k] = status[k]
  BY <1>2, <1>6 DEF SetStatus, TypeOK
<1>7. CASE Index(p) \/ ReadBlob(p)
  <2>1. UNCHANGED status
    BY <1>7 DEF Index, ReadBlob
  <2>2. \A k \in Ingests : batches[k] > 0 => batches'[k] > 0
    BY <1>2, <1>7 DEF Index, ReadBlob, TypeOK
  <2>3. \/ batches'[i] > 0 /\ Step(p, "indexed")
        \/ Step(p, "failing") \/ Step(p, "extracted")
    BY <1>2, <1>7 DEF Index, ReadBlob, TypeOK
  <2>4. /\ run'[p].of = i /\ \A r \in Processes \ {p} : run'[r] = run[r]
        /\ run'[p].at = "indexed" => batches'[i] > 0
    BY <1>4, <2>3
  <2> QED
    BY <1>2, <1>3, <2>1, <2>2, <2>4, SearchKept
<1>8. CASE Extract(p) \/ Embed(p) \/ Finish(p) \/ Fail(p)
  <2>1. UNCHANGED batches
    BY <1>8 DEF Extract, Embed, Finish, Fail, Report
  <2>2. \/ EndTask(p) \/ \E at \in {"reading", "indexing"} : Step(p, at)
    BY <1>8 DEF Extract, Embed, Finish, Fail, Report
  <2>3. /\ \A r \in Processes \ {p} : run'[r] = run[r]
        /\ run'[p] = NoTask \/ (run'[p].of = i /\ run'[p].at # "indexed")
    BY <1>4, <1>5, <2>2
  <2>4. \/ UNCHANGED status
        \/ Live(i) /\ \E s \in {"extracting", "embedding", "failed"} : SetStatus(i, s)
        \/ Live(i) /\ SetStatus(i, "done") /\ run[p].at = "indexed"
    BY <1>8 DEF Extract, Embed, Finish, Fail, Report
  <2>5. \A k \in Ingests :
           \/ status'[k] = status[k]
           \/ /\ status'[k] # "absent" /\ Live(k)
              /\ status'[k] = "done" => batches[k] > 0
    BY <1>2, <1>6, <2>4 DEF SearchInv
  <2> QED
    BY <1>2, <1>3, <2>1, <2>3, <2>5, SearchKept
<1> QED
  BY <1>7, <1>8 DEF TaskStep

LEMMA TakeSearch ==
    ASSUME TypeOK, SearchInv, NEW w \in Workers, NEW i \in Ingests, Take(w, i)
    PROVE  SearchInv'
<1>1. UNCHANGED <<status, document, batches, request>>
  BY DEF Take
<1>2. \A p \in Processes :
         \/ run'[p] = run[p]
         \/ run'[p].of = i /\ Live(i) /\ run'[p].at = "started"
  BY DEF Take, TypeOK, Processes
<1>3. Live(i) => status[i] # "absent"
  BY DEF Live, Stored, Moving
<1> QED
  BY <1>1, <1>2, <1>3, SearchKept

LEMMA DispatchSearch ==
    ASSUME TypeOK, SearchInv, NEW a \in Admins, DispatchStep(a)
    PROVE  SearchInv'
<1> DEFINE i == request[a].of
<1>1. UNCHANGED <<document, batches>>
  BY DEF DispatchStep, Dispatch, InlineReturns, DispatchFails
<1>2. \A b \in Admins : request'[b].at = "purge" => request'[b] = request[b]
  <2>1. Goto(a, "inline") \/ Return(a)
    BY DEF DispatchStep, Dispatch, InlineReturns, DispatchFails
  <2>2. /\ \A b \in Admins \ {a} : request'[b] = request[b]
        /\ request'[a].at \in {"inline", "idle", "next"}
    BY <2>1 DEF Goto, Return, NoRequest, TypeOK, Requests
  <2> QED
    BY <2>2
<1>3. CASE Dispatch(a)
  <2>1. i \in Ingests
    BY <1>3, RequestShape DEF Dispatch, TypeOK, RequestOK, RequestSteps
  <2>2. UNCHANGED status
    BY <1>3 DEF Dispatch
  <2>3. \A p \in Processes :
           \/ run'[p] = run[p]
           \/ run'[p].of = i /\ Live(i) /\ run'[p].at = "started"
    BY <1>3 DEF Dispatch, TypeOK, Processes
  <2>4. Live(i) => status[i] # "absent"
    BY DEF Live, Stored, Moving
  <2> QED
    BY <1>1, <1>2, <2>1, <2>2, <2>3, <2>4, SearchKept
<1>4. CASE InlineReturns(a)
  BY <1>1, <1>2, <1>4, SearchKept DEF InlineReturns
<1>5. CASE DispatchFails(a)
  <2>1. UNCHANGED run
    BY <1>5 DEF DispatchFails
  <2>2. \A k \in Ingests : status'[k] = status[k] \/ (Live(k) /\ status'[k] = "failed")
    BY <1>5 DEF DispatchFails, SetStatus, TypeOK
  <2> QED
    BY <1>1, <1>2, <2>1, <2>2, SearchKept
<1> QED
  BY <1>3, <1>4, <1>5 DEF DispatchStep

LEMMA RequeueSearch ==
    ASSUME TypeOK, SearchInv, NEW a \in Admins, Requeue(a)
    PROVE  SearchInv'
<1>1. UNCHANGED <<document, batches, run>>
  BY DEF Requeue, ReadForRequeue, Reset
<1>2. \A b \in Admins : request'[b].at = "purge" => request'[b] = request[b]
  <2>1. /\ \A b \in Admins \ {a} : request'[b] = request[b]
        /\ request'[a].at \in {"next", "dispatch", "idle"}
    BY DEF Requeue, ReadForRequeue, Reset, NoRequest, TypeOK
  <2> QED
    BY <2>1
<1>3. \A k \in Ingests : status'[k] = status[k] \/ (Live(k) /\ status'[k] = "queued")
  BY DEF Requeue, ReadForRequeue, Reset, SetStatus, TypeOK
<1> QED
  BY <1>1, <1>2, <1>3, SearchKept

\* Uploads and deletions are the one admin's: none is at its purge meanwhile.
LEMMA UploadSearch ==
    ASSUME OneAdmin, BlobInv, SearchInv, NEW a \in Admins, Upload(a)
    PROVE  SearchInv'
<1>0. TypeOK
  BY DEF BlobInv
<1>1. ASSUME NEW i \in Ingests, PutBlob(a, i) PROVE SearchInv'
  <2>1. UNCHANGED <<status, document, batches, run>>
    BY <1>1 DEF PutBlob
  <2>2. \A b \in Admins : request'[b] = request[b] \/ request'[b].at = "create"
    BY <1>0, <1>1 DEF PutBlob, TypeOK
  <2> QED
    BY <1>0, <2>1, <2>2, SearchKept
<1>2. CASE CreateRecord(a)
  <2> DEFINE i == request[a].of
  <2>1. i \in Ingests /\ status[i] = "absent"
    BY <1>0, <1>2, RequestShape
    DEF CreateRecord, BlobInv, CreatesOnce, TypeOK, RequestOK, RequestSteps
  <2>2. /\ UNCHANGED <<batches, run>>
        /\ status'[i] = "queued" /\ \A k \in Ingests \ {i} : status'[k] = status[k]
    BY <1>0, <1>2, <2>1 DEF CreateRecord, SetStatus, TypeOK
  <2>3. \A b \in Admins : request'[b].at = "dispatch"
    <3>1. request'[a].at = "dispatch"
      <4>1. request[a] \in Requests
        BY <1>0 DEF TypeOK
      <4> QED
        BY <1>0, <1>2, <4>1 DEF CreateRecord, Goto, TypeOK, Requests
    <3> QED
      BY <3>1 DEF OneAdmin
  <2>4. \A p \in Processes : run[p].at # "idle" => run[p].of \in Ingests \ {i}
    BY <1>0, <2>1, TaskShape DEF SearchInv, TypeOK, RunOK, NoTask
  <2>5. DoneIsSearchable'
    BY <2>1, <2>2 DEF SearchInv, DoneIsSearchable
  <2>6. \A p \in Processes : run'[p].at # "idle" => status'[run'[p].of] # "absent"
    BY <2>2, <2>4 DEF SearchInv
  <2>7. \A p \in Processes :
           run'[p].at = "indexed" /\ Live(run[p].of)' => batches'[run'[p].of] > 0
    BY <2>2, <2>4 DEF SearchInv, Live
  <2> QED
    BY <2>3, <2>5, <2>6, <2>7 DEF SearchInv
<1> QED
  BY <1>1, <1>2 DEF Upload

LEMMA DeleteSearch ==
    ASSUME OneAdmin, BlobInv, SearchInv, NEW a \in Admins, Delete(a)
    PROVE  SearchInv'
<1>0. TypeOK /\ request[a] \in Requests
  BY DEF BlobInv, TypeOK
<1>1. UNCHANGED <<document, run>>
  BY DEF Delete, ReadForDelete, DropRecord, DropBlob, CheckSiblings, Purge
<1>2. ASSUME NEW i \in Ingests, ReadForDelete(a, i) PROVE SearchInv'
  <2>1. UNCHANGED <<status, batches>>
    BY <1>2 DEF ReadForDelete
  <2>2. \A b \in Admins : request'[b] = request[b] \/ request'[b].at = "drop"
    BY <1>0, <1>2 DEF ReadForDelete, TypeOK
  <2> QED
    BY <1>0, <1>1, <2>1, <2>2, SearchKept
<1>3. CASE DropRecord(a) \/ DropBlob(a)
  <2>1. UNCHANGED batches
    BY <1>3 DEF DropRecord, DropBlob
  <2>2. \A k \in Ingests : status'[k] = status[k] \/ status'[k] = "deleted"
    BY <1>0, <1>3 DEF DropRecord, DropBlob, SetStatus, TypeOK
  <2>3. \A b \in Admins : request'[b] = request[b] \/ request'[b].at \in {"blob", "check"}
    <3>1. Goto(a, "blob") \/ Goto(a, "check")
      BY <1>3 DEF DropRecord, DropBlob
    <3> QED
      BY <1>0, <3>1 DEF Goto, TypeOK, Requests
  <2> QED
    BY <1>0, <1>1, <2>1, <2>2, <2>3, SearchKept DEF Stored, Moving
<1>4. CASE CheckSiblings(a)
  <2>1. UNCHANGED <<status, batches>>
    BY <1>4 DEF CheckSiblings
  <2>2. CASE Siblings(request[a].of) = {}
    <3>1. request'[a].at = "purge" /\ request'[a].of = request[a].of
      BY <1>0, <1>4, <2>2 DEF CheckSiblings, Goto, TypeOK, Requests
    <3>2. \A b \in Admins : Siblings(request[b].of)' = {}
      BY <1>1, <2>1, <2>2, <3>1 DEF OneAdmin, Siblings, Live
    <3> QED
      BY <1>1, <2>1, <3>2 DEF SearchInv, DoneIsSearchable, Live
  <2>3. CASE Siblings(request[a].of) # {}
    <3>1. \A b \in Admins : request'[b] = request[b] \/ request'[b].at = "idle"
      BY <1>0, <1>4, <2>3 DEF CheckSiblings, NoRequest, TypeOK
    <3> QED
      BY <1>0, <1>1, <2>1, <3>1, SearchKept
  <2> QED
    BY <2>2, <2>3
<1>5. CASE Purge(a)
  <2> DEFINE d == document[request[a].of]
  <2>1. UNCHANGED status /\ \A b \in Admins : request'[b] = request[b] \/ request'[b].at = "idle"
    BY <1>0, <1>5 DEF Purge, NoRequest, TypeOK
  <2>2. \A k \in Ingests : batches'[k] = batches[k] \/ (document[k] = d /\ batches'[k] = 0)
    BY <1>0, <1>5 DEF Purge, TypeOK
  <2>3. \A k \in Ingests : Live(k) => document[k] # d
    BY <1>5 DEF Purge, SearchInv, Siblings
  <2>4. \A k \in Ingests : Live(k) => batches'[k] = batches[k]
    BY <2>2, <2>3
  <2>5. DoneIsSearchable'
    BY <2>1, <2>4 DEF SearchInv, DoneIsSearchable, Live, Stored
  <2>6. \A p \in Processes : run[p].at # "idle" => run[p].of \in Ingests
    BY <1>0, TaskShape DEF TypeOK, RunOK, NoTask
  <2>7. \A p \in Processes :
           run'[p].at = "indexed" /\ Live(run[p].of)' => batches'[run'[p].of] > 0
    BY <1>1, <2>1, <2>4, <2>6 DEF SearchInv, Live
  <2>8. \A b \in Admins : request'[b].at # "purge"
    BY <1>0, <1>5 DEF OneAdmin, Purge, NoRequest, TypeOK
  <2> QED
    BY <1>1, <2>1, <2>5, <2>7, <2>8 DEF SearchInv
<1> QED
  BY <1>2, <1>3, <1>4, <1>5 DEF Delete

LEMMA CrashSearch ==
    ASSUME TypeOK, SearchInv,
           \/ \E w \in Workers : WorkerCrash(w)
           \/ \E a \in Admins : ApiCrash(a)
    PROVE  SearchInv'
<1>1. UNCHANGED <<status, document, batches>>
  BY DEF WorkerCrash, ApiCrash
<1>2. \A p \in Processes : run'[p] = run[p] \/ run'[p] = NoTask
  BY DEF WorkerCrash, ApiCrash, EndTask, TypeOK
<1>3. \A a \in Admins : request'[a].at = "purge" => request'[a] = request[a]
  BY DEF WorkerCrash, ApiCrash, NoRequest, TypeOK
<1> QED
  BY <1>1, <1>2, <1>3, SearchKept

\* With one admin request at a time a record that says "done" has its chunks in
\* the store, whatever workers, redeliveries, failures and crashes do.
THEOREM DoneIsFound == ASSUME OneAdmin PROVE Spec => []DoneIsSearchable
<1>1. Init => SearchInv
  BY DEF Init, SearchInv, DoneIsSearchable, NoTask, NoRequest
<1>2. BlobInv /\ SearchInv /\ [Next]_vars => SearchInv'
  <2> SUFFICES ASSUME BlobInv, SearchInv, [Next]_vars PROVE SearchInv'
    OBVIOUS
  <2>0. TypeOK
    BY DEF BlobInv
  <2>1. CASE UNCHANGED vars
    BY <2>0, <2>1, SearchKept DEF vars
  <2>2. ASSUME NEW w \in Workers, WorkerStep(w) PROVE SearchInv'
    BY <2>0, <2>2, TakeSearch, TaskSearch DEF WorkerStep, Processes
  <2>3. ASSUME NEW a \in Admins,
               Upload(a) \/ Delete(a) \/ Requeue(a) \/ DispatchStep(a) \/ TaskStep(a)
        PROVE  SearchInv'
    BY <2>0, <2>3, UploadSearch, DeleteSearch, RequeueSearch, DispatchSearch, TaskSearch
    DEF Processes
  <2> QED
    BY <2>0, <2>1, <2>2, <2>3, CrashSearch DEF Next
<1>3. SearchInv => DoneIsSearchable
  BY DEF SearchInv
<1> QED
  BY <1>1, <1>2, <1>3, BlobInvHolds, PTL DEF Spec
=============================================================================
