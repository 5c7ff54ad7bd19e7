--------------------------- MODULE ResearchProofs ---------------------------
(***************************************************************************)
(* Theorems about Research for every set of requests and API processes.    *)
(***************************************************************************)
EXTENDS Research, SequenceTheorems, TLAPS

\* Writing one step's status into a plan keeps it a plan.
LEMMA PlanExcept ==
    ASSUME NEW p \in Plans, NEW i \in Nat, NEW s \in StepStatus
    PROVE  /\ [p EXCEPT !.st[i] = s] \in Plans
           /\ [p EXCEPT !.st[i] = s].by = p.by
           /\ Len([p EXCEPT !.st[i] = s].st) = Len(p.st)
<1>1. p.st \in Seq(StepStatus)
  BY DEF Plans
<1>2. CASE i \in 1..Len(p.st)
  <2>1. [p.st EXCEPT ![i] = s] \in Seq(StepStatus)
    BY <1>1, <1>2, ExceptSeq
  <2>2. Len([p.st EXCEPT ![i] = s]) = Len(p.st)
    BY <1>1, <1>2, ExceptSeq
  <2> QED
    BY <2>1, <2>2 DEF Plans
<1>3. CASE i \notin 1..Len(p.st)
  <2>1. [p.st EXCEPT ![i] = s] = p.st
    BY <1>1, <1>3
  <2> QED
    BY <2>1, <1>1 DEF Plans
<1> QED
  BY <1>2, <1>3

\* A freshly written plan is one.
LEMMA PendingIsPlan ==
    ASSUME NEW n \in Nat, NEW b \in Requests \cup {None}
    PROVE  [by |-> b, st |-> Pending(n)] \in Plans
<1>1. Pending(n) \in Seq(StepStatus)
  BY DEF Pending, StepStatus
<1> QED
  BY <1>1 DEF Plans

-----------------------------------------------------------------------------
(* What the building blocks of the actions preserve.                       *)

LoopOK == loop \in [Hosts -> Requests \cup {None}]
PcOK == pc \in [Requests -> Positions]
NoteOK == note \in [Requests -> Notes]

LEMMA LoopTyped ==
    ASSUME LoopOK, NEW q \in Requests, Take(q) \/ Yield(q)
    PROVE  LoopOK'
  BY DEF LoopOK, Take, Yield

LEMMA GotoTyped ==
    ASSUME LoopOK, PcOK, NEW q \in Requests, NEW p \in Positions, Goto(q, p)
    PROVE  LoopOK' /\ PcOK'
<1>1. LoopOK'
  BY LoopTyped DEF Goto
<1>2. PcOK'
  BY DEF Goto, PcOK
<1> QED
  BY <1>1, <1>2

LEMMA EmitTyped ==
    ASSUME LoopOK, PcOK, NoteOK, NEW q \in Requests, NEW e \in Events,
           NEW p \in Positions, Emit(q, e, p)
    PROVE  LoopOK' /\ PcOK' /\ NoteOK'
<1>1. "log_read" \in Positions
  BY DEF Positions
<1>2. LoopOK' /\ PcOK'
  BY <1>1, GotoTyped DEF Emit
<1>3. NoteOK'
  BY DEF Emit, NoteOK, Notes
<1> QED
  BY <1>2, <1>3

LEMMA LoggedTyped ==
    ASSUME LoopOK, PcOK, NoteOK, NEW q \in Requests, Logged(q)
    PROVE  LoopOK' /\ PcOK'
<1>1. LoopOK'
  BY LoopTyped DEF Logged
<1>2. note[q].then \in Positions
  BY DEF NoteOK, Notes
<1>3. PcOK'
  BY <1>2 DEF Logged, PcOK
<1> QED
  BY <1>1, <1>3

LEMMA ArriveTyped ==
    ASSUME LoopOK, PcOK, op \in [Requests -> Ops],
           host \in [Requests -> Hosts \cup {None}],
           NEW q \in Requests, NEW h \in Hosts, NEW o \in Ops,
           NEW p \in Positions, Arrive(q, h, o, p)
    PROVE  /\ LoopOK' /\ PcOK'
           /\ op' \in [Requests -> Ops]
           /\ host' \in [Requests -> Hosts \cup {None}]
  BY DEF Arrive, LoopOK, PcOK

LEMMA RoomTyped ==
    ASSUME found \in [Requests -> Nat], NEW q \in Requests
    PROVE  /\ Remaining(q) \in Nat
           /\ MinOf(Remaining(q), PerCall) \in Nat
           /\ MinOf(Remaining(q), PerCall) <= Remaining(q)
  BY ConstantsAssumption DEF Remaining, MinOf

LEMMA UpdateTyped ==
    ASSUME row \in Rows, NEW new \in Rows, Update(new)
    PROVE  row' \in Rows
  BY DEF Update

(* Type correctness, action by action.                                     *)

LEMMA TypeStep ==
    ASSUME TypeOK, [Next]_vars
    PROVE  TypeOK'
<1> USE ConstantsAssumption
<1>0. LoopOK /\ PcOK /\ NoteOK
  BY DEF TypeOK, LoopOK, PcOK, NoteOK
<1> USE DEF TypeOK
<1>1. ASSUME NEW q \in Requests, LogRead(q) PROVE TypeOK'
  <2>1. "log_write" \in Positions
    BY DEF Positions
  <2>2. LoopOK' /\ PcOK'
    BY <1>0, <1>1, <2>1, GotoTyped, LoggedTyped DEF LogRead
  <2>3. log' \in [Requests -> Seq(Events)]
    <3>1. row.events \in Seq(Events)
      BY DEF Rows
    <3>2. CASE Exists
      BY <1>1, <3>1, <3>2 DEF LogRead
    <3>3. CASE ~Exists
      BY <1>1, <3>3 DEF LogRead
    <3> QED
      BY <3>2, <3>3
  <2> QED
    BY <1>1, <2>2, <2>3 DEF LogRead, LoopOK, PcOK, locals
<1>2. ASSUME NEW q \in Requests, LogWrite(q) PROVE TypeOK'
  <2>1. LoopOK' /\ PcOK'
    BY <1>0, <1>2, LoggedTyped DEF LogWrite
  <2>2. Append(log[q], note[q].ev) \in Seq(Events)
    BY DEF Notes
  <2>3. row' \in Rows
    BY <1>2, <2>2, UpdateTyped DEF LogWrite, Rows
  <2>4. log' \in [Requests -> Seq(Events)]
    <3>1. <<>> \in Seq(Events)
      OBVIOUS
    <3> QED
      BY <1>2, <3>1 DEF LogWrite
  <2> QED
    BY <1>2, <2>1, <2>3, <2>4 DEF LogWrite, LoopOK, PcOK, locals
<1>3. ASSUME NEW q \in Requests, NEW h \in Hosts, NEW n \in 1..MaxSteps,
             CreatePlan(q, h, n)
      PROVE TypeOK'
  <2>1. /\ LoopOK' /\ PcOK' /\ op' \in [Requests -> Ops]
        /\ host' \in [Requests -> Hosts \cup {None}]
    BY <1>0, <1>3, ArriveTyped DEF CreatePlan, Ops, Positions
  <2>2. row' \in Rows
    <3>1. [by |-> q, st |-> Pending(n)] \in Plans
      BY PendingIsPlan
    <3> QED
      BY <1>3, <3>1 DEF CreatePlan, Rows, Status
  <2>3. note' \in [Requests -> Notes]
    BY <1>3 DEF CreatePlan, Notes, Events, Positions
  <2> QED
    BY <1>3, <2>1, <2>2, <2>3 DEF CreatePlan, LoopOK, PcOK, Status
<1>4. ASSUME NEW q \in Requests, NEW h \in Hosts, NEW o \in {"approve", "reject"},
             ReadForDecision(q, h, o)
      PROVE TypeOK'
  <2>1. /\ LoopOK' /\ PcOK' /\ op' \in [Requests -> Ops]
        /\ host' \in [Requests -> Hosts \cup {None}]
    BY <1>0, <1>4, ArriveTyped DEF ReadForDecision, Ops, Positions
  <2>2. NoPlan \in Plans
    BY DEF NoPlan, Plans
  <2>3. [row.plan EXCEPT !.st = Pending(Len(row.plan.st))] \in Plans
    <3>1. row.plan \in Plans /\ Len(row.plan.st) \in Nat
      BY DEF Rows, Plans
    <3>2. Pending(Len(row.plan.st)) \in Seq(StepStatus)
      BY <3>1 DEF Pending, StepStatus
    <3> QED
      BY <3>1, <3>2 DEF Plans
  <2>4. plan' \in [Requests -> Plans]
    <3>1. \A n \in 1..MaxSteps : [by |-> q, st |-> Pending(n)] \in Plans
      BY PendingIsPlan
    <3>2. PICK p \in {[row.plan EXCEPT !.st = Pending(Len(row.plan.st))]}
                     \cup {[by |-> q, st |-> Pending(n)] : n \in 1..MaxSteps} :
             plan' = [plan EXCEPT ![q] = IF o = "approve" THEN p ELSE NoPlan]
      BY <1>4 DEF ReadForDecision
    <3>3. p \in Plans
      <4>1. CASE p = [row.plan EXCEPT !.st = Pending(Len(row.plan.st))]
        BY <2>3, <4>1
      <4>2. CASE p \in {[by |-> q, st |-> Pending(n)] : n \in 1..MaxSteps}
        BY <3>1, <4>2
      <4> QED
        BY <4>1, <4>2
    <3> QED
      BY <2>2, <3>2, <3>3
  <2> QED
    BY <1>4, <2>1, <2>4 DEF ReadForDecision, LoopOK, PcOK, Rows
<1>5. ASSUME NEW q \in Requests, WriteApproval(q) \/ WriteRejection(q)
      PROVE TypeOK'
  <2>1. LoopOK' /\ PcOK' /\ NoteOK'
    BY <1>0, <1>5, EmitTyped DEF WriteApproval, WriteRejection, Positions, Events
  <2>2. row' \in Rows
    BY <1>5, UpdateTyped DEF WriteApproval, WriteRejection, Rows, Status
  <2>3. sanctioned' \subseteq Requests \cup {None}
    BY <1>5 DEF WriteApproval, WriteRejection, Plans
  <2>4. seen' \in [Requests -> Status]
    BY <1>5 DEF WriteApproval, WriteRejection, Status
  <2> QED
    BY <1>5, <2>1, <2>2, <2>3, <2>4
    DEF WriteApproval, WriteRejection, LoopOK, PcOK, NoteOK
<1>6. ASSUME NEW q \in Requests, NEW h \in Hosts, ReadForStop(q, h)
      PROVE TypeOK'
  <2>1. /\ LoopOK' /\ PcOK' /\ op' \in [Requests -> Ops]
        /\ host' \in [Requests -> Hosts \cup {None}]
    BY <1>0, <1>6, ArriveTyped DEF ReadForStop, Ops, Positions
  <2> QED
    BY <1>6, <2>1 DEF ReadForStop, LoopOK, PcOK, Rows
<1>7. ASSUME NEW q \in Requests, WriteStop(q) PROVE TypeOK'
  <2>1. LoopOK' /\ PcOK'
    BY <1>0, <1>7, GotoTyped DEF WriteStop, Positions
  <2>2. row' \in Rows
    BY <1>7, UpdateTyped DEF WriteStop, Rows, Status
  <2> QED
    BY <1>7, <2>1, <2>2 DEF WriteStop, LoopOK, PcOK, Status
<1>8. ASSUME NEW q \in Requests, NEW h \in Hosts, ReadForDelete(q, h)
      PROVE TypeOK'
  <2>1. /\ LoopOK' /\ PcOK' /\ op' \in [Requests -> Ops]
        /\ host' \in [Requests -> Hosts \cup {None}]
    BY <1>0, <1>8, ArriveTyped DEF ReadForDelete, Ops, Positions
  <2> QED
    BY <1>8, <2>1 DEF ReadForDelete, LoopOK, PcOK
<1>9. ASSUME NEW q \in Requests, Remove(q) PROVE TypeOK'
  <2>1. LoopOK' /\ PcOK'
    <3>1. "audit" \in Positions /\ "done" \in Positions
      BY DEF Positions
    <3>2. CASE Exists
      BY <1>0, <1>9, <3>1, <3>2, GotoTyped DEF Remove
    <3>3. CASE ~Exists
      <4>1. pc' = [pc EXCEPT ![q] = "done"] /\ Yield(q)
        BY <1>9, <3>3 DEF Remove
      <4> QED
        BY <1>0, <4>1, <3>1, LoopTyped DEF PcOK
    <3> QED
      BY <3>2, <3>3
  <2>2. row' \in Rows /\ seen' \in [Requests -> Status]
    BY <1>9 DEF Remove, Rows, Status
  <2> QED
    BY <1>9, <2>1, <2>2 DEF Remove, LoopOK, PcOK
<1>10. ASSUME NEW q \in Requests, WriteAudit(q) PROVE TypeOK'
  <2>1. LoopOK' /\ PcOK'
    BY <1>0, <1>10, LoopTyped DEF WriteAudit, PcOK, Positions
  <2>2. audit' \in [Requests -> Status \cup {"none"}]
    BY <1>10 DEF WriteAudit, Rows
  <2> QED
    BY <1>10, <2>1, <2>2 DEF WriteAudit, LoopOK, PcOK, locals
<1>11. ASSUME NEW q \in Requests, NEW h \in Hosts, BeginRun(q, h)
       PROVE TypeOK'
  <2>1. /\ LoopOK' /\ PcOK' /\ op' \in [Requests -> Ops]
        /\ host' \in [Requests -> Hosts \cup {None}]
    BY <1>0, <1>11, ArriveTyped DEF BeginRun, Ops, Positions, Executing
  <2> QED
    BY <1>11, <2>1 DEF BeginRun, LoopOK, PcOK, Rows
<1>12. ASSUME NEW q \in Requests, MarkRunning(q) \/ BeginStep(q) \/ CollectSources(q)
       PROVE TypeOK'
  <2>1. LoopOK' /\ PcOK' /\ NoteOK'
    BY <1>0, <1>12, EmitTyped
    DEF MarkRunning, BeginStep, CollectSources, Positions, Executing, Events
  <2>2. row' \in Rows
    BY <1>12, UpdateTyped DEF MarkRunning, BeginStep, CollectSources, Rows, Status
  <2> QED
    BY <1>12, <2>1, <2>2
    DEF MarkRunning, BeginStep, CollectSources, LoopOK, PcOK, NoteOK, locals
<1>13. ASSUME NEW q \in Requests, Complete(q) \/ Fail(q) \/ Cancel(q)
       PROVE TypeOK'
  <2>1. LoopOK' /\ PcOK' /\ NoteOK'
    BY <1>0, <1>13, EmitTyped DEF Complete, Fail, Cancel, Positions, Events
  <2>2. row' \in Rows
    BY <1>13, UpdateTyped DEF Complete, Fail, Cancel, Rows, Status
  <2> QED
    BY <1>13, <2>1, <2>2 DEF Complete, Fail, Cancel, LoopOK, PcOK, NoteOK, locals
<1>14. ASSUME NEW q \in Requests, Gate(q) PROVE TypeOK'
  <2>1. [plan[q] EXCEPT !.st[step[q] + 1] = "running"] \in Plans
    <3>1. plan[q] \in Plans /\ step[q] + 1 \in Nat /\ "running" \in StepStatus
      BY DEF StepStatus
    <3> QED
      BY <3>1, PlanExcept
  <2>2. plan' \in [Requests -> Plans] /\ step' \in [Requests -> Nat]
    <3>1. CASE row.status = "stopped"
      BY <1>14, <3>1 DEF Gate
    <3>2. CASE row.status # "stopped"
      <4>1. plan' = [plan EXCEPT ![q] =
                        [plan[q] EXCEPT !.st[step[q] + 1] = "running"]]
        BY <1>14, <3>2 DEF Gate
      <4>2. step' = [step EXCEPT ![q] = step[q] + 1]
        BY <1>14, <3>2 DEF Gate
      <4> QED
        BY <2>1, <4>1, <4>2
    <3> QED
      BY <3>1, <3>2
  <2>3. LoopOK' /\ PcOK' /\ NoteOK'
    <3>1. /\ "begin" \in Positions /\ "audit" \in Positions
          /\ "stopped" \in Events
      BY DEF Positions, Executing, Events
    <3> QED
      BY <1>0, <1>14, <3>1, EmitTyped, GotoTyped DEF Gate, NoteOK
  <2> QED
    BY <1>14, <2>2, <2>3 DEF Gate, LoopOK, PcOK, NoteOK
<1>15. ASSUME NEW q \in Requests, SearchInternal(q) PROVE TypeOK'
  <2>1. LoopOK' /\ PcOK'
    BY <1>0, <1>15, GotoTyped DEF SearchInternal, Positions, Executing
  <2>2. found' \in [Requests -> Nat] /\ left' \in [Requests -> Nat]
    BY <1>15, RoomTyped DEF SearchInternal
  <2> QED
    BY <1>15, <2>1, <2>2 DEF SearchInternal, LoopOK, PcOK
<1>16. ASSUME NEW q \in Requests, NEW here \in Executing, NEW next \in Executing,
              Announce(q, here, next)
       PROVE TypeOK'
  <2>1. LoopOK' /\ PcOK' /\ NoteOK'
    <3>1. here \in Positions /\ next \in Positions /\ "source_found" \in Events
      BY DEF Positions, Events
    <3> QED
      BY <1>0, <1>16, <3>1, EmitTyped, GotoTyped DEF Announce, NoteOK
  <2>2. left' \in [Requests -> Nat]
    <3>1. CASE left[q] > 0
      <4>1. left' = [left EXCEPT ![q] = left[q] - 1]
        BY <1>16, <3>1 DEF Announce
      <4> QED
        BY <3>1, <4>1
    <3>2. CASE ~(left[q] > 0)
      BY <1>16, <3>2 DEF Announce
    <3> QED
      BY <3>1, <3>2
  <2> QED
    BY <1>16, <2>1, <2>2 DEF Announce, LoopOK, PcOK, NoteOK
<1>17. ASSUME NEW q \in Requests, StartWeb(q) PROVE TypeOK'
  <2>1. LoopOK' /\ PcOK'
    <3>1. "searching" \in Positions /\ "finish" \in Positions
      BY DEF Positions, Executing
    <3>2. CASE WebAllowed /\ Remaining(q) > 0
      <4>1. pc' = [pc EXCEPT ![q] = "searching"] /\ Yield(q)
        BY <1>17, <3>2 DEF StartWeb
      <4> QED
        BY <1>0, <4>1, <3>1, LoopTyped DEF PcOK
    <3>3. CASE ~(WebAllowed /\ Remaining(q) > 0)
      BY <1>0, <1>17, <3>1, <3>3, GotoTyped DEF StartWeb
    <3> QED
      BY <3>2, <3>3
  <2> QED
    BY <1>17, <2>1 DEF StartWeb, LoopOK, PcOK, locals
<1>18. ASSUME NEW q \in Requests, FinishWeb(q) PROVE TypeOK'
  <2>1. LoopOK' /\ PcOK' /\ NoteOK'
    <3>1. "announce_web" \in Positions /\ "warning" \in Events
      BY DEF Positions, Executing, Events
    <3> QED
      BY <1>0, <1>18, <3>1, EmitTyped, GotoTyped DEF FinishWeb, NoteOK
  <2>2. found' \in [Requests -> Nat] /\ left' \in [Requests -> Nat]
    <3>1. PICK k \in 0..MinOf(Remaining(q), PerCall) :
             \/ /\ found' = [found EXCEPT ![q] = @ + k]
                /\ left' = [left EXCEPT ![q] = k]
             \/ UNCHANGED <<found, left>>
      <4>1. CASE UNCHANGED <<found, left>>
        <5>1. 0 \in 0..MinOf(Remaining(q), PerCall)
          BY RoomTyped
        <5> QED
          BY <4>1, <5>1
      <4> QED
        BY <1>18, <4>1 DEF FinishWeb
    <3>2. k \in Nat
      BY RoomTyped
    <3> QED
      BY <3>1, <3>2
  <2> QED
    BY <1>18, <2>1, <2>2 DEF FinishWeb, LoopOK, PcOK, NoteOK
<1>19. ASSUME NEW q \in Requests, FinishStep(q) PROVE TypeOK'
  <2>1. [plan[q] EXCEPT !.st[step[q]] = "completed"] \in Plans
    <3>1. plan[q] \in Plans /\ step[q] \in Nat /\ "completed" \in StepStatus
      BY DEF StepStatus
    <3> QED
      BY <3>1, PlanExcept
  <2>2. plan' \in [Requests -> Plans] /\ row' \in Rows
    BY <1>19, <2>1, UpdateTyped DEF FinishStep, Rows
  <2>3. LoopOK' /\ PcOK' /\ NoteOK'
    BY <1>0, <1>19, EmitTyped DEF FinishStep, Positions, Executing, Events
  <2> QED
    BY <1>19, <2>2, <2>3 DEF FinishStep, LoopOK, PcOK, NoteOK
<1>20. ASSUME NEW q \in Requests, Abandon(q) PROVE TypeOK'
  BY <1>20 DEF Abandon, Positions, locals
<1>21. ASSUME NEW h \in Hosts, Crash(h) PROVE TypeOK'
  <2>1. pc' \in [Requests -> Positions]
    BY <1>21 DEF Crash, Positions
  <2>2. loop' \in [Hosts -> Requests \cup {None}]
    BY <1>21 DEF Crash
  <2>3. crashes' \in 0..MaxCrashes
    BY <1>21 DEF Crash
  <2>4. row' = row /\ log' = log /\ note' = note /\ audit' = audit
        /\ sanctioned' = sanctioned
    BY <1>21 DEF Crash
  <2>5. op' = op /\ host' = host /\ plan' = plan /\ seen' = seen /\ step' = step
        /\ found' = found /\ left' = left
    BY <1>21 DEF Crash, locals
  <2> QED
    BY <2>1, <2>2, <2>3, <2>4, <2>5
<1>22. CASE UNCHANGED vars
  BY <1>22 DEF vars
<1> HIDE DEF TypeOK
<1>23. ASSUME NEW q \in Requests, AnnounceInternal(q) \/ AnnounceWeb(q)
       PROVE TypeOK'
  <2>1. /\ "announce_internal" \in Executing /\ "web" \in Executing
        /\ "announce_web" \in Executing /\ "finish" \in Executing
    BY DEF Executing
  <2> QED
    BY <1>16, <1>23, <2>1 DEF AnnounceInternal, AnnounceWeb
<1>24. ASSUME NEW q \in Requests, Accept(q) PROVE TypeOK'
  BY <1>3, <1>4, <1>6, <1>8, <1>11, <1>24 DEF Accept
<1>25. ASSUME NEW q \in Requests, Serve(q) PROVE TypeOK'
  BY <1>1, <1>2, <1>5, <1>7, <1>9, <1>10, <1>12, <1>13, <1>14, <1>15, <1>17,
     <1>18, <1>19, <1>23, <1>25 DEF Serve
<1> QED
  BY <1>13, <1>20, <1>21, <1>22, <1>24, <1>25 DEF Next

\* Every variable keeps its type, for any number of requests and processes.
THEOREM TypeCorrect == Spec => []TypeOK
<1>1. Init => TypeOK
  BY ConstantsAssumption
  DEF Init, TypeOK, Status, Plans, Rows, Notes, NoPlan, Events, Ops, Positions
<1> QED
  BY <1>1, TypeStep, PTL DEF Spec

-----------------------------------------------------------------------------
(* Only sanctioned plans are executed.                                     *)

\* A request inside run() came in by the run route.
RunnerInv == \A q \in Requests : Working(q) => op[q] = "run"

LEMMA RunnerStep ==
    ASSUME TypeOK, RunnerInv, [Next]_vars
    PROVE  RunnerInv'
<1> USE DEF RunnerInv, Working
<1>1. ASSUME NEW q \in Requests, NEW e, NEW p, Emit(q, e, p),
             UNCHANGED op, p \in Executing => op[q] = "run"
      PROVE  RunnerInv'
  BY <1>1 DEF Emit, Goto, TypeOK, Executing
<1>2. ASSUME NEW q \in Requests, NEW p, pc' = [pc EXCEPT ![q] = p],
             UNCHANGED <<op, note>>, p \notin {"log_read", "log_write"},
             p \in Executing => op[q] = "run"
      PROVE  RunnerInv'
  BY <1>2 DEF TypeOK
<1>3. ASSUME NEW q \in Requests, NEW h, NEW o, NEW p, Arrive(q, h, o, p),
             UNCHANGED note, p \in Executing => o = "run",
             p \notin {"log_read", "log_write"}
      PROVE  RunnerInv'
  BY <1>3 DEF Arrive, TypeOK
<1>4. ASSUME NEW q \in Requests, NEW h \in Hosts, NEW n, CreatePlan(q, h, n)
      PROVE  RunnerInv'
  BY <1>4 DEF CreatePlan, Arrive, TypeOK, Executing
<1>5. ASSUME NEW q \in Requests, LogRead(q) \/ LogWrite(q)
      PROVE  RunnerInv'
  BY <1>5 DEF LogRead, LogWrite, Logged, Goto, TypeOK, locals, Executing
<1>6. ASSUME NEW q \in Requests, Accept(q)
      PROVE  RunnerInv'
  <2>1. ASSUME NEW h \in Hosts, NEW o \in {"approve", "reject"},
               ReadForDecision(q, h, o)
        PROVE  RunnerInv'
    BY <1>3, <2>1 DEF ReadForDecision, Executing
  <2>2. ASSUME NEW h \in Hosts, ReadForStop(q, h)
        PROVE  RunnerInv'
    <3>1. "stop" \notin Executing /\ "audit" \notin Executing
      BY DEF Executing
    <3> QED
      BY <1>3, <2>2, <3>1 DEF ReadForStop
  <2>3. ASSUME NEW h \in Hosts, ReadForDelete(q, h)
        PROVE  RunnerInv'
    BY <1>3, <2>3 DEF ReadForDelete, Executing
  <2>4. ASSUME NEW h \in Hosts, BeginRun(q, h)
        PROVE  RunnerInv'
    BY <1>3, <2>4 DEF BeginRun
  <2> QED
    BY <1>4, <1>6, <2>1, <2>2, <2>3, <2>4 DEF Accept
<1>7. ASSUME NEW q \in Requests,
             \/ WriteApproval(q) \/ WriteRejection(q) \/ WriteStop(q)
             \/ Remove(q) \/ WriteAudit(q)
      PROVE  RunnerInv'
  <2>1. /\ UNCHANGED op
        /\ "audit" \notin Executing /\ "done" \notin Executing
    BY <1>7
    DEF WriteApproval, WriteRejection, WriteStop, Remove, WriteAudit, Executing,
        locals
  <2>2. CASE WriteApproval(q) \/ WriteRejection(q)
    BY <1>1, <2>1, <2>2 DEF WriteApproval, WriteRejection
  <2>3. CASE WriteStop(q) \/ Remove(q) \/ WriteAudit(q)
    <3>1. UNCHANGED note /\ \E p \in {"audit", "done"} : pc' = [pc EXCEPT ![q] = p]
      BY <2>3 DEF WriteStop, Remove, WriteAudit, Goto
    <3> QED
      BY <1>2, <2>1, <3>1
  <2> QED
    BY <1>7, <2>2, <2>3
<1>8. ASSUME NEW q \in Requests,
             \/ MarkRunning(q) \/ Gate(q) \/ BeginStep(q) \/ SearchInternal(q)
             \/ AnnounceInternal(q) \/ StartWeb(q) \/ FinishWeb(q)
             \/ AnnounceWeb(q) \/ FinishStep(q) \/ CollectSources(q)
             \/ Complete(q) \/ Fail(q) \/ Cancel(q)
      PROVE  RunnerInv'
  <2>1. pc[q] \in Executing
    BY <1>8
    DEF MarkRunning, Gate, BeginStep, SearchInternal, AnnounceInternal, StartWeb,
        FinishWeb, AnnounceWeb, Announce, FinishStep, CollectSources, Complete,
        Fail, Cancel, Executing
  <2>2. op[q] = "run"
    BY <2>1
  <2>3. UNCHANGED op
    BY <1>8
    DEF MarkRunning, Gate, BeginStep, SearchInternal, AnnounceInternal, StartWeb,
        FinishWeb, AnnounceWeb, Announce, FinishStep, CollectSources, Complete,
        Fail, Cancel, locals
  <2>4. \/ \E e, p : Emit(q, e, p)
        \/ \E p : /\ pc' = [pc EXCEPT ![q] = p] /\ UNCHANGED note
                  /\ p \notin {"log_read", "log_write"}
    BY <1>8
    DEF MarkRunning, Gate, BeginStep, SearchInternal, AnnounceInternal, StartWeb,
        FinishWeb, AnnounceWeb, Announce, FinishStep, CollectSources, Complete,
        Fail, Cancel, Goto
  <2> QED
    BY <1>1, <1>2, <2>2, <2>3, <2>4
<1>9. ASSUME NEW q \in Requests, Abandon(q)
      PROVE  RunnerInv'
  BY <1>2, <1>9 DEF Abandon, Executing, locals
<1>10. ASSUME NEW h \in Hosts, Crash(h)
       PROVE  RunnerInv'
  BY <1>10 DEF Crash, Executing, locals
<1>11. CASE UNCHANGED vars
  BY <1>11 DEF vars
<1> QED
  BY <1>5, <1>6, <1>7, <1>8, <1>9, <1>10, <1>11 DEF Next, Serve

\* What ExecutesSanctionedPlan needs besides: an approved record carries a
\* sanctioned plan, so that a run that reads it copies one.
SanctionInv ==
    /\ ExecutesSanctionedPlan
    /\ row.status = "approved" => row.plan.by \in sanctioned

\* A write that leaves the requests' plans alone keeps SanctionInv when the
\* record gets no plan but its own or a run's, and is not approved by it.
LEMMA SanctionedWrite ==
    ASSUME SanctionInv, UNCHANGED <<op, plan, sanctioned>>,
           \/ row'.status = row.status /\ row'.plan = row.plan
           \/ row'.status # "approved"
           \/ \E q \in Requests : /\ op[q] = "run" /\ row'.status = row.status
                                  /\ row'.plan = plan[q]
    PROVE  SanctionInv'
  BY DEF SanctionInv, ExecutesSanctionedPlan

LEMMA SanctionStep ==
    ASSUME TypeOK, RunnerInv, SanctionInv, [Next]_vars
    PROVE  SanctionInv'
<1>1. ASSUME NEW q \in Requests,
             \/ LogRead(q) \/ LogWrite(q) \/ WriteRejection(q) \/ WriteStop(q)
             \/ Remove(q) \/ WriteAudit(q) \/ MarkRunning(q) \/ SearchInternal(q)
             \/ AnnounceInternal(q) \/ StartWeb(q) \/ FinishWeb(q)
             \/ AnnounceWeb(q) \/ Complete(q) \/ Abandon(q)
      PROVE  SanctionInv'
  <2>1. UNCHANGED <<op, plan, sanctioned>>
    BY <1>1
    DEF LogRead, LogWrite, WriteRejection, WriteStop, Remove, WriteAudit,
        MarkRunning, SearchInternal, AnnounceInternal, StartWeb, FinishWeb,
        AnnounceWeb, Announce, Complete, Abandon, locals
  <2>2. \/ row'.status = row.status /\ row'.plan = row.plan
        \/ row'.status # "approved"
    <3>1. CASE LogRead(q) \/ LogWrite(q) \/ WriteRejection(q) \/ WriteStop(q)
               \/ Remove(q) \/ WriteAudit(q) \/ MarkRunning(q)
      BY <3>1 DEF LogRead, LogWrite, WriteRejection, WriteStop, Remove,
                  WriteAudit, MarkRunning, Update, TypeOK, Rows
    <3>2. CASE SearchInternal(q) \/ AnnounceInternal(q) \/ StartWeb(q)
               \/ FinishWeb(q) \/ AnnounceWeb(q) \/ Complete(q) \/ Abandon(q)
      BY <3>2 DEF SearchInternal, AnnounceInternal, StartWeb, FinishWeb,
                  AnnounceWeb, Announce, Complete, Abandon, Update, TypeOK, Rows
    <3> QED
      BY <1>1, <3>1, <3>2
  <2> QED
    BY <2>1, <2>2, SanctionedWrite
<1>2. ASSUME NEW q \in Requests,
             BeginStep(q) \/ CollectSources(q) \/ Fail(q) \/ Cancel(q)
      PROVE  SanctionInv'
  <2>1. op[q] = "run"
    BY <1>2 DEF RunnerInv, Working, BeginStep, CollectSources, Fail, Cancel, Executing
  <2>2. UNCHANGED <<op, plan, sanctioned>>
    BY <1>2 DEF BeginStep, CollectSources, Fail, Cancel, locals
  <2>3. \/ row'.status = row.status /\ row'.plan = row.plan
        \/ row'.status # "approved"
        \/ row'.status = row.status /\ row'.plan = plan[q]
    BY <1>2 DEF BeginStep, CollectSources, Fail, Cancel, Update, TypeOK, Rows
  <2> QED
    BY <2>1, <2>2, <2>3, SanctionedWrite
<1>3. ASSUME NEW q \in Requests, Gate(q)
      PROVE  SanctionInv'
  <2>1. UNCHANGED <<op, row, sanctioned>>
    BY <1>3 DEF Gate
  <2>2. \A r \in Requests : plan'[r].by = plan[r].by
    <3>1. [plan[q] EXCEPT !.st[step[q] + 1] = "running"].by = plan[q].by
      <4>1. plan[q] \in Plans /\ step[q] + 1 \in Nat /\ "running" \in StepStatus
        BY DEF TypeOK, StepStatus
      <4> QED
        BY <4>1, PlanExcept
    <3>2. \/ plan' = plan
          \/ plan' = [plan EXCEPT ![q] =
                        [plan[q] EXCEPT !.st[step[q] + 1] = "running"]]
      BY <1>3 DEF Gate
    <3> QED
      BY <3>1, <3>2 DEF TypeOK
  <2> QED
    BY <2>1, <2>2 DEF SanctionInv, ExecutesSanctionedPlan
<1>4. ASSUME NEW q \in Requests, FinishStep(q)
      PROVE  SanctionInv'
  <2> DEFINE p == [plan[q] EXCEPT !.st[step[q]] = "completed"]
  <2>1. UNCHANGED <<op, sanctioned>> /\ plan' = [plan EXCEPT ![q] = p]
    BY <1>4 DEF FinishStep
  <2>2. p.by = plan[q].by
    <3>1. plan[q] \in Plans /\ step[q] \in Nat /\ "completed" \in StepStatus
      BY DEF TypeOK, StepStatus
    <3> QED
      BY <3>1, PlanExcept
  <2>3. op[q] = "run"
    BY <1>4 DEF RunnerInv, Working, FinishStep, Executing
  <2>4. \/ row' = row
        \/ row'.status = row.status /\ row'.plan = p
    BY <1>4 DEF FinishStep, Update, TypeOK, Rows
  <2> HIDE DEF p
  <2>5. ExecutesSanctionedPlan'
    BY <2>1, <2>2 DEF SanctionInv, ExecutesSanctionedPlan, TypeOK
  <2>6. row'.status = "approved" => row'.plan.by \in sanctioned'
    BY <2>1, <2>2, <2>3, <2>4 DEF SanctionInv, ExecutesSanctionedPlan
  <2> QED
    BY <2>5, <2>6 DEF SanctionInv
<1>5. ASSUME NEW q \in Requests, WriteApproval(q)
      PROVE  SanctionInv'
  BY <1>5 DEF WriteApproval, Update, SanctionInv, ExecutesSanctionedPlan, TypeOK, Rows
<1>6. ASSUME NEW q \in Requests, NEW h \in Hosts, NEW n \in 1..MaxSteps,
             CreatePlan(q, h, n)
      PROVE  SanctionInv'
  BY <1>6 DEF CreatePlan, Arrive, SanctionInv, ExecutesSanctionedPlan, TypeOK, Rows
<1>7. ASSUME NEW q \in Requests, NEW h \in Hosts, NEW o \in {"approve", "reject"},
             ReadForDecision(q, h, o)
      PROVE  SanctionInv'
  <2>1. UNCHANGED <<row, sanctioned>> /\ op' = [op EXCEPT ![q] = o]
    BY <1>7 DEF ReadForDecision, Arrive
  <2>2. \A r \in Requests \ {q} : plan'[r] = plan[r]
    BY <1>7 DEF ReadForDecision, TypeOK
  <2> QED
    BY <2>1, <2>2 DEF SanctionInv, ExecutesSanctionedPlan, TypeOK
<1>8. ASSUME NEW q \in Requests, NEW h \in Hosts,
             ReadForStop(q, h) \/ ReadForDelete(q, h)
      PROVE  SanctionInv'
  BY <1>8
  DEF ReadForStop, ReadForDelete, Arrive, SanctionInv, ExecutesSanctionedPlan, TypeOK
<1>9. ASSUME NEW q \in Requests, NEW h \in Hosts, BeginRun(q, h)
      PROVE  SanctionInv'
  BY <1>9 DEF BeginRun, Arrive, SanctionInv, ExecutesSanctionedPlan, TypeOK
<1>10. CASE (\E h \in Hosts : Crash(h)) \/ UNCHANGED vars
  BY <1>10, SanctionedWrite DEF Crash, vars, locals
<1>11. ASSUME NEW q \in Requests, Accept(q)
       PROVE  SanctionInv'
  BY <1>6, <1>7, <1>8, <1>9, <1>11 DEF Accept
<1> QED
  BY <1>1, <1>2, <1>3, <1>4, <1>5, <1>10, <1>11 DEF Next, Serve

\* For any number of requests and API processes, however they interleave and
\* crash, a run executes plan texts stored by an approval only.
THEOREM Governed == Spec => []ExecutesSanctionedPlan
<1>1. Init => TypeOK /\ RunnerInv /\ SanctionInv
  <2>1. Init => RunnerInv
    BY DEF Init, RunnerInv, Working, Executing
  <2>2. Init => SanctionInv
    BY DEF Init, SanctionInv, ExecutesSanctionedPlan
  <2> QED
    BY <2>1, <2>2, ConstantsAssumption
    DEF Init, TypeOK, Status, Plans, Rows, Notes, NoPlan, Events, Ops, Positions
<1>2. TypeOK /\ RunnerInv /\ SanctionInv /\ [Next]_vars
        => TypeOK' /\ RunnerInv' /\ SanctionInv'
  BY TypeStep, RunnerStep, SanctionStep
<1>3. SanctionInv => ExecutesSanctionedPlan
  BY DEF SanctionInv
<1> QED
  BY <1>1, <1>2, <1>3, PTL DEF Spec

-----------------------------------------------------------------------------
(* The source budget, and the finality of a deletion.                      *)

\* No run gathers more sources than the plan allows.
THEOREM WithinBudget == Spec => []SourceBudget
<1>1. Init => SourceBudget
  BY ConstantsAssumption DEF Init, SourceBudget
<1>2. TypeOK /\ SourceBudget /\ [Next]_vars => SourceBudget'
  <2> SUFFICES ASSUME TypeOK, SourceBudget, [Next]_vars PROVE SourceBudget'
    OBVIOUS
  <2>1. CASE UNCHANGED found
    BY <2>1 DEF SourceBudget
  <2>2. ASSUME NEW q \in Requests, SearchInternal(q) \/ FinishWeb(q), found' # found
        PROVE  SourceBudget'
    <3>1. PICK k \in Nat : /\ k <= Remaining(q)
                           /\ found' = [found EXCEPT ![q] = @ + k]
      <4>1. PICK k \in 0..MinOf(Remaining(q), PerCall) \cup {0} :
               found' = [found EXCEPT ![q] = @ + k]
        BY <2>2 DEF SearchInternal, FinishWeb
      <4>2. k \in Nat /\ k <= Remaining(q)
        BY RoomTyped DEF TypeOK
      <4> QED
        BY <4>1, <4>2
    <3>2. found[q] + k <= MaxSources
      BY <3>1, ConstantsAssumption DEF Remaining, SourceBudget, TypeOK
    <3> QED
      BY <3>1, <3>2 DEF SourceBudget, TypeOK
  <2>3. UNCHANGED found \/ \E q \in Requests : SearchInternal(q) \/ FinishWeb(q)
    <3>1. ASSUME NEW q \in Requests, Accept(q) PROVE UNCHANGED found
      BY <3>1 DEF Accept, CreatePlan, ReadForDecision, ReadForStop,
                  ReadForDelete, BeginRun, locals
    <3>2. ASSUME NEW q \in Requests, Serve(q), ~SearchInternal(q), ~FinishWeb(q)
          PROVE  UNCHANGED found
      <4>1. CASE LogRead(q) \/ LogWrite(q) \/ WriteApproval(q) \/ WriteRejection(q)
                 \/ WriteStop(q) \/ Remove(q) \/ WriteAudit(q)
        BY <4>1 DEF LogRead, LogWrite, WriteApproval, WriteRejection, WriteStop,
                    Remove, WriteAudit, locals
      <4>2. CASE MarkRunning(q) \/ Gate(q) \/ BeginStep(q) \/ AnnounceInternal(q)
                 \/ StartWeb(q) \/ AnnounceWeb(q)
        BY <4>2 DEF MarkRunning, Gate, BeginStep, AnnounceInternal, StartWeb,
                    AnnounceWeb, Announce, locals
      <4>3. CASE FinishStep(q) \/ CollectSources(q) \/ Complete(q) \/ Fail(q)
        BY <4>3 DEF FinishStep, CollectSources, Complete, Fail, locals
      <4> QED
        BY <3>2, <4>1, <4>2, <4>3 DEF Serve
    <3>3. ASSUME NEW q \in Requests, Cancel(q) \/ Abandon(q) PROVE UNCHANGED found
      BY <3>3 DEF Cancel, Abandon, locals
    <3>4. ASSUME NEW h \in Hosts, Crash(h) PROVE UNCHANGED found
      BY <3>4 DEF Crash, locals
    <3>5. UNCHANGED vars => UNCHANGED found
      BY DEF vars
    <3> QED
      BY <3>1, <3>2, <3>3, <3>4, <3>5 DEF Next
  <2> QED
    BY <2>1, <2>2, <2>3
<1> QED
  BY <1>1, <1>2, TypeCorrect, PTL DEF Spec

LEMMA DeletedRow ==
    ASSUME [Next]_vars, row.status = "deleted"
    PROVE  row' = row
<1>1. ~Exists
  BY DEF Exists
<1> QED
  BY <1>1
  DEF Next, Accept, Serve, CreatePlan, ReadForDecision, ReadForStop,
      ReadForDelete, BeginRun, LogRead, LogWrite, WriteApproval,
      WriteRejection, WriteStop, Remove, WriteAudit, MarkRunning, Gate,
      BeginStep, SearchInternal, AnnounceInternal, StartWeb, FinishWeb,
      AnnounceWeb, Announce, FinishStep, CollectSources, Complete, Fail,
      Cancel, Abandon, Crash, Update, locals, vars

\* Nothing brings a deleted record back.
THEOREM DeletionIsFinal == Spec => DeletedStaysDeleted
<1>1. [Next]_vars => (row.status = "deleted" => row' = row)
  BY DeletedRow
<1>2. [Next]_vars => [row.status = "deleted" => row' = row]_vars
  BY <1>1
<1> QED
  BY <1>2, PTL DEF Spec, DeletedStaysDeleted
-----------------------------------------------------------------------------
(* A run goes through its plan step by step.                               *)

\* Where q is, logging apart: an event is logged on the way to a position.
At(q) == IF pc[q] \in {"log_read", "log_write"} THEN note[q].then ELSE pc[q]

\* Positions within a step of the plan, and after the last word of a request.
InStep == {"begin", "internal", "announce_internal", "web", "searching",
           "announce_web", "finish"}
Over == {"audit", "done", "dead"}

Acts(q) == Accept(q) \/ Serve(q) \/ Cancel(q) \/ Abandon(q)

\* A request's step leaves what the others hold.
LEMMA Frame ==
    ASSUME TypeOK, NEW q \in Requests, Acts(q), NEW r \in Requests, r # q
    PROVE  /\ pc'[r] = pc[r] /\ note'[r] = note[r] /\ log'[r] = log[r]
           /\ plan'[r] = plan[r] /\ step'[r] = step[r]
           /\ op'[r] = op[r] /\ host'[r] = host[r]
           /\ At(r)' = At(r)
<1>1. ASSUME NEW h \in Hosts, NEW o, NEW p, Arrive(q, h, o, p)
      PROVE  pc'[r] = pc[r] /\ op'[r] = op[r] /\ host'[r] = host[r]
  BY <1>1 DEF Arrive, TypeOK
<1>2. CASE Accept(q)
  <2>1. /\ pc'[r] = pc[r] /\ op'[r] = op[r] /\ host'[r] = host[r]
        /\ log' = log /\ step' = step
    BY <1>1, <1>2
    DEF Accept, CreatePlan, ReadForDecision, ReadForStop, ReadForDelete, BeginRun
  <2>2. note'[r] = note[r] /\ plan'[r] = plan[r]
    BY <1>2
    DEF Accept, CreatePlan, ReadForDecision, ReadForStop, ReadForDelete, BeginRun, TypeOK
  <2> QED
    BY <2>1, <2>2 DEF At
<1>3. ASSUME NEW p, pc' = [pc EXCEPT ![q] = p] PROVE pc'[r] = pc[r]
  BY <1>3 DEF TypeOK
<1>4. ASSUME NEW e, NEW p, Emit(q, e, p) PROVE pc'[r] = pc[r] /\ note'[r] = note[r]
  BY <1>4 DEF Emit, Goto, TypeOK
<1>5. CASE LogRead(q) \/ LogWrite(q)
  BY <1>5 DEF LogRead, LogWrite, Logged, Goto, locals, TypeOK, At
<1>6. CASE WriteApproval(q) \/ WriteRejection(q)
  BY <1>4, <1>6 DEF WriteApproval, WriteRejection, locals, At
<1>7. CASE WriteStop(q) \/ Remove(q) \/ WriteAudit(q)
  BY <1>3, <1>7 DEF WriteStop, Remove, WriteAudit, Goto, locals, At
<1>8. CASE MarkRunning(q) \/ BeginStep(q) \/ CollectSources(q) \/ Complete(q) \/ Fail(q)
           \/ Cancel(q)
  BY <1>4, <1>8 DEF MarkRunning, BeginStep, CollectSources, Complete, Fail, Cancel, locals, At
<1>9. CASE Gate(q) \/ FinishStep(q)
  <2>1. pc'[r] = pc[r] /\ note'[r] = note[r]
    BY <1>3, <1>4, <1>9 DEF Gate, FinishStep, Goto
  <2>2. plan'[r] = plan[r] /\ step'[r] = step[r]
    BY <1>9 DEF Gate, FinishStep, TypeOK
  <2> QED
    BY <1>9, <2>1, <2>2 DEF Gate, FinishStep, At
<1>10. CASE SearchInternal(q) \/ StartWeb(q) \/ FinishWeb(q)
  BY <1>3, <1>4, <1>10 DEF SearchInternal, StartWeb, FinishWeb, Goto, locals, At
<1>11. CASE AnnounceInternal(q) \/ AnnounceWeb(q)
  BY <1>3, <1>4, <1>11 DEF AnnounceInternal, AnnounceWeb, Announce, Goto, locals, At
<1>12. CASE Abandon(q)
  BY <1>3, <1>12 DEF Abandon, locals, At
<1> QED
  BY <1>2, <1>5, <1>6, <1>7, <1>8, <1>9, <1>10, <1>11, <1>12 DEF Acts, Serve

\* Where a step takes the request that makes it.
LEMMA GotoAt ==
    ASSUME TypeOK, NEW q \in Requests, NEW p, p \notin {"log_read", "log_write"},
           pc' = [pc EXCEPT ![q] = p]
    PROVE  At(q)' = p /\ pc'[q] = p
  BY DEF At, TypeOK

LEMMA EmitAt ==
    ASSUME TypeOK, NEW q \in Requests, NEW e, NEW p, Emit(q, e, p)
    PROVE  At(q)' = p /\ pc'[q] = "log_read" /\ note'[q].then = p
  BY DEF Emit, Goto, At, TypeOK

LEMMA LogAt ==
    ASSUME TypeOK, NEW q \in Requests, LogRead(q) \/ LogWrite(q)
    PROVE  At(q)' = At(q)
<1>1. pc'[q] \in {"log_write", note[q].then} /\ note' = note
  BY DEF LogRead, LogWrite, Logged, Goto, TypeOK
<1>2. pc[q] \in {"log_read", "log_write"}
  BY DEF LogRead, LogWrite
<1> QED
  BY <1>1, <1>2 DEF At

LEMMA ArriveAt ==
    ASSUME TypeOK, NEW q \in Requests, Accept(q)
    PROVE  /\ At(q) = "new" /\ pc[q] = "new"
           /\ At(q)' \in {"audit", "decide", "stop", "remove", "mark"}
           /\ step' = step
<1>1. ASSUME NEW h, NEW o, NEW p, Arrive(q, h, o, p)
      PROVE  pc[q] = "new" /\ pc'[q] = p
  BY <1>1 DEF Arrive, TypeOK
<1>2. ASSUME NEW h \in Hosts, NEW n, CreatePlan(q, h, n)
      PROVE  pc[q] = "new" /\ At(q)' = "audit" /\ step' = step
  BY <1>1, <1>2 DEF CreatePlan, At, TypeOK
<1>3. ASSUME NEW h \in Hosts,
             \/ \E o \in {"approve", "reject"} : ReadForDecision(q, h, o)
             \/ ReadForStop(q, h) \/ ReadForDelete(q, h) \/ BeginRun(q, h)
      PROVE  /\ pc[q] = "new" /\ step' = step
             /\ At(q)' \in {"audit", "decide", "stop", "remove", "mark"}
  BY <1>1, <1>3 DEF ReadForDecision, ReadForStop, ReadForDelete, BeginRun, At
<1> QED
  BY <1>2, <1>3 DEF Accept, At

\* What a step of q does to its plan and its place in it.
Kept == plan' = plan /\ step' = step

LEMMA Kinds ==
    ASSUME TypeOK, NEW q \in Requests, Acts(q)
    PROVE  \/ Kept /\ At(q)' = At(q)
           \/ Kept /\ At(q) # "new" /\ At(q)' \in Over
           \/ Kept /\ At(q) = "mark" /\ At(q)' = "gate"
           \/ Kept /\ At(q) \in InStep /\ At(q)' \in InStep
           \/ Kept /\ At(q) = "gate" /\ At(q)' = "synth" /\ step[q] = Len(plan[q].st)
           \/ Accept(q)
           \/ Gate(q) /\ At(q) = "gate" /\ At(q)' = "begin"
           \/ FinishStep(q) /\ At(q) = "finish" /\ At(q)' = "gate"
<1>1. CASE LogRead(q) \/ LogWrite(q)
  BY <1>1, LogAt DEF LogRead, LogWrite, locals, Kept
<1>2. CASE WriteApproval(q) \/ WriteRejection(q)
  BY <1>2, EmitAt DEF WriteApproval, WriteRejection, Kept, Over, At
<1>3. CASE WriteStop(q) \/ Remove(q) \/ WriteAudit(q)
  BY <1>3, GotoAt DEF WriteStop, Remove, WriteAudit, Goto, locals, Kept, Over, At
<1>4. CASE MarkRunning(q)
  BY <1>4, EmitAt DEF MarkRunning, locals, Kept, At
<1>5. CASE BeginStep(q)
  BY <1>5, EmitAt DEF BeginStep, locals, Kept, InStep, At
<1>6. CASE SearchInternal(q) \/ StartWeb(q)
  BY <1>6, GotoAt DEF SearchInternal, StartWeb, Goto, locals, Kept, InStep, At
<1>7. CASE FinishWeb(q)
  BY <1>7, GotoAt, EmitAt DEF FinishWeb, Goto, Kept, InStep, At
<1>8. CASE AnnounceInternal(q) \/ AnnounceWeb(q)
  BY <1>8, GotoAt, EmitAt DEF AnnounceInternal, AnnounceWeb, Announce, Goto, Kept, InStep, At
<1>9. CASE CollectSources(q)
  BY <1>9, EmitAt DEF CollectSources, locals, Kept, At
<1>10. CASE Complete(q) \/ Fail(q) \/ Cancel(q)
  BY <1>10, EmitAt DEF Complete, Fail, Cancel, locals, Kept, Over, At
<1>11. CASE Abandon(q)
  BY <1>11, GotoAt DEF Abandon, YieldPoints, locals, Kept, Over, At
<1>12. CASE Gate(q)
  BY <1>12, GotoAt, EmitAt DEF Gate, Goto, Kept, Over, At
<1>13. CASE FinishStep(q)
  BY <1>13, EmitAt DEF FinishStep, At
<1> QED
  BY <1>1, <1>2, <1>3, <1>4, <1>5, <1>6, <1>7, <1>8, <1>9, <1>10, <1>11, <1>12, <1>13
  DEF Acts, Serve

AllDone(q, n) == \A i \in 1..n : plan[q].st[i] = "completed"

\* The steps before the one q is at are completed, and at the end all are.
Progress(q) ==
    /\ At(q) \in {"new", "mark"} => step[q] = 0
    /\ At(q) = "gate" => step[q] <= Len(plan[q].st) /\ AllDone(q, step[q])
    /\ At(q) \in InStep => step[q] \in 1..Len(plan[q].st) /\ AllDone(q, step[q] - 1)
    /\ At(q) = "synth" => step[q] = Len(plan[q].st) /\ AllDone(q, step[q])

\* q has stored its report and will not touch its plan again.
Earned(q) ==
    /\ step[q] = Len(plan[q].st) /\ AllDone(q, step[q])
    /\ At(q) \in Over

EarnedInv ==
    /\ \A q \in Requests : Progress(q)
    /\ \A q \in Requests : row.report = q => Earned(q)
    /\ row.status = "completed" => row.report # None

LEMMA ProgressKept ==
    ASSUME NEW r \in Requests, plan'[r] = plan[r], step'[r] = step[r], At(r)' = At(r)
    PROVE  /\ Progress(r) => Progress(r)'
           /\ Earned(r) => Earned(r)'
  BY DEF Progress, Earned, AllDone

\* The request that acts.
LEMMA ProgressOwn ==
    ASSUME TypeOK, NEW q \in Requests, Acts(q), Progress(q)
    PROVE  Progress(q)'
<1> USE DEF AllDone
<1>0. /\ plan[q] \in Plans /\ step[q] \in Nat /\ Len(plan[q].st) \in Nat
      /\ plan[q].st \in Seq(StepStatus)
  BY DEF TypeOK, Plans
<1>1. CASE Kept /\ At(q)' = At(q)
  BY <1>1, ProgressKept DEF Kept
<1>2. CASE Kept /\ At(q)' \in Over
  BY <1>2 DEF Progress, Over, InStep
<1>3. CASE Kept /\ At(q) = "mark" /\ At(q)' = "gate"
  BY <1>0, <1>3 DEF Kept, Progress, InStep
<1>4. CASE Kept /\ At(q) \in InStep /\ At(q)' \in InStep
  BY <1>4 DEF Kept, Progress, InStep
<1>5. CASE Kept /\ At(q) = "gate" /\ At(q)' = "synth" /\ step[q] = Len(plan[q].st)
  BY <1>5 DEF Kept, Progress, InStep
<1>6. CASE Accept(q)
  <2>1. At(q)' \in {"audit", "decide", "stop", "remove", "mark"} /\ step'[q] = 0
    BY <1>6, ArriveAt DEF Progress
  <2> QED
    BY <2>1 DEF Progress, InStep
<1>7. CASE Gate(q) /\ At(q) = "gate" /\ At(q)' = "begin"
  <2> DEFINE n == step[q] + 1
  <2>1. CASE row.status = "stopped"
    <3>1. At(q)' = "audit"
      BY <1>7, <2>1, EmitAt DEF Gate
    <3> QED
      BY <1>7, <3>1
  <2>2. CASE row.status # "stopped"
    <3>1. /\ plan'[q] = [plan[q] EXCEPT !.st[n] = "running"]
          /\ step'[q] = n /\ n \in 1..Len(plan[q].st)
      BY <1>0, <1>7, <2>2 DEF Gate, TypeOK
    <3>2. plan'[q].st = [plan[q].st EXCEPT ![n] = "running"]
      BY <1>0, <3>1 DEF Plans
    <3>3. Len(plan'[q].st) = Len(plan[q].st)
      BY <1>0, <3>1, PlanExcept DEF StepStatus
    <3>4. \A i \in 1..n - 1 : plan'[q].st[i] = plan[q].st[i]
      BY <1>0, <3>1, <3>2
    <3>5. \A i \in 1..n - 1 : plan[q].st[i] = "completed"
      BY <1>0, <1>7 DEF Progress
    <3> QED
      BY <1>7, <3>1, <3>3, <3>4, <3>5 DEF Progress, InStep
  <2> QED
    BY <2>1, <2>2
<1>8. CASE FinishStep(q) /\ At(q) = "finish" /\ At(q)' = "gate"
  <2> DEFINE n == step[q]
  <2>1. n \in 1..Len(plan[q].st) /\ \A i \in 1..n - 1 : plan[q].st[i] = "completed"
    BY <1>8 DEF Progress, InStep
  <2>2. /\ plan'[q] = [plan[q] EXCEPT !.st[n] = "completed"]
        /\ step'[q] = n
    BY <1>8 DEF FinishStep, TypeOK
  <2>3. plan'[q].st = [plan[q].st EXCEPT ![n] = "completed"]
    BY <1>0, <2>2 DEF Plans
  <2>4. Len(plan'[q].st) = Len(plan[q].st)
    BY <1>0, <2>2, PlanExcept DEF StepStatus
  <2>5. \A i \in 1..n : plan'[q].st[i] = "completed"
    BY <1>0, <2>1, <2>3
  <2> QED
    BY <1>0, <1>8, <2>1, <2>2, <2>4, <2>5 DEF Progress, InStep
<1> QED
  BY <1>1, <1>2, <1>3, <1>4, <1>5, <1>6, <1>7, <1>8, Kinds

\* A report is stored by the request that completes; nothing else stores one or
\* marks the record completed.
LEMMA ReportWrites ==
    ASSUME TypeOK, NEW q \in Requests, Acts(q)
    PROVE  \/ /\ row'.report = row.report
              /\ row'.status = "completed" => row.status = "completed"
           \/ Complete(q) /\ row'.report = q
<1>1. CASE Accept(q)
  <2>1. ASSUME NEW h \in Hosts, NEW n \in 1..MaxSteps, CreatePlan(q, h, n)
        PROVE  row'.report = row.report /\ row'.status # "completed"
    <3>1. row' = [row EXCEPT !.status = "plan_ready", !.plan = [by |-> q, st |-> Pending(n)]]
      BY <2>1 DEF CreatePlan
    <3> QED
      BY <3>1 DEF TypeOK, Rows
  <2>2. CASE row' = row
    BY <2>2
  <2>3. (\E h \in Hosts, n \in 1..MaxSteps : CreatePlan(q, h, n)) \/ row' = row
    BY <1>1 DEF Accept, ReadForDecision, ReadForStop, ReadForDelete, BeginRun
  <2> QED
    BY <2>1, <2>2, <2>3
<1>2. CASE LogRead(q) \/ LogWrite(q) \/ Remove(q) \/ WriteAudit(q)
  BY <1>2 DEF LogRead, LogWrite, Remove, WriteAudit, Update, TypeOK, Rows
<1>3. CASE WriteApproval(q) \/ WriteRejection(q) \/ WriteStop(q)
  <2>1. CASE WriteApproval(q)
    BY <2>1 DEF WriteApproval, Update, TypeOK, Rows
  <2>2. CASE WriteRejection(q) \/ WriteStop(q)
    BY <2>2 DEF WriteRejection, WriteStop, Update, TypeOK, Rows
  <2> QED
    BY <1>3, <2>1, <2>2
<1>4. CASE MarkRunning(q) \/ Gate(q) \/ BeginStep(q) \/ SearchInternal(q)
           \/ AnnounceInternal(q) \/ StartWeb(q) \/ FinishWeb(q) \/ AnnounceWeb(q)
  BY <1>4 DEF MarkRunning, Gate, BeginStep, SearchInternal, AnnounceInternal, StartWeb,
              FinishWeb, AnnounceWeb, Announce, Update, TypeOK, Rows
<1>5. CASE FinishStep(q) \/ CollectSources(q) \/ Fail(q) \/ Cancel(q) \/ Abandon(q)
  BY <1>5 DEF FinishStep, CollectSources, Fail, Cancel, Abandon, Update, TypeOK, Rows
<1>6. CASE Complete(q)
  BY <1>6 DEF Complete, Update, TypeOK, Rows
<1> QED
  BY <1>1, <1>2, <1>3, <1>4, <1>5, <1>6 DEF Acts, Serve

LEMMA EarnedStep ==
    ASSUME TypeOK, EarnedInv, [Next]_vars
    PROVE  EarnedInv'
<1>1. ASSUME NEW q \in Requests, Acts(q) PROVE EarnedInv'
  <2>1. \A r \in Requests : Progress(r)'
    <3> TAKE r \in Requests
    <3>1. CASE r = q
      BY <1>1, <3>1, ProgressOwn DEF EarnedInv
    <3>2. CASE r # q
      BY <1>1, <3>2, Frame, ProgressKept DEF EarnedInv
    <3> QED
      BY <3>1, <3>2
  <2>2. ASSUME NEW r \in Requests, Earned(r) PROVE Earned(r)'
    <3>1. CASE r = q
      <4>1. Kept /\ At(q)' \in Over
        BY <1>1, <2>2, <3>1, Kinds, ArriveAt DEF Earned, Over, InStep
      <4> QED
        BY <2>2, <3>1, <4>1 DEF Kept, Earned, AllDone
    <3>2. CASE r # q
      BY <1>1, <2>2, <3>2, Frame, ProgressKept
    <3> QED
      BY <3>1, <3>2
  <2>4. CASE Complete(q) /\ row'.report = q
    <3>1. At(q) = "synth" /\ At(q)' = "audit" /\ Kept
      BY <2>4, EmitAt DEF Complete, At, Kept, locals
    <3>2. Earned(q)'
      BY <3>1 DEF EarnedInv, Progress, Earned, Kept, AllDone, Over
    <3>3. q # None
      BY ConstantsAssumption
    <3> QED
      BY <2>1, <2>4, <3>2, <3>3 DEF EarnedInv
  <2>5. CASE row'.report = row.report /\ (row'.status = "completed" => row.status = "completed")
    <3>1. \A r \in Requests : row'.report = r => Earned(r)'
      BY <2>2, <2>5 DEF EarnedInv
    <3> QED
      BY <2>1, <2>5, <3>1 DEF EarnedInv
  <2> QED
    BY <1>1, <2>4, <2>5, ReportWrites
<1>2. ASSUME NEW h \in Hosts, Crash(h) PROVE EarnedInv'
  <2>1. row' = row /\ plan' = plan /\ step' = step
    BY <1>2 DEF Crash, locals
  <2>2. \A r \in Requests : At(r)' = At(r) \/ At(r)' = "dead"
    BY <1>2 DEF Crash, At, TypeOK
  <2>3. \A r \in Requests : /\ Progress(r) => Progress(r)'
                            /\ Earned(r) => Earned(r)'
    BY <2>1, <2>2 DEF Progress, Earned, AllDone, Over, InStep
  <2> QED
    BY <2>1, <2>3 DEF EarnedInv
<1>3. CASE UNCHANGED vars
  BY <1>3 DEF vars, EarnedInv, Progress, Earned, AllDone, At
<1> QED
  BY <1>1, <1>2, <1>3 DEF Next, Acts

LEMMA InitEarned == Init => EarnedInv
  BY ConstantsAssumption DEF Init, EarnedInv, Progress, At, InStep

LEMMA EarnedHolds == Spec => []EarnedInv
  BY InitEarned, EarnedStep, TypeCorrect, PTL DEF Spec

\* A stored report is of a run that went through every step of its plan, and a
\* completed record has one, for any number of processes.
THEOREM ReportsAreEarned == Spec => []ReportIsEarned
<1>1. TypeOK /\ EarnedInv => ReportIsEarned
  <2> SUFFICES ASSUME TypeOK, EarnedInv PROVE ReportIsEarned
    OBVIOUS
  <2>1. ASSUME row.report # None
        PROVE  /\ step[row.report] = Len(plan[row.report].st)
               /\ \A i \in DOMAIN plan[row.report].st : plan[row.report].st[i] = "completed"
    <3>1. row.report \in Requests
      BY <2>1 DEF TypeOK, Rows
    <3>2. Earned(row.report)
      BY <3>1 DEF EarnedInv
    <3>3. plan[row.report].st \in Seq(StepStatus)
      BY <3>1 DEF TypeOK, Plans
    <3>4. DOMAIN plan[row.report].st = 1..Len(plan[row.report].st)
      BY <3>3
    <3> QED
      BY <3>2, <3>4 DEF Earned, AllDone
  <2> QED
    BY <2>1 DEF EarnedInv, ReportIsEarned
<1> QED
  BY <1>1, EarnedHolds, TypeCorrect, PTL
-----------------------------------------------------------------------------
(* One API process: handlers interleave where they await or yield only.    *)

OneProcess == \A g, h \in Hosts : g = h

\* Where a handler has just run and holds the event loop.
Busy == {"log_read", "log_write", "decide", "stop", "remove", "mark", "begin",
         "web", "finish"}

Holds(q) ==
    /\ pc[q] # "new" => host[q] \in Hosts
    /\ pc[q] \in Busy => loop[host[q]] = q
    /\ note[q].then \notin Busy

Held == \A q \in Requests : Holds(q)

LEMMA WorkingAt == \A q \in Requests : Working(q) <=> At(q) \in Executing
  BY DEF Working, At, Executing

\* A request that acts had the loop or found it free.
LEMMA ActsOnLoop ==
    ASSUME TypeOK, NEW q \in Requests, Acts(q)
    PROVE  \/ \E h \in Hosts : pc[q] = "new" /\ loop[h] = None
           \/ pc[q] # "new" /\ loop[host[q]] \in {q, None}
<1>1. CASE Accept(q)
  BY <1>1 DEF Accept, CreatePlan, ReadForDecision, ReadForStop, ReadForDelete, BeginRun, Arrive
<1>2. CASE Serve(q)
  BY <1>2
  DEF Serve, LogRead, LogWrite, WriteApproval, WriteRejection, WriteStop, Remove, WriteAudit,
      MarkRunning, Gate, BeginStep, SearchInternal, AnnounceInternal, AnnounceWeb, Announce,
      StartWeb, FinishWeb, FinishStep, CollectSources, Complete, Fail, MayStep
<1>3. CASE Cancel(q) \/ Abandon(q)
  BY <1>3 DEF Cancel, Abandon, YieldPoints
<1> QED
  BY <1>1, <1>2, <1>3 DEF Acts

\* While one acts no other holds the loop.
LEMMA Alone ==
    ASSUME OneProcess, TypeOK, Held, NEW q \in Requests, Acts(q),
           NEW r \in Requests, r # q
    PROVE  pc[r] \notin Busy
<1> SUFFICES ASSUME pc[r] \in Busy PROVE FALSE
  OBVIOUS
<1>1. host[r] \in Hosts /\ loop[host[r]] = r
  BY DEF Held, Holds, Busy
<1>2. \A h \in Hosts : loop[h] \notin {q, None}
  BY <1>1, ConstantsAssumption DEF OneProcess
<1>3. pc[q] # "new" => host[q] \in Hosts
  BY DEF Held, Holds
<1> QED
  BY <1>2, <1>3, ActsOnLoop

\* A step of a request that has arrived leaves it in hold of the loop, or at a
\* position where it need not be.
LEMMA HoldsOwn ==
    ASSUME TypeOK, NEW q \in Requests, Holds(q), pc[q] # "new", host' = host,
           \/ \E p \in Positions : Goto(q, p) /\ note' = note
           \/ \E p \in Positions \ Busy :
                 \/ \E e : Emit(q, e, p)
                 \/ pc' = [pc EXCEPT ![q] = p] /\ note' = note
    PROVE  Holds(q)'
<1>1. host[q] \in Hosts
  BY DEF Holds
<1>2. ASSUME Take(q) PROVE loop'[host'[q]] = q
  BY <1>1, <1>2 DEF Take, TypeOK
<1>3. ASSUME NEW p \in Positions, Goto(q, p) /\ note' = note PROVE Holds(q)'
  BY <1>1, <1>2, <1>3 DEF Goto, Holds
<1>4. ASSUME NEW p \in Positions \ Busy, NEW e, Emit(q, e, p) PROVE Holds(q)'
  <2>1. note'[q].then = p
    BY <1>4 DEF Emit, TypeOK
  <2> QED
    BY <1>1, <1>2, <1>4, <2>1 DEF Emit, Goto, Holds
<1>5. ASSUME NEW p \in Positions \ Busy, pc' = [pc EXCEPT ![q] = p] /\ note' = note
      PROVE  Holds(q)'
  BY <1>1, <1>5 DEF Holds, TypeOK
<1> QED
  BY <1>3, <1>4, <1>5

LEMMA ServeHolds ==
    ASSUME TypeOK, NEW q \in Requests, Holds(q), Serve(q) \/ Cancel(q) \/ Abandon(q)
    PROVE  Holds(q)'
<1>1. pc[q] # "new" /\ host' = host
  BY DEF Serve, LogRead, LogWrite, WriteApproval, WriteRejection, WriteStop, Remove, WriteAudit,
      MarkRunning, Gate, BeginStep, SearchInternal, AnnounceInternal, AnnounceWeb, Announce,
      StartWeb, FinishWeb, FinishStep, CollectSources, Complete, Fail, Cancel, Abandon,
      YieldPoints, locals
<1> DEFINE Moved == \/ \E p \in Positions : Goto(q, p) /\ note' = note
                    \/ \E p \in Positions \ Busy :
                          \/ \E e : Emit(q, e, p)
                          \/ pc' = [pc EXCEPT ![q] = p] /\ note' = note
<1> SUFFICES Moved
  BY <1>1, HoldsOwn
<1>2. CASE LogRead(q) \/ LogWrite(q)
  <2>1. note[q].then \in Positions \ Busy /\ "log_write" \in Positions
    BY DEF Holds, TypeOK, Notes, Positions
  <2>2. note' = note
    BY <1>2 DEF LogRead, LogWrite
  <2>3. Goto(q, "log_write") \/ pc' = [pc EXCEPT ![q] = note[q].then]
    BY <1>2 DEF LogRead, LogWrite, Logged
  <2> QED
    BY <2>1, <2>2, <2>3
<1>3. CASE WriteApproval(q) \/ WriteRejection(q) \/ WriteStop(q) \/ Remove(q) \/ WriteAudit(q)
  BY <1>3 DEF WriteApproval, WriteRejection, WriteStop, Remove, WriteAudit, Positions, Busy
<1>4. CASE MarkRunning(q) \/ BeginStep(q) \/ FinishStep(q) \/ CollectSources(q) \/ Complete(q)
           \/ Fail(q) \/ Cancel(q)
  BY <1>4 DEF MarkRunning, BeginStep, FinishStep, CollectSources, Complete, Fail, Cancel,
              Positions, Executing, Busy
<1>5. CASE Gate(q) \/ SearchInternal(q)
  BY <1>5 DEF Gate, SearchInternal, Positions, Executing, Busy
<1>6. CASE AnnounceInternal(q) \/ AnnounceWeb(q)
  BY <1>6 DEF AnnounceInternal, AnnounceWeb, Announce, Positions, Executing, Busy
<1>7. CASE StartWeb(q) \/ FinishWeb(q) \/ Abandon(q)
  BY <1>7 DEF StartWeb, FinishWeb, Abandon, Positions, Executing, Busy
<1> QED
  BY <1>2, <1>3, <1>4, <1>5, <1>6, <1>7 DEF Serve

LEMMA AcceptHolds ==
    ASSUME TypeOK, NEW q \in Requests, Holds(q), Accept(q)
    PROVE  Holds(q)'
<1>1. ASSUME NEW h \in Hosts, NEW o, NEW p, Arrive(q, h, o, p)
      PROVE  host'[q] \in Hosts /\ loop'[host'[q]] = q
  BY <1>1 DEF Arrive, TypeOK
<1>2. \E h \in Hosts : \E o, p : Arrive(q, h, o, p)
  BY DEF Accept, CreatePlan, ReadForDecision, ReadForStop, ReadForDelete, BeginRun
<1>3. note'[q].then \notin Busy
  <2>1. ASSUME NEW g \in Hosts, NEW n, CreatePlan(q, g, n) PROVE note'[q].then = "audit"
    BY <2>1 DEF CreatePlan, TypeOK
  <2>2. (\E g \in Hosts, n \in 1..MaxSteps : CreatePlan(q, g, n)) \/ note' = note
    BY DEF Accept, ReadForDecision, ReadForStop, ReadForDelete, BeginRun
  <2> QED
    BY <2>1, <2>2 DEF Holds, Busy
<1> QED
  BY <1>1, <1>2, <1>3 DEF Holds

LEMMA HeldStep ==
    ASSUME OneProcess, TypeOK, Held, [Next]_vars
    PROVE  Held'
<1>1. ASSUME NEW q \in Requests, Acts(q), NEW r \in Requests PROVE Holds(r)'
  <2>1. CASE r = q
    BY <1>1, <2>1, ServeHolds, AcceptHolds DEF Held, Acts
  <2>2. CASE r # q
    BY <1>1, <2>2, Alone, Frame DEF Held, Holds
  <2> QED
    BY <2>1, <2>2
<1>2. ASSUME NEW h \in Hosts, Crash(h), NEW r \in Requests PROVE Holds(r)'
  <2>1. host' = host /\ note' = note
    BY <1>2 DEF Crash, locals
  <2>2. pc'[r] = IF host[r] = h /\ pc[r] # "done" THEN "dead" ELSE pc[r]
    BY <1>2 DEF Crash
  <2>3. pc'[r] \notin Busy
    BY <2>2 DEF Held, Holds, OneProcess, Busy
  <2>4. pc'[r] # "new" => host[r] \in Hosts
    BY <2>2 DEF Held, Holds
  <2> QED
    BY <2>1, <2>3, <2>4 DEF Held, Holds
<1>3. CASE UNCHANGED vars
  BY <1>3 DEF vars, locals, Held, Holds
<1> QED
  BY <1>1, <1>2, <1>3 DEF Next, Acts, Held

\* What a request knows of the record: a decision, a stop or a start that has
\* just looked at it, and a run that works on it.
Agrees(q) ==
    /\ pc[q] = "mark" => row.status = "approved" /\ plan[q] = row.plan
    /\ pc[q] = "decide" => /\ row.status \in {"plan_ready", "rejected"}
                           /\ op[q] = "approve" => plan[q].by \in Requests
    /\ pc[q] = "stop" => row.status = "running"
    /\ pc[q] = "begin" => row.status # "stopped"
    /\ pc[q] = "log_write" => log[q] = row.events
    /\ At(q) \in Executing \ {"mark"} =>
          /\ row.status \in {"running", "stopped", "deleted"}
          /\ Exists => plan[q].by = row.plan.by
    /\ At(q) = "synth" /\ Exists => row.plan = plan[q]

OneRunInv ==
    /\ \A q \in Requests : Agrees(q)
    /\ \A p, q \in Requests : At(p) \in Executing /\ At(q) \in Executing => p = q
    /\ row.report # None => row.status \in {"completed", "deleted"}
    /\ Exists => row.plan.by \in Requests

\* A request outside run() that has no decision, stop or start to write.
LEMMA IdleAgrees ==
    ASSUME NEW r \in Requests, pc[r]' \notin Busy, At(r)' \notin Executing
    PROVE  Agrees(r)'
  BY DEF Agrees, Busy, Executing, At

\* While the record runs or has run, a request outside run() can only stop or
\* delete it, or append an event.
LEMMA RowFrame ==
    ASSUME TypeOK, NEW q \in Requests, Acts(q), Agrees(q), At(q) \notin Executing,
           row.status \in {"running", "stopped", "completed", "deleted"}
    PROVE  /\ row'.plan = row.plan /\ row'.report = row.report
           /\ row'.sources = row.sources
           /\ \/ row'.status = row.status
              \/ row'.status = "deleted"
              \/ row.status = "running" /\ row'.status = "stopped"
<1>1. CASE Accept(q)
  <2>1. row' = row
    BY <1>1 DEF Accept, CreatePlan, ReadForDecision, ReadForStop, ReadForDelete, BeginRun
  <2> QED
    BY <2>1
<1>2. CASE LogRead(q) \/ LogWrite(q) \/ Remove(q) \/ WriteAudit(q) \/ Abandon(q)
  BY <1>2 DEF LogRead, LogWrite, Remove, WriteAudit, Abandon, Update, Exists, TypeOK, Rows
<1>3. CASE WriteApproval(q) \/ WriteRejection(q)
  BY <1>3 DEF WriteApproval, WriteRejection, Agrees
<1>4. CASE WriteStop(q)
  BY <1>4 DEF WriteStop, Agrees, Update, Exists, TypeOK, Rows
<1>5. pc[q] \notin Executing
  BY DEF At, Executing
<1>6. ~ (\/ MarkRunning(q) \/ Gate(q) \/ BeginStep(q) \/ SearchInternal(q)
         \/ AnnounceInternal(q) \/ StartWeb(q) \/ FinishWeb(q) \/ AnnounceWeb(q)
         \/ FinishStep(q) \/ CollectSources(q) \/ Complete(q) \/ Fail(q) \/ Cancel(q))
  BY <1>5 DEF MarkRunning, Gate, BeginStep, SearchInternal, AnnounceInternal, StartWeb,
              FinishWeb, AnnounceWeb, Announce, FinishStep, CollectSources, Complete, Fail,
              Cancel, Executing
<1> QED
  BY <1>1, <1>2, <1>3, <1>4, <1>6 DEF Acts, Serve

LEMMA OthersAgree ==
    ASSUME OneProcess, TypeOK, Held, OneRunInv, NEW q \in Requests, Acts(q),
           NEW r \in Requests, r # q
    PROVE  Agrees(r)'
<1>1. /\ pc[r] \notin Busy /\ pc[r]' = pc[r] /\ At(r)' = At(r) /\ plan'[r] = plan[r]
  BY Alone, Frame
<1>2. CASE At(r) \notin Executing
  BY <1>1, <1>2, IdleAgrees
<1>3. CASE At(r) \in Executing
  <2>1. At(r) \in Executing \ {"mark"}
    BY <1>1, <1>3 DEF At, Busy
  <2>2. At(q) \notin Executing
    BY <1>3 DEF OneRunInv
  <2>3. Agrees(q) /\ Agrees(r)
    BY DEF OneRunInv
  <2>4. /\ row.status \in {"running", "stopped", "deleted"}
        /\ Exists => plan[r].by = row.plan.by
        /\ At(r) = "synth" /\ Exists => row.plan = plan[r]
    BY <2>1, <2>3 DEF Agrees
  <2>5. /\ row'.plan = row.plan
        /\ row'.status \in {"running", "stopped", "deleted"}
        /\ row'.status # "deleted" => Exists
    BY <2>2, <2>3, <2>4, RowFrame DEF Exists
  <2> QED
    BY <1>1, <2>4, <2>5 DEF Agrees, Exists, Busy
<1> QED
  BY <1>2, <1>3

\* The request that acts keeps to the same: first those outside run().
LEMMA AcceptAgrees ==
    ASSUME TypeOK, OneRunInv, NEW q \in Requests, Accept(q)
    PROVE  Agrees(q)'
<1>1. ASSUME NEW h \in Hosts, NEW o, NEW p, Arrive(q, h, o, p)
      PROVE  pc'[q] = p /\ op'[q] = o
  BY <1>1 DEF Arrive, TypeOK
<1>2. ASSUME NEW h \in Hosts, NEW n \in 1..MaxSteps, CreatePlan(q, h, n)
      PROVE  Agrees(q)'
  <2>1. pc'[q] = "log_read" /\ note'[q].then = "audit"
    BY <1>1, <1>2 DEF CreatePlan, TypeOK
  <2> QED
    BY <2>1 DEF Agrees, At, Executing
<1>3. ASSUME NEW h \in Hosts, NEW o \in {"approve", "reject"}, ReadForDecision(q, h, o)
      PROVE  Agrees(q)'
  <2>1. pc'[q] = "decide" /\ op'[q] = o /\ row' = row
        /\ row.status \in {"plan_ready", "rejected"}
    BY <1>1, <1>3 DEF ReadForDecision
  <2>2. o = "approve" => plan'[q].by \in Requests
    <3>1. SUFFICES ASSUME o = "approve" PROVE plan'[q].by \in Requests
      OBVIOUS
    <3>2. row.plan.by \in Requests
      BY <2>1 DEF OneRunInv, Exists
    <3>3. PICK p \in {[row.plan EXCEPT !.st = Pending(Len(row.plan.st))]}
                     \cup {[by |-> q, st |-> Pending(n)] : n \in 1..MaxSteps} :
               plan' = [plan EXCEPT ![q] = p]
      BY <1>3, <3>1 DEF ReadForDecision
    <3>4. p.by = row.plan.by \/ p.by = q
      <4>1. row.plan \in Plans
        BY DEF TypeOK, Rows
      <4>2. [row.plan EXCEPT !.st = Pending(Len(row.plan.st))].by = row.plan.by
        BY <4>1 DEF Plans
      <4>3. \A n : [by |-> q, st |-> Pending(n)].by = q
        OBVIOUS
      <4> QED
        BY <3>3, <4>2, <4>3
    <3> QED
      BY <3>2, <3>3, <3>4 DEF TypeOK
  <2> QED
    BY <2>1, <2>2 DEF Agrees, At, Executing
<1>4. ASSUME NEW h \in Hosts, ReadForStop(q, h) \/ ReadForDelete(q, h)
      PROVE  Agrees(q)'
  <2>1. /\ pc'[q] \in {"stop", "audit", "remove"} /\ row' = row
        /\ pc'[q] = "stop" => row.status = "running"
    BY <1>1, <1>4 DEF ReadForStop, ReadForDelete
  <2> QED
    BY <2>1 DEF Agrees, At, Executing
<1>5. ASSUME NEW h \in Hosts, BeginRun(q, h)
      PROVE  Agrees(q)'
  <2>1. pc'[q] = "mark" /\ row' = row /\ row.status = "approved" /\ plan'[q] = row.plan
    BY <1>1, <1>5 DEF BeginRun, TypeOK
  <2> QED
    BY <2>1 DEF Agrees, At, Executing
<1> QED
  BY <1>2, <1>3, <1>4, <1>5 DEF Accept

LEMMA LogAgrees ==
    ASSUME TypeOK, NEW q \in Requests, Holds(q), Agrees(q), LogRead(q) \/ LogWrite(q)
    PROVE  Agrees(q)'
<1>1. /\ At(q)' = At(q) /\ plan' = plan /\ op' = op
      /\ At(q) = note[q].then /\ note[q].then \notin Busy
  BY LogAt DEF LogRead, LogWrite, locals, At, Holds
<1>2. pc'[q] = "log_write" \/ pc'[q] = note[q].then
  BY DEF LogRead, LogWrite, Logged, Goto, TypeOK
<1>3. row'.status = row.status /\ row'.plan = row.plan
  BY DEF LogRead, LogWrite, Update, TypeOK, Rows
<1>4. pc'[q] = "log_write" => log'[q] = row'.events
  <2>1. CASE LogRead(q) /\ Exists
    BY <2>1 DEF LogRead, TypeOK
  <2>2. CASE (LogRead(q) /\ ~Exists) \/ LogWrite(q)
    BY <1>1, <2>2 DEF LogRead, LogWrite, Logged, Busy, TypeOK
  <2> QED
    BY <2>1, <2>2
<1>5. pc'[q] \notin {"mark", "decide", "stop", "begin"}
  BY <1>1, <1>2 DEF Busy
<1> QED
  BY <1>1, <1>3, <1>4, <1>5 DEF Agrees, Exists

LEMMA RunAgrees ==
    ASSUME TypeOK, NEW q \in Requests, Agrees(q),
           \/ MarkRunning(q) \/ Gate(q) \/ BeginStep(q) \/ SearchInternal(q)
           \/ AnnounceInternal(q) \/ StartWeb(q) \/ FinishWeb(q) \/ AnnounceWeb(q)
           \/ FinishStep(q) \/ CollectSources(q)
    PROVE  Agrees(q)'
<1>0. /\ plan[q] \in Plans /\ step[q] \in Nat /\ row \in Rows
      /\ {"running", "completed"} \subseteq StepStatus
  BY DEF TypeOK, StepStatus
<1>1. CASE MarkRunning(q)
  <2>1. pc'[q] = "log_read" /\ At(q)' = "gate" /\ plan' = plan /\ pc[q] = "mark"
    BY <1>1, EmitAt DEF MarkRunning, locals
  <2>2. row'.status = "running" /\ row'.plan = row.plan /\ row.plan = plan[q]
    BY <1>0, <1>1, <2>1 DEF MarkRunning, Agrees, Update, Exists, Rows
  <2> QED
    BY <2>1, <2>2 DEF Agrees
<1>2. CASE Gate(q)
  <2>1. CASE row.status = "stopped"
    <3>1. At(q)' = "audit" /\ pc'[q] = "log_read"
      BY <1>2, <2>1, EmitAt DEF Gate
    <3> QED
      BY <3>1 DEF Agrees, Executing
  <2>2. CASE row.status # "stopped"
    <3>1. pc'[q] = "begin" /\ At(q)' = "begin" /\ row' = row /\ At(q) = "gate"
      BY <1>2, <2>2, GotoAt DEF Gate, Goto, At
    <3>2. plan'[q] = [plan[q] EXCEPT !.st[step[q] + 1] = "running"]
      BY <1>2, <2>2 DEF Gate, TypeOK
    <3>3. plan'[q].by = plan[q].by
      BY <1>0, <3>2, PlanExcept
    <3> QED
      BY <2>2, <3>1, <3>3 DEF Agrees, Executing, Exists
  <2> QED
    BY <2>1, <2>2
<1>3. CASE BeginStep(q)
  <2>1. pc'[q] = "log_read" /\ At(q)' = "internal" /\ plan' = plan /\ At(q) = "begin"
    BY <1>3, EmitAt DEF BeginStep, locals, At
  <2>2. row'.status = row.status /\ (Exists => row'.plan = plan[q])
    BY <1>0, <1>3 DEF BeginStep, Update, Rows
  <2> QED
    BY <2>1, <2>2 DEF Agrees, Executing, Exists
<1>4. CASE \/ SearchInternal(q) \/ AnnounceInternal(q) \/ StartWeb(q) \/ FinishWeb(q)
           \/ AnnounceWeb(q)
  <2>1. /\ row' = row /\ plan' = plan /\ At(q) \in InStep
        /\ pc'[q] \in {"log_read", "announce_internal", "web", "searching", "finish",
                       "announce_web"}
        /\ At(q)' \in InStep \ {"begin"}
    <3>1. CASE SearchInternal(q) \/ StartWeb(q)
      BY <3>1, GotoAt DEF SearchInternal, StartWeb, Goto, locals, InStep, At, TypeOK
    <3>2. CASE FinishWeb(q)
      <4>1. Goto(q, "announce_web") \/ Emit(q, "warning", "announce_web")
        BY <3>2 DEF FinishWeb
      <4>2. At(q)' = "announce_web" /\ pc'[q] \in {"log_read", "announce_web"}
        BY <4>1, GotoAt, EmitAt DEF Goto
      <4> QED
        BY <3>2, <4>2 DEF FinishWeb, InStep, At
    <3>3. CASE AnnounceInternal(q) \/ AnnounceWeb(q)
      BY <3>3, GotoAt, EmitAt DEF AnnounceInternal, AnnounceWeb, Announce, Goto, InStep, At
    <3> QED
      BY <1>4, <3>1, <3>2, <3>3
  <2> QED
    BY <2>1 DEF Agrees, InStep, Executing, Exists
<1>5. CASE FinishStep(q)
  <2> DEFINE p == [plan[q] EXCEPT !.st[step[q]] = "completed"]
  <2>1. pc'[q] = "log_read" /\ At(q)' = "gate" /\ plan'[q] = p /\ At(q) = "finish"
    BY <1>5, EmitAt DEF FinishStep, At, TypeOK
  <2>2. p.by = plan[q].by
    BY <1>0, PlanExcept
  <2>3. row'.status = row.status /\ (Exists => row'.plan = p)
    BY <1>0, <1>5 DEF FinishStep, Update, Rows
  <2> HIDE DEF p
  <2> QED
    BY <2>1, <2>2, <2>3 DEF Agrees, Executing, Exists
<1>6. CASE CollectSources(q)
  <2>1. pc'[q] = "log_read" /\ At(q)' = "synth" /\ plan' = plan /\ At(q) = "gate"
    BY <1>6, EmitAt DEF CollectSources, locals, At
  <2>2. row'.status = row.status /\ (Exists => row'.plan = plan[q])
    BY <1>0, <1>6 DEF CollectSources, Update, Rows
  <2> QED
    BY <2>1, <2>2 DEF Agrees, Executing, Exists
<1> QED
  BY <1>1, <1>2, <1>3, <1>4, <1>5, <1>6

LEMMA OwnAgrees ==
    ASSUME TypeOK, Held, OneRunInv, NEW q \in Requests, Acts(q)
    PROVE  Agrees(q)'
<1>0. Agrees(q) /\ Holds(q)
  BY DEF OneRunInv, Held
<1>1. CASE WriteApproval(q) \/ WriteRejection(q) \/ Complete(q) \/ Fail(q) \/ Cancel(q)
  <2>1. pc'[q] = "log_read" /\ At(q)' \in {"audit", "done"}
    BY <1>1, EmitAt DEF WriteApproval, WriteRejection, Complete, Fail, Cancel
  <2> QED
    BY <2>1 DEF Agrees, Executing
<1>2. CASE WriteStop(q) \/ Remove(q) \/ WriteAudit(q) \/ Abandon(q)
  <2>1. pc'[q] \in {"audit", "done", "dead"}
    BY <1>2 DEF WriteStop, Remove, WriteAudit, Abandon, Goto, TypeOK
  <2> QED
    BY <2>1 DEF Agrees, Executing, At
<1> QED
  BY <1>0, <1>1, <1>2, AcceptAgrees, LogAgrees, RunAgrees DEF Acts, Serve

\* At most one request is inside run(): a run begins from an approved record.
LEMMA OneRunStep ==
    ASSUME OneProcess, TypeOK, Held, OneRunInv, NEW q \in Requests, Acts(q),
           NEW r \in Requests, r # q, At(q)' \in Executing
    PROVE  At(r)' \notin Executing
<1>0. At(r)' = At(r) /\ pc[r] \notin Busy
  BY Alone, Frame
<1>1. CASE At(q) \in Executing
  BY <1>0, <1>1 DEF OneRunInv
<1>2. CASE At(q) \notin Executing
  <2>1. Accept(q)
    BY <1>2, Kinds DEF Executing, Over, InStep
  <2>2. row.status = "approved"
    <3>1. ASSUME NEW h \in Hosts, NEW o, NEW p, Arrive(q, h, o, p),
                 p \notin Executing, p \notin {"log_read", "log_write"}
          PROVE  FALSE
      BY <3>1 DEF Arrive, At, TypeOK
    <3>2. ASSUME NEW h \in Hosts, NEW n, CreatePlan(q, h, n) PROVE FALSE
      <4>1. pc'[q] = "log_read" /\ note'[q].then = "audit"
        BY <3>2 DEF CreatePlan, Arrive, TypeOK
      <4> QED
        BY <4>1 DEF At, Executing
    <3>3. ASSUME NEW h \in Hosts,
                 \/ \E o \in {"approve", "reject"} : ReadForDecision(q, h, o)
                 \/ ReadForStop(q, h) \/ ReadForDelete(q, h)
          PROVE  FALSE
      <4>1. \A p \in {"decide", "stop", "audit", "remove"} :
               p \notin Executing /\ p \notin {"log_read", "log_write"}
        BY DEF Executing
      <4>2. \A p \in {"decide", "stop", "audit", "remove"} : \A o : ~Arrive(q, h, o, p)
        BY <3>1, <4>1
      <4> QED
        BY <3>3, <4>2 DEF ReadForDecision, ReadForStop, ReadForDelete
    <3>4. PICK h \in Hosts : BeginRun(q, h)
      BY <2>1, <3>2, <3>3 DEF Accept
    <3> QED
      BY <3>4 DEF BeginRun
  <2>3. At(r) \notin Executing \ {"mark"}
    BY <2>2 DEF OneRunInv, Agrees
  <2>4. At(r) # "mark"
    BY <1>0 DEF At, Busy, Held, Holds
  <2> QED
    BY <1>0, <2>3, <2>4
<1> QED
  BY <1>1, <1>2

\* What the run's own step does to the record.
LEMMA RunRow ==
    ASSUME TypeOK, Held, OneRunInv, NEW q \in Requests, Acts(q), At(q) \in Executing
    PROVE  \/ row' = row
           \/ /\ Exists /\ Exists' /\ row'.plan.by = row.plan.by
              /\ \/ row.report = None /\ row'.report = None
                 \/ row'.status = "completed"
<1>0. Agrees(q) /\ row \in Rows /\ plan[q] \in Plans /\ step[q] \in Nat
      /\ "completed" \in StepStatus
  BY DEF OneRunInv, TypeOK, StepStatus
<1>1. /\ row.status \in {"approved", "running", "stopped", "deleted"}
      /\ Exists => plan[q].by = row.plan.by
  <2>1. CASE At(q) = "mark"
    <3>1. pc[q] = "mark"
      BY <2>1 DEF At, Held, Holds, Busy
    <3> QED
      BY <1>0, <3>1 DEF Agrees
  <2>2. CASE At(q) # "mark"
    BY <1>0, <2>2 DEF Agrees
  <2> QED
    BY <2>1, <2>2
<1>2. CASE ~Exists
  <2>2. row.status = "deleted"
    BY <1>1, <1>2 DEF Exists
  <2> QED
    BY <2>2, DeletedRow DEF Next, Acts
<1>3. CASE Exists /\ row' # row
  <2>1. row.report = None
    BY <1>1, <1>3 DEF OneRunInv, Exists
  <2>2. plan[q].by = row.plan.by
    BY <1>1, <1>3
  <2>3. CASE LogWrite(q)
    BY <1>0, <1>3, <2>1, <2>3 DEF LogWrite, Update, Exists, Rows
  <2>4. CASE MarkRunning(q)
    BY <1>0, <1>3, <2>1, <2>4 DEF MarkRunning, Update, Exists, Rows
  <2>5. CASE BeginStep(q) \/ CollectSources(q)
    BY <1>0, <1>3, <2>1, <2>2, <2>5 DEF BeginStep, CollectSources, Update, Exists, Rows
  <2>6. CASE FinishStep(q)
    <3> DEFINE p == [plan[q] EXCEPT !.st[step[q]] = "completed"]
    <3>1. p.by = plan[q].by
      BY <1>0, PlanExcept
    <3>2. row' = [row EXCEPT !.plan = p]
      BY <1>3, <2>6 DEF FinishStep, Update
    <3> HIDE DEF p
    <3> QED
      BY <1>0, <1>3, <2>1, <2>2, <3>1, <3>2 DEF Exists, Rows
  <2>7. CASE Complete(q)
    BY <1>0, <1>3, <2>7 DEF Complete, Update, Exists, Rows
  <2>8. CASE Fail(q) \/ Cancel(q)
    BY <1>0, <1>3, <2>1, <2>2, <2>8 DEF Fail, Cancel, Update, Exists, Rows
  <2>9. pc[q] \notin {"decide", "stop", "remove", "new"}
    <3>1. At(q) = pc[q] \/ pc[q] \in {"log_read", "log_write"}
      BY DEF At
    <3> QED
      BY <3>1 DEF Executing
  <2>10. ~ (Accept(q) \/ WriteApproval(q) \/ WriteRejection(q) \/ WriteStop(q) \/ Remove(q))
    BY <2>9, ArriveAt DEF WriteApproval, WriteRejection, WriteStop, Remove
  <2>11. CASE \/ LogRead(q) \/ WriteAudit(q) \/ Gate(q) \/ SearchInternal(q)
              \/ AnnounceInternal(q) \/ StartWeb(q) \/ FinishWeb(q) \/ AnnounceWeb(q)
              \/ Abandon(q)
    BY <1>3, <2>11 DEF LogRead, WriteAudit, Gate, SearchInternal, AnnounceInternal, StartWeb,
                       FinishWeb, AnnounceWeb, Announce, Abandon
  <2> QED
    BY <2>3, <2>4, <2>5, <2>6, <2>7, <2>8, <2>10, <2>11 DEF Acts, Serve
<1> QED
  BY <1>2, <1>3

\* What a step of a request outside run() does to the record.
LEMMA OutsideRow ==
    ASSUME TypeOK, OneRunInv, NEW q \in Requests, Acts(q), At(q) \notin Executing
    PROVE  /\ Exists' => row'.plan.by \in Requests
           /\ row'.report # None => row'.status \in {"completed", "deleted"}
<1>0. Agrees(q) /\ row \in Rows
  BY DEF OneRunInv, TypeOK
<1>1. CASE row.status \in {"running", "stopped", "completed", "deleted"}
  <2>1. /\ row'.plan = row.plan /\ row'.report = row.report
        /\ \/ row'.status = row.status
           \/ row'.status = "deleted"
           \/ row.status = "running" /\ row'.status = "stopped"
    BY <1>0, <1>1, RowFrame
  <2> QED
    BY <1>1, <2>1 DEF OneRunInv, Exists
<1>2. CASE row.status \notin {"running", "stopped", "completed", "deleted"}
  <2>1. row.report = None
    BY <1>2 DEF OneRunInv
  <2>2. CASE Accept(q)
    <3>1. ASSUME NEW h \in Hosts, NEW n \in 1..MaxSteps, CreatePlan(q, h, n)
          PROVE  row'.plan.by = q /\ row'.report = None
      <4>1. row' = [row EXCEPT !.status = "plan_ready", !.plan = [by |-> q, st |-> Pending(n)]]
        BY <3>1 DEF CreatePlan
      <4> QED
        BY <1>0, <2>1, <4>1 DEF Rows
    <3>2. (\E h \in Hosts, n \in 1..MaxSteps : CreatePlan(q, h, n)) \/ row' = row
      BY <2>2 DEF Accept, ReadForDecision, ReadForStop, ReadForDelete, BeginRun
    <3>3. CASE row' = row
      BY <2>1, <3>3 DEF OneRunInv, Exists
    <3> QED
      BY <3>1, <3>2, <3>3
  <2>3. CASE WriteApproval(q) \/ WriteRejection(q)
    <3>1. Exists
      BY <1>0, <2>3 DEF WriteApproval, WriteRejection, Agrees, Exists
    <3>2. CASE WriteApproval(q)
      BY <1>0, <2>1, <3>1, <3>2 DEF WriteApproval, Agrees, Update, Rows
    <3>3. CASE WriteRejection(q)
      BY <1>0, <2>1, <3>1, <3>3 DEF WriteRejection, OneRunInv, Update, Exists, Rows
    <3> QED
      BY <2>3, <3>2, <3>3
  <2>4. CASE LogRead(q) \/ LogWrite(q) \/ Remove(q) \/ WriteAudit(q) \/ Abandon(q)
    <3>1. /\ row'.plan = row.plan /\ row'.report = row.report
          /\ row'.status = row.status \/ row'.status = "deleted"
      BY <1>0, <2>4 DEF LogRead, LogWrite, Remove, WriteAudit, Abandon, Update, Rows
    <3> QED
      BY <2>1, <3>1 DEF OneRunInv, Exists
  <2>5. ~WriteStop(q)
    BY <1>0, <1>2 DEF WriteStop, Agrees
  <2>6. pc[q] \notin Executing
    BY DEF At, Executing
  <2>7. ~ (\/ MarkRunning(q) \/ Gate(q) \/ BeginStep(q) \/ SearchInternal(q)
           \/ AnnounceInternal(q) \/ StartWeb(q) \/ FinishWeb(q) \/ AnnounceWeb(q)
           \/ FinishStep(q) \/ CollectSources(q) \/ Complete(q) \/ Fail(q) \/ Cancel(q))
    BY <2>6 DEF MarkRunning, Gate, BeginStep, SearchInternal, AnnounceInternal, StartWeb,
                FinishWeb, AnnounceWeb, Announce, FinishStep, CollectSources, Complete, Fail,
                Cancel, Executing
  <2> QED
    BY <2>2, <2>3, <2>4, <2>5, <2>7 DEF Acts, Serve
<1> QED
  BY <1>1, <1>2

LEMMA OneRunActs ==
    ASSUME OneProcess, TypeOK, Held, OneRunInv, NEW q \in Requests, Acts(q)
    PROVE  OneRunInv'
<1>1. \A r \in Requests : Agrees(r)'
  BY OwnAgrees, OthersAgree
<1>2. \A p, r \in Requests : At(p)' \in Executing /\ At(r)' \in Executing => p = r
  <2> SUFFICES ASSUME NEW p \in Requests, NEW r \in Requests, At(p)' \in Executing,
                      At(r)' \in Executing, p # r
               PROVE  FALSE
    OBVIOUS
  <2>1. CASE p = q \/ r = q
    BY <2>1, OneRunStep
  <2>2. CASE p # q /\ r # q
    BY <2>2, Frame DEF OneRunInv
  <2> QED
    BY <2>1, <2>2
<1>3. /\ Exists' => row'.plan.by \in Requests
      /\ row'.report # None => row'.status \in {"completed", "deleted"}
  <2>1. CASE At(q) \in Executing
    BY <2>1, RunRow DEF OneRunInv, Exists
  <2>2. CASE At(q) \notin Executing
    BY <2>2, OutsideRow
  <2> QED
    BY <2>1, <2>2
<1> QED
  BY <1>1, <1>2, <1>3 DEF OneRunInv, Exists, Executing

LEMMA OneRunNext ==
    ASSUME OneProcess, TypeOK, Held, OneRunInv, [Next]_vars
    PROVE  OneRunInv'
<1>1. ASSUME NEW h \in Hosts, Crash(h) PROVE OneRunInv'
  <2>1. row' = row /\ plan' = plan /\ op' = op /\ log' = log
    BY <1>1 DEF Crash, locals
  <2>2. \A r \in Requests : \/ pc'[r] = pc[r] /\ At(r)' = At(r)
                            \/ pc'[r] = "dead" /\ At(r)' = "dead"
    BY <1>1 DEF Crash, At, TypeOK
  <2>3. \A r \in Requests : Agrees(r)'
    BY <2>1, <2>2 DEF OneRunInv, Agrees, Executing, Exists
  <2>4. "dead" \notin Executing
    BY DEF Executing
  <2> QED
    BY <2>1, <2>2, <2>3, <2>4 DEF OneRunInv, Exists
<1>2. CASE UNCHANGED vars
  BY <1>2 DEF vars, locals, OneRunInv, Agrees, At, Exists
<1> QED
  BY <1>1, <1>2, OneRunActs DEF Next, Acts

LEMMA OneRunHolds ==
    ASSUME OneProcess
    PROVE  Spec => [](TypeOK /\ Held /\ OneRunInv)
<1>1. Init => Held /\ OneRunInv
  <2> SUFFICES ASSUME Init PROVE Held /\ OneRunInv
    OBVIOUS
  <2>1. \A q \in Requests : At(q) = "new" /\ pc[q] = "new"
    BY DEF Init, At
  <2>2. Held
    BY <2>1 DEF Init, Held, Holds, Busy
  <2>3. \A q \in Requests : Agrees(q)
    BY <2>1 DEF Agrees, Executing
  <2> QED
    BY <2>1, <2>2, <2>3 DEF Init, OneRunInv, Exists, Executing
<1>2. TypeOK /\ Held /\ OneRunInv /\ [Next]_vars => Held' /\ OneRunInv'
  BY HeldStep, OneRunNext
<1> QED
  BY <1>1, <1>2, TypeCorrect, PTL DEF Spec

\* In one API process at most one run works on the record.
THEOREM RunsOnce == ASSUME OneProcess PROVE Spec => []AtMostOneRun
<1>1. OneRunInv => AtMostOneRun
  BY WorkingAt DEF OneRunInv, AtMostOneRun
<1> QED
  BY <1>1, OneRunHolds, PTL

\* In one API process no step of a plan begins once the record is stopped.
THEOREM StopIsObeyed == ASSUME OneProcess PROVE Spec => NoStepAfterStop
<1>1. OneRunInv => ((\E q \in Requests : BeginStep(q)) => row.status # "stopped")
  BY DEF OneRunInv, Agrees, BeginStep
<1> QED
  BY <1>1, OneRunHolds, PTL DEF Spec, NoStepAfterStop
-----------------------------------------------------------------------------
(* What one process makes of the record.                                   *)

\* A completed record's ledger and plan are those of the run that reported.
Ledger ==
    row.status = "completed" =>
       /\ row.sources = row.report
       /\ \A r \in Requests : row.report = r => row.plan = plan[r]

LEMMA OverKeepsPlan ==
    ASSUME TypeOK, NEW q \in Requests, Acts(q), NEW r \in Requests, At(r) \in Over
    PROVE  plan'[r] = plan[r]
<1>1. CASE r = q
  BY <1>1, Kinds, ArriveAt DEF Over, Kept
<1>2. CASE r # q
  BY <1>2, Frame
<1> QED
  BY <1>1, <1>2

LEMMA LedgerActs ==
    ASSUME TypeOK, Held, OneRunInv, EarnedInv, Ledger, NEW q \in Requests, Acts(q)
    PROVE  Ledger'
<1>0. Agrees(q)
  BY DEF OneRunInv
<1> SUFFICES ASSUME row'.status = "completed"
             PROVE  /\ row'.sources = row'.report
                    /\ \A r \in Requests : row'.report = r => row'.plan = plan'[r]
  BY DEF Ledger
<1>1. CASE Complete(q)
  <2>1. plan' = plan /\ At(q) = "synth" /\ At(q) \in Executing \ {"mark"}
    BY <1>1 DEF Complete, locals, At, Executing
  <2>2. row.status \in {"running", "stopped", "deleted"}
    BY <1>0, <2>1 DEF Agrees
  <2>3. Exists
    BY <1>1, <2>2 DEF Complete, Update, Exists
  <2>4. row.plan = plan[q]
    BY <1>0, <2>1, <2>3 DEF Agrees
  <2>5. row'.sources = q /\ row'.report = q /\ row'.plan = row.plan
    BY <1>1, <2>3 DEF Complete, Update, TypeOK, Rows
  <2> QED
    BY <2>1, <2>4, <2>5
<1>2. CASE ~Complete(q)
  <2>1. row'.report = row.report /\ row.status = "completed"
    BY <1>2, ReportWrites
  <2>2. At(q) \notin Executing
    <3>1. At(q) # "mark"
      BY <1>0, <2>1 DEF Agrees, At, Held, Holds, Busy
    <3> QED
      BY <1>0, <2>1, <3>1 DEF Agrees
  <2>3. row'.plan = row.plan /\ row'.sources = row.sources
    BY <1>0, <2>1, <2>2, RowFrame
  <2>4. ASSUME NEW r \in Requests, row.report = r PROVE plan'[r] = plan[r]
    BY <2>4, OverKeepsPlan DEF EarnedInv, Earned
  <2> QED
    BY <2>1, <2>3, <2>4 DEF Ledger
<1> QED
  BY <1>1, <1>2

\* In one API process a completed record is of one piece.
THEOREM CompletedIsWhole == ASSUME OneProcess PROVE Spec => []CompletedIsConsistent
<1>1. Init => Ledger
  BY DEF Init, Ledger
<1>2. TypeOK /\ Held /\ OneRunInv /\ EarnedInv /\ Ledger /\ [Next]_vars => Ledger'
  <2> SUFFICES ASSUME TypeOK, Held, OneRunInv, EarnedInv, Ledger, [Next]_vars
               PROVE  Ledger'
    OBVIOUS
  <2>1. CASE (\E h \in Hosts : Crash(h)) \/ UNCHANGED vars
    <3>1. row' = row /\ plan' = plan
      BY <2>1 DEF Crash, locals, vars
    <3> QED
      BY <3>1 DEF Ledger
  <2> QED
    BY <2>1, LedgerActs DEF Next, Acts
<1>3. TypeOK /\ EarnedInv /\ Ledger => CompletedIsConsistent
  <2> SUFFICES ASSUME TypeOK, EarnedInv, Ledger, row.status = "completed"
               PROVE  /\ row.sources = row.report
                      /\ row.plan = plan[row.report]
                      /\ \A i \in DOMAIN row.plan.st : row.plan.st[i] = "completed"
    BY DEF CompletedIsConsistent
  <2>1. row.report \in Requests
    BY DEF EarnedInv, TypeOK, Rows
  <2>2. row.sources = row.report /\ row.plan = plan[row.report]
    BY <2>1 DEF Ledger
  <2>3. Earned(row.report)
    BY <2>1 DEF EarnedInv
  <2>4. DOMAIN plan[row.report].st = 1..Len(plan[row.report].st)
    BY <2>1 DEF TypeOK, Plans
  <2> QED
    BY <2>2, <2>3, <2>4 DEF Earned, AllDone
<1> QED
  BY <1>1, <1>2, <1>3, OneRunHolds, EarnedHolds, PTL DEF Spec

\* The only write to the events is an append.
LEMMA EventsAppended ==
    ASSUME TypeOK, OneRunInv, [Next]_vars
    PROVE  \/ row'.events = row.events
           \/ \E e \in Events : row'.events = Append(row.events, e)
<1>1. ASSUME NEW q \in Requests, LogWrite(q)
      PROVE  \/ row'.events = row.events
             \/ \E e \in Events : row'.events = Append(row.events, e)
  <2>1. log[q] = row.events /\ note[q].ev \in Events
    BY <1>1 DEF LogWrite, OneRunInv, Agrees, TypeOK, Notes
  <2> QED
    BY <1>1, <2>1 DEF LogWrite, Update, TypeOK, Rows
<1>2. ASSUME NEW q \in Requests, Accept(q) PROVE row'.events = row.events
  BY <1>2
  DEF Accept, CreatePlan, ReadForDecision, ReadForStop, ReadForDelete, BeginRun, TypeOK, Rows
<1>3. ASSUME NEW q \in Requests, ~LogWrite(q), Serve(q) PROVE row'.events = row.events
  <2>1. CASE WriteApproval(q) \/ WriteRejection(q) \/ WriteStop(q) \/ Remove(q)
    BY <2>1 DEF WriteApproval, WriteRejection, WriteStop, Remove, Update, TypeOK, Rows
  <2>2. CASE MarkRunning(q) \/ BeginStep(q) \/ FinishStep(q)
    BY <2>2 DEF MarkRunning, BeginStep, FinishStep, Update, TypeOK, Rows
  <2>3. CASE CollectSources(q) \/ Complete(q) \/ Fail(q)
    BY <2>3 DEF CollectSources, Complete, Fail, Update, TypeOK, Rows
  <2>4. CASE \/ LogRead(q) \/ WriteAudit(q) \/ Gate(q) \/ SearchInternal(q)
             \/ AnnounceInternal(q) \/ StartWeb(q) \/ FinishWeb(q) \/ AnnounceWeb(q)
    BY <2>4 DEF LogRead, WriteAudit, Gate, SearchInternal, AnnounceInternal, StartWeb,
                FinishWeb, AnnounceWeb, Announce
  <2> QED
    BY <1>3, <2>1, <2>2, <2>3, <2>4 DEF Serve
<1>4. ASSUME NEW q \in Requests, Cancel(q) \/ Abandon(q) PROVE row'.events = row.events
  BY <1>4 DEF Cancel, Abandon, Update, TypeOK, Rows
<1>5. CASE (\E h \in Hosts : Crash(h)) \/ UNCHANGED vars
  BY <1>5 DEF Crash, vars
<1> QED
  BY <1>1, <1>2, <1>3, <1>4, <1>5 DEF Next

\* In one API process no event is lost or renumbered.
THEOREM EventsAreKept == ASSUME OneProcess PROVE Spec => EventsOnlyGrow
<1>1. TypeOK /\ OneRunInv /\ [Next]_vars
        => [ /\ Len(row'.events) >= Len(row.events)
             /\ SubSeq(row'.events, 1, Len(row.events)) = row.events ]_vars
  <2> SUFFICES ASSUME TypeOK, OneRunInv, [Next]_vars
               PROVE  /\ Len(row'.events) >= Len(row.events)
                      /\ SubSeq(row'.events, 1, Len(row.events)) = row.events
    OBVIOUS
  <2>1. PICK s \in Seq(Events) : s = row.events
    BY DEF TypeOK, Rows
  <2>2. Len(s) >= Len(s) /\ SubSeq(s, 1, Len(s)) = s
    OBVIOUS
  <2>3. \A e \in Events : /\ Len(Append(s, e)) >= Len(s)
                          /\ SubSeq(Append(s, e), 1, Len(s)) = s
    OBVIOUS
  <2> QED
    BY <2>1, <2>2, <2>3, EventsAppended
<1> QED
  BY <1>1, OneRunHolds, PTL DEF Spec, EventsOnlyGrow
-----------------------------------------------------------------------------
(* One process keeps the promise of ResearchLifecycle.                     *)

LEMMA ActsLifecycle ==
    ASSUME TypeOK, Held, OneRunInv, NEW q \in Requests, Acts(q)
    PROVE  Lifecycle!Next \/ UNCHANGED Lifecycle!vars
<1>0. Agrees(q) /\ row \in Rows /\ plan[q] \in Plans /\ step[q] \in Nat
      /\ "completed" \in StepStatus
  BY DEF OneRunInv, TypeOK, StepStatus
<1>1. ASSUME row'.status = row.status, row'.plan.by = row.plan.by, row'.report = row.report
      PROVE  UNCHANGED Lifecycle!vars
  BY <1>1 DEF Lifecycle!vars
<1>2. ASSUME NEW o \in {"completed", "failed", "stopped"}, Exists,
             row.status \in {"running", "stopped"},
             row'.status = o, row'.plan.by = row.plan.by,
             row'.report # None <=> o = "completed"
      PROVE  Lifecycle!Next
  BY <1>2 DEF Lifecycle!Next, Lifecycle!Finish
<1>3. CASE Accept(q)
  <2>1. ASSUME NEW h \in Hosts, NEW n \in 1..MaxSteps, CreatePlan(q, h, n)
        PROVE  Lifecycle!Next
    <3>1. row' = [row EXCEPT !.status = "plan_ready", !.plan = [by |-> q, st |-> Pending(n)]]
          /\ row.status = "absent"
      BY <2>1 DEF CreatePlan
    <3>2. row'.status = "plan_ready" /\ row'.plan.by = q /\ row'.report = row.report
      BY <1>0, <3>1 DEF Rows
    <3> QED
      BY <3>1, <3>2 DEF Lifecycle!Next, Lifecycle!Create
  <2>2. (\E h \in Hosts, n \in 1..MaxSteps : CreatePlan(q, h, n)) \/ row' = row
    BY <1>3 DEF Accept, ReadForDecision, ReadForStop, ReadForDelete, BeginRun
  <2> QED
    BY <1>1, <2>1, <2>2
<1>4. CASE WriteApproval(q) \/ WriteRejection(q)
  <2>1. Exists /\ row.status \in {"plan_ready", "rejected"}
    BY <1>0, <1>4 DEF WriteApproval, WriteRejection, Agrees, Exists
  <2>2. CASE WriteApproval(q)
    <3>1. row'.status = "approved" /\ row'.plan.by \in Requests /\ row'.report = row.report
      BY <1>0, <2>1, <2>2 DEF WriteApproval, Agrees, Update, Rows
    <3> QED
      BY <2>1, <3>1 DEF Lifecycle!Next, Lifecycle!Approve
  <2>3. CASE WriteRejection(q)
    <3>1. row'.status = "rejected" /\ row'.plan.by = row.plan.by /\ row'.report = row.report
      BY <1>0, <2>1, <2>3 DEF WriteRejection, Update, Rows
    <3> QED
      BY <2>1, <3>1 DEF Lifecycle!Next, Lifecycle!Reject
  <2> QED
    BY <1>4, <2>2, <2>3
<1>5. CASE WriteStop(q)
  <2>1. row.status = "running" /\ Exists
    BY <1>0, <1>5 DEF WriteStop, Agrees, Exists
  <2>2. row.report = None
    BY <2>1 DEF OneRunInv
  <2>3. row'.status = "stopped" /\ row'.plan = row.plan /\ row'.report = row.report
    BY <1>0, <1>5, <2>1 DEF WriteStop, Update, Rows
  <2> QED
    BY <1>2, <2>1, <2>2, <2>3
<1>6. CASE Remove(q)
  <2>1. CASE Exists
    <3>1. row'.status = "deleted" /\ row'.plan = row.plan /\ row'.report = row.report
      BY <1>0, <1>6, <2>1 DEF Remove, Rows
    <3> QED
      BY <2>1, <3>1 DEF Lifecycle!Next, Lifecycle!Delete, Exists
  <2>2. CASE ~Exists
    BY <1>1, <1>6, <2>2 DEF Remove
  <2> QED
    BY <2>1, <2>2
<1>7. CASE MarkRunning(q)
  <2>1. row.status = "approved" /\ Exists
    BY <1>0, <1>7 DEF MarkRunning, Agrees, Exists
  <2>2. row'.status = "running" /\ row'.plan = row.plan /\ row'.report = row.report
    BY <1>0, <1>7, <2>1 DEF MarkRunning, Update, Rows
  <2> QED
    BY <2>1, <2>2 DEF Lifecycle!Next, Lifecycle!Start
<1>8. CASE LogRead(q) \/ LogWrite(q)
  <2>1. row'.status = row.status /\ row'.plan = row.plan /\ row'.report = row.report
    BY <1>0, <1>8 DEF LogRead, LogWrite, Update, Rows
  <2> QED
    BY <1>1, <2>1
<1>9. CASE BeginStep(q) \/ FinishStep(q) \/ CollectSources(q)
  <2>1. pc[q] \in Executing \ {"mark"} /\ At(q) = pc[q]
    BY <1>9 DEF BeginStep, FinishStep, CollectSources, At, Executing
  <2>2. Exists => plan[q].by = row.plan.by
    BY <1>0, <2>1 DEF Agrees
  <2>3. CASE BeginStep(q) \/ CollectSources(q)
    <3>1. row'.status = row.status /\ row'.plan.by = row.plan.by /\ row'.report = row.report
      BY <1>0, <2>2, <2>3 DEF BeginStep, CollectSources, Update, Rows
    <3> QED
      BY <1>1, <3>1
  <2>4. CASE FinishStep(q)
    <3> DEFINE p == [plan[q] EXCEPT !.st[step[q]] = "completed"]
    <3>1. p.by = plan[q].by
      BY <1>0, PlanExcept
    <3>2. row' = IF Exists THEN [row EXCEPT !.plan = p] ELSE row
      BY <2>4 DEF FinishStep, Update
    <3> HIDE DEF p
    <3>3. row'.status = row.status /\ row'.plan.by = row.plan.by /\ row'.report = row.report
      BY <1>0, <2>2, <3>1, <3>2 DEF Rows
    <3> QED
      BY <1>1, <3>3
  <2> QED
    BY <1>9, <2>3, <2>4
<1>10. CASE Complete(q) \/ Fail(q) \/ Cancel(q)
  <2>1. pc[q] \in Executing \ {"mark"} /\ At(q) = pc[q]
    BY <1>10 DEF Complete, Fail, Cancel, At, Executing
  <2>2. /\ row.status \in {"running", "stopped", "deleted"}
        /\ Exists => plan[q].by = row.plan.by
    BY <1>0, <2>1 DEF Agrees
  <2>3. CASE Exists
    <3>1. row.status \in {"running", "stopped"} /\ row.report = None
      BY <2>2, <2>3 DEF OneRunInv, Exists
    <3>2. CASE Complete(q)
      <4>1. row'.status = "completed" /\ row'.plan = row.plan /\ row'.report = q
        BY <1>0, <2>3, <3>2 DEF Complete, Update, Rows
      <4> QED
        BY <1>2, <2>3, <3>1, <4>1, ConstantsAssumption
    <3>3. CASE Fail(q) \/ Cancel(q)
      <4>1. /\ row'.status \in {"failed", "stopped"} /\ row'.plan.by = row.plan.by
            /\ row'.report = row.report
        BY <1>0, <2>2, <2>3, <3>3 DEF Fail, Cancel, Update, Rows
      <4> QED
        BY <1>2, <2>3, <3>1, <4>1
    <3> QED
      BY <1>10, <3>2, <3>3
  <2>4. CASE ~Exists
    BY <1>1, <1>10, <2>4 DEF Complete, Fail, Cancel, Update
  <2> QED
    BY <2>3, <2>4
<1>11. CASE \/ WriteAudit(q) \/ Gate(q) \/ SearchInternal(q) \/ AnnounceInternal(q)
            \/ StartWeb(q) \/ FinishWeb(q) \/ AnnounceWeb(q) \/ Abandon(q)
  BY <1>1, <1>11 DEF WriteAudit, Gate, SearchInternal, AnnounceInternal, StartWeb, FinishWeb,
                     AnnounceWeb, Announce, Abandon
<1> QED
  BY <1>3, <1>4, <1>5, <1>6, <1>7, <1>8, <1>9, <1>10, <1>11 DEF Acts, Serve

\* One API process implements the lifecycle, whatever overlaps and crashes.
THEOREM LifecycleIsKept == ASSUME OneProcess PROVE Spec => ImplementsLifecycle
<1>1. Init => Lifecycle!Init
  BY DEF Init, Lifecycle!Init, NoPlan
<1>2. TypeOK /\ Held /\ OneRunInv /\ [Next]_vars => [Lifecycle!Next]_(Lifecycle!vars)
  <2> SUFFICES ASSUME TypeOK, Held, OneRunInv, [Next]_vars
               PROVE  Lifecycle!Next \/ UNCHANGED Lifecycle!vars
    OBVIOUS
  <2>1. CASE (\E h \in Hosts : Crash(h)) \/ UNCHANGED vars
    <3>1. row' = row
      BY <2>1 DEF Crash, vars
    <3> QED
      BY <3>1 DEF Lifecycle!vars
  <2> QED
    BY <2>1, ActsLifecycle DEF Next, Acts
<1> QED
  BY <1>1, <1>2, OneRunHolds, PTL DEF Spec, ImplementsLifecycle, Lifecycle!Spec
=============================================================================
