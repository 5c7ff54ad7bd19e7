------------------------------ MODULE Research ------------------------------
(***************************************************************************)
(* One research record of Research Mode (app/research/service.py) and the  *)
(* HTTP requests that create, decide, run, stop and delete it.             *)
(*                                                                         *)
(* A repository call (get, update, INSERT, DELETE of one row) is one step. *)
(* Every handler is an async function, so what it does between two awaits  *)
(* is not interleaved with the other handlers of the SAME process: loop[h] *)
(* is the request that holds the event loop of API process h.  Handlers of *)
(* different processes share only the row.  infra/envs/dev runs one API    *)
(* process (Hosts a singleton), infra/envs/prod runs two.                  *)
(*                                                                         *)
(* A request the code refuses (404, 409, 422) changes nothing and is not a *)
(* step.  A plan is the request that wrote its text and the status of each *)
(* of its steps; a report and a source ledger are the run that wrote them. *)
(***************************************************************************)
EXTENDS Integers, Sequences, FiniteSets

CONSTANTS
    Requests,         \* HTTP requests that may arrive, each at most once
    Hosts,            \* API processes, one event loop each
    None,             \* no request
    MaxSteps,         \* config maximum_research_steps
    MaxSources,       \* config maximum_sources
    PerCall,          \* most sources one retrieval call returns (4 in the code)
    InternalAllowed,  \* config internal_documents_allowed
    WebAllowed,       \* config web_search_allowed
    MaxCrashes        \* bound on process crashes

ASSUME ConstantsAssumption ==
    /\ None \notin Requests \cup Hosts
    /\ MaxSteps \in Nat \ {0}
    /\ MaxSources \in Nat
    /\ PerCall \in Nat \ {0}
    /\ InternalAllowed \in BOOLEAN
    /\ WebAllowed \in BOOLEAN
    /\ MaxCrashes \in Nat

VARIABLES
    row,        \* the research_runs row
    loop,       \* loop[h]: the request holding the event loop of h
    op,         \* op[q]: the route request q called
    host,       \* host[q]: the process serving q
    pc,         \* pc[q]: where q is
    plan,       \* plan[q]: q's copy of the plan
    seen,       \* seen[q]: status in the record q will answer with
    step,       \* step[q]: steps of its plan q has begun
    found,      \* found[q]: len(raw_sources)
    left,       \* left[q]: sources of the last call not announced yet
    log,        \* log[q]: the events list q read in append_event
    note,       \* note[q]: the event q appends and where it goes on after
    audit,      \* audit[q]: status in q's audit row, "none" before it
    sanctioned, \* history: plan texts some approval has stored
    crashes     \* history: crashes so far

locals == <<op, host, plan, seen, step, found, left>>
vars == <<row, loop, op, host, pc, plan, seen, step, found, left, log, note,
          audit, sanctioned, crashes>>

-----------------------------------------------------------------------------
(* Data.                                                                   *)

Status == {"absent", "plan_ready", "approved", "rejected", "running",
           "completed", "failed", "stopped", "deleted"}
StepStatus == {"pending", "running", "completed"}
Ops == {"none", "create", "approve", "reject", "run", "stop", "delete"}
Events == {"plan_created", "plan_approved", "plan_rejected", "started",
           "step_started", "source_found", "warning", "step_completed",
           "synthesizing", "completed", "stopped", "failed"}

\* Where an executing run can be; the last three positions are outside run().
Executing == {"mark", "gate", "begin", "internal", "announce_internal", "web",
              "searching", "announce_web", "finish", "synth"}
Positions == Executing \cup
             {"new", "decide", "stop", "remove", "log_read", "log_write",
              "audit", "done", "dead"}

\* Positions run() can be suspended at by a yield; the two awaits are at
\* "searching" (the web search thread) and "synth" (the language model).
YieldPoints == {"gate", "internal", "announce_internal", "announce_web",
                "synth", "audit"}

Plans == [by: Requests \cup {None}, st: Seq(StepStatus)]
Rows == [status: Status, plan: Plans, events: Seq(Events),
         sources: Requests \cup {None}, report: Requests \cup {None}]
Notes == [ev: Events, then: Positions]
NoPlan == [by |-> None, st |-> <<>>]
Pending(n) == [i \in 1..n |-> "pending"]
MinOf(a, b) == IF a <= b THEN a ELSE b

Exists == row.status \notin {"absent", "deleted"}

\* Mutant: an upsert, writing a row that is gone.
UpdateUpserts(new) == row' = new

\* repository.update: one UPDATE of the row, no effect once it is deleted.
Update(new) == row' = IF Exists THEN new ELSE row

Take(q) == loop' = [loop EXCEPT ![host[q]] = q]
Yield(q) == loop' = [loop EXCEPT ![host[q]] = None]
MayStep(q) == loop[host[q]] \in {q, None}

\* q goes on at position p and keeps the event loop.
Goto(q, p) == pc' = [pc EXCEPT ![q] = p] /\ Take(q)

\* q appends event e to the row, then goes on at position p.
Emit(q, e, p) ==
    /\ Goto(q, "log_read")
    /\ note' = [note EXCEPT ![q] = [ev |-> e, then |-> p]]

Init ==
    /\ row = [status |-> "absent", plan |-> NoPlan, events |-> <<>>,
              sources |-> None, report |-> None]
    /\ loop = [h \in Hosts |-> None]
    /\ op = [q \in Requests |-> "none"]
    /\ host = [q \in Requests |-> None]
    /\ pc = [q \in Requests |-> "new"]
    /\ plan = [q \in Requests |-> NoPlan]
    /\ seen = [q \in Requests |-> "absent"]
    /\ step = [q \in Requests |-> 0]
    /\ found = [q \in Requests |-> 0]
    /\ left = [q \in Requests |-> 0]
    /\ log = [q \in Requests |-> <<>>]
    /\ note = [q \in Requests |-> [ev |-> "started", then |-> "done"]]
    /\ audit = [q \in Requests |-> "none"]
    /\ sanctioned = {}
    /\ crashes = 0

-----------------------------------------------------------------------------
(* Events.  append_event reads the row's events, then writes the longer    *)
(* list; a missing row is left alone.  run() yields after each event.      *)

Logged(q) ==
    /\ pc' = [pc EXCEPT ![q] = note[q].then]
    /\ IF op[q] = "run" THEN Yield(q) ELSE Take(q)

\* Mutant: the handler awaits between reading and writing the events.
LogReadAwaits(q) ==
    /\ pc[q] = "log_read" /\ MayStep(q)
    /\ log' = [log EXCEPT ![q] = row.events]
    /\ pc' = [pc EXCEPT ![q] = "log_write"] /\ Yield(q)
    /\ UNCHANGED <<row, locals, note, audit, sanctioned, crashes>>

LogRead(q) ==
    /\ pc[q] = "log_read" /\ MayStep(q)
    /\ IF Exists
         THEN log' = [log EXCEPT ![q] = row.events] /\ Goto(q, "log_write")
         ELSE Logged(q) /\ UNCHANGED log
    /\ UNCHANGED <<row, locals, note, audit, sanctioned, crashes>>

LogWrite(q) ==
    /\ pc[q] = "log_write" /\ MayStep(q)
    /\ Update([row EXCEPT !.events = Append(log[q], note[q].ev)])
    /\ log' = [log EXCEPT ![q] = <<>>]
    /\ Logged(q)
    /\ UNCHANGED <<locals, note, audit, sanctioned, crashes>>

-----------------------------------------------------------------------------
(* Short handlers.  Arrive(q, h, o): process h accepts q for route o.      *)

Arrive(q, h, o, p) ==
    /\ pc[q] = "new" /\ loop[h] = None
    /\ op' = [op EXCEPT ![q] = o]
    /\ host' = [host EXCEPT ![q] = h]
    /\ pc' = [pc EXCEPT ![q] = p]
    /\ loop' = [loop EXCEPT ![h] = q]

\* create_plan stores the drafted plan and logs plan_created.
CreatePlan(q, h, n) ==
    /\ row.status = "absent"
    /\ Arrive(q, h, "create", "log_read")
    /\ row' = [row EXCEPT !.status = "plan_ready",
                          !.plan = [by |-> q, st |-> Pending(n)]]
    /\ note' = [note EXCEPT ![q] = [ev |-> "plan_created", then |-> "audit"]]
    /\ seen' = [seen EXCEPT ![q] = "plan_ready"]
    /\ UNCHANGED <<plan, step, found, left, log, audit, sanctioned, crashes>>

\* approve_plan, up to the status check.  p is the plan it will store: the one
\* read, or the request's own text of at most MaxSteps steps.
ReadForDecision(q, h, o) ==
    /\ row.status \in {"plan_ready", "rejected"}
    /\ Arrive(q, h, o, "decide")
    /\ \E p \in {[row.plan EXCEPT !.st = Pending(Len(row.plan.st))]}
                \cup {[by |-> q, st |-> Pending(n)] : n \in 1..MaxSteps} :
          plan' = [plan EXCEPT ![q] = IF o = "approve" THEN p ELSE NoPlan]
    /\ seen' = [seen EXCEPT ![q] = row.status]
    /\ UNCHANGED <<row, step, found, left, log, note, audit, sanctioned,
                   crashes>>

WriteApproval(q) ==
    /\ pc[q] = "decide" /\ op[q] = "approve" /\ MayStep(q)
    /\ Update([row EXCEPT !.status = "approved", !.plan = plan[q]])
    /\ sanctioned' = IF Exists THEN sanctioned \cup {plan[q].by} ELSE sanctioned
    /\ seen' = [seen EXCEPT ![q] = IF Exists THEN "approved" ELSE @]
    /\ Emit(q, "plan_approved", "audit")
    /\ UNCHANGED <<op, host, plan, step, found, left, log, audit, crashes>>

WriteRejection(q) ==
    /\ pc[q] = "decide" /\ op[q] = "reject" /\ MayStep(q)
    /\ Update([row EXCEPT !.status = "rejected"])
    /\ seen' = [seen EXCEPT ![q] = IF Exists THEN "rejected" ELSE @]
    /\ Emit(q, "plan_rejected", "audit")
    /\ UNCHANGED <<op, host, plan, step, found, left, log, audit, sanctioned,
                   crashes>>

\* Mutant: stop without the check of the status.
ReadForStopUnchecked(q, h) ==
    /\ Exists
    /\ Arrive(q, h, "stop", "stop")
    /\ seen' = [seen EXCEPT ![q] = row.status]
    /\ UNCHANGED <<row, plan, step, found, left, log, note, audit, sanctioned,
                   crashes>>

\* stop: only a running record is changed, and no event is logged.
ReadForStop(q, h) ==
    /\ Exists
    /\ Arrive(q, h, "stop", IF row.status = "running" THEN "stop" ELSE "audit")
    /\ seen' = [seen EXCEPT ![q] = row.status]
    /\ UNCHANGED <<row, plan, step, found, left, log, note, audit, sanctioned,
                   crashes>>

WriteStop(q) ==
    /\ pc[q] = "stop" /\ MayStep(q)
    /\ Update([row EXCEPT !.status = "stopped"])
    /\ seen' = [seen EXCEPT ![q] = IF Exists THEN "stopped" ELSE @]
    /\ Goto(q, "audit")
    /\ UNCHANGED <<op, host, plan, step, found, left, log, note, audit,
                   sanctioned, crashes>>

ReadForDelete(q, h) ==
    /\ Exists
    /\ Arrive(q, h, "delete", "remove")
    /\ UNCHANGED <<row, plan, seen, step, found, left, log, note, audit,
                   sanctioned, crashes>>

\* A DELETE that finds no row answers 404 and writes no audit row.
Remove(q) ==
    /\ pc[q] = "remove" /\ MayStep(q)
    /\ row' = IF Exists THEN [row EXCEPT !.status = "deleted"] ELSE row
    /\ seen' = [seen EXCEPT ![q] = "deleted"]
    /\ IF Exists
         THEN Goto(q, "audit")
         ELSE pc' = [pc EXCEPT ![q] = "done"] /\ Yield(q)
    /\ UNCHANGED <<op, host, plan, step, found, left, log, note, audit,
                   sanctioned, crashes>>

\* Every route writes an audit row last; the run route reads the record again
\* for it and writes none when the record is gone.
WriteAudit(q) ==
    /\ pc[q] = "audit" /\ MayStep(q)
    /\ audit' = [audit EXCEPT ![q] =
                   IF op[q] # "run" THEN seen[q]
                   ELSE IF Exists THEN row.status ELSE @]
    /\ pc' = [pc EXCEPT ![q] = "done"]
    /\ Yield(q)
    /\ UNCHANGED <<row, locals, log, note, sanctioned, crashes>>

-----------------------------------------------------------------------------
(* run().                                                                  *)

\* Mutant: the budget is not reduced by what was found.
RemainingUnspent(q) == IF found[q] < MaxSources THEN MaxSources ELSE 0

Remaining(q) == IF found[q] < MaxSources THEN MaxSources - found[q] ELSE 0

\* Mutant: a plan still under review may run.
BeginRunUnapproved(q, h) ==
    /\ row.status \in {"plan_ready", "approved"}
    /\ Arrive(q, h, "run", "mark")
    /\ plan' = [plan EXCEPT ![q] = row.plan]
    /\ UNCHANGED <<row, seen, step, found, left, log, note, audit, sanctioned,
                   crashes>>

\* Mutant: a run may be resumed by a second request.
BeginRunResumes(q, h) ==
    /\ row.status \in {"approved", "running"}
    /\ Arrive(q, h, "run", "mark")
    /\ plan' = [plan EXCEPT ![q] = row.plan]
    /\ UNCHANGED <<row, seen, step, found, left, log, note, audit, sanctioned,
                   crashes>>

\* The record must be approved; its plan is copied.
BeginRun(q, h) ==
    /\ row.status = "approved"
    /\ Arrive(q, h, "run", "mark")
    /\ plan' = [plan EXCEPT ![q] = row.plan]
    /\ UNCHANGED <<row, seen, step, found, left, log, note, audit, sanctioned,
                   crashes>>

MarkRunning(q) ==
    /\ pc[q] = "mark" /\ MayStep(q)
    /\ Update([row EXCEPT !.status = "running"])
    /\ Emit(q, "started", "gate")
    /\ UNCHANGED <<locals, log, audit, sanctioned, crashes>>

\* Mutant: the loop does not look for a stop.
GateUnchecked(q) ==
    /\ pc[q] = "gate" /\ MayStep(q)
    /\ step[q] < Len(plan[q].st)
    /\ plan' = [plan EXCEPT ![q].st[step[q] + 1] = "running"]
    /\ step' = [step EXCEPT ![q] = @ + 1]
    /\ Goto(q, "begin")
    /\ UNCHANGED <<row, op, host, seen, found, left, log, note, audit,
                   sanctioned, crashes>>

\* Top of the step loop: the record is read again, and a stop ends the run.
Gate(q) ==
    /\ pc[q] = "gate" /\ MayStep(q)
    /\ step[q] < Len(plan[q].st)
    /\ IF row.status = "stopped"
         THEN Emit(q, "stopped", "audit") /\ UNCHANGED <<plan, step>>
         ELSE /\ plan' = [plan EXCEPT ![q].st[step[q] + 1] = "running"]
              /\ step' = [step EXCEPT ![q] = @ + 1]
              /\ Goto(q, "begin")
              /\ UNCHANGED note
    /\ UNCHANGED <<row, op, host, seen, found, left, log, audit, sanctioned,
                   crashes>>

BeginStep(q) ==
    /\ pc[q] = "begin" /\ MayStep(q)
    /\ Update([row EXCEPT !.plan = plan[q]])
    /\ Emit(q, "step_started", "internal")
    /\ UNCHANGED <<locals, log, audit, sanctioned, crashes>>

\* _internal_sources(limit = min(remaining, 4)).
SearchInternal(q) ==
    /\ pc[q] = "internal" /\ MayStep(q)
    /\ \E k \in IF InternalAllowed THEN 0..MinOf(Remaining(q), PerCall) ELSE {0} :
          /\ found' = [found EXCEPT ![q] = @ + k]
          /\ left' = [left EXCEPT ![q] = k]
    /\ Goto(q, "announce_internal")
    /\ UNCHANGED <<row, op, host, plan, seen, step, log, note, audit,
                   sanctioned, crashes>>

\* Mutant: one event more than there are sources.
AnnounceOneMore(q, here, next) ==
    /\ pc[q] = here /\ MayStep(q)
    /\ IF left[q] >= 0
         THEN Emit(q, "source_found", here) /\ left' = [left EXCEPT ![q] = @ - 1]
         ELSE Goto(q, next) /\ UNCHANGED <<note, left>>
    /\ UNCHANGED <<row, op, host, plan, seen, step, found, log, audit,
                   sanctioned, crashes>>

\* One source_found event per source of the last call.
Announce(q, here, next) ==
    /\ pc[q] = here /\ MayStep(q)
    /\ IF left[q] > 0
         THEN Emit(q, "source_found", here) /\ left' = [left EXCEPT ![q] = @ - 1]
         ELSE Goto(q, next) /\ UNCHANGED <<note, left>>
    /\ UNCHANGED <<row, op, host, plan, seen, step, found, log, audit,
                   sanctioned, crashes>>

AnnounceInternal(q) == Announce(q, "announce_internal", "web")
AnnounceWeb(q) == Announce(q, "announce_web", "finish")

\* The web search runs in a thread: the event loop is free meanwhile.
StartWeb(q) ==
    /\ pc[q] = "web" /\ MayStep(q)
    /\ IF WebAllowed /\ Remaining(q) > 0
         THEN pc' = [pc EXCEPT ![q] = "searching"] /\ Yield(q)
         ELSE Goto(q, "finish")
    /\ UNCHANGED <<row, locals, log, note, audit, sanctioned, crashes>>

\* Its answer: at most min(remaining, 4) sources, or none and a warning.
FinishWeb(q) ==
    /\ pc[q] = "searching" /\ MayStep(q)
    /\ \/ \E k \in 0..MinOf(Remaining(q), PerCall) :
            /\ found' = [found EXCEPT ![q] = @ + k]
            /\ left' = [left EXCEPT ![q] = k]
            /\ Goto(q, "announce_web")
            /\ UNCHANGED note
       \/ Emit(q, "warning", "announce_web") /\ UNCHANGED <<found, left>>
    /\ UNCHANGED <<row, op, host, plan, seen, step, log, audit, sanctioned,
                   crashes>>

\* Mutant: the step is stored without its new status.
FinishStepStale(q) ==
    /\ pc[q] = "finish" /\ MayStep(q)
    /\ Update([row EXCEPT !.plan = plan[q]])
    /\ Emit(q, "step_completed", "gate")
    /\ UNCHANGED <<locals, log, audit, sanctioned, crashes>>

FinishStep(q) ==
    /\ pc[q] = "finish" /\ MayStep(q)
    /\ LET p == [plan[q] EXCEPT !.st[step[q]] = "completed"] IN
         /\ plan' = [plan EXCEPT ![q] = p]
         /\ Update([row EXCEPT !.plan = p])
    /\ Emit(q, "step_completed", "gate")
    /\ UNCHANGED <<op, host, seen, step, found, left, log, audit, sanctioned,
                   crashes>>

\* Mutant: off by one, the last step is never run.
CollectSourcesEarly(q) ==
    /\ pc[q] = "gate" /\ MayStep(q)
    /\ step[q] + 1 >= Len(plan[q].st)
    /\ Update([row EXCEPT !.sources = q, !.plan = plan[q]])
    /\ Emit(q, "synthesizing", "synth")
    /\ UNCHANGED <<locals, log, audit, sanctioned, crashes>>

\* After the last step: the deduplicated sources are stored.
CollectSources(q) ==
    /\ pc[q] = "gate" /\ MayStep(q)
    /\ step[q] = Len(plan[q].st)
    /\ Update([row EXCEPT !.sources = q, !.plan = plan[q]])
    /\ Emit(q, "synthesizing", "synth")
    /\ UNCHANGED <<locals, log, audit, sanctioned, crashes>>

\* The model answered: report, sources and status are stored in one update.
Complete(q) ==
    /\ pc[q] = "synth" /\ MayStep(q)
    /\ Update([row EXCEPT !.status = "completed", !.report = q, !.sources = q])
    /\ Emit(q, "completed", "audit")
    /\ UNCHANGED <<locals, log, audit, sanctioned, crashes>>

\* except Exception: retrieval, the search thread or the model raised.
Fail(q) ==
    /\ pc[q] \in {"internal", "searching", "synth"} /\ MayStep(q)
    /\ Update([row EXCEPT !.status = "failed", !.plan = plan[q]])
    /\ Emit(q, "failed", "audit")
    /\ UNCHANGED <<locals, log, audit, sanctioned, crashes>>

-----------------------------------------------------------------------------
(* The client goes away, the process dies.                                 *)

\* Mutant: cancellation is not caught.
CancelUncaught(q) ==
    /\ \/ pc[q] = "searching"
       \/ pc[q] = "synth" /\ found[q] > 0
    /\ loop[host[q]] = None
    /\ Emit(q, "stopped", "done")
    /\ UNCHANGED <<row, locals, log, audit, sanctioned, crashes>>

\* Disconnect while run() awaits: CancelledError, the record is stopped, the
\* event logged, and the exception passes the audit by.
Cancel(q) ==
    /\ \/ pc[q] = "searching"
       \/ pc[q] = "synth" /\ found[q] > 0
    /\ loop[host[q]] = None
    /\ Update([row EXCEPT !.status = "stopped", !.plan = plan[q]])
    /\ Emit(q, "stopped", "done")
    /\ UNCHANGED <<locals, log, audit, sanctioned, crashes>>

\* Disconnect while run() is suspended by a yield: the generator is closed with
\* GeneratorExit, which no handler catches.
Abandon(q) ==
    /\ op[q] = "run" /\ pc[q] \in YieldPoints
    /\ loop[host[q]] = None
    /\ pc' = [pc EXCEPT ![q] = "dead"]
    /\ UNCHANGED <<row, loop, locals, log, note, audit, sanctioned, crashes>>

Crash(h) ==
    /\ crashes < MaxCrashes
    /\ crashes' = crashes + 1
    /\ pc' = [q \in Requests |->
                IF host[q] = h /\ pc[q] # "done" THEN "dead" ELSE pc[q]]
    /\ loop' = [loop EXCEPT ![h] = None]
    /\ UNCHANGED <<row, locals, log, note, audit, sanctioned>>

-----------------------------------------------------------------------------
Accept(q) ==
    \E h \in Hosts :
       \/ \E n \in 1..MaxSteps : CreatePlan(q, h, n)
       \/ \E o \in {"approve", "reject"} : ReadForDecision(q, h, o)
       \/ ReadForStop(q, h)
       \/ ReadForDelete(q, h)
       \/ BeginRun(q, h)

\* What the server does by itself once a request is accepted.
Serve(q) ==
    \/ LogRead(q) \/ LogWrite(q) \/ WriteApproval(q) \/ WriteRejection(q)
    \/ WriteStop(q) \/ Remove(q) \/ WriteAudit(q)
    \/ MarkRunning(q) \/ Gate(q) \/ BeginStep(q)
    \/ SearchInternal(q) \/ AnnounceInternal(q)
    \/ StartWeb(q) \/ FinishWeb(q) \/ AnnounceWeb(q)
    \/ FinishStep(q) \/ CollectSources(q) \/ Complete(q) \/ Fail(q)

Next ==
    \/ \E q \in Requests : Accept(q) \/ Serve(q) \/ Cancel(q) \/ Abandon(q)
    \/ \E h \in Hosts : Crash(h)

Spec == Init /\ [][Next]_vars

\* Fairness: a ready handler is eventually resumed by its event loop, and the
\* search (12 s timeout) and the model call return or raise.  Clients owe nothing.
FairSpec == Spec /\ \A q \in Requests : WF_vars(Serve(q))

-----------------------------------------------------------------------------
(* Properties that hold for every number of API processes.                 *)

TypeOK ==
    /\ row \in Rows
    /\ loop \in [Hosts -> Requests \cup {None}]
    /\ op \in [Requests -> Ops]
    /\ host \in [Requests -> Hosts \cup {None}]
    /\ pc \in [Requests -> Positions]
    /\ plan \in [Requests -> Plans]
    /\ seen \in [Requests -> Status]
    /\ step \in [Requests -> Nat]
    /\ found \in [Requests -> Nat]
    /\ left \in [Requests -> Nat]
    /\ log \in [Requests -> Seq(Events)]
    /\ note \in [Requests -> Notes]
    /\ audit \in [Requests -> Status \cup {"none"}]
    /\ sanctioned \subseteq Requests \cup {None}
    /\ crashes \in 0..MaxCrashes

\* The governed lifecycle's promise (README "create plan -> review plan ->
\* approve -> execute"): whatever decisions, runs and deletions overlap, a run
\* only ever works through a plan text that some approval stored, and so does
\* the record it reports into.
ExecutesSanctionedPlan ==
    \A q \in Requests :
       op[q] = "run" => plan[q].by \in sanctioned

\* maximum_sources bounds what one run gathers over all its steps and both
\* retrieval calls of a step (service.py recomputes `remaining` before each).
SourceBudget == \A q \in Requests : found[q] <= MaxSources

\* A report is only ever stored by a run that went through every step of its
\* plan, and a record that shows "completed" has one to export.
ReportIsEarned ==
    /\ row.status = "completed" => row.report # None
    /\ row.report # None =>
         /\ step[row.report] = Len(plan[row.report].st)
         /\ \A i \in DOMAIN plan[row.report].st :
               plan[row.report].st[i] = "completed"

\* A deleted record stays deleted: no late update or event of a request still
\* in flight brings the row back (update and append_event of a missing row).
DeletedStaysDeleted == [][row.status = "deleted" => row' = row]_vars

-----------------------------------------------------------------------------
(* Properties of one API process, where handlers interleave at awaits only.*)

\* q is inside run(), before its last event.
Working(q) ==
    \/ pc[q] \in Executing
    \/ pc[q] \in {"log_read", "log_write"} /\ note[q].then \in Executing

\* At most one run works on the record.
AtMostOneRun == \A p, q \in Requests : Working(p) /\ Working(q) => p = q

\* The record a reader exports is of one piece: report, source ledger and plan
\* are those of the same run, and every step of the plan is completed.
CompletedIsConsistent ==
    row.status = "completed" =>
       /\ row.sources = row.report
       /\ row.plan = plan[row.report]
       /\ \A i \in DOMAIN row.plan.st : row.plan.st[i] = "completed"

\* An event once in the row is never lost or renumbered: a client that polls
\* /events?after=n (routes_research.py:182) misses nothing.
EventsOnlyGrow ==
    [][ /\ Len(row'.events) >= Len(row.events)
        /\ SubSeq(row'.events, 1, Len(row.events)) = row.events ]_vars

\* "research plan must be approved before it can run" (service.py:171): a run
\* starts from an approved record, so each approval is run at most once.
RunStartsApproved ==
    [][ (\E q \in Requests : MarkRunning(q)) =>
            row.status \in {"approved", "deleted"} ]_vars

\* One process keeps the promise of ResearchLifecycle: every overlap of
\* decisions, runs, stops, disconnects, crashes and deletions maps to it.
Lifecycle == INSTANCE ResearchLifecycle WITH
                Authors <- Requests, status <- row.status,
                plan <- row.plan.by, report <- row.report # None
ImplementsLifecycle == Lifecycle!Spec

\* A stop is obeyed: once the record is stopped no step of the plan begins.
NoStepAfterStop ==
    [][ (\E q \in Requests : BeginStep(q)) => row.status # "stopped" ]_vars

\* A record left "running" is left so by a run that died: its client went away
\* at a yield, or its process crashed.  Otherwise the run ends.
RunEnds ==
    (row.status = "running") ~>
        \/ row.status # "running"
        \/ \E q \in Requests : op[q] = "run" /\ pc[q] = "dead"
=============================================================================
