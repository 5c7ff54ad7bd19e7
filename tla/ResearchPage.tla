---------------------------- MODULE ResearchPage ----------------------------
(***************************************************************************)
(* The research page of the web application                                *)
(* (apps/web/app/research/ResearchClient.tsx over lib/research/api.ts):    *)
(* the brief, the plan and its approval, the streamed run, stopping it,    *)
(* the history.  Module Research models the server; here a run of it is a  *)
(* status, which no other tab decides about.                               *)
(*                                                                         *)
(* A handler of the page awaits one answer at a time and may overlap       *)
(* others: its request reaches the server in one step, its answer the page *)
(* in a later one.  The brief is an input: which of its fields are filled  *)
(* or ticked.  The texts of plans, sources, events, errors and reports are *)
(* left out, and so is the export of a report, which changes nothing.      *)
(***************************************************************************)
EXTENDS Frontend

VARIABLES
    open,      \* the page is shown, to a role that may use it (canUseResearch)
    server,    \* status of the runs on the server
    briefs,    \* runs asked for so far
    history,   \* the panel of past runs: the status of each as last heard of
    active,    \* the run that is shown and its status, or None
    busy,      \* buttons are disabled
    current,   \* abortRef: the handler that Stop aborts, or None
    handlers   \* handlers under way

vars == <<open, server, briefs, history, active, busy, current, handlers>>
shown == <<history, active>>

RunIds == 1..MaxRuns
Fields == {"query", "internalDocuments", "webSearch"}

Statuses == {"plan_ready", "approved", "running", "completed", "failed", "stopped"}

\* n: the handler; at: sent, stream (told: its last event came), refresh,
\* answered; reply: statuses by run, empty for an error.
Job(kind, n, id) ==
    [kind |-> kind, n |-> n, id |-> id, at |-> "sent", told |-> FALSE, reply |-> <<>>]

Free(n) == \A j \in handlers : j.n # n
\* The number of a new handler: the least that is free, if any is.
IsNext(n) == Free(n) /\ \A m \in 1..(n - 1) : ~Free(m)
Starts(kind, id) ==
    \E n \in 1..MaxHandlers :
       /\ IsNext(n)
       /\ handlers' = handlers \cup {Job(kind, n, id)}
       /\ current' = IF kind = "run" THEN n ELSE current

Init ==
    /\ open = FALSE /\ server = <<>> /\ briefs = 0 /\ handlers = {} /\ current = None
    /\ history = <<>> /\ active = None /\ busy = FALSE

-----------------------------------------------------------------------------
(* Opening the page, and the brief. *)

\* The history is asked for as the page opens.
Enter ==
    /\ ~open
    /\ open' = TRUE
    /\ Starts("load", None)
    /\ UNCHANGED <<server, briefs, shown, busy>>

\* Back to chat, a reload, or the session's end as some answer reports it.
Leave ==
    /\ open
    /\ open' = FALSE /\ handlers' = {} /\ current' = None
    /\ history' = <<>> /\ active' = None /\ busy' = FALSE
    /\ UNCHANGED <<server, briefs>>

\* The button of the brief: a question, and at least one kind of source.
Complete(brief) == "query" \in brief /\ brief \cap {"internalDocuments", "webSearch"} # {}

-----------------------------------------------------------------------------
(* The handlers: what starts them. *)

CreatePlan(brief) ==
    /\ open /\ Complete(brief) /\ ~busy /\ briefs < MaxRuns
    /\ briefs' = briefs + 1
    /\ Starts("create", briefs + 1)
    /\ busy' = TRUE
    /\ UNCHANGED <<open, server, history, active>>

ApprovePlan ==
    /\ active # None /\ active.status = "plan_ready" /\ ~busy
    /\ Starts("approve", active.id)
    /\ busy' = TRUE
    /\ UNCHANGED <<open, server, briefs, history, active>>

\* The run is shown as running before the server has heard of it.
Run ==
    /\ active # None /\ active.status = "approved" /\ ~busy
    /\ Starts("run", active.id)
    /\ busy' = TRUE
    /\ active' = [active EXCEPT !.status = "running"]
    /\ UNCHANGED <<open, server, briefs, history>>

\* The handler of the run ends at once if it still reads the stream.
Stop ==
    LET aborted == {j \in handlers : j.n = current /\ j.at \in {"sent", "stream"}}
    IN  /\ active # None /\ active.status = "running"
        /\ \E n \in 1..MaxHandlers :
              /\ IsNext(n)
              /\ handlers' = (handlers \ aborted) \cup {Job("stop", n, active.id)}
        /\ IF aborted = {} THEN UNCHANGED <<busy, current>>
           ELSE busy' = FALSE /\ current' = None
        /\ UNCHANGED <<open, server, briefs, shown>>

SelectHistory(id) ==
    /\ open /\ ~busy /\ id \in DOMAIN history
    /\ active' = [id |-> id, status |-> history[id]]
    /\ UNCHANGED <<open, server, briefs, history, busy, current, handlers>>

-----------------------------------------------------------------------------
(* The handlers: requests, events and answers. *)

Becomes(j, k) == handlers' = (handlers \ {j}) \cup {k}
Answer(j, reply) == Becomes(j, [j EXCEPT !.at = "answered", !.reply = reply])

\* The server moves a run on when the request asks for a step it allows.
Step(id, from, to) ==
    IF id \in DOMAIN server /\ server[id] = from THEN [server EXCEPT ![id] = to] ELSE server

Served(j) ==
    IF j.at = "refresh" THEN server
    ELSE CASE j.kind = "create" -> Put(server, j.id, "plan_ready")
           [] j.kind = "approve" -> Step(j.id, "plan_ready", "approved")
           [] j.kind = "run" -> Step(j.id, "approved", "running")
           [] j.kind = "stop" -> Step(j.id, "running", "stopped")
           [] OTHER -> server

\* A run that is not at the step that is asked for is an error.
Refused(j) == j.kind \in {"approve", "run"} /\ j.at = "sent" /\ Served(j) = server

Serve(j) ==
    /\ j.at \in {"sent", "refresh"}
    /\ server' = Served(j)
    /\ \/ Refused(j) /\ Answer(j, <<>>)
       \/ j.kind = "load" /\ Answer(j, server)
       \/ /\ j.kind = "run" /\ j.at = "sent" /\ ~Refused(j)
          /\ Becomes(j, [j EXCEPT !.at = "stream"])
       \/ /\ j.kind \notin {"load", "run"} \/ j.at = "refresh"
          /\ ~Refused(j)
          /\ Answer(j, [id \in {j.id} |-> server'[id]])
    /\ UNCHANGED <<open, briefs, shown, busy, current>>

\* The server cannot be reached, or the answer is lost.
Unanswered(j) ==
    /\ j.at # "answered"
    /\ Answer(j, <<>>)
    /\ UNCHANGED <<open, server, briefs, shown, busy, current>>

\* A run ends at the server.
ServerEnds(id) ==
    /\ id \in DOMAIN server /\ server[id] = "running"
    /\ \E end \in {"completed", "failed"} : server' = [server EXCEPT ![id] = end]
    /\ UNCHANGED <<open, briefs, shown, busy, current, handlers>>

Heard(id, status) ==
    /\ active' = [id |-> id, status |-> status]
    /\ history' = Put(history, id, status)

\* The last event of the stream: "completed" brings the report, "stopped" is
\* said of whatever run is shown, "failed" shows an error and nothing else.
LastEvent(j) ==
    /\ j.at = "stream" /\ ~j.told
    /\ \/ server[j.id] = "completed" /\ Heard(j.id, "completed")
       \/ server[j.id] = "failed" /\ UNCHANGED shown
       \/ /\ server[j.id] = "stopped"
          /\ active' = IF active = None THEN None ELSE [active EXCEPT !.status = "stopped"]
          /\ UNCHANGED history
    /\ Becomes(j, [j EXCEPT !.told = TRUE])
    /\ UNCHANGED <<open, server, briefs, busy, current>>

\* The stream ends, whether or not its last event came; the run is fetched.
BodyEnds(j) ==
    /\ j.at = "stream"
    /\ Becomes(j, [j EXCEPT !.at = "refresh"])
    /\ UNCHANGED <<open, server, briefs, shown, busy, current>>

\* The first answer, to the page's own question, does not replace a run that is
\* shown already, but replaces the history.
Loaded(j) ==
    /\ j.kind = "load" /\ j.at = "answered"
    /\ handlers' = handlers \ {j}
    /\ history' = j.reply
    /\ active' = IF active # None \/ j.reply = <<>> THEN active
                 ELSE LET newest == CHOOSE id \in DOMAIN j.reply :
                                      \A i \in DOMAIN j.reply : i <= id
                      IN  [id |-> newest, status |-> j.reply[newest]]
    /\ UNCHANGED <<open, server, briefs, busy, current>>

\* Mutant: an error leaves the page busy.
FinallyOnSuccess(j) ==
    /\ j.kind # "load" /\ j.at = "answered"
    /\ handlers' = handlers \ {j}
    /\ IF j.reply = <<>> THEN UNCHANGED shown ELSE Heard(j.id, j.reply[j.id])
    /\ busy' = (busy /\ j.reply = <<>>)
    /\ current' = IF j.kind = "run" THEN None ELSE current
    /\ UNCHANGED <<open, server, briefs>>

\* The answer is shown or the error is, and finally the page is free again,
\* whatever else is under way.
Finally(j) ==
    /\ j.kind # "load" /\ j.at = "answered"
    /\ handlers' = handlers \ {j}
    /\ IF j.reply = <<>> THEN UNCHANGED shown ELSE Heard(j.id, j.reply[j.id])
    /\ busy' = FALSE
    /\ current' = IF j.kind = "run" THEN None ELSE current
    /\ UNCHANGED <<open, server, briefs>>

Next ==
    \/ Enter
    \/ Leave
    \/ \E brief \in SUBSET Fields : CreatePlan(brief)
    \/ ApprovePlan
    \/ Run
    \/ Stop
    \/ \E id \in RunIds : SelectHistory(id)
    \/ \E j \in handlers : Serve(j)
    \/ \E j \in handlers : Unanswered(j)
    \/ \E id \in RunIds : ServerEnds(id)
    \/ \E j \in handlers : LastEvent(j)
    \/ \E j \in handlers : BodyEnds(j)
    \/ \E j \in handlers : Loaded(j)
    \/ \E j \in handlers : Finally(j)

Spec == Init /\ [][Next]_vars

-----------------------------------------------------------------------------
(* Properties. *)

Records(ids) == UNION {[S -> Statuses] : S \in SUBSET ids}

TypeOK ==
    /\ open \in BOOLEAN /\ busy \in BOOLEAN
    /\ briefs \in 0..MaxRuns
    /\ server \in Records(1..briefs) /\ history \in Records(1..briefs)
    /\ active \in [id : 1..briefs, status : Statuses] \cup {None}
    /\ current \in 1..MaxHandlers \cup {None}
    /\ \A j \in handlers :
          /\ j.kind \in {"load", "create", "approve", "run", "stop"}
          /\ j.n \in 1..MaxHandlers /\ j.id \in 1..briefs \cup {None}
          /\ j.at \in {"sent", "stream", "refresh", "answered"}
          /\ j.reply \in Records(1..briefs)

\* The page is locked only while a handler is under way that will free it:
\* whatever answers are lost, runs stopped and handlers overlap, the buttons
\* do not stay disabled.
LockIsHeld == busy => \E j \in handlers : j.kind \in {"create", "approve", "run"}
=============================================================================
