------------------------------- MODULE Tasks -------------------------------
(***************************************************************************)
(* Compliance tasks: the server's tasks (app/api/routes_tasks.py,          *)
(* app/core/task_service.py, app/db/tasks_repository.py) and the page that *)
(* lists, creates, edits, completes, pauses and deletes them               *)
(* (apps/web/app/tasks/TasksClient.tsx).                                   *)
(*                                                                         *)
(* Every filter of the page is a query of its own in React Query's cache,  *)
(* kept when another filter is chosen; the answers differ only for "mine", *)
(* so two filters that list every task stand for all.  A task is a one-off *)
(* or recurs; the next run of one that recurs is the number of its         *)
(* occurrence.  A request is served in one step.  Texts, priorities,       *)
(* digests and the notification of a new task are left out.                *)
(***************************************************************************)
EXTENDS Frontend, Integers

Filters == {"all", "overdue"}
Kinds == {"create", "update", "destroy", "action"}
Closed == -1
New == 0
Acts == {"complete", "pause", "resume"}

VARIABLES
    tasks,       \* the table tasks
    filter,      \* the filter that is chosen
    cached,      \* the list of each filter in the cache
    invalid,     \* filters whose list is invalidated
    loading,     \* the fetch of the chosen filter's list
    dialog,        \* the dialog to create a task (New) or to edit one, or Closed
    doomed,      \* deleteTarget: the task whose deletion is to be confirmed, or None
    writes,      \* mutations under way, one of a kind
    tried,       \* mutations begun
    astray       \* history: filters whose list may differ, and none is fetched for it

vars == <<tasks, filter, cached, invalid, loading, dialog, doomed, writes, tried, astray>>
lists == <<filter, cached, invalid>>
dialogs == <<dialog, doomed>>
mutations == <<writes, tried>>

TaskIds == 1..MaxTasks
Task == [status : {"active", "paused", "completed"}, next : 0..MaxRounds \cup {None}]

\* No list yet; and a fetch that is under way, before and after it was served.
Idle == [at |-> "idle", rows |-> <<>>]
Sent == [at |-> "sent", rows |-> <<>>]

\* The page is opened on tasks that recur and were made before.
Init ==
    /\ tasks = [t \in TaskIds |-> [status |-> "active", next |-> 0]]
    /\ filter = "all" /\ cached = [f \in Filters |-> None] /\ invalid = {} /\ loading = Sent
    /\ dialog = Closed /\ doomed = None /\ writes = {} /\ tried = 0 /\ astray = {}

Shown(t) == cached[filter] # None /\ t \in DOMAIN cached[filter]

-----------------------------------------------------------------------------
(* The list. *)

\* The dialogs cover the page.
Uncovered == dialog = Closed /\ doomed = None

\* Leaving a filter cancels its fetch, for the request takes the signal.  The
\* list of the new one is shown, and is fetched when there is none or when it is
\* invalidated; the stale time of a list does not run out.
SetFilter(f) ==
    /\ Uncovered /\ f # filter
    /\ filter' = f
    /\ loading' = IF cached[f] = None \/ f \in invalid THEN Sent ELSE Idle
    /\ astray' = IF loading.at = "answered" THEN astray \cup {filter} ELSE astray
    /\ UNCHANGED <<tasks, cached, invalid, dialogs, mutations>>

ListServed ==
    /\ loading = Sent
    /\ loading' = [at |-> "answered", rows |-> tasks]
    /\ astray' = astray \ {filter}
    /\ UNCHANGED <<tasks, lists, dialogs, mutations>>

ListArrives ==
    /\ loading.at = "answered"
    /\ cached' = [cached EXCEPT ![filter] = loading.rows]
    /\ invalid' = invalid \ {filter}
    /\ loading' = Idle
    /\ UNCHANGED <<tasks, filter, dialogs, mutations, astray>>

\* The request or its answer is lost, twice.
ListFails ==
    /\ loading # Idle
    /\ loading' = Idle /\ astray' = astray \cup {filter}
    /\ UNCHANGED <<tasks, lists, dialogs, mutations>>

-----------------------------------------------------------------------------
(* The dialogs. *)

OpenForm ==
    /\ Uncovered
    /\ \/ dialog' = New
       \/ \E t \in TaskIds : Shown(t) /\ dialog' = t
    /\ UNCHANGED <<tasks, lists, loading, doomed, mutations, astray>>
AskToDelete(t) ==
    /\ Uncovered /\ Shown(t)
    /\ doomed' = t
    /\ UNCHANGED <<tasks, lists, loading, dialog, mutations, astray>>

\* "Cancel", also while the dialog's own mutation is under way.
Close ==
    /\ dialog # Closed \/ doomed # None
    /\ dialog' = Closed /\ doomed' = None
    /\ UNCHANGED <<tasks, lists, loading, mutations, astray>>

-----------------------------------------------------------------------------
(* Mutations. *)

Busy(kind) == \E w \in writes : w.kind = kind

Mutate(kind, id, act, recurs) ==
    /\ ~Busy(kind) /\ Cardinality(writes) < MaxSaves /\ tried < MaxChanges
    /\ tried' = tried + 1
    /\ writes' = writes \cup {[kind |-> kind, id |-> id, act |-> act, recurs |-> recurs, at |-> "sent"]}
    /\ UNCHANGED <<tasks, lists, loading, dialogs, astray>>

SubmitForm(recurs) ==
    /\ dialog # Closed
    /\ Mutate(IF dialog = New THEN "create" ELSE "update", dialog, None, recurs)
ConfirmDelete == doomed # None /\ Mutate("destroy", doomed, None, FALSE)

\* "Pause" or "Resume", and "Complete", as the list shows the task.
TaskAction(t, act) ==
    /\ Uncovered /\ Shown(t)
    /\ CASE act = "resume" -> cached[filter][t].status = "paused"
         [] act = "pause" -> cached[filter][t].status = "active"
         [] act = "complete" -> cached[filter][t].status # "completed"
    /\ Mutate("action", t, act, FALSE)

Served(w) == writes' = (writes \ {w}) \cup {[w EXCEPT !.at = "done"]}

First(w) == IF w.recurs THEN 0 ELSE None

\* _create: active, due at its date; a dialog without one is refused.
CreateTask(w) ==
    /\ w.kind = "create" /\ w.at = "sent" /\ Cardinality(DOMAIN tasks) < MaxTasks
    /\ \E t \in TaskIds \ DOMAIN tasks :
          tasks' = Put(tasks, t, [status |-> "active", next |-> First(w)])
    /\ Served(w)
    /\ UNCHANGED <<lists, loading, dialogs, astray, tried>>

\* _require_task answers 404 for a task that was deleted, and the list stays.
Missing(w) ==
    /\ w.kind # "create" /\ w.at = "sent" /\ w.id \notin DOMAIN tasks
    /\ writes' = writes \ {w}
    /\ UNCHANGED <<tasks, lists, loading, dialogs, astray, tried>>

\* The patch of an edit moves the next run of no task that recurs already.
UpdateTask(w) ==
    /\ w.kind = "update" /\ w.at = "sent" /\ w.id \in DOMAIN tasks
    /\ tasks' = IF w.recurs /\ tasks[w.id].next # None THEN tasks
                ELSE [tasks EXCEPT ![w.id].next = First(w)]
    /\ Served(w)
    /\ UNCHANGED <<lists, loading, dialogs, astray, tried>>

SetStatus(w) ==
    /\ w.act \in {"pause", "resume"} /\ w.at = "sent" /\ w.id \in DOMAIN tasks
    /\ tasks' = [tasks EXCEPT ![w.id].status = IF w.act = "pause" THEN "paused" ELSE "active"]
    /\ Served(w)
    /\ UNCHANGED <<lists, loading, dialogs, astray, tried>>

\* complete_task: a task that recurs is active again, at its next run
\* (advance_next_run).
Completed(task) ==
    IF task.next = None THEN [task EXCEPT !.status = "completed"]
    ELSE [status |-> "active", next |-> task.next + 1]
CompleteTask(w) ==
    /\ w.act = "complete" /\ w.at = "sent" /\ w.id \in DOMAIN tasks
    /\ tasks[w.id].next \in 0..MaxRounds - 1 \cup {None}
    /\ tasks' = [tasks EXCEPT ![w.id] = Completed(@)]
    /\ Served(w)
    /\ UNCHANGED <<lists, loading, dialogs, astray, tried>>

DeleteTask(w) ==
    /\ w.kind = "destroy" /\ w.at = "sent" /\ w.id \in DOMAIN tasks
    /\ tasks' = [t \in DOMAIN tasks \ {w.id} |-> tasks[t]]
    /\ Served(w)
    /\ UNCHANGED <<lists, loading, dialogs, astray, tried>>

\* setCreating(false), setEditing(null): the dialog of the kind, whichever it is.
Closes(w) ==
    \/ w.kind = "create" /\ dialog = New
    \/ w.kind = "update" /\ dialog \in TaskIds

\* invalidateQueries cancels a fetch of a list that is there, and not the first.
FirstLoad == cached[filter] = None /\ loading # Idle

\* onSuccess: every list is invalidated, and the one shown fetched, an older
\* fetch of it cancelled.
MutationSucceeds(w) ==
    /\ w.at = "done"
    /\ writes' = writes \ {w}
    /\ invalid' = {f \in Filters : cached[f] # None}
    /\ loading' = IF FirstLoad THEN loading ELSE Sent
    /\ astray' = IF FirstLoad /\ loading.at = "answered" THEN astray \cup {filter} ELSE astray
    /\ dialog' = IF Closes(w) THEN Closed ELSE dialog
    /\ doomed' = IF w.kind = "destroy" THEN None ELSE doomed
    /\ UNCHANGED <<tasks, filter, cached, tried>>

\* Not served, or served and the answer lost.
MutationFails(w) ==
    /\ writes' = writes \ {w}
    /\ astray' = IF w.at = "done" THEN Filters ELSE astray
    /\ UNCHANGED <<tasks, lists, loading, dialogs, tried>>

\* Another member of the organization completes a task.
ElsewhereCompleted(t) ==
    /\ t \in DOMAIN tasks /\ tasks[t].next \in 0..MaxRounds - 1 \cup {None}
    /\ tasks' = [tasks EXCEPT ![t] = Completed(@)]
    /\ astray' = Filters
    /\ UNCHANGED <<lists, loading, dialogs, mutations>>

Next ==
    \/ \E f \in Filters : SetFilter(f)
    \/ ListServed
    \/ ListArrives
    \/ ListFails
    \/ OpenForm
    \/ \E t \in TaskIds : AskToDelete(t)
    \/ Close
    \/ \E recurs \in BOOLEAN : SubmitForm(recurs)
    \/ ConfirmDelete
    \/ \E t \in TaskIds, act \in Acts : TaskAction(t, act)
    \/ \E w \in writes : CreateTask(w)
    \/ \E w \in writes : Missing(w)
    \/ \E w \in writes : UpdateTask(w)
    \/ \E w \in writes : SetStatus(w)
    \/ \E w \in writes : CompleteTask(w)
    \/ \E w \in writes : DeleteTask(w)
    \/ \E w \in writes : MutationSucceeds(w)
    \/ \E w \in writes : MutationFails(w)
    \/ \E t \in TaskIds : ElsewhereCompleted(t)

Spec == Init /\ [][Next]_vars

-----------------------------------------------------------------------------
(* Properties. *)

TypeOK ==
    /\ DOMAIN tasks \subseteq TaskIds /\ \A t \in DOMAIN tasks : tasks[t] \in Task
    /\ filter \in Filters
    /\ \A f \in Filters : cached[f] = None \/ \A t \in DOMAIN cached[f] : cached[f][t] \in Task
    /\ invalid \subseteq Filters /\ astray \subseteq Filters
    /\ loading.at \in {"idle", "sent", "answered"}
    /\ dialog \in TaskIds \cup {New, Closed}
    /\ doomed \in TaskIds \cup {None}
    /\ tried \in 0..MaxChanges
    /\ \A w \in writes : w.kind \in Kinds /\ w.at \in {"sent", "done"}

\* With no fetch and no change under way, the list that is shown is the server's,
\* unless that changed in a way the page could not know of, or while the filter's
\* first list was on its way: not the older answer of a later fetch a change
\* overtook, and not what another filter's list held before a change made here.
TaskListIsCurrent ==
    /\ loading = Idle /\ filter \notin astray
    /\ \A w \in writes : w.at # "done"
    => cached[filter] = tasks
=============================================================================
