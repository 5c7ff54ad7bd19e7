# PetroBrain: a TLA+ verification project

PetroBrain is an assistant for oil and gas operations: a FastAPI backend
(`app/`), a web application, a console for the platform's operators and a field
application for phones (`frontend/`), and the infrastructure that runs them
(`infra/`). This directory holds models of the parts of it whose correctness
depends on the order of events: what concurrent requests, background tasks,
crashes, lost responses and several API processes do to the state the servers
share, and what overlapping handlers, late answers, optimistic updates and a
change of user do to the state a page or a device keeps. TLC checks the models on small
instances; TLAPS proves the main results for every value of the constants.

## The system

All routes are `async def`, so the handlers of one API process are coroutines
on one event loop and interleave at `await` and `yield` only. Repository calls
are synchronous. Production runs two API processes
(`infra/envs/prod/main.tf`), development one; they share PostgreSQL, Redis, an
object store and a message broker. A Celery worker ingests documents. With
`persistence_backend=local_json` the same repositories write JSON files; the
models follow the PostgreSQL and Redis backends, which production uses.

| Part | State it keeps | Operations | What is hard |
|---|---|---|---|
| Research Mode (`app/research/service.py`) | one row per research: status, plan, events, sources, report | create, approve or reject, run (streamed), stop, delete, export | the runner keeps a private copy of the plan over many awaits; two processes; disconnects; death while running |
| Document ingestion (`app/workers/ingest_worker.py`, `app/api/routes_admin_documents.py`) | ingest record, blob, chunks, broker messages | upload, task, requeue (one or all), delete | four stores without a transaction; redelivery; deletion during a task; siblings of one document |
| Audit file (`app/core/audit.py`) | a JSONL file whose rows are chained by hashes; a cached tail per logger | write, verify | one logger per routes module and process; restarts; cut lines |
| Sessions (`app/core/refresh_tokens.py`, `routes_auth.py`, `useTokenRefresh.ts`) | refresh tokens, revoked access tokens; the pair a tab holds; its timer | sign in, refresh, log out, deactivate, reload | single-use tokens over a network that loses responses; two replicas; a store that fails half way |
| Chat page (`ChatClient.tsx`, `tokenStreamer.ts`, `conversations.ts`) | conversations in the browser's local store, one stream with a private copy of the messages | ask, stream, stop, regenerate, rate; sign in and out; reload | a stream goes on while the user switches, deletes, signs out; its end meets text that is not shown yet |
| Sidebar and projects (`ChatSidebar.tsx`, `ProjectsClient.tsx`, `projects.ts`) | the same store, projects, the active project | new, pick, rename, pin, archive, move, delete, clear; projects | one browser, several users; any order of operations |
| Composer (`ChatComposer.tsx`) | draft, attachments, speech recognition | type, dictate, attach, send, empty | files read and speech recognized late |
| Research page (`ResearchClient.tsx`) | history, the run shown, `busy` | brief, approve, run, stop, open | handlers overlap; each frees the page |
| Invitations and members (`TeamClient.tsx`, `InvitationClient.tsx`, `routes_onboarding.py`) | invitations, accounts | invite, send again, revoke, remove, follow a link, accept | checks and unconditional writes in several statements |
| Onboarding (`OnboardingClient.tsx`, `save_profile`) | the profile, the wizard | choose a type, next, complete, edit | buttons that stay enabled; answers for another type |
| Credentials (`lib/auth`, `routes_auth.py`) | password, second factor, recovery codes | sign up, sign in, verify, set up, disable, reset | a setup begun again while older answers arrive; two statements per route |
| Answer feedback and memory (`routes_admin_memory.py`, the learning consoles) | ratings, memories, cached lists | rate, promote, write, archive, approve | lists in a cache against saves |
| Compliance tasks (`routes_tasks.py`, `TasksClient.tsx`) | tasks; one cached list per filter | create, update, complete, pause, resume, delete | cached lists against changes under another filter |
| Documents page (`DocumentsScreen.tsx`) | cards, optimistic rows, the polled list | drop, upload, requeue, delete, prefetch | roll-backs to what was there before |
| Emissions page (`EmissionsScreen.tsx`, `routes_emissions.py`) | inventories, the composer, the history | compose, save, filter, select | a request that outlives its composer |
| Permits on the device (`app/ptw`, `src/lib/ptw`) | permits and signatures in SQLite, an outgoing queue | write, edit, sign, queue, delete | two statements per handler; screens left and opened again; the app killed |
| Field app (`src/lib/session`, `ask`, `cache`, `calc`) | session, documents, results in SQLite | sign in and out, ask, calculate, clear | overlapping saves that trim; users that change; restarts |
| Chat on the server (`orchestrator.py`, `answer_synthesis.py`), retrieval | none that outlives a request, besides audit and attribution | one streamed answer | text and model output |
| Calculations, emission factors, well control (`app/calc`, `app/modules`) | stored results only | formulas | floating-point numbers |
| Adapters, configuration, infrastructure | - | - | I/O and layout |

How they interact: every routes module writes the audit file through a logger
of its own; research and chat search the chunks that ingestion writes; a
deactivation in the user administration is what refresh and sign-in look at;
accepting an invitation creates the account a session starts from; a rating
refers to a turn the chat page named; the chat page, the sidebar and the
projects page write one local store; the research page drives Research Mode and
the documents page drives ingestion; the field application takes its bundled
documents and its calculations from the API and keeps its permits for itself
(it queues copies that nothing sends yet).

What makes each part correct:

* Research: only a plan that someone approved is executed, once, within its
  budget; a report is what a whole run produced; a stop stops; a deletion is
  final; no event is lost; every run ends.
* Ingestion: no record is stuck; a record has its file; a document that says
  it is done can be found, one that was deleted cannot.
* Audit: an untampered file verifies.
* Sessions: a refresh token works once; a session that ended stays ended; a
  deactivated account cannot go on; a tab loses its session through faults only.
* Chat: a message is written into its owner's thread only; what arrived is
  shown, once; no conversation is lost from the list or listed twice; what was
  entered goes out once; the page does not stay locked.
* Invitations: one invitation admits a person, once, and none brings back a
  person who was removed. Onboarding: what is completed is answered.
* Credentials: the second factor that is on is one the user has.
* Lists (tasks, memories, documents, inventories): with nothing under way the
  page shows what the server has; nothing is stored twice; nothing that was
  entered is thrown away as saved.
* Permits: a signature stays on its permit. Calculations: only older results of
  one's own tenant are dropped.

`PROJECT.json` lists every part with its files and, under `hazards`, what can
go wrong in it and at which line, with the properties that would show it.

## Modules

| Module | What it is |
|---|---|
| `ResearchLifecycle` | abstract specification of one research record |
| `Research` | the record, its requests and runs; refines `ResearchLifecycle` |
| `Ingest` | uploads, tasks, requeues and deletions |
| `AuditChain` | the loggers of one audit file |
| `Session` | refresh tokens on the server and tabs in the browser |
| `Frontend` | the constants of the models below, and the operators on functions and sequences they share |
| `Conversations` | what each setter of the conversation store makes of it (no state) |
| `Chat`, `Workspace`, `Composer`, `ResearchPage` | the chat page and its stream; sidebar and projects; the composer; the research page |
| `Learning`, `Membership`, `Onboarding`, `Accounts` | feedback and memories; invitations and members; the wizard; sign-up, second factor and reset |
| `Tasks`, `Documents`, `Emissions` | pages over cached lists, with their part of the server |
| `Permit`, `Field` | permits on the device; the rest of the field application |
| `Screens` | the thirteen models from `Chat` to `Field` side by side, for one run; `Chat` and `Workspace` share the store |
| `MC...` | model values and symmetry for TLC |
| `...Proofs` | theorems and their proofs |

### Conventions

* A call of a repository, of Redis, of the object store or of the broker is
  one atomic step; it is one SQL statement, one transaction or one command.
  Between calls another process may step. Where an event loop matters
  (`Research`), the handlers of one process do not interleave between awaits.
* A request the code refuses (404, 409, 422) changes nothing on the server and,
  in the models of the server alone, is no step. Where a page is modelled, the
  refusal is the step in which its handler hears of it.
* A handler of a page runs to its next `await` without being interrupted: it is
  one step until there, and the rest, with whatever the page shows by then, is
  another. It goes on after its page was left, as the code lets it; `here` says
  that its page is still the one that is shown. A request that is answered may
  be answered to nobody, and the answer of one that was served may be lost.
* React Query: a list is cached under its key; `invalidateQueries` marks it and
  fetches the one on the screen again, cancelling an older fetch of it, except
  the first, which has no data yet (`FirstLoad`, external). The models keep the
  cached list, the fetch under way and what it was answered.
* In the field application a statement of SQLite is one step; the app may be
  killed between any two.
* Identifiers, texts and payloads are model values. A hash is the event it was
  computed from (`uuid4` makes events distinct). The access and the refresh
  token that are minted together are one value.
* History variables say what happened, for the properties only: `sanctioned`
  (plan texts an approval stored), `lost` (ingests whose task a crash
  destroyed), `excused` (documents whose purge failed), `late` (documents
  whose chunks came after their record went), `wronged` (tabs a fault cost the
  token), `barred` (requests of an account deactivated ever since), `seen`;
  in the front ends `answer` and `by` (what became of a turn, who asked it),
  `entered`, `uses` and the composer's `late` (what was entered, how often it
  went out, what a recognition put back), `behind`, `astray`, `unseen` (changes
  the page could not know of), `overtaken` (a setup stored its secret between
  another's check and its enabling), `alone` (no other signature was being
  added), `refused` (a card whose upload was refused once).
  No guard of a modelled operation reads them. A property that holds "unless
  ..." names its exception through one of them, and each exception is an
  outcome of the code that cannot be helped there (a crash, a best-effort
  purge that failed), not one that was found to break the property.
* Bounds are constants (`MaxRequeues`, `MaxCrashes`, `MaxRestarts`, the sizes
  of `Requests`, `Ingests`, `Events`, `Pairs`, and those `Frontend` marks
  "bound") in the guards of the actions
  that consume them. `CHECK_DEADLOCK FALSE` is set everywhere because each of
  these systems may stop: all requests served, all events written, signed out.
* Operators whose comment begins with "Mutant:" are not part of a model. Each
  is a plausible mistake in the operator it stands before, and the property
  that must notice it is named in `PROJECT.json`.

### Research

State: `row` (the database row), and per request its position `pc` and the
locals of its handler (`plan`, `step`, `found`, `left`, `log`, `note`);
`loop[h]` is the request that holds the event loop of process `h`. `approve_plan`
is `ReadForDecision` and `WriteApproval` or `WriteRejection`; `run` is
`BeginRun`, `MarkRunning` and then, per step of the plan, `Gate` (the check for
a stop), `BeginStep`, `SearchInternal`, `AnnounceInternal`, `StartWeb`,
`FinishWeb`, `AnnounceWeb`, `FinishStep`, and at the end `CollectSources` and
`Complete`, or `Fail`. Each event passes through `LogRead` and `LogWrite`,
because `append_event` reads the list and writes it back. A client that goes
away raises `CancelledError` at an await (`Cancel`: the record becomes
stopped) and `GeneratorExit` at a yield (`Abandon`: it stays running). The
status of a step, the author of a plan text and the run that wrote report and
sources are kept; their texts are not.

### Ingest

State: `status` and `document` of each record, `blobs`, `batches` (how often
the chunks of an upload are in the store, whose upsert only inserts), `broker`
(waiting messages), `run` (the task of each worker, or of an API process that
runs it inline because the broker refused it) and `request` (where each admin
request is). Upload is `PutBlob`, `CreateRecord`, `Dispatch`; deletion is
`ReadForDelete`, `DropRecord`, `DropBlob`, `CheckSiblings`, `Purge`; requeue is
`ReadForRequeue`, `Reset`, `Dispatch`, in a loop for the bulk route. The task is
`Take`, `Extract`, `ReadBlob`, `Embed`, `Index`, `Finish` or `Fail`. A crash
of a worker redelivers the message (`task_acks_late`) or loses it. Modelled
with a broker; eager mode has no concurrency between task and request.

### AuditChain

`lines` is the file, `tail[p][m]` the cached hash of the logger that routes
module `m` holds in process `p`, `writing[p]` the row computed and not yet
appended. `Link` reads the tail if it is not cached and computes the row,
`AppendRow` appends it, or fails and leaves the tail. A crash may cut the line
that is being written; the next append continues the cut line, as a file
without a final newline does.

### Session

`live` is the store of refresh tokens, `root` the sign-in each token descends
from, `tab` and `timer` the browser, `request` a handler together with its
exchange over the network, so that the response may be lost (`NeverArrives`,
`Disconnect`), the store may fail before or after it acted (`IssueFails`), the
page may be loaded again with a request under way (`Reload`), and a tab that
did sign out ignores a late answer. A refresh is `FireTimer`, `Consume`,
`ReadUser`, `Issue`, `Deliver`; a logout is `Discard` and `RevokeAccess`.
The web client never calls the logout route (`SignOut` only forgets the pair);
the route is modelled all the same, called by any tab.

### Chat, Workspace and Conversations

`store` is the record `conversations.ts` writes to the local store as a whole:
the conversations with their owners, their order and the active one; each
setter is an operator of `Conversations`. `Chat` is the chat page: `stream` is
the one answer under way, a handler suspended between its events with its own
copy of the messages (`work`), the text that arrived and is not shown yet
(`buffer`, the token streamer) and whether the terminal event came. `Send`,
`ExportAnswer`, `Regenerate` and `Rate` are the page's buttons; `Token`, `Tick`
(a frame of the pacer), `ToolEvent`, `DoneEvent` and `BodyEnds` what the stream
brings; `Finish`, `StopAnswer`, `Expire` (401), `Fail` and `Reload` its ends.
Every write of the stream replaces the stored list of messages by the copy,
wherever the user is by then. `Workspace` acts on the same store from the
sidebar, the projects page and the settings: picking, renaming (an edit that
ends when the row is left), pinning, archiving, moving to a project, deleting,
clearing; `Answer` is what a stream of the chat page writes meanwhile. Both
stores outlive their user: the ids of the active conversation and project are
read under the next one, and `Mine` and `OwnProject` decide what is shown.

### Composer

The draft (`text`, `files`), `reading` (files that are being read), `voice`
(the recognition is off, on, or asked to stop and still reporting), `base` and
`heard` (`Hear` sets the text to both, so it overwrites what was typed since).
`Submit` sends the draft as it is; files still read are added to the next.

### ResearchPage

`handlers` are the page's handlers under way, at most one per `await` chain:
`Serve` is the request served, `Heard` its answer, `LastEvent` and `BodyEnds`
the run's stream, `Finally` what every handler does at the end (`busy` is
cleared, whoever set it). `current` is what Stop aborts. `server` is the
status of each run; module `Research` is the server in detail.

### Learning, Tasks, Documents, Emissions

Each is a page over a cached list and the routes behind it, so that a change,
its invalidation, the fetch and its answer are steps of their own. `Learning`
keeps ratings and memories, promotes, writes, archives and approves glossary
candidates (`GlossaryCandidates` is `extract_candidates` over its memories);
promotion checks and writes in two steps. `Tasks` has one cached list per
filter, valid until it is invalidated, and the server's transitions
(`Completed` advances a task that recurs). `Documents` has cards of dropped
files, optimistic rows that are rolled back to the table as it was when the
upload or deletion began, the list that polls while a row moves, and the row
that is fetched after an upload. `Emissions` has the composer, which can be
closed and opened again while its request is under way, and the history.
`Elsewhere...` are changes another client makes.

### Membership, Onboarding, Accounts

`Membership` follows the repository calls of two groups of handlers: the
console's (send again is `Revoke` and `CreateInvitation`) and the links'
(`CheckInvitation`, `Join`, `MarkAccepted` are three calls of
`accept_invitation`), with `Lapsed`, an invitation whose time has passed and
whose status nobody has written yet. `Onboarding` is the wizard with its calls
under way and the profile; completing is `ReadComplete` and `WriteComplete`,
around which the type may change. `Accounts` is one user, one browser: the
pages (`place`), the requests (`tries`) with the read and the write of their
route as steps (`ReadSetup`, `WritePending`; `ReadVerify`, `WriteConsumed`;
`ReadManage`, `WriteCodes`, `WriteDisabled`), the row of the account and the
secrets in the authenticator.

### Permit and Field

`Permit` has the table of permits, the queue, the screens, and `jobs`: a save
is one statement, a signature is read (`SignReads`) and written back
(`SignWrites`), and both end by showing the row (`Shows`) if their screen is
still there. `Field` has the session in SecureStore, the Ask tab (the server,
or the cache: `ListDocuments`, `SearchChunks`), and calculations whose result
is inserted (`Insert`) and whose older ones are deleted (`Trim`) in two steps.

## Runs

| Run | Instance | States | Shows |
|---|---|---|---|
| `research_one_process` | 5 requests, 1 process, 2 steps, 2 sources, 1 crash | 782,000 | nine properties and the refinement of `ResearchLifecycle` |
| `research_ends` | 4 requests, 1 process, fairness | 420,000 | `RunEnds` |
| `research_double_run` | 4 requests, 2 processes | violation | one approval is run twice |
| `ingest_two_admins` | 2 uploads of one document, 1 worker, 2 admin requests, 1 requeue, 1 crash | 1,606,000 | no record is stranded, files outlive records, chunks go with the last record |
| `ingest_one_admin` | the same with 1 admin request, fairness | 274,000 | `DoneIsSearchable`, `Settles` |
| `ingest_late_insert` | 1 upload, no crash | violation | chunks outlive a deletion |
| `audit_many_loggers` | 2 processes, 2 modules, 4 events, 1 restart each | 17,000 | rows of one logger verify; links point back; no logger forks |
| `audit_two_modules` | 1 process, 2 modules, 3 events | violation | an intact file fails verification |
| `session_one_tab` | 1 tab, 2 requests, 3 pairs | 765,000 | one holder per line, finality, loss by fault only |
| `session_retry` | 1 tab, 1 request, 2 pairs, fairness | violation | a failed refresh is not retried |
| `screens` | the thirteen models of the front ends, see below | 2,129,000 | their thirteen properties |
| `chat_regenerate` | the chat page alone | violation | an old answer stays when it is regenerated |

Why these bounds are enough to meet the interesting cases:

* Research: a record needs one request to create and one to approve it; three
  more let two runs, a run and a decision, a stop and a deletion overlap, and
  the second step and second source are what a stop "between steps" and a
  budget "over two calls" are about. A second process is needed for the double
  run only. One crash is one dead run; a second adds nothing that one record
  could tell apart.
* Ingestion: siblings need two uploads of one document, races of deletions two
  admin requests, a double run two messages of one upload, which one requeue
  makes; an inline task runs beside the single worker's.
* Audit: two loggers in each of two processes are the smallest number for each
  kind of overlap (same process, other process); four rows let a row follow a
  fork.
* Sessions: a line of tokens meets itself only through the requests that
  present its tokens, and lines of two sign-ins share nothing but the account,
  so one tab with two requests shows every race; three pairs are a sign-in, its
  rotation and a second rotation, or a second sign-in.
* Screens: `page` chooses in the initial state which model steps, and the others
  keep their initial state, so one run checks thirteen models and no product of
  them. Their states: chat 445,000, research 388,000, permits 243,000, composer
  178,000, workspace 169,000, tasks 139,000, documents 132,000, membership
  121,000, learning 105,000, accounts 82,000, emissions 50,000, field 47,000,
  onboarding 28,000. The bounds let each race happen once: two users of one
  browser, two conversations, two turns and a chunk each (a stream in one, the
  user in the other); two files of which one fits; two research runs under two
  handlers; three memories under one save (a promotion, a glossary entry, and
  one archived elsewhere); two invitations of one address under two visits; two
  secrets under two requests (a setup and the one begun after it); two handlers
  of the wizard; one task with two changes under two filters; one card and one
  document under two mutations; one inventory of two sources; one permit with
  two texts and two signatures; three results of which one is kept. A type of
  thing that would need a third of its kind to go wrong (three tabs, three
  overlapping uploads) is beyond them.

### Fairness

`research_ends` assumes that the event loop resumes a handler that is ready
and that the search and the model call return or raise (the search has a
timeout). `ingest_one_admin` assumes that a process goes on with the task or
request it began, and that a message that waits is eventually taken: the queue
is first in, first out and the worker takes the next message when it is free.
`session_retry` assumes that handlers finish, responses that were not lost
arrive and timers fire. Nothing is assumed of clients, administrators, crashes
or faults, and nothing assumes that a fault does not happen. No strong
fairness is used. `screens` states none: its properties are about what may never
be shown or stored, and what a page waits for is a user's or the network's to do.

### Properties worth explaining

* `ExecutesSanctionedPlan`, `CompletedIsConsistent`: the runner writes its own
  copy of the whole plan over the row at every step. That is harmless only
  because no one else may change the plan of a running record, which is what
  the checks of `approve_plan` and `run` achieve within one process; the first
  holds for any number of processes, the second for one.
* `ImplementsLifecycle`: the row of one process refines `ResearchLifecycle`. A
  completion after a stop is a step of the abstract specification: the code
  looks for a stop between the steps of the plan only, and `NoStepAfterStop`
  says what that amounts to.
* `NothingStrands`: the routes requeue queued and failed records only, so a
  record left extracting or embedding with no task would stay so for ever.
* `ChunksGoWithLastRecord` against `DeletionPurges`: whether siblings deleted
  together both think the other remains; and, in the second, whether a task
  under way puts chunks back.
* `DoneIsSearchable`: a purge must not take the chunks of a sibling.
* `OneHolder`, `EndedStaysEnded`, `LogoutEnds`: rotation never makes two
  successors and never revives a line.
* `SpentOnlyByFault`: rotation consumes the old token before the client has
  the new one, so a tab may be left with a spent one. Only a lost response, a
  failed store or the token's age may do that.
* `OwnTurnsOnly`: a stream keeps the owner it was asked by and writes with it,
  so a conversation that was deleted comes back as that owner's, not as the
  present user's.
* `ShowsWhatArrived`: the terminal event waits for the buffer; an error flushes
  it; a stop drops it. It also says that an answer that looks alive has a stream
  (`StreamingHasStream`), unless the page was loaded again or the body ended
  early.
* `OrderIsComplete`: the sidebar's order and the map of conversations are two
  structures that every setter changes together.
* `SentOnce`: of the composer, that what was entered is in one message at most,
  but for what a recognition puts back after it was asked to stop; of the
  documents page, that a card that can be submitted has no document yet, but
  for one whose refusal was the loss of an answer.
* `LockIsHeld`: every handler's `finally` frees the page, also the one a stop
  overtook, and none leaves it locked.
* `ListIsCurrent` (memories, tasks, inventories): with no fetch and no save under
  way the list shown is the server's. The exceptions are changes made elsewhere,
  answers that were lost, and a save during the first load, whose fetch is not
  cancelled (`FirstLoad`), which TLC pointed out.
* `DraftIsSent`: closing the composer after a success closes whichever composer
  is open; that loses nothing because a new one cannot be filled while a request
  is under way (`Editable`).
* `OneAdmission`, `CompletedHasAnswers`, `SecretIsInApp`: checks and writes of
  the routes are separate calls; what keeps them right is that an account is
  made once per address, that answers are never removed and the type is part of
  the check and of the write, and that a code proves the secret it was sent for.
  `SecretIsInApp` has one exception, `overtaken`, which the two steps of
  `activate_2fa` leave open.
* `SignaturesKept`: an edit keeps the signatures of a row; two signatures added
  at once may lose one (`alone`).
* `NewestResultsKept`: a trimming is of the tenant that saved, whoever is signed
  in when it runs.

### Findings

Five runs end in a counterexample, each to something the repository says of
the code; `PROJECT.json` quotes the lines.

1. `research_double_run`: with two API processes, `run` reads "approved" in
   both before either writes "running". A conditional update would do.
2. `ingest_late_insert`: a document deleted while its task embeds it keeps its
   chunks in the index, with no record left to delete them by.
3. `audit_two_modules`: two routes modules of one process have a logger and a
   cached tail each, so the second row of the first does not continue the row
   of the other, and `verify_chain` reports a break.
4. `session_retry`: after a refresh that failed in transit nothing sets the
   timer again; the session lasts until its access token expires although its
   refresh token is good.
5. `chat_regenerate`: "Regenerate" cuts the stored conversation and then sends
   from the messages the page was rendered with, so the old answer stays, and
   the question is there twice.

What the runs do not claim: with two API processes events of a research
record can be lost and `AtMostOneRun` and `CompletedIsConsistent` fail (they
follow from the double run); a requeue of a record whose message still waits
inserts its chunks twice. The model shows both and no document promises
otherwise, so they are hazards in `PROJECT.json`, not findings.

## Proofs

All theorems hold for every number of requests, processes, workers, tabs and
tokens, and of users, conversations, chunks, handlers, documents, tasks,
invitations, secrets, inventories, permits and results,
from the assumptions named in the modules (`ConstantsAssumption`: the
value `None` is not an identifier, bounds are natural numbers, workers are not
admin requests). TLC evaluates the assumptions on every run. Six theorems need
an assumption more, as the runs of the properties do, and say so in their
statements: `OneProcess` (all of `Hosts` are one API process) and `OneAdmin`
(one admin request at a time).

| Theorem | States | Argument |
|---|---|---|
| `TypeCorrect` (in each proof module of the server) | `TypeOK` | inductive as it stands for `Research`, `Ingest` and `AuditChain`; in `Session` it needs `Shape`, since what a request carries must have been minted |
| `Governed` (`ResearchProofs`) | `ExecutesSanctionedPlan` | `SanctionInv`: an approved row carries a sanctioned plan, so a run that reads one copies a sanctioned plan; and `RunnerInv`: whoever is inside `run` is a run request, so no decision's plan is mistaken for a runner's |
| `WithinBudget` | `SourceBudget` | each call takes at most what remains |
| `DeletionIsFinal` | `DeletedStaysDeleted` | every write is an update of an existing row, and none creates it twice |
| `ReportsAreEarned` | `ReportIsEarned` | `Progress`: the steps before the one a run is at are completed, and at the synthesis all are; `Earned`: whoever stored the report is past it and touches its plan no more |
| `RunsOnce`, `StopIsObeyed` | `AtMostOneRun`, `NoStepAfterStop` | from `OneProcess`. `Held`: a handler that looked at the record and has not written yet holds the event loop, so (`Alone`) while one request acts no other is at such a place. `OneRunInv`: what a handler has just seen of the record still holds when it writes, a run's record is running, stopped or deleted, and a new run needs an approved one |
| `EventsAreKept` | `EventsOnlyGrow` | from `OneProcess`: the list that an event is appended to is the row's (`Agrees`) |
| `CompletedIsWhole` | `CompletedIsConsistent` | from `OneProcess`: `Ledger` over `OneRunInv` and `EarnedInv`: the run that completes has just stored its plan (`Agrees` at the synthesis), and nobody outside `run` writes a completed record but to delete it |
| `LifecycleIsKept` | `ImplementsLifecycle` | from `OneProcess`: under `OneRunInv` each action is an action of `ResearchLifecycle` or a stutter; a late write of a run to a deleted record is one |
| `NeverStranded` (`IngestProofs`) | `NothingStrands` | `InlineIsOwn`: a request whose process runs a task waits for that very ingest. Without it an inline task could end and leave a record that the request does not attend. Then each action either keeps the message, task or dispatch of an ingest, or hands it on, or ends it with a final status |
| `FilesOutliveRecords` | `RecordHasBlob` | `CreatesOnce` (a record is created by the one request that stored its blob) and `DropsAreFinal` (once a deletion has dropped a record it stays dropped, so removing the blob is safe) |
| `ChunksGo` | `ChunksGoWithLastRecord` | `BlobInv` again, since a dropped record stays dropped: a deletion that has dropped the record and not yet purged is `Purging`; one that finds siblings leaves a live record behind, whose own deletion has the look at siblings before it; a task that inserts for a record that is gone makes its document `late` |
| `DoneIsFound` | `DoneIsSearchable` | from `OneAdmin`. `SearchInv`: a deletion that is about to purge has no live sibling, since nobody else can upload meanwhile; so a purge takes chunks of dropped records only, and a task past its insert has chunks while its record lives |
| `OneWriterVerifies` (`AuditChainProofs`) | `SoleWriterVerifies` | `ChainInv`: while all rows are one logger's, its cached tail is unread or the end of the file, and the row it is about to append names that end; `OwnRows`: a process appends rows of its own loggers |
| `ForestGrows` | `LinksPointBack` | `Anchored`: what a row, a cached tail or a row about to be written names is a whole row of the file above it; a crash cuts only a line that is being written, which nothing names yet |
| `NeverForks` | `NoLoggerForks` | `Unforked`: the tail a logger remembers is continued by none of its rows. Appending moves the tail to the new row, and `Unwritten` (the event about to be written is in no row) with `Anchored` says that no row can name it; `Authors`: a row about to be written is of its process's present logger |
| `SingleHolder` (`SessionProofs`) | `OneHolder` | inductive on `Shape`: every step drops holders of a line, or moves one from the store to a request, or mints the next for the request that held it |
| `EndedForGood`, `LogoutIsFinal` | `EndedStaysEnded`, `LogoutEnds` | the same classification of steps: a line without a holder has nothing to mint from; a logout that took the token took the only holder |
| `SpentIsExplained` | `SpentOnlyByFault` | `Fresh`: a pair on its way to a tab is in the store and nobody has it yet; `Owned`: no two tabs hold one pair, and what a request presents is held by the tab that waits for it or by one a fault has parted from it; so only a request that its tab attends can spend the tab's token |
| `DeactivatedRefused` | `DeactivatedNeverMints` | `BarredInv`: a barred request has not passed the look at the account, which is not active |
| `TypeCorrect` (`ScreensProofs`) | `TypeOK` of the screens | from the types of each model, most of which need more than their types: what is under way must fit what it will meet (`JobOK`, `Known`, `DocRecords`) |
| `OrderStaysComplete` (`DeskProofs`) | `OrderIsComplete` | `StoreOK`: the order is a sequence of the conversations, without repetition, that names each. One lemma per setter of the store says that it keeps this (`DeleteKeeps`, `SetMessagesKeeps`, ...), over the lemmas on `Filter`; what is counted in the sidebar follows from the bijection between an order's positions and its elements |
| `TurnsStayWithTheirOwner` | `OwnTurnsOnly` | `ChatInv`, which proves both of these. `WorkOK`: what a stream's copy holds is its owner's, and if its conversation is there it is that owner's too; so a write that makes a deleted conversation again makes it the owner's (`Written`), and the user who sends owns the conversation that is open (`BaseIs`) |
| `AnswersShowWhatArrived` | `ShowsWhatArrived` | `StreamOK`: in the stream's copy, what is shown and what waits in the buffer are together what arrived, and only the stream's own answer may change; `StoredOK`: no stored answer shows more than arrived, and one that is live has the stream that settles it. Each end of a stream empties the buffer or marks the answer as stopped or lost |
| `NothingGoesTwice` | `SentOnce` | for the composer `Closed`, `WasEntered`, `ReadOnce` and `UsedOnce`: a piece that went out has left the text, the attachments, the files that are being read and what the recognition holds; no file is read for two selections at once. For the documents page the property is inductive over `ShelfTypes` |
| `LockIsFreed` (`PagesProofs`) | `LockIsHeld` | inductive over the types and `RunsAreKnown`, `JobOK`: a handler that will free the page acts on a run the server has, so nothing keeps it from ending |
| `ListsStayCurrent` | `ListIsCurrent` | one invariant per list, `NoOlderView`, `NoOlderTable` and `NothingMissed`: with no served request whose answer is awaited, both the shown list and an answer on its way are what the server has. They say more than the property, of fetches under way and of the lists of other filters, which is what makes them inductive; the tasks page needs `FetchedForNeed` too |
| `DraftIsNeverLost` | `DraftIsSent` | `PeriodIsSent`, and that inventories are only appended: while a request is under way the composer holds what it sent, or is closed, or was opened anew and cannot be filled |
| `AdmittedOnce` (`OfficeProofs`) | `OneAdmission` | `Admitted`: while there is no account nobody has joined and nothing was accepted; a visit that has joined and not yet marked its invitation is the only one, so no second acceptance is written |
| `RemovalHolds` | `RemovedStaysOut` | `Join` makes an account only where there is none |
| `SetUpIsAnswered` | `CompletedHasAnswers` | `ReadIsAnswered`: a completion that read its answers carries a type whose answers are stored, and answers are never removed; `FilledHasType`: what a request saves as answered is of the type it carries |
| `SecondFactorIsUsable` | `SecretIsInApp` | `Known`: a code that was sent is of a secret in the authenticator, which forgets none, and a request that is about to enable carries such a secret, which is the stored one unless a setup overtook it |
| `SignaturesAreKept` (`ScreensProofs`) | `SignaturesKept` | `AllAreRead`: a handler that adds a signature and is alone has read every signature of its permit; `AloneIsAlone`: of two for one permit neither is. Saving a text keeps the signatures of the row as it is then |
| `NewestResultsAreKept` | `NewestResultsKept` | `DeviceInv`: the results are finitely many and no two have one time. Then what is not among the newest has all of them before it (`TopIsNewer`), and of `MaxPerTenant` results or more the newest are exactly that many (`TopHas`, by induction on their number) |

The theorems on the screens are about the `Spec` of `Screens`, the same that the
run `screens` checks, and so state its properties for every value of the
constants. For a screen with variables of its own this is a step of refinement
(`ImplementsComposer` and the like): seen at those variables, a behaviour of
`Screens` is one of the screen's `Spec`. The conversation store is shared by
`Chat` and `Workspace`, and the user of the field application by `Permit` and
`Field`; there the invariant (`StoreInv`, `MobileInv`) says what holds on which
screen, and a step of one is none of the other. `OfficeProofs`, `DeskProofs`
and `PagesProofs` stand for themselves, `ScreensProofs` joins them.
`RemovedStaysOut` is proved only.

Two assumptions on `None` are those of the models' data: `StreamAssumption` (it
is no stream) and `PostingAssumption` (it is no number of an inventory and no
request). Each says that null is told apart from a record or a number.

The proofs are laid out one step per action; what several actions share (moving
a request, appending an event, storing a token) is a lemma that the steps cite.

Data that grows by one is written with `Put`, and what is kept of a sequence with
`Filter`, a recursive function in `Frontend`: both are definitions the provers
can open. What `Filter` returns is proved (`FilterKeeps`: the elements of the
sequence that are in the set, each as often as it was there) by induction over
the numbers, which `Induct` derives from the well-foundedness of `<` for a set
in place of a predicate. `ServerRows` of `Documents` is treated the same way
(`RowsAreRows`). An instance has its own copies of the operators that it takes
from other modules; `ChatCopies`, `SidebarCopies`, `ShelfFilters` and
`DeviceCounts` say that they are the same.

What stays with TLC: the liveness properties `RunEnds` and `Settles`,
and `TransientIsRetried` of a finding (fairness and ENABLED are out of the
prover's reach). Every other property of the passing runs is stated by a
theorem. No module declares a RECURSIVE operator.

## What is not modelled

* Of the modelled parts: the wording of reports and the ranking of sources, the
  export; validation of files, extraction and chunking of text, eager mode;
  redaction and edits of the audit file by others; claims, passwords and
  lifetimes of tokens beyond live and expired; the fallback of each process to
  memory when Redis is absent.
* Of the pages: texts and layout, formatting and citations, shortcuts and
  popovers, the canvas, sharing, exports (they change nothing), two tabs that
  overwrite each other's local store. What each model leaves out of its page is
  said in its first comment and in the note of its component.
* Of their routes: validation of texts, departments and roles, lockouts and
  times of validity (they need a clock), chunk weights (floating-point numbers),
  calendars (the next run of a task is a number here), two requests for one
  task on two replicas, row-level security.
* Whole parts, with the reason, are the components with status `not_modelled`
  in `PROJECT.json`. Chat on the server, retrieval, templates and reports are
  text; the calculations and the emission engine are floating-point formulas
  without state, which their unit tests cover better than a model over integers
  would; adapters, configuration, infrastructure and the pages that only show
  what they fetched are I/O and layout.

## Hazards beyond the list

`PROJECT.json` lists the hazards that have a property and the most serious ones
that have none yet. These were also met, and say what a test or a later model
should look at.

Server:

* `app/rag/vectorstore.py:39`: upsert only inserts: re-uploading a document to
  refresh it leaves the chunks of the old revision searchable next to the new
  ones.
* `app/core/audit_sink.py:150`: a put that was already accepted is retried
  with the expected sequence token and the row is shipped twice.
* `app/db/audit_events_repository.py:186`: local backend: two repository
  objects, each with a lock of its own, compute the same next id.
* `app/api/routes_auth.py:294`: two sign-ups with one email both pass the
  check; the tenants differ, so the unique index per tenant does not stop the
  second.
* `app/api/routes_auth.py:565`: two verifications with recovery codes read one
  list and each writes it back without its own code.
* `app/api/routes_auth.py:635`: setup writes a new secret and switches 2FA off
  on the strength of an earlier read, behind a concurrent activation. The
  answer to an activation may be lost, and the recovery codes with it.
* `app/core/auth_lockout.py:73`: the window of failures is renewed by each, so
  failures further apart than the window may add up.
* `app/api/routes_onboarding.py:457`, `:492`, `:528`: sending again revokes and
  then creates, and a failure in between leaves neither; the DELETE route
  revokes an accepted invitation; two invitations of one address from two
  organizations both pass the look-up. Postgres, unlike the local backend, also
  allows several pending invitations of one address.
* `app/api/routes_onboarding.py:574`, `:727`: the owner may give up the owner's
  role, so that none is left; two requests merge a change into one earlier read
  of the tenant's attributes.
* `app/db/tasks_repository.py:296`: the patch of a completed one-off task
  cannot clear next_run_at (None is skipped), so a later resume makes it due at
  a date long past; a changed due date does not move the next run.
* `app/core/task_service.py:264`: a monthly task of the 31st moves to the 28th
  after February and stays there.
* `app/api/routes_tasks.py:126`: creating a task writes task, digest, link,
  audit rows and notification one after the other.
* `app/api/routes_chat.py:525`, `app/core/turn_attribution.py:149`: a rating
  that is sent again moves the chunk weights again; one that comes late, or
  reaches another replica without Redis, moves none.
* `app/api/routes_admin_memory.py:64`, `:225`: a term that was approved inside
  a sentence is suggested again, although the comment says approved terms are
  filtered out; the rating is read before the memory is created, and promoting
  twice creates two.
* `app/db/permits_repository.py:136`: the server's upsert keeps whatever came
  last, not what was edited last.
* `app/core/http_hardening.py:162`: the shared limiter counts in fixed windows:
  a burst across a boundary passes twice the limit.

Web application:

* `ChatClient.tsx:1493`: a stream that ends without `done`, or a reload, leaves
  its answer streaming for ever (`lost` in the model). A conversation deleted
  under its stream comes back, outside its project. A rating is overwritten by
  the copy a stream holds.
* `ProjectsClient.tsx:399`: the conversations of a deleted project keep its id
  and are listed nowhere; another user's active project id hides the list.
* `ChatComposer.tsx:301`: the limit of attachments is tested before files under
  way arrive; files that arrive late belong to the next message.
* `ResearchClient.tsx:151`, `:247`, `:251`, `:273`: the first list overwrites a
  newer history; "stopped" marks whichever run is shown; an older handler's end
  frees the page for a run under way; a failed run stays "running".
* `TasksClient.tsx:59`: a success closes whichever dialog of its kind is open;
  the form of an edit sends its whole snapshot.
* `AdminLearningClient.tsx:802`: the glossary list is not invalidated by adding
  or archiving a memory; a lost answer leads to a second memory, as it does to a
  second inventory on the emissions page.
* `DocumentsScreen.tsx:107`, `:347`: an upload's row may be there twice after a
  poll; a prefetch puts a deleted row back.
* `TeamClient.tsx:100`: refreshes are answered out of order; role changes and
  removals ignore `busy`. `OnboardingClient.tsx`: to edit a completed profile
  sets it back to "in progress". `AuthForm.tsx`: a sign-up that is given up
  after a minute may have succeeded.

Field application:

* `ptw/repository.ts:48`: an edit keeps the signatures of the older text;
  `:96`: two signatures at once leave one; `:115`: nothing sends the queue. A
  save that ends after a deletion makes the row again.
* `app/ptw/new.tsx:81`: a permit that is generated after its form was left opens
  over whatever is shown; `app/(tabs)/ptw.tsx:40`: the list is not read again.
* `cache/sync.ts:94`, `cache/database.ts:12`: documents of a snapshot are
  written one by one; a failed opening of the database is what every later call
  awaits. After `clearCache` the bundled documents are not seeded again, although
  `logs.tsx:82` says they answer offline.
* `session/store.ts:56`: two changes of preferences at once leave one.

## Plan

The parts with state whose order matters are modelled. What is left, in this
order:

1. `Tasks` with two replicas, whose overlapping completions move the recurrence
   by one; `advance_next_run` as a function over a small calendar.
2. The lockout and the rate limits, with a clock; the audit table and its copy.
3. Two tabs over one local store, for `Chat` and `Workspace`.
