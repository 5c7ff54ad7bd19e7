----------------------------- MODULE Documents -----------------------------
(***************************************************************************)
(* The administrator's documents page (apps/web/app/admin/documents,       *)
(* components/DocumentsScreen.tsx): files that wait for their metadata,    *)
(* uploads and deletions that show in the table before the server has      *)
(* answered and are rolled back when it refuses, requeues, and the list    *)
(* that is fetched again while a row of it still moves (polling.ts).       *)
(*                                                                         *)
(* The server is here what the page sees of module Ingest: a document is   *)
(* stored, is ingested, at once when the ingest runs inline, and may be    *)
(* deleted.  Metadata, assets and the filters of the table are left out.   *)
(***************************************************************************)
EXTENDS Frontend, Integers

VARIABLES
    ingests,     \* the server's records: what becomes of each, and of which card it is
    cards,       \* the files dropped: what becomes of the card of each, once refused or not
    table,       \* the cached list of rows
    poll,        \* the fetch of the list
    uploads,     \* uploadMutation: the uploads under way, each with what it would restore
    again,       \* requeueMutation, requeueStuckMutation: those under way
    removal,     \* deleteMutation: the deletion under way, or None
    prefetches   \* single rows that are fetched after an upload

vars == <<ingests, cards, table, poll, uploads, again, removal, prefetches>>
server == ingests
page == <<table, poll>>
mutations == <<uploads, again, removal>>

Ids == 1..MaxDocs
Cards == 1..MaxCards
Moving == {"queued", "running"}
Stuck == {"queued", "failed"}   \* REQUEUEABLE

Row(i) == [id |-> i, status |-> ingests[i].status]
Stored == {i \in DOMAIN ingests : ingests[i].status # "deleted"}
\* The rows of the list, the newest first.
ServerRows ==
    LET upTo[n \in 0..MaxDocs] ==
          IF n = 0 THEN <<>>
          ELSE IF n \in Stored THEN <<Row(n)>> \o upTo[n - 1] ELSE upTo[n - 1]
    IN  upTo[MaxDocs]

\* makeOptimisticRow: the row of an upload, without a record on the server.
Optimistic(c) == [id |-> -c, status |-> "queued"]
Without(rows, id) == Filter(rows, {r \in Elements(rows) : r.id # id})

\* Bound: mutations that are under way at once.
Free == Cardinality(uploads) + Cardinality(again) + (IF removal = None THEN 0 ELSE 1) < MaxHandlers

Idle == [at |-> "idle", rows |-> <<>>]
Sent == [at |-> "sent", rows |-> <<>>]

Init ==
    /\ ingests = <<>> /\ cards = <<>>
    /\ table = <<>> /\ poll = Sent
    /\ uploads = {} /\ again = {} /\ removal = None /\ prefetches = {}

-----------------------------------------------------------------------------
(* The server. *)

\* The worker: extracting and embedding are "running".
Ingested(i) ==
    /\ i \in Stored /\ ingests[i].status \in Moving
    /\ \E s \in {"running", "done", "failed"} :
          /\ s = "running" <=> ingests[i].status = "queued"
          /\ ingests' = [ingests EXCEPT ![i].status = s]
    /\ UNCHANGED <<cards, page, mutations, prefetches>>

\* What an ingest that is begun has come to when the request is answered: queued,
\* or already run.
Begun == {"queued", "done", "failed"}

-----------------------------------------------------------------------------
(* The list. *)

\* shouldKeepPolling: while a row moves; a fetch under way is not begun again.
Poll ==
    /\ poll = Idle
    /\ \E k \in DOMAIN table : table[k].status \in Moving
    /\ poll' = Sent
    /\ UNCHANGED <<ingests, cards, table, mutations, prefetches>>

PollServed ==
    /\ poll = Sent
    /\ poll' = [at |-> "answered", rows |-> ServerRows]
    /\ UNCHANGED <<ingests, cards, table, mutations, prefetches>>

PollEnds ==
    /\ poll # Idle
    /\ \/ poll.at = "answered" /\ table' = poll.rows
       \/ UNCHANGED table
    /\ poll' = Idle
    /\ UNCHANGED <<ingests, cards, mutations, prefetches>>

-----------------------------------------------------------------------------
(* Uploads. *)

\* addPending; the drop zone is closed while the latest upload is under way.
Drop ==
    /\ Len(cards) < MaxCards /\ ~\E u \in uploads : u.latest
    /\ cards' = Append(cards, [at |-> "open", refused |-> FALSE])
    /\ UNCHANGED <<ingests, page, mutations, prefetches>>

\* A card's controls are disabled while it is submitted.
Open(c) == cards[c].at = "open"

CancelCard(c) ==
    /\ Open(c)
    /\ cards' = [cards EXCEPT ![c].at = "gone"]
    /\ UNCHANGED <<ingests, page, mutations, prefetches>>

\* onMutate: a fetch of the list is cancelled, the row is shown ahead of the rest.
Submit(c) ==
    /\ Open(c) /\ Free /\ Len(table) < MaxDocs + MaxCards
    /\ uploads' = {[u EXCEPT !.latest = FALSE] : u \in uploads}
                  \cup {[card |-> c, id |-> None, previous |-> table, latest |-> TRUE]}
    /\ cards' = [cards EXCEPT ![c].at = "submitting"]
    /\ table' = <<Optimistic(c)>> \o table
    /\ poll' = Idle
    /\ UNCHANGED <<ingests, again, removal, prefetches>>

\* uploadAdminDocument, served; the answer is the row as it is then.
Store(u) ==
    /\ u.id = None /\ Cardinality(DOMAIN ingests) < MaxDocs
    /\ \E s \in Begun :
         LET i == Cardinality(DOMAIN ingests) + 1 IN
         /\ ingests' = Put(ingests, i, [status |-> s, card |-> u.card])
         /\ uploads' = (uploads \ {u}) \cup {[u EXCEPT !.id = [id |-> i, status |-> s]]}
    /\ UNCHANGED <<cards, page, again, removal, prefetches>>

UploadSucceeds(u) ==
    /\ u.id # None
    /\ uploads' = uploads \ {u}
    /\ cards' = [cards EXCEPT ![u.card].at = "gone"]
    /\ table' = <<u.id>> \o Without(table, -u.card)
    /\ prefetches' = prefetches \cup {[id |-> u.id.id, row |-> None]}
    /\ UNCHANGED <<ingests, poll, again, removal>>

\* Refused, or not served, or served and the answer lost: the table goes back to
\* what it was before the upload, whatever happened to it since.
UploadFails(u) ==
    /\ uploads' = uploads \ {u}
    /\ cards' = [cards EXCEPT ![u.card] = [at |-> "open", refused |-> TRUE]]
    /\ table' = u.previous
    /\ UNCHANGED <<ingests, poll, again, removal, prefetches>>

PrefetchServed(p) ==
    /\ p.row = None
    /\ prefetches' = (prefetches \ {p}) \cup
         (IF p.id \in Stored THEN {[p EXCEPT !.row = Row(p.id)]} ELSE {})
    /\ UNCHANGED <<ingests, cards, page, mutations>>

\* prefetchIngestStatus: the first row of the document is replaced, or the row is
\* put ahead of the list when there is none.
PrefetchArrives(p) ==
    /\ prefetches' = prefetches \ {p}
    /\ \/ UNCHANGED table
       \/ /\ p.row # None
          /\ LET at == {k \in DOMAIN table : table[k].id = p.id} IN
             table' = IF at = {} THEN <<p.row>> \o table
                      ELSE [table EXCEPT ![CHOOSE k \in at : \A l \in at : k <= l] = p.row]
    /\ UNCHANGED <<ingests, cards, poll, mutations>>

-----------------------------------------------------------------------------
(* Requeues and deletions. *)

Shows(i, statuses) == \E k \in DOMAIN table : table[k].id = i /\ table[k].status \in statuses

\* "Requeue" of a row, or of all that are stuck, which is not offered meanwhile.
Requeue(i) ==
    /\ Free /\ Shows(i, Stuck) /\ ~\E q \in again : q.id # None
    /\ again' = again \cup {[id |-> i, to |-> None]}
    /\ UNCHANGED <<ingests, cards, page, uploads, removal, prefetches>>
RequeueStuck ==
    /\ Free /\ again = {} /\ \E i \in Ids : Shows(i, Stuck)
    /\ again' = {[id |-> None, to |-> None]}
    /\ UNCHANGED <<ingests, cards, page, uploads, removal, prefetches>>

\* The server refuses what is not stuck.
RequeueServed(q) ==
    LET targets == {i \in Stored : ingests[i].status \in Stuck /\ q.id \in {i, None}} IN
    /\ q.to = None /\ targets # {}
    /\ \E s \in Begun :
          /\ ingests' = [i \in DOMAIN ingests |->
                           IF i \in targets THEN [ingests[i] EXCEPT !.status = s] ELSE ingests[i]]
          /\ again' = (again \ {q}) \cup {[q EXCEPT !.to = s]}
    /\ UNCHANGED <<cards, page, uploads, removal, prefetches>>

\* onSettled: the list is fetched again.
RequeueEnds(q) ==
    /\ again' = again \ {q}
    /\ \/ UNCHANGED table
       \/ /\ q.to # None /\ q.id # None
          /\ table' = [k \in DOMAIN table |->
                         IF table[k].id = q.id THEN [table[k] EXCEPT !.status = q.to] ELSE table[k]]
    /\ poll' = Sent
    /\ UNCHANGED <<ingests, cards, uploads, removal, prefetches>>

\* handleDelete, confirmed: the row is dropped before the server has answered.
Delete(i) ==
    /\ Free /\ removal = None /\ \E k \in DOMAIN table : table[k].id = i
    /\ removal' = [id |-> i, previous |-> table, at |-> "sent"]
    /\ table' = Without(table, i)
    /\ poll' = Idle
    /\ UNCHANGED <<ingests, cards, uploads, again, prefetches>>

DeleteServed ==
    /\ removal # None /\ removal.at = "sent" /\ removal.id \in Stored
    /\ ingests' = [ingests EXCEPT ![removal.id].status = "deleted"]
    /\ removal' = [removal EXCEPT !.at = "done"]
    /\ UNCHANGED <<cards, page, uploads, again, prefetches>>

DeleteEnds ==
    /\ removal # None
    /\ \/ removal.at = "done" /\ UNCHANGED table
       \/ table' = removal.previous
    /\ removal' = None
    /\ poll' = Sent
    /\ UNCHANGED <<ingests, cards, uploads, again, prefetches>>

-----------------------------------------------------------------------------
Next ==
    \/ \E i \in Ids : Ingested(i)
    \/ Poll
    \/ PollServed
    \/ PollEnds
    \/ Drop
    \/ \E c \in DOMAIN cards : CancelCard(c)
    \/ \E c \in DOMAIN cards : Submit(c)
    \/ \E u \in uploads : Store(u)
    \/ \E u \in uploads : UploadSucceeds(u)
    \/ \E u \in uploads : UploadFails(u)
    \/ \E p \in prefetches : PrefetchServed(p)
    \/ \E p \in prefetches : PrefetchArrives(p)
    \/ \E i \in Ids : Requeue(i)
    \/ RequeueStuck
    \/ \E q \in again : RequeueServed(q)
    \/ \E q \in again : RequeueEnds(q)
    \/ \E i \in Ids : Delete(i)
    \/ DeleteServed
    \/ DeleteEnds

Spec == Init /\ [][Next]_vars

-----------------------------------------------------------------------------
(* Properties. *)

TypeOK ==
    /\ DOMAIN ingests \subseteq Ids
    /\ \A i \in DOMAIN ingests :
          ingests[i] \in [status : {"queued", "running", "done", "failed", "deleted"}, card : Cards]
    /\ cards \in Seq([at : {"open", "submitting", "gone"}, refused : BOOLEAN])
    /\ \A k \in DOMAIN table :
          /\ table[k].id \in Ids \cup {-c : c \in Cards}
          /\ table[k].status \in {"queued", "running", "done", "failed"}
    /\ poll.at \in {"idle", "sent", "answered"}
    /\ \A u \in uploads : u.card \in Cards /\ u.latest \in BOOLEAN
    /\ \A q \in again : q.id \in Ids \cup {None} /\ q.to \in Begun \cup {None}
    /\ removal # None => removal.id \in Ids /\ removal.at \in {"sent", "done"}
    /\ \A p \in prefetches : p.id \in Ids

\* A card that can be submitted, and was never shown as refused, has neither a
\* document on the server nor an upload under way, however uploads overlap and
\* whatever they roll the table back to: nothing is stored twice.
StoredOnce ==
    \A c \in DOMAIN cards : cards[c] = [at |-> "open", refused |-> FALSE] =>
       /\ \A u \in uploads : u.card # c
       /\ \A i \in DOMAIN ingests : ingests[i].card # c
=============================================================================
