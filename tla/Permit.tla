------------------------------- MODULE Permit -------------------------------
(***************************************************************************)
(* Permits to work on the field device: the form (app/ptw/new.tsx), the    *)
(* list (app/(tabs)/ptw.tsx), the permit's screen (app/ptw/[id].tsx) and   *)
(* the SQLite rows under them (src/lib/ptw/repository.ts).                 *)
(*                                                                         *)
(* A statement of SQLite is one step; a handler is suspended at every      *)
(* await and goes on after its screen was left, so that handlers started   *)
(* from one permit's screen and from the same screen opened again overlap. *)
(* Every principal is of a tenant of its own.  A permit's text is the      *)
(* number of the edit that produced it.  PDF export changes nothing and is *)
(* left out, and so is a second handler of one visit to a screen: its      *)
(* buttons are disabled meanwhile.                                         *)
(***************************************************************************)
EXTENDS Frontend

Roles == {"permit_issuer", "performing_authority"}
Required == {"job_description", "location"}

VARIABLES
    principal,   \* who is signed in, or None
    screen,      \* list, new or detail
    form,        \* the form: the required fields that are filled, its chips
    list,        \* what the list's screen shows, None before it was read
    shown,       \* the permit's screen: its copy of the row, or None
    rows,        \* the table permits
    queue,       \* the table outgoing_queue: copies of permits; nobody reads it
    jobs,        \* handlers under way
    given,       \* permits given out so far
    edits,       \* texts so far
    signs        \* signatures so far

vars == <<principal, screen, form, list, shown, rows, queue, jobs, given, edits, signs>>
table == <<rows, queue>>
counters == <<given, edits, signs>>

Permits == 1..MaxPermits

Signature(n, role) == [n |-> n, role |-> role]
Row(p, tenant, text) ==
    [id |-> p, tenant |-> tenant, text |-> text, status |-> "draft_unsigned", sigs |-> {}]
Blank == [filled |-> {}, chips |-> {}]

\* kind: what the handler does; at: its next step; here: its screen is still
\* shown; alone is history: no other signature was being added meanwhile.
Job(kind, at, p, who, text, sig, read) ==
    [kind |-> kind, at |-> at, id |-> p, who |-> who, text |-> text,
     sig |-> sig, read |-> read, here |-> TRUE, alone |-> TRUE]

Init ==
    /\ principal = None /\ screen = "list" /\ form = Blank
    /\ list = None /\ shown = None
    /\ rows = <<>> /\ queue = {} /\ jobs = {}
    /\ given = 0 /\ edits = 0 /\ signs = 0

\* getPermit: only the tenant's own row.
Get(p, tenant) ==
    IF p \in DOMAIN rows /\ rows[p].tenant = tenant THEN rows[p] ELSE None

Busy == \E j \in jobs : j.here

Left(js) == {[j EXCEPT !.here = FALSE] : j \in js}

-----------------------------------------------------------------------------
(* Signing in and the list. *)

SignIn(u) ==
    /\ principal = None /\ screen = "list"
    /\ principal' = u
    /\ UNCHANGED <<screen, form, list, shown, table, jobs, counters>>

\* From the settings tab; the tabs go.
SignOut ==
    /\ principal # None /\ screen = "list"
    /\ principal' = None /\ list' = None
    /\ UNCHANGED <<screen, form, shown, table, jobs, counters>>

\* The app is killed and started again: handlers are gone between two statements,
\* the session is kept by the device.
Restart ==
    /\ screen' = "list" /\ form' = Blank /\ list' = None /\ shown' = None
    /\ jobs' = {}
    /\ UNCHANGED <<principal, table, counters>>

\* The list is read when its tab is first opened and after a deletion, at no
\* other time: a permit made after that is not in it.
LoadList ==
    /\ principal # None /\ list = None
    /\ list' = {p \in DOMAIN rows : rows[p].tenant = principal}
    /\ UNCHANGED <<principal, screen, form, shown, table, jobs, counters>>

Delete(p) ==
    /\ principal # None /\ screen = "list" /\ list # None /\ p \in list
    /\ rows' = IF Get(p, principal) = None THEN rows
               ELSE [q \in DOMAIN rows \ {p} |-> rows[q]]
    /\ list' = {q \in DOMAIN rows' : rows'[q].tenant = principal}
    /\ UNCHANGED <<principal, screen, form, shown, queue, jobs, counters>>

-----------------------------------------------------------------------------
(* A new permit. *)

OpenForm ==
    /\ principal # None /\ screen = "list" /\ list # None
    /\ screen' = "new"
    /\ UNCHANGED <<principal, form, list, shown, table, jobs, counters>>

\* The form can be changed until it is sent.
FillForm(next) ==
    /\ screen = "new" /\ ~Busy
    /\ form' = next
    /\ UNCHANGED <<principal, screen, list, shown, table, jobs, counters>>

SetField(f) == \/ FillForm([form EXCEPT !.filled = @ \cup {f}])
               \/ FillForm([form EXCEPT !.filled = @ \ {f}])

\* add_chip and remove_chip: a list holds an entry once.
EditChips(c) == \/ c \notin form.chips /\ FillForm([form EXCEPT !.chips = @ \cup {c}])
                \/ c \in form.chips /\ FillForm([form EXCEPT !.chips = @ \ {c}])

Valid == form.filled = Required

\* submit: the form goes to /chat with module=ptw.
Generate ==
    /\ screen = "new" /\ ~Busy /\ Valid /\ principal # None
    /\ jobs' = jobs \cup {Job("generate", "answer", None, principal, 0, None, {})}
    /\ UNCHANGED <<principal, screen, form, list, shown, table, counters>>

\* Refused, unreachable, or answered without the tool.
GenerateFails(j) ==
    /\ j.kind = "generate"
    /\ jobs' = jobs \ {j}
    /\ UNCHANGED <<principal, screen, form, list, shown, table, counters>>

\* Mutant: a save replaces the whole row.
SavedAnew(p, tenant, text) == Put(rows, p, Row(p, tenant, text))

\* savePermit writes the text in one statement: a row that is there keeps its
\* tenant and its signatures and is a draft again, one that is not is made.
Saved(p, tenant, text) ==
    IF p \in DOMAIN rows
    THEN [rows EXCEPT ![p].text = text, ![p].status = "draft_unsigned"]
    ELSE Put(rows, p, Row(p, tenant, text))

\* The permit is saved, and its screen replaces whatever is on the display.
Generated(j) ==
    /\ j.kind = "generate" /\ given < MaxPermits /\ edits < MaxEdits
    /\ given' = given + 1 /\ edits' = edits + 1
    /\ rows' = Saved(given', j.who, edits')
    /\ screen' = "detail" /\ form' = Blank
    /\ shown' = IF principal = j.who THEN rows'[given'] ELSE None
    /\ jobs' = Left(jobs \ {j})
    /\ UNCHANGED <<principal, list, queue, signs>>

-----------------------------------------------------------------------------
(* The permit's screen. *)

Open(p) ==
    /\ principal # None /\ screen = "list" /\ list # None /\ p \in list
    /\ screen' = "detail" /\ shown' = Get(p, principal)
    /\ UNCHANGED <<principal, form, list, table, jobs, counters>>

\* Back; the handlers go on.
Back ==
    /\ screen # "list"
    /\ screen' = "list" /\ shown' = None /\ form' = Blank
    /\ jobs' = Left(jobs)
    /\ UNCHANGED <<principal, list, table, counters>>

\* A field of the permit is edited and left with another text.
Edit ==
    /\ screen = "detail" /\ shown # None /\ principal # None /\ ~Busy /\ edits < MaxEdits
    /\ edits' = edits + 1
    /\ jobs' = jobs \cup {Job("save", "write", shown.id, principal, edits + 1, None, {})}
    /\ UNCHANGED <<principal, screen, form, list, shown, table, given, signs>>

\* A role that has not signed what is shown signs it.
Sign(role) ==
    /\ screen = "detail" /\ shown # None /\ ~Busy /\ signs < MaxSigns
    /\ \A s \in shown.sigs : s.role # role
    /\ signs' = signs + 1
    /\ LET others == {j \in jobs : j.kind = "sign" /\ j.id = shown.id}
           job == Job("sign", "read", shown.id, shown.tenant, 0, Signature(signs + 1, role), {})
       IN  jobs' = (jobs \ others) \cup {[j EXCEPT !.alone = FALSE] : j \in others}
                   \cup {[job EXCEPT !.alone = others = {}]}
    /\ UNCHANGED <<principal, screen, form, list, shown, table, given, edits>>

\* onQueueSync: a copy of what is shown.
QueueSync ==
    /\ screen = "detail" /\ shown # None /\ ~Busy
    /\ queue' = queue \cup {shown} /\ Cardinality(queue') <= MaxQueued
    /\ UNCHANGED <<principal, screen, form, list, shown, rows, jobs, counters>>

-----------------------------------------------------------------------------
(* The handlers' steps. *)

At(j, kind, at) == j.kind = kind /\ j.at = at
Goes(j, k) == jobs' = (jobs \ {j}) \cup {k}

SaveWrites(j) ==
    /\ At(j, "save", "write")
    /\ rows' = Saved(j.id, j.who, j.text)
    /\ Goes(j, [j EXCEPT !.at = "show"])
    /\ UNCHANGED <<principal, screen, form, list, shown, queue, counters>>

\* addSignature: the signatures are read, and written back with one more.
SignReads(j) ==
    LET row == Get(j.id, j.who)
    IN  /\ At(j, "sign", "read")
        /\ IF row = None THEN jobs' = jobs \ {j}
           ELSE Goes(j, [j EXCEPT !.at = "write", !.read = row.sigs])
        /\ UNCHANGED <<principal, screen, form, list, shown, table, counters>>

SignWrites(j) ==
    /\ At(j, "sign", "write")
    /\ rows' = IF Get(j.id, j.who) = None THEN rows
               ELSE [rows EXCEPT ![j.id].sigs = j.read \cup {j.sig},
                                 ![j.id].status = "signed"]
    /\ Goes(j, [j EXCEPT !.at = "show"])
    /\ UNCHANGED <<principal, screen, form, list, shown, queue, counters>>

\* The row is read again and shown; a row that is gone is an error.
Shows(j) ==
    LET row == Get(j.id, j.who)
    IN  /\ j.at = "show"
        /\ shown' = IF j.here /\ row # None THEN row ELSE shown
        /\ jobs' = jobs \ {j}
        /\ UNCHANGED <<principal, screen, form, list, table, counters>>

Next ==
    \/ \E u \in Crew : SignIn(u)
    \/ SignOut
    \/ Restart
    \/ LoadList
    \/ \E p \in Permits : Delete(p)
    \/ OpenForm
    \/ \E f \in Required : SetField(f)
    \/ \E c \in Chips : EditChips(c)
    \/ Generate
    \/ \E j \in jobs : GenerateFails(j)
    \/ \E j \in jobs : Generated(j)
    \/ \E p \in Permits : Open(p)
    \/ Back
    \/ Edit
    \/ \E role \in Roles : Sign(role)
    \/ QueueSync
    \/ \E j \in jobs : SaveWrites(j)
    \/ \E j \in jobs : SignReads(j)
    \/ \E j \in jobs : SignWrites(j)
    \/ \E j \in jobs : Shows(j)

Spec == Init /\ [][Next]_vars

-----------------------------------------------------------------------------
(* Properties. *)

Signatures == [n : 1..MaxSigns, role : Roles]
Rows == [id : Permits, tenant : Crew, text : 1..MaxEdits,
         status : {"draft_unsigned", "signed"}, sigs : SUBSET Signatures]
Jobs == [kind : {"generate", "save", "sign"}, at : {"answer", "read", "write", "show"},
         id : Permits \cup {None}, who : Crew, text : 0..MaxEdits,
         sig : Signatures \cup {None}, read : SUBSET Signatures,
         here : BOOLEAN, alone : BOOLEAN]

TypeOK ==
    /\ principal \in Crew \cup {None}
    /\ screen \in {"list", "new", "detail"}
    /\ form \in [filled : SUBSET Required, chips : SUBSET Chips]
    /\ list \in (SUBSET Permits) \cup {None} /\ shown \in Rows \cup {None}
    /\ DOMAIN rows \subseteq Permits
    /\ \A p \in DOMAIN rows : rows[p] \in Rows /\ rows[p].id = p
    /\ queue \subseteq Rows /\ jobs \subseteq Jobs
    /\ given \in 0..MaxPermits /\ edits \in 0..MaxEdits /\ signs \in 0..MaxSigns

\* A signature that is on a permit stays on it while the permit is there, unless
\* two signatures are being added at once: saving another text does not drop it.
SignaturesKept ==
    [][\A p \in DOMAIN rows \cap DOMAIN rows' :
          \/ rows[p].sigs \subseteq rows'[p].sigs
          \/ \E j \in jobs : j.kind = "sign" /\ j.id = p /\ ~j.alone]_vars
=============================================================================
