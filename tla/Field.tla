------------------------------- MODULE Field -------------------------------
(***************************************************************************)
(* The field app outside its permits: the session kept in SecureStore      *)
(* (src/lib/session/store.ts), the Ask tab with its offline answers        *)
(* (app/(tabs)/ask.tsx, src/lib/ask/ask.ts over the cached documents of    *)
(* src/lib/cache), calculations and the last results that are kept on the  *)
(* device (app/calcs, src/lib/calc), and the Logs tab.                     *)
(*                                                                         *)
(* A statement of SQLite is one step; a handler goes on at its awaits      *)
(* after its screen was left or its user signed out, and is gone when the  *)
(* app is killed.  Every principal is of a tenant of its own.  Languages   *)
(* (only one is supported), text sizes, the API address and speech are     *)
(* left out.                                                               *)
(***************************************************************************)
EXTENDS Frontend

Tenants == Crew \cup {Demo}

VARIABLES
    up,          \* the app runs and its session is read (hydrated)
    token,       \* SecureStore: whose token is stored, or None
    principal,   \* who is signed in, or None
    online,      \* useNetwork
    catalog,     \* the calculator's screen has its specification
    runs,        \* calculations under way
    results,     \* the table calc_results
    clock,       \* results saved so far; a result's time
    docs,        \* tables documents and chunks: the bundled ones are there
    asking,      \* the question under way, or None
    reply,      \* the reply that is shown, or None
    log          \* kinds of events in the table sync_log

vars == <<up, token, principal, online, catalog, runs, results,
          clock, docs, asking, reply, log>>
session == <<up, token, principal>>
calcs == <<catalog, runs, results, clock>>
ask == <<asking, reply>>
cache == <<docs, log>>

\* The documents are seeded when the database is made, and not again.
Init ==
    /\ up = FALSE /\ token = None
    /\ principal = None /\ online = TRUE
    /\ catalog = FALSE /\ runs = {} /\ results = {} /\ clock = 0
    /\ docs = TRUE /\ log = {"seed"}
    /\ asking = None /\ reply = None

-----------------------------------------------------------------------------
(* The session. *)

\* hydrate.
Boot ==
    /\ ~up
    /\ up' = TRUE /\ principal' = token
    /\ UNCHANGED <<token, online, calcs, ask, cache>>

Kill ==
    /\ up
    /\ up' = FALSE /\ principal' = None
    /\ catalog' = FALSE /\ runs' = {} /\ asking' = None /\ reply' = None
    /\ UNCHANGED <<token, online, results, clock, cache>>

\* A pasted token that decodes; and signing out, which leaves the tabs.
SignIn(u) ==
    /\ up /\ principal = None
    /\ token' = u /\ principal' = u
    /\ UNCHANGED <<up, online, calcs, ask, cache>>

SignOut ==
    /\ up /\ principal # None
    /\ token' = None /\ principal' = None
    /\ catalog' = FALSE /\ reply' = None
    /\ asking' = IF asking = None THEN None ELSE [asking EXCEPT !.here = FALSE]
    /\ UNCHANGED <<up, online, runs, results, clock, cache>>

NetworkChanges ==
    /\ online' = ~online
    /\ UNCHANGED <<session, calcs, ask, cache>>

-----------------------------------------------------------------------------
(* Calculations. *)

\* The list of calculators is the server's.
Offered == principal # None /\ online

\* The catalog entry of the screen is fetched, again when the network returns.
LoadCatalog ==
    /\ Offered
    /\ catalog' = TRUE
    /\ UNCHANGED <<session, online, runs, results, clock, ask, cache>>

LeaveCalc ==
    /\ catalog
    /\ catalog' = FALSE
    /\ UNCHANGED <<session, online, runs, results, clock, ask, cache>>

\* submit with a form that parses: every number is computed by the server.
Calculate ==
    /\ principal # None /\ catalog /\ online
    /\ runs' = runs \cup {[who |-> principal, at |-> "run"]}
    /\ UNCHANGED <<session, online, catalog, results, clock, ask, cache>>

CalcFails(r) ==
    /\ r.at = "run"
    /\ runs' = runs \ {r}
    /\ UNCHANGED <<session, online, catalog, results, clock, ask, cache>>

\* saveRecentCalc: the result is inserted for whoever asked for it ...
Insert(r) ==
    /\ r.at = "run" /\ clock < MaxResults
    /\ clock' = clock + 1
    /\ results' = results \cup {[time |-> clock + 1, tenant |-> r.who]}
    /\ runs' = (runs \ {r}) \cup {[r EXCEPT !.at = "trim"]}
    /\ UNCHANGED <<session, online, catalog, ask, cache>>

Of(tenant) == {x \in results : x.tenant = tenant}
Newer(x, xs) == {y \in xs : y.time > x.time}

\* Mutant: the oldest results are kept.
OldestOf(tenant) ==
    {x \in Of(tenant) : Cardinality({y \in Of(tenant) : y.time < x.time}) < MaxPerTenant}

\* ORDER BY created_utc DESC LIMIT MAX_PER_TENANT: what is kept, and listed.
Recent(tenant) == {x \in Of(tenant) : Cardinality(Newer(x, Of(tenant))) < MaxPerTenant}

\* ... and older ones of the tenant are deleted, in a statement of its own.
Trim(r) ==
    /\ r.at = "trim"
    /\ results' = (results \ Of(r.who)) \cup Recent(r.who)
    /\ runs' = runs \ {r}
    /\ UNCHANGED <<session, online, catalog, clock, ask, cache>>

-----------------------------------------------------------------------------
(* Asking, and the cache. *)

\* submit: to the server when the device says it is online, else the cache.
Ask ==
    /\ principal # None /\ asking = None
    /\ asking' = [who |-> principal, here |-> TRUE,
                  at |-> IF online THEN "server" ELSE "documents"]
    /\ reply' = None
    /\ UNCHANGED <<session, online, calcs, cache>>

Answered(source) ==
    /\ asking' = None
    /\ reply' = IF asking.here THEN [source |-> source, to |-> asking.who] ELSE reply
    /\ UNCHANGED <<session, online, calcs, cache>>

\* The server answers; or it does not, and the cache is asked after all.
ServerAnswers == asking # None /\ asking.at = "server" /\ Answered("online")
ServerFails ==
    /\ asking # None /\ asking.at = "server"
    /\ asking' = [asking EXCEPT !.at = "documents"]
    /\ UNCHANGED <<session, online, calcs, reply, cache>>

\* askOffline: the tenant's documents, then their chunks, are read and searched.
ListDocuments ==
    /\ asking # None /\ asking.at = "documents"
    /\ IF docs /\ asking.who = Demo
       THEN /\ asking' = [asking EXCEPT !.at = "chunks"]
            /\ UNCHANGED <<session, online, calcs, reply, cache>>
       ELSE Answered("no_match")
SearchChunks ==
    /\ asking # None /\ asking.at = "chunks"
    /\ \E source \in {"offline_cache", "no_match"} :
          /\ source = "offline_cache" => docs
          /\ Answered(source)

ClearCache ==
    /\ principal # None
    /\ docs' = FALSE /\ log' = log \cup {"clear"}
    /\ UNCHANGED <<session, online, calcs, ask>>

-----------------------------------------------------------------------------
Next ==
    \/ Boot
    \/ Kill
    \/ \E u \in Tenants : SignIn(u)
    \/ SignOut
    \/ NetworkChanges
    \/ LoadCatalog
    \/ LeaveCalc
    \/ Calculate
    \/ \E r \in runs : CalcFails(r)
    \/ \E r \in runs : Insert(r)
    \/ \E r \in runs : Trim(r)
    \/ Ask
    \/ ServerAnswers
    \/ ServerFails
    \/ ListDocuments
    \/ SearchChunks
    \/ ClearCache

Spec == Init /\ [][Next]_vars

-----------------------------------------------------------------------------
(* Properties. *)

TypeOK ==
    /\ up \in BOOLEAN /\ online \in BOOLEAN /\ catalog \in BOOLEAN /\ docs \in BOOLEAN
    /\ token \in Tenants \cup {None} /\ principal \in Tenants \cup {None}
    /\ runs \subseteq [who : Tenants, at : {"run", "trim"}]
    /\ results \subseteq [time : 1..MaxResults, tenant : Tenants]
    /\ clock \in 0..MaxResults
    /\ asking \in [who : Tenants, here : BOOLEAN, at : {"server", "documents", "chunks"}]
                  \cup {None}
    /\ reply \in [source : {"online", "offline_cache", "no_match"}, to : Tenants] \cup {None}
    /\ log \subseteq {"seed", "clear"}

\* A result goes only when MAX_PER_TENANT newer ones of its own tenant stay,
\* whatever saves overlap, for whomever they were asked, and wherever the app
\* was killed between a save and its trimming.
NewestResultsKept ==
    [][\A x \in results \ results' :
          Cardinality({y \in Newer(x, results') : y.tenant = x.tenant}) >= MaxPerTenant]_vars
=============================================================================
