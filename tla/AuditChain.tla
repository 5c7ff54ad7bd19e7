----------------------------- MODULE AuditChain -----------------------------
(***************************************************************************)
(* The hash-chained audit file (app/core/audit.py).  Every routes module   *)
(* creates an AuditLogger of its own when it is imported, over the same    *)
(* file, so a process has as many loggers as it has routes modules, each   *)
(* with its own lock and its own cached tail hash.                         *)
(*                                                                         *)
(* The routes are coroutines and write() does not await, so a process is   *)
(* in at most one write at a time; the writes of two processes interleave. *)
(* Event identifiers are fresh (uuid4), so a row's hash is as good as its  *)
(* event identifier, and only the links between rows are modelled.         *)
(***************************************************************************)
EXTENDS Integers, Sequences

CONSTANTS
    Processes,    \* API processes over one audit file
    Modules,      \* routes modules, one logger each per process
    Events,       \* audit events that may be logged
    None,         \* the empty prev_hash, and nothing being written
    Unread,       \* tail not read from the file yet
    MaxRestarts   \* bound on crashes of a process

ASSUME ConstantsAssumption ==
    /\ None \notin Events /\ Unread \notin Events \cup {None}
    /\ MaxRestarts \in Nat

VARIABLES
    lines,     \* the lines of the file
    tail,      \* tail[p][m]: _tail_hash of that logger
    writing,   \* writing[p]: the row process p is about to append
    restarts   \* restarts[p]: how often p has crashed and come back

vars == <<lines, tail, writing, restarts>>

-----------------------------------------------------------------------------
\* A row as written; "cut" is what a crash left of one, without a newline, and
\* "glued" what the next append makes of it.  by is the logger, for properties.
Kinds == {"row", "cut", "glued"}
Rows == [kind : Kinds, event : Events, prev : Events \cup {None},
         by : Processes \X Modules \X Nat]
Nothing == [event |-> None]

\* _load_tail_hash: the hash of the last line that parses, "" if there is none.
IsLastHash(h) ==
    \/ h = None /\ \A i \in DOMAIN lines : lines[i].kind # "row"
    \/ \E i \in DOMAIN lines :
          /\ lines[i].kind = "row" /\ lines[i].event = h
          /\ \A j \in DOMAIN lines : j > i => lines[j].kind # "row"

\* Text written to the file continues a line that was cut.
Written(r) ==
    LET n == Len(lines) IN
    IF n > 0 /\ lines[n].kind = "cut"
      THEN [lines EXCEPT ![n] = [r EXCEPT !.kind = IF @ = "cut" THEN "cut" ELSE "glued"]]
      ELSE Append(lines, r)

Fresh(e) ==
    /\ \A i \in DOMAIN lines : lines[i].event # e
    /\ \A p \in Processes : writing[p].event # e

Init ==
    /\ lines = <<>>
    /\ tail = [p \in Processes |-> [m \in Modules |-> Unread]]
    /\ writing = [p \in Processes |-> Nothing]
    /\ restarts = [p \in Processes |-> 0]

\* Mutant: the tail is never read from the file.
LinkUnloaded(p, m, e) ==
    /\ writing[p] = Nothing
    /\ Fresh(e)
    /\ writing' = [writing EXCEPT ![p] =
                     [kind |-> "row", event |-> e, prev |-> tail[p][m],
                      by |-> <<p, m, restarts[p]>>]]
    /\ UNCHANGED <<lines, tail, restarts>>

\* Mutant: a new logger starts a chain of its own.
LinkAnew(p, m, e) ==
    LET prev == IF tail[p][m] = Unread THEN None ELSE tail[p][m] IN
    /\ writing[p] = Nothing
    /\ Fresh(e)
    /\ tail' = [tail EXCEPT ![p][m] = prev]
    /\ writing' = [writing EXCEPT ![p] =
                     [kind |-> "row", event |-> e, prev |-> prev,
                      by |-> <<p, m, restarts[p]>>]]
    /\ UNCHANGED <<lines, restarts>>

\* write takes the lock, reads the tail (once per logger) and hashes the row.
Link(p, m, e) ==
    \E prev \in Events \cup {None} :
       /\ IF tail[p][m] = Unread THEN IsLastHash(prev) ELSE prev = tail[p][m]
       /\ writing[p] = Nothing
       /\ Fresh(e)
       /\ tail' = [tail EXCEPT ![p][m] = prev]
       /\ writing' = [writing EXCEPT ![p] =
                        [kind |-> "row", event |-> e, prev |-> prev,
                         by |-> <<p, m, restarts[p]>>]]
       /\ UNCHANGED <<lines, restarts>>

\* Mutant: a failed append is ignored, and the chain goes on from its row.
AppendLost(p) ==
    LET row == writing[p] IN
    /\ row # Nothing
    /\ lines' \in {lines, Written(row)}
    /\ tail' = [tail EXCEPT ![p][row.by[2]] = row.event]
    /\ writing' = [writing EXCEPT ![p] = Nothing]
    /\ UNCHANGED restarts

\* Mutant: the cached tail is not advanced.
AppendForgetsTail(p) ==
    /\ writing[p] # Nothing
    /\ lines' = Written(writing[p])
    /\ writing' = [writing EXCEPT ![p] = Nothing]
    /\ UNCHANGED <<tail, restarts>>

\* The row is appended and becomes this logger's tail.
AppendRow(p) ==
    LET row == writing[p] IN
    /\ row # Nothing
    /\ lines' = Written(row)
    /\ tail' = [tail EXCEPT ![p][row.by[2]] = row.event]
    /\ writing' = [writing EXCEPT ![p] = Nothing]
    /\ UNCHANGED restarts

\* A crash forgets the tails of the process and may cut the row being written.
Crash(p) ==
    /\ restarts[p] < MaxRestarts
    /\ restarts' = [restarts EXCEPT ![p] = @ + 1]
    /\ \/ UNCHANGED lines
       \/ /\ writing[p] # Nothing
          /\ lines' = Written([writing[p] EXCEPT !.kind = "cut"])
    /\ tail' = [tail EXCEPT ![p] = [m \in Modules |-> Unread]]
    /\ writing' = [writing EXCEPT ![p] = Nothing]

Next ==
    \E p \in Processes :
       \/ \E m \in Modules, e \in Events : Link(p, m, e)
       \/ AppendRow(p)
       \/ Crash(p)

Spec == Init /\ [][Next]_vars

-----------------------------------------------------------------------------
TypeOK ==
    /\ lines \in Seq(Rows)
    /\ tail \in [Processes -> [Modules -> Events \cup {None, Unread}]]
    /\ writing \in [Processes -> Rows \cup {Nothing}]
    /\ restarts \in [Processes -> 0..MaxRestarts]

\* No crash has cut a line.
Whole == \A i \in DOMAIN lines : lines[i].kind = "row"

\* verify_chain: every line parses and continues the one before it.
Verifies ==
    \A i \in DOMAIN lines :
       /\ lines[i].kind = "row"
       /\ lines[i].prev = IF i = 1 THEN None ELSE lines[i - 1].event

\* "Each row gets prev_hash (the previous row's row_hash, "" on the first row)"
\* (audit.py:44): a file no crash has cut verifies.
ChainUnbroken == Whole => Verifies

\* That is so for the rows of one logger, before and after restarts, whatever
\* the other loggers have read or are about to write.
SoleWriter == \A i, j \in DOMAIN lines :
                 /\ lines[i].by[1] = lines[j].by[1]
                 /\ lines[i].by[2] = lines[j].by[2]
SoleWriterVerifies == SoleWriter => ChainUnbroken

\* With many loggers, and lines a crash has cut, the file is still a forest that
\* grows from earlier rows: what a logger wrote continues a row above it, never
\* one that was not written, that comes later or that was cut and written over.
LinksPointBack ==
    \A i \in DOMAIN lines :
       \/ lines[i].prev = None
       \/ \E j \in 1 .. i - 1 : lines[j].event = lines[i].prev /\ lines[j].kind # "cut"

\* Two rows that continue the same row are of different loggers, or of one that
\* was restarted between them: a logger never forks its own chain.
NoLoggerForks ==
    \A i, j \in DOMAIN lines :
       /\ lines[i].by = lines[j].by
       /\ lines[i].prev = lines[j].prev
       => i = j
=============================================================================
