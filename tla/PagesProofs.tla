---------------------------- MODULE PagesProofs ----------------------------
(***************************************************************************)
(* The pages of the web application that keep a copy of what the server    *)
(* has: the research page, the two consoles of what was learnt, the tasks  *)
(* and the emissions.  What such a page shows with nothing under way is    *)
(* what the server has, and no answer of an earlier request undoes what a  *)
(* later one began.  All of this for any number of runs, memories, tasks,  *)
(* inventories and overlapping requests.                                   *)
(***************************************************************************)
EXTENDS Screens, FiniteSetTheorems, SequenceTheorems, WellFoundedInduction, TLAPS

-----------------------------------------------------------------------------
(* The research page. *)

Kinds == {"load", "create", "approve", "run", "stop"}
Places == {"sent", "stream", "refresh", "answered"}

\* A handler of a page that asked for b runs, of which the server has those
\* in D: what it asks about, and what it is told.
JobOK(j, b, D) ==
    /\ j \in [kind : Kinds, n : 1..MaxHandlers, id : (1..b) \cup {None}, at : Places,
              told : BOOLEAN, reply : research!Records(1..b)]
    /\ j.kind # "load" => j.id \in 1..b
    /\ j.kind \in {"approve", "run", "stop"} => j.id \in D
    /\ j.at \in {"stream", "refresh"} => j.kind = "run"
    /\ DOMAIN j.reply \subseteq D
    /\ j.kind # "load" /\ j.reply # <<>> => j.id \in DOMAIN j.reply

RunTypes ==
    /\ open \in BOOLEAN /\ busy \in BOOLEAN
    /\ briefs \in 0..MaxRuns
    /\ server \in research!Records(1..briefs) /\ history \in research!Records(1..briefs)
    /\ active \in [id : 1..briefs, status : research!Statuses] \cup {None}
    /\ current \in (1..MaxHandlers) \cup {None}

\* The page shows no run that the server does not have.
RunsAreKnown ==
    /\ DOMAIN history \subseteq DOMAIN server
    /\ active # None => active.id \in DOMAIN server

ResearchInv ==
    /\ RunTypes /\ RunsAreKnown /\ research!LockIsHeld
    /\ \A j \in handlers : JobOK(j, briefs, DOMAIN server)

-----------------------------------------------------------------------------
\* A table of runs, by what it is defined on.
LEMMA RecordsAre ==
    ASSUME NEW I, NEW h
    PROVE  h \in research!Records(I) <=> h \in [DOMAIN h -> research!Statuses]
        /\ DOMAIN h \subseteq I
BY DEF research!Records

\* With more runs, a table of some of them stays one.
LEMMA RecordsGrow == ASSUME NEW I, NEW J, I \subseteq J
    PROVE research!Records(I) \subseteq research!Records(J)
BY DEF research!Records

\* The empty table.
LEMMA NoRecords == ASSUME NEW I PROVE <<>> \in research!Records(I) /\ DOMAIN <<>> = {}
<1>1. DOMAIN <<>> = {}
  OBVIOUS
<1>2. <<>> \in [{} -> research!Statuses]
  OBVIOUS
<1> QED
  BY <1>1, <1>2, RecordsAre

\* The table of one run.
LEMMA OneRecord ==
    ASSUME NEW I, NEW id \in I, NEW h, h[id] \in research!Statuses
    PROVE  [x \in {id} |-> h[x]] \in research!Records(I) /\ DOMAIN [x \in {id} |-> h[x]] = {id}
<1>1. DOMAIN [x \in {id} |-> h[x]] = {id} /\ {id} \subseteq I
  OBVIOUS
<1>2. [x \in {id} |-> h[x]] \in [{id} -> research!Statuses]
  OBVIOUS
<1> QED
  BY <1>1, <1>2, RecordsAre

\* A table that is not empty has a run.
LEMMA NonEmpty ==
    ASSUME NEW I, NEW h \in research!Records(I), h # <<>>
    PROVE  DOMAIN h # {}
<1>1. h \in [DOMAIN h -> research!Statuses]
  BY RecordsAre
<1> QED
  BY <1>1

\* One run more, or another status of it.
LEMMA RecordsPut ==
    ASSUME NEW I, NEW h, h \in research!Records(I), NEW id, id \in I,
           NEW v, v \in research!Statuses
    PROVE  research!Put(h, id, v) \in research!Records(I)
        /\ DOMAIN research!Put(h, id, v) = DOMAIN h \cup {id}
<1>1. h \in [DOMAIN h -> research!Statuses] /\ DOMAIN h \subseteq I
  BY RecordsAre
<1>2. DOMAIN research!Put(h, id, v) = DOMAIN h \cup {id}
  BY DEF research!Put
<1>3. \A x \in DOMAIN h \cup {id} : research!Put(h, id, v)[x] \in research!Statuses
  BY <1>1 DEF research!Put
<1>4. research!Put(h, id, v) \in [DOMAIN h \cup {id} -> research!Statuses]
  BY <1>2, <1>3 DEF research!Put
<1> QED
  BY <1>1, <1>2, <1>4, RecordsAre

\* Another status of a run of the table.
LEMMA RecordsExcept ==
    ASSUME NEW I, NEW h \in research!Records(I), NEW id, NEW v \in research!Statuses
    PROVE  [h EXCEPT ![id] = v] \in research!Records(I)
        /\ DOMAIN [h EXCEPT ![id] = v] = DOMAIN h
<1>1. h \in [DOMAIN h -> research!Statuses] /\ DOMAIN h \subseteq I
  BY RecordsAre
<1>2. DOMAIN [h EXCEPT ![id] = v] = DOMAIN h
  OBVIOUS
<1>3. [h EXCEPT ![id] = v] \in [DOMAIN h -> research!Statuses]
  BY <1>1
<1> QED
  BY <1>1, <1>2, <1>3, RecordsAre

\* What a handler was told stays true while runs are added.
LEMMA JobGrows ==
    ASSUME NEW j, NEW b \in Nat, NEW c \in Nat, b <= c, NEW D, NEW E, D \subseteq E,
           JobOK(j, b, D)
    PROVE  JobOK(j, c, E)
<1>1. research!Records(1..b) \subseteq research!Records(1..c) /\ 1..b \subseteq 1..c
  BY RecordsGrow
<1> QED
  BY <1>1 DEF JobOK

\* A set of natural numbers has a least one.
LEMMA LeastNat ==
    ASSUME NEW T \in SUBSET Nat, T # {}
    PROVE  \E n \in T : \A m \in T : n <= m
<1> DEFINE less == OpToRel(<, Nat)
<1>1. PICK n \in T : \A m \in T : <<m, n>> \notin less
  <2>1. IsWellFoundedOn(less, Nat)
    BY NatLessThanWellFounded
  <2> HIDE DEF less
  <2> QED
    BY <2>1, WFMin
<1>2. \A m \in T : ~(m < n)
  BY <1>1 DEF OpToRel
<1> QED
  BY <1>2

\* A set of numbers up to b has a largest one.
LEMMA LargestOf ==
    ASSUME NEW b \in Nat, NEW S \in SUBSET (1..b), S # {}
    PROVE  (CHOOSE x \in S : \A y \in S : y <= x) \in S
<1> DEFINE T == {n \in Nat : \E x \in S : x = b - n}
<1>1. PICK n \in T : \A m \in T : n <= m
  <2>1. PICK s \in S : TRUE
    OBVIOUS
  <2>2. b - s \in T
    OBVIOUS
  <2>3. T \subseteq Nat /\ T # {}
    BY <2>2
  <2> HIDE DEF T
  <2> QED
    BY <2>3, LeastNat
<1>2. PICK x \in S : x = b - n /\ x \in Nat /\ n \in Nat
  BY <1>1
<1>3. \A y \in S : n <= b - y /\ y \in Nat
  <2>1. \A y \in S : b - y \in T /\ y \in Nat
    OBVIOUS
  <2> QED
    BY <1>1, <2>1
<1>4. \A y \in S : y <= x
  BY <1>2, <1>3
<1> QED
  BY <1>2, <1>4

\* A new handler knows the run it is about.
LEMMA JobStarts ==
    ASSUME NEW kind \in Kinds, NEW id, NEW b \in Nat, NEW D, NEW n \in 1..MaxHandlers,
           kind # "load" => id \in 1..b, kind = "load" => id = None,
           kind \in {"approve", "run", "stop"} => id \in D
    PROVE  JobOK(research!Job(kind, n, id), b, D) /\ research!Job(kind, n, id).kind = kind
<1>1. <<>> \in research!Records(1..b) /\ DOMAIN <<>> = {}
  BY NoRecords
<1> QED
  BY <1>1 DEF JobOK, research!Job, Places, Kinds

\* The answer to a handler.
LEMMA JobAnswered ==
    ASSUME NEW j, NEW b \in Nat, NEW D, JobOK(j, b, D), NEW ans \in research!Records(1..b),
           DOMAIN ans \subseteq D, j.kind # "load" /\ ans # <<>> => j.id \in DOMAIN ans
    PROVE  /\ JobOK([j EXCEPT !.at = "answered", !.reply = ans], b, D)
           /\ [j EXCEPT !.at = "answered", !.reply = ans].kind = j.kind
BY DEF JobOK, Places

\* A handler that goes on is one.
LEMMA JobMoves ==
    ASSUME NEW j, NEW b \in Nat, NEW D, JobOK(j, b, D), NEW at \in {"stream", "refresh"},
           j.kind = "run"
    PROVE  JobOK([j EXCEPT !.at = at], b, D) /\ [j EXCEPT !.at = at].kind = j.kind
BY DEF JobOK, Places

\* A handler whose state the page was told is one.
LEMMA JobTold ==
    ASSUME NEW j, NEW b \in Nat, NEW D, JobOK(j, b, D)
    PROVE  JobOK([j EXCEPT !.told = TRUE], b, D) /\ [j EXCEPT !.told = TRUE].kind = j.kind
BY DEF JobOK

\* A handler that is replaced by one of its kind, or ends, or starts.
LEMMA HandlersStep ==
    ASSUME ResearchInv, briefs' \in Nat, briefs <= briefs', DOMAIN server
        \subseteq DOMAIN server',
           NEW k, JobOK(k, briefs', DOMAIN server'), handlers' \subseteq handlers \cup {k}
    PROVE  \A j \in handlers' : JobOK(j, briefs', DOMAIN server')
<1>1. briefs \in Nat
  BY ResearchPageAssumption DEF ResearchInv, RunTypes
<1>2. \A j \in handlers : JobOK(j, briefs', DOMAIN server')
  BY <1>1, JobGrows DEF ResearchInv
<1> QED
  BY <1>2

-----------------------------------------------------------------------------
\* The page before it asked for anything.
LEMMA ResearchInit == research!Init => ResearchInv
<1> SUFFICES ASSUME research!Init PROVE ResearchInv
  OBVIOUS
<1>1. <<>> \in research!Records(1..0) /\ DOMAIN <<>> = {}
  BY NoRecords
<1>2. RunTypes /\ RunsAreKnown
  <2>1. briefs = 0 /\ server = <<>> /\ history = <<>>
    BY DEF research!Init
  <2>2. server \in research!Records(1..briefs) /\ history \in research!Records(1..briefs)
        /\ DOMAIN history = DOMAIN server /\ briefs \in 0..MaxRuns
    BY <1>1, <2>1, ResearchPageAssumption
  <2> QED
    BY <2>2 DEF research!Init, RunTypes, RunsAreKnown
<1> QED
  BY <1>2 DEF research!Init, ResearchInv, research!LockIsHeld

\* Every step of the page, of its handlers and of the server keeps the invariant.
LEMMA ResearchStep == ResearchInv /\ [research!Next]_(research!vars) => ResearchInv'
<1> SUFFICES ASSUME ResearchInv, [research!Next]_(research!vars) PROVE ResearchInv'
  OBVIOUS
<1>0. /\ briefs \in Nat /\ briefs \in 0..MaxRuns /\ MaxRuns \in Nat
      /\ RunTypes /\ RunsAreKnown /\ research!LockIsHeld
      /\ \A j \in handlers : JobOK(j, briefs, DOMAIN server)
  BY ResearchPageAssumption DEF ResearchInv, RunTypes
<1>1. CASE research!Enter
  <2>1. PICK n \in 1..MaxHandlers : handlers' = handlers \cup {research!Job("load", n, None)}
                                    /\ current' = current
    BY <1>1 DEF research!Enter, research!Starts
  <2>2. JobOK(research!Job("load", n, None), briefs', DOMAIN server')
    BY <1>0, <1>1, JobStarts DEF research!Enter, Kinds
  <2>3. \A j \in handlers' : JobOK(j, briefs', DOMAIN server')
    BY <1>0, <1>1, <2>1, <2>2 DEF research!Enter
  <2>4. RunTypes' /\ RunsAreKnown' /\ research!LockIsHeld'
    BY <1>0, <1>1, <2>1 DEF research!Enter, RunTypes, RunsAreKnown, research!LockIsHeld,
       research!shown
  <2> QED
    BY <2>3, <2>4 DEF ResearchInv
<1>2. CASE research!Leave
  <2>1. <<>> \in research!Records(1..briefs) /\ DOMAIN <<>> = {}
    BY NoRecords
  <2> QED
    BY <1>0, <1>2, <2>1 DEF research!Leave, ResearchInv, RunTypes, RunsAreKnown,
       research!LockIsHeld
<1>3. ASSUME NEW brief \in SUBSET research!Fields, research!CreatePlan(brief) PROVE ResearchInv'
  <2>1. PICK n \in 1..MaxHandlers :
          handlers' = handlers \cup {research!Job("create", n, briefs + 1)}
              /\ current' = current
    BY <1>3 DEF research!CreatePlan, research!Starts
  <2>2. /\ briefs' = briefs + 1 /\ briefs' \in Nat /\ briefs' \in 0..MaxRuns
        /\ briefs + 1 \in 1..briefs' /\ server' = server /\ history' = history
        /\ active' = active /\ busy' = TRUE /\ open' = open
    BY <1>0, <1>3 DEF research!CreatePlan
  <2>3. /\ JobOK(research!Job("create", n, briefs + 1), briefs', DOMAIN server')
        /\ research!Job("create", n, briefs + 1).kind = "create"
    BY <2>2, JobStarts DEF Kinds
  <2>4. \A j \in handlers' : JobOK(j, briefs', DOMAIN server')
    BY <2>2, <2>3, HandlersStep, <2>1, <1>0
  <2>5. research!Records(1..briefs) \subseteq research!Records(1..briefs')
            /\ 1..briefs \subseteq 1..briefs'
    BY <1>0, <2>2, RecordsGrow
  <2>6. RunTypes' /\ RunsAreKnown'
    BY <1>0, <2>1, <2>2, <2>5 DEF RunTypes, RunsAreKnown
  <2>7. research!LockIsHeld'
    BY <2>1, <2>3 DEF research!LockIsHeld
  <2> QED
    BY <2>4, <2>6, <2>7 DEF ResearchInv
<1>4. CASE research!ApprovePlan
  <2>1. PICK n \in 1..MaxHandlers :
          handlers' = handlers \cup {research!Job("approve", n, active.id)}
              /\ current' = current
    BY <1>4 DEF research!ApprovePlan, research!Starts
  <2>2. active.id \in 1..briefs /\ active.id \in DOMAIN server
    BY <1>0, <1>4 DEF research!ApprovePlan, RunTypes, RunsAreKnown
  <2>3. /\ JobOK(research!Job("approve", n, active.id), briefs, DOMAIN server)
        /\ research!Job("approve", n, active.id).kind = "approve"
    BY <1>0, <2>2, JobStarts DEF Kinds
  <2>4. \A j \in handlers' : JobOK(j, briefs', DOMAIN server')
    BY <1>0, <1>4, <2>1, <2>3 DEF research!ApprovePlan
  <2>5. RunTypes' /\ RunsAreKnown' /\ research!LockIsHeld'
    BY <1>0, <1>4, <2>1, <2>3 DEF research!ApprovePlan, RunTypes, RunsAreKnown,
       research!LockIsHeld
  <2> QED
    BY <2>4, <2>5 DEF ResearchInv
<1>5. CASE research!Run
  <2>1. PICK n \in 1..MaxHandlers :
          handlers' = handlers \cup {research!Job("run", n, active.id)} /\ current' = n
    BY <1>5 DEF research!Run, research!Starts
  <2>2. active.id \in 1..briefs /\ active.id \in DOMAIN server
    BY <1>0, <1>5 DEF research!Run, RunTypes, RunsAreKnown
  <2>3. /\ JobOK(research!Job("run", n, active.id), briefs, DOMAIN server)
        /\ research!Job("run", n, active.id).kind = "run"
    BY <1>0, <2>2, JobStarts DEF Kinds
  <2>4. \A j \in handlers' : JobOK(j, briefs', DOMAIN server')
    BY <1>0, <1>5, <2>1, <2>3 DEF research!Run
  <2>5. active' \in [id : 1..briefs, status : research!Statuses] /\ active'.id = active.id
    BY <1>0, <1>5 DEF research!Run, RunTypes, research!Statuses
  <2>6. RunTypes' /\ RunsAreKnown' /\ research!LockIsHeld'
    BY <1>0, <1>5, <2>1, <2>2, <2>3, <2>5 DEF research!Run, RunTypes, RunsAreKnown,
       research!LockIsHeld
  <2> QED
    BY <2>4, <2>6 DEF ResearchInv
<1>6. CASE research!Stop
  <2> DEFINE aborted == {j \in handlers : j.n = current /\ j.at \in {"sent", "stream"}}
  <2>1. PICK n \in 1..MaxHandlers :
          handlers' = (handlers \ aborted) \cup {research!Job("stop", n, active.id)}
    BY <1>6 DEF research!Stop
  <2>2. active.id \in 1..briefs /\ active.id \in DOMAIN server
    BY <1>0, <1>6 DEF research!Stop, RunTypes, RunsAreKnown
  <2>3. JobOK(research!Job("stop", n, active.id), briefs, DOMAIN server)
    BY <1>0, <2>2, JobStarts DEF Kinds
  <2>4. \A j \in handlers' : JobOK(j, briefs', DOMAIN server')
    BY <1>0, <1>6, <2>1, <2>3 DEF research!Stop
  <2>5. RunTypes' /\ RunsAreKnown'
    BY <1>0, <1>6 DEF research!Stop, RunTypes, RunsAreKnown, research!shown
  <2>6. research!LockIsHeld'
    <3>1. CASE aborted = {}
      <4>1. busy' = busy /\ handlers \subseteq handlers'
        BY <1>6, <2>1, <3>1 DEF research!Stop
      <4> QED
        BY <1>0, <4>1 DEF research!LockIsHeld
    <3>2. CASE aborted # {}
      BY <1>6, <3>2 DEF research!Stop, research!LockIsHeld
    <3> QED
      BY <3>1, <3>2
  <2> QED
    BY <2>4, <2>5, <2>6 DEF ResearchInv
<1>7. ASSUME NEW id \in research!RunIds, research!SelectHistory(id) PROVE ResearchInv'
  <2>1. id \in 1..briefs /\ history[id] \in research!Statuses /\ id \in DOMAIN server
    BY <1>0, <1>7, RecordsAre DEF research!SelectHistory, RunTypes, RunsAreKnown
  <2> QED
    BY <1>0, <1>7, <2>1 DEF research!SelectHistory, ResearchInv, RunTypes, RunsAreKnown,
       research!LockIsHeld
<1>8. ASSUME NEW j \in handlers, research!Serve(j) PROVE ResearchInv'
  <2>1. JobOK(j, briefs, DOMAIN server) /\ server \in research!Records(1..briefs)
    BY <1>0 DEF RunTypes
  <2>2. server' \in research!Records(1..briefs) /\ DOMAIN server \subseteq DOMAIN server'
    <3>1. CASE server' = server
      BY <2>1, <3>1
    <3>2. CASE j.kind = "create" /\ server' = research!Put(server, j.id, "plan_ready")
      <4>1. j.id \in 1..briefs /\ "plan_ready" \in research!Statuses
        BY <2>1, <3>2 DEF JobOK, research!Statuses
      <4>2. research!Put(server, j.id, "plan_ready") \in research!Records(1..briefs)
        BY <2>1, <4>1, RecordsPut, Zenon
      <4> QED
        BY <3>2, <4>2 DEF research!Put
    <3>3. ASSUME NEW from, NEW to \in research!Statuses, server' = research!Step(j.id, from, to)
          PROVE  server' \in research!Records(1..briefs)
              /\ DOMAIN server \subseteq DOMAIN server'
      BY <2>1, <3>3, RecordsExcept DEF research!Step
    <3> QED
      BY <1>8, <3>1, <3>2, <3>3 DEF research!Serve, research!Served, research!Statuses
  <2>3. ASSUME j.kind # "load", ~research!Refused(j) PROVE j.id \in DOMAIN server'
    <3>1. CASE j.kind = "create"
      <4>1. server' = research!Put(server, j.id, "plan_ready")
        BY <1>8, <2>1, <3>1 DEF research!Serve, research!Served, JobOK
      <4> QED
        BY <4>1 DEF research!Put
    <3>2. CASE j.kind # "create"
      BY <2>1, <2>2, <2>3, <3>2 DEF JobOK, Kinds
    <3> QED
      BY <3>1, <3>2
  <2>4. JobOK(j, briefs, DOMAIN server')
    BY <1>0, <2>1, <2>2, JobGrows
  <2>5. \E k : /\ handlers' = (handlers \ {j}) \cup {k}
               /\ JobOK(k, briefs, DOMAIN server') /\ k.kind = j.kind
    <3>1. CASE research!Answer(j, <<>>)
      <4>1. <<>> \in research!Records(1..briefs) /\ DOMAIN <<>> = {}
        BY NoRecords
      <4>2. /\ JobOK([j EXCEPT !.at = "answered", !.reply = <<>>], briefs, DOMAIN server')
            /\ [j EXCEPT !.at = "answered", !.reply = <<>>].kind = j.kind
        BY <1>0, <2>4, <4>1, JobAnswered
      <4> QED
        BY <3>1, <4>2 DEF research!Answer, research!Becomes
    <3>2. CASE j.kind = "load" /\ research!Answer(j, server)
      <4>1. /\ JobOK([j EXCEPT !.at = "answered", !.reply = server], briefs, DOMAIN server')
            /\ [j EXCEPT !.at = "answered", !.reply = server].kind = j.kind
        BY <1>0, <2>1, <2>2, <2>4, <3>2, JobAnswered
      <4> QED
        BY <3>2, <4>1 DEF research!Answer, research!Becomes
    <3>3. CASE j.kind = "run" /\ research!Becomes(j, [j EXCEPT !.at = "stream"])
      <4>1. /\ JobOK([j EXCEPT !.at = "stream"], briefs, DOMAIN server')
            /\ [j EXCEPT !.at = "stream"].kind = j.kind
        BY <1>0, <2>4, <3>3, JobMoves
      <4> QED
        BY <3>3, <4>1 DEF research!Becomes
    <3>4. CASE j.kind # "load" /\ ~research!Refused(j)
              /\ research!Answer(j, [id \in {j.id} |-> server'[id]])
      <4>1. PICK ans : ans = [id \in {j.id} |-> server'[id]]
        OBVIOUS
      <4>2. j.id \in DOMAIN server' /\ j.id \in 1..briefs /\ server'[j.id] \in research!Statuses
        BY <2>1, <2>2, <2>3, <3>4, RecordsAre DEF JobOK
      <4>4. ans \in research!Records(1..briefs) /\ DOMAIN ans = {j.id}
        BY <4>1, <4>2, OneRecord
      <4>5. DOMAIN ans \subseteq DOMAIN server' /\ j.id \in DOMAIN ans
        BY <4>2, <4>4
      <4>6. /\ JobOK([j EXCEPT !.at = "answered", !.reply = ans], briefs, DOMAIN server')
            /\ [j EXCEPT !.at = "answered", !.reply = ans].kind = j.kind
        BY <1>0, <2>4, <4>4, <4>5, JobAnswered
      <4> QED
        BY <3>4, <4>1, <4>6 DEF research!Answer, research!Becomes
    <3>5. j.at = "refresh" => j.kind = "run"
      BY <2>1 DEF JobOK
    <3> QED
      BY <1>8, <3>1, <3>2, <3>3, <3>4, <3>5 DEF research!Serve
  <2>6. PICK k : /\ handlers' = (handlers \ {j}) \cup {k}
                 /\ JobOK(k, briefs, DOMAIN server') /\ k.kind = j.kind
    BY <2>5
  <2>7. briefs' = briefs /\ busy' = busy /\ open' = open /\ current' = current
        /\ history' = history /\ active' = active
    BY <1>8 DEF research!Serve, research!shown
  <2>8. \A i \in handlers' : JobOK(i, briefs', DOMAIN server')
    BY <1>0, <2>2, <2>6, <2>7, HandlersStep
  <2>9. RunTypes' /\ RunsAreKnown'
    BY <1>0, <2>2, <2>7 DEF RunTypes, RunsAreKnown
  <2>10. research!LockIsHeld'
    BY <1>0, <2>6, <2>7 DEF research!LockIsHeld
  <2> QED
    BY <2>8, <2>9, <2>10 DEF ResearchInv
<1>9. ASSUME NEW j \in handlers, research!Unanswered(j) PROVE ResearchInv'
  <2>1. <<>> \in research!Records(1..briefs) /\ DOMAIN <<>> = {}
            /\ JobOK(j, briefs, DOMAIN server)
    BY <1>0, NoRecords
  <2>2. PICK k : k = [j EXCEPT !.at = "answered", !.reply = <<>>]
    OBVIOUS
  <2>3. JobOK(k, briefs, DOMAIN server) /\ k.kind = j.kind
    BY <1>0, <2>1, <2>2, JobAnswered
  <2>4. handlers' = (handlers \ {j}) \cup {k}
    BY <1>9, <2>2 DEF research!Unanswered, research!Answer, research!Becomes
  <2> QED
    BY <1>0, <1>9, <2>3, <2>4 DEF research!Unanswered, ResearchInv, RunTypes, RunsAreKnown,
       research!LockIsHeld, research!shown
<1>10. ASSUME NEW id \in research!RunIds, research!ServerEnds(id) PROVE ResearchInv'
  <2>1. PICK end \in {"completed", "failed"} : server' = [server EXCEPT ![id] = end]
    BY <1>10 DEF research!ServerEnds
  <2>2. server' \in research!Records(1..briefs) /\ DOMAIN server' = DOMAIN server
    BY <1>0, <2>1, RecordsExcept DEF RunTypes, research!Statuses
  <2> QED
    BY <1>0, <1>10, <2>2 DEF research!ServerEnds, ResearchInv, RunTypes, RunsAreKnown,
       research!LockIsHeld, research!shown
<1>11. ASSUME NEW j \in handlers, research!LastEvent(j) PROVE ResearchInv'
  <2>1. /\ JobOK(j, briefs, DOMAIN server) /\ j.id \in 1..briefs /\ j.id \in DOMAIN server
    BY <1>0, <1>11 DEF research!LastEvent, JobOK
  <2>2. PICK k : k = [j EXCEPT !.told = TRUE]
    OBVIOUS
  <2>3. JobOK(k, briefs, DOMAIN server) /\ k.kind = j.kind
    BY <1>0, <2>1, <2>2, JobTold
  <2>4. handlers' = (handlers \ {j}) \cup {k}
    BY <1>11, <2>2 DEF research!LastEvent, research!Becomes
  <2>5. /\ history' \in research!Records(1..briefs) /\ DOMAIN history' \subseteq DOMAIN server
        /\ active' \in [id : 1..briefs, status : research!Statuses] \cup {None}
        /\ active' # None => active'.id \in DOMAIN server
    <3>1. CASE research!Heard(j.id, "completed")
      <4>1. history' \in research!Records(1..briefs)
                /\ DOMAIN history' = DOMAIN history \cup {j.id}
        <5>1. history \in research!Records(1..briefs) /\ "completed" \in research!Statuses
          BY <1>0 DEF RunTypes, research!Statuses
        <5>2. research!Put(history, j.id, "completed") \in research!Records(1..briefs)
          BY <2>1, <5>1, RecordsPut, Zenon
        <5>3. DOMAIN research!Put(history, j.id, "completed") = DOMAIN history \cup {j.id}
          BY DEF research!Put
        <5> QED
          BY <3>1, <5>2, <5>3 DEF research!Heard
      <4> QED
        BY <1>0, <2>1, <3>1, <4>1 DEF research!Heard, RunsAreKnown, research!Statuses
    <3>2. CASE UNCHANGED research!shown
      BY <1>0, <3>2 DEF research!shown, RunTypes, RunsAreKnown
    <3>3. CASE /\ active' = IF active = None THEN None ELSE [active EXCEPT !.status = "stopped"]
               /\ UNCHANGED history
      BY <1>0, <3>3 DEF RunTypes, RunsAreKnown, research!Statuses
    <3> QED
      BY <1>11, <3>1, <3>2, <3>3 DEF research!LastEvent
  <2> QED
    BY <1>0, <1>11, <2>3, <2>4, <2>5 DEF research!LastEvent, ResearchInv, RunTypes,
       RunsAreKnown, research!LockIsHeld
<1>12. ASSUME NEW j \in handlers, research!BodyEnds(j) PROVE ResearchInv'
  <2>1. JobOK(j, briefs, DOMAIN server) /\ j.kind = "run"
    BY <1>0, <1>12 DEF research!BodyEnds, JobOK
  <2>2. PICK k : k = [j EXCEPT !.at = "refresh"]
    OBVIOUS
  <2>3. JobOK(k, briefs, DOMAIN server) /\ k.kind = j.kind
    BY <1>0, <2>1, <2>2, JobMoves
  <2>4. handlers' = (handlers \ {j}) \cup {k}
    BY <1>12, <2>2 DEF research!BodyEnds, research!Becomes
  <2> QED
    BY <1>0, <1>12, <2>3, <2>4 DEF research!BodyEnds, ResearchInv, RunTypes, RunsAreKnown,
       research!LockIsHeld, research!shown
<1>13. ASSUME NEW j \in handlers, research!Loaded(j) PROVE ResearchInv'
  <2>1. /\ j.reply \in research!Records(1..briefs) /\ DOMAIN j.reply \subseteq DOMAIN server
        /\ j.kind = "load"
    BY <1>0, <1>13 DEF research!Loaded, JobOK
  <2>2. /\ active' \in [id : 1..briefs, status : research!Statuses] \cup {None}
        /\ active' # None => active'.id \in DOMAIN server
    <3>1. CASE active' = active
      BY <1>0, <3>1 DEF RunTypes, RunsAreKnown
    <3>2. CASE active' # active
      <4> DEFINE newest == CHOOSE id \in DOMAIN j.reply :
                             \A i \in DOMAIN j.reply : i <= id
      <4>1. j.reply # <<>> /\ active' = [id |-> newest, status |-> j.reply[newest]]
        BY <1>13, <3>2 DEF research!Loaded
      <4>2. newest \in DOMAIN j.reply
        <5>1. DOMAIN j.reply # {}
          BY <2>1, <4>1, NonEmpty
        <5>2. DOMAIN j.reply \subseteq 1..briefs /\ briefs \in Nat
          BY <1>0, <2>1, RecordsAre
        <5> QED
          BY <5>1, <5>2, LargestOf
      <4> HIDE DEF newest
      <4>3. newest \in 1..briefs /\ j.reply[newest] \in research!Statuses
        BY <2>1, <4>2, RecordsAre
      <4> QED
        BY <2>1, <4>1, <4>2, <4>3
    <3> QED
      BY <3>1, <3>2
  <2>3. handlers' = handlers \ {j} /\ busy' = busy
    BY <1>13 DEF research!Loaded
  <2>4. research!LockIsHeld'
    BY <1>0, <2>1, <2>3 DEF research!LockIsHeld
  <2>5. RunTypes' /\ RunsAreKnown'
    BY <1>0, <1>13, <2>1, <2>2 DEF research!Loaded, RunTypes, RunsAreKnown
  <2> QED
    BY <1>0, <1>13, <2>3, <2>4, <2>5 DEF research!Loaded, ResearchInv
<1>14. ASSUME NEW j \in handlers, research!Finally(j) PROVE ResearchInv'
  <2>1. JobOK(j, briefs, DOMAIN server)
    BY <1>0
  <2>2. /\ history' \in research!Records(1..briefs) /\ DOMAIN history' \subseteq DOMAIN server
        /\ active' \in [id : 1..briefs, status : research!Statuses] \cup {None}
        /\ active' # None => active'.id \in DOMAIN server
    <3>1. CASE j.reply = <<>>
      BY <1>0, <1>14, <3>1 DEF research!Finally, research!shown, RunTypes, RunsAreKnown
    <3>2. CASE j.reply # <<>>
      <4>1. j.id \in DOMAIN j.reply /\ j.reply \in research!Records(1..briefs)
                /\ j.id \in 1..briefs
            /\ j.id \in DOMAIN server
        BY <1>14, <2>1, <3>2 DEF research!Finally, JobOK
      <4>2. j.reply[j.id] \in research!Statuses
        BY <4>1, RecordsAre
      <4>3. /\ history' = research!Put(history, j.id, j.reply[j.id])
            /\ active' = [id |-> j.id, status |-> j.reply[j.id]]
        BY <1>14, <3>2 DEF research!Finally, research!Heard
      <4>4. history' \in research!Records(1..briefs)
                /\ DOMAIN history' = DOMAIN history \cup {j.id}
        <5>1. history \in research!Records(1..briefs)
          BY <1>0 DEF RunTypes
        <5>2. research!Put(history, j.id, j.reply[j.id]) \in research!Records(1..briefs)
          BY <4>1, <4>2, <5>1, RecordsPut, Zenon
        <5>3. DOMAIN research!Put(history, j.id, j.reply[j.id]) = DOMAIN history \cup {j.id}
          BY DEF research!Put
        <5> QED
          BY <4>3, <5>2, <5>3
      <4> QED
        BY <1>0, <4>1, <4>2, <4>3, <4>4 DEF RunsAreKnown
    <3> QED
      BY <3>1, <3>2
  <2>3. RunTypes' /\ RunsAreKnown' /\ research!LockIsHeld'
    BY <1>0, <1>14, <2>2 DEF research!Finally, RunTypes, RunsAreKnown, research!LockIsHeld
  <2> QED
    BY <1>0, <1>14, <2>3 DEF research!Finally, ResearchInv
<1>15. CASE UNCHANGED research!vars
  BY <1>0, <1>15 DEF research!vars, ResearchInv, RunTypes, RunsAreKnown, research!LockIsHeld
<1> QED
  BY <1>1, <1>2, <1>3, <1>4, <1>5, <1>6, <1>7, <1>8, <1>9, <1>10, <1>11, <1>12, <1>13,
     <1>14, <1>15 DEF research!Next

\* The invariant has the types of the model.
LEMMA ResearchTypeOK == ResearchInv => research!TypeOK
BY DEF ResearchInv, RunTypes, research!TypeOK, JobOK, Kinds, Places

\* Every behaviour of the page keeps the invariant.
LEMMA ResearchHolds == research!Spec => []ResearchInv
BY ResearchInit, ResearchStep, PTL DEF research!Spec

\* Seen at its own variables, a behaviour of the screens is one of this model.
LEMMA ImplementsResearch == Spec => research!Spec
<1>1. Init => research!Init
  BY DEF Init
<1>2. [Next]_vars => [research!Next]_(research!vars)
  BY DEF Next, ChatNext, WorkspaceNext, ComposerNext, ResearchNext, LearningNext,
     MembershipNext, OnboardingNext, AccountsNext, TasksNext, DocumentsNext, EmissionsNext,
     PermitNext, FieldNext, vars, desk, office, mobile, researches, research!vars
<1> QED
  BY <1>1, <1>2, PTL DEF Spec, research!Spec

\* The page, the runs it knows and the handlers under way are those of the model.
THEOREM ResearchPageTypes == Spec => []research!TypeOK
BY ResearchTypeOK, ResearchHolds, ImplementsResearch, PTL

\* The page is locked only while a handler is under way that will free it, whatever
\* answers are lost, runs stopped and handlers overlap: the buttons do not stay
\* disabled (ResearchClient.tsx).
THEOREM LockIsFreed == Spec => []LockIsHeld
<1>1. ResearchInv => LockIsHeld
  BY DEF ResearchInv, LockIsHeld
<1> QED
  BY <1>1, ResearchHolds, ImplementsResearch, PTL

-----------------------------------------------------------------------------
(* The consoles of what was learnt. *)

Memory == [kind : {"preference", "terminology"}, status : {"active", "archived"},
    body : learning!Bodies]
Ats == {"sent", "checked", "refused", "done"}

\* A mutation of the console: what creates a memory has its body.
SaveOK(s) ==
    /\ s \in [section : learning!Sections, at : Ats, body : learning!Bodies \cup {None},
              about : Rated \cup Terms \cup learning!MemoryIds \cup {None}]
    /\ s.section # "archive" => s.body \in learning!Bodies

ConsoleTypes ==
    /\ behind \in BOOLEAN
    /\ rating \in [Rated -> {"up", "down", None}]
    /\ DOMAIN memories \subseteq learning!MemoryIds
    /\ \A m \in DOMAIN memories : memories[m] \in Memory
    /\ listed \in (SUBSET learning!MemoryIds) \cup {None}
    /\ fetch \in [at : {"idle", "sent", "answered"}, rows : SUBSET learning!MemoryIds]
    /\ promoting \in Rated \cup {None} /\ approving \in Terms \cup {None}
    /\ \A s \in saves : SaveOK(s)

NoSaveDone == \A s \in saves : s.at # "done"

\* What is shown, or is on its way to be, is what the server has: a fetch that was
\* answered too, while nothing changed that the page does not know of.
NoOlderView ==
    ~behind /\ NoSaveDone =>
       /\ fetch = learning!Idle => listed = learning!Active
       /\ fetch.at = "answered" => fetch.rows = learning!Active

ConsoleInv == ConsoleTypes /\ NoOlderView

-----------------------------------------------------------------------------
\* The active memories are memories.
LEMMA ActiveIds == ASSUME ConsoleTypes PROVE learning!Active \subseteq learning!MemoryIds
BY DEF ConsoleTypes, learning!Active

\* A change of the memories that leaves the view as it is, by a save that is done.
LEMMA DoneSave ==
    ASSUME ConsoleTypes, NEW s \in saves, learning!Steps(s, "done")
    PROVE  (\A x \in saves' : SaveOK(x)) /\ ~NoSaveDone'
<1>1. PICK k : k = [s EXCEPT !.at = "done"]
  OBVIOUS
<1>2. SaveOK(k) /\ k.at = "done"
  BY <1>1 DEF ConsoleTypes, SaveOK, Ats
<1>3. saves' = (saves \ {s}) \cup {k}
  BY <1>1 DEF learning!Steps
<1> QED
  BY <1>2, <1>3 DEF ConsoleTypes, NoSaveDone

\* A mutation that is sent leaves the view as it is.
LEMMA SaveStarts ==
    ASSUME ConsoleInv, NEW section \in learning!Sections, NEW body, NEW about,
        learning!Save(section, body, about),
           body \in learning!Bodies \/ (section = "archive" /\ body = None),
           about \in Rated \cup Terms \cup learning!MemoryIds \cup {None}
    PROVE  ConsoleInv'
<1>1. PICK k : k = [section |-> section, at |-> "sent", body |-> body, about |-> about]
  OBVIOUS
<1>2. SaveOK(k) /\ k.at = "sent"
  BY <1>1 DEF SaveOK, Ats
<1>3. saves' = saves \cup {k}
  BY <1>1 DEF learning!Save
<1>4. NoSaveDone' <=> NoSaveDone
  BY <1>2, <1>3 DEF NoSaveDone
<1>5. learning!Active' = learning!Active /\ ConsoleTypes'
  BY <1>2, <1>3 DEF learning!Save, ConsoleInv, ConsoleTypes, learning!server, learning!view,
     learning!dialogs, learning!Active
<1> QED
  BY <1>4, <1>5 DEF learning!Save, ConsoleInv, NoOlderView, learning!server, learning!view,
     learning!dialogs

\* The model's own copy of the size of a set.
LEMMA ConsoleCount == \A S : learning!Cardinality(S) = Cardinality(S)
BY DEF learning!Cardinality, Cardinality

\* What the server makes of a mutation is a memory.
LEMMA MemoriesCreated ==
    ASSUME ConsoleTypes, NEW kind \in {"preference", "terminology"},
           NEW body \in learning!Bodies, learning!Created(kind, body)
    PROVE  /\ DOMAIN memories' \subseteq learning!MemoryIds
           /\ \A m \in DOMAIN memories' : memories'[m] \in Memory
<1> DEFINE n == Cardinality(DOMAIN memories) + 1
<1>1. n \in learning!MemoryIds
  <2>1. IsFiniteSet(learning!MemoryIds) /\ DOMAIN memories \subseteq learning!MemoryIds
    <3>1. 1 \in Int /\ MaxMemories \in Int
      BY LearningAssumption
    <3>2. IsFiniteSet(1..MaxMemories)
      BY <3>1, FS_Interval
    <3> QED
      BY <3>2 DEF learning!MemoryIds, ConsoleTypes
  <2>2. Cardinality(DOMAIN memories) \in Nat
    BY <2>1, FS_Subset, FS_CardinalityType
  <2> QED
    BY <2>2, ConsoleCount, LearningAssumption DEF learning!Created, learning!MemoryIds
<1>2. PICK v : v = [kind |-> kind, status |-> "active", body |-> body]
  OBVIOUS
<1>3. v \in Memory
  BY <1>2 DEF Memory
<1>4. memories' = learning!Put(memories, n, v)
  BY <1>2, ConsoleCount DEF learning!Created
<1> HIDE DEF n
<1>5. DOMAIN memories' = DOMAIN memories \cup {n}
  BY <1>4 DEF learning!Put
<1>6. \A m \in DOMAIN memories' : memories'[m] = IF m = n THEN v ELSE memories[m]
  BY <1>4 DEF learning!Put
<1> QED
  BY <1>1, <1>3, <1>5, <1>6 DEF ConsoleTypes

\* Both consoles before anything was asked for.
LEMMA ConsoleInit == learning!Init => ConsoleInv
<1> SUFFICES ASSUME learning!Init PROVE ConsoleInv
  OBVIOUS
<1>1. DOMAIN memories = {}
  BY DEF learning!Init
<1> QED
  BY <1>1 DEF learning!Init, ConsoleInv, ConsoleTypes, NoOlderView, learning!Sent, learning!Idle

\* Every step of the consoles and of the server keeps the invariant.
LEMMA ConsoleStep == ConsoleInv /\ [learning!Next]_(learning!vars) => ConsoleInv'
<1> SUFFICES ASSUME ConsoleInv, [learning!Next]_(learning!vars) PROVE ConsoleInv'
  OBVIOUS
<1>0. ConsoleTypes /\ NoOlderView
  BY DEF ConsoleInv
<1> USE DEF learning!server, learning!view, learning!dialogs
<1>1. ASSUME NEW t \in Rated, NEW r \in {"up", "down"}, learning!SubmitFeedback(t, r)
          PROVE ConsoleInv'
  BY <1>0, <1>1 DEF learning!SubmitFeedback, ConsoleInv, ConsoleTypes, NoOlderView, NoSaveDone,
     learning!Active
<1>2. CASE learning!Refetch
  BY <1>0, <1>2 DEF learning!Refetch, ConsoleInv, ConsoleTypes, NoOlderView, NoSaveDone,
     learning!Active, learning!Idle, learning!Sent
<1>3. CASE learning!FetchServed
  <2>1. /\ fetch' = [at |-> "answered", rows |-> learning!Active]
             /\ learning!Active' = learning!Active
        /\ behind' = FALSE
             /\ UNCHANGED <<rating, memories, listed, promoting, approving, saves>>
    BY <1>3 DEF learning!FetchServed, learning!Active
  <2>2. ConsoleTypes'
    BY <1>0, <2>1, ActiveIds DEF ConsoleTypes
  <2>3. NoOlderView'
    BY <2>1 DEF NoOlderView, learning!Idle
  <2> QED
    BY <2>2, <2>3 DEF ConsoleInv
<1>4. CASE learning!FetchEnds
  <2>1. learning!Active' = learning!Active /\ NoSaveDone' = NoSaveDone
    BY <1>4 DEF learning!FetchEnds, learning!Active, NoSaveDone
  <2>2. ConsoleTypes'
    BY <1>0, <1>4 DEF learning!FetchEnds, ConsoleTypes, learning!Idle
  <2>3. NoOlderView'
    BY <1>0, <1>4, <2>1 DEF learning!FetchEnds, NoOlderView, learning!Idle
  <2> QED
    BY <2>2, <2>3 DEF ConsoleInv
<1>5. ASSUME NEW t \in Rated, learning!StartPromote(t) PROVE ConsoleInv'
  BY <1>0, <1>5 DEF learning!StartPromote, ConsoleInv, ConsoleTypes, NoOlderView, NoSaveDone,
     learning!Active
<1>6. ASSUME NEW t \in Terms, learning!StartApprove(t) PROVE ConsoleInv'
  BY <1>0, <1>6 DEF learning!StartApprove, ConsoleInv, ConsoleTypes, NoOlderView, NoSaveDone,
     learning!Active
<1>7. CASE learning!Cancel
  BY <1>0, <1>7 DEF learning!Cancel, ConsoleInv, ConsoleTypes, NoOlderView, NoSaveDone,
     learning!Active
<1>8. ASSUME NEW t \in Terms, learning!SavePromotion(learning!Sentence(t)) PROVE ConsoleInv'
  <2>1. learning!Sentence(t) \in learning!Bodies /\ promoting \in Rated
    BY <1>0, <1>8 DEF learning!SavePromotion, learning!Sentence, learning!Bodies, ConsoleTypes
  <2> QED
    BY <1>8, <2>1, SaveStarts, Zenon DEF learning!SavePromotion, learning!Sections
<1>9. ASSUME NEW t \in Terms, learning!AddMemory(learning!Sentence(t)) PROVE ConsoleInv'
  <2>1. learning!Sentence(t) \in learning!Bodies
    BY DEF learning!Sentence, learning!Bodies
  <2> QED
    BY <1>9, <2>1, SaveStarts, Zenon DEF learning!AddMemory, learning!Sections
<1>10. ASSUME NEW m \in learning!MemoryIds, learning!ArchiveMemory(m) PROVE ConsoleInv'
  BY <1>10, SaveStarts DEF learning!ArchiveMemory, learning!Sections
<1>11. ASSUME NEW bare \in BOOLEAN, learning!SaveGlossaryEntry(bare) PROVE ConsoleInv'
  <2>1. PICK body : body = [term |-> approving, bare |-> bare]
    OBVIOUS
  <2>2. body \in learning!Bodies /\ approving \in Terms
            /\ learning!Save("approve", body, approving)
    BY <1>0, <1>11, <2>1 DEF learning!SaveGlossaryEntry, learning!Bodies, ConsoleTypes
  <2> QED
    BY <2>2, SaveStarts, Zenon DEF learning!Sections
<1>12. ASSUME NEW s \in saves, learning!CheckPromotion(s) PROVE ConsoleInv'
  <2>1. PICK k : k = [s EXCEPT !.at = IF rating[s.about] = "down" THEN "checked" ELSE "refused"]
    OBVIOUS
  <2>2. SaveOK(k) /\ k.at # "done"
    BY <1>0, <2>1 DEF ConsoleTypes, SaveOK, Ats
  <2>3. saves' = (saves \ {s}) \cup {k} /\ s.at # "done"
    BY <1>12, <2>1 DEF learning!CheckPromotion, learning!Steps
  <2>4. NoSaveDone' <=> NoSaveDone
    BY <2>2, <2>3 DEF NoSaveDone
  <2>5. ConsoleTypes' /\ learning!Active' = learning!Active
    BY <1>0, <1>12, <2>2, <2>3 DEF learning!CheckPromotion, ConsoleTypes, learning!Active
  <2> QED
    BY <1>0, <1>12, <2>4, <2>5 DEF learning!CheckPromotion, ConsoleInv, NoOlderView
<1>13. ASSUME NEW s \in saves, learning!Execute(s) PROVE ConsoleInv'
  <2>1. SaveOK(s) /\ learning!Steps(s, "done")
    BY <1>0, <1>13 DEF learning!Execute, ConsoleTypes
  <2>2. /\ DOMAIN memories' \subseteq learning!MemoryIds
        /\ \A m \in DOMAIN memories' : memories'[m] \in Memory
    <3>1. ASSUME NEW kind \in {"preference", "terminology"}, s.section # "archive",
                 learning!Created(kind, s.body)
          PROVE  /\ DOMAIN memories' \subseteq learning!MemoryIds
                 /\ \A m \in DOMAIN memories' : memories'[m] \in Memory
      BY <1>0, <2>1, <3>1, MemoriesCreated DEF SaveOK
    <3>2. CASE memories' = [memories EXCEPT ![s.about].status = "archived"]
      <4>1. DOMAIN memories' = DOMAIN memories
        BY <3>2
      <4>2. \A m \in DOMAIN memories' :
              memories'[m] = memories[m] \/ memories'[m]
                  = [memories[m] EXCEPT !.status = "archived"]
        BY <3>2, <4>1
      <4> QED
        BY <1>0, <4>1, <4>2 DEF ConsoleTypes, Memory
    <3> QED
      BY <1>13, <3>1, <3>2 DEF learning!Execute
  <2>3. (\A x \in saves' : SaveOK(x)) /\ ~NoSaveDone'
    BY <1>0, <2>1, DoneSave
  <2>4. ConsoleTypes'
    BY <1>0, <1>13, <2>2, <2>3 DEF learning!Execute, ConsoleTypes
  <2> QED
    BY <2>3, <2>4 DEF ConsoleInv, NoOlderView
<1>14. ASSUME NEW s \in saves, learning!Succeeds(s) PROVE ConsoleInv'
  <2>1. ConsoleTypes'
    BY <1>0, <1>14 DEF learning!Succeeds, ConsoleTypes, learning!Sent
  <2>2. learning!Active' = learning!Active
    BY <1>14 DEF learning!Succeeds, learning!Active
  <2>3. NoOlderView'
    <3>1. CASE fetch' = learning!Sent
      BY <3>1 DEF NoOlderView, learning!Sent, learning!Idle
    <3>2. CASE learning!FirstLoad /\ fetch' = fetch /\ fetch.at # "answered"
      BY <3>2 DEF learning!FirstLoad, NoOlderView
    <3>3. CASE learning!FirstLoad /\ fetch.at = "answered"
      BY <1>14, <3>3 DEF learning!Succeeds, NoOlderView
    <3> QED
      BY <1>14, <3>1, <3>2, <3>3 DEF learning!Succeeds
  <2> QED
    BY <2>1, <2>3 DEF ConsoleInv
<1>15. ASSUME NEW s \in saves, learning!Fails(s) PROVE ConsoleInv'
  <2>1. ConsoleTypes' /\ learning!Active' = learning!Active
    BY <1>0, <1>15 DEF learning!Fails, ConsoleTypes, learning!Active
  <2>2. ~behind' /\ NoSaveDone' => ~behind /\ NoSaveDone
    BY <1>15 DEF learning!Fails, NoSaveDone
  <2> QED
    BY <1>0, <1>15, <2>1, <2>2 DEF learning!Fails, ConsoleInv, NoOlderView
<1>16. ASSUME NEW m \in learning!MemoryIds, learning!ElsewhereArchived(m) PROVE ConsoleInv'
  <2>1. memories' = [memories EXCEPT ![m].status = "archived"]
            /\ DOMAIN memories' = DOMAIN memories
    BY <1>16 DEF learning!ElsewhereArchived
  <2>2. \A i \in DOMAIN memories' :
          memories'[i] = memories[i] \/ memories'[i]
              = [memories[i] EXCEPT !.status = "archived"]
    BY <2>1
  <2>3. \A i \in DOMAIN memories' : memories'[i] \in Memory
    BY <1>0, <2>1, <2>2 DEF ConsoleTypes, Memory
  <2> QED
    BY <1>0, <1>16, <2>1, <2>3 DEF learning!ElsewhereArchived, ConsoleInv, ConsoleTypes,
       NoOlderView
<1>17. CASE UNCHANGED learning!vars
  BY <1>0, <1>17 DEF learning!vars, ConsoleInv, ConsoleTypes, NoOlderView, NoSaveDone,
     learning!Active
<1> QED
  BY <1>1, <1>2, <1>3, <1>4, <1>5, <1>6, <1>7, <1>8, <1>9, <1>10, <1>11, <1>12, <1>13,
     <1>14, <1>15, <1>16, <1>17 DEF learning!Next

\* The invariant has the types of the model.
LEMMA ConsoleTypeOK == ConsoleInv => learning!TypeOK
BY DEF ConsoleInv, ConsoleTypes, learning!TypeOK, SaveOK, Ats, Memory

\* With nothing under way, the view is what is active.
LEMMA ConsoleIsCurrent == ConsoleInv => learning!ListIsCurrent
BY DEF ConsoleInv, NoOlderView, NoSaveDone, learning!ListIsCurrent

\* Every behaviour of the consoles keeps the invariant.
LEMMA ConsoleHolds == learning!Spec => []ConsoleInv
BY ConsoleInit, ConsoleStep, PTL DEF learning!Spec

\* Seen at its own variables, a behaviour of the screens is one of this model.
LEMMA ImplementsLearning == Spec => learning!Spec
<1>1. Init => learning!Init
  BY DEF Init
<1>2. [Next]_vars => [learning!Next]_(learning!vars)
  BY DEF Next, ChatNext, WorkspaceNext, ComposerNext, ResearchNext, LearningNext,
     MembershipNext, OnboardingNext, AccountsNext, TasksNext, DocumentsNext, EmissionsNext,
     PermitNext, FieldNext, vars, desk, office, mobile, console, learning!vars
<1> QED
  BY <1>1, <1>2, PTL DEF Spec, learning!Spec

\* The ratings, the memories and the mutations under way are those of the model.
THEOREM ConsoleIsTyped == Spec => []learning!TypeOK
BY ConsoleTypeOK, ConsoleHolds, ImplementsLearning, PTL

-----------------------------------------------------------------------------
(* The tasks. *)

WriteOK(w) ==
    w \in [kind : compliance!Kinds, id : compliance!TaskIds
        \cup {compliance!New, compliance!Closed, None}, act : compliance!Acts \cup {None},
           recurs : BOOLEAN, at : {"sent", "done"}]

\* Rows of the table tasks, as the server has them or a list once had.
IsTable(seen) == \A t \in DOMAIN seen : seen[t] \in compliance!Task

AgendaTypes ==
    /\ DOMAIN tasks \subseteq compliance!TaskIds /\ IsTable(tasks)
    /\ filter \in compliance!Filters
    /\ DOMAIN cached = compliance!Filters
    /\ \A f \in compliance!Filters : cached[f] = None \/ IsTable(cached[f])
    /\ invalid \subseteq compliance!Filters /\ astray \subseteq compliance!Filters
    /\ loading.at \in {"idle", "sent", "answered"} /\ IsTable(loading.rows)
    /\ dialog \in compliance!TaskIds \cup {compliance!New, compliance!Closed}
    /\ doomed \in compliance!TaskIds \cup {None}
    /\ tried \in 0..MaxChanges
    /\ \A w \in writes : WriteOK(w)

NoWriteDone == \A w \in writes : w.at # "done"

\* A list is only fetched where there is none or it is invalidated.
FetchedForNeed == loading # compliance!Idle => cached[filter] = None \/ filter \in invalid

\* Where nothing changed that the page does not know of, what is shown, what is
\* on its way and what another filter keeps without being invalidated is what the
\* server has.
NoOlderTable ==
    NoWriteDone =>
       /\ loading = compliance!Idle /\ filter \notin astray => cached[filter] = tasks
       /\ loading.at = "answered" /\ filter \notin astray => loading.rows = tasks
       /\ \A f \in compliance!Filters : /\ f # filter /\ f \notin astray
                             /\ cached[f] # None /\ f \notin invalid
                             => cached[f] = tasks

AgendaInv == AgendaTypes /\ FetchedForNeed /\ NoOlderTable

-----------------------------------------------------------------------------
\* A request that was served is done, and its answer is awaited.
LEMMA DoneWrite ==
    ASSUME AgendaTypes, NEW w \in writes, compliance!Served(w)
    PROVE  (\A x \in writes' : WriteOK(x)) /\ ~NoWriteDone'
<1>1. PICK k : k = [w EXCEPT !.at = "done"]
  OBVIOUS
<1>2. WriteOK(k) /\ k.at = "done"
  BY <1>1 DEF AgendaTypes, WriteOK
<1>3. writes' = (writes \ {w}) \cup {k}
  BY <1>1 DEF compliance!Served
<1> QED
  BY <1>2, <1>3 DEF AgendaTypes, NoWriteDone

\* A change of the table by a mutation that is done.
LEMMA TableChanges ==
    ASSUME AgendaInv, NEW w \in writes, compliance!Served(w),
           DOMAIN tasks' \subseteq compliance!TaskIds, IsTable(tasks'),
           UNCHANGED <<compliance!lists, loading, compliance!dialogs, astray, tried>>
    PROVE  AgendaInv'
<1>1. AgendaTypes /\ FetchedForNeed
  BY DEF AgendaInv
<1>2. (\A x \in writes' : WriteOK(x)) /\ ~NoWriteDone'
  BY <1>1, DoneWrite
<1>3. AgendaTypes' /\ FetchedForNeed'
  BY <1>1, <1>2 DEF AgendaTypes, FetchedForNeed, compliance!lists, compliance!dialogs, IsTable
<1> QED
  BY <1>2, <1>3 DEF AgendaInv, NoOlderTable

\* A request that is sent leaves the tables as they are.
LEMMA WriteStarts ==
    ASSUME AgendaInv, NEW kind \in compliance!Kinds, NEW id \in compliance!TaskIds
        \cup {compliance!New, compliance!Closed, None},
           NEW act \in compliance!Acts \cup {None}, NEW recurs \in BOOLEAN,
               compliance!Mutate(kind, id, act, recurs)
    PROVE  AgendaInv'
<1>1. PICK k : k = [kind |-> kind, id |-> id, act |-> act, recurs |-> recurs, at |-> "sent"]
  OBVIOUS
<1>2. WriteOK(k) /\ k.at = "sent"
  BY <1>1 DEF WriteOK
<1>3. writes' = writes \cup {k}
  BY <1>1 DEF compliance!Mutate
<1>4. NoWriteDone' <=> NoWriteDone
  BY <1>2, <1>3 DEF NoWriteDone
<1>5. tried' \in 0..MaxChanges
  BY TasksAssumption DEF compliance!Mutate, AgendaInv, AgendaTypes
<1>6. UNCHANGED <<tasks, filter, cached, invalid, loading, dialog, doomed, astray>>
  BY DEF compliance!Mutate, compliance!lists, compliance!dialogs
<1>7. AgendaTypes'
  BY <1>2, <1>3, <1>5, <1>6 DEF AgendaInv, AgendaTypes, IsTable
<1>8. FetchedForNeed' /\ NoOlderTable'
  BY <1>4, <1>6 DEF AgendaInv, FetchedForNeed, NoOlderTable
<1> QED
  BY <1>7, <1>8 DEF AgendaInv

\* A task that is completed is a task.
LEMMA CompletedIsTask ==
    ASSUME NEW task \in compliance!Task, task.next \in (0..MaxRounds - 1) \cup {None}
    PROVE  compliance!Completed(task) \in compliance!Task
<1>1. CASE task.next = None
  BY <1>1 DEF compliance!Completed, compliance!Task
<1>2. CASE task.next # None
  <2>1. task.next + 1 \in 0..MaxRounds
    BY <1>2, TasksAssumption
  <2> QED
    BY <1>2, <2>1 DEF compliance!Completed, compliance!Task
<1> QED
  BY <1>1, <1>2

\* One row is replaced by another.
LEMMA RowReplaced ==
    ASSUME AgendaTypes, NEW t, NEW row \in compliance!Task, tasks' = [tasks EXCEPT ![t] = row]
    PROVE  DOMAIN tasks' \subseteq compliance!TaskIds /\ IsTable(tasks')
<1>1. DOMAIN tasks' = DOMAIN tasks
  OBVIOUS
<1>2. \A i \in DOMAIN tasks' : tasks'[i] = row \/ tasks'[i] = tasks[i]
  BY <1>1
<1> QED
  BY <1>1, <1>2 DEF AgendaTypes, IsTable

\* The page before its first list.
LEMMA AgendaInit == compliance!Init => AgendaInv
<1> SUFFICES ASSUME compliance!Init PROVE AgendaInv
  OBVIOUS
<1>1. PICK row : row = [status |-> "active", next |-> 0]
  OBVIOUS
<1>2. row \in compliance!Task
  BY <1>1, TasksAssumption DEF compliance!Task
<1>3. DOMAIN tasks = compliance!TaskIds /\ IsTable(tasks)
  BY <1>1, <1>2 DEF compliance!Init, IsTable
<1>4. DOMAIN cached = compliance!Filters /\ \A f \in compliance!Filters : cached[f] = None
  BY DEF compliance!Init
<1>5. loading.at = "sent" /\ DOMAIN loading.rows = {} /\ filter \in compliance!Filters
  BY DEF compliance!Init, compliance!Sent, compliance!Filters
<1>6. AgendaTypes
  BY <1>3, <1>4, <1>5, TasksAssumption DEF compliance!Init, AgendaTypes, IsTable
<1>7. FetchedForNeed /\ NoOlderTable
  BY <1>4, <1>5 DEF FetchedForNeed, NoOlderTable, compliance!Idle
<1> QED
  BY <1>6, <1>7 DEF AgendaInv

\* Every step of the page and of the server keeps the invariant.
LEMMA AgendaStep == AgendaInv /\ [compliance!Next]_(compliance!vars) => AgendaInv'
<1> SUFFICES ASSUME AgendaInv, [compliance!Next]_(compliance!vars) PROVE AgendaInv'
  OBVIOUS
<1>0. AgendaTypes /\ FetchedForNeed /\ NoOlderTable
  BY DEF AgendaInv
<1>a. /\ compliance!Sent.at = "sent" /\ compliance!Sent # compliance!Idle
           /\ compliance!Idle.at = "idle"
      /\ IsTable(compliance!Sent.rows) /\ IsTable(compliance!Idle.rows)
  BY DEF compliance!Sent, compliance!Idle, IsTable
<1> USE DEF compliance!lists, compliance!dialogs, compliance!mutations
<1>1. ASSUME NEW f \in compliance!Filters, compliance!SetFilter(f) PROVE AgendaInv'
  <2>1. /\ filter' = f /\ f # filter
        /\ UNCHANGED <<tasks, cached, invalid, dialog, doomed, writes, tried>>
        /\ loading' = IF cached[f] = None \/ f \in invalid
                       THEN compliance!Sent ELSE compliance!Idle
        /\ astray' = IF loading.at = "answered" THEN astray \cup {filter} ELSE astray
    BY <1>1 DEF compliance!SetFilter
  <2>2. AgendaTypes'
    <3>1. loading' = compliance!Sent \/ loading' = compliance!Idle
      BY <2>1
    <3>2. astray' \subseteq compliance!Filters
      BY <1>0, <2>1 DEF AgendaTypes
    <3> QED
      BY <1>0, <1>a, <2>1, <3>1, <3>2 DEF AgendaTypes, IsTable
  <2>3. FetchedForNeed'
    BY <2>1 DEF FetchedForNeed
  <2>4. NoOlderTable'
    <3> SUFFICES ASSUME NoWriteDone' PROVE NoOlderTable'
      BY DEF NoOlderTable
    <3>1. NoWriteDone
      BY <2>1 DEF NoWriteDone
    <3>2. loading' = compliance!Idle /\ filter' \notin astray' => cached'[filter'] = tasks'
      BY <1>0, <1>a, <2>1, <3>1 DEF NoOlderTable
    <3>3. loading'.at # "answered"
      BY <1>a, <2>1
    <3>4. ASSUME NEW g \in compliance!Filters, g # filter', g \notin astray', cached'[g] # None,
                 g \notin invalid'
          PROVE  cached'[g] = tasks'
      <4>1. CASE g = filter
        <5>1. loading = compliance!Idle
          BY <1>0, <2>1, <3>4, <4>1 DEF FetchedForNeed
        <5> QED
          BY <1>0, <2>1, <3>1, <3>4, <4>1, <5>1 DEF NoOlderTable
      <4>2. CASE g # filter
        BY <1>0, <2>1, <3>1, <3>4, <4>2 DEF NoOlderTable
      <4> QED
        BY <4>1, <4>2
    <3> QED
      BY <3>2, <3>3, <3>4 DEF NoOlderTable
  <2> QED
    BY <2>2, <2>3, <2>4 DEF AgendaInv
<1>2. CASE compliance!ListServed
  <2>1. /\ loading = compliance!Sent /\ loading'.at = "answered" /\ loading'.rows = tasks
        /\ loading' # compliance!Idle /\ astray' = astray \ {filter}
        /\ UNCHANGED <<tasks, filter, cached, invalid, dialog, doomed, writes, tried>>
    BY <1>2 DEF compliance!ListServed, compliance!Idle
  <2>2. AgendaTypes'
    BY <1>0, <2>1 DEF AgendaTypes, IsTable
  <2>3. FetchedForNeed'
    BY <1>0, <1>a, <2>1 DEF FetchedForNeed
  <2>4. NoOlderTable'
    BY <1>0, <2>1 DEF NoOlderTable, NoWriteDone
  <2> QED
    BY <2>2, <2>3, <2>4 DEF AgendaInv
<1>3. CASE compliance!ListArrives
  <2>1. /\ loading.at = "answered" /\ loading' = compliance!Idle
             /\ invalid' = invalid \ {filter}
        /\ cached' = [cached EXCEPT ![filter] = loading.rows]
        /\ UNCHANGED <<tasks, filter, dialog, doomed, writes, tried, astray>>
    BY <1>3 DEF compliance!ListArrives
  <2>2. /\ DOMAIN cached' = compliance!Filters /\ cached'[filter] = loading.rows
        /\ \A f \in compliance!Filters : f # filter => cached'[f] = cached[f]
    BY <1>0, <2>1 DEF AgendaTypes
  <2>3. AgendaTypes'
    BY <1>0, <1>a, <2>1, <2>2 DEF AgendaTypes, IsTable
  <2>4. FetchedForNeed'
    BY <2>1 DEF FetchedForNeed
  <2>5. NoOlderTable'
    BY <1>0, <1>a, <2>1, <2>2 DEF NoOlderTable, NoWriteDone
  <2> QED
    BY <2>3, <2>4, <2>5 DEF AgendaInv
<1>4. CASE compliance!ListFails
  <2>1. /\ loading' = compliance!Idle /\ astray' = astray \cup {filter}
        /\ UNCHANGED <<tasks, filter, cached, invalid, dialog, doomed, writes, tried>>
    BY <1>4 DEF compliance!ListFails
  <2>2. AgendaTypes'
    BY <1>0, <1>a, <2>1 DEF AgendaTypes, IsTable
  <2>3. FetchedForNeed' /\ NoOlderTable'
    BY <1>0, <1>a, <2>1 DEF FetchedForNeed, NoOlderTable, NoWriteDone
  <2> QED
    BY <2>2, <2>3 DEF AgendaInv
<1>5. CASE compliance!OpenForm
  <2>1. UNCHANGED <<tasks, filter, cached, invalid, loading, doomed, writes, tried, astray>>
    BY <1>5 DEF compliance!OpenForm
  <2>2. dialog' \in compliance!TaskIds \cup {compliance!New, compliance!Closed}
    BY <1>5 DEF compliance!OpenForm
  <2> QED
    BY <1>0, <2>1, <2>2 DEF AgendaInv, AgendaTypes, FetchedForNeed, NoOlderTable, NoWriteDone,
       IsTable
<1>6. ASSUME NEW t \in compliance!TaskIds, compliance!AskToDelete(t) PROVE AgendaInv'
  <2>1. /\ doomed' \in compliance!TaskIds
        /\ UNCHANGED <<tasks, filter, cached, invalid, loading, dialog, writes, tried, astray>>
    BY <1>6 DEF compliance!AskToDelete
  <2> QED
    BY <1>0, <2>1 DEF AgendaInv, AgendaTypes, FetchedForNeed, NoOlderTable, NoWriteDone, IsTable
<1>7. CASE compliance!Close
  <2>1. /\ doomed' = None /\ dialog' = compliance!Closed
        /\ UNCHANGED <<tasks, filter, cached, invalid, loading, writes, tried, astray>>
    BY <1>7 DEF compliance!Close
  <2> QED
    BY <1>0, <2>1 DEF AgendaInv, AgendaTypes, FetchedForNeed, NoOlderTable, NoWriteDone, IsTable
<1>8. ASSUME NEW recurs \in BOOLEAN, compliance!SubmitForm(recurs) PROVE AgendaInv'
  <2>1. dialog \in compliance!TaskIds \cup {compliance!New, compliance!Closed, None}
            /\ None \in compliance!Acts \cup {None}
    BY <1>0 DEF AgendaTypes
  <2>2. PICK kind \in compliance!Kinds : compliance!Mutate(kind, dialog, None, recurs)
    BY <1>8 DEF compliance!SubmitForm, compliance!Kinds
  <2> QED
    BY <2>1, <2>2, WriteStarts
<1>9. CASE compliance!ConfirmDelete
  <2>1. doomed \in compliance!TaskIds \cup {compliance!New, compliance!Closed, None}
            /\ None \in compliance!Acts \cup {None}
        /\ "destroy" \in compliance!Kinds /\ FALSE \in BOOLEAN
    BY <1>0 DEF AgendaTypes, compliance!Kinds
  <2>2. compliance!Mutate("destroy", doomed, None, FALSE)
    BY <1>9 DEF compliance!ConfirmDelete
  <2> QED
    BY <2>1, <2>2, WriteStarts
<1>10. ASSUME NEW t \in compliance!TaskIds, NEW act \in compliance!Acts,
           compliance!TaskAction(t, act) PROVE AgendaInv'
  <2>1. t \in compliance!TaskIds \cup {compliance!New, compliance!Closed, None}
            /\ act \in compliance!Acts \cup {None}
        /\ "action" \in compliance!Kinds /\ FALSE \in BOOLEAN
    BY DEF compliance!Kinds
  <2>2. compliance!Mutate("action", t, act, FALSE)
    BY <1>10 DEF compliance!TaskAction
  <2> QED
    BY <2>1, <2>2, WriteStarts
<1>11. ASSUME NEW w \in writes, compliance!CreateTask(w) PROVE AgendaInv'
  <2>1. PICK t \in compliance!TaskIds : tasks'
            = compliance!Put(tasks, t, [status |-> "active", next |-> compliance!First(w)])
    BY <1>11 DEF compliance!CreateTask
  <2>2. PICK row : row = [status |-> "active", next |-> compliance!First(w)]
    OBVIOUS
  <2>3. row \in compliance!Task
    BY <2>2, TasksAssumption DEF compliance!Task, compliance!First
  <2>4. /\ DOMAIN tasks' = DOMAIN tasks \cup {t}
        /\ \A i \in DOMAIN tasks' : tasks'[i] = IF i = t THEN row ELSE tasks[i]
    BY <2>1, <2>2 DEF compliance!Put
  <2>5. DOMAIN tasks' \subseteq compliance!TaskIds /\ IsTable(tasks')
    BY <1>0, <2>3, <2>4 DEF AgendaTypes, IsTable
  <2> QED
    BY <1>11, <2>5, TableChanges DEF compliance!CreateTask
<1>12. ASSUME NEW w \in writes, compliance!Missing(w) PROVE AgendaInv'
  <2>1. /\ writes' = writes \ {w} /\ w.at # "done"
        /\ UNCHANGED <<tasks, filter, cached, invalid, loading, dialog, doomed, astray, tried>>
    BY <1>12 DEF compliance!Missing
  <2>2. NoWriteDone' <=> NoWriteDone
    BY <2>1 DEF NoWriteDone
  <2>3. AgendaTypes'
    BY <1>0, <2>1 DEF AgendaTypes, IsTable
  <2>4. FetchedForNeed' /\ NoOlderTable'
    BY <1>0, <2>1, <2>2 DEF FetchedForNeed, NoOlderTable
  <2> QED
    BY <2>3, <2>4 DEF AgendaInv
<1>13. ASSUME NEW w \in writes, compliance!UpdateTask(w) PROVE AgendaInv'
  <2>1. DOMAIN tasks' \subseteq compliance!TaskIds /\ IsTable(tasks')
    <3>1. CASE tasks' = tasks
      BY <1>0, <3>1 DEF AgendaTypes, IsTable
    <3>2. CASE tasks' = [tasks EXCEPT ![w.id].next = compliance!First(w)]
      <4>1. PICK row : row = [tasks[w.id] EXCEPT !.next = compliance!First(w)]
        OBVIOUS
      <4>2. tasks[w.id] \in compliance!Task
        BY <1>0, <1>13 DEF compliance!UpdateTask, AgendaTypes, IsTable
      <4>3. row \in compliance!Task /\ tasks' = [tasks EXCEPT ![w.id] = row]
        BY <3>2, <4>1, <4>2, TasksAssumption DEF compliance!Task, compliance!First
      <4> QED
        BY <1>0, <4>3, RowReplaced
    <3> QED
      BY <1>13, <3>1, <3>2 DEF compliance!UpdateTask
  <2> QED
    BY <1>13, <2>1, TableChanges DEF compliance!UpdateTask
<1>14. ASSUME NEW w \in writes, compliance!SetStatus(w) PROVE AgendaInv'
  <2>1. PICK row : row = [tasks[w.id] EXCEPT
                            !.status = IF w.act = "pause" THEN "paused" ELSE "active"]
    OBVIOUS
  <2>2. tasks[w.id] \in compliance!Task
    BY <1>0, <1>14 DEF compliance!SetStatus, AgendaTypes, IsTable
  <2>3. row \in compliance!Task /\ tasks' = [tasks EXCEPT ![w.id] = row]
    BY <1>14, <2>1, <2>2 DEF compliance!SetStatus, compliance!Task
  <2>4. DOMAIN tasks' \subseteq compliance!TaskIds /\ IsTable(tasks')
    BY <1>0, <2>3, RowReplaced
  <2> QED
    BY <1>14, <2>4, TableChanges DEF compliance!SetStatus
<1>15. ASSUME NEW w \in writes, compliance!CompleteTask(w) PROVE AgendaInv'
  <2>1. PICK row : row = compliance!Completed(tasks[w.id])
    OBVIOUS
  <2>2. row \in compliance!Task
    BY <1>0, <1>15, <2>1, CompletedIsTask DEF compliance!CompleteTask, AgendaTypes, IsTable
  <2>3. tasks' = [tasks EXCEPT ![w.id] = row]
    BY <1>15, <2>1 DEF compliance!CompleteTask
  <2>4. DOMAIN tasks' \subseteq compliance!TaskIds /\ IsTable(tasks')
    BY <1>0, <2>2, <2>3, RowReplaced
  <2> QED
    BY <1>15, <2>4, TableChanges DEF compliance!CompleteTask
<1>16. ASSUME NEW w \in writes, compliance!DeleteTask(w) PROVE AgendaInv'
  <2>1. tasks' = [t \in DOMAIN tasks \ {w.id} |-> tasks[t]]
    BY <1>16 DEF compliance!DeleteTask
  <2>2. DOMAIN tasks' \subseteq compliance!TaskIds /\ IsTable(tasks')
    BY <1>0, <2>1 DEF AgendaTypes, IsTable
  <2> QED
    BY <1>16, <2>2, TableChanges DEF compliance!DeleteTask
<1>17. ASSUME NEW w \in writes, compliance!MutationSucceeds(w) PROVE AgendaInv'
  <2>1. /\ writes' = writes \ {w}
        /\ invalid' = {f \in compliance!Filters : cached[f] # None}
        /\ loading' = IF compliance!FirstLoad THEN loading ELSE compliance!Sent
        /\ astray' = IF compliance!FirstLoad
             /\ loading.at = "answered" THEN astray \cup {filter} ELSE astray
        /\ dialog' \in {dialog, compliance!Closed} /\ doomed' \in {doomed, None}
        /\ UNCHANGED <<tasks, filter, cached, tried>>
    BY <1>17 DEF compliance!MutationSucceeds
  <2>2. AgendaTypes'
    <3>1. invalid' \subseteq compliance!Filters /\ astray' \subseteq compliance!Filters
      BY <1>0, <2>1 DEF AgendaTypes
    <3>2. loading'.at \in {"idle", "sent", "answered"} /\ IsTable(loading'.rows)
      BY <1>0, <1>a, <2>1 DEF AgendaTypes, IsTable
    <3> QED
      BY <1>0, <2>1, <3>1, <3>2 DEF AgendaTypes, IsTable
  <2>3. FetchedForNeed'
    BY <1>0, <2>1 DEF FetchedForNeed, compliance!FirstLoad, AgendaTypes
  <2>4. NoOlderTable'
    BY <1>0, <1>a, <2>1 DEF NoOlderTable, compliance!FirstLoad
  <2> QED
    BY <2>2, <2>3, <2>4 DEF AgendaInv
<1>18. ASSUME NEW w \in writes, compliance!MutationFails(w) PROVE AgendaInv'
  <2>1. /\ writes' = writes \ {w}
        /\ astray' = IF w.at = "done" THEN compliance!Filters ELSE astray
        /\ UNCHANGED <<tasks, filter, cached, invalid, loading, dialog, doomed, tried>>
    BY <1>18 DEF compliance!MutationFails
  <2>2. AgendaTypes'
    <3>1. astray' \subseteq compliance!Filters
      BY <1>0, <2>1 DEF AgendaTypes
    <3> QED
      BY <1>0, <2>1, <3>1 DEF AgendaTypes, IsTable
  <2>3. FetchedForNeed'
    BY <1>0, <2>1 DEF FetchedForNeed
  <2>4. NoOlderTable'
    <3>1. CASE w.at = "done"
      BY <1>0, <2>1, <3>1 DEF NoOlderTable, AgendaTypes
    <3>2. CASE w.at # "done"
      <4>1. NoWriteDone' <=> NoWriteDone
        BY <2>1, <3>2 DEF NoWriteDone
      <4> QED
        BY <1>0, <2>1, <3>2, <4>1 DEF NoOlderTable
    <3> QED
      BY <3>1, <3>2
  <2> QED
    BY <2>2, <2>3, <2>4 DEF AgendaInv
<1>19. ASSUME NEW t \in compliance!TaskIds, compliance!ElsewhereCompleted(t) PROVE AgendaInv'
  <2>1. PICK row : row = compliance!Completed(tasks[t])
    OBVIOUS
  <2>2. row \in compliance!Task
    BY <1>0, <1>19, <2>1, CompletedIsTask DEF compliance!ElsewhereCompleted, AgendaTypes,
       IsTable
  <2>3. tasks' = [tasks EXCEPT ![t] = row]
    BY <1>19, <2>1 DEF compliance!ElsewhereCompleted
  <2>4. DOMAIN tasks' \subseteq compliance!TaskIds /\ IsTable(tasks')
    BY <1>0, <2>2, <2>3, RowReplaced
  <2>5. /\ astray' = compliance!Filters
        /\ UNCHANGED <<filter, cached, invalid, loading, dialog, doomed, writes, tried>>
    BY <1>19 DEF compliance!ElsewhereCompleted
  <2>6. AgendaTypes' /\ FetchedForNeed'
    BY <1>0, <2>4, <2>5 DEF AgendaTypes, FetchedForNeed, IsTable
  <2>7. NoOlderTable'
    BY <1>0, <2>5 DEF NoOlderTable, AgendaTypes
  <2> QED
    BY <2>6, <2>7 DEF AgendaInv
<1>20. CASE UNCHANGED compliance!vars
  BY <1>0, <1>20 DEF compliance!vars, AgendaInv, AgendaTypes, FetchedForNeed, NoOlderTable,
     NoWriteDone, IsTable
<1> QED
  BY <1>1, <1>2, <1>3, <1>4, <1>5, <1>6, <1>7, <1>8, <1>9, <1>10, <1>11, <1>12, <1>13,
     <1>14, <1>15, <1>16, <1>17, <1>18, <1>19, <1>20 DEF compliance!Next

\* The invariant has the types of the model.
LEMMA AgendaTypeOK == AgendaInv => compliance!TypeOK
BY DEF AgendaInv, AgendaTypes, compliance!TypeOK, WriteOK, IsTable

\* With nothing under way, the table is that of the server.
LEMMA AgendaIsCurrent == AgendaInv => compliance!TaskListIsCurrent
BY DEF AgendaInv, NoOlderTable, NoWriteDone, compliance!TaskListIsCurrent

\* Every behaviour of the page keeps the invariant.
LEMMA AgendaHolds == compliance!Spec => []AgendaInv
BY AgendaInit, AgendaStep, PTL DEF compliance!Spec

\* Seen at its own variables, a behaviour of the screens is one of this model.
LEMMA ImplementsTasks == Spec => compliance!Spec
<1>1. Init => compliance!Init
  BY DEF Init
<1>2. [Next]_vars => [compliance!Next]_(compliance!vars)
  BY DEF Next, ChatNext, WorkspaceNext, ComposerNext, ResearchNext, LearningNext,
     MembershipNext, OnboardingNext, AccountsNext, TasksNext, DocumentsNext, EmissionsNext,
     PermitNext, FieldNext, vars, desk, office, mobile, agenda, compliance!vars
<1> QED
  BY <1>1, <1>2, PTL DEF Spec, compliance!Spec

\* The table, its filters and the requests under way are those of the model.
THEOREM AgendaIsTyped == Spec => []compliance!TypeOK
BY AgendaTypeOK, AgendaHolds, ImplementsTasks, PTL

-----------------------------------------------------------------------------
(* The inventories of emissions. *)

\* A request carries a period, as the form requires.
PeriodIsSent == posting # None => posting.form.period \in emissions!Periods

EmissionsInv == emissions!TypeOK /\ PeriodIsSent /\ emissions!DraftIsSent

-----------------------------------------------------------------------------
(* Forms and inventories. *)

\* The form of a new inventory is one.
LEMMA BlankIsForm == emissions!Blank \in emissions!Forms
<1>1. emissions!NewSource \in emissions!Source
  BY DEF emissions!NewSource, emissions!Source, emissions!Types
<1>2. <<emissions!NewSource>> \in Seq(emissions!Source)
  BY <1>1
<1> QED
  BY <1>2 DEF emissions!Blank, emissions!Forms

\* What is sent of a form whose period is chosen is an inventory.
LEMMA InventoryOfForm ==
    ASSUME NEW f \in emissions!Forms, f.period \in emissions!Periods
    PROVE  emissions!ToInventory(f) \in emissions!Inventory
<1> DEFINE written == [k \in DOMAIN f.sources |-> emissions!ToInventorySource(f.sources[k])]
<1>1. f.sources \in Seq(emissions!Source)
  BY DEF emissions!Forms
<1>2. Len(f.sources) \in Nat /\ DOMAIN f.sources = 1..Len(f.sources)
  BY <1>1
<1>3. \A k \in 1..Len(f.sources) : f.sources[k] \in emissions!Source
  BY <1>1
<1>4. written \in [1..Len(f.sources) -> emissions!Types]
  BY <1>2, <1>3 DEF emissions!ToInventorySource, emissions!Source
<1>5. written \in Seq(emissions!Types)
  BY <1>2, <1>4
<1> QED
  BY <1>5 DEF emissions!ToInventory, emissions!Inventory

\* One more inventory leaves the others where they are.
LEMMA AppendInventory ==
    ASSUME inventories \in Seq(emissions!Inventory),
           NEW inventory \in emissions!Inventory, inventories' = Append(inventories, inventory)
    PROVE  /\ inventories' \in Seq(emissions!Inventory)
           /\ DOMAIN inventories' = DOMAIN inventories \cup {Len(inventories) + 1}
           /\ \A i \in DOMAIN inventories : inventories'[i] = inventories[i]
           /\ inventories'[Len(inventories) + 1] = inventory
<1>1. Len(inventories) \in Nat /\ DOMAIN inventories = 1..Len(inventories)
  OBVIOUS
<1>2. inventories' \in Seq(emissions!Inventory) /\ Len(inventories')
     = Len(inventories) + 1
  BY AppendProperties
<1>3. DOMAIN inventories' = 1..(Len(inventories) + 1)
  BY <1>2
<1>4. /\ \A i \in 1..Len(inventories) : inventories'[i] = inventories[i]
      /\ inventories'[Len(inventories) + 1] = inventory
  BY AppendProperties
<1> QED
  BY <1>1, <1>2, <1>3, <1>4

\* A source less is a form's sources still.
LEMMA SourceRemoved ==
    ASSUME NEW s \in Seq(emissions!Source), NEW k \in DOMAIN s
    PROVE  SubSeq(s, 1, k - 1) \o SubSeq(s, k + 1, Len(s)) \in Seq(emissions!Source)
<1>1. Len(s) \in Nat /\ k \in 1..Len(s)
  OBVIOUS
<1>2. \A i \in 1..Len(s) : s[i] \in emissions!Source
  OBVIOUS
<1>3. SubSeq(s, 1, k - 1) \in Seq(emissions!Source)
  <2>1. \A i \in 1..(k - 1) : s[i] \in emissions!Source
    BY <1>1, <1>2
  <2>2. 1 \in Int /\ k - 1 \in Int
    BY <1>1
  <2> QED
    BY <2>1, <2>2, SubSeqProperties
<1>4. SubSeq(s, k + 1, Len(s)) \in Seq(emissions!Source)
  <2>1. \A i \in (k + 1)..Len(s) : s[i] \in emissions!Source
    BY <1>1, <1>2
  <2>2. k + 1 \in Int /\ Len(s) \in Int
    BY <1>1
  <2> QED
    BY <2>1, <2>2, SubSeqProperties
<1> QED
  BY <1>3, <1>4, ConcatProperties

-----------------------------------------------------------------------------
(* The types. *)

\* The invariant of a step that changes what is entered and nothing else.
LEMMA Entered ==
    ASSUME EmissionsInv, NEW f \in emissions!Forms, emissions!Change(f), posting = None
    PROVE  EmissionsInv'
BY DEF EmissionsInv, emissions!Change, emissions!history, emissions!view, emissions!TypeOK,
   PeriodIsSent, emissions!DraftIsSent

\* The invariant of a step that leaves inventories, composer and request alone.
LEMMA HistoryListed ==
    ASSUME EmissionsInv, UNCHANGED <<inventories, builder, posting>>,
           known' \in (SUBSET DOMAIN inventories) \cup {None},
           listing' \in [at : {"idle", "sent", "answered"},
                 rows : SUBSET DOMAIN inventories],
           quarter' \in BOOLEAN, unseen' \in BOOLEAN,
           selected' \in DOMAIN inventories \cup {None}
    PROVE  EmissionsInv'
BY DEF EmissionsInv, emissions!TypeOK, PeriodIsSent, emissions!DraftIsSent, emissions!Stored

\* The invariant of a step that makes an inventory nobody waits for.
LEMMA InventoryMade ==
    ASSUME EmissionsInv, NEW inventory \in emissions!Inventory,
           inventories' = Append(inventories, inventory),
           UNCHANGED <<known, listing, quarter, selected, builder, posting>>,
           unseen' \in BOOLEAN
    PROVE  EmissionsInv'
<1>1. /\ inventories' \in Seq(emissions!Inventory)
      /\ DOMAIN inventories \subseteq DOMAIN inventories'
      /\ \A i \in DOMAIN inventories : inventories'[i] = inventories[i]
  BY AppendInventory DEF EmissionsInv, emissions!TypeOK
<1>2. emissions!TypeOK'
  BY <1>1 DEF EmissionsInv, emissions!TypeOK
<1>3. PeriodIsSent'
  BY DEF EmissionsInv, PeriodIsSent
<1>4. emissions!DraftIsSent'
  <2>1. posting # None /\ posting.id # None => posting.id \in DOMAIN inventories
    BY DEF EmissionsInv, emissions!TypeOK
  <2> QED
    BY <1>1, <2>1 DEF EmissionsInv, emissions!DraftIsSent, emissions!Stored
<1> QED
  BY <1>2, <1>3, <1>4 DEF EmissionsInv

\* Every step of the page and of the server keeps the invariant.
LEMMA EmissionsStep ==
    EmissionsInv /\ [emissions!Next]_(emissions!vars) => EmissionsInv'
<1> SUFFICES ASSUME EmissionsInv, [emissions!Next]_(emissions!vars) PROVE EmissionsInv'
  OBVIOUS
<1>1. CASE emissions!ListServed
  BY <1>1, HistoryListed DEF emissions!ListServed, emissions!view, EmissionsInv,
     emissions!TypeOK
<1>2. CASE emissions!ListArrives
  BY <1>2, HistoryListed DEF emissions!ListArrives, emissions!view, emissions!Idle,
     EmissionsInv, emissions!TypeOK
<1>3. CASE emissions!ListFails
  BY <1>3, HistoryListed DEF emissions!ListFails, emissions!view, emissions!Idle, EmissionsInv,
     emissions!TypeOK
<1>4. CASE emissions!SetFilter
  BY <1>4, HistoryListed DEF emissions!SetFilter, emissions!history, EmissionsInv,
     emissions!TypeOK
<1>5. ASSUME NEW i \in 1..MaxInventories, emissions!Select(i) PROVE EmissionsInv'
  <2>1. i \in DOMAIN inventories
    BY <1>5 DEF emissions!Select, emissions!Filtered, EmissionsInv, emissions!TypeOK
  <2> QED
    BY <1>5, <2>1, HistoryListed DEF emissions!Select, emissions!history, EmissionsInv,
       emissions!TypeOK
<1>6. CASE emissions!ToggleComposer
  BY <1>6, BlankIsForm DEF emissions!ToggleComposer, emissions!history, emissions!view,
     EmissionsInv, emissions!TypeOK, PeriodIsSent, emissions!DraftIsSent, emissions!Stored
<1>7. ASSUME NEW p \in emissions!Periods, emissions!SetPeriod(p) PROVE EmissionsInv'
  <2>1. [builder EXCEPT !.period = p] \in emissions!Forms
    BY <1>7 DEF emissions!SetPeriod, emissions!Editable, EmissionsInv, emissions!TypeOK,
       emissions!Forms
  <2> QED
    BY <1>7, <2>1, Entered DEF emissions!SetPeriod, emissions!Editable
<1>8. CASE emissions!AddSource
  <2>1. emissions!NewSource \in emissions!Source
    BY DEF emissions!NewSource, emissions!Source, emissions!Types
  <2>2. builder \in emissions!Forms
    BY <1>8 DEF emissions!AddSource, emissions!Editable, EmissionsInv, emissions!TypeOK
  <2>3. Append(builder.sources, emissions!NewSource) \in Seq(emissions!Source)
    BY <2>1, <2>2, AppendProperties DEF emissions!Forms
  <2>4. [builder EXCEPT !.sources = Append(@, emissions!NewSource)] \in emissions!Forms
    BY <2>2, <2>3 DEF emissions!Forms
  <2> QED
    BY <1>8, <2>4, Entered DEF emissions!AddSource, emissions!Editable
<1>9. ASSUME NEW k \in 1..MaxSources, emissions!RemoveSource(k) PROVE EmissionsInv'
  <2>1. builder \in emissions!Forms
    BY <1>9 DEF emissions!RemoveSource, emissions!Editable, EmissionsInv, emissions!TypeOK
  <2>2. SubSeq(builder.sources, 1, k - 1)
           \o SubSeq(builder.sources, k + 1, Len(builder.sources)) \in Seq(emissions!Source)
    BY <1>9, <2>1, SourceRemoved DEF emissions!RemoveSource, emissions!Forms
  <2>3. [builder EXCEPT !.sources =
           SubSeq(@, 1, k - 1) \o SubSeq(@, k + 1, Len(@))] \in emissions!Forms
    BY <2>1, <2>2 DEF emissions!Forms
  <2> QED
    BY <1>9, <2>3, Entered DEF emissions!RemoveSource, emissions!Editable
<1>10. ASSUME NEW k \in 1..MaxSources, NEW source \in emissions!Source,
     emissions!EditSource(k, source) PROVE EmissionsInv'
  <2>1. builder \in emissions!Forms
    BY <1>10 DEF emissions!EditSource, emissions!Editable, EmissionsInv, emissions!TypeOK
  <2>2. [builder.sources EXCEPT ![k] = source] \in Seq(emissions!Source)
    <3>1. builder.sources \in Seq(emissions!Source) /\ Len(builder.sources) \in Nat
      BY <2>1 DEF emissions!Forms
    <3>2. builder.sources \in [1..Len(builder.sources) -> emissions!Source]
      BY <3>1
    <3>3. [builder.sources EXCEPT ![k] = source]
         \in [1..Len(builder.sources) -> emissions!Source]
      BY <3>2
    <3> QED
      BY <3>1, <3>3
  <2>3. [builder EXCEPT !.sources[k] = source] \in emissions!Forms
    BY <2>1, <2>2 DEF emissions!Forms
  <2> QED
    BY <1>10, <2>3, Entered DEF emissions!EditSource, emissions!Editable
<1>11. CASE emissions!Submit
  <2>1. builder \in emissions!Forms /\ builder.period \in emissions!Periods
    BY <1>11 DEF emissions!Submit, emissions!Editable, EmissionsInv, emissions!TypeOK,
       emissions!Forms
  <2>2. posting' = [form |-> builder, id |-> None]
    BY <1>11 DEF emissions!Submit
  <2> QED
    BY <1>11, <2>1, <2>2 DEF emissions!Submit, emissions!history, emissions!view, EmissionsInv,
       emissions!TypeOK, PeriodIsSent, emissions!DraftIsSent, emissions!Stored
<1>12. CASE emissions!Store
  <2>1. posting \in [form : emissions!Forms, id : DOMAIN inventories \cup {None}]
    BY <1>12 DEF emissions!Store, EmissionsInv, emissions!TypeOK
  <2>2. emissions!ToInventory(posting.form) \in emissions!Inventory
    BY <1>12, <2>1, InventoryOfForm DEF emissions!Store, EmissionsInv, PeriodIsSent
  <2>3. /\ inventories' \in Seq(emissions!Inventory)
        /\ DOMAIN inventories' = DOMAIN inventories \cup {Len(inventories) + 1}
        /\ inventories'[Len(inventories) + 1] = emissions!ToInventory(posting.form)
    BY <1>12, <2>2, AppendInventory DEF emissions!Store, EmissionsInv, emissions!TypeOK
  <2>4. posting'.form = posting.form /\ posting'.id = Len(inventories) + 1
    BY <1>12, <2>1 DEF emissions!Store
  <2>5. posting' \in [form : emissions!Forms, id : DOMAIN inventories' \cup {None}]
    BY <1>12, <2>1, <2>3 DEF emissions!Store
  <2>6. emissions!TypeOK'
    BY <1>12, <2>3, <2>5 DEF emissions!Store, emissions!history, emissions!view, EmissionsInv,
       emissions!TypeOK
  <2>7. PeriodIsSent'
    BY <1>12, <2>4 DEF emissions!Store, EmissionsInv, PeriodIsSent
  <2>8. builder' \in {None, emissions!Blank, posting'.form}
    BY <1>12, <2>4 DEF emissions!Store, EmissionsInv, emissions!DraftIsSent
  <2>9. inventories'[posting'.id] = emissions!ToInventory(posting'.form)
    BY <2>3, <2>4
  <2>10. emissions!DraftIsSent'
    BY <2>8, <2>9 DEF emissions!DraftIsSent
  <2> QED
    BY <2>6, <2>7, <2>10 DEF EmissionsInv
<1>13. CASE emissions!Succeeds
  <2>1. posting.id \in DOMAIN inventories
    BY <1>13 DEF emissions!Succeeds, emissions!Stored, EmissionsInv, emissions!TypeOK
  <2> QED
    BY <1>13, <2>1 DEF emissions!Succeeds, emissions!Sent, EmissionsInv, emissions!TypeOK,
       PeriodIsSent, emissions!DraftIsSent
<1>14. CASE emissions!Fails
  BY <1>14 DEF emissions!Fails, emissions!Stored, emissions!history, emissions!view,
     EmissionsInv, emissions!TypeOK, PeriodIsSent, emissions!DraftIsSent
<1>15. CASE emissions!ElsewhereStored
  <2>1. <<"combustion">> \in Seq(emissions!Types)
    BY DEF emissions!Types
  <2>2. [period |-> "other", sources |-> <<"combustion">>] \in emissions!Inventory
    BY <2>1 DEF emissions!Inventory, emissions!Periods
  <2> QED
    BY <1>15, <2>2, InventoryMade DEF emissions!ElsewhereStored, emissions!history,
       emissions!view
<1>16. CASE UNCHANGED emissions!vars
  BY <1>16 DEF emissions!vars, EmissionsInv, emissions!TypeOK, PeriodIsSent,
     emissions!DraftIsSent, emissions!Stored
<1> QED
  BY <1>1, <1>2, <1>3, <1>4, <1>5, <1>6, <1>7, <1>8, <1>9, <1>10, <1>11, <1>12, <1>13,
     <1>14, <1>15, <1>16 DEF emissions!Next

\* Every behaviour of the page keeps the invariant.
LEMMA EmissionsInvariant == emissions!Spec => []EmissionsInv
<1>1. emissions!Init => EmissionsInv
  <2> SUFFICES ASSUME emissions!Init PROVE EmissionsInv
    OBVIOUS
  <2>1. inventories \in Seq(emissions!Inventory)
    BY DEF emissions!Init
  <2>2. listing \in [at : {"idle", "sent", "answered"},
       rows : SUBSET DOMAIN inventories]
    BY DEF emissions!Init, emissions!Sent
  <2>3. emissions!TypeOK
    BY <2>1, <2>2 DEF emissions!Init, emissions!TypeOK
  <2>4. posting = None
    BY DEF emissions!Init
  <2> QED
    BY <2>3, <2>4 DEF EmissionsInv, PeriodIsSent, emissions!DraftIsSent
<1>2. EmissionsInv /\ [emissions!Next]_(emissions!vars) => EmissionsInv'
  BY EmissionsStep
<1> QED
  BY <1>1, <1>2, PTL DEF emissions!Spec

\* What was stored for the request whose answer is on its way.
Awaited == IF emissions!Stored THEN {posting.id} ELSE {}

\* Apart from what the page is about to be told, and what went unnoticed, the list
\* that is shown or is arriving names every inventory of the server.
NothingMissed ==
    ~unseen =>
      /\ listing = emissions!Idle =>
           known \in SUBSET DOMAIN inventories /\ known \cup Awaited = DOMAIN inventories
      /\ listing.at = "answered" => listing.rows \cup Awaited = DOMAIN inventories

\* Every step of the page and of the server keeps that nothing was missed.
LEMMA MissedStep ==
    EmissionsInv /\ NothingMissed /\ [emissions!Next]_(emissions!vars) => NothingMissed'
<1> SUFFICES ASSUME EmissionsInv, NothingMissed, [emissions!Next]_(emissions!vars)
             PROVE  NothingMissed'
  OBVIOUS
<1>0. /\ inventories \in Seq(emissions!Inventory)
      /\ listing \in [at : {"idle", "sent", "answered"}, rows : SUBSET DOMAIN inventories]
      /\ posting \in [form : emissions!Forms, id : DOMAIN inventories \cup {None}] \cup {None}
      /\ emissions!Idle.at = "idle" /\ emissions!Sent.at = "sent"
      /\ Awaited \subseteq DOMAIN inventories
  BY DEF EmissionsInv, emissions!TypeOK, emissions!Idle, emissions!Sent, Awaited,
     emissions!Stored
<1>a. ASSUME UNCHANGED <<inventories, known, listing, unseen>>, Awaited' = Awaited
      PROVE  NothingMissed'
  BY <1>a DEF NothingMissed
<1>b. posting' = posting => Awaited' = Awaited
  BY DEF Awaited, emissions!Stored
<1>1. CASE emissions!ListServed
  <2>1. /\ listing' = [at |-> "answered", rows |-> DOMAIN inventories]
        /\ posting' = posting /\ inventories' = inventories
    BY <1>1 DEF emissions!ListServed
  <2>2. listing'.at = "answered" /\ listing' # emissions!Idle
    BY <1>0, <2>1
  <2> QED
    BY <1>0, <1>b, <2>1, <2>2 DEF NothingMissed
<1>2. CASE emissions!ListArrives
  <2>1. /\ listing.at = "answered" /\ known' = listing.rows /\ listing' = emissions!Idle
        /\ posting' = posting /\ inventories' = inventories /\ unseen' = unseen
    BY <1>2 DEF emissions!ListArrives
  <2>2. listing'.at # "answered"
    BY <1>0, <2>1
  <2>3. ~unseen => listing.rows \cup Awaited = DOMAIN inventories
    BY <2>1 DEF NothingMissed
  <2>4. known' \in SUBSET DOMAIN inventories
    BY <1>0, <2>1
  <2> QED
    BY <1>b, <2>1, <2>2, <2>3, <2>4 DEF NothingMissed
<1>3. CASE emissions!ListFails
  BY <1>3 DEF emissions!ListFails, NothingMissed
<1>4. CASE emissions!SetFilter \/ (\E i \in 1..MaxInventories : emissions!Select(i))
  BY <1>4, <1>a, <1>b DEF emissions!SetFilter, emissions!Select, emissions!history
<1>5. CASE emissions!ToggleComposer
  BY <1>5, <1>a, <1>b DEF emissions!ToggleComposer, emissions!history
<1>6. CASE \/ \E p \in emissions!Periods : emissions!SetPeriod(p)
           \/ emissions!AddSource
           \/ \E k \in 1..MaxSources : emissions!RemoveSource(k)
           \/ \E k \in 1..MaxSources, source \in emissions!Source :
                 emissions!EditSource(k, source)
  BY <1>6, <1>a, <1>b DEF emissions!SetPeriod, emissions!AddSource, emissions!RemoveSource,
     emissions!EditSource, emissions!Change, emissions!history
<1>7. CASE emissions!Submit
  <2>1. /\ posting = None /\ posting' = [form |-> builder, id |-> None]
        /\ UNCHANGED <<inventories, known, listing, unseen>>
    BY <1>7 DEF emissions!Submit, emissions!Editable, emissions!history
  <2>2. Awaited = {} /\ Awaited' = {}
    BY <2>1 DEF Awaited, emissions!Stored
  <2> QED
    BY <1>a, <2>1, <2>2
<1>8. CASE emissions!Store
  <2>1. /\ posting # None /\ posting.id = None
        /\ inventories' = Append(inventories, emissions!ToInventory(posting.form))
        /\ posting' = [posting EXCEPT !.id = Len(inventories) + 1]
        /\ known' = known /\ listing' = listing /\ unseen' = unseen
    BY <1>8 DEF emissions!Store, emissions!history
  <2>2. DOMAIN inventories' = DOMAIN inventories \cup {Len(inventories) + 1}
    BY <1>0, <2>1
  <2>3. Awaited = {}
    BY <2>1 DEF Awaited, emissions!Stored
  <2>4. posting'.id = Len(inventories) + 1
    BY <1>0, <2>1
  <2>6. Awaited' = {Len(inventories) + 1}
    <3>1. posting \in [form : emissions!Forms, id : DOMAIN inventories \cup {None}]
      BY <1>0, <2>1
    <3>2. Len(inventories) + 1 \in Nat /\ DOMAIN inventories \subseteq Nat
      BY <1>0
    <3>3. posting' \in [form : emissions!Forms, id : Nat \cup {None}]
      BY <2>1, <3>1, <3>2
    <3>4. posting' # None /\ posting'.id # None
      BY <2>4, <3>2, <3>3, PostingAssumption
    <3> QED
      BY <2>4, <3>4 DEF Awaited, emissions!Stored
  <2> QED
    BY <2>1, <2>2, <2>3, <2>6 DEF NothingMissed
<1>9. CASE emissions!Succeeds
  <2>1. /\ listing' = IF emissions!FirstLoad THEN listing ELSE emissions!Sent
        /\ unseen' = (unseen \/ (emissions!FirstLoad /\ listing.at = "answered"))
    BY <1>9 DEF emissions!Succeeds
  <2>2. CASE emissions!FirstLoad
    <3>1. listing' = listing /\ listing # emissions!Idle
      BY <2>1, <2>2 DEF emissions!FirstLoad
    <3> QED
      BY <2>1, <2>2, <3>1 DEF NothingMissed
  <2>3. CASE ~emissions!FirstLoad
    <3>1. listing' = emissions!Sent
      BY <2>1, <2>3
    <3>2. listing'.at = "sent" /\ listing' # emissions!Idle
      BY <1>0, <3>1
    <3> QED
      BY <3>2 DEF NothingMissed
  <2> QED
    BY <2>2, <2>3
<1>10. CASE emissions!Fails
  <2>1. /\ posting' = None /\ unseen' = (unseen \/ emissions!Stored)
        /\ inventories' = inventories /\ known' = known /\ listing' = listing
    BY <1>10 DEF emissions!Fails, emissions!history
  <2>2. ~unseen' => ~unseen /\ Awaited = {} /\ Awaited' = {}
    BY <2>1 DEF Awaited, emissions!Stored
  <2> QED
    BY <2>1, <2>2 DEF NothingMissed
<1>11. CASE emissions!ElsewhereStored
  BY <1>11 DEF emissions!ElsewhereStored, NothingMissed
<1>12. CASE UNCHANGED emissions!vars
  BY <1>12, <1>a, <1>b DEF emissions!vars
<1> QED
  BY <1>1, <1>2, <1>3, <1>4, <1>5, <1>6, <1>7, <1>8, <1>9, <1>10, <1>11, <1>12
     DEF emissions!Next

\* With nothing under way, the history names every inventory.
LEMMA EmissionsCurrent ==
    EmissionsInv /\ NothingMissed => emissions!HistoryIsCurrent
BY DEF EmissionsInv, emissions!TypeOK, NothingMissed, Awaited, emissions!HistoryIsCurrent

\* Every behaviour of the page keeps that nothing was missed.
LEMMA MissedNothing == emissions!Spec => [](EmissionsInv /\ NothingMissed)
<1>1. emissions!Init => NothingMissed
  BY DEF emissions!Init, NothingMissed, emissions!Idle, emissions!Sent
<1> QED
  BY <1>1, EmissionsInvariant, EmissionsStep, MissedStep, PTL DEF emissions!Spec

\* Seen at its own variables, a behaviour of the screens is one of this model.
LEMMA ImplementsEmissions == Spec => emissions!Spec
<1>1. Init => emissions!Init
  BY DEF Init
<1>2. [Next]_vars => [emissions!Next]_(emissions!vars)
  BY DEF Next, ChatNext, WorkspaceNext, ComposerNext, ResearchNext, LearningNext,
     MembershipNext, OnboardingNext, AccountsNext, TasksNext, DocumentsNext, EmissionsNext,
     PermitNext, FieldNext, vars, desk, office, mobile, reports, emissions!vars
<1> QED
  BY <1>1, <1>2, PTL DEF Spec, emissions!Spec

\* The page and the server hold what the model says they hold; an inventory of
\* the server always has a period.
THEOREM EmissionsTypes == Spec => []emissions!TypeOK
<1>1. EmissionsInv => emissions!TypeOK
  BY DEF EmissionsInv
<1> QED
  BY <1>1, EmissionsInvariant, ImplementsEmissions, PTL

\* While a request is under way the composer holds nothing but an empty form or
\* what the request sends, and what was stored is what was entered: so the
\* answer that closes it (EmissionsScreen.tsx) loses nothing.
THEOREM DraftIsNeverLost == Spec => []DraftIsSent
<1>1. EmissionsInv => DraftIsSent
  BY DEF EmissionsInv, DraftIsSent
<1> QED
  BY <1>1, EmissionsInvariant, ImplementsEmissions, PTL

\* With no fetch and no answer under way, the console's view is what is active,
\* the table of tasks what the server has, and the history of inventories
\* complete, unless something changed that the page was not told of: no older
\* answer hides what a newer one showed (the consoles of the web and the admin
\* application, TasksScreen.tsx and EmissionsScreen.tsx).
THEOREM ListsStayCurrent == Spec => []ListIsCurrent
<1>1. ConsoleInv /\ AgendaInv /\ EmissionsInv /\ NothingMissed => ListIsCurrent
  BY ConsoleIsCurrent, AgendaIsCurrent, EmissionsCurrent DEF ListIsCurrent
<1> QED
  BY <1>1, ConsoleHolds, ImplementsLearning, AgendaHolds, ImplementsTasks, MissedNothing,
     ImplementsEmissions, PTL
=============================================================================
