-------------------------- MODULE AuditChainProofs --------------------------
(***************************************************************************)
(* The rows of one logger form a chain that verifies, whatever is logged,  *)
(* however many loggers wait beside it and however often its process       *)
(* restarts.                                                               *)
(***************************************************************************)
EXTENDS AuditChain, SequenceTheorems, TLAPS

\* Writing text appends a row or completes a line that was cut.
LEMMA WrittenTyped ==
    ASSUME lines \in Seq(Rows), NEW r \in Rows
    PROVE  Written(r) \in Seq(Rows)
<1> DEFINE n == Len(lines)
           g == [r EXCEPT !.kind = IF @ = "cut" THEN "cut" ELSE "glued"]
<1>1. g \in Rows
  BY DEF Rows, Kinds
<1>2. CASE n > 0 /\ lines[n].kind = "cut"
  <2>1. n \in 1 .. Len(lines)
    BY <1>2
  <2>2. [lines EXCEPT ![n] = g] \in Seq(Rows)
    BY <1>1, <2>1, ExceptSeq
  <2> QED
    BY <1>2, <2>2 DEF Written
<1>3. CASE ~ (n > 0 /\ lines[n].kind = "cut")
  BY <1>3 DEF Written
<1> QED
  BY <1>2, <1>3

LEMMA NothingIsNoRow == Nothing \notin Rows
<1>1. \A r \in Rows : r.event \in Events
  BY DEF Rows
<1> QED
  BY <1>1, ConstantsAssumption DEF Nothing

LEMMA RowShape ==
    ASSUME TypeOK, NEW p \in Processes, writing[p] # Nothing
    PROVE  /\ writing[p] \in Rows
           /\ writing[p].by[2] \in Modules
           /\ writing[p].event \in Events
<1>1. writing[p] \in Rows
  BY DEF TypeOK
<1> QED
  BY <1>1 DEF Rows

\* Whatever is logged and crashes, the variables keep their types.
THEOREM TypeCorrect == Spec => []TypeOK
<1>1. Init => TypeOK
  BY ConstantsAssumption DEF Init, TypeOK
<1>2. TypeOK /\ [Next]_vars => TypeOK'
  <2> SUFFICES ASSUME TypeOK, [Next]_vars PROVE TypeOK'
    OBVIOUS
  <2>1. CASE UNCHANGED vars
    BY <2>1 DEF TypeOK, vars
  <2>2. ASSUME NEW p \in Processes, NEW m \in Modules, NEW e \in Events, Link(p, m, e)
        PROVE  TypeOK'
    <3>1. PICK prev \in Events \cup {None} :
             /\ tail' = [tail EXCEPT ![p][m] = prev]
             /\ writing' = [writing EXCEPT ![p] =
                              [kind |-> "row", event |-> e, prev |-> prev,
                               by |-> <<p, m, restarts[p]>>]]
             /\ UNCHANGED <<lines, restarts>>
      BY <2>2 DEF Link
    <3>2. restarts[p] \in Nat
      BY DEF TypeOK
    <3>3. [kind |-> "row", event |-> e, prev |-> prev,
           by |-> <<p, m, restarts[p]>>] \in Rows
      BY <3>2 DEF Rows, Kinds
    <3> QED
      BY <3>1, <3>3 DEF TypeOK
  <2>3. ASSUME NEW p \in Processes, AppendRow(p)
        PROVE  TypeOK'
    <3>1. writing[p] \in Rows /\ writing[p].by[2] \in Modules /\ writing[p].event \in Events
      BY <2>3, RowShape DEF AppendRow
    <3>2. lines' \in Seq(Rows)
      BY <2>3, <3>1, WrittenTyped DEF AppendRow, TypeOK
    <3>3. tail' \in [Processes -> [Modules -> Events \cup {None, Unread}]]
      BY <2>3, <3>1 DEF AppendRow, TypeOK
    <3> QED
      BY <2>3, <3>2, <3>3 DEF AppendRow, TypeOK
  <2>4. ASSUME NEW p \in Processes, Crash(p)
        PROVE  TypeOK'
    <3>1. lines' \in Seq(Rows)
      <4>1. CASE UNCHANGED lines
        BY <4>1 DEF TypeOK
      <4>2. CASE writing[p] # Nothing /\ lines' = Written([writing[p] EXCEPT !.kind = "cut"])
        <5>1. [writing[p] EXCEPT !.kind = "cut"] \in Rows
          BY <4>2, RowShape DEF Rows, Kinds
        <5> QED
          BY <4>2, <5>1, WrittenTyped DEF TypeOK
      <4> QED
        BY <2>4, <4>1, <4>2 DEF Crash
    <3>2. restarts' \in [Processes -> 0..MaxRestarts]
      BY <2>4, ConstantsAssumption DEF Crash, TypeOK
    <3>3. tail' \in [Processes -> [Modules -> Events \cup {None, Unread}]]
      BY <2>4 DEF Crash, TypeOK
    <3> QED
      BY <2>4, <3>1, <3>2, <3>3 DEF Crash, TypeOK
  <2> QED
    BY <2>1, <2>2, <2>3, <2>4 DEF Next
<1> QED
  BY <1>1, <1>2, PTL DEF Spec

-----------------------------------------------------------------------------
(* The chain of one logger.                                                *)

\* The hash a row continues when it is the next one of the file.
End == IF lines = <<>> THEN None ELSE lines[Len(lines)].event

\* All rows so far are those of logger m of process p.
Own(p, m) == \A i \in DOMAIN lines : lines[i].by[1] = p /\ lines[i].by[2] = m

\* The logger that wrote the file knows its end, and the row it is about to
\* append names it.
ChainInv ==
    \A p \in Processes, m \in Modules :
       Own(p, m) /\ Whole =>
          /\ Verifies
          /\ tail[p][m] \in {Unread, End}
          /\ writing[p] # Nothing /\ writing[p].by[2] = m =>
                writing[p].kind = "row" /\ writing[p].prev = End

\* A process only appends rows of its own loggers.
OwnRows == \A p \in Processes : writing[p] # Nothing => writing[p].by[1] = p

\* In a file of rows only, the last line that parses is the last line.
LEMMA LastIsEnd ==
    ASSUME lines \in Seq(Rows), Whole, NEW h, IsLastHash(h)
    PROVE  h = End
<1>1. CASE lines = <<>>
  BY <1>1 DEF IsLastHash, End
<1>2. CASE lines # <<>>
  <2>1. Len(lines) \in DOMAIN lines
    BY <1>2
  <2>2. PICK i \in DOMAIN lines :
           /\ lines[i].event = h
           /\ \A j \in DOMAIN lines : j > i => lines[j].kind # "row"
    BY <2>1 DEF IsLastHash, Whole
  <2>3. i = Len(lines)
    BY <2>1, <2>2 DEF Whole
  <2> QED
    BY <1>2, <2>2, <2>3 DEF End
<1> QED
  BY <1>1, <1>2

\* Text written to a file without cut lines is a new last line, and a file that
\* is whole afterwards was whole before.
LEMMA WrittenWhole ==
    ASSUME lines \in Seq(Rows), NEW r \in Rows, lines' = Written(r), Whole'
    PROVE  Whole /\ lines' = Append(lines, r) /\ r.kind = "row"
<1> DEFINE n == Len(lines)
           g == [r EXCEPT !.kind = IF @ = "cut" THEN "cut" ELSE "glued"]
<1>1. CASE n > 0 /\ lines[n].kind = "cut"
  <2>1. lines' = [lines EXCEPT ![n] = g] /\ n \in DOMAIN lines
    BY <1>1 DEF Written
  <2>2. lines'[n] = g /\ n \in DOMAIN lines'
    BY <2>1
  <2>3. g.kind # "row"
    BY DEF Rows
  <2> QED
    BY <2>2, <2>3 DEF Whole
<1>2. CASE ~ (n > 0 /\ lines[n].kind = "cut")
  <2>1. lines' = Append(lines, r)
    BY <1>2 DEF Written
  <2>2. /\ \A i \in DOMAIN lines : lines'[i] = lines[i] /\ i \in DOMAIN lines'
        /\ lines'[n + 1] = r /\ n + 1 \in DOMAIN lines'
    BY <2>1
  <2> QED
    BY <2>1, <2>2 DEF Whole
<1> QED
  BY <1>1, <1>2

\* A file all rows of which are one logger's verifies, unless a crash cut a line.
THEOREM OneWriterVerifies == Spec => []SoleWriterVerifies
<1>1. Init => ChainInv /\ OwnRows
  BY DEF Init, ChainInv, OwnRows, Verifies
<1>2. TypeOK /\ OwnRows /\ [Next]_vars => OwnRows'
  <2> SUFFICES ASSUME TypeOK, OwnRows, [Next]_vars PROVE OwnRows'
    OBVIOUS
  <2>1. CASE UNCHANGED vars
    BY <2>1 DEF OwnRows, vars
  <2>2. ASSUME NEW p \in Processes, NEW m \in Modules, NEW e \in Events, Link(p, m, e)
        PROVE  OwnRows'
    BY <2>2 DEF Link, OwnRows, TypeOK
  <2>3. ASSUME NEW p \in Processes, AppendRow(p) \/ Crash(p)
        PROVE  OwnRows'
    BY <2>3 DEF AppendRow, Crash, OwnRows, TypeOK
  <2> QED
    BY <2>1, <2>2, <2>3 DEF Next
<1>3. TypeOK /\ TypeOK' /\ OwnRows /\ ChainInv /\ [Next]_vars => ChainInv'
  <2> SUFFICES ASSUME TypeOK, TypeOK', OwnRows, ChainInv, [Next]_vars,
                      NEW p \in Processes, NEW m \in Modules, Own(p, m)', Whole'
               PROVE  /\ Verifies'
                      /\ tail'[p][m] \in {Unread, End'}
                      /\ writing'[p] # Nothing /\ writing'[p].by[2] = m =>
                            writing'[p].kind = "row" /\ writing'[p].prev = End'
    BY DEF ChainInv
  <2>1. CASE UNCHANGED vars
    BY <2>1 DEF ChainInv, Own, Whole, Verifies, End, vars
  <2>2. ASSUME NEW q \in Processes, NEW k \in Modules, NEW e \in Events, Link(q, k, e)
        PROVE  /\ Verifies'
               /\ tail'[p][m] \in {Unread, End'}
               /\ writing'[p] # Nothing /\ writing'[p].by[2] = m =>
                     writing'[p].kind = "row" /\ writing'[p].prev = End'
    <3>1. UNCHANGED lines
      BY <2>2 DEF Link
    <3>2. Whole /\ Own(p, m) /\ End' = End /\ (Verifies => Verifies')
      BY <3>1 DEF Whole, Own, End, Verifies
    <3>3. PICK prev \in Events \cup {None} :
             /\ IF tail[q][k] = Unread THEN IsLastHash(prev) ELSE prev = tail[q][k]
             /\ tail' = [tail EXCEPT ![q][k] = prev]
             /\ writing' = [writing EXCEPT ![q] =
                              [kind |-> "row", event |-> e, prev |-> prev,
                               by |-> <<q, k, restarts[q]>>]]
      BY <2>2 DEF Link
    <3>4. CASE q = p /\ k = m
      <4>1. prev = End
        BY <3>2, <3>3, <3>4, LastIsEnd DEF ChainInv, TypeOK
      <4>2. tail'[p][m] = End
        BY <3>3, <3>4, <4>1 DEF TypeOK
      <4>3. writing'[p].kind = "row" /\ writing'[p].prev = End
        BY <3>3, <3>4, <4>1 DEF TypeOK
      <4> QED
        BY <3>2, <4>2, <4>3 DEF ChainInv
    <3>5. CASE q = p /\ k # m
      <4>1. tail'[p][m] = tail[p][m]
        BY <3>3, <3>5 DEF TypeOK
      <4>2. writing'[p].by[2] = k
        BY <3>3, <3>5 DEF TypeOK
      <4> QED
        BY <3>2, <3>5, <4>1, <4>2 DEF ChainInv
    <3>6. CASE q # p
      <4>1. tail'[p][m] = tail[p][m] /\ writing'[p] = writing[p]
        BY <3>3, <3>6 DEF TypeOK
      <4> QED
        BY <3>2, <4>1 DEF ChainInv
    <3> QED
      BY <3>4, <3>5, <3>6
  <2>3. ASSUME NEW q \in Processes, AppendRow(q)
        PROVE  /\ Verifies'
               /\ tail'[p][m] \in {Unread, End'}
               /\ writing'[p] # Nothing /\ writing'[p].by[2] = m =>
                     writing'[p].kind = "row" /\ writing'[p].prev = End'
    <3> DEFINE row == writing[q]
               n == Len(lines)
    <3>1. row \in Rows /\ row.by[2] \in Modules /\ row # Nothing
      BY <2>3, RowShape DEF AppendRow
    <3>2. Whole /\ lines' = Append(lines, row) /\ row.kind = "row"
      BY <2>3, <3>1, WrittenWhole DEF AppendRow, TypeOK
    <3>3. /\ \A i \in DOMAIN lines : lines'[i] = lines[i]
          /\ lines'[n + 1] = row /\ DOMAIN lines' = 1 .. n + 1
          /\ Len(lines') = n + 1 /\ n \in Nat /\ DOMAIN lines = 1 .. n
      BY <3>2 DEF TypeOK
    <3>4. Own(p, m) /\ row.by[1] = p /\ row.by[2] = m
      BY <3>3 DEF Own
    <3>5. q = p
      BY <3>1, <3>4 DEF OwnRows
    <3>6. row.prev = End /\ Verifies
      BY <3>1, <3>2, <3>4, <3>5 DEF ChainInv
    <3>7. lines = <<>> <=> n = 0
      BY DEF TypeOK
    <3>8. Verifies'
      <4> SUFFICES ASSUME NEW i \in 1 .. n + 1
                   PROVE  /\ lines'[i].kind = "row"
                          /\ lines'[i].prev = IF i = 1 THEN None ELSE lines'[i - 1].event
        BY <3>3 DEF Verifies
      <4>1. CASE i \in 1 .. n
        BY <3>3, <3>6, <4>1 DEF Verifies
      <4>2. CASE i = n + 1 /\ n = 0
        BY <3>2, <3>3, <3>6, <3>7, <4>2 DEF End
      <4>3. CASE i = n + 1 /\ n # 0
        <5>1. lines'[i] = row /\ i # 1 /\ i - 1 = n /\ n \in DOMAIN lines
          BY <3>3, <4>3
        <5>2. row.prev = lines[n].event
          BY <3>6, <3>7, <4>3 DEF End
        <5> QED
          BY <3>2, <3>3, <5>1, <5>2
      <4> QED
        BY <3>3, <4>1, <4>2, <4>3
    <3>9. End' = row.event
      BY <3>3 DEF End
    <3>10. tail'[p][m] = row.event /\ writing'[p] = Nothing
      BY <2>3, <3>1, <3>4, <3>5 DEF AppendRow, TypeOK
    <3> QED
      BY <3>8, <3>9, <3>10
  <2>4. ASSUME NEW q \in Processes, Crash(q)
        PROVE  /\ Verifies'
               /\ tail'[p][m] \in {Unread, End'}
               /\ writing'[p] # Nothing /\ writing'[p].by[2] = m =>
                     writing'[p].kind = "row" /\ writing'[p].prev = End'
    <3>1. UNCHANGED lines
      <4>1. SUFFICES ASSUME writing[q] # Nothing,
                            lines' = Written([writing[q] EXCEPT !.kind = "cut"])
                     PROVE  FALSE
        BY <2>4 DEF Crash
      <4>2. [writing[q] EXCEPT !.kind = "cut"] \in Rows
        BY <4>1, RowShape DEF Rows, Kinds
      <4>3. [writing[q] EXCEPT !.kind = "cut"].kind = "cut"
        BY <4>1, RowShape DEF Rows
      <4> QED
        BY <4>1, <4>2, <4>3, WrittenWhole DEF TypeOK
    <3>2. Whole /\ Own(p, m) /\ End' = End /\ (Verifies => Verifies')
      BY <3>1 DEF Whole, Own, End, Verifies
    <3>3. tail'[p][m] \in {tail[p][m], Unread}
      BY <2>4 DEF Crash, TypeOK
    <3>4. writing'[p] \in {writing[p], Nothing}
      BY <2>4 DEF Crash, TypeOK
    <3> QED
      BY <3>2, <3>3, <3>4 DEF ChainInv
  <2> QED
    BY <2>1, <2>2, <2>3, <2>4 DEF Next
<1>4. TypeOK /\ ChainInv => SoleWriterVerifies
  <2> SUFFICES ASSUME TypeOK, ChainInv, SoleWriter, Whole PROVE Verifies
    BY DEF SoleWriterVerifies, ChainUnbroken
  <2>1. CASE lines = <<>>
    BY <2>1 DEF Verifies
  <2>2. CASE lines # <<>>
    <3>1. 1 \in DOMAIN lines /\ lines[1] \in Rows
      BY <2>2 DEF TypeOK
    <3>2. lines[1].by[1] \in Processes /\ lines[1].by[2] \in Modules
      BY <3>1 DEF Rows
    <3>3. Own(lines[1].by[1], lines[1].by[2])
      BY <3>1 DEF Own, SoleWriter
    <3> QED
      BY <3>2, <3>3 DEF ChainInv
  <2> QED
    BY <2>1, <2>2
<1> QED
  BY <1>1, <1>2, <1>3, <1>4, TypeCorrect, PTL DEF Spec

-----------------------------------------------------------------------------
(* Many loggers: the file is a forest.                                      *)

\* Among the first n lines there is the row a hash is of, if it is of any; a cut
\* line is of none, as what is written next replaces it.
Anchor(h, n) == h = None \/ \E j \in 1 .. n : lines[j].kind # "cut" /\ lines[j].event = h

\* Rows continue rows above them; what loggers remember and are about to write
\* continues rows of the file.
Anchored ==
    /\ \A i \in DOMAIN lines : Anchor(lines[i].prev, i - 1)
    /\ \A p \in Processes, m \in Modules : tail[p][m] = Unread \/ Anchor(tail[p][m], Len(lines))
    /\ \A p \in Processes : writing[p] # Nothing => Anchor(writing[p].prev, Len(lines))

\* A row that is about to be written is of an event that no other row is of.
Unwritten ==
    \A p \in Processes : writing[p] # Nothing =>
       /\ \A i \in DOMAIN lines : lines[i].event # writing[p].event
       /\ \A q \in Processes \ {p} : writing[q].event # writing[p].event

\* Rows are of loggers there have been; a row that is about to be written is of a
\* logger of its process as it is, and continues what that logger remembers.
Authors ==
    /\ \A i \in DOMAIN lines : lines[i].by[3] <= restarts[lines[i].by[1]]
    /\ \A p \in Processes : writing[p] # Nothing =>
          /\ writing[p].by = <<p, writing[p].by[2], restarts[p]>> /\ writing[p].kind = "row"
          /\ tail[p][writing[p].by[2]] = writing[p].prev

\* What a logger remembers is continued by none of its rows.
Unforked ==
    \A p \in Processes, m \in Modules : \A i \in DOMAIN lines :
       lines[i].by = <<p, m, restarts[p]>> =>
          tail[p][m] # Unread /\ lines[i].prev # tail[p][m]

ForestInv == Anchored /\ Unwritten /\ Authors /\ Unforked /\ NoLoggerForks

\* What the file is after a row or the beginning of one was written: its last
\* line is new, and the only line that may have gone was cut.
LEMMA WrittenLast ==
    ASSUME lines \in Seq(Rows), NEW r \in Rows, lines' = Written(r)
    PROVE  \E k \in Nat \ {0} :
              /\ Len(lines') = k /\ DOMAIN lines' = 1 .. k /\ DOMAIN lines = 1 .. Len(lines)
              /\ \A i \in 1 .. k - 1 : i \in DOMAIN lines /\ lines'[i] = lines[i]
              /\ \A i \in DOMAIN lines : i < k \/ (i = k /\ lines[i].kind = "cut")
              /\ lines'[k].event = r.event /\ lines'[k].prev = r.prev /\ lines'[k].by = r.by
              /\ lines'[k].kind = "cut" <=> r.kind = "cut"
<1> DEFINE n == Len(lines)
           g == [r EXCEPT !.kind = IF @ = "cut" THEN "cut" ELSE "glued"]
<1>0. n \in Nat /\ DOMAIN lines = 1 .. n
  OBVIOUS
<1>1. CASE n > 0 /\ lines[n].kind = "cut"
  <2>1. lines' = [lines EXCEPT ![n] = g] /\ n \in DOMAIN lines
    BY <1>0, <1>1 DEF Written
  <2>2. /\ g.event = r.event /\ g.prev = r.prev /\ g.by = r.by
        /\ g.kind = "cut" <=> r.kind = "cut"
    BY DEF Rows
  <2>9. g \in Rows
    BY DEF Rows, Kinds
  <2> HIDE DEF g
  <2>3. n \in 1 .. Len(lines)
    BY <1>0, <1>1
  <2>4. /\ [lines EXCEPT ![n] = g] \in Seq(Rows)
        /\ Len([lines EXCEPT ![n] = g]) = Len(lines)
        /\ \A j \in 1 .. Len(lines) : [lines EXCEPT ![n] = g][j] = IF j = n THEN g ELSE lines[j]
    BY <2>3, <2>9, ExceptSeq
  <2>5. /\ lines' \in Seq(Rows) /\ Len(lines') = n
        /\ \A j \in 1 .. n : lines'[j] = IF j = n THEN g ELSE lines[j]
    BY <2>1, <2>4
  <2>6. DOMAIN lines' = 1 .. n
    <3>1. DOMAIN lines' = 1 .. Len(lines')
      BY <2>5, LenProperties
    <3> QED
      BY <2>5, <3>1
  <2>7. /\ lines'[n] = g
        /\ \A i \in 1 .. n - 1 : i \in DOMAIN lines /\ lines'[i] = lines[i]
    <3> n \in 1 .. n /\ 1 .. n - 1 \subseteq 1 .. n /\ n \notin 1 .. n - 1
      BY <1>0, <1>1
    <3> QED
      BY <1>0, <2>5
  <2>8. \A i \in DOMAIN lines : i < n \/ (i = n /\ lines[i].kind = "cut")
    BY <1>0, <1>1
  <2>10. /\ lines'[n].event = r.event /\ lines'[n].prev = r.prev /\ lines'[n].by = r.by
         /\ lines'[n].kind = "cut" <=> r.kind = "cut"
    BY <2>2, <2>7
  <2>11. n \in Nat \ {0}
    BY <1>0, <1>1
  <2>12. Len(lines') = n
    BY <2>5
  <2> QED
    BY <1>0, <2>6, <2>7, <2>8, <2>10, <2>11, <2>12
<1>2. CASE ~ (n > 0 /\ lines[n].kind = "cut")
  <2>1. lines' = Append(lines, r)
    BY <1>2 DEF Written
  <2>2. /\ Len(lines') = n + 1 /\ DOMAIN lines' = 1 .. n + 1 /\ lines'[n + 1] = r
        /\ \A i \in 1 .. n : i \in DOMAIN lines /\ lines'[i] = lines[i]
    BY <1>0, <2>1
  <2>3. \A i \in DOMAIN lines : i < n + 1
    BY <1>0
  <2>4. n + 1 \in Nat \ {0} /\ (n + 1) - 1 = n
    BY <1>0
  <2> QED
    BY <1>0, <2>2, <2>3, <2>4
<1> QED
  BY <1>1, <1>2

\* What is written by the process that was about to write it leaves every hash
\* where it was anchored and adds no fork: for a whole row and for a cut one.
LEMMA WrittenKeeps ==
    ASSUME TypeOK, TypeOK', ForestInv, NEW p \in Processes, writing[p] # Nothing,
           NEW r \in Rows, lines' = Written(r),
           r.event = writing[p].event, r.prev = writing[p].prev, r.by = writing[p].by
    PROVE  /\ \A h : Anchor(h, Len(lines)) => Anchor(h, Len(lines))'
           /\ \A i \in DOMAIN lines' : Anchor(lines[i].prev, i - 1)'
           /\ r.kind # "cut" => Anchor(r.event, Len(lines))'
           /\ \A i \in DOMAIN lines' : \/ i \in DOMAIN lines /\ lines'[i] = lines[i]
                                       \/ /\ lines'[i].event = r.event
                                          /\ lines'[i].prev = r.prev /\ lines'[i].by = r.by
           /\ NoLoggerForks'
<1>1. PICK k \in Nat \ {0} :
         /\ Len(lines') = k /\ DOMAIN lines' = 1 .. k /\ DOMAIN lines = 1 .. Len(lines)
         /\ \A i \in 1 .. k - 1 : i \in DOMAIN lines /\ lines'[i] = lines[i]
         /\ \A i \in DOMAIN lines : i < k \/ (i = k /\ lines[i].kind = "cut")
         /\ lines'[k].event = r.event /\ lines'[k].prev = r.prev /\ lines'[k].by = r.by
         /\ lines'[k].kind = "cut" <=> r.kind = "cut"
  BY WrittenLast DEF TypeOK
<1>2. /\ Len(lines) \in Nat /\ DOMAIN lines = 1 .. Len(lines)
  BY DEF TypeOK
<1>3. \A j \in DOMAIN lines : lines[j].kind # "cut" => j \in 1 .. k - 1 /\ lines'[j] = lines[j]
  BY <1>1, <1>2
<1>4. ASSUME NEW h, Anchor(h, Len(lines)) PROVE Anchor(h, k - 1)' /\ Anchor(h, k)'
  BY <1>1, <1>2, <1>3, <1>4 DEF Anchor
<1>5. ASSUME NEW i \in 1 .. k - 1 PROVE Anchor(lines[i].prev, i - 1)'
  <2>1. Anchor(lines[i].prev, i - 1) /\ lines'[i] = lines[i] /\ i \in DOMAIN lines
    BY <1>1 DEF ForestInv, Anchored
  <2>2. \A j \in 1 .. i - 1 : lines'[j] = lines[j]
    BY <1>1
  <2> QED
    BY <2>1, <2>2 DEF Anchor
<1>6. Anchor(lines[k].prev, k - 1)'
  <2>1. Anchor(r.prev, Len(lines))
    BY DEF ForestInv, Anchored
  <2> QED
    BY <1>1, <1>4, <2>1 DEF Anchor
<1>7. \A i \in DOMAIN lines' : i \in 1 .. k - 1 \/ i = k
  BY <1>1
<1>8. r.kind # "cut" => Anchor(r.event, k)'
  BY <1>1 DEF Anchor
<1>9. \A i \in 1 .. k - 1 : ~ (lines[i].by = r.by /\ lines[i].prev = r.prev)
  <2>1. /\ r.by = <<p, r.by[2], restarts[p]>> /\ tail[p][r.by[2]] = r.prev
        /\ r.by[2] \in Modules
    BY RowShape DEF ForestInv, Authors
  <2> QED
    BY <1>1, <2>1 DEF ForestInv, Unforked
<1>10. NoLoggerForks'
  <2> SUFFICES ASSUME NEW i \in DOMAIN lines', NEW j \in DOMAIN lines',
                      lines'[i].by = lines'[j].by, lines'[i].prev = lines'[j].prev
               PROVE  i = j
    BY DEF NoLoggerForks
  <2>1. CASE i \in 1 .. k - 1 /\ j \in 1 .. k - 1
    BY <1>1, <2>1 DEF ForestInv, NoLoggerForks
  <2>2. CASE i \in 1 .. k - 1 /\ j = k
    BY <1>1, <1>9, <2>2
  <2>3. CASE i = k /\ j \in 1 .. k - 1
    BY <1>1, <1>9, <2>3
  <2> QED
    BY <1>7, <2>1, <2>2, <2>3
<1>11. /\ \A h : Anchor(h, Len(lines)) => Anchor(h, Len(lines))'
       /\ r.kind # "cut" => Anchor(r.event, Len(lines))'
  BY <1>1, <1>4, <1>8
<1>12. \A i \in DOMAIN lines' : Anchor(lines[i].prev, i - 1)'
  BY <1>5, <1>6, <1>7
<1>13. \A i \in DOMAIN lines' : \/ i \in DOMAIN lines /\ lines'[i] = lines[i]
                                \/ /\ lines'[i].event = r.event
                                   /\ lines'[i].prev = r.prev /\ lines'[i].by = r.by
  BY <1>1, <1>7
<1> QED
  BY <1>10, <1>11, <1>12, <1>13

\* A hash that a file anchors is not that of a new event.
LEMMA AnchoredIsOld ==
    ASSUME TypeOK, NEW h, NEW e \in Events, Anchor(h, Len(lines)),
           \A i \in DOMAIN lines : lines[i].event # e
    PROVE  h # e
BY ConstantsAssumption DEF Anchor, TypeOK

LEMMA ForestLink ==
    ASSUME TypeOK, ForestInv, NEW q \in Processes, NEW k \in Modules, NEW e \in Events,
           Link(q, k, e)
    PROVE  ForestInv'
<1> DEFINE new(prev) == [kind |-> "row", event |-> e, prev |-> prev, by |-> <<q, k, restarts[q]>>]
<1>1. PICK prev \in Events \cup {None} :
         /\ IF tail[q][k] = Unread THEN IsLastHash(prev) ELSE prev = tail[q][k]
         /\ tail' = [tail EXCEPT ![q][k] = prev]
         /\ writing' = [writing EXCEPT ![q] = new(prev)]
  BY DEF Link
<1>2. writing[q] = Nothing /\ Fresh(e) /\ UNCHANGED <<lines, restarts>>
  BY DEF Link
<1>3. Anchor(prev, Len(lines))
  <2>1. CASE tail[q][k] = Unread
    BY <1>1, <2>1 DEF IsLastHash, Anchor, TypeOK
  <2>2. CASE tail[q][k] # Unread
    BY <1>1, <2>2 DEF ForestInv, Anchored
  <2> QED
    BY <2>1, <2>2
<1>4. /\ tail'[q][k] = prev /\ writing'[q] = new(prev)
      /\ \A p \in Processes, m \in Modules : p # q \/ m # k => tail'[p][m] = tail[p][m]
      /\ \A p \in Processes : p # q => writing'[p] = writing[p]
  BY <1>1 DEF TypeOK
<1>5. \A h, n : Anchor(h, n)' <=> Anchor(h, n)
  BY <1>2 DEF Anchor
<1>6. Anchored'
  <2>1. \A i \in DOMAIN lines' : Anchor(lines[i].prev, i - 1)'
    BY <1>2, <1>5 DEF ForestInv, Anchored
  <2>2. ASSUME NEW p \in Processes, NEW m \in Modules
        PROVE  tail'[p][m] = Unread \/ Anchor(tail[p][m], Len(lines))'
    BY <1>2, <1>3, <1>4, <1>5 DEF ForestInv, Anchored, Anchor
  <2>3. ASSUME NEW p \in Processes, writing'[p] # Nothing
        PROVE  Anchor(writing[p].prev, Len(lines))'
    BY <1>2, <1>3, <1>4, <1>5, <2>3 DEF ForestInv, Anchored, Anchor
  <2> QED
    BY <2>1, <2>2, <2>3 DEF Anchored
<1>7. Unwritten'
  BY <1>2, <1>4 DEF ForestInv, Unwritten, Fresh
<1>8. Authors'
  <2>1. ASSUME NEW p \in Processes, writing'[p] # Nothing
        PROVE  /\ writing'[p].by = <<p, writing'[p].by[2], restarts'[p]>>
               /\ writing'[p].kind = "row" /\ tail'[p][writing'[p].by[2]] = writing'[p].prev
    <3>1. CASE p = q
      <4>1. writing'[p].by[2] = k
        BY <1>4, <3>1
      <4> QED
        BY <1>2, <1>4, <3>1, <4>1
    <3>2. CASE p # q
      <4>1. writing'[p] = writing[p] /\ writing[p].by[2] \in Modules
        BY <1>4, <2>1, <3>2, RowShape
      <4> QED
        BY <1>2, <1>4, <2>1, <3>2, <4>1 DEF ForestInv, Authors
    <3> QED
      BY <3>1, <3>2
  <2> QED
    BY <1>2, <2>1 DEF ForestInv, Authors
<1>9. Unforked'
  <2> SUFFICES ASSUME NEW p \in Processes, NEW m \in Modules, NEW i \in DOMAIN lines,
                      lines[i].by = <<p, m, restarts[p]>>
               PROVE  tail'[p][m] # Unread /\ lines[i].prev # tail'[p][m]
    BY <1>2 DEF Unforked
  <2>1. tail[p][m] # Unread /\ lines[i].prev # tail[p][m]
    BY DEF ForestInv, Unforked
  <2>2. tail'[p][m] = tail[p][m]
    BY <1>1, <1>4, <2>1
  <2> QED
    BY <2>1, <2>2
<1>10. NoLoggerForks'
  BY <1>2 DEF ForestInv, NoLoggerForks
<1> QED
  BY <1>6, <1>7, <1>8, <1>9, <1>10 DEF ForestInv

LEMMA ForestAppend ==
    ASSUME TypeOK, TypeOK', ForestInv, NEW q \in Processes, AppendRow(q)
    PROVE  ForestInv'
<1>1. PICK row \in Rows :
         /\ row = writing[q] /\ row # Nothing /\ row.by[2] \in Modules /\ row.event \in Events
         /\ lines' = Written(row) /\ UNCHANGED restarts
         /\ tail' = [tail EXCEPT ![q][row.by[2]] = row.event]
         /\ writing' = [writing EXCEPT ![q] = Nothing]
  BY RowShape DEF AppendRow
<1> DEFINE m == row.by[2]
<1>2. row.kind = "row" /\ row.by = <<q, m, restarts[q]>> /\ tail[q][m] = row.prev
  BY <1>1 DEF ForestInv, Authors
<1>3. /\ \A h : Anchor(h, Len(lines)) => Anchor(h, Len(lines))'
      /\ \A i \in DOMAIN lines' : Anchor(lines[i].prev, i - 1)'
      /\ Anchor(row.event, Len(lines))'
      /\ \A i \in DOMAIN lines' : \/ i \in DOMAIN lines /\ lines'[i] = lines[i]
                                  \/ /\ lines'[i].event = row.event
                                     /\ lines'[i].prev = row.prev /\ lines'[i].by = row.by
      /\ NoLoggerForks'
  BY <1>1, <1>2, WrittenKeeps
<1>4. /\ tail'[q][m] = row.event /\ writing'[q] = Nothing
      /\ \A p \in Processes, o \in Modules : p # q \/ o # m => tail'[p][o] = tail[p][o]
      /\ \A p \in Processes : p # q => writing'[p] = writing[p]
  BY <1>1 DEF TypeOK
<1>5. Anchored'
  <2>1. ASSUME NEW p \in Processes, NEW o \in Modules
        PROVE  tail'[p][o] = Unread \/ Anchor(tail[p][o], Len(lines))'
    <3>1. CASE p = q /\ o = m
      BY <1>3, <1>4, <3>1 DEF Anchor
    <3>2. CASE ~ (p = q /\ o = m)
      <4>1. tail'[p][o] = tail[p][o]
        BY <1>4, <3>2
      <4> QED
        BY <1>3, <4>1 DEF ForestInv, Anchored, Anchor
    <3> QED
      BY <3>1, <3>2
  <2>2. ASSUME NEW p \in Processes, writing'[p] # Nothing
        PROVE  Anchor(writing[p].prev, Len(lines))'
    <3>1. writing'[p] = writing[p] /\ writing[p] # Nothing
      BY <1>4, <2>2
    <3>2. Anchor(writing[p].prev, Len(lines))
      BY <3>1 DEF ForestInv, Anchored
    <3> QED
      BY <1>3, <3>1, <3>2 DEF Anchor
  <2> QED
    BY <1>3, <2>1, <2>2 DEF Anchored
<1>6. Unwritten'
  <2> SUFFICES ASSUME NEW p \in Processes, writing'[p] # Nothing
               PROVE  /\ \A i \in DOMAIN lines' : lines'[i].event # writing'[p].event
                      /\ \A o \in Processes \ {p} : writing'[o].event # writing'[p].event
    BY DEF Unwritten
  <2>1. writing'[p] = writing[p] /\ writing[p] # Nothing /\ p # q
    BY <1>4
  <2>2. writing[p].event # None /\ row.event # writing[p].event
    BY <1>1, <2>1, RowShape, ConstantsAssumption DEF ForestInv, Unwritten
  <2>3. \A i \in DOMAIN lines' : lines'[i].event # writing'[p].event
    BY <1>3, <2>1, <2>2 DEF ForestInv, Unwritten
  <2>4. \A o \in Processes \ {p} : writing'[o].event # writing'[p].event
    BY <1>4, <2>1, <2>2 DEF ForestInv, Unwritten, Nothing
  <2> QED
    BY <2>3, <2>4
<1>7. Authors'
  <2>1. ASSUME NEW p \in Processes, writing'[p] # Nothing
        PROVE  /\ writing'[p].by = <<p, writing'[p].by[2], restarts'[p]>>
               /\ writing'[p].kind = "row" /\ tail'[p][writing'[p].by[2]] = writing'[p].prev
    <3>1. writing'[p] = writing[p] /\ p # q /\ writing[p].by[2] \in Modules
      BY <1>4, <2>1, RowShape
    <3>2. tail'[p][writing[p].by[2]] = tail[p][writing[p].by[2]]
      BY <1>4, <3>1
    <3> QED
      BY <1>1, <2>1, <3>1, <3>2 DEF ForestInv, Authors
  <2>2. \A i \in DOMAIN lines' : lines'[i].by[3] <= restarts'[lines'[i].by[1]]
    <3>1. row.by[3] <= restarts[row.by[1]]
      BY <1>2 DEF TypeOK
    <3> QED
      BY <1>1, <1>3, <3>1 DEF ForestInv, Authors
  <2> QED
    BY <2>1, <2>2 DEF Authors
<1>8. Unforked'
  <2> SUFFICES ASSUME NEW p \in Processes, NEW o \in Modules, NEW i \in DOMAIN lines',
                      lines'[i].by = <<p, o, restarts[p]>>
               PROVE  tail'[p][o] # Unread /\ lines'[i].prev # tail'[p][o]
    BY <1>1 DEF Unforked
  <2>1. CASE p = q /\ o = m
    <3>1. row.event # Unread
      BY <1>1, ConstantsAssumption
    <3>2. Anchor(row.prev, Len(lines)) /\ (i \in DOMAIN lines => Anchor(lines[i].prev, i - 1))
      BY <1>1 DEF ForestInv, Anchored
    <3>3. \A j \in DOMAIN lines : lines[j].event # row.event
      BY <1>1 DEF ForestInv, Unwritten
    <3>4. i \in DOMAIN lines => Anchor(lines[i].prev, Len(lines))
      BY <3>2 DEF Anchor, TypeOK
    <3>5. lines'[i].prev # row.event
      BY <1>1, <1>3, <3>2, <3>3, <3>4, AnchoredIsOld
    <3> QED
      BY <1>4, <2>1, <3>1, <3>5
  <2>2. CASE ~ (p = q /\ o = m)
    <3>1. lines'[i] = lines[i] /\ i \in DOMAIN lines
      BY <1>2, <1>3, <2>2
    <3>2. tail'[p][o] = tail[p][o]
      BY <1>4, <2>2
    <3> QED
      BY <3>1, <3>2 DEF ForestInv, Unforked
  <2> QED
    BY <2>1, <2>2
<1> QED
  BY <1>3, <1>5, <1>6, <1>7, <1>8 DEF ForestInv

LEMMA ForestCrash ==
    ASSUME TypeOK, TypeOK', ForestInv, NEW q \in Processes, Crash(q)
    PROVE  ForestInv'
<1>1. /\ restarts' = [restarts EXCEPT ![q] = @ + 1]
      /\ tail' = [tail EXCEPT ![q] = [m \in Modules |-> Unread]]
      /\ writing' = [writing EXCEPT ![q] = Nothing]
  BY DEF Crash
<1>2. /\ \A m \in Modules : tail'[q][m] = Unread
      /\ writing'[q] = Nothing /\ restarts'[q] = restarts[q] + 1
      /\ \A p \in Processes : p # q => /\ tail'[p] = tail[p] /\ writing'[p] = writing[p]
                                       /\ restarts'[p] = restarts[p]
      /\ \A p \in Processes : restarts'[p] \in Nat /\ restarts[p] \in Nat
                              /\ restarts[p] <= restarts'[p]
  BY <1>1 DEF TypeOK
\* Of the lines there are afterwards one may be new, and is the crashed logger's.
<1>3. /\ \A h : Anchor(h, Len(lines)) => Anchor(h, Len(lines))'
      /\ \A i \in DOMAIN lines' : Anchor(lines[i].prev, i - 1)'
      /\ \A i \in DOMAIN lines' :
            \/ i \in DOMAIN lines /\ lines'[i] = lines[i]
            \/ /\ writing[q] # Nothing /\ lines'[i].event = writing[q].event
               /\ lines'[i].by = writing[q].by
      /\ NoLoggerForks'
  <2>1. CASE UNCHANGED lines
    <3>1. \A h, n : Anchor(h, n)' <=> Anchor(h, n)
      BY <2>1 DEF Anchor
    <3> QED
      BY <2>1, <3>1 DEF ForestInv, Anchored, NoLoggerForks
  <2>2. CASE writing[q] # Nothing /\ lines' = Written([writing[q] EXCEPT !.kind = "cut"])
    <3>1. PICK cut \in Rows :
             /\ cut = [writing[q] EXCEPT !.kind = "cut"]
             /\ cut.event = writing[q].event /\ cut.prev = writing[q].prev
             /\ cut.by = writing[q].by
      BY <2>2, RowShape DEF Rows, Kinds
    <3>2. lines' = Written(cut)
      BY <2>2, <3>1
    <3> QED
      BY <2>2, <3>1, <3>2, WrittenKeeps
  <2> QED
    BY <2>1, <2>2 DEF Crash
<1>4. writing[q] # Nothing => writing[q].by = <<q, writing[q].by[2], restarts[q]>>
  BY DEF ForestInv, Authors
<1>5. Anchored'
  <2>1. ASSUME NEW p \in Processes, NEW m \in Modules
        PROVE  tail'[p][m] = Unread \/ Anchor(tail[p][m], Len(lines))'
    <3>1. CASE p = q
      BY <1>2, <3>1
    <3>2. CASE p # q
      <4>1. tail'[p][m] = tail[p][m]
        BY <1>2, <3>2
      <4>2. tail[p][m] = Unread \/ Anchor(tail[p][m], Len(lines))
        BY DEF ForestInv, Anchored
      <4> QED
        BY <1>3, <4>1, <4>2 DEF Anchor
    <3> QED
      BY <3>1, <3>2
  <2>2. ASSUME NEW p \in Processes, writing'[p] # Nothing
        PROVE  Anchor(writing[p].prev, Len(lines))'
    <3>1. writing'[p] = writing[p] /\ writing[p] # Nothing
      BY <1>2, <2>2
    <3>2. Anchor(writing[p].prev, Len(lines))
      BY <3>1 DEF ForestInv, Anchored
    <3> QED
      BY <1>3, <3>1, <3>2 DEF Anchor
  <2> QED
    BY <1>3, <2>1, <2>2 DEF Anchored
<1>6. Unwritten'
  <2> SUFFICES ASSUME NEW p \in Processes, writing'[p] # Nothing
               PROVE  /\ \A i \in DOMAIN lines' : lines'[i].event # writing'[p].event
                      /\ \A o \in Processes \ {p} : writing'[o].event # writing'[p].event
    BY DEF Unwritten
  <2>1. writing'[p] = writing[p] /\ writing[p] # Nothing /\ p # q
    BY <1>2
  <2>2. /\ writing[p].event # None
        /\ writing[q] # Nothing => writing[q].event # writing[p].event
    BY <2>1, RowShape, ConstantsAssumption DEF ForestInv, Unwritten
  <2>3. \A i \in DOMAIN lines' : lines'[i].event # writing'[p].event
    BY <1>3, <2>1, <2>2 DEF ForestInv, Unwritten
  <2>4. \A o \in Processes \ {p} : writing'[o].event # writing'[p].event
    BY <1>2, <2>1, <2>2 DEF ForestInv, Unwritten, Nothing
  <2> QED
    BY <2>3, <2>4
<1>7. Authors'
  <2>1. ASSUME NEW p \in Processes, writing'[p] # Nothing
        PROVE  /\ writing'[p].by = <<p, writing'[p].by[2], restarts'[p]>>
               /\ writing'[p].kind = "row" /\ tail'[p][writing'[p].by[2]] = writing'[p].prev
    <3>1. writing'[p] = writing[p] /\ writing[p] # Nothing /\ p # q
      BY <1>2, <2>1
    <3> QED
      BY <1>2, <3>1 DEF ForestInv, Authors
  <2>2. ASSUME NEW i \in DOMAIN lines' PROVE lines'[i].by[3] <= restarts'[lines'[i].by[1]]
    <3>1. CASE i \in DOMAIN lines /\ lines'[i] = lines[i]
      <4>1. lines[i].by[3] <= restarts[lines[i].by[1]]
        BY <3>1 DEF ForestInv, Authors
      <4>2. lines[i].by[1] \in Processes /\ lines[i].by[3] \in Nat
        <5>1. lines[i] \in Rows
          BY <3>1 DEF TypeOK
        <5> QED
          BY <5>1 DEF Rows
      <4> QED
        BY <1>2, <3>1, <4>1, <4>2
    <3>2. CASE writing[q] # Nothing /\ lines'[i].by = writing[q].by
      BY <1>2, <1>4, <3>2
    <3> QED
      BY <1>3, <3>1, <3>2
  <2> QED
    BY <2>1, <2>2 DEF Authors
<1>8. Unforked'
  <2> SUFFICES ASSUME NEW p \in Processes, NEW o \in Modules, NEW i \in DOMAIN lines',
                      lines'[i].by = <<p, o, restarts'[p]>>
               PROVE  tail'[p][o] # Unread /\ lines'[i].prev # tail'[p][o]
    BY DEF Unforked
  <2>1. p # q
    <3> SUFFICES ASSUME p = q PROVE FALSE
      OBVIOUS
    <3>1. CASE i \in DOMAIN lines /\ lines'[i] = lines[i]
      <4>1. lines[i].by[3] <= restarts[lines[i].by[1]]
        BY <3>1 DEF ForestInv, Authors
      <4> QED
        BY <1>2, <3>1, <4>1
    <3>2. CASE writing[q] # Nothing /\ lines'[i].by = writing[q].by
      BY <1>2, <1>4, <3>2
    <3> QED
      BY <1>3, <3>1, <3>2
  <2>2. lines'[i] = lines[i] /\ i \in DOMAIN lines
    BY <1>3, <1>4, <2>1
  <2> QED
    BY <1>2, <2>1, <2>2 DEF ForestInv, Unforked
<1> QED
  BY <1>3, <1>5, <1>6, <1>7, <1>8 DEF ForestInv

LEMMA ForestIsInvariant == Spec => []ForestInv
<1>1. Init => ForestInv
  BY DEF Init, ForestInv, Anchored, Unwritten, Authors, Unforked, NoLoggerForks
<1>2. TypeOK /\ TypeOK' /\ ForestInv /\ [Next]_vars => ForestInv'
  <2> SUFFICES ASSUME TypeOK, TypeOK', ForestInv, [Next]_vars PROVE ForestInv'
    OBVIOUS
  <2>1. CASE UNCHANGED vars
    BY <2>1 DEF ForestInv, Anchored, Anchor, Unwritten, Authors, Unforked, NoLoggerForks, vars
  <2> QED
    BY <2>1, ForestLink, ForestAppend, ForestCrash DEF Next
<1> QED
  BY <1>1, <1>2, TypeCorrect, PTL DEF Spec

\* However many loggers write to one file, and wherever a crash cuts a line, a
\* row continues a row above it.
THEOREM ForestGrows == Spec => []LinksPointBack
<1>1. TypeOK /\ ForestInv => LinksPointBack
  BY DEF ForestInv, Anchored, Anchor, LinksPointBack
<1> QED
  BY <1>1, TypeCorrect, ForestIsInvariant, PTL

\* A logger never continues one row twice, unless its process was restarted.
THEOREM NeverForks == Spec => []NoLoggerForks
<1>1. ForestInv => NoLoggerForks
  BY DEF ForestInv
<1> QED
  BY <1>1, ForestIsInvariant, PTL
=============================================================================
