--------------------------- MODULE ScreensProofs ---------------------------
(***************************************************************************)
(* The field app, and the types of all screens: a signature that was given *)
(* stays on the permit of the device, and a calculation is forgotten only  *)
(* behind MAX_PER_TENANT newer ones, for any number of permits, signatures *)
(* and results.  The other screens are those of OfficeProofs, DeskProofs   *)
(* and PagesProofs.                                                        *)
(***************************************************************************)
EXTENDS OfficeProofs, DeskProofs, PagesProofs, FiniteSetTheorems, WellFoundedInduction, TLAPS

-----------------------------------------------------------------------------
(* Permits on the device. *)

\* A handler knows its permit, what it writes and the signature it adds.
PermitJobs ==
    \A j \in jobs :
       /\ j.kind \in {"save", "sign"} => j.id \in permit!Permits
       /\ j.kind = "save" => j.text \in 1..MaxEdits
       /\ j.kind = "sign" => j.sig \in permit!Signatures

\* Of two handlers that add a signature to a permit neither is alone.
AloneIsAlone ==
    \A j, k \in jobs :
       j.kind = "sign" /\ k.kind = "sign" /\ j.id = k.id /\ j # k => ~j.alone

\* One that is alone has read every signature there is.
AllAreRead ==
    \A j \in jobs :
       /\ j.kind = "sign" /\ j.at = "write" /\ j.alone
       /\ j.id \in DOMAIN rows /\ rows[j.id].tenant = j.who
       => rows[j.id].sigs \subseteq j.read

PermitInv == permit!TypeOK /\ PermitJobs /\ AloneIsAlone /\ AllAreRead

-----------------------------------------------------------------------------
\* A row that keeps its tenant when it stays, and its signatures, or is new.
RowsKept ==
    \A p \in DOMAIN rows' :
       \/ p \in DOMAIN rows /\ rows'[p].tenant = rows[p].tenant /\ rows'[p].sigs = rows[p].sigs
       \/ p \notin DOMAIN rows /\ rows'[p].sigs = {}

\* What is read of a permit.
LEMMA GetIs ==
    ASSUME permit!TypeOK, NEW p, NEW u
    PROVE  /\ permit!Get(p, u) \in permit!Rows \cup {None}
           /\ permit!Get(p, u) # None => permit!Get(p, u) = rows[p] /\ p \in DOMAIN rows
                /\ rows[p].tenant = u
BY DEF permit!Get, permit!TypeOK

\* A permit that is saved leaves the others as they are.
LEMMA SavedRows ==
    ASSUME permit!TypeOK, NEW p \in permit!Permits, NEW u \in Crew, NEW words \in 1..MaxEdits,
           rows' = permit!Saved(p, u, words)
    PROVE  /\ DOMAIN rows' \subseteq permit!Permits /\ p \in DOMAIN rows'
           /\ \A q \in DOMAIN rows' : rows'[q] \in permit!Rows /\ rows'[q].id = q
           /\ RowsKept
<1>1. CASE p \in DOMAIN rows
  <2>1. PICK row : row = [[rows[p] EXCEPT !.text = words] EXCEPT !.status = "draft_unsigned"]
    OBVIOUS
  <2>2. /\ row \in permit!Rows /\ row.id = p
        /\ row.tenant = rows[p].tenant /\ row.sigs = rows[p].sigs
    <3>1. rows[p] \in permit!Rows /\ rows[p].id = p
      BY <1>1 DEF permit!TypeOK
    <3> QED
      BY <2>1, <3>1 DEF permit!Rows
  <2>3. /\ DOMAIN rows' = DOMAIN rows
        /\ \A q \in DOMAIN rows' : rows'[q] = IF q = p THEN row ELSE rows[q]
    BY <1>1, <2>1 DEF permit!Saved
  <2> QED
    BY <1>1, <2>2, <2>3 DEF permit!TypeOK, RowsKept
<1>2. CASE p \notin DOMAIN rows
  <2>1. PICK row : row = permit!Row(p, u, words)
    OBVIOUS
  <2>2. row \in permit!Rows /\ row.id = p /\ row.sigs = {}
    BY <2>1 DEF permit!Row, permit!Rows
  <2>3. /\ DOMAIN rows' = DOMAIN rows \cup {p}
        /\ \A q \in DOMAIN rows' : rows'[q] = IF q = p THEN row ELSE rows[q]
    BY <1>2, <2>1 DEF permit!Saved, permit!Put
  <2> QED
    BY <1>2, <2>2, <2>3 DEF permit!TypeOK, RowsKept
<1> QED
  BY <1>1, <1>2

\* Where rows are kept as they are.
LEMMA RowsStay == rows' = rows => RowsKept
BY DEF RowsKept

\* Handlers that go on: f[k] is what becomes of k, unless it ends.
Follows(f) ==
    \A k \in jobs :
       /\ f[k] \in permit!Jobs /\ f[k].kind = k.kind /\ f[k].id = k.id /\ f[k].who = k.who
       /\ f[k].text = k.text /\ f[k].sig = k.sig /\ f[k].read = k.read
       /\ f[k].alone = k.alone /\ f[k].at \in {k.at, "show"}

\* Handlers that follow those before them.
LEMMA JobsFollow ==
    ASSUME PermitInv, RowsKept, NEW f, Follows(f), \A j \in jobs' : \E k \in jobs : j = f[k]
    PROVE  jobs' \subseteq permit!Jobs /\ PermitJobs' /\ AloneIsAlone' /\ AllAreRead'
<1>1. jobs' \subseteq permit!Jobs
  BY DEF Follows
<1>2. PermitJobs'
  BY DEF Follows, PermitInv, PermitJobs
<1>3. AloneIsAlone'
  <2> SUFFICES ASSUME NEW i \in jobs', NEW j \in jobs', i.kind = "sign", j.kind = "sign",
                      i.id = j.id, i # j
               PROVE  ~i.alone
    BY DEF AloneIsAlone
  <2>1. PICK k \in jobs : i = f[k]
    OBVIOUS
  <2>2. PICK l \in jobs : j = f[l]
    OBVIOUS
  <2> QED
    BY <2>1, <2>2 DEF Follows, PermitInv, AloneIsAlone
<1>4. AllAreRead'
  <2> SUFFICES ASSUME NEW i \in jobs', i.kind = "sign", i.at = "write", i.alone,
                      i.id \in DOMAIN rows', rows'[i.id].tenant = i.who
               PROVE  rows'[i.id].sigs \subseteq i.read
    BY DEF AllAreRead
  <2>1. PICK k \in jobs : i = f[k]
    OBVIOUS
  <2>2. k.kind = "sign" /\ k.at = "write" /\ k.alone /\ k.id = i.id /\ k.who = i.who
        /\ k.read = i.read
    BY <2>1 DEF Follows
  <2> QED
    BY <2>2 DEF RowsKept, PermitInv, AllAreRead
<1> QED
  BY <1>1, <1>2, <1>3, <1>4

\* Nothing happens to the handlers, or they all end.
LEMMA JobsStay ==
    ASSUME PermitInv, RowsKept, jobs' \subseteq jobs
    PROVE  jobs' \subseteq permit!Jobs /\ PermitJobs' /\ AloneIsAlone' /\ AllAreRead'
<1> DEFINE f == [k \in jobs |-> k]
<1>1. Follows(f) /\ \A j \in jobs' : \E k \in jobs : j = f[k]
  BY DEF Follows, PermitInv, permit!TypeOK
<1> HIDE DEF f
<1> QED
  BY <1>1, JobsFollow

\* They all lose their screen, but those that end.
LEMMA JobsLeave ==
    ASSUME PermitInv, RowsKept, NEW J, J \subseteq jobs, jobs' = permit!Left(J)
    PROVE  jobs' \subseteq permit!Jobs /\ PermitJobs' /\ AloneIsAlone' /\ AllAreRead'
<1> DEFINE f == [k \in jobs |-> [k EXCEPT !.here = FALSE]]
<1>1. \A j \in jobs' : \E k \in jobs : j = f[k]
  BY DEF permit!Left
<1>2. Follows(f)
  <2>1. ASSUME NEW k \in jobs, NEW g, g = [k EXCEPT !.here = FALSE]
        PROVE  /\ g \in permit!Jobs /\ g.kind = k.kind /\ g.id = k.id /\ g.who = k.who
               /\ g.text = k.text /\ g.sig = k.sig /\ g.read = k.read
               /\ g.alone = k.alone /\ g.at = k.at
    <3>1. k \in permit!Jobs
      BY DEF PermitInv, permit!TypeOK
    <3> QED
      BY <2>1, <3>1 DEF permit!Jobs
  <2>2. \A k \in jobs : f[k] = [k EXCEPT !.here = FALSE]
    OBVIOUS
  <2> HIDE DEF f
  <2> QED
    BY <2>1, <2>2 DEF Follows
<1> HIDE DEF f
<1> QED
  BY <1>1, <1>2, JobsFollow

\* One goes on to show what it did.
LEMMA JobShows ==
    ASSUME PermitInv, RowsKept, NEW j \in jobs, permit!Goes(j, [j EXCEPT !.at = "show"])
    PROVE  jobs' \subseteq permit!Jobs /\ PermitJobs' /\ AloneIsAlone' /\ AllAreRead'
<1> DEFINE f == [k \in jobs |-> IF k = j THEN [j EXCEPT !.at = "show"] ELSE k]
<1>1. \A i \in jobs' : \E k \in jobs : i = f[k]
  BY DEF permit!Goes
<1>2. Follows(f)
  BY DEF Follows, PermitInv, permit!TypeOK, permit!Jobs
<1> HIDE DEF f
<1> QED
  BY <1>1, <1>2, JobsFollow

\* One starts that adds no signature.
LEMMA JobAdded ==
    ASSUME PermitInv, rows' = rows, NEW k \in permit!Jobs, jobs' = jobs \cup {k},
           k.kind = "generate"
               \/ (k.kind = "save" /\ k.id \in permit!Permits /\ k.text \in 1..MaxEdits)
    PROVE  jobs' \subseteq permit!Jobs /\ PermitJobs' /\ AloneIsAlone' /\ AllAreRead'
BY DEF PermitInv, permit!TypeOK, PermitJobs, AloneIsAlone, AllAreRead

\* A signature that is on a permit stays on it, unless two are added at once.
SigsKept ==
    \A p \in DOMAIN rows \cap DOMAIN rows' :
       \/ rows[p].sigs \subseteq rows'[p].sigs
       \/ \E j \in jobs : j.kind = "sign" /\ j.id = p /\ ~j.alone

\* Rows that are kept keep their signatures.
LEMMA RowsKeepSigs == RowsKept => SigsKept
BY DEF RowsKept, SigsKept

-----------------------------------------------------------------------------
\* The device before it stores a permit.
LEMMA PermitInit == permit!Init => PermitInv
<1> SUFFICES ASSUME permit!Init PROVE PermitInv
  OBVIOUS
<1>1. jobs = {} /\ DOMAIN rows = {}
  BY DEF permit!Init
<1>2. /\ principal = None /\ screen = "list" /\ list = None /\ shown = None /\ queue = {}
      /\ given \in 0..MaxPermits /\ edits \in 0..MaxEdits /\ signs \in 0..MaxSigns
  BY FieldAssumption DEF permit!Init
<1>3. form \in [filled : SUBSET permit!Required, chips : SUBSET Chips]
  BY DEF permit!Init, permit!Blank
<1>4. permit!TypeOK
  BY <1>1, <1>2, <1>3 DEF permit!TypeOK
<1> QED
  BY <1>1, <1>4 DEF PermitInv, PermitJobs, AloneIsAlone, AllAreRead

\* An action that leaves the rows alone.
LEMMA QuietStep ==
    ASSUME PermitInv, rows' = rows, permit!TypeOK', PermitJobs', AloneIsAlone', AllAreRead'
    PROVE  PermitInv' /\ SigsKept
BY RowsStay, RowsKeepSigs DEF PermitInv

\* Every step of the permit screens keeps the invariant, and the signatures.
LEMMA PermitStep == PermitInv /\ [permit!Next]_(permit!vars) => PermitInv' /\ SigsKept
<1> SUFFICES ASSUME PermitInv, [permit!Next]_(permit!vars) PROVE PermitInv' /\ SigsKept
  OBVIOUS
<1> USE DEF permit!table, permit!counters
<1>0. permit!TypeOK /\ PermitJobs /\ AloneIsAlone /\ AllAreRead
  BY DEF PermitInv
<1>a. /\ MaxPermits \in Nat /\ MaxEdits \in Nat /\ MaxSigns \in Nat
  BY FieldAssumption
\* The actions that change neither the rows nor what the handlers know.
<1>b. ASSUME rows' = rows, jobs' \subseteq jobs, jobs' \subseteq permit!Jobs => permit!TypeOK'
      PROVE  PermitInv' /\ SigsKept
  BY <1>b, RowsStay, JobsStay, QuietStep
<1>1. ASSUME NEW u \in Crew, permit!SignIn(u) PROVE PermitInv' /\ SigsKept
  BY <1>0, <1>1, <1>b DEF permit!SignIn, permit!TypeOK
<1>2. CASE permit!SignOut
  BY <1>0, <1>2, <1>b DEF permit!SignOut, permit!TypeOK
<1>3. CASE permit!Restart
  <2>1. form' \in [filled : SUBSET permit!Required, chips : SUBSET Chips]
    BY <1>3 DEF permit!Restart, permit!Blank
  <2> QED
    BY <1>0, <1>3, <1>b, <2>1 DEF permit!Restart, permit!TypeOK
<1>4. CASE permit!LoadList
  BY <1>0, <1>4, <1>b DEF permit!LoadList, permit!TypeOK
<1>5. ASSUME NEW p \in permit!Permits, permit!Delete(p) PROVE PermitInv' /\ SigsKept
  <2>1. /\ DOMAIN rows' \subseteq DOMAIN rows /\ \A q \in DOMAIN rows' : rows'[q] = rows[q]
    BY <1>5 DEF permit!Delete
  <2>2. RowsKept /\ SigsKept
    BY <2>1, RowsKeepSigs DEF RowsKept
  <2>3. permit!TypeOK'
    BY <1>0, <1>5, <2>1 DEF permit!Delete, permit!TypeOK
  <2>4. PermitJobs' /\ AloneIsAlone' /\ AllAreRead'
    BY <1>5, <2>2, JobsStay DEF permit!Delete
  <2> QED
    BY <2>2, <2>3, <2>4 DEF PermitInv
<1>6. CASE permit!OpenForm
  BY <1>0, <1>6, <1>b DEF permit!OpenForm, permit!TypeOK
<1>7. ASSUME NEW next \in [filled : SUBSET permit!Required, chips : SUBSET Chips],
          permit!FillForm(next)
      PROVE  PermitInv' /\ SigsKept
  BY <1>0, <1>7, <1>b DEF permit!FillForm, permit!TypeOK
<1>8. ASSUME NEW f \in permit!Required, permit!SetField(f) PROVE PermitInv' /\ SigsKept
  <2>1. \A F \in SUBSET permit!Required :
          [form EXCEPT !.filled = F] \in [filled : SUBSET permit!Required, chips : SUBSET Chips]
    BY <1>0 DEF permit!TypeOK
  <2>2. form.filled \cup {f} \in SUBSET permit!Required
            /\ form.filled \ {f} \in SUBSET permit!Required
    BY <1>0 DEF permit!TypeOK
  <2> QED
    BY <1>7, <1>8, <2>1, <2>2 DEF permit!SetField
<1>9. ASSUME NEW c \in Chips, permit!EditChips(c) PROVE PermitInv' /\ SigsKept
  <2>1. \A C \in SUBSET Chips :
          [form EXCEPT !.chips = C] \in [filled : SUBSET permit!Required, chips : SUBSET Chips]
    BY <1>0 DEF permit!TypeOK
  <2>2. form.chips \cup {c} \in SUBSET Chips /\ form.chips \ {c} \in SUBSET Chips
    BY <1>0 DEF permit!TypeOK
  <2> QED
    BY <1>7, <1>9, <2>1, <2>2 DEF permit!EditChips
<1>10. CASE permit!Generate
  <2>1. PICK k : k = permit!Job("generate", "answer", None, principal, 0, None, {})
    OBVIOUS
  <2>2. k \in permit!Jobs /\ k.kind = "generate" /\ jobs' = jobs \cup {k} /\ rows' = rows
    BY <1>0, <1>10, <1>a, <2>1 DEF permit!Generate, permit!Job, permit!Jobs, permit!TypeOK
  <2>3. jobs' \subseteq permit!Jobs /\ PermitJobs' /\ AloneIsAlone' /\ AllAreRead'
    BY <2>2, JobAdded
  <2>4. permit!TypeOK'
    BY <1>0, <1>10, <2>3 DEF permit!Generate, permit!TypeOK
  <2> QED
    BY <2>2, <2>3, <2>4, QuietStep
<1>11. ASSUME NEW j \in jobs, permit!GenerateFails(j) PROVE PermitInv' /\ SigsKept
  BY <1>0, <1>11, <1>b DEF permit!GenerateFails, permit!TypeOK
<1>12. ASSUME NEW j \in jobs, permit!Generated(j) PROVE PermitInv' /\ SigsKept
  <2>1. /\ j.who \in Crew /\ given' \in permit!Permits /\ given' \in 0..MaxPermits
        /\ edits' \in 1..MaxEdits /\ edits' \in 0..MaxEdits
        /\ rows' = permit!Saved(given', j.who, edits')
    BY <1>0, <1>12, <1>a DEF permit!Generated, permit!TypeOK, permit!Jobs, permit!Permits
  <2>2. /\ DOMAIN rows' \subseteq permit!Permits /\ given' \in DOMAIN rows'
        /\ \A q \in DOMAIN rows' : rows'[q] \in permit!Rows /\ rows'[q].id = q
        /\ RowsKept
    BY <1>0, <2>1, SavedRows
  <2>3. jobs' \subseteq permit!Jobs /\ PermitJobs' /\ AloneIsAlone' /\ AllAreRead'
    BY <1>12, <2>2, JobsLeave DEF permit!Generated
  <2>4. form' \in [filled : SUBSET permit!Required, chips : SUBSET Chips]
    BY <1>12 DEF permit!Generated, permit!Blank
  <2>5. permit!TypeOK'
    BY <1>0, <1>12, <2>1, <2>2, <2>3, <2>4 DEF permit!Generated, permit!TypeOK
  <2> QED
    BY <2>2, <2>3, <2>5, RowsKeepSigs DEF PermitInv
<1>13. ASSUME NEW p \in permit!Permits, permit!Open(p) PROVE PermitInv' /\ SigsKept
  <2>1. permit!Get(p, principal) \in permit!Rows \cup {None}
    BY <1>0, GetIs
  <2> QED
    BY <1>0, <1>13, <1>b, <2>1 DEF permit!Open, permit!TypeOK
<1>14. CASE permit!Back
  <2>1. jobs' = permit!Left(jobs) /\ rows' = rows /\ RowsKept
    BY <1>14, RowsStay DEF permit!Back
  <2>2. jobs' \subseteq permit!Jobs /\ PermitJobs' /\ AloneIsAlone' /\ AllAreRead'
    BY <2>1, JobsLeave
  <2>3. form' \in [filled : SUBSET permit!Required, chips : SUBSET Chips]
    BY <1>14 DEF permit!Back, permit!Blank
  <2>4. permit!TypeOK'
    BY <1>0, <1>14, <2>2, <2>3 DEF permit!Back, permit!TypeOK
  <2> QED
    BY <2>1, <2>2, <2>4, QuietStep
<1>15. CASE permit!Edit
  <2>1. PICK k : k = permit!Job("save", "write", shown.id, principal, edits + 1, None, {})
    OBVIOUS
  <2>2. /\ edits + 1 \in 1..MaxEdits /\ edits + 1 \in 0..MaxEdits /\ shown.id \in permit!Permits
        /\ principal \in Crew
    BY <1>0, <1>15, <1>a DEF permit!Edit, permit!TypeOK, permit!Rows
  <2>3. /\ k \in permit!Jobs /\ k.kind = "save" /\ k.id \in permit!Permits
             /\ k.text \in 1..MaxEdits
        /\ jobs' = jobs \cup {k} /\ rows' = rows
    BY <1>15, <2>1, <2>2 DEF permit!Edit, permit!Job, permit!Jobs
  <2>4. jobs' \subseteq permit!Jobs /\ PermitJobs' /\ AloneIsAlone' /\ AllAreRead'
    BY <2>3, JobAdded
  <2>5. permit!TypeOK'
    BY <1>0, <1>15, <2>2, <2>4 DEF permit!Edit, permit!TypeOK
  <2> QED
    BY <2>3, <2>4, <2>5, QuietStep
<1>16. ASSUME NEW role \in permit!Roles, permit!Sign(role) PROVE PermitInv' /\ SigsKept
  <2> DEFINE others == {j \in jobs : j.kind = "sign" /\ j.id = shown.id}
             job == permit!Job("sign", "read", shown.id, shown.tenant, 0,
                        permit!Signature(signs + 1, role), {})
  <2>1. PICK new : new = [job EXCEPT !.alone = others = {}]
    OBVIOUS
  <2>2. /\ shown.id \in permit!Permits /\ shown.tenant \in Crew
        /\ signs + 1 \in 1..MaxSigns /\ signs + 1 \in 0..MaxSigns
    BY <1>0, <1>16, <1>a DEF permit!Sign, permit!TypeOK, permit!Rows
  <2>3. permit!Signature(signs + 1, role) \in permit!Signatures
    BY <2>2 DEF permit!Signature, permit!Signatures
  <2>4. /\ new \in permit!Jobs /\ new.kind = "sign" /\ new.at = "read" /\ new.id = shown.id
        /\ new.sig \in permit!Signatures /\ (others # {} => ~new.alone)
    <3>1. PICK alone \in BOOLEAN : alone = (others = {})
      OBVIOUS
    <3>2. job \in permit!Jobs /\ job.kind = "sign" /\ job.at = "read" /\ job.id = shown.id
          /\ job.sig \in permit!Signatures
      BY <1>a, <2>2, <2>3 DEF permit!Job, permit!Jobs
    <3> HIDE DEF others, job
    <3>3. new = [job EXCEPT !.alone = alone]
      BY <2>1, <3>1
    <3>4. /\ new \in permit!Jobs /\ new.kind = job.kind /\ new.at = job.at /\ new.id = job.id
          /\ new.sig = job.sig /\ new.alone = alone
      BY <3>2, <3>3 DEF permit!Jobs
    <3> QED
      BY <3>1, <3>2, <3>4
  <2>5. /\ jobs' = (jobs \ others) \cup {[j EXCEPT !.alone = FALSE] : j \in others} \cup {new}
        /\ rows' = rows /\ signs' = signs + 1
    BY <1>16, <2>1 DEF permit!Sign
  <2>6. ASSUME NEW i \in jobs'
        PROVE  \/ i \in jobs /\ ~(i.kind = "sign" /\ i.id = shown.id)
               \/ i \in permit!Jobs /\ i.kind = "sign" /\ i.id = shown.id /\ ~i.alone
                  /\ i.sig \in permit!Signatures /\ others # {}
               \/ i = new
    <3>1. CASE i \in jobs \ others
      BY <3>1
    <3>2. CASE i \in {[j EXCEPT !.alone = FALSE] : j \in others}
      <4>1. PICK j \in others : i = [j EXCEPT !.alone = FALSE]
        BY <3>2
      <4>2. j \in permit!Jobs /\ j.kind = "sign" /\ j.id = shown.id
                /\ j.sig \in permit!Signatures
            /\ others # {}
        BY <1>0, <4>1 DEF permit!TypeOK, PermitJobs
      <4>3. /\ i \in permit!Jobs /\ i.kind = j.kind /\ i.id = j.id /\ ~i.alone /\ i.sig = j.sig
        BY <4>1, <4>2 DEF permit!Jobs
      <4> QED
        BY <4>2, <4>3
    <3> HIDE DEF others
    <3> QED
      BY <2>5, <3>1, <3>2
  <2> HIDE DEF others, job
  <2>7. jobs' \subseteq permit!Jobs /\ PermitJobs'
    BY <1>0, <2>2, <2>4, <2>6 DEF permit!TypeOK, PermitJobs
  <2>8. AloneIsAlone'
    <3> SUFFICES ASSUME NEW i \in jobs', NEW j \in jobs', i.kind = "sign", j.kind = "sign",
                        i.id = j.id, i # j
                 PROVE  ~i.alone
      BY DEF AloneIsAlone
    <3>1. CASE i.id = shown.id
      BY <2>4, <2>6, <3>1
    <3>2. CASE i.id # shown.id
      <4>1. i \in jobs /\ j \in jobs
        BY <2>4, <2>6, <3>2
      <4> QED
        BY <1>0, <4>1 DEF AloneIsAlone
    <3> QED
      BY <3>1, <3>2
  <2>9. AllAreRead'
    BY <1>0, <2>4, <2>5, <2>6 DEF AllAreRead
  <2>10. permit!TypeOK'
    BY <1>0, <1>16, <2>2, <2>5, <2>7 DEF permit!Sign, permit!TypeOK
  <2> QED
    BY <2>5, <2>7, <2>8, <2>9, <2>10, QuietStep
<1>17. CASE permit!QueueSync
  <2>1. queue' \subseteq permit!Rows
    BY <1>0, <1>17 DEF permit!QueueSync, permit!TypeOK
  <2> QED
    BY <1>0, <1>17, <1>b, <2>1 DEF permit!QueueSync, permit!TypeOK
<1>18. ASSUME NEW j \in jobs, permit!SaveWrites(j) PROVE PermitInv' /\ SigsKept
  <2>1. /\ j.id \in permit!Permits /\ j.who \in Crew /\ j.text \in 1..MaxEdits
        /\ rows' = permit!Saved(j.id, j.who, j.text) /\ permit!Goes(j, [j EXCEPT !.at = "show"])
    BY <1>0, <1>18 DEF permit!SaveWrites, permit!At, permit!TypeOK, permit!Jobs, PermitJobs
  <2>2. /\ DOMAIN rows' \subseteq permit!Permits
        /\ \A q \in DOMAIN rows' : rows'[q] \in permit!Rows /\ rows'[q].id = q
        /\ RowsKept
    BY <1>0, <2>1, SavedRows
  <2>3. jobs' \subseteq permit!Jobs /\ PermitJobs' /\ AloneIsAlone' /\ AllAreRead'
    BY <2>1, <2>2, JobShows
  <2>4. permit!TypeOK'
    BY <1>0, <1>18, <2>2, <2>3 DEF permit!SaveWrites, permit!TypeOK
  <2> QED
    BY <2>2, <2>3, <2>4, RowsKeepSigs DEF PermitInv
<1>19. ASSUME NEW j \in jobs, permit!SignReads(j) PROVE PermitInv' /\ SigsKept
  <2>1. CASE permit!Get(j.id, j.who) = None
    BY <1>0, <1>19, <1>b, <2>1 DEF permit!SignReads, permit!TypeOK
  <2>2. CASE permit!Get(j.id, j.who) # None
    <3>1. PICK k : k = [j EXCEPT !.at = "write", !.read = rows[j.id].sigs]
      OBVIOUS
    <3>2. j.id \in DOMAIN rows /\ rows[j.id].sigs \in SUBSET permit!Signatures
          /\ permit!Get(j.id, j.who) = rows[j.id]
      BY <1>0, <2>2, GetIs DEF permit!TypeOK, permit!Rows
    <3>3. jobs' = (jobs \ {j}) \cup {k} /\ rows' = rows /\ j.kind = "sign"
      BY <1>19, <2>2, <3>1, <3>2 DEF permit!SignReads, permit!Goes, permit!At
    <3>4. /\ k \in permit!Jobs /\ k.kind = "sign" /\ k.id = j.id /\ k.sig = j.sig
               /\ k.who = j.who
          /\ k.alone = j.alone /\ k.read = rows[j.id].sigs
      BY <1>0, <3>1, <3>2, <3>3 DEF permit!TypeOK, permit!Jobs
    <3>5. jobs' \subseteq permit!Jobs /\ PermitJobs'
      BY <1>0, <3>3, <3>4 DEF permit!TypeOK, PermitJobs
    <3>6. AloneIsAlone'
      BY <1>0, <3>3, <3>4 DEF AloneIsAlone
    <3>7. AllAreRead'
      BY <1>0, <3>3, <3>4 DEF AllAreRead
    <3>8. permit!TypeOK'
      BY <1>0, <1>19, <3>5 DEF permit!SignReads, permit!TypeOK
    <3> QED
      BY <3>3, <3>5, <3>6, <3>7, <3>8, QuietStep
  <2> QED
    BY <2>1, <2>2
<1>20. ASSUME NEW j \in jobs, permit!SignWrites(j) PROVE PermitInv' /\ SigsKept
  <2>1. CASE permit!Get(j.id, j.who) = None
    <3>1. rows' = rows /\ permit!Goes(j, [j EXCEPT !.at = "show"]) /\ RowsKept
      BY <1>20, <2>1, RowsStay DEF permit!SignWrites
    <3>2. jobs' \subseteq permit!Jobs /\ PermitJobs' /\ AloneIsAlone' /\ AllAreRead'
      BY <3>1, JobShows
    <3>3. permit!TypeOK'
      BY <1>0, <1>20, <3>1, <3>2 DEF permit!SignWrites, permit!TypeOK
    <3> QED
      BY <3>1, <3>2, <3>3, QuietStep
  <2>2. CASE permit!Get(j.id, j.who) # None
    <3>1. j.id \in DOMAIN rows /\ rows[j.id] \in permit!Rows /\ rows[j.id].id = j.id
          /\ rows[j.id].tenant = j.who
      BY <1>0, <2>2, GetIs DEF permit!TypeOK
    <3>2. /\ j.kind = "sign" /\ j.at = "write" /\ j.sig \in permit!Signatures
          /\ j.read \cup {j.sig} \in SUBSET permit!Signatures
      BY <1>0, <1>20 DEF permit!SignWrites, permit!At, permit!TypeOK, PermitJobs, permit!Jobs
    <3>3. PICK row : row = [[rows[j.id] EXCEPT !.sigs = j.read \cup {j.sig}]
                              EXCEPT !.status = "signed"]
      OBVIOUS
    <3>4. /\ row \in permit!Rows /\ row.id = j.id /\ row.tenant = rows[j.id].tenant
          /\ row.sigs = j.read \cup {j.sig}
      BY <3>1, <3>2, <3>3 DEF permit!Rows
    <3>5. /\ DOMAIN rows' = DOMAIN rows
          /\ \A q \in DOMAIN rows' : rows'[q] = IF q = j.id THEN row ELSE rows[q]
      BY <1>20, <2>2, <3>3 DEF permit!SignWrites
    <3>6. PICK k : k = [j EXCEPT !.at = "show"]
      OBVIOUS
    <3>7. jobs' = (jobs \ {j}) \cup {k}
      BY <1>20, <3>6 DEF permit!SignWrites, permit!Goes
    <3>8. /\ k \in permit!Jobs /\ k.kind = "sign" /\ k.id = j.id /\ k.sig = j.sig
               /\ k.at = "show"
          /\ k.alone = j.alone
      BY <1>0, <3>2, <3>6 DEF permit!TypeOK, permit!Jobs
    <3>9. jobs' \subseteq permit!Jobs /\ PermitJobs' /\ AloneIsAlone'
      BY <1>0, <3>2, <3>7, <3>8 DEF permit!TypeOK, PermitJobs, AloneIsAlone
    <3>10. AllAreRead'
      <4> SUFFICES ASSUME NEW i \in jobs', i.kind = "sign", i.at = "write", i.alone,
                          i.id \in DOMAIN rows', rows'[i.id].tenant = i.who
                   PROVE  rows'[i.id].sigs \subseteq i.read
        BY DEF AllAreRead
      <4>1. i \in jobs /\ i # j
        BY <3>7, <3>8
      <4>2. i.id # j.id
        BY <1>0, <3>2, <4>1 DEF AloneIsAlone
      <4> QED
        BY <1>0, <3>5, <4>1, <4>2 DEF AllAreRead
    <3>11. permit!TypeOK'
      <4>1. \A q \in DOMAIN rows' : rows'[q] \in permit!Rows /\ rows'[q].id = q
        BY <1>0, <3>4, <3>5 DEF permit!TypeOK
      <4> QED
        BY <1>0, <1>20, <3>5, <3>9, <4>1 DEF permit!SignWrites, permit!TypeOK
    <3>12. SigsKept
      <4> SUFFICES ASSUME NEW p \in DOMAIN rows, p \in DOMAIN rows',
                          ~(rows[p].sigs \subseteq rows'[p].sigs)
                   PROVE  \E i \in jobs : i.kind = "sign" /\ i.id = p /\ ~i.alone
        BY DEF SigsKept
      <4>1. p = j.id
        BY <3>5
      <4>2. ~j.alone
        BY <1>0, <3>1, <3>2, <3>4, <3>5, <4>1 DEF AllAreRead
      <4> QED
        BY <3>2, <4>1, <4>2
    <3> QED
      BY <3>9, <3>10, <3>11, <3>12 DEF PermitInv
  <2> QED
    BY <2>1, <2>2
<1>21. ASSUME NEW j \in jobs, permit!Shows(j) PROVE PermitInv' /\ SigsKept
  <2>1. permit!Get(j.id, j.who) \in permit!Rows \cup {None}
    BY <1>0, GetIs
  <2> QED
    BY <1>0, <1>21, <1>b, <2>1 DEF permit!Shows, permit!TypeOK
<1>22. CASE UNCHANGED permit!vars
  BY <1>0, <1>22, <1>b DEF permit!vars, permit!TypeOK
<1> QED
  BY <1>1, <1>2, <1>3, <1>4, <1>5, <1>6, <1>8, <1>9, <1>10, <1>11, <1>12, <1>13, <1>14,
     <1>15, <1>16, <1>17, <1>18, <1>19, <1>20, <1>21, <1>22 DEF permit!Next

-----------------------------------------------------------------------------
(* The newest of a set of results. *)

\* The model's own count of a set.
LEMMA DeviceCounts == \A S : field!Cardinality(S) = Cardinality(S)
BY DEF field!Cardinality, Cardinality

\* Results of different times.
Timed(S) ==
    /\ IsFiniteSet(S)
    /\ \A x \in S : x.time \in Nat
    /\ \A x, y \in S : x.time = y.time => x = y

Top(S, m) == {x \in S : Cardinality(field!Newer(x, S)) < m}

\* The newer results can be counted.
LEMMA NewerIsFinite ==
    ASSUME NEW S, Timed(S), NEW x
    PROVE  field!Newer(x, S) \subseteq S /\ IsFiniteSet(field!Newer(x, S))
        /\ Cardinality(field!Newer(x, S)) \in Nat
<1>1. IsFiniteSet(S) /\ field!Newer(x, S) \subseteq S
  BY DEF Timed, field!Newer
<1>2. IsFiniteSet(field!Newer(x, S))
  BY <1>1, FS_Subset
<1> QED
  BY <1>1, <1>2, FS_CardinalityType

\* The newest results can be counted.
LEMMA TopIsFinite ==
    ASSUME NEW S, Timed(S), NEW m
    PROVE  Top(S, m) \subseteq S /\ IsFiniteSet(Top(S, m)) /\ Cardinality(Top(S, m)) \in Nat
<1>1. IsFiniteSet(S) /\ Top(S, m) \subseteq S
  BY DEF Timed, Top
<1>2. IsFiniteSet(Top(S, m))
  BY <1>1, FS_Subset
<1> QED
  BY <1>1, <1>2, FS_CardinalityType

\* What is among the newest is newer than what is not.
LEMMA TopIsNewer ==
    ASSUME NEW S, Timed(S), NEW m \in Nat, NEW x \in S, x \notin Top(S, m)
    PROVE  Top(S, m) \subseteq field!Newer(x, S)
<1> SUFFICES ASSUME NEW y \in Top(S, m), y \notin field!Newer(x, S) PROVE FALSE
  OBVIOUS
<1>1. y \in S /\ x.time \in Nat /\ y.time \in Nat
  BY DEF Top, Timed
<1>2. y.time <= x.time
  BY <1>1 DEF field!Newer
<1>3. field!Newer(x, S) \subseteq field!Newer(y, S)
  <2> SUFFICES ASSUME NEW z \in S, z.time > x.time PROVE z.time > y.time
    BY DEF field!Newer
  <2>1. z.time \in Nat
    BY DEF Timed
  <2> QED
    BY <1>1, <1>2, <2>1
<1>4. Cardinality(field!Newer(x, S)) <= Cardinality(field!Newer(y, S))
  BY <1>3, NewerIsFinite, FS_Subset
<1>5. Cardinality(field!Newer(x, S)) \in Nat /\ Cardinality(field!Newer(y, S)) \in Nat
  BY NewerIsFinite
<1>6. Cardinality(field!Newer(y, S)) < m /\ ~(Cardinality(field!Newer(x, S)) < m)
  BY DEF Top
<1> QED
  BY <1>4, <1>5, <1>6

\* A finite set of results that is not empty has a newest.
LEMMA NewestOf ==
    ASSUME NEW S, \A x \in S : x.time \in Nat, NEW b \in Nat, \A x \in S : x.time <= b, S # {}
    PROVE  \E x \in S : \A y \in S : y.time <= x.time
<1> DEFINE T == {n \in Nat : \E x \in S : x.time = b - n}
<1>1. PICK n \in T : \A m \in T : n <= m
  <2>1. PICK s \in S : TRUE
    OBVIOUS
  <2>2. b - s.time \in Nat /\ b - (b - s.time) = s.time
    OBVIOUS
  <2>3. b - s.time \in T
    BY <2>2
  <2>4. T \subseteq Nat /\ T # {}
    BY <2>3
  <2> HIDE DEF T
  <2> QED
    BY <2>4, LeastNat
<1>2. PICK x \in S : x.time = b - n /\ x.time \in Nat /\ n \in Nat
  BY <1>1
<1>3. \A y \in S : n <= b - y.time /\ y.time \in Nat
  <2>1. ASSUME NEW y \in S PROVE b - y.time \in T /\ y.time \in Nat
    <3>1. b - y.time \in Nat /\ b - (b - y.time) = y.time
      OBVIOUS
    <3> QED
      BY <3>1
  <2> QED
    BY <1>1, <2>1
<1>4. \A y \in S : y.time <= x.time
  BY <1>2, <1>3
<1> QED
  BY <1>2, <1>4

\* Of m results or more, the m newest are m.
LEMMA TopHas ==
    ASSUME NEW S, Timed(S), NEW b \in Nat, \A x \in S : x.time <= b,
           NEW m \in Nat, m <= Cardinality(S)
    PROVE  Cardinality(Top(S, m)) = m
<1> DEFINE T == {k \in Nat : k <= Cardinality(S) => Cardinality(Top(S, k)) = k}
<1>0. IsFiniteSet(S) /\ Cardinality(S) \in Nat /\ \A x \in S : x.time \in Nat
  BY FS_CardinalityType DEF Timed
<1>1. 0 \in T
  <2>1. Top(S, 0) = {}
    BY NewerIsFinite DEF Top
  <2> QED
    BY <2>1, FS_EmptySet
<1>2. ASSUME NEW k \in T PROVE k + 1 \in T
  <2> SUFFICES ASSUME k + 1 <= Cardinality(S) PROVE Cardinality(Top(S, k + 1)) = k + 1
    OBVIOUS
  <2>1. k \in Nat /\ Cardinality(Top(S, k)) = k
    BY <1>0
  <2>2. Top(S, k) \subseteq S /\ IsFiniteSet(Top(S, k))
    BY TopIsFinite
  <2>3. S \ Top(S, k) # {}
    <3>1. S # Top(S, k)
      BY <1>0, <2>1
    <3> QED
      BY <2>2, <3>1
  <2>4. PICK y \in S \ Top(S, k) : \A z \in S \ Top(S, k) : z.time <= y.time
    <3>1. \A z \in S \ Top(S, k) : z.time \in Nat /\ z.time <= b
      BY <1>0
    <3> QED
      BY <2>3, <3>1, NewestOf
  <2>5. field!Newer(y, S) = Top(S, k)
    <3>1. Top(S, k) \subseteq field!Newer(y, S)
      BY <2>1, TopIsNewer
    <3>2. ASSUME NEW z \in S, z.time > y.time PROVE z \in Top(S, k)
      BY <1>0, <2>4, <3>2
    <3> QED
      BY <3>1, <3>2 DEF field!Newer
  <2>6. Top(S, k + 1) = Top(S, k) \cup {y}
    <3>1. ASSUME NEW z \in Top(S, k) PROVE z \in Top(S, k + 1)
      <4>1. z \in S /\ Cardinality(field!Newer(z, S)) < k
                /\ Cardinality(field!Newer(z, S)) \in Nat
        BY NewerIsFinite DEF Top
      <4>2. Cardinality(field!Newer(z, S)) < k + 1
        BY <2>1, <4>1
      <4> QED
        BY <4>1, <4>2 DEF Top
    <3>2. y \in Top(S, k + 1)
      <4>1. Cardinality(field!Newer(y, S)) < k + 1
        BY <2>1, <2>5
      <4> QED
        BY <2>4, <4>1 DEF Top
    <3>3. ASSUME NEW z \in Top(S, k + 1), z \notin Top(S, k), z # y PROVE FALSE
      <4>1. z \in S /\ Cardinality(field!Newer(z, S)) < k + 1
                /\ Cardinality(field!Newer(z, S)) \in Nat
        BY NewerIsFinite, <3>3 DEF Top
      <4>2. Top(S, k) \subseteq field!Newer(z, S)
        BY <2>1, <3>3, <4>1, TopIsNewer
      <4>3. y \in field!Newer(z, S)
        <5>1. z.time <= y.time /\ z.time # y.time /\ z.time \in Nat /\ y.time \in Nat
          BY <2>4, <3>3, <4>1 DEF Timed
        <5> QED
          BY <2>4, <5>1 DEF field!Newer
      <4>4. Top(S, k) \cup {y} \subseteq field!Newer(z, S)
        BY <4>2, <4>3
      <4>5. Cardinality(Top(S, k) \cup {y}) = k + 1
        BY <2>1, <2>2, <2>4, FS_AddElement
      <4>6. Cardinality(Top(S, k) \cup {y}) <= Cardinality(field!Newer(z, S))
        BY <4>4, NewerIsFinite, FS_Subset
      <4> QED
        BY <2>1, <4>1, <4>5, <4>6
    <3> QED
      BY <3>1, <3>2, <3>3
  <2> QED
    BY <2>1, <2>2, <2>4, <2>6, FS_AddElement
<1>3. m \in T
  <2>1. T \subseteq Nat
    OBVIOUS
  <2> HIDE DEF T
  <2> QED
    BY <1>1, <1>2, <2>1, Induct
<1> QED
  BY <1>3

\* What the device has is of the model's types, and no two results have one time.
DeviceInv ==
    /\ field!TypeOK /\ IsFiniteSet(results)
    /\ \A x \in results : x.time <= clock
    /\ \A x, y \in results : x.time = y.time => x = y

\* The results of one tenant have different times.
LEMMA OwnResults ==
    ASSUME DeviceInv, NEW u
    PROVE  Timed(field!Of(u)) /\ \A x \in field!Of(u) : x.time <= clock
<1>1. field!Of(u) \subseteq results
  BY DEF field!Of
<1>2. IsFiniteSet(field!Of(u))
  BY <1>1, FS_Subset DEF DeviceInv
<1>3. \A x \in field!Of(u) : x.time \in Nat
  BY <1>1 DEF DeviceInv, field!TypeOK
<1> QED
  BY <1>1, <1>2, <1>3 DEF DeviceInv, Timed

\* The device before anything was calculated.
LEMMA DeviceInit == field!Init => DeviceInv
<1> SUFFICES ASSUME field!Init PROVE DeviceInv
  OBVIOUS
<1>1. results = {} /\ IsFiniteSet(results)
  BY FS_EmptySet DEF field!Init
<1>2. /\ runs = {} /\ clock \in 0..MaxResults /\ token = None /\ principal = None
      /\ log \subseteq {"seed", "clear"} /\ asking = None /\ reply = None
  BY FieldAssumption DEF field!Init
<1>3. up \in BOOLEAN /\ online \in BOOLEAN /\ catalog \in BOOLEAN /\ docs \in BOOLEAN
  BY DEF field!Init
<1>4. field!TypeOK
  BY <1>1, <1>2, <1>3 DEF field!TypeOK
<1> QED
  BY <1>1, <1>4 DEF DeviceInv

\* Every step of the field app keeps the invariant.
LEMMA DeviceStep == DeviceInv /\ [field!Next]_(field!vars) => DeviceInv'
<1> SUFFICES ASSUME DeviceInv, [field!Next]_(field!vars) PROVE DeviceInv'
  OBVIOUS
<1> USE FieldAssumption DEF field!session, field!calcs, field!ask, field!cache
<1>0. field!TypeOK
  BY DEF DeviceInv
<1>1. ASSUME UNCHANGED <<results, clock>>, field!TypeOK' PROVE DeviceInv'
  BY <1>1 DEF DeviceInv
<1>2. CASE field!Boot
  BY <1>0, <1>1, <1>2 DEF field!Boot, field!TypeOK
<1>3. CASE field!Kill
  BY <1>0, <1>1, <1>3 DEF field!Kill, field!TypeOK
<1>4. ASSUME NEW u \in field!Tenants, field!SignIn(u) PROVE DeviceInv'
  BY <1>0, <1>1, <1>4 DEF field!SignIn, field!TypeOK
<1>5. CASE field!SignOut
  BY <1>0, <1>1, <1>5 DEF field!SignOut, field!TypeOK
<1>6. CASE field!NetworkChanges
  BY <1>0, <1>1, <1>6 DEF field!NetworkChanges, field!TypeOK
<1>7. CASE field!LoadCatalog
  BY <1>0, <1>1, <1>7 DEF field!LoadCatalog, field!TypeOK
<1>8. CASE field!LeaveCalc
  BY <1>0, <1>1, <1>8 DEF field!LeaveCalc, field!TypeOK
<1>9. CASE field!Calculate
  BY <1>0, <1>1, <1>9 DEF field!Calculate, field!TypeOK
<1>10. ASSUME NEW r \in runs, field!CalcFails(r) PROVE DeviceInv'
  BY <1>0, <1>1, <1>10 DEF field!CalcFails, field!TypeOK
<1>11. ASSUME NEW r \in runs, field!Insert(r) PROVE DeviceInv'
  <2>1. PICK x : x = [time |-> clock + 1, tenant |-> r.who]
    OBVIOUS
  <2>2. /\ results' = results \cup {x} /\ clock' = clock + 1 /\ clock' \in 0..MaxResults
        /\ clock \in Nat /\ x.time = clock + 1 /\ x.time \in 1..MaxResults
        /\ x \in [time : 1..MaxResults, tenant : field!Tenants]
    BY <1>0, <1>11, <2>1 DEF field!Insert, field!TypeOK
  <2>3. PICK q : q = [r EXCEPT !.at = "trim"]
    OBVIOUS
  <2>4. runs' = (runs \ {r}) \cup {q} /\ q \in [who : field!Tenants, at : {"run", "trim"}]
    BY <1>0, <1>11, <2>3 DEF field!Insert, field!TypeOK
  <2>5. field!TypeOK'
    BY <1>0, <1>11, <2>2, <2>4 DEF field!Insert, field!TypeOK
  <2>6. IsFiniteSet(results')
    BY <2>2, FS_AddElement DEF DeviceInv
  <2>7. \A y \in results : y.time \in Nat /\ y.time <= clock
    BY <1>0 DEF DeviceInv, field!TypeOK
  <2>8. /\ \A y \in results' : y.time <= clock'
        /\ \A y, z \in results' : y.time = z.time => y = z
    BY <2>2, <2>7 DEF DeviceInv
  <2> QED
    BY <2>5, <2>6, <2>8 DEF DeviceInv
<1>12. ASSUME NEW r \in runs, field!Trim(r) PROVE DeviceInv'
  <2>1. results' \subseteq results /\ clock' = clock
    BY <1>12 DEF field!Trim, field!Recent, field!Of
  <2>2. field!TypeOK'
    BY <1>0, <1>12, <2>1 DEF field!Trim, field!TypeOK
  <2>3. IsFiniteSet(results')
    BY <2>1, FS_Subset DEF DeviceInv
  <2> QED
    BY <2>1, <2>2, <2>3 DEF DeviceInv
<1>13. CASE field!Ask
  <2>1. asking' \in [who : field!Tenants, here : BOOLEAN,
            at : {"server", "documents", "chunks"}]
    BY <1>0, <1>13 DEF field!Ask, field!TypeOK
  <2> QED
    BY <1>0, <1>1, <1>13, <2>1 DEF field!Ask, field!TypeOK
<1>14. ASSUME NEW source \in {"online", "offline_cache", "no_match"}, asking # None,
              field!Answered(source)
       PROVE  DeviceInv'
  <2>1. reply' \in [source : {"online", "offline_cache", "no_match"}, to : field!Tenants]
            \cup {None}
    BY <1>0, <1>14 DEF field!Answered, field!TypeOK
  <2> QED
    BY <1>0, <1>1, <1>14, <2>1 DEF field!Answered, field!TypeOK
<1>15. CASE field!ServerAnswers
  BY <1>14, <1>15 DEF field!ServerAnswers
<1>16. CASE field!ServerFails
  BY <1>0, <1>1, <1>16 DEF field!ServerFails, field!TypeOK
<1>17. CASE field!ListDocuments
  <2>1. CASE docs /\ asking.who = Demo
    BY <1>0, <1>1, <1>17, <2>1 DEF field!ListDocuments, field!TypeOK
  <2>2. CASE ~(docs /\ asking.who = Demo)
    BY <1>14, <1>17, <2>2 DEF field!ListDocuments
  <2> QED
    BY <2>1, <2>2
<1>18. CASE field!SearchChunks
  BY <1>14, <1>18 DEF field!SearchChunks
<1>19. CASE field!ClearCache
  BY <1>0, <1>1, <1>19 DEF field!ClearCache, field!TypeOK
<1>20. CASE UNCHANGED field!vars
  BY <1>0, <1>1, <1>20 DEF field!vars, field!TypeOK
<1> QED
  BY <1>2, <1>3, <1>4, <1>5, <1>6, <1>7, <1>8, <1>9, <1>10, <1>11, <1>12, <1>13, <1>15,
     <1>16, <1>17, <1>18, <1>19, <1>20 DEF field!Next

\* What a step removes has MAX_PER_TENANT newer ones of its tenant that stay.
Displaced ==
    \A x \in results \ results' :
       field!Cardinality({y \in field!Newer(x, results') : y.tenant = x.tenant}) >= MaxPerTenant

\* A step removes a result only behind enough newer ones.
LEMMA DisplacedStep == DeviceInv /\ [field!Next]_(field!vars) => Displaced
<1> SUFFICES ASSUME DeviceInv, [field!Next]_(field!vars), NEW x \in results \ results'
             PROVE  Cardinality({y \in field!Newer(x, results') : y.tenant
                 = x.tenant}) >= MaxPerTenant
  BY DeviceCounts DEF Displaced
<1>1. PICK r \in runs : field!Trim(r)
  BY DEF field!Next, field!vars, field!session, field!calcs, field!ask, field!cache, field!Boot,
     field!Kill, field!SignIn, field!SignOut, field!NetworkChanges, field!LoadCatalog,
     field!LeaveCalc, field!Calculate, field!CalcFails, field!Insert, field!Ask,
     field!ServerAnswers, field!Answered, field!ServerFails, field!ListDocuments,
     field!SearchChunks, field!ClearCache
<1> DEFINE S == field!Of(r.who)
           newer == {y \in field!Newer(x, results') : y.tenant = x.tenant}
<1>2. Timed(S) /\ (\A y \in S : y.time <= clock) /\ clock \in Nat /\ MaxPerTenant \in Nat
  BY OwnResults, FieldAssumption DEF DeviceInv, field!TypeOK
<1>3. field!Recent(r.who) = Top(S, MaxPerTenant)
  BY DeviceCounts DEF field!Recent, Top
<1>4. x \in S /\ x \notin Top(S, MaxPerTenant) /\ x.tenant = r.who
  BY <1>1, <1>3 DEF field!Trim, field!Of
<1>5. Top(S, MaxPerTenant) \subseteq field!Newer(x, S)
  BY <1>2, <1>4, TopIsNewer
<1>6. Top(S, MaxPerTenant) \subseteq newer
  BY <1>1, <1>3, <1>4, <1>5 DEF field!Trim, field!Newer, field!Of
<1>7. MaxPerTenant <= Cardinality(S)
  <2>1. Cardinality(field!Newer(x, S)) \in Nat /\ field!Newer(x, S) \subseteq S
    BY <1>2, NewerIsFinite
  <2>2. ~(Cardinality(field!Newer(x, S)) < MaxPerTenant)
    BY <1>4 DEF Top
  <2>3. IsFiniteSet(S) /\ Cardinality(S) \in Nat
    BY <1>2, FS_CardinalityType DEF Timed
  <2>4. Cardinality(field!Newer(x, S)) <= Cardinality(S)
    BY <2>1, <2>3, FS_Subset
  <2> QED
    BY <1>2, <2>1, <2>2, <2>3, <2>4
<1>8. Cardinality(Top(S, MaxPerTenant)) = MaxPerTenant
  <2> HIDE DEF S
  <2> QED
    BY <1>2, <1>7, TopHas
<1>9. IsFiniteSet(newer)
  <2>1. IsFiniteSet(results')
    BY DeviceStep DEF DeviceInv
  <2>2. newer \subseteq results'
    BY DEF field!Newer
  <2> HIDE DEF newer
  <2> QED
    BY <2>1, <2>2, FS_Subset
<1>10. Cardinality(Top(S, MaxPerTenant)) <= Cardinality(newer) /\ Cardinality(newer) \in Nat
  <2> HIDE DEF newer, S
  <2> QED
    BY <1>6, <1>9, FS_Subset, FS_CardinalityType
<1> HIDE DEF newer
<1>11. Cardinality(newer) >= MaxPerTenant
  BY <1>2, <1>8, <1>10
<1> QED
  BY <1>11 DEF newer

-----------------------------------------------------------------------------
(* Both parts of the field app, whichever screen is shown. *)

\* The screen of a behaviour stays, and with it whose actions the device sees.
LEMMA MobileStep ==
    [Next]_vars =>
      /\ page' = page
      /\ page = "permit" => [permit!Next]_(permit!vars)
      /\ page = "field" => [field!Next]_(field!vars)
      /\ page # "permit" => UNCHANGED rows
      /\ page # "field" => UNCHANGED results
BY DEF Next, ChatNext, WorkspaceNext, ComposerNext, ResearchNext, LearningNext, MembershipNext,
   OnboardingNext, AccountsNext, TasksNext, DocumentsNext, EmissionsNext, PermitNext, FieldNext,
   vars, desk, office, mobile, permits, device, permit!vars, field!vars

\* The principal is that of the screen that is shown.
MobileInv ==
    /\ page = "permit" => PermitInv
    /\ page = "field" => DeviceInv

\* Every behaviour of the screens keeps what the device stores.
LEMMA MobileHolds == Spec => []MobileInv
<1>1. Init => MobileInv
  BY PermitInit, DeviceInit DEF Init, MobileInv
<1>2. MobileInv /\ [Next]_vars => MobileInv'
  BY MobileStep, PermitStep, DeviceStep DEF MobileInv
<1> QED
  BY <1>1, <1>2, PTL DEF Spec

\* A permit that stays on the device keeps every signature it has, whatever text
\* is saved and whichever screens are left meanwhile, unless two signatures are
\* being added to it at once (addSignature of lib/ptw/repository.ts).
THEOREM SignaturesAreKept == Spec => SignaturesKept
<1>1. MobileInv /\ [Next]_vars => [SigsKept]_(permit!vars)
  <2> SUFFICES ASSUME MobileInv, [Next]_vars PROVE SigsKept
    OBVIOUS
  <2>1. CASE page = "permit"
    BY <2>1, MobileStep, PermitStep DEF MobileInv
  <2>2. CASE page # "permit"
    BY <2>2, MobileStep DEF SigsKept
  <2> QED
    BY <2>1, <2>2
<1> QED
  BY <1>1, MobileHolds, PTL DEF Spec, SignaturesKept, permit!SignaturesKept, SigsKept

\* A result of a calculation leaves the device only when MAX_PER_TENANT newer
\* ones of its tenant stay, however the calculations of several sessions overlap
\* (lib/calc/repository.ts).
THEOREM NewestResultsAreKept == Spec => NewestResultsKept
<1>1. MobileInv /\ [Next]_vars => [Displaced]_(field!vars)
  <2> SUFFICES ASSUME MobileInv, [Next]_vars PROVE Displaced
    OBVIOUS
  <2>1. CASE page = "field"
    BY <2>1, MobileStep, DisplacedStep DEF MobileInv
  <2>2. CASE page # "field"
    BY <2>2, MobileStep DEF Displaced
  <2> QED
    BY <2>1, <2>2
<1> QED
  BY <1>1, MobileHolds, PTL DEF Spec, NewestResultsKept, field!NewestResultsKept, Displaced

-----------------------------------------------------------------------------
(* The screens together. *)

Pages ==
    {"chat", "workspace", "composer", "research", "learning", "membership", "onboarding",
     "accounts", "tasks", "documents", "emissions", "permit", "field"}

\* A behaviour shows one of the screens.
LEMMA OneScreen == Spec => [](page \in Pages)
<1>1. Init => page \in Pages
  BY DEF Init, Pages
<1>2. page \in Pages /\ [Next]_vars => (page \in Pages)'
  BY MobileStep
<1> QED
  BY <1>1, <1>2, PTL DEF Spec

\* Whichever screen is shown, its state is one of its model's.
THEOREM TypeCorrect == Spec => []TypeOK
<1> DEFINE Types ==
             /\ page = "chat" => chat!TypeOK
             /\ page = "workspace" => workspace!TypeOK
             /\ composer!TypeOK /\ research!TypeOK /\ learning!TypeOK /\ membership!TypeOK
             /\ onboarding!TypeOK /\ accounts!TypeOK /\ compliance!TypeOK
             /\ documents!TypeOK /\ emissions!TypeOK
<1>1. MobileInv /\ Types /\ page \in Pages => TypeOK
  BY DEF MobileInv, PermitInv, DeviceInv, TypeOK, Pages
<1> QED
  BY <1>1, MobileHolds, OneScreen, ChatTypes, SidebarTypesHold, ComposerTypes,
     ResearchPageTypes, ConsoleIsTyped, MembershipTypes, OnboardingTypes, AccountsTypes,
     AgendaIsTyped, DocumentsTypes, EmissionsTypes, PTL
=============================================================================
