------------------------------ MODULE Learning ------------------------------
(***************************************************************************)
(* What a tenant teaches the system: ratings of answers, the memories that *)
(* go into every prompt, made of them or written, and the console an       *)
(* administrator promotes, archives and approves with                      *)
(* (apps/web/app/admin/AdminLearningClient.tsx, and the platform's twin,   *)
(* apps/admin/app/tenants/[id]/learning/LearningClient.tsx).  Server:      *)
(* app/api/routes_admin_memory.py, app/core/glossary_extractor.py.         *)
(*                                                                         *)
(* One user rates, and says why.  A memory is a preference or a glossary   *)
(* entry; its body is the term it mentions, alone or in a sentence.  The   *)
(* console's lists of ratings and of candidates are those of the moment:   *)
(* the server checks a promotion again.  Counts, trends, errors and chunk  *)
(* weights are only shown and are left out.                                *)
(***************************************************************************)
EXTENDS Frontend

Sections == {"promote", "create", "archive", "approve"}

VARIABLES
    rating,      \* feedback_events: the rating of each turn
    memories,    \* tenant_memories
    listed, fetch,  \* the console's list of memories, or None; the fetch of it under way
    promoting, approving,  \* the dialog that is open: its turn, its term, or None
    saves,       \* mutations under way
    behind       \* history: memories changed, and no list is fetched for it

vars == <<rating, memories, listed, fetch, promoting, approving, saves, behind>>
server == <<rating, memories>>
view == <<listed, fetch>>
dialogs == <<promoting, approving>>

MemoryIds == 1..MaxMemories
Bodies == [term : Terms, bare : BOOLEAN]
Sentence(t) == [term |-> t, bare |-> FALSE]

\* A fetch that is under way, before and after it was served.
Sent == [at |-> "sent", rows |-> {}]
Idle == [at |-> "idle", rows |-> {}]

Init ==
    /\ rating = [t \in Rated |-> None]
    /\ memories = <<>>
    /\ listed = None /\ fetch = Sent
    /\ promoting = None /\ approving = None /\ saves = {} /\ behind = FALSE

Active == {m \in DOMAIN memories : memories[m].status = "active"}

\* Terms two active memories mention, except those that are all of the body of a
\* terminology entry (extract_candidates).
GlossaryCandidates ==
    {t \in Terms :
       /\ Cardinality({m \in Active : memories[m].body.term = t}) >= 2
       /\ ~\E m \in Active : /\ memories[m].kind = "terminology"
                             /\ memories[m].body = [term |-> t, bare |-> TRUE]}

-----------------------------------------------------------------------------
(* Ratings. *)

\* A rating replaces the last one of its turn.
SubmitFeedback(t, r) ==
    /\ rating' = [rating EXCEPT ![t] = r]
    /\ UNCHANGED <<memories, view, dialogs, saves, behind>>

-----------------------------------------------------------------------------
(* The console: queries. *)

\* The list is also fetched again when the connection returns.
Refetch ==
    /\ fetch = Idle /\ listed # Active
    /\ fetch' = Sent
    /\ UNCHANGED <<server, listed, dialogs, saves, behind>>

FetchServed ==
    /\ fetch = Sent
    /\ fetch' = [at |-> "answered", rows |-> Active]
    /\ behind' = FALSE
    /\ UNCHANGED <<server, listed, dialogs, saves>>

FetchEnds ==
    /\ fetch # Idle
    /\ fetch' = Idle
    /\ \/ fetch.at = "answered" /\ listed' = fetch.rows /\ UNCHANGED behind
       \/ UNCHANGED listed /\ behind' = TRUE      \* the request or its answer is lost
    /\ UNCHANGED <<server, dialogs, saves>>

-----------------------------------------------------------------------------
(* The console: dialogs and mutations. *)

Saving(section) == \E s \in saves : s.section = section

\* "Promote to memory", offered for a 👎; "Approve as glossary entry"; "Cancel".
StartPromote(t) ==
    /\ rating[t] = "down" /\ promoting = None
    /\ promoting' = t
    /\ UNCHANGED <<server, view, approving, saves, behind>>
StartApprove(t) ==
    /\ t \in GlossaryCandidates /\ approving = None
    /\ approving' = t
    /\ UNCHANGED <<server, view, promoting, saves, behind>>
Cancel ==
    /\ \/ promoting # None /\ ~Saving("promote") /\ promoting' = None /\ UNCHANGED approving
       \/ approving # None /\ ~Saving("approve") /\ approving' = None /\ UNCHANGED promoting
    /\ UNCHANGED <<server, view, saves, behind>>

\* One mutation of a section at a time.
Save(section, body, about) ==
    /\ ~Saving(section) /\ Cardinality(saves) < MaxSaves
    /\ saves' = saves \cup {[section |-> section, at |-> "sent", body |-> body, about |-> about]}
    /\ UNCHANGED <<server, view, dialogs, behind>>

SavePromotion(body) == promoting # None /\ Save("promote", body, promoting)
AddMemory(body) == Save("create", body, None)
ArchiveMemory(m) == listed # None /\ m \in listed /\ Save("archive", None, m)
\* The dialog proposes a sentence that quotes the term.
SaveGlossaryEntry(bare) ==
    approving # None /\ Save("approve", [term |-> approving, bare |-> bare], approving)

Steps(s, at) == saves' = (saves \ {s}) \cup {[s EXCEPT !.at = at]}

Created(kind, body) ==
    /\ Cardinality(DOMAIN memories) < MaxMemories
    /\ memories' = Put(memories, Cardinality(DOMAIN memories) + 1,
                       [kind |-> kind, status |-> "active", body |-> body])

\* promote_feedback reads the rating, then creates; it is not read again.
CheckPromotion(s) ==
    /\ s.section = "promote" /\ s.at = "sent"
    /\ Steps(s, IF rating[s.about] = "down" THEN "checked" ELSE "refused")
    /\ UNCHANGED <<server, view, dialogs, behind>>

Execute(s) ==
    /\ \/ s.section = "promote" /\ s.at = "checked" /\ Created("preference", s.body)
       \/ s.section = "create" /\ s.at = "sent" /\ Created("preference", s.body)
       \/ s.section = "approve" /\ s.at = "sent" /\ Created("terminology", s.body)
       \/ /\ s.section = "archive" /\ s.at = "sent"
          /\ memories' = [memories EXCEPT ![s.about].status = "archived"]
    /\ Steps(s, "done")
    /\ UNCHANGED <<rating, view, dialogs, behind>>

\* Mutant: a fetch that is under way is taken for the new one.
SucceedsUncancelled(s) ==
    /\ s.at = "done"
    /\ saves' = saves \ {s}
    /\ fetch' = IF fetch = Idle THEN Sent ELSE fetch
    /\ promoting' = IF s.section = "promote" THEN None ELSE promoting
    /\ approving' = IF s.section = "approve" THEN None ELSE approving
    /\ UNCHANGED <<server, listed, behind>>

\* invalidateQueries cancels a fetch of a list that is there, and not the first.
FirstLoad == listed = None /\ fetch # Idle

\* The list is fetched again; an older fetch of it is cancelled.
Succeeds(s) ==
    /\ s.at = "done"
    /\ saves' = saves \ {s}
    /\ fetch' = IF FirstLoad THEN fetch ELSE Sent
    /\ behind' = (behind \/ (FirstLoad /\ fetch.at = "answered"))
    /\ promoting' = IF s.section = "promote" THEN None ELSE promoting
    /\ approving' = IF s.section = "approve" THEN None ELSE approving
    /\ UNCHANGED <<server, listed>>

\* Refused, not served, or served and the answer lost: the dialog stays open.
Fails(s) ==
    /\ saves' = saves \ {s}
    /\ behind' = (behind \/ s.at = "done")
    /\ UNCHANGED <<server, view, dialogs>>

\* Another administrator.
ElsewhereArchived(m) ==
    /\ m \in Active
    /\ memories' = [memories EXCEPT ![m].status = "archived"]
    /\ behind' = TRUE
    /\ UNCHANGED <<rating, view, dialogs, saves>>

Next ==
    \/ \E t \in Rated, r \in {"up", "down"} : SubmitFeedback(t, r)
    \/ Refetch
    \/ FetchServed
    \/ FetchEnds
    \/ \E t \in Rated : StartPromote(t)
    \/ \E t \in Terms : StartApprove(t)
    \/ Cancel
    \/ \E t \in Terms : SavePromotion(Sentence(t))
    \/ \E t \in Terms : AddMemory(Sentence(t))
    \/ \E m \in MemoryIds : ArchiveMemory(m)
    \/ \E bare \in BOOLEAN : SaveGlossaryEntry(bare)
    \/ \E s \in saves : CheckPromotion(s)
    \/ \E s \in saves : Execute(s)
    \/ \E s \in saves : Succeeds(s)
    \/ \E s \in saves : Fails(s)
    \/ \E m \in MemoryIds : ElsewhereArchived(m)

Spec == Init /\ [][Next]_vars

-----------------------------------------------------------------------------
(* Properties. *)

TypeOK ==
    /\ behind \in BOOLEAN
    /\ rating \in [Rated -> {"up", "down", None}]
    /\ DOMAIN memories \subseteq MemoryIds
    /\ \A m \in DOMAIN memories :
          memories[m] \in [kind : {"preference", "terminology"},
                           status : {"active", "archived"}, body : Bodies]
    /\ listed \in (SUBSET MemoryIds) \cup {None}
    /\ fetch \in [at : {"idle", "sent", "answered"}, rows : SUBSET MemoryIds]
    /\ promoting \in Rated \cup {None} /\ approving \in Terms \cup {None}
    /\ \A s \in saves : s.section \in Sections
                        /\ s.at \in {"sent", "checked", "refused", "done"}

\* With no fetch and no save under way the console lists exactly the active
\* memories, unless they changed in a way it could not know of, or while its first
\* list was on its way: no other answer that was under way when a save succeeded
\* puts the older list back.
ListIsCurrent ==
    /\ fetch = Idle /\ ~behind
    /\ \A s \in saves : s.at # "done"
    => listed = Active
=============================================================================
