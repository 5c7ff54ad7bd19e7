----------------------------- MODULE Emissions -----------------------------
(***************************************************************************)
(* The emissions page (app/emissions of the web application): the composer *)
(* that builds an inventory of sources, the history of inventories with    *)
(* its filters, and the inventory that is selected; and the server's       *)
(* inventories (app/api/routes_emissions.py, app/db/mrv_repository.py).    *)
(*                                                                         *)
(* A source has a type and readings; whether those of its type are all in  *)
(* range is what is kept of them.  A period is a quarter or another text.  *)
(* Inventories never change, so which of them are cached in full is left   *)
(* out, as are the calculator of the page, emission factors, and how a     *)
(* report is laid out.                                                     *)
(***************************************************************************)
EXTENDS Frontend

Types == {"flaring", "combustion"}             \* of the five
Periods == {"quarter", "other"}

VARIABLES
    inventories, \* the server's inventories, in the order they were made
    known, listing, \* the list of them in the cache, or None; the fetch of it under way
    quarter,     \* the filter on periods is set
    selected,    \* selectedId
    builder,    \* what the composer holds, or None: it is closed
    posting,     \* the inventory that is being made, or None
    unseen       \* history: inventories were made, and no list is fetched for it

vars == <<inventories, known, listing, quarter, selected, builder, posting, unseen>>
history == <<known, listing>>
view == <<quarter, selected>>

Inventory == [period : Periods, sources : Seq(Types)]
Idle == [at |-> "idle", rows |-> {}]
Sent == [at |-> "sent", rows |-> {}]

\* A new source is of flaring, with readings that fit.
NewSource == [type |-> "flaring", fits |-> TRUE]
Source == [type : Types, fits : BOOLEAN]

\* An empty form: its first source is there, its required texts are not.
Blank == [period |-> None, sources |-> <<NewSource>>]

Init ==
    /\ inventories = <<>> /\ known = None /\ listing = Sent
    /\ quarter = FALSE /\ selected = None
    /\ builder = None /\ posting = None /\ unseen = FALSE

-----------------------------------------------------------------------------
(* The history. *)

\* applyHistoryFilters: a period that is no quarter is dropped by a filter.
Filtered ==
    IF known = None THEN {}
    ELSE {i \in known : quarter => inventories[i].period = "quarter"}

ListServed ==
    /\ listing = Sent
    /\ listing' = [at |-> "answered", rows |-> DOMAIN inventories]
    /\ unseen' = FALSE
    /\ UNCHANGED <<inventories, known, view, builder, posting>>

ListArrives ==
    /\ listing.at = "answered"
    /\ known' = listing.rows /\ listing' = Idle
    /\ UNCHANGED <<inventories, view, builder, posting, unseen>>

ListFails ==
    /\ listing # Idle
    /\ listing' = Idle /\ unseen' = TRUE
    /\ UNCHANGED <<inventories, known, view, builder, posting>>

SetFilter ==
    /\ quarter' = ~quarter
    /\ UNCHANGED <<inventories, history, selected, builder, posting, unseen>>

Select(i) ==
    /\ i \in Filtered
    /\ selected' = i
    /\ UNCHANGED <<inventories, history, quarter, builder, posting, unseen>>

-----------------------------------------------------------------------------
(* The composer. *)

\* "New inventory", "Close composer": also while a request is under way.
ToggleComposer ==
    /\ builder' = IF builder = None THEN Blank ELSE None
    /\ UNCHANGED <<inventories, history, view, posting, unseen>>

\* Every field and button of the form is disabled while a request is under way.
Editable == builder # None /\ posting = None

Change(form) ==
    /\ builder' = form
    /\ UNCHANGED <<inventories, history, view, posting, unseen>>

\* Required texts are not emptied again here.
SetPeriod(p) == Editable /\ Change([builder EXCEPT !.period = p])

AddSource ==
    /\ Editable /\ Len(builder.sources) < MaxSources
    /\ Change([builder EXCEPT !.sources = Append(@, NewSource)])

\* The last source cannot be removed.
RemoveSource(k) ==
    /\ Editable /\ k \in DOMAIN builder.sources /\ Len(builder.sources) > 1
    /\ Change([builder EXCEPT !.sources =
                 SubSeq(@, 1, k - 1) \o SubSeq(@, k + 1, Len(@))])

\* Mutant: a source can be edited while the request is under way.
EditSourceAlways(k, source) ==
    /\ builder # None /\ k \in DOMAIN builder.sources
    /\ Change([builder EXCEPT !.sources[k] = source])

\* A reading is entered; or the type is chosen, whose readings are those that were
\* entered for it before.
EditSource(k, source) ==
    /\ Editable /\ k \in DOMAIN builder.sources
    /\ Change([builder EXCEPT !.sources[k] = source])

\* toInventorySource: only the readings of the source's own type are sent.
ToInventorySource(source) == source.type
ToInventory(form) ==
    [period |-> form.period,
     sources |-> [k \in DOMAIN form.sources |-> ToInventorySource(form.sources[k])]]

\* submit: the first source with a reading that does not fit is named, and
\* nothing is sent.
Submit ==
    /\ Editable /\ builder.period # None
    /\ \A k \in DOMAIN builder.sources : builder.sources[k].fits
    /\ posting' = [form |-> builder, id |-> None]
    /\ UNCHANGED <<inventories, history, view, builder, unseen>>

\* The answer is on its way.
Stored == IF posting = None THEN FALSE ELSE posting.id # None

\* inventory: the report is built and the inventory stored.
Store ==
    /\ posting # None /\ posting.id = None /\ Len(inventories) < MaxInventories
    /\ inventories' = Append(inventories, ToInventory(posting.form))
    /\ posting' = [posting EXCEPT !.id = Len(inventories) + 1]
    /\ UNCHANGED <<history, view, builder, unseen>>

\* invalidateQueries cancels a fetch of a list that is there, and not the first.
FirstLoad == known = None /\ listing # Idle

\* onSuccess: the list is fetched again, the new inventory is selected, and the
\* composer is closed, whichever it is.
Succeeds ==
    /\ Stored
    /\ listing' = IF FirstLoad THEN listing ELSE Sent
    /\ unseen' = (unseen \/ (FirstLoad /\ listing.at = "answered"))
    /\ selected' = posting.id
    /\ builder' = None /\ posting' = None
    /\ UNCHANGED <<inventories, known, quarter>>

\* Refused, not served, or stored and the answer lost: the form stays.
Fails ==
    /\ posting # None
    /\ posting' = None
    /\ unseen' = (unseen \/ Stored)
    /\ UNCHANGED <<inventories, history, view, builder>>

\* A colleague makes an inventory.
ElsewhereStored ==
    /\ Len(inventories) < MaxInventories
    /\ inventories' = Append(inventories, [period |-> "other", sources |-> <<"combustion">>])
    /\ unseen' = TRUE
    /\ UNCHANGED <<history, view, builder, posting>>

Next ==
    \/ ListServed
    \/ ListArrives
    \/ ListFails
    \/ SetFilter
    \/ \E i \in 1..MaxInventories : Select(i)
    \/ ToggleComposer
    \/ \E p \in Periods : SetPeriod(p)
    \/ AddSource
    \/ \E k \in 1..MaxSources : RemoveSource(k)
    \/ \E k \in 1..MaxSources, source \in Source : EditSource(k, source)
    \/ Submit
    \/ Store
    \/ Succeeds
    \/ Fails
    \/ ElsewhereStored

Spec == Init /\ [][Next]_vars

-----------------------------------------------------------------------------
(* Properties. *)

Forms == [period : Periods \cup {None}, sources : Seq(Source)]

TypeOK ==
    /\ inventories \in Seq(Inventory)
    /\ known \in (SUBSET DOMAIN inventories) \cup {None}
    /\ listing \in [at : {"idle", "sent", "answered"}, rows : SUBSET DOMAIN inventories]
    /\ quarter \in BOOLEAN /\ unseen \in BOOLEAN
    /\ selected \in DOMAIN inventories \cup {None}
    /\ builder \in Forms \cup {None}
    /\ posting \in [form : Forms, id : DOMAIN inventories \cup {None}] \cup {None}

\* The answer to a request closes the composer, whichever composer is open by
\* then: it never closes one with anything in it but what the request stored,
\* even when the composer was closed and opened again meanwhile; and what the
\* server stored is what was in the composer when it was sent.
DraftIsSent ==
    posting # None =>
      /\ builder \in {None, Blank, posting.form}
      /\ Stored => inventories[posting.id] = ToInventory(posting.form)

\* With no fetch and no answer under way the history lists every inventory of
\* the server, unless others were made elsewhere or unnoticed, or while the
\* first list was on its way: no older answer hides the one just made.
HistoryIsCurrent ==
    /\ listing = Idle /\ ~unseen
    /\ ~Stored
    => known = DOMAIN inventories
=============================================================================
