----------------------------- MODULE Onboarding -----------------------------
(***************************************************************************)
(* The wizard that sets up a workspace (apps/web/app/onboarding/           *)
(* OnboardingClient.tsx, entered from app/signup/account-type or, to edit, *)
(* from the settings) and the profile it fills on the server               *)
(* (app/api/routes_onboarding.py, save_profile of onboarding_repository).  *)
(*                                                                         *)
(* One user with one tab.  The required answers of an account type are one *)
(* item; assets and invitations (see Membership) only keep the page busy.  *)
(* The copy of the profile in the tenant's attributes is left out.         *)
(***************************************************************************)
EXTENDS Frontend

VARIABLES
    profile,    \* the stored profile
    wizard,     \* the page: its account type and step, what is filled in, busy
    calls       \* requests of the wizard under way

vars == <<profile, wizard, calls>>

Types == {"individual", "company"}
Last(type) == IF type = "company" THEN 5 ELSE 4
Profiles == [type : Types \cup {None}, answered : SUBSET Types,
             status : {"not_started", "in_progress", "completed"}]

Gone == [at |-> "gone", type |-> None, step |-> 0, filled |-> {}, busy |-> FALSE]

Init ==
    /\ profile = [type |-> None, answered |-> {}, status |-> "not_started"]
    /\ wizard = Gone /\ calls = {}

-----------------------------------------------------------------------------
(* The page. *)

\* The stored profile is loaded with its answers; unless the user came to edit,
\* a completed one leads on to the chat.
Open(edit) ==
    /\ wizard.at = "gone"
    /\ edit \/ profile.status # "completed"
    /\ wizard' = [at |-> "open", type |-> profile.type, step |-> 0,
                  filled |-> profile.answered, busy |-> FALSE]
    /\ UNCHANGED <<profile, calls>>

\* Requests go on, their answers find nobody.
Leave ==
    /\ wizard.at = "open"
    /\ wizard' = Gone
    /\ calls' = {[c EXCEPT !.here = FALSE] : c \in calls}
    /\ UNCHANGED profile

\* A field of the first step; what is typed can be cleared again.
Fill ==
    /\ wizard.type # None /\ wizard.step = 0
    /\ \/ wizard' = [wizard EXCEPT !.filled = @ \cup {wizard.type}]
       \/ wizard' = [wizard EXCEPT !.filled = @ \ {wizard.type}]
    /\ UNCHANGED <<profile, calls>>

Call(op, type) ==
    /\ Cardinality(calls) < MaxHandlers
    /\ calls' = calls \cup {[op |-> op, type |-> type, at |-> "sent", here |-> TRUE,
                             filled |-> op # "choose" /\ type \in wizard.filled]}
    /\ wizard' = [wizard EXCEPT !.busy = TRUE]
    /\ UNCHANGED profile

\* The cards of the account types do not look at busy.
ChooseType(type) ==
    wizard.at = "open" /\ wizard.type = None /\ Call("choose", type)

\* "Save and continue" saves every step of an individual and the first three
\* of a company, and checks the first; "Skip for now" and "Back" save nothing.
Saves == wizard.type = "individual" \/ wizard.step <= 2
Forward(w) ==
    [w EXCEPT !.step = IF @ < Last(w.type) THEN @ + 1 ELSE Last(w.type), !.busy = FALSE]

Continue ==
    /\ wizard.type # None /\ ~wizard.busy /\ wizard.step # Last(wizard.type)
    /\ wizard.step = 0 => wizard.type \in wizard.filled
    /\ \/ Saves /\ Call("save", wizard.type)
       \/ ~Saves /\ wizard' = Forward(wizard) /\ UNCHANGED <<profile, calls>>

Back ==
    /\ wizard.step > 0 /\ ~wizard.busy
    /\ wizard' = [wizard EXCEPT !.step = @ - 1]
    /\ UNCHANGED <<profile, calls>>

\* "Add asset" and "Create invite" of the steps after those.
AddExtra ==
    /\ wizard.type = "company" /\ wizard.step \in {3, 4} /\ ~wizard.busy
    /\ Call("extra", "company")

\* "Enter PetroBrain": save once more, then complete.
Finish ==
    /\ wizard.type # None /\ wizard.step = Last(wizard.type) /\ ~wizard.busy
    /\ Call("finish", wizard.type)

-----------------------------------------------------------------------------
(* The server. *)

Becomes(c, at) == calls' = (calls \ {c}) \cup {[c EXCEPT !.at = at]}

\* save_profile: one row per user; answers are merged into those that are
\* there and the status is in progress again.
SaveProfile(type, answered) ==
    profile' = [type |-> type, answered |-> profile.answered \cup answered,
                status |-> "in_progress"]

Choose(c) ==
    /\ c.op = "choose" /\ c.at = "sent"
    /\ SaveProfile(c.type, {})
    /\ Becomes(c, "done")
    /\ UNCHANGED wizard

\* A request without the required answers is refused (422).
SaveAnswers(c) ==
    /\ c.op \in {"save", "finish", "extra"} /\ c.at = "sent"
    /\ \/ /\ c.filled
          /\ SaveProfile(c.type, {c.type})
          /\ Becomes(c, IF c.op = "finish" THEN "saved" ELSE "done")
       \/ ~c.filled /\ Becomes(c, "failed") /\ UNCHANGED profile
    /\ UNCHANGED wizard

\* complete_onboarding reads the profile and its type's required answers, ...
ReadComplete(c) ==
    /\ c.at = "saved"
    /\ calls' = (calls \ {c}) \cup
         {[c EXCEPT !.type = profile.type,
                    !.at = IF profile.type \in profile.answered THEN "read" ELSE "failed"]}
    /\ UNCHANGED <<profile, wizard>>

\* Mutant: whatever type the profile has by now stays.
WriteCompleteStatus(c) ==
    /\ c.at = "read"
    /\ profile' = [profile EXCEPT !.status = "completed"]
    /\ Becomes(c, "done")
    /\ UNCHANGED wizard

\* ... and writes the type that it has read.
WriteComplete(c) ==
    /\ c.at = "read"
    /\ profile' = [profile EXCEPT !.type = c.type, !.status = "completed"]
    /\ Becomes(c, "done")
    /\ UNCHANGED wizard

Extra(c) ==
    /\ c.op = "extra" /\ c.at = "sent"
    /\ Becomes(c, "done")
    /\ UNCHANGED <<profile, wizard>>

\* A request fails, at once or between two steps.
CallFails(c) ==
    /\ c.at \notin {"failed", "done"}
    /\ Becomes(c, "failed")
    /\ UNCHANGED <<profile, wizard>>

\* The handler ends: a type that was chosen is the page's whatever it shows by
\* then, a step was saved, the workspace is entered; busy is over.
Answered(c) ==
    /\ c.at \in {"done", "failed"}
    /\ calls' = calls \ {c}
    /\ wizard' = CASE ~c.here -> wizard
                   [] c.at = "done" /\ c.op = "choose" ->
                        [wizard EXCEPT !.type = c.type, !.busy = FALSE]
                   [] c.at = "done" /\ c.op = "save" -> Forward(wizard)
                   [] c.at = "done" /\ c.op = "finish" -> Gone
                   [] OTHER -> [wizard EXCEPT !.busy = FALSE]
    /\ UNCHANGED profile

-----------------------------------------------------------------------------
Next ==
    \/ \E edit \in BOOLEAN : Open(edit)
    \/ Leave
    \/ Fill
    \/ \E type \in Types : ChooseType(type)
    \/ Continue
    \/ Back
    \/ AddExtra
    \/ Finish
    \/ \E c \in calls : Choose(c)
    \/ \E c \in calls : SaveAnswers(c)
    \/ \E c \in calls : ReadComplete(c)
    \/ \E c \in calls : WriteComplete(c)
    \/ \E c \in calls : Extra(c)
    \/ \E c \in calls : CallFails(c)
    \/ \E c \in calls : Answered(c)

Spec == Init /\ [][Next]_vars

-----------------------------------------------------------------------------
(* Properties. *)

Calls ==
    [op : {"choose", "save", "finish", "extra"}, type : Types \cup {None},
     at : {"sent", "saved", "read", "done", "failed"}, filled : BOOLEAN, here : BOOLEAN]

TypeOK ==
    /\ profile \in Profiles
    /\ wizard \in [at : {"open", "gone"}, type : Types \cup {None}, step : 0..5,
                   filled : SUBSET Types, busy : BOOLEAN]
    /\ calls \subseteq Calls

\* A completed profile has the required answers of its account type, although
\* both cards of the first page can be clicked, the second answer may turn a
\* wizard of one type into one of the other half way, and the type may change
\* between the check of the answers and the write of "completed".
CompletedHasAnswers ==
    profile.status = "completed" => profile.type \in profile.answered
=============================================================================
