------------------------------ MODULE Screens ------------------------------
(***************************************************************************)
(* The models of the front ends' screens side by side, for one run.  The   *)
(* screens act on states of their own, so a behaviour is one of one screen *)
(* and the variables of the others keep their initial values.  Chat and    *)
(* Workspace are two views of one conversation store and share it.         *)
(***************************************************************************)
EXTENDS Conversations

VARIABLES
    page,                                                           \* the screen of this behaviour
    session, store, made,                                           \* Chat and Workspace
    asked, stream, answer,                                          \* Chat
    projects, planned, project, renaming, archived,                 \* Workspace
    mounted, text, files, reading, voice, base, heard, pending,     \* Composer
    sending, entered, uses, late, sent,
    open, server, briefs, history, active, busy, current, handlers, \* ResearchPage
    rating, memories, listed, fetch, promoting, approving, saves,   \* Learning
    behind,
    invites, due, member, visits, changing, changes,                \* Membership
    profile, wizard, calls,                                         \* Onboarding
    tasks, filter, cached, invalid, loading, dialog, doomed, writes, \* Tasks
    tried, astray,
    ingests, cards, table, poll, uploads, again, removal, prefetches, \* Documents
    inventories, known, listing, quarter, selected, builder, posting, \* Emissions
    unseen,
    mandatory, account, minted, app, place, signed, tries,          \* Accounts
    principal,                                                      \* Permit and Field
    screen, form, list, shown, rows, queue, jobs, given, edits,     \* Permit
    signs,
    up, token, online, catalog, runs, results, clock, docs, asking, \* Field
    reply, log

chat == INSTANCE Chat
workspace == INSTANCE Workspace
composer == INSTANCE Composer
research == INSTANCE ResearchPage
learning == INSTANCE Learning
membership == INSTANCE Membership
onboarding == INSTANCE Onboarding
accounts == INSTANCE Accounts
compliance == INSTANCE Tasks
documents == INSTANCE Documents
emissions == INSTANCE Emissions
permit == INSTANCE Permit
field == INSTANCE Field

\* None is neither the number of an inventory nor a request.
ASSUME PostingAssumption ==
    None \notin Nat \cup [form : emissions!Forms, id : Nat \cup {None}]

\* The state of each screen, apart from what it shares with another.
conversations == <<session, store, made>>
chats == <<asked, stream, answer>>
arrangement == <<projects, planned, project, renaming, archived>>
draft == <<mounted, text, files, reading, voice, base, heard, pending, sending, entered,
           uses, late, sent>>
researches == <<open, server, briefs, history, active, busy, current, handlers>>
console == <<rating, memories, listed, fetch, promoting, approving, saves, behind>>
team == <<invites, due, member, visits, changing, changes>>
setup == <<profile, wizard, calls>>
access == <<mandatory, account, minted, app, place, signed, tries>>
agenda == <<tasks, filter, cached, invalid, loading, dialog, doomed, writes, tried, astray>>
library == <<ingests, cards, table, poll, uploads, again, removal, prefetches>>
reports == <<inventories, known, listing, quarter, selected, builder, posting, unseen>>
permits == <<screen, form, list, shown, rows, queue, jobs, given, edits, signs>>
device == <<up, token, online, catalog, runs, results, clock, docs, asking, reply, log>>

desk == <<conversations, chats, arrangement, draft, researches>>
office == <<console, team, setup, access, agenda, library, reports>>
mobile == <<principal, permits, device>>
vars == <<page, desk, office, mobile>>

Init ==
    /\ page \in {"chat", "workspace", "composer", "research", "learning", "membership",
                 "onboarding", "accounts", "tasks", "documents", "emissions", "permit", "field"}
    /\ chat!Init /\ workspace!Init /\ composer!Init /\ research!Init /\ learning!Init
    /\ membership!Init /\ onboarding!Init /\ accounts!Init /\ compliance!Init /\ documents!Init
    /\ emissions!Init /\ permit!Init /\ field!Init
    /\ page # "accounts" => ~mandatory  \* one initial state for each other screen

ChatNext ==
    /\ page = "chat" /\ chat!Next
    /\ UNCHANGED <<page, arrangement, draft, researches, office, mobile>>
WorkspaceNext ==
    /\ page = "workspace" /\ workspace!Next
    /\ UNCHANGED <<page, chats, draft, researches, office, mobile>>
ComposerNext ==
    /\ page = "composer" /\ composer!Next
    /\ UNCHANGED <<page, conversations, chats, arrangement, researches, office, mobile>>
ResearchNext ==
    /\ page = "research" /\ research!Next
    /\ UNCHANGED <<page, conversations, chats, arrangement, draft, office, mobile>>
LearningNext ==
    /\ page = "learning" /\ learning!Next
    /\ UNCHANGED <<page, desk, team, setup, access, agenda, library, reports, mobile>>
MembershipNext ==
    /\ page = "membership" /\ membership!Next
    /\ UNCHANGED <<page, desk, console, setup, access, agenda, library, reports, mobile>>
OnboardingNext ==
    /\ page = "onboarding" /\ onboarding!Next
    /\ UNCHANGED <<page, desk, console, team, access, agenda, library, reports, mobile>>
AccountsNext ==
    /\ page = "accounts" /\ accounts!Next
    /\ UNCHANGED <<page, desk, console, team, setup, agenda, library, reports, mobile>>
TasksNext ==
    /\ page = "tasks" /\ compliance!Next
    /\ UNCHANGED <<page, desk, console, team, setup, access, library, reports, mobile>>
DocumentsNext ==
    /\ page = "documents" /\ documents!Next
    /\ UNCHANGED <<page, desk, console, team, setup, access, agenda, reports, mobile>>
EmissionsNext ==
    /\ page = "emissions" /\ emissions!Next
    /\ UNCHANGED <<page, desk, console, team, setup, access, agenda, library, mobile>>
PermitNext ==
    /\ page = "permit" /\ permit!Next
    /\ UNCHANGED <<page, desk, office, device>>
FieldNext ==
    /\ page = "field" /\ field!Next
    /\ UNCHANGED <<page, desk, office, permits>>

Next == \/ ChatNext \/ WorkspaceNext \/ ComposerNext \/ ResearchNext \/ LearningNext
        \/ MembershipNext \/ OnboardingNext \/ AccountsNext \/ TasksNext \/ DocumentsNext
        \/ EmissionsNext \/ PermitNext \/ FieldNext

Spec == Init /\ [][Next]_vars

-----------------------------------------------------------------------------
(* The properties of the screens, each stated with its model. *)

\* The state of the screen is one of its model's.
TypeOK ==
    CASE page = "chat" -> chat!TypeOK
      [] page = "workspace" -> workspace!TypeOK
      [] page = "composer" -> composer!TypeOK
      [] page = "research" -> research!TypeOK
      [] page = "learning" -> learning!TypeOK
      [] page = "membership" -> membership!TypeOK
      [] page = "onboarding" -> onboarding!TypeOK
      [] page = "accounts" -> accounts!TypeOK
      [] page = "tasks" -> compliance!TypeOK
      [] page = "documents" -> documents!TypeOK
      [] page = "emissions" -> emissions!TypeOK
      [] page = "permit" -> permit!TypeOK
      [] page = "field" -> field!TypeOK

OwnTurnsOnly == chat!OwnTurnsOnly
ShowsWhatArrived == chat!ShowsWhatArrived /\ chat!StreamingHasStream
OrderIsComplete == workspace!OrderIsComplete
SentOnce == composer!SentOnce /\ documents!StoredOnce
LockIsHeld == research!LockIsHeld
ListIsCurrent == learning!ListIsCurrent /\ compliance!TaskListIsCurrent /\ emissions!HistoryIsCurrent
DraftIsSent == emissions!DraftIsSent
OneAdmission == membership!OneAdmission
CompletedHasAnswers == onboarding!CompletedHasAnswers
SecretIsInApp == accounts!SecretIsInApp
SignaturesKept == permit!SignaturesKept
NewestResultsKept == field!NewestResultsKept
=============================================================================
