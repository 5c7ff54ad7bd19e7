------------------------------ MODULE Frontend ------------------------------
(***************************************************************************)
(* The constants of the models of the two front ends: the web application  *)
(* (modules Chat, Workspace, Composer, ResearchPage, Learning, Membership, *)
(* Onboarding, Accounts, Tasks, Documents, Emissions) and the field app    *)
(* (Permit, Field).  Screens puts the models together.                     *)
(***************************************************************************)
EXTENDS Naturals, Sequences, FiniteSets

CONSTANT None     \* null: nobody, no conversation, no project, nothing shown

CONSTANTS         \* the web application
    Users,        \* principals who sign in on one browser
    MaxConvs,     \* bound: conversations ever created
    MaxTurns,     \* bound: questions ever asked
    MaxChunks,    \* bound: chunks of one answer
    MaxProjects,  \* bound: projects ever created
    Typed,        \* pieces of text that are typed into the composer
    Spoken,       \* pieces of text that are dictated
    Prompts,      \* texts of skills
    Files,        \* files the user attaches
    MaxFiles,     \* MAX_FILES
    MaxMessages,  \* bound: messages the composer sends
    MaxRuns,      \* bound: research runs ever asked for
    MaxHandlers,  \* bound: handlers of one page, or open pages of one kind, at once
    Rated,        \* turns that are rated
    Terms,        \* terms that memories mention
    MaxMemories,  \* bound: memories ever created
    MaxSaves,     \* bound: mutations of a console under way at once
    MaxTasks,     \* bound: compliance tasks there are at once, and at first
    MaxChanges,   \* bound: changes ever made on the tasks page
    MaxRounds,    \* bound: occurrences of a recurring task
    MaxDocs,      \* bound: documents ever stored
    MaxCards,     \* bound: files ever dropped on the documents page
    MaxSources,   \* bound: sources of an inventory in the composer
    MaxInventories, \* bound: inventories ever made
    MaxInvites,   \* bound: invitations of one address
    MaxSecrets    \* bound: authenticator secrets ever generated

CONSTANTS         \* the field app
    Crew,         \* principals, each the only one of its tenant on the device
    Demo,         \* the principal of the tenant the bundled documents belong to
    Chips,        \* entries of the lists of the permit form
    MaxPermits,   \* bound: permits the server gives out; their ids are 1..MaxPermits
    MaxEdits,     \* bound: texts of permits saved
    MaxSigns,     \* bound: signatures given
    MaxQueued,    \* bound: different copies of permits queued
    MaxPerTenant, \* MAX_PER_TENANT, the results of calculations that are kept
    MaxResults    \* bound: results saved

ASSUME ChatAssumption ==
    /\ None \notin Users
    /\ MaxConvs \in Nat /\ MaxTurns \in Nat /\ MaxChunks \in Nat \ {0}
    /\ MaxProjects \in Nat

ASSUME ComposerAssumption ==
    /\ IsFiniteSet(Files)
    /\ MaxFiles \in Nat /\ MaxMessages \in Nat
    /\ (Typed \cup Spoken \cup Prompts) \cap Files = {}

ASSUME ResearchPageAssumption == MaxRuns \in Nat /\ MaxHandlers \in Nat

ASSUME LearningAssumption == None \notin Rated \cup Terms /\ MaxMemories \in Nat /\ MaxSaves \in Nat

ASSUME TasksAssumption == MaxTasks \in Nat /\ MaxChanges \in Nat /\ MaxRounds \in Nat

ASSUME DocumentsAssumption == MaxDocs \in Nat /\ MaxCards \in Nat

ASSUME EmissionsAssumption == MaxSources \in Nat /\ MaxInventories \in Nat

ASSUME AccountsAssumption == MaxInvites \in Nat /\ MaxSecrets \in Nat

ASSUME FieldAssumption ==
    /\ None \notin Crew \cup {Demo}
    /\ MaxPermits \in Nat /\ MaxEdits \in Nat /\ MaxSigns \in Nat /\ MaxQueued \in Nat
    /\ MaxPerTenant \in Nat /\ MaxResults \in Nat

-----------------------------------------------------------------------------
(* Functions and sequences. *)

\* f with v for k, whether f has a value for it or not.
Put(f, k, v) == [x \in DOMAIN f \cup {k} |-> IF x = k THEN v ELSE f[x]]

\* The elements of s that are in S, in their order.
Filter(s, S) ==
    LET kept[n \in 0..Len(s)] ==
          IF n = 0 THEN <<>>
          ELSE IF s[n] \in S THEN Append(kept[n - 1], s[n]) ELSE kept[n - 1]
    IN  kept[Len(s)]
Elements(s) == {s[k] : k \in DOMAIN s}
=============================================================================
