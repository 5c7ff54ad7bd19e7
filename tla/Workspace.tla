----------------------------- MODULE Workspace -----------------------------
(***************************************************************************)
(* Conversations and projects as the user arranges them: the sidebar       *)
(* (ChatSidebar.tsx), the projects page (ProjectsClient.tsx over           *)
(* lib/chat/projects.ts) and the data controls of the settings page.  Both *)
(* stores are persisted in localStorage and shared by everybody who signs  *)
(* in on the browser; rows carry their owner, but the ids of the active    *)
(* conversation and of the active project outlive a change of user.        *)
(* Searching and the names and texts of projects are left out.             *)
(***************************************************************************)
EXTENDS Conversations

VARIABLES
    session,    \* who is signed in, None: nobody
    store,      \* the conversation store
    made,       \* conversations created so far
    projects,   \* projects[p]: the owner of project p
    planned,    \* projects created so far
    project,    \* the active project of the projects store
    renaming,   \* the row whose title is being edited
    archived    \* the sidebar shows the archived conversations

vars == <<session, store, made, projects, planned, project, renaming, archived>>
chats == <<store, made>>
works == <<projects, planned, project>>
sidebar == <<renaming, archived>>

ProjectIds == 1..MaxProjects

Init ==
    /\ session = None /\ store = EmptyStore /\ made = 0
    /\ projects = <<>> /\ planned = 0 /\ project = None
    /\ renaming = None /\ archived = FALSE

\* The active project, if it is there and the user's own.
OwnProject(p) == session # None /\ p \in DOMAIN projects /\ projects[p] = session
ActiveProject == IF OwnProject(project) THEN project ELSE None

\* The rows of the sidebar: the user's conversations that are archived or not,
\* of the active project, or without one while no project is active.
Listed ==
    {c \in DOMAIN store.convs :
       /\ store.convs[c].owner = session
       /\ store.convs[c].archived = archived
       /\ store.convs[c].project = project}

\* Pinned rows come first, the others by the time of their last change.
Pinned == {c \in Listed : store.convs[c].pinned}
Grouped == Filter(store.order, Pinned) \o Filter(store.order, Listed \ Pinned)

-----------------------------------------------------------------------------
(* The sidebar. *)

SignIn(u) ==
    /\ session = None
    /\ session' = u
    /\ UNCHANGED <<chats, works, sidebar>>

\* Only the active conversation is forgotten; the page with the list goes.
SignOut ==
    /\ session # None
    /\ session' = None
    /\ store' = SelectConversation(store, None)
    /\ renaming' = None /\ archived' = FALSE
    /\ UNCHANGED <<made, works>>

\* A session that expires leaves even that.
Expire ==
    /\ session # None
    /\ session' = None /\ renaming' = None /\ archived' = FALSE
    /\ UNCHANGED <<chats, works>>

NewChat ==
    /\ session # None /\ made < MaxConvs
    /\ made' = made + 1
    /\ store' = NewConversation(store, made + 1, session, ActiveProject)
    /\ UNCHANGED <<session, works, sidebar>>

\* A message is written to a conversation of the user (module Chat says when),
\* wherever it is listed; messages are not kept here.
Answer(c) ==
    /\ session # None /\ Has(store, c) /\ store.convs[c].owner = session
    /\ store' = SetTitleFromFirstMessage(SetMessages(store, c, <<>>, session), c)
    /\ UNCHANGED <<session, made, works, sidebar>>

OpenRow(c) ==
    /\ session # None /\ c \in Listed /\ renaming # c
    /\ store' = SelectConversation(store, c)
    /\ UNCHANGED <<session, made, works, sidebar>>

ToggleArchived ==
    /\ session # None
    /\ archived' = ~archived
    /\ UNCHANGED <<session, chats, works, renaming>>

\* The menu of a row.
RowMenu(c) ==
    /\ session # None /\ c \in Listed
    /\ \/ store' = PinConversation(store, c, ~store.convs[c].pinned)
       \/ store' = ArchiveConversation(store, c, ~archived)
       \/ store' = DeleteConversation(store, c)
    /\ UNCHANGED <<session, made, works, sidebar>>

StartRename(c) ==
    /\ session # None /\ c \in Listed
    /\ renaming' = c
    /\ UNCHANGED <<session, chats, works, archived>>

\* Enter or a click elsewhere commits what was typed, Escape drops it.  A
\* conversation that went meanwhile is not renamed, an empty title is the
\* title of a new conversation.
EndRename ==
    /\ renaming # None
    /\ renaming' = None
    /\ \/ UNCHANGED store
       \/ /\ renaming \in Listed
          /\ \E title \in {"new", "named"} :
                store' = RenameConversation(store, renaming, title)
    /\ UNCHANGED <<session, made, works, archived>>

\* "Exit project" is offered while the active project is the user's own.
ExitProject ==
    /\ ActiveProject # None
    /\ project' = None
    /\ UNCHANGED <<session, chats, projects, planned, sidebar>>

\* "Add to project" of the composer's menu takes the active conversation into
\* one of the user's projects and activates that project.
AddToProject(p) ==
    /\ OwnProject(p)
    /\ Has(store, store.active) /\ store.convs[store.active].owner = session
    /\ store' = SetConversationProject(store, store.active, p)
    /\ project' = p
    /\ UNCHANGED <<session, made, projects, planned, sidebar>>

-----------------------------------------------------------------------------
(* The projects page, which is not shown together with the sidebar. *)

\* A new project is active at once.
NewProject ==
    /\ session # None /\ planned < MaxProjects
    /\ planned' = planned + 1
    /\ projects' = Put(projects, planned + 1, session)
    /\ project' = planned + 1
    /\ renaming' = None /\ archived' = FALSE
    /\ UNCHANGED <<session, chats>>

OpenProject(p) ==
    /\ OwnProject(p)
    /\ project' = p
    /\ renaming' = None /\ archived' = FALSE
    /\ UNCHANGED <<session, chats, projects, planned>>

\* Mutant: a deleted project stays active.
DeleteProjectActive(p) ==
    /\ OwnProject(p)
    /\ projects' = [q \in DOMAIN projects \ {p} |-> projects[q]]
    /\ renaming' = None /\ archived' = FALSE
    /\ UNCHANGED <<session, chats, planned, project>>

\* The conversations of a deleted project are not touched.
DeleteProject(p) ==
    /\ OwnProject(p)
    /\ projects' = [q \in DOMAIN projects \ {p} |-> projects[q]]
    /\ project' = IF project = p THEN None ELSE project
    /\ renaming' = None /\ archived' = FALSE
    /\ UNCHANGED <<session, chats, planned>>

-----------------------------------------------------------------------------
(* The settings page. *)

\* What "Export" writes to a file.
Exported == [convs |-> {c \in DOMAIN store.convs : store.convs[c].owner = session},
             projects |-> {p \in DOMAIN projects : projects[p] = session}]

\* "Delete all chats": one by one, so the active id moves along the order.
ClearAllChats ==
    LET rest == Filter(store.order, Elements(store.order) \ Exported.convs)
    IN  /\ session # None /\ Exported.convs # {}
        /\ store' = [convs |-> [c \in DOMAIN store.convs \ Exported.convs |-> store.convs[c]],
                     order |-> rest,
                     active |-> IF store.active \notin Exported.convs THEN store.active
                                ELSE IF rest = <<>> THEN None ELSE rest[1]]
        /\ renaming' = None /\ archived' = FALSE
        /\ UNCHANGED <<session, made, works>>

-----------------------------------------------------------------------------
Next ==
    \/ \E u \in Users : SignIn(u)
    \/ SignOut
    \/ Expire
    \/ NewChat
    \/ \E c \in ConvIds : Answer(c)
    \/ \E c \in ConvIds : OpenRow(c)
    \/ ToggleArchived
    \/ \E c \in ConvIds : RowMenu(c)
    \/ \E c \in ConvIds : StartRename(c)
    \/ EndRename
    \/ ExitProject
    \/ \E p \in ProjectIds : AddToProject(p)
    \/ NewProject
    \/ \E p \in ProjectIds : OpenProject(p)
    \/ \E p \in ProjectIds : DeleteProject(p)
    \/ ClearAllChats

Spec == Init /\ [][Next]_vars

-----------------------------------------------------------------------------
(* Properties. *)

ConversationRecords ==
    [owner : Users, title : {"new", "named"}, messages : {<<>>},
     project : ProjectIds \cup {None}, pinned : BOOLEAN, archived : BOOLEAN]

TypeOK ==
    /\ session \in Users \cup {None}
    /\ made \in 0..MaxConvs /\ planned \in 0..MaxProjects
    /\ DOMAIN store.convs \subseteq 1..made
    /\ \A c \in DOMAIN store.convs : store.convs[c] \in ConversationRecords
    /\ store.active \in {None} \cup DOMAIN store.convs
    /\ DOMAIN projects \subseteq 1..planned
    /\ \A p \in DOMAIN projects : projects[p] \in Users
    /\ project \in {None} \cup DOMAIN projects
    /\ renaming \in {None} \cup ConvIds /\ archived \in BOOLEAN

\* The order names every conversation exactly once: no sequence of pinning,
\* deleting, answering and clearing loses a conversation from the sidebar,
\* shows one in two rows or lists one that is gone.
OrderIsComplete ==
    /\ Len(Grouped) = Cardinality(Listed)
    /\ Len(store.order) = Cardinality(DOMAIN store.convs)
    /\ {store.order[i] : i \in DOMAIN store.order} = DOMAIN store.convs
=============================================================================
