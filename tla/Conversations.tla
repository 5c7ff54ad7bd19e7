--------------------------- MODULE Conversations ---------------------------
(***************************************************************************)
(* The conversation store of the web application                           *)
(* (apps/web/lib/chat/conversations.ts): what each of its setters makes of *)
(* the state.  The store is one record, written to localStorage as a whole *)
(* after every setter; the pages that call the setters are modules of      *)
(* their own.  Titles are "new" until they are "named", from the first     *)
(* question or by the user; the times of creation and change are left out. *)
(***************************************************************************)
EXTENDS Frontend

ConvIds == 1..MaxConvs
Turns == 1..MaxTurns
Messages ==
    [turn : Turns, role : {"user", "assistant"}, by : Users, text : 0..MaxChunks,
     live : BOOLEAN, failed : BOOLEAN, turnId : BOOLEAN, rated : BOOLEAN,
     tool : BOOLEAN]

\* What the handler of a stream holds (module Chat); null is no such thing.
StreamRecords ==
    [conv : ConvIds, owner : Users, turn : Turns, work : Seq(Messages),
     buffer : 0..MaxChunks, done : BOOLEAN, open : BOOLEAN]

ASSUME StreamAssumption == None \notin StreamRecords

\* Before anything was persisted.
EmptyStore == [convs |-> <<>>, order |-> <<>>, active |-> None]

Has(store, c) == c \in DOMAIN store.convs

Without(c, order) == Filter(order, Elements(order) \ {c})
ToFront(c, order) == <<c>> \o Without(c, order)

Conversation(owner, project, messages) ==
    [owner |-> owner, title |-> "new", messages |-> messages,
     project |-> project, pinned |-> FALSE, archived |-> FALSE]

\* A new conversation is active at once.
NewConversation(store, c, owner, project) ==
    [convs |-> Put(store.convs, c, Conversation(owner, project, <<>>)),
     order |-> ToFront(c, store.order), active |-> c]

SelectConversation(store, c) == [store EXCEPT !.active = c]

\* The first of the order takes the place of an active conversation that goes,
\* whoever owns it and whatever project it is in.
DeleteConversation(store, c) ==
    LET rest == Without(c, store.order)
    IN  [convs |-> [d \in DOMAIN store.convs \ {c} |-> store.convs[d]],
         order |-> rest,
         active |-> IF store.active # c THEN store.active
                    ELSE IF rest = <<>> THEN None ELSE rest[1]]

RenameConversation(store, c, title) == [store EXCEPT !.convs[c].title = title]

PinConversation(store, c, pinned) ==
    [store EXCEPT !.convs[c].pinned = pinned,
                  !.order = IF pinned THEN ToFront(c, @) ELSE @]

ArchiveConversation(store, c, archived) ==
    [store EXCEPT !.convs[c].archived = archived,
                  !.active = IF archived /\ @ = c THEN None ELSE @]

SetConversationProject(store, c, project) == [store EXCEPT !.convs[c].project = project]

\* Mutant: the conversation is put first and left where it was.
SetMessagesPrepending(store, c, messages, owner) ==
    [store EXCEPT !.convs = IF Has(store, c)
                            THEN [@ EXCEPT ![c].messages = messages]
                            ELSE Put(@, c, Conversation(owner, None, messages)),
                  !.order = <<c>> \o @]

\* The messages are replaced as a whole; a conversation that is gone is made
\* again for them, outside any project and without becoming active.
SetMessages(store, c, messages, owner) ==
    [store EXCEPT !.convs = IF Has(store, c)
                            THEN [@ EXCEPT ![c].messages = messages]
                            ELSE Put(@, c, Conversation(owner, None, messages)),
                  !.order = ToFront(c, @)]

SetTitleFromFirstMessage(store, c) ==
    IF Has(store, c) /\ store.convs[c].title = "new"
    THEN RenameConversation(store, c, "named") ELSE store
=============================================================================
