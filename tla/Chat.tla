-------------------------------- MODULE Chat --------------------------------
(***************************************************************************)
(* The chat page of the web application (apps/web/app/chat/ChatClient.tsx) *)
(* over the persisted conversations: one question at a time is streamed to *)
(* the API and its answer written, event by event, into the conversation   *)
(* it was asked in, while the user may switch to another or delete it,     *)
(* sign out, stop the answer or load the page again.                       *)
(*                                                                         *)
(* A handler runs to its end before the next event is looked at; a stream  *)
(* is one handler suspended between its events.  It holds its own copy of  *)
(* the conversation's messages (workingMessages), as they were when the    *)
(* question was sent, and every write replaces the stored list by it.  The *)
(* text of an answer is the number of its chunks.                          *)
(***************************************************************************)
EXTENDS Conversations

VARIABLES
    session,   \* who is signed in, None: nobody
    store,     \* the conversation store
    made,      \* conversations created so far; their ids are 1..made
    asked,     \* turns so far; their ids are 1..asked
    stream,    \* the answer under way (abortRef and the closure of send), or None
    answer     \* history: answer[t], what became of the answer to turn t

vars == <<session, store, made, asked, stream, answer>>

\* by is history: who sent the question (or asked for the answer).
Message(turn, role, by, live) ==
    [turn |-> turn, role |-> role, by |-> by, text |-> 0, live |-> live,
     failed |-> FALSE, turnId |-> FALSE, rated |-> FALSE, tool |-> FALSE]

Outcomes == {"none", "open", "done", "stopped", "failed", "lost"}
Untold == [outcome |-> "none", chunks |-> 0]

\* Mutant: whose the conversation is is not looked at.
MineOrAnyones(c) == c # None /\ Has(store, c)

\* Conversations are kept apart by owner: another user's is not shown.
Mine(c) == c # None /\ Has(store, c) /\ store.convs[c].owner = session
ActiveConversation == IF session # None /\ Mine(store.active) THEN store.active ELSE None
Shown == IF ActiveConversation = None THEN <<>>
         ELSE store.convs[ActiveConversation].messages

Init ==
    /\ session = None /\ store = EmptyStore /\ stream = None
    /\ made = 0 /\ asked = 0
    /\ answer = [t \in Turns |-> Untold]

-----------------------------------------------------------------------------
(* Sessions and conversations. *)

\* Signing in is another page: a stream was aborted on the way there.
SignIn(u) ==
    /\ session = None /\ stream = None
    /\ session' = u
    /\ UNCHANGED <<store, made, asked, stream, answer>>

SignOut ==
    /\ session # None
    /\ session' = None
    /\ store' = SelectConversation(store, None)
    /\ UNCHANGED <<made, asked, stream, answer>>

\* The button "New chat".
NewChat ==
    /\ session # None /\ made < MaxConvs
    /\ made' = made + 1
    /\ store' = NewConversation(store, made + 1, session, None)
    /\ UNCHANGED <<session, asked, stream, answer>>

\* A row of the sidebar, and "Delete" of its menu.
Pick(c) ==
    /\ session # None /\ Mine(c)
    /\ \/ store' = SelectConversation(store, c)
       \/ store' = DeleteConversation(store, c)
    /\ UNCHANGED <<session, made, asked, stream, answer>>

-----------------------------------------------------------------------------
(* Sending. *)

\* Where a question goes: the active conversation, or a new one when there is
\* none or it is not the user's own.
Target == IF Mine(store.active) THEN store.active ELSE made + 1
Opened == IF Mine(store.active) THEN store
          ELSE NewConversation(store, made + 1, session, None)
\* What send sees of it: the state of the last rendering, before it was opened.
Base == IF Mine(store.active) THEN store.convs[store.active].messages ELSE <<>>

Titled(s, c) == IF Base = <<>> THEN SetTitleFromFirstMessage(s, c) ELSE s

CanSend == session # None /\ stream = None /\ asked < MaxTurns /\ Target <= MaxConvs

Exchange(live) == <<Message(asked + 1, "user", session, FALSE),
                    Message(asked + 1, "assistant", session, live)>>

\* send: the exchange is written and the request goes out.
Ask(messages) ==
    /\ CanSend
    /\ store' = Titled(SetMessages(Opened, Target, messages, session), Target)
    /\ made' = IF Target > made THEN Target ELSE made
    /\ asked' = asked + 1
    /\ stream' = [conv |-> Target, owner |-> session, turn |-> asked + 1,
                  work |-> messages, buffer |-> 0, done |-> FALSE, open |-> TRUE]
    /\ answer' = [answer EXCEPT ![asked + 1] = [outcome |-> "open", chunks |-> 0]]
    /\ UNCHANGED session

Send == Ask(Base \o Exchange(TRUE))

\* A question that asks for the last answer as a file is answered on the spot,
\* with the file or with the advice to ask something first.
ExportAnswer ==
    LET reply == [Message(asked + 1, "assistant", session, FALSE) EXCEPT !.text = 1]
        messages == Base \o <<Exchange(FALSE)[1], reply>>
    IN  /\ CanSend
        /\ store' = Titled(SetMessages(Opened, Target, messages, session), Target)
        /\ made' = IF Target > made THEN Target ELSE made
        /\ asked' = asked + 1
        /\ answer' = [answer EXCEPT ![asked + 1] = [outcome |-> "done", chunks |-> 1]]
        /\ UNCHANGED <<session, stream>>

\* An answer is final when it has ended without an error and has a text; one
\* that is done without any is given one.
Final(m) == m.role = "assistant" /\ ~m.live /\ ~m.failed /\ (m.text > 0 \/ m.turnId)

\* The toolbar under a final answer: regenerate cuts the store before the old
\* answer and sends the question of that turn again; send still sees the
\* messages of the last rendering.
Regenerable(i) ==
    ActiveConversation # None /\ i \in DOMAIN Shown \ {1} /\ Final(Shown[i])
Regenerate(i) == Regenerable(i) /\ Send

\* Its thumbs: an answer whose turn the server has named can be rated.
Rateable(i) ==
    ActiveConversation # None /\ i \in DOMAIN Shown /\ Final(Shown[i]) /\ Shown[i].turnId
Rate(i) ==
    /\ Rateable(i)
    /\ store' = SetMessages(store, ActiveConversation,
                            [Shown EXCEPT ![i].rated = TRUE], session)
    /\ UNCHANGED <<session, made, asked, stream, answer>>

-----------------------------------------------------------------------------
(* The stream. *)

IsAnswer(m) == m.turn = stream.turn /\ m.role = "assistant"

\* The answer as workingMessages has it, and workingMessages with m for it.
Current == stream.work[CHOOSE i \in DOMAIN stream.work : IsAnswer(stream.work[i])]
Patched(m) ==
    [i \in DOMAIN stream.work |-> IF IsAnswer(stream.work[i]) THEN m ELSE stream.work[i]]

Stored(messages) == SetMessages(store, stream.conv, messages, stream.owner)

\* An event that changes the answer while the stream goes on.
Write(m) ==
    /\ stream # None
    /\ store' = Stored(Patched(m))
    /\ stream' = [stream EXCEPT !.work = Patched(m)]
    /\ UNCHANGED <<session, made, asked, answer>>

\* A token is buffered; nothing is shown yet.
Token ==
    /\ stream # None /\ stream.open /\ ~stream.done
    /\ answer[stream.turn].chunks < MaxChunks
    /\ stream' = [stream EXCEPT !.buffer = @ + 1]
    /\ answer' = [answer EXCEPT ![stream.turn].chunks = @ + 1]
    /\ UNCHANGED <<session, store, made, asked>>

\* A frame of the pacer shows part of the buffer.
Tick ==
    \E n \in 1..MaxChunks :
       /\ stream # None /\ n <= stream.buffer
       /\ LET longer == [Current EXCEPT !.text = @ + n]
          IN  /\ store' = Stored(Patched(longer))
              /\ stream' = [stream EXCEPT !.work = Patched(longer), !.buffer = @ - n]
       /\ UNCHANGED <<session, made, asked, answer>>

\* Tool activity and other progress is shown at once, before buffered text.
Progressed == [Current EXCEPT !.tool = TRUE]
ToolEvent == stream # None /\ stream.open /\ ~stream.done /\ Write(Progressed)

\* The terminal event is held until the buffer is empty.
DoneEvent ==
    /\ stream # None /\ stream.open /\ ~stream.done
    /\ stream' = [stream EXCEPT !.done = TRUE]
    /\ UNCHANGED <<session, store, made, asked, answer>>

\* The body ends, after the terminal event or (a proxy cut it) before.
BodyEnds ==
    /\ stream # None /\ stream.open
    /\ stream' = [stream EXCEPT !.open = FALSE]
    /\ UNCHANGED <<session, store, made, asked, answer>>

\* The handler of the stream ends and leaves m for the answer.
EndStream(m, outcome) ==
    /\ store' = Stored(Patched(m))
    /\ stream' = None
    /\ answer' = [answer EXCEPT ![stream.turn].outcome = outcome]
    /\ UNCHANGED <<made, asked>>

Completed ==
    [Current EXCEPT !.text = answer[stream.turn].chunks, !.live = FALSE, !.turnId = TRUE]

Settled == [Current EXCEPT !.live = FALSE]

\* Mutant: what is buffered is dropped.
FlushedDropping == [Current EXCEPT !.live = FALSE]

Flushed == [Current EXCEPT !.text = @ + stream.buffer, !.live = FALSE]
Failed == [Flushed EXCEPT !.failed = TRUE]

\* The body has been read and the buffer drained: the terminal event applies.
Finish ==
    /\ stream # None /\ ~stream.open /\ stream.buffer = 0
    /\ \/ stream.done /\ EndStream(Completed, "done")
       \/ ~stream.done /\ EndStream(Current, "lost")
    /\ UNCHANGED session

\* The Stop button, or leaving the page: buffered text is dropped.
StopAnswer ==
    /\ stream # None
    /\ EndStream(Settled, "stopped")
    /\ UNCHANGED session

\* The request is answered 401: the session ends, whoever's it is by now.
Expire ==
    /\ stream # None /\ stream.open /\ answer[stream.turn].chunks = 0 /\ ~stream.done
    /\ EndStream(Flushed, "failed")
    /\ session' = None

\* Any other error of the request or of the connection.
Fail ==
    /\ stream # None /\ stream.open
    /\ EndStream(Failed, "failed")
    /\ UNCHANGED session

\* The page is loaded again: the handler is gone, the store is as persisted.
Reload ==
    /\ stream # None
    /\ stream' = None
    /\ answer' = [answer EXCEPT ![stream.turn].outcome = "lost"]
    /\ UNCHANGED <<session, store, made, asked>>

-----------------------------------------------------------------------------
Next ==
    \/ \E u \in Users : SignIn(u)
    \/ SignOut
    \/ NewChat
    \/ \E c \in ConvIds : Pick(c)
    \/ Send
    \/ ExportAnswer
    \/ \E i \in 1..2 * MaxTurns : Regenerate(i)
    \/ \E i \in 1..2 * MaxTurns : Rate(i)
    \/ Token
    \/ Tick
    \/ ToolEvent
    \/ DoneEvent
    \/ BodyEnds
    \/ Finish
    \/ StopAnswer
    \/ Expire
    \/ Fail
    \/ Reload

Spec == Init /\ [][Next]_vars

-----------------------------------------------------------------------------
(* Properties. *)

TypeOK ==
    /\ session \in Users \cup {None}
    /\ made \in 0..MaxConvs /\ asked \in 0..MaxTurns
    /\ DOMAIN store.convs \subseteq 1..made
    /\ store.active \in {None} \cup 1..made
    /\ \A c \in DOMAIN store.convs :
          /\ store.convs[c].owner \in Users
          /\ store.convs[c].messages \in Seq(Messages)
    /\ stream = None \/ stream \in StreamRecords
    /\ answer \in [Turns -> [outcome : Outcomes, chunks : 0..MaxChunks]]

\* Every message of a conversation is its owner's: whoever signs in after
\* whom on one browser, nobody's question or answer is written into another
\* user's thread, not by a late stream and not by one whose thread was deleted.
OwnTurnsOnly ==
    \A c \in DOMAIN store.convs : \A i \in DOMAIN store.convs[c].messages :
       store.convs[c].messages[i].by = store.convs[c].owner

\* An answer that is shown as still streaming has a stream that will settle it,
\* unless its stream was lost: the page was loaded again or the body ended
\* without its terminal event.
StreamingHasStream ==
    \A c \in DOMAIN store.convs : \A i \in DOMAIN store.convs[c].messages :
       LET m == store.convs[c].messages[i]
       IN  m.live => \/ stream # None /\ stream.turn = m.turn /\ stream.conv = c
                     \/ answer[m.turn].outcome = "lost"

\* An answer that has ended shows every chunk that arrived, once and no more,
\* unless the user stopped it or its stream was lost; until then never more
\* than what arrived.
ShowsWhatArrived ==
    \A c \in DOMAIN store.convs : \A i \in DOMAIN store.convs[c].messages :
       LET m == store.convs[c].messages[i]  a == answer[m.turn]
       IN  m.role = "assistant" =>
             /\ m.text <= a.chunks
             /\ a.outcome \in {"done", "failed"} => m.text = a.chunks

\* "Drop the failed/old assistant turn": an answer that is generated anew is
\* no longer in the conversation (ChatClient.tsx:620).
OldAnswerDropped ==
    [][\A i \in 1..2 * MaxTurns :
          Regenerate(i) =>
            \A j \in DOMAIN store'.convs[store.active].messages :
               LET m == store'.convs[store.active].messages[j]
               IN  m.role = "assistant" => m.turn # Shown[i].turn]_vars
=============================================================================
