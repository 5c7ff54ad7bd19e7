------------------------------ MODULE Composer ------------------------------
(***************************************************************************)
(* The composer of the chat page (ChatComposer.tsx, ComposerMenu.tsx): a   *)
(* draft that is typed, dictated, taken from a skill of the Customize page *)
(* (pendingPrompt.ts) and furnished with files, until it is sent.  Files   *)
(* are read asynchronously; the browser's speech recognition goes on       *)
(* reporting results after it was asked to stop.                           *)
(*                                                                         *)
(* A text is the set of its pieces; every piece is entered by the user     *)
(* once.  Popovers, the thinking mode and the web-search switch are left   *)
(* out.                                                                    *)
(***************************************************************************)
EXTENDS Frontend

Pieces == Typed \cup Spoken \cup Prompts \cup Files

VARIABLES
    mounted,    \* the composer is on the screen
    text,       \* the draft's text
    files,      \* its attachments
    reading,    \* sets of files being read by addFiles
    voice,      \* the speech recognition: off, on, or asked to stop
    base,       \* voiceBaseRef: the text it adds to
    heard,      \* what it has recognized since it was started
    pending,    \* the prompt waiting for the composer to open
    sending,    \* an answer is under way
    entered,    \* history: pieces the user has entered
    uses,       \* history: uses[p], the messages that contained p
    late,       \* history: pieces that came back from a recognition asked to stop
    sent        \* messages sent

draft == <<text, files>>
speech == <<voice, base, heard>>
history == <<entered, uses, late, sent>>
vars == <<mounted, draft, reading, speech, pending, sending, history>>

Init ==
    /\ mounted = FALSE /\ text = {} /\ files = {} /\ reading = {}
    /\ voice = "off" /\ base = {} /\ heard = {}
    /\ pending = {} /\ sending = FALSE
    /\ entered = {} /\ late = {} /\ sent = 0
    /\ uses = [p \in Pieces |-> 0]

-----------------------------------------------------------------------------
\* "Use in chat" of the Customize page: the chat page opens with the prompt.
UseInChat(p) ==
    /\ ~mounted /\ p \notin entered
    /\ pending' = {p} /\ entered' = entered \cup {p}
    /\ UNCHANGED <<mounted, draft, reading, speech, sending, uses, late, sent>>

\* The composer takes the waiting prompt, once.
Mount ==
    /\ ~mounted
    /\ mounted' = TRUE
    /\ text' = pending /\ pending' = {}
    /\ UNCHANGED <<files, reading, speech, sending, history>>

\* Draft, attachments and recognition go with the page; so does the answer.
Unmount ==
    /\ mounted
    /\ mounted' = FALSE
    /\ text' = {} /\ files' = {} /\ reading' = {}
    /\ voice' = "off" /\ base' = {} /\ heard' = {}
    /\ sending' = FALSE
    /\ UNCHANGED <<pending, history>>

Type(p) ==
    /\ mounted /\ p \notin entered
    /\ text' = text \cup {p} /\ entered' = entered \cup {p}
    /\ UNCHANGED <<mounted, files, reading, speech, pending, sending, uses, late, sent>>

\* A skill or the task template of the menu is appended to the draft.
ApplyAction(p) == p \in Prompts /\ Type(p)

-----------------------------------------------------------------------------
(* Dictation. *)

StartVoice ==
    /\ mounted /\ voice = "off" /\ ~sending
    /\ voice' = "on" /\ base' = text /\ heard' = {}
    /\ UNCHANGED <<mounted, draft, reading, pending, sending, history>>

StopVoice ==
    /\ mounted /\ voice = "on" /\ ~sending
    /\ voice' = "stopping"
    /\ UNCHANGED <<mounted, draft, reading, base, heard, pending, sending, history>>

\* onresult: the text becomes the base and all that was recognized so far.
Hear(P) ==
    /\ voice # "off" /\ P \cap entered = {}
    /\ heard' = heard \cup P /\ entered' = entered \cup P
    /\ text' = base \cup heard'
    /\ late' = IF voice = "stopping" THEN late \cup text' ELSE late
    /\ UNCHANGED <<mounted, files, reading, voice, base, pending, sending, uses, sent>>

\* onend, after a stop or an error.
VoiceEnds ==
    /\ voice # "off"
    /\ voice' = "off" /\ base' = {} /\ heard' = {}
    /\ UNCHANGED <<mounted, draft, reading, pending, sending, history>>

-----------------------------------------------------------------------------
(* Attachments. *)

\* addFiles: picked, dropped, pasted or captured.  The limit is tested against
\* what is attached already, not against what is still being read.
AddFiles(fs) ==
    /\ mounted /\ fs # {} /\ fs \cap entered = {}
    /\ Cardinality(files) + Cardinality(fs) <= MaxFiles
    /\ reading' = reading \cup {fs} /\ entered' = entered \cup fs
    /\ UNCHANGED <<mounted, draft, speech, pending, sending, uses, late, sent>>

\* All of them have been read; those that are too large are left out.
FilesRead(fs) ==
    /\ fs \in reading
    /\ reading' = reading \ {fs}
    /\ \E kept \in SUBSET fs : files' = files \cup kept
    /\ UNCHANGED <<mounted, text, speech, pending, sending, history>>

RemoveAttachment(f) ==
    /\ f \in files
    /\ files' = files \ {f}
    /\ UNCHANGED <<mounted, text, reading, speech, pending, sending, history>>

-----------------------------------------------------------------------------
(* Sending. *)

\* Mutant: the attachments stay after they were sent.
SubmitKeepingFiles ==
    /\ mounted /\ text \cup files # {} /\ ~sending /\ sent < MaxMessages
    /\ uses' = [p \in Pieces |-> IF p \in text \cup files THEN uses[p] + 1 ELSE uses[p]]
    /\ text' = {}
    /\ voice' = IF voice = "on" THEN "stopping" ELSE voice
    /\ sending' = TRUE /\ sent' = sent + 1
    /\ UNCHANGED <<mounted, files, reading, base, heard, pending, entered, late>>

\* submit: by the button or the send shortcut, not while an answer is under way.
Submit ==
    /\ mounted /\ text \cup files # {} /\ ~sending /\ sent < MaxMessages
    /\ uses' = [p \in Pieces |-> IF p \in text \cup files THEN uses[p] + 1 ELSE uses[p]]
    /\ text' = {} /\ files' = {}
    /\ voice' = IF voice = "on" THEN "stopping" ELSE voice
    /\ sending' = TRUE /\ sent' = sent + 1
    /\ UNCHANGED <<mounted, reading, base, heard, pending, entered, late>>

\* A suggestion of the empty conversation is sent past the composer.
Suggest ==
    /\ mounted /\ ~sending /\ sent = 0
    /\ sending' = TRUE
    /\ UNCHANGED <<mounted, draft, reading, speech, pending, history>>

\* The answer has ended or was stopped.
AnswerEnds ==
    /\ sending
    /\ sending' = FALSE
    /\ UNCHANGED <<mounted, draft, reading, speech, pending, history>>

-----------------------------------------------------------------------------
Next ==
    \/ \E p \in Prompts : UseInChat(p)
    \/ Mount
    \/ Unmount
    \/ \E p \in Typed : Type(p)
    \/ \E p \in Prompts : ApplyAction(p)
    \/ StartVoice
    \/ StopVoice
    \/ \E P \in SUBSET Spoken : Hear(P)
    \/ VoiceEnds
    \/ \E fs \in SUBSET Files : AddFiles(fs)
    \/ \E fs \in reading : FilesRead(fs)
    \/ \E f \in Files : RemoveAttachment(f)
    \/ Submit
    \/ Suggest
    \/ AnswerEnds

Spec == Init /\ [][Next]_vars

-----------------------------------------------------------------------------
(* Properties. *)

TypeOK ==
    /\ mounted \in BOOLEAN /\ sending \in BOOLEAN
    /\ text \subseteq Pieces \ Files /\ files \subseteq Files
    /\ reading \subseteq SUBSET Files
    /\ voice \in {"off", "on", "stopping"}
    /\ base \subseteq Pieces \ Files /\ heard \subseteq Spoken
    /\ pending \subseteq Prompts /\ entered \subseteq Pieces /\ late \subseteq Pieces
    /\ uses \in [Pieces -> 0..MaxMessages] /\ sent \in 0..MaxMessages

\* What the user enters once goes out in one message at most, however late its
\* files are read and wherever it was typed, except for what a recognition that
\* was asked to stop put back into the draft.
SentOnce == \A p \in Pieces : uses[p] <= 1 \/ p \in late
=============================================================================
