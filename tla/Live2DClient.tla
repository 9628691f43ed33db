---------------------------- MODULE Live2DClient ----------------------------
(***************************************************************************)
(* One WebSocket connection: the consumer (consumers.py, conversation_     *)
(* handler.py), the turns it starts, the agent's memory, the waiters and   *)
(* the chat histories.                                                     *)
(*                                                                         *)
(* Channels dispatches the messages of a connection one after another; a   *)
(* handler that awaits a worker thread (`serving`) holds the next message  *)
(* up, and the turns go on meanwhile.  A step is what runs between two     *)
(* awaits.  Which of several coroutines that can go on does so is left     *)
(* open, except that tasks start in the order of their creation.  A call of*)
(* store_message is one step (ChatHistory has its inside).                 *)
(***************************************************************************)
EXTENDS MessageHandler, AgentMemory, FiniteSets

CONSTANTS
    MaxTurns,       \* bound on the turns of the connection
    TextOf,         \* what each turn's message says
    MaxEvents,      \* bound on interrupts, history commands and failures
    Missing         \* the file does not exist

Turns == 1 .. MaxTurns
Histories == 1 .. MaxEvents    \* by their creation; 0 is None
Consumer == 0                    \* who stores what an interrupt leaves behind

ASSUME ClientAssumption ==
    /\ MaxTurns \in Nat /\ MaxEvents \in Nat
    /\ TextOf \in [Turns -> Nat]
    /\ Waiters = Turns /\ NoWaiter = 0

VARIABLES
    connection,   \* "open" or "closed"
    serving,      \* what receive_json is doing, and for which history
    current,      \* current_conversation_tasks[client_uid]; 0 is none
    kind,         \* the message that began each turn
    phase,        \* where each turn stands
    doomed,       \* turns with a cancellation under way
    historyUid,   \* context.history_uid
    owned,        \* owned_history_uids
    files,        \* the messages in each history; Missing without a file
    writes,       \* calls of store_message in worker threads
    load,         \* what set_memory_from_history has still to append
    events,
    unanswered,   \* history: turns cancelled before they had an answer
    unplayed,     \* history: ... or before it was played
    chats,        \* history: how often the model was asked
    reloaded      \* history: texts being read when the memory was replaced

clientVars == <<connection, serving, current, kind, phase, doomed>>
storeVars == <<historyUid, owned, files, writes, load>>
ghosts == <<unanswered, unplayed, chats, reloaded>>
vars == <<clientVars, storeVars, events, ghosts, handlerVars, memoryVars>>

Created == {t \in Turns : phase[t] # "none"}
Newest == Cardinality(Created)
Over == {"none", "done"}

\* The phases before a turn's answer, and before its playback has ended.
BeforeAnswer == {"created", "hearing", "asking", "streaming"}
BeforePlayed == BeforeAnswer \cup {"synthesising", "playback"}

Phases == BeforePlayed \cup Over \cup {"noting", "storing"}

Idle == <<"idle", 0>>
Receives == connection = "open" /\ serving = Idle

Init ==
    /\ connection = "open"
    /\ serving = Idle
    /\ current = 0
    /\ kind = [t \in Turns |-> "chat"]
    /\ phase = [t \in Turns |-> "none"]
    /\ doomed = {}
    /\ historyUid = 0
    /\ owned = {}
    /\ files = [h \in Histories |-> Missing]
    /\ writes = {}
    /\ load = <<>>
    /\ events = 0
    /\ unanswered = {}
    /\ unplayed = {}
    /\ chats = 0
    /\ reloaded = {}
    /\ HandlerInit
    /\ MemoryInit

------------------------------------------------------------------------------
(***************************************************************************)
(* store_message in a worker thread.                                       *)
(***************************************************************************)
Write(by, message) == [by |-> by, uid |-> historyUid, message |-> message]

Writing(by) == \E w \in writes : w.by = by

\* A missing file counts as an empty history.
Contents(h) == IF files[h] = Missing THEN <<>> ELSE files[h]

\* The message is added to what the file held, or takes the place of all of it
\* when the file could not be read.
WriteLands(w) ==
    /\ \/ /\ files' = [files EXCEPT ![w.uid] = Append(Contents(w.uid), w.message)]
          /\ UNCHANGED events
       \/ /\ files[w.uid] # Missing
          /\ events < MaxEvents
          /\ events' = events + 1
          /\ files' = [files EXCEPT ![w.uid] = <<w.message>>]
    /\ writes' = writes \ {w}
    /\ UNCHANGED <<clientVars, historyUid, owned, load, ghosts, handlerVars,
                   memoryVars>>

\* The file cannot be written: the exception ends the turn or the handler
\* that awaits it.
WriteFails(w) ==
    /\ events < MaxEvents
    /\ events' = events + 1
    /\ writes' = writes \ {w}
    /\ phase' = IF w.by = Consumer THEN phase ELSE [phase EXCEPT ![w.by] = "done"]
    /\ doomed' = doomed \ {w.by}
    /\ serving' = IF w.by = Consumer THEN Idle ELSE serving
    /\ UNCHANGED <<connection, current, kind, historyUid, owned, files, load,
                   ghosts, handlerVars, memoryVars>>

------------------------------------------------------------------------------
(***************************************************************************)
(* The consumer: receive_json and disconnect.                              *)
(***************************************************************************)

\* A task for the next turn becomes the current one; an older one that still
\* runs is not touched.
BeginTurn(k) ==
    /\ Receives
    /\ Newest < MaxTurns
    /\ current' = Newest + 1
    /\ kind' = [kind EXCEPT ![current'] = k]
    /\ phase' = [phase EXCEPT ![current'] = "created"]
    /\ UNCHANGED <<connection, serving, doomed, storeVars, events, ghosts,
                   handlerVars, memoryVars>>

TextInput == BeginTurn("chat")    \* text-input or mic-audio-end
SpeakText == BeginTurn("speak")

\* task.cancel(), if the current task is not done.
StopCurrent ==
    LET Stopped(phases) == {t \in {current} \cap Turns : phase[t] \in phases}
    IN  /\ doomed' = doomed \cup Stopped(Phases \ Over)
        /\ unanswered' = unanswered \cup Stopped(BeforeAnswer)
        /\ unplayed' = unplayed \cup Stopped(BeforePlayed)
        /\ UNCHANGED current

\* interrupt-signal, up to the first await: the memory is corrected before
\* the turn sees that it is cancelled.
Interrupt(form) ==
    LET heard == Message("ai", form, 0, current)
    IN  /\ Receives
        /\ events < MaxEvents
        /\ events' = events + 1
        /\ StopCurrent
        /\ HandleInterrupt(heard)
        /\ IF historyUid = 0 THEN UNCHANGED <<serving, writes>>
           ELSE /\ writes' = writes \cup {Write(Consumer, heard)}
                /\ serving' = <<"storing_heard", 0>>
        /\ UNCHANGED <<connection, kind, phase, historyUid, owned, files, load,
                       chats, reloaded, handlerVars>>

\* The rest of handle_individual_interrupt.
StoreMark ==
    /\ serving[1] = "storing_heard"
    /\ ~Writing(Consumer)
    /\ writes' = writes \cup {Write(Consumer, Mark("system"))}
    /\ serving' = <<"storing_mark", 0>>
    /\ UNCHANGED <<connection, current, kind, phase, doomed, historyUid, owned,
                   files, load, events, ghosts, handlerVars, memoryVars>>

MarkStored ==
    /\ serving[1] = "storing_mark"
    /\ ~Writing(Consumer)
    /\ serving' = Idle
    /\ UNCHANGED <<connection, current, kind, phase, doomed, storeVars, events,
                   ghosts, handlerVars, memoryVars>>

PlaybackComplete ==
    /\ Receives
    /\ HandleMessage
    /\ UNCHANGED <<clientVars, storeVars, events, ghosts, memoryVars>>

Disconnect ==
    /\ Receives
    /\ connection' = "closed"
    /\ StopCurrent
    /\ CleanupClient
    /\ UNCHANGED <<serving, kind, phase, storeVars, events, chats, reloaded,
                   memoryVars>>

------------------------------------------------------------------------------
(***************************************************************************)
(* The history commands.  The file work and the memory's reload are done   *)
(* in worker threads while the turns go on.                                *)
(***************************************************************************)
\* A text that has been remembered and is read out.
Reading == {"noting", "synthesising", "playback"}

Command(label, h) ==
    /\ Receives
    /\ events < MaxEvents
    /\ events' = events + 1
    /\ serving' = <<label, h>>
    /\ UNCHANGED <<connection, current, kind, phase, doomed, files, writes, load,
                   ghosts, handlerVars, memoryVars>>

\* A history is named by the number of the command that creates it.
CreateNewHistory ==
    /\ Command("creating", events + 1)
    /\ UNCHANGED <<historyUid, owned>>

\* The file is there: it becomes this connection's, and the current one; or
\* it could not be written, and the command ends.
HistoryCreated ==
    LET h == serving[2]
    IN  /\ serving[1] = "creating"
        /\ \/ /\ files' = [files EXCEPT ![h] = <<>>]
              /\ owned' = owned \cup {h}
              /\ historyUid' = h
              /\ serving' = <<"reading", h>>
              /\ UNCHANGED events
           \/ /\ events < MaxEvents
              /\ events' = events + 1
              /\ serving' = Idle
              /\ UNCHANGED <<files, owned, historyUid>>
        /\ UNCHANGED <<connection, current, kind, phase, doomed, writes, load,
                       ghosts, handlerVars, memoryVars>>

\* fetch-and-set-history; others' histories and deleted ones are refused.
FetchHistory ==
    \E h \in owned :
        /\ historyUid' = h
        /\ Command("reading", h)
        /\ UNCHANGED owned

\* set_memory_from_history, in its thread: the file is read (one that cannot be
\* read counts as empty), ...
LoadReads ==
    /\ serving[1] = "reading"
    /\ \/ load' = Contents(serving[2]) /\ UNCHANGED events
       \/ load' = <<>> /\ events < MaxEvents /\ events' = events + 1
    /\ serving' = <<"forgetting", serving[2]>>
    /\ UNCHANGED <<connection, current, kind, phase, doomed, historyUid, owned,
                   files, writes, ghosts, handlerVars, memoryVars>>

\* ... the memory is emptied, ...
LoadForgets ==
    /\ serving[1] = "forgetting"
    /\ Forget
    /\ reloaded' = {t \in Turns : kind[t] = "speak" /\ phase[t] \in Reading}
    /\ serving' = <<"recalling", serving[2]>>
    /\ UNCHANGED <<connection, current, kind, phase, doomed, storeVars, events,
                   unanswered, unplayed, chats, handlerVars>>

\* ... and filled message by message.
LoadRecalls ==
    /\ serving[1] = "recalling"
    /\ load # <<>>
    /\ Recall(Head(load))
    /\ load' = Tail(load)
    /\ UNCHANGED <<clientVars, historyUid, owned, files, writes, events, ghosts,
                   handlerVars>>

\* What follows (get_history, the message to the client) changes nothing.
LoadEnds ==
    /\ serving[1] = "recalling"
    /\ load = <<>>
    /\ serving' = Idle
    /\ UNCHANGED <<connection, current, kind, phase, doomed, storeVars, events,
                   ghosts, handlerVars, memoryVars>>

DeleteHistory ==
    \E h \in owned :
        /\ owned' = owned \ {h}
        /\ Command("deleting", h)
        /\ UNCHANGED historyUid

\* delete_history has removed the file, or failed to.
HistoryRemoved ==
    LET h == serving[2]
    IN  /\ serving[1] = "deleting"
        /\ \/ files' = [files EXCEPT ![h] = Missing] /\ UNCHANGED events
           \/ /\ events < MaxEvents
              /\ events' = events + 1
              /\ UNCHANGED files
        /\ serving' = <<"deleted", h>>
        /\ UNCHANGED <<connection, current, kind, phase, doomed, historyUid, owned,
                       writes, load, ghosts, handlerVars,
                       memoryVars>>

\* Mutant of HistoryAfterDelete: the deleted history stays the current one.
HistoryKept(h) == historyUid

HistoryAfterDelete(h) == IF h = historyUid THEN 0 ELSE historyUid

\* Back in the handler.
HistoryDeleted ==
    /\ serving[1] = "deleted"
    /\ historyUid' = HistoryAfterDelete(serving[2])
    /\ serving' = Idle
    /\ UNCHANGED <<connection, current, kind, phase, doomed, owned, files, writes,
                   load, events, ghosts, handlerVars, memoryVars>>

------------------------------------------------------------------------------
(***************************************************************************)
(* A turn: process_single_conversation ("chat") or                *)
(* Live2DConsumer._handle_speak_text ("speak").                            *)
(***************************************************************************)
Goto(t, label) == phase' = [phase EXCEPT ![t] = label]

\* The turn, not cancelled, goes on from `from`.
Runs(t, from) == phase[t] = from /\ t \notin doomed

\* Tasks run first in the order of their creation.
First(t) == \A u \in Turns : u < t => phase[u] # "created"

Human(t, form) == Message("human", form, TextOf[t], t)
Reply(t) == Message("ai", "reply", t, t)
Spoken(t) == Message("ai", "spoken", TextOf[t], t)

\* `m` is stored in the current history.
Store(t, m) == writes' = writes \cup {Write(t, m)}

\* The agent is asked: the user's words are remembered, and the stream begins.
Chat(t, form) ==
    /\ Goto(t, "streaming")
    /\ BeginChat(Recalled(Human(t, form)))
    /\ chats' = chats + 1

\* Mutant of Ask: the question is stored in the background.
AskAtOnce(t, form) ==
    /\ Chat(t, form)
    /\ IF historyUid = 0 THEN UNCHANGED writes ELSE Store(t, Human(t, form))
    /\ UNCHANGED kind

\* The question is stored first, if there is a history.
Ask(t, form) ==
    IF historyUid = 0 THEN Chat(t, form) /\ UNCHANGED <<kind, writes>>
    ELSE /\ Goto(t, "asking")
         /\ kind' = IF form = "empty" THEN [kind EXCEPT ![t] = "noise"] ELSE kind
         /\ Store(t, Human(t, form))
         /\ UNCHANGED <<chats, memoryVars>>

StartChat(t) ==
    /\ Runs(t, "created") /\ First(t)
    /\ kind[t] = "chat"
    /\ Ask(t, "asked")
    /\ UNCHANGED <<connection, serving, current, doomed, historyUid, owned, files,
                   load, events, unanswered, unplayed, reloaded, handlerVars>>

\* Sound is transcribed first.
StartVoice(t) ==
    /\ Runs(t, "created") /\ First(t)
    /\ kind[t] = "chat"
    /\ Goto(t, "hearing")
    /\ UNCHANGED <<connection, serving, current, kind, doomed, storeVars, events,
                   ghosts, handlerVars, memoryVars>>

\* The transcription is back, or there is no recogniser: perhaps no text.
Transcribed(t) ==
    /\ Runs(t, "hearing")
    /\ Ask(t, "asked") \/ Ask(t, "empty")
    /\ UNCHANGED <<connection, serving, current, doomed, historyUid, owned, files,
                   load, events, unanswered, unplayed, reloaded, handlerVars>>

\* The recogniser raises an exception, which ends the turn.
TranscriptionFails(t) ==
    /\ Runs(t, "hearing")
    /\ events < MaxEvents
    /\ events' = events + 1
    /\ Goto(t, "done")
    /\ UNCHANGED <<connection, serving, current, kind, doomed, storeVars, ghosts,
                   handlerVars, memoryVars>>

Asked(t) ==
    /\ Runs(t, "asking")
    /\ ~Writing(t)
    /\ Chat(t, IF kind[t] = "noise" THEN "empty" ELSE "asked")
    /\ kind' = [kind EXCEPT ![t] = "chat"]
    /\ UNCHANGED <<connection, serving, current, doomed, storeVars, events,
                   unanswered, unplayed, reloaded, handlerVars>>

\* Mutant of StreamEnds: a cancelled stream counts as one that has ended.
StreamStops(t) ==
    /\ phase[t] = "streaming"
    /\ Goto(t, "synthesising")
    /\ memory' \in {memory, WithMessage(Recalled(Reply(t)))}
    /\ UNCHANGED <<connection, serving, current, kind, doomed, interruptHandled,
                   storeVars, events, ghosts, handlerVars>>

\* The answer is stored in what is the current history by then.
StoreReply(t) ==
    IF historyUid = 0 THEN Goto(t, "done") /\ UNCHANGED writes
    ELSE Goto(t, "storing") /\ Store(t, Reply(t))

\* The stream ends, breaks off, or is cut by response_quality_guard, in which
\* two cases the answer is not remembered.  Some of it may have been given to
\* the synthesis, or displayed only, or there was nothing to show.
StreamEnds(t) ==
    /\ Runs(t, "streaming")
    /\ memory' \in {memory, WithMessage(Recalled(Reply(t)))}
    /\ \/ Goto(t, "synthesising") /\ UNCHANGED writes
       \/ StoreReply(t)
       \/ Goto(t, "done") /\ UNCHANGED writes
    /\ UNCHANGED <<connection, serving, current, kind, doomed, historyUid, owned,
                   files, load, interruptHandled, events, ghosts, handlerVars>>

\* Mutant of RememberSpoken: the text is remembered when all has been said.
RememberLater(t) == UNCHANGED memoryVars

RememberSpoken(t) == Remember(Recalled(Spoken(t)))

\* The sentences are given to the synthesis; there may be nothing to voice.
Voiced(t) == Goto(t, "synthesising") \/ Goto(t, "done")

\* speak-text: the text is remembered and stored before it is spoken.
StartSpeak(t) ==
    /\ Runs(t, "created") /\ First(t)
    /\ kind[t] = "speak"
    /\ RememberSpoken(t)
    /\ IF historyUid = 0 THEN Voiced(t) /\ UNCHANGED writes
       ELSE Goto(t, "noting") /\ Store(t, Spoken(t))
    /\ UNCHANGED <<connection, serving, current, kind, doomed, historyUid, owned,
                   files, load, events, ghosts, handlerVars>>

\* ... unless there is none.
StartMute(t) ==
    /\ Runs(t, "created") /\ First(t)
    /\ kind[t] = "speak"
    /\ Goto(t, "done")
    /\ UNCHANGED <<connection, serving, current, kind, doomed, storeVars, events,
                   ghosts, handlerVars, memoryVars>>

SpokenStored(t) ==
    /\ Runs(t, "noting")
    /\ ~Writing(t)
    /\ Voiced(t)
    /\ UNCHANGED <<connection, serving, current, kind, doomed, storeVars, events,
                   ghosts, handlerVars, memoryVars>>

\* finalize_conversation_turn: every sentence is sent; now the client plays.
Synthesised(t) ==
    /\ Runs(t, "synthesising")
    /\ Goto(t, "playback")
    /\ Wait(t)
    /\ UNCHANGED <<connection, serving, current, kind, doomed, storeVars, events,
                   ghosts, memoryVars>>

\* The event is set, by the client's message or by cleanup_client.
Played(t) ==
    /\ Runs(t, "playback")
    /\ t \in woken
    /\ Leave(t)
    /\ IF kind[t] = "speak" THEN Goto(t, "done") /\ UNCHANGED writes
       ELSE StoreReply(t)
    /\ UNCHANGED <<connection, serving, current, kind, doomed, historyUid, owned,
                   files, load, events, ghosts, memoryVars>>

ReplyStored(t) ==
    /\ Runs(t, "storing")
    /\ ~Writing(t)
    /\ Goto(t, "done")
    /\ UNCHANGED <<connection, serving, current, kind, doomed, storeVars, events,
                   ghosts, handlerVars, memoryVars>>

\* CancelledError is raised where the turn waits.  A thread it waits for goes on.
CancelLands(t) ==
    /\ t \in doomed
    /\ phase[t] = "created" => First(t)
    /\ doomed' = doomed \ {t}
    /\ Goto(t, "done")
    /\ IF t \in awaiting THEN Leave(t) ELSE UNCHANGED handlerVars
    /\ UNCHANGED <<connection, serving, current, kind, storeVars, events, ghosts,
                   memoryVars>>

\* The loop refers to its tasks weakly: a turn that nobody can wake, and that
\* is in nobody's table, may be collected as garbage.  GeneratorExit then runs
\* the finally branch of wait_for_response like any other exception.
Collected(t) ==
    /\ Unreachable(t)
    /\ t \notin doomed
    /\ connection = "open" => t # current
    /\ Leave(t)
    /\ Goto(t, "done")
    /\ UNCHANGED <<connection, serving, current, kind, doomed, storeVars, events,
                   ghosts, memoryVars>>

------------------------------------------------------------------------------
Serve == \/ StoreMark \/ MarkStored
         \/ HistoryCreated \/ HistoryRemoved \/ HistoryDeleted
         \/ LoadReads \/ LoadForgets \/ LoadRecalls \/ LoadEnds

Advance(t) == \/ StartChat(t) \/ StartVoice(t) \/ StartSpeak(t) \/ StartMute(t)
              \/ Transcribed(t) \/ TranscriptionFails(t)
              \/ Asked(t) \/ SpokenStored(t)
              \/ Synthesised(t) \/ Played(t) \/ ReplyStored(t) \/ CancelLands(t)
              \/ Collected(t)

\* The connection is gone, and nothing that can go on is left.
Done ==
    /\ connection = "closed"
    /\ writes = {}
    /\ \A t \in Turns : phase[t] \in Over \/ (phase[t] = "playback" /\ t \notin woken)
    /\ UNCHANGED vars

Next == \/ TextInput \/ SpeakText
        \/ \E form \in {"heard", "empty"} : Interrupt(form)
        \/ PlaybackComplete
        \/ CreateNewHistory \/ FetchHistory \/ DeleteHistory
        \/ Disconnect
        \/ Serve
        \/ \E t \in Turns : Advance(t) \/ StreamEnds(t)
        \/ \E w \in writes : WriteLands(w) \/ WriteFails(w)
        \/ Done

Spec == Init /\ [][Next]_vars

------------------------------------------------------------------------------
(***************************************************************************)
(* What is checked.                                                        *)
(***************************************************************************)
Labels == {"idle", "storing_heard", "storing_mark", "creating", "reading",
           "forgetting", "recalling", "deleting", "deleted"}

Entries(roles) == [role : roles, form : Forms, text : Nat, turn : 0 .. MaxTurns]

\* The variables have their types (consumers.py, message_handler.py,
\* basic_memory_agent.py).
TypeOK ==
    /\ connection \in {"open", "closed"}
    /\ serving \in Labels \X (0 .. MaxEvents)
    /\ current \in 0 .. MaxTurns
    /\ kind \in [Turns -> {"chat", "noise", "speak"}]
    /\ phase \in [Turns -> Phases]
    /\ doomed \in SUBSET Turns
    /\ historyUid \in 0 .. MaxEvents
    /\ owned \in SUBSET Histories
    /\ files \in [Histories -> Seq(Entries({"human", "ai", "system"})) \cup {Missing}]
    /\ \A w \in writes :
          /\ w.by \in 0 .. MaxTurns
          /\ w.uid \in Histories
          /\ w.message \in Entries({"human", "ai", "system"})
    /\ memory \in Seq(Entries({"user", "assistant"}))
    /\ interruptHandled \in BOOLEAN
    /\ awaiting = {t \in Turns : phase[t] = "playback"}
    /\ HandlerTypeOK

Replied(messages, t) ==
    \E i \in DOMAIN messages : messages[i].form = "reply" /\ messages[i].turn = t

\* A turn that waits for the end of the playback can be reached by the
\* client's message and by the cleanup, unless it shared its wait with
\* another turn of the connection (message_handler.py, wait_for_response).
LoneWaiterIsHeard == \A t \in awaiting : Unreachable(t) => t \in contested

\* What an interrupt or the end of the connection has cut off is not recorded
\* as said: no answer that was not there yet is remembered, and none that was
\* not played to its end is stored ("interrupt-signal", docs/API.md).
CutOffStaysCutOff ==
    \A t \in Turns :
        /\ t \in unanswered => ~Replied(memory, t)
        /\ t \in unplayed =>
              /\ \A h \in Histories : ~Replied(Contents(h), t)
              /\ \A w \in writes : ~(w.message.form = "reply" /\ w.by = t)

\* The memory notes an interruption at most once for each time the model is
\* asked, however many interrupt-signals come (_interrupt_handled).
OneMarkPerChat ==
    Cardinality({i \in DOMAIN memory : memory[i] = Mark("user")})
        <= chats + 1

\* In a history the answer to a question comes after the question, though the
\* two are stored by different threads (process_single_conversation).
AskedBeforeAnswered ==
    \A h \in Histories : \A i, j \in DOMAIN Contents(h) :
        /\ Contents(h)[i].role = "human"
        /\ Contents(h)[j].form = "reply"
        /\ Contents(h)[i].turn = Contents(h)[j].turn
        => i < j

\* A follow-up question finds the text in the memory that is being read out,
\* from before its first sentence is spoken ("記憶跟歷史記錄要在排 TTS 之前就先寫入",
\* _handle_speak_text), unless the client has changed the conversation.
SpokenIsKnown ==
    \A t \in Turns :
        /\ kind[t] = "speak"
        /\ phase[t] \in Reading
        /\ t \notin reloaded
        => \E i \in DOMAIN memory :
              /\ memory[i].role = "assistant"
              /\ memory[i].text = TextOf[t]
              /\ memory[i].form \in {"spoken", "heard"}

\* Between two messages the current history is one this connection owns: what
\* is stored from then on never goes to a deleted or a foreign history.
CurrentHistoryIsOwned ==
    serving = Idle => historyUid \in owned \cup {0}

\* "Cleanup all events and cached data for a given client." (message_handler.py):
\* once the client is gone, no turn of its waits for it any more.
NobodyLeftWaiting == connection = "closed" => awaiting \subseteq woken
==============================================================================
