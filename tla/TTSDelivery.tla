----------------------------- MODULE TTSDelivery -----------------------------
(***************************************************************************)
(* One conversation turn of apps/live2d/engine/conversation.py: the        *)
(* coroutine of process_single_conversation (or Live2DConsumer.            *)
(* _handle_speak_text), the TTS tasks it creates and the sender task of    *)
(* TTSTaskManager, on the event loop of one asyncio thread.                *)
(*                                                                         *)
(* `ready` is the loop's queue of scheduled callbacks, first in first out: *)
(* which of two tasks runs first is what the order of the payloads hangs   *)
(* on.  A coroutine runs until it suspends; it does so in asyncio.to_thread*)
(* and in waiting, and not in websocket_send (daphne's handle_reply awaits *)
(* nothing), in Queue.put on an unbounded queue, in Queue.get when there   *)
(* is something to get, or in asyncio.gather when all its tasks are done   *)
(* (Python 3.12, pyproject.toml).  Sending never fails.                    *)
(***************************************************************************)
EXTENDS Naturals, Sequences, FiniteSets

CONSTANTS
    MaxSentences,    \* bound on the sentences of a turn
    MaxInterrupts    \* bound on cancellations of the turn

ASSUME DeliveryAssumption == MaxSentences \in Nat /\ MaxInterrupts \in {0, 1}

VARIABLES
    kind,        \* "chat" (process_single_conversation) or "speak"
    turn,        \* where the turn's coroutine stands
    ready,       \* the loop's queue
    uttered,     \* the sentences spoken so far: "voiced" or "silent"
    task,        \* the TTS task of each voiced sentence (task_list)
    sender,      \* _sender_task
    queue,       \* _payload_queue: sequence numbers
    buffered,    \* `buffered` of the sender
    next,        \* _next_sequence_to_send
    wire,        \* what the client was sent: payloads and control messages
    doomed,      \* tasks with a cancellation under way
    interrupts

vars == <<kind, turn, ready, uttered, task, sender, queue, buffered, next,
          wire, doomed, interrupts>>

Sentences == 1 .. MaxSentences

\* Entries of `ready` and messages on the wire.
Turn == <<"turn", 0>>
Sender == <<"sender", 0>>
Gathered == <<"gathered", 0>>      \* a done callback of asyncio.gather
Tts(n) == <<"tts", n>>
Audio(n) == <<"audio", n>>
SynthComplete == <<"backend-synth-complete", 0>>
ChainEnd == <<"conversation-chain-end", 0>>

\* The turn's coroutine is running: nothing else runs until it suspends.
Busy == turn \in {"speaking", "chatted", "finalizing", "closing"}

Scheduled(t) == \E i \in DOMAIN ready : ready[i] = t

\* The callback at the head of the queue is t's.
Runs(t) == ~Busy /\ ready # <<>> /\ Head(ready) = t

TaskList == {n \in 1 .. Len(uttered) : uttered[n] = "voiced"}
AllDone == \A n \in TaskList : task[n] \in {"done", "cancelled"}

Init ==
    /\ kind \in {"chat", "speak"}
    /\ turn = "chatting"
    /\ ready = <<Turn>>
    /\ uttered = <<>>
    /\ task = [n \in Sentences |-> "none"]
    /\ sender = "none"
    /\ queue = <<>>
    /\ buffered = {}
    /\ next = 1
    /\ wire = <<>>
    /\ doomed = {}
    /\ interrupts = 0

------------------------------------------------------------------------------
(***************************************************************************)
(* The queue between the TTS tasks and the sender.                         *)
(***************************************************************************)

\* _payload_queue.put; a sender that waits is scheduled behind `rest`.
Put(n) ==
    /\ queue' = Append(queue, n)
    /\ sender' = IF sender = "waiting" THEN "scheduled" ELSE sender

\* Mutant of Woken: the payload is stored and the sender not told.
NotWoken(rest) == rest

Woken(rest) == IF sender = "waiting" THEN Append(rest, Sender) ELSE rest

\* The first number that has not arrived.
FirstMissing(from, arrived) ==
    CHOOSE m \in from .. from + MaxSentences :
        m \notin arrived /\ \A k \in from .. m - 1 : k \in arrived

\* Mutant of Deliver: payloads go out as they arrive.
DeliverOnArrival(n) ==
    /\ wire' = Append(wire, Audio(n))
    /\ next' = next + 1
    /\ UNCHANGED buffered

\* The inner loop of _process_payload_queue once payload n has arrived: send
\* every payload that is now in turn.
Deliver(n) ==
    LET arrived == buffered \cup {n}
        missing == FirstMissing(next, arrived)
    IN  /\ wire' = wire \o [i \in 1 .. missing - next |-> Audio(next + i - 1)]
        /\ next' = missing
        /\ buffered' = {k \in arrived : k >= missing}

\* _process_payload_queue: one turn of its loop.  The sender stays at the head
\* of `ready`, for it does not suspend while the queue holds something.
SenderGets ==
    /\ Runs(Sender)
    /\ Sender \notin doomed
    /\ IF queue = <<>>
       THEN /\ sender' = "waiting"
            /\ ready' = Tail(ready)
            /\ UNCHANGED <<queue, buffered, next, wire>>
       ELSE /\ queue' = Tail(queue)
            /\ Deliver(Head(queue))
            /\ UNCHANGED <<sender, ready>>
    /\ UNCHANGED <<kind, turn, uttered, task, doomed, interrupts>>

\* Mutant of OnCancel: the sender goes on with its `while True`.
KeepLooping == sender' = "waiting" /\ ready' = Tail(ready)

\* The sender's except branch: it breaks, and whoever awaits it is scheduled.
OnCancel == sender' = "done" /\ ready' = Append(Tail(ready), Turn)

\* CancelledError is raised in the sender, in front of its queue.
SenderCancelled ==
    /\ Runs(Sender)
    /\ Sender \in doomed
    /\ OnCancel
    /\ doomed' = doomed \ {Sender}
    /\ UNCHANGED <<kind, turn, uttered, task, queue, buffered, next, wire,
                   interrupts>>

------------------------------------------------------------------------------
(***************************************************************************)
(* A TTS task: _process_tts.                                               *)
(***************************************************************************)

\* The task starts and waits for a thread: the engine's, then the one that
\* prepares the payload, then perhaps the one for a silent payload instead.
TtsStarts(n) ==
    /\ Runs(Tts(n))
    /\ task[n] = "created"
    /\ Tts(n) \notin doomed
    /\ task' = [task EXCEPT ![n] = "working"]
    /\ ready' = Tail(ready)
    /\ UNCHANGED <<kind, turn, uttered, sender, queue, buffered, next, wire,
                   doomed, interrupts>>

\* The last of these threads, which generates the audio, loads it and measures its
\* volume, returns or raises; the loop may be busy meanwhile.
ThreadReturns(n) ==
    /\ task[n] = "working"
    /\ Tts(n) \notin doomed
    /\ task' = [task EXCEPT ![n] = "back"]
    /\ ready' = Append(ready, Tts(n))
    /\ UNCHANGED <<kind, turn, uttered, sender, queue, buffered, next, wire,
                   doomed, interrupts>>

\* A task of the list is done: gather, if it waits, is called back.
Notify(rest) == IF turn \in {"gather", "gatherAgain"}
                THEN Append(rest, Gathered) ELSE rest

\* Mutant of Voice: when synthesis fails, nothing is put in its place.
VoiceOrNothing(n) ==
    \/ Put(n) /\ ready' = Notify(Woken(Tail(ready)))
    \/ UNCHANGED <<queue, sender>> /\ ready' = Notify(Tail(ready))

\* With audio or, after an exception, without: the payload is put.
Voice(n) == Put(n) /\ ready' = Notify(Woken(Tail(ready)))

TtsPuts(n) ==
    /\ Runs(Tts(n))
    /\ task[n] = "back"
    /\ Tts(n) \notin doomed
    /\ task' = [task EXCEPT ![n] = "done"]
    /\ Voice(n)
    /\ UNCHANGED <<kind, turn, uttered, buffered, next, wire, doomed, interrupts>>

\* CancelledError is raised in the task: nothing is put.
TtsCancelled(n) ==
    /\ Runs(Tts(n))
    /\ Tts(n) \in doomed
    /\ task' = [task EXCEPT ![n] = "cancelled"]
    /\ doomed' = doomed \ {Tts(n)}
    /\ ready' = Notify(Tail(ready))
    /\ UNCHANGED <<kind, turn, uttered, sender, queue, buffered, next, wire,
                   interrupts>>

\* A done callback of gather: the last task, or the first one that was
\* cancelled, schedules the turn.
GatherCalledBack ==
    /\ Runs(Gathered)
    /\ ready' = IF /\ turn \in {"gather", "gatherAgain"}
                   /\ ~Scheduled(Turn)
                   /\ AllDone \/ \E n \in TaskList : task[n] = "cancelled"
                THEN Append(Tail(ready), Turn) ELSE Tail(ready)
    /\ UNCHANGED <<kind, turn, uttered, task, sender, queue, buffered, next, wire,
                   doomed, interrupts>>

------------------------------------------------------------------------------
(***************************************************************************)
(* The turn.                                                               *)
(***************************************************************************)

\* What the turn awaits outside the loop has come: the language model, a
\* thread, or the client's frontend-playback-complete.
Resume ==
    /\ turn \in {"chatting", "preparing", "playback", "storing"}
    /\ ~Scheduled(Turn)
    /\ ready' = Append(ready, Turn)
    /\ UNCHANGED <<kind, turn, uttered, task, sender, queue, buffered, next, wire,
                   doomed, interrupts>>

\* speak: number the sentence, and make sure there is a sender.
Speak(how) ==
    /\ turn = "speaking"
    /\ Len(uttered) < MaxSentences
    /\ uttered' = Append(uttered, how)
    /\ sender' = IF sender \in {"none", "done"} THEN "scheduled" ELSE sender

WithSender == IF sender \in {"none", "done"} THEN Append(ready, Sender) ELSE ready

\* A sentence with something to say: a task is created for it.
SpeakVoiced ==
    LET n == Len(uttered) + 1
    IN  /\ Speak("voiced")
        /\ task' = [task EXCEPT ![n] = "created"]
        /\ ready' = Append(WithSender, Tts(n))
        /\ UNCHANGED <<kind, turn, queue, buffered, next, wire, doomed, interrupts>>

\* Nothing but punctuation: the turn itself prepares a silent payload.
SpeakSilent ==
    /\ Speak("silent")
    /\ turn' = "preparing"
    /\ ready' = WithSender
    /\ UNCHANGED <<kind, task, queue, buffered, next, wire, doomed, interrupts>>

\* The turn, suspended at `from`, runs again.
TurnRuns(from) ==
    /\ Runs(Turn)
    /\ turn = from
    /\ Turn \notin doomed

Prepared ==
    /\ TurnRuns("preparing")
    /\ Put(Len(uttered))
    /\ ready' = Woken(Tail(ready))
    /\ turn' = "speaking"
    /\ UNCHANGED <<kind, uttered, task, buffered, next, wire, doomed, interrupts>>

\* The model's stream goes on, or there is no model.
Hear ==
    /\ TurnRuns("chatting")
    /\ turn' = "speaking"
    /\ ready' = Tail(ready)
    /\ UNCHANGED <<kind, uttered, task, sender, queue, buffered, next, wire,
                   doomed, interrupts>>

AwaitModel ==
    /\ turn = "speaking"
    /\ kind = "chat"
    /\ turn' = "chatting"
    /\ UNCHANGED <<kind, ready, uttered, task, sender, queue, buffered, next, wire,
                   doomed, interrupts>>

\* The stream has ended or failed, or the text has been spoken.
StopSpeaking ==
    /\ turn = "speaking"
    /\ turn' = IF kind = "chat" THEN "chatted" ELSE "finalizing"
    /\ UNCHANGED <<kind, ready, uttered, task, sender, queue, buffered, next, wire,
                   doomed, interrupts>>

Announce == wire' = Append(wire, SynthComplete)

\* process_single_conversation, after the stream: without tasks nothing is
\* awaited, and with tasks that are all done gather does not suspend.
Chatted ==
    /\ turn = "chatted"
    /\ \/ TaskList = {} /\ turn' = "finalizing" /\ UNCHANGED wire
       \/ TaskList # {} /\ AllDone /\ turn' = "finalizing" /\ Announce
       \/ ~AllDone /\ turn' = "gather" /\ UNCHANGED wire
    /\ UNCHANGED <<kind, ready, uttered, task, sender, queue, buffered, next,
                   doomed, interrupts>>

\* What follows finalize_conversation_turn: the answer of a chat is stored if
\* there is a history and an answer, and the manager is closed.
AfterTurn == IF kind = "chat" THEN {"storing", "closing"} ELSE {"closing"}

\* finalize_conversation_turn up to where it suspends.
Finalize ==
    /\ turn = "finalizing"
    /\ \/ /\ TaskList = {}
          /\ wire' = Append(wire, ChainEnd)
          /\ turn' \in AfterTurn
       \/ TaskList # {} /\ AllDone /\ turn' = "playback" /\ Announce
       \/ ~AllDone /\ turn' = "gatherAgain" /\ UNCHANGED wire
    /\ UNCHANGED <<kind, ready, uttered, task, sender, queue, buffered, next,
                   doomed, interrupts>>

\* The tasks are done: gather returns.
AfterGather ==
    /\ \/ TurnRuns("gather") /\ turn' = "finalizing"
       \/ TurnRuns("gatherAgain") /\ turn' = "playback"
    /\ Announce
    /\ ready' = Tail(ready)
    /\ UNCHANGED <<kind, uttered, task, sender, queue, buffered, next, doomed,
                   interrupts>>

\* wait_for_response returns: with the client's message or, when the
\* connection is gone (cleanup_client), with None.
AfterPlayback ==
    /\ TurnRuns("playback")
    /\ wire' = Append(wire, ChainEnd) \/ wire' = wire
    /\ turn' \in AfterTurn
    /\ ready' = Tail(ready)
    /\ UNCHANGED <<kind, uttered, task, sender, queue, buffered, next, doomed,
                   interrupts>>

Stored ==
    /\ TurnRuns("storing")
    /\ turn' = "closing"
    /\ ready' = Tail(ready)
    /\ UNCHANGED <<kind, uttered, task, sender, queue, buffered, next, wire,
                   doomed, interrupts>>

\* CancelledError is raised in the turn: the finally branch is left.
TurnCancelled ==
    /\ Runs(Turn)
    /\ Turn \in doomed
    /\ doomed' = doomed \ {Turn}
    /\ turn' = "closing"
    /\ ready' = Tail(ready)
    /\ UNCHANGED <<kind, uttered, task, sender, queue, buffered, next, wire,
                   interrupts>>

\* Mutant of CancelSender: the sender is left alone.
LeaveSender == turn' = "ended" /\ UNCHANGED <<sender, ready, doomed>>

\* aclose: cancel a live sender and wait for it.
CancelSender ==
    IF sender \in {"scheduled", "waiting"}
    THEN /\ turn' = "awaitsSender"
         /\ doomed' = doomed \cup {Sender}
         /\ sender' = "scheduled"
         /\ ready' = Woken(ready)
    ELSE turn' = "ended" /\ UNCHANGED <<sender, ready, doomed>>

Close ==
    /\ turn = "closing"
    /\ CancelSender
    /\ UNCHANGED <<kind, uttered, task, queue, buffered, next, wire, interrupts>>

\* The rest of aclose: the queue is replaced.
Closed ==
    /\ TurnRuns("awaitsSender")
    /\ turn' = "ended"
    /\ queue' = <<>>
    /\ ready' = Tail(ready)
    /\ UNCHANGED <<kind, uttered, task, sender, buffered, next, wire, doomed,
                   interrupts>>

\* The members of a set of numbers in their order: one sequence.
Ascending(S) ==
    {s \in [1 .. Cardinality(S) -> S] : \A i, j \in DOMAIN s : i < j => s[i] < s[j]}

\* task.cancel() of an interrupt or a disconnection.  A turn in gather passes
\* it on to the tasks that are not done; otherwise what it awaits is given up.
\* In aclose it hits the sender, which is being cancelled already.
Interrupt ==
    LET pending == {n \in TaskList : task[n] \notin {"done", "cancelled"}}
        resting == {n \in pending : task[n] = "working"}
        gathers == turn \in {"gather", "gatherAgain"}
    IN  /\ interrupts < MaxInterrupts
        /\ ~Busy
        /\ turn \notin {"awaitsSender", "ended"}
        /\ interrupts' = interrupts + 1
        /\ doomed' = doomed \cup {Turn} \cup
                        (IF gathers THEN {Tts(n) : n \in pending} ELSE {})
        /\ IF gathers
           THEN \E woken \in Ascending(resting) :
                    ready' = ready \o [i \in DOMAIN woken |-> Tts(woken[i])]
           ELSE ready' = IF Scheduled(Turn) THEN ready ELSE Append(ready, Turn)
        /\ UNCHANGED <<kind, turn, uttered, task, sender, queue, buffered, next, wire>>

Done ==
    /\ turn = "ended"
    /\ ready = <<>>
    /\ \A n \in Sentences : task[n] # "working"
    /\ UNCHANGED vars

\* What the event loop runs, and the threads.
Loop ==
    \/ SenderGets \/ SenderCancelled \/ GatherCalledBack
    \/ \E n \in Sentences : TtsStarts(n) \/ TtsPuts(n) \/ TtsCancelled(n)
    \/ Prepared \/ Hear \/ AfterGather \/ AfterPlayback \/ Stored
    \/ Chatted \/ Finalize \/ TurnCancelled \/ Close \/ Closed

Utter == SpeakVoiced \/ SpeakSilent \/ AwaitModel \/ StopSpeaking

Next ==
    \/ Loop \/ Utter
    \/ \E n \in Sentences : ThreadReturns(n)
    \/ Resume \/ Interrupt \/ Done

Spec == Init /\ [][Next]_vars

\* The loop and the threads run on; the language model and the client need
\* not answer.
FairSpec ==
    /\ Spec
    /\ WF_vars(Loop)
    /\ \A n \in Sentences : WF_vars(ThreadReturns(n))
    /\ WF_vars(turn \in {"preparing", "storing"} /\ Resume)

------------------------------------------------------------------------------
\* Whoever waits to be scheduled is not scheduled, and the other way round.
TypeOK ==
    /\ kind \in {"chat", "speak"}
    /\ turn \in {"chatting", "speaking", "preparing", "chatted", "gather",
                 "finalizing", "gatherAgain", "playback", "storing", "closing",
                 "awaitsSender", "ended"}
    /\ ready \in Seq({Turn, Sender, Gathered} \cup {Tts(n) : n \in Sentences})
    /\ uttered \in Seq({"voiced", "silent"}) /\ Len(uttered) <= MaxSentences
    /\ task \in [Sentences -> {"none", "created", "working", "back", "done",
                               "cancelled"}]
    /\ sender \in {"none", "scheduled", "waiting", "done"}
    /\ sender = "scheduled" <=> Scheduled(Sender)
    /\ queue \in Seq(Sentences)
    /\ buffered \in SUBSET Sentences
    /\ next \in 1 .. MaxSentences + 1
    /\ wire \in Seq({SynthComplete, ChainEnd} \cup {Audio(n) : n \in Sentences})
    /\ doomed \in SUBSET ({Turn, Sender} \cup {Tts(n) : n \in Sentences})
    /\ interrupts \in 0 .. MaxInterrupts

\* The client gets the payloads in the order of the sentences, none twice and
\* none left out, however late each synthesis ends.
InOrder ==
    \A j \in DOMAIN wire, n \in Sentences :
        wire[j] = Audio(n) =>
            /\ \A i \in 1 .. j - 1 : wire[i] # Audio(n)
            /\ n > 1 => \E i \in 1 .. j - 1 : wire[i] = Audio(n - 1)

\* A turn that had anything to say aloud ends its conversation chain only when
\* every sentence of it, silent ones and failed ones too, was sent.
SpokenBeforeEnd ==
    \A i \in DOMAIN wire :
        wire[i] = ChainEnd /\ TaskList # {} =>
            \A n \in 1 .. Len(uttered) : \E j \in 1 .. i : wire[j] = Audio(n)

\* A turn that is over leaves no sender behind (aclose), and TTS tasks that outlive
\* it reach the client no more.
SilentAfterwards ==
    [][turn = "ended" => sender \in {"none", "done"} /\ UNCHANGED wire]_vars

\* Once the sentences are known the turn is held up by nobody but the client,
\* which confirms the playback; and closing always comes to its end.
OnlyTheClientDelays ==
    /\ turn = "finalizing" ~> turn \in {"playback", "ended"}
    /\ turn = "closing" ~> turn = "ended"
==============================================================================
