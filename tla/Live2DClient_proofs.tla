------------------------- MODULE Live2DClient_proofs -------------------------
(***************************************************************************)
(* Proofs about one WebSocket connection, for any number of turns, of      *)
(* interrupts, of history commands and of failing writes.                  *)
(***************************************************************************)
EXTENDS Live2DClient, FiniteSetTheorems, SequenceTheorems, TLAPS

------------------------------------------------------------------------------
(***************************************************************************)
(* The waiters.                                                            *)
(***************************************************************************)

\* Two turns that wait at the same time both know of it.
OverlapsNoted ==
    \A t, u \in awaiting : t # u => t \in contested

\* The event in the table is that of a turn that waits.
RegisteredWaits == registered \in awaiting \cup {NoWaiter}

HInv ==
    /\ awaiting \subseteq Turns
    /\ woken \subseteq awaiting
    /\ RegisteredWaits
    /\ OverlapsNoted
    /\ LoneWaiterIsHeard

\* What the steps of a connection do to the waiters.
HandlerStep ==
    \/ UNCHANGED handlerVars
    \/ \E t \in Turns : Wait(t)
    \/ \E t \in awaiting : Leave(t)
    \/ HandleMessage
    \/ CleanupClient

\* No waiter is 0, the sign of an empty table.
LEMMA NoTurnIsNoWaiter == NoWaiter \notin Turns
BY ClientAssumption DEF Turns

\* The operations of message_handler.py keep the invariant.
LEMMA HandlerKeeps == HInv /\ HandlerStep => HInv'
<1> SUFFICES ASSUME HInv, HandlerStep PROVE HInv'
  OBVIOUS
<1> USE DEF HInv, RegisteredWaits, OverlapsNoted, LoneWaiterIsHeard, Unreachable
<1>1. CASE UNCHANGED handlerVars
  BY <1>1 DEF handlerVars
<1>2. ASSUME NEW t \in Turns, Wait(t) PROVE HInv'
  <2>1. /\ awaiting' = awaiting \cup {t}
        /\ registered' = t
        /\ woken' = woken
        /\ awaiting # {} => contested' = contested \cup awaiting \cup {t}
    BY <1>2 DEF Wait
  <2>2. OverlapsNoted'
    <3>1. CASE awaiting = {}
      BY <2>1, <3>1
    <3>2. CASE awaiting # {}
      BY <2>1, <3>2
    <3> QED
      BY <3>1, <3>2
  <2>3. LoneWaiterIsHeard'
    <3>1. CASE awaiting = {}
      BY <2>1, <3>1
    <3>2. CASE awaiting # {}
      BY <2>1, <3>2
    <3> QED
      BY <3>1, <3>2
  <2> QED
    BY <2>1, <2>2, <2>3
<1>3. ASSUME NEW t \in awaiting, Leave(t) PROVE HInv'
  <2>1. /\ awaiting' = awaiting \ {t}
        /\ registered' = NoWaiter
        /\ woken' = woken \ {t}
        /\ contested' = contested \ {t}
    BY <1>3 DEF Leave
  <2>2. LoneWaiterIsHeard'
    \* Whoever else waits has overlapped with t.
    <3>1. \A u \in awaiting' : u \in contested'
      BY <2>1, <1>3
    <3> QED
      BY <3>1
  <2> QED
    BY <2>1, <2>2
<1>4. CASE HandleMessage
  BY <1>4, NoTurnIsNoWaiter DEF HandleMessage
<1>5. CASE CleanupClient
  <2>1. /\ awaiting' = awaiting /\ contested' = contested
        /\ registered' = NoWaiter
        /\ woken' = IF registered = NoWaiter THEN woken ELSE woken \cup {registered}
    BY <1>5 DEF CleanupClient
  <2>2. LoneWaiterIsHeard'
    BY <2>1, NoTurnIsNoWaiter
  <2> QED
    BY <2>1, <2>2
<1> QED
  BY <1>1, <1>2, <1>3, <1>4, <1>5 DEF HandlerStep

\* Every step of the connection is one of these operations, or none.
LEMMA StepsAreHandlerSteps == HInv /\ [Next]_vars => HandlerStep
<1> SUFFICES ASSUME HInv, [Next]_vars PROVE HandlerStep
  OBVIOUS
<1> USE DEF HandlerStep
<1>1. CASE UNCHANGED vars
  BY <1>1 DEF vars
<1>2. CASE TextInput \/ SpeakText
  BY <1>2 DEF TextInput, SpeakText, BeginTurn
<1>3. ASSUME NEW form \in {"heard", "empty"}, Interrupt(form) PROVE HandlerStep
  BY <1>3 DEF Interrupt
<1>4. CASE PlaybackComplete
  BY <1>4 DEF PlaybackComplete
<1>5. CASE CreateNewHistory \/ FetchHistory \/ DeleteHistory
  BY <1>5 DEF CreateNewHistory, FetchHistory, DeleteHistory, Command
<1>6. CASE Disconnect
  BY <1>6 DEF Disconnect
<1>7. CASE Serve
  BY <1>7 DEF Serve, StoreMark, MarkStored, HistoryCreated, HistoryRemoved,
              HistoryDeleted, LoadReads, LoadForgets, LoadRecalls, LoadEnds
<1>8. ASSUME NEW t \in Turns, Advance(t) \/ StreamEnds(t) PROVE HandlerStep
  <2>1. CASE StartChat(t) \/ StartVoice(t) \/ StartSpeak(t) \/ StartMute(t)
    BY <2>1 DEF StartChat, StartVoice, StartSpeak, StartMute
  <2>2. CASE \/ Transcribed(t) \/ TranscriptionFails(t) \/ Asked(t)
             \/ StreamEnds(t) \/ SpokenStored(t)
    BY <2>2 DEF Transcribed, TranscriptionFails, Asked, StreamEnds, SpokenStored
  <2>3. CASE Synthesised(t)
    BY <2>3 DEF Synthesised
  <2>4. CASE Played(t)
    BY <2>4 DEF Played, HInv
  <2>5. CASE ReplyStored(t)
    BY <2>5 DEF ReplyStored
  <2>6. CASE CancelLands(t)
    BY <2>6 DEF CancelLands
  <2>7. CASE Collected(t)
    BY <2>7 DEF Collected, Unreachable
  <2> QED
    BY <1>8, <2>1, <2>2, <2>3, <2>4, <2>5, <2>6, <2>7 DEF Advance
<1>9. ASSUME NEW w \in writes, WriteLands(w) \/ WriteFails(w) PROVE HandlerStep
  BY <1>9 DEF WriteLands, WriteFails
<1>10. CASE Done
  BY <1>10 DEF Done, vars
<1> QED
  BY <1>1, <1>2, <1>3, <1>4, <1>5, <1>6, <1>7, <1>8, <1>9, <1>10 DEF Next

\* A turn that shared its wait with no other is reached by the client's
\* message and by the cleanup.
THEOREM LoneWaiter == Spec => []LoneWaiterIsHeard
<1>1. Init => HInv
  BY DEF Init, HandlerInit, HInv, RegisteredWaits, OverlapsNoted, LoneWaiterIsHeard
<1>2. HInv /\ [Next]_vars => HInv'
  BY HandlerKeeps, StepsAreHandlerSteps
<1>3. HInv => LoneWaiterIsHeard
  BY DEF HInv
<1> QED
  BY <1>1, <1>2, <1>3, PTL DEF Spec

------------------------------------------------------------------------------
(***************************************************************************)
(* The current history.                                                    *)
(***************************************************************************)

\* The consumer awaits its own write while, and only while, it stores what an
\* interrupt leaves behind; and it awaits one at a time.
OwnWrites ==
    \A w \in writes : w.by = Consumer =>
        /\ serving[1] \in {"storing_heard", "storing_mark"}
        /\ \A v \in writes : v.by = Consumer => v = w

\* A history that is not owned is the current one only while it is deleted.
OwnedOrBeingDeleted ==
    \/ historyUid \in owned \cup {0}
    \/ serving[1] \in {"deleting", "deleted"} /\ serving[2] = historyUid

OInv == OwnWrites /\ OwnedOrBeingDeleted

\* A turn's step stores at most in its own name, and leaves histories alone.
TurnStores(t) ==
    /\ UNCHANGED <<serving, historyUid, owned>>
    /\ \/ UNCHANGED writes
       \/ \E m : writes' = writes \cup {Write(t, m)}

\* Turns have other numbers than the consumer.
LEMMA TurnIsNotConsumer == \A t \in Turns : t # Consumer
BY ClientAssumption DEF Turns, Consumer

\* Every step of a turn is of this kind.
LEMMA TurnsStore ==
    ASSUME NEW t \in Turns, Advance(t) \/ StreamEnds(t)
    PROVE  TurnStores(t)
<1> USE DEF TurnStores, storeVars
<1>1. CASE StartChat(t)
  BY <1>1 DEF StartChat, Ask, Store
<1>2. CASE StartVoice(t)
  BY <1>2 DEF StartVoice
<1>3. CASE StartSpeak(t)
  BY <1>3 DEF StartSpeak, Store
<1>4. CASE StartMute(t)
  BY <1>4 DEF StartMute
<1>5. CASE Transcribed(t)
  BY <1>5 DEF Transcribed, Ask, Store
<1>6. CASE Asked(t)
  BY <1>6 DEF Asked
<1>7. CASE SpokenStored(t)
  BY <1>7 DEF SpokenStored
<1>8. CASE Synthesised(t)
  BY <1>8 DEF Synthesised
<1>9. CASE Played(t)
  BY <1>9 DEF Played, StoreReply, Store
<1>10. CASE ReplyStored(t)
  BY <1>10 DEF ReplyStored
<1>11. CASE CancelLands(t)
  BY <1>11 DEF CancelLands
<1>12. CASE Collected(t)
  BY <1>12 DEF Collected
<1>13. CASE StreamEnds(t)
  BY <1>13 DEF StreamEnds, StoreReply, Store
<1>14. CASE TranscriptionFails(t)
  BY <1>14 DEF TranscriptionFails
<1> QED
  BY <1>1, <1>2, <1>3, <1>4, <1>5, <1>6, <1>7, <1>8, <1>9, <1>10, <1>11, <1>12,
     <1>13, <1>14 DEF Advance

\* What a turn does keeps the invariant.
LEMMA TurnKeeps ==
    ASSUME OInv, NEW t \in Turns, TurnStores(t)
    PROVE  OInv'
<1>1. OwnedOrBeingDeleted'
  BY DEF OInv, OwnedOrBeingDeleted, TurnStores
<1>2. OwnWrites'
  <2>1. CASE UNCHANGED writes
    BY <2>1 DEF OInv, OwnWrites, TurnStores
  <2>2. ASSUME NEW m, writes' = writes \cup {Write(t, m)} PROVE OwnWrites'
    <3>1. Write(t, m).by # Consumer
      BY TurnIsNotConsumer DEF Write
    <3> QED
      BY <2>2, <3>1 DEF OInv, OwnWrites, TurnStores
  <2> QED
    BY <2>1, <2>2 DEF TurnStores
<1> QED
  BY <1>1, <1>2 DEF OInv

\* Every step keeps the invariant.
LEMMA OwnershipKept == OInv /\ [Next]_vars => OInv'
<1> SUFFICES ASSUME OInv, [Next]_vars PROVE OInv'
  OBVIOUS
<1> USE DEF OInv, OwnWrites, OwnedOrBeingDeleted
<1>1. CASE UNCHANGED vars
  BY <1>1 DEF vars, clientVars, storeVars
<1>2. CASE TextInput \/ SpeakText
  BY <1>2 DEF TextInput, SpeakText, BeginTurn, storeVars
<1>3. ASSUME NEW form \in {"heard", "empty"}, Interrupt(form) PROVE OInv'
  <2>1. serving = <<"idle", 0>>
    BY <1>3 DEF Interrupt, Receives, Idle
  <2>2. /\ \A w \in writes : w.by # Consumer
        /\ historyUid \in owned \cup {0}
    BY <2>1
  <2>3. historyUid' = historyUid /\ owned' = owned
    BY <1>3 DEF Interrupt
  <2>4. CASE historyUid = 0
    <3>1. writes' = writes
      BY <1>3, <2>4 DEF Interrupt
    <3> QED
      BY <2>2, <2>3, <3>1
  <2>5. CASE historyUid # 0
    <3> DEFINE heard == Message("ai", form, 0, current)
    <3>1. writes' = writes \cup {Write(Consumer, heard)}
      BY <1>3, <2>5 DEF Interrupt
    <3>2. serving' = <<"storing_heard", 0>>
      BY <1>3, <2>5 DEF Interrupt
    <3> QED
      BY <2>2, <2>3, <3>1, <3>2
  <2> QED
    BY <2>4, <2>5
<1>4. CASE PlaybackComplete
  BY <1>4 DEF PlaybackComplete, clientVars, storeVars
<1>5. CASE CreateNewHistory \/ FetchHistory \/ DeleteHistory
  <2>1. serving = <<"idle", 0>> /\ writes' = writes
    BY <1>5 DEF CreateNewHistory, FetchHistory, DeleteHistory, Command, Receives, Idle
  <2>2. /\ \A w \in writes : w.by # Consumer
        /\ historyUid \in owned \cup {0}
    BY <2>1
  <2>3. CASE CreateNewHistory
    BY <2>1, <2>2, <2>3 DEF CreateNewHistory
  <2>4. CASE FetchHistory
    BY <2>1, <2>2, <2>4 DEF FetchHistory
  <2>5. ASSUME NEW h \in owned, owned' = owned \ {h}, serving' = <<"deleting", h>>,
               historyUid' = historyUid
        PROVE  OInv'
    BY <2>1, <2>2, <2>5
  <2>6. CASE DeleteHistory
    BY <2>5, <2>6 DEF DeleteHistory, Command
  <2> QED
    BY <1>5, <2>3, <2>4, <2>6
<1>6. CASE Disconnect
  BY <1>6 DEF Disconnect, storeVars
<1>7. CASE Serve
  <2>1. CASE StoreMark
    BY <2>1 DEF StoreMark, Writing, Write
  <2>2. CASE MarkStored
    BY <2>2 DEF MarkStored, Writing, storeVars
  <2>3. CASE HistoryCreated
    BY <2>3 DEF HistoryCreated
  <2>4. CASE HistoryRemoved
    BY <2>4 DEF HistoryRemoved
  <2>5. CASE HistoryDeleted
    BY <2>5 DEF HistoryDeleted, HistoryAfterDelete
  <2>6. CASE LoadReads
    BY <2>6 DEF LoadReads
  <2>7. CASE LoadForgets \/ LoadRecalls \/ LoadEnds
    BY <2>7 DEF LoadForgets, LoadRecalls, LoadEnds, clientVars, storeVars
  <2> QED
    BY <1>7, <2>1, <2>2, <2>3, <2>4, <2>5, <2>6, <2>7 DEF Serve
<1>8. ASSUME NEW t \in Turns, Advance(t) \/ StreamEnds(t) PROVE OInv'
  BY <1>8, TurnsStore, TurnKeeps
<1>9. ASSUME NEW w \in writes, WriteLands(w) PROVE OInv'
  BY <1>9 DEF WriteLands, clientVars
<1>10. ASSUME NEW w \in writes, WriteFails(w) PROVE OInv'
  BY <1>10 DEF WriteFails, Idle
<1>11. CASE Done
  BY <1>11 DEF Done, vars, clientVars, storeVars
<1> QED
  BY <1>1, <1>2, <1>3, <1>4, <1>5, <1>6, <1>7, <1>8, <1>9, <1>10, <1>11 DEF Next

\* Between two messages of the client the current history is its own.
THEOREM HistoryIsOwned == Spec => []CurrentHistoryIsOwned
<1>1. Init => OInv
  BY DEF Init, OInv, OwnWrites, OwnedOrBeingDeleted
<1>2. OInv => CurrentHistoryIsOwned
  BY DEF OInv, OwnedOrBeingDeleted, CurrentHistoryIsOwned, Idle
<1> QED
  BY <1>1, <1>2, OwnershipKept, PTL DEF Spec

------------------------------------------------------------------------------
(***************************************************************************)
(* Turns, histories and memory.  One inductive invariant carries the       *)
(* types and what is said of answers, questions, marks and spoken texts.   *)
(***************************************************************************)

\* What store_message is called with: a question is never a mark, and an
\* answer is the model's, to a turn there is.
Storable ==
    {m \in Entries({"human", "ai", "system"}) :
        /\ m.role = "human" => m.form \in {"asked", "empty"} /\ m.turn \in Turns
        /\ m.form = "reply" => m.role = "ai" /\ m.turn \in Turns}

\* The rest of the types: TypeOK says nothing of load, and not which handlers
\* have a history.
MoreTypes ==
    /\ events \in 0 .. MaxEvents
    /\ chats \in Nat
    /\ files \in [Histories -> Seq(Storable) \cup {Missing}]
    /\ load \in Seq(Storable)
    /\ \A w \in writes : w.message \in Storable
    /\ serving[1] \in {"creating", "reading", "forgetting", "recalling",
                       "deleting", "deleted"} => serving[2] \in Histories
    /\ serving[1] = "storing_heard" => historyUid # 0

\* Turns are created one after another, a cancellation is under way only in a
\* turn that runs, and what was cut off is being cancelled or over.
TurnsInv ==
    /\ \A t, u \in Turns : u < t /\ phase[t] # "none" => phase[u] # "none"
    /\ \A t \in doomed : phase[t] \notin Over
    /\ \A t \in unplayed : t \in Turns /\ (t \in doomed \/ phase[t] = "done")
    /\ unanswered \subseteq unplayed
    /\ \A t \in Turns :
          phase[t] \in {"hearing", "asking", "streaming"} => kind[t] # "speak"

\* A turn stores in the phases that wait for it, and a thread outlives it.
WritesInv ==
    \A w \in writes : w.by # Consumer =>
        /\ w.by \in Turns
        /\ phase[w.by] \in {"asking", "noting", "storing", "done"}

\* An answer that is kept belongs to a turn that was not cut off.
Given(m) ==
    m.form = "reply" =>
        /\ m.turn \in Turns
        /\ phase[m.turn] \in {"storing", "done"}
        /\ m.turn \notin unplayed

AnswersInv ==
    /\ \A h \in Histories : \A i \in DOMAIN Contents(h) : Given(Contents(h)[i])
    /\ \A i \in DOMAIN load : Given(load[i])
    /\ \A w \in writes :
          /\ Given(w.message)
          /\ w.message.form = "reply" => w.message.turn = w.by

\* An answer that is remembered has been streamed to its end.
Streamed(m) ==
    m.form = "reply" =>
        /\ m.turn \in Turns
        /\ phase[m.turn] \notin BeforeAnswer \cup {"none"}
        /\ m.turn \notin unanswered

RepliesInv == \A i \in DOMAIN memory : Streamed(memory[i])

\* While a question is on its way to a history, its turn has no answer.
QuestionsInv ==
    \A w \in writes : w.message.role = "human" =>
        /\ w.message.turn = w.by
        /\ phase[w.by] \in {"asking", "done"}
        /\ \A h \in Histories : ~Replied(Contents(h), w.by)
        /\ \A v \in writes : ~(v.message.form = "reply" /\ v.by = w.by)

\* Where the memory notes an interruption.
Marks == {i \in DOMAIN memory : memory[i] = Mark("user")}

\* ... which it is ready for once for each time the model is asked.
MarksInv ==
    Cardinality(Marks) + (IF interruptHandled THEN 0 ELSE 1) <= chats + 1

IInv ==
    /\ TypeOK /\ MoreTypes
    /\ HInv
    /\ TurnsInv /\ WritesInv
    /\ AnswersInv /\ RepliesInv
    /\ QuestionsInv /\ AskedBeforeAnswered
    /\ MarksInv
    /\ SpokenIsKnown

------------------------------------------------------------------------------
(***************************************************************************)
(* What a step does to the turns.                                          *)
(***************************************************************************)

\* A turn goes on from one phase to a later one, and stays what it is; it
\* begins to read a text when it notes it.
Moves(t) ==
    /\ t \notin doomed
    /\ phase[t] \notin Over
    /\ \E label \in Phases \ {"none", "created"} :
          /\ Goto(t, label)
          /\ label \in BeforeAnswer => phase[t] \in BeforeAnswer
          /\ label \in {"hearing", "asking", "streaming"} => kind'[t] # "speak"
          /\ phase[t] = "storing" => label = "done"
          /\ label \in Reading /\ kind'[t] = "speak" =>
                phase[t] \in Reading \/ memory' = WithMessage(Recalled(Spoken(t)))
    /\ phase[t] \in {"asking", "noting", "storing"} => ~Writing(t)
    /\ kind'[t] = "speak" => kind[t] = "speak"
    /\ kind' \in [Turns -> {"chat", "noise", "speak"}]
    /\ \A u \in Turns \ {t} : kind'[u] = kind[u]
    /\ UNCHANGED <<doomed, unanswered, unplayed>>

\* It is over: cancelled, collected or failed.
Ends(t) ==
    /\ phase[t] # "none"
    /\ Goto(t, "done")
    /\ doomed' = doomed \ {t}
    /\ UNCHANGED <<kind, unanswered, unplayed>>

\* The next turn is there.
Begins(k) ==
    /\ Newest < MaxTurns
    /\ phase' = [phase EXCEPT ![Newest + 1] = "created"]
    /\ kind' = [kind EXCEPT ![Newest + 1] = k]
    /\ UNCHANGED <<doomed, unanswered, unplayed>>

TurnStep ==
    \/ UNCHANGED <<phase, kind, doomed, unanswered, unplayed>>
    \/ \E k \in {"chat", "speak"} : Begins(k)
    \/ StopCurrent /\ UNCHANGED <<phase, kind>>
    \/ \E t \in Turns : Moves(t) \/ Ends(t)

\* Each step of a turn that is not cancelled moves it.
LEMMA TurnMoves ==
    ASSUME IInv, NEW t \in Turns,
           \/ StartChat(t) \/ StartVoice(t) \/ StartSpeak(t) \/ StartMute(t)
           \/ Transcribed(t) \/ TranscriptionFails(t) \/ Asked(t) \/ StreamEnds(t)
           \/ SpokenStored(t) \/ Synthesised(t) \/ Played(t) \/ ReplyStored(t)
    PROVE  Moves(t)
<1>0. /\ kind \in [Turns -> {"chat", "noise", "speak"}]
      /\ phase[t] \in {"hearing", "asking", "streaming"} => kind[t] # "speak"
  BY DEF IInv, TypeOK, TurnsInv
<1> USE DEF Moves, Runs, Over, Phases, BeforePlayed, BeforeAnswer, Reading, ghosts
<1>1. ASSUME NEW form \in {"asked", "empty"}, Ask(t, form), kind[t] # "speak",
             phase[t] \in {"created", "hearing"}, t \notin doomed,
             UNCHANGED <<doomed, unanswered, unplayed>>
      PROVE  Moves(t)
  <2>1. CASE historyUid = 0
    BY <1>0, <1>1, <2>1 DEF Ask, Chat
  <2>2. CASE historyUid # 0
    <3>1. /\ Goto(t, "asking")
          /\ kind' = [kind EXCEPT ![t] = "noise"] \/ kind' = kind
      BY <1>1, <2>2 DEF Ask
    <3>2. QED
      BY <1>0, <1>1, <3>1
  <2>3. QED
    BY <2>1, <2>2
<1>2. CASE StartChat(t)
  BY <1>1, <1>2 DEF StartChat
<1>3. CASE StartVoice(t)
  BY <1>0, <1>3 DEF StartVoice
<1>4. CASE StartSpeak(t) \/ StartMute(t)
  BY <1>0, <1>4 DEF StartSpeak, StartMute, Voiced, RememberSpoken, Remember
<1>5. CASE Transcribed(t)
  BY <1>0, <1>1, <1>5 DEF Transcribed
<1>6. CASE Asked(t)
  <2>1. /\ Goto(t, "streaming") /\ phase[t] = "asking" /\ t \notin doomed
        /\ ~Writing(t)
        /\ kind' = [kind EXCEPT ![t] = "chat"]
        /\ UNCHANGED <<doomed, unanswered, unplayed>>
    BY <1>6 DEF Asked, Chat
  <2>2. QED
    BY <1>0, <2>1
<1>7. CASE StreamEnds(t)
  BY <1>0, <1>7 DEF StreamEnds, StoreReply
<1>8. CASE SpokenStored(t) \/ Synthesised(t) \/ ReplyStored(t)
  BY <1>0, <1>8 DEF SpokenStored, Voiced, Synthesised, ReplyStored
<1>9. CASE Played(t)
  BY <1>0, <1>9 DEF Played, StoreReply
<1>10. CASE TranscriptionFails(t)
  BY <1>0, <1>10 DEF TranscriptionFails
<1> QED
  BY <1>2, <1>3, <1>4, <1>5, <1>6, <1>7, <1>8, <1>9, <1>10

\* Every step does one of these things to the turns.
LEMMA TurnSteps == IInv /\ [Next]_vars => TurnStep
<1> SUFFICES ASSUME IInv, [Next]_vars PROVE TurnStep
  OBVIOUS
<1> USE DEF TurnStep
<1>1. CASE UNCHANGED vars
  BY <1>1 DEF vars, clientVars, ghosts
<1>2. CASE TextInput \/ SpeakText
  BY <1>2 DEF TextInput, SpeakText, BeginTurn, Begins, ghosts
<1>3. ASSUME NEW form \in {"heard", "empty"}, Interrupt(form) PROVE TurnStep
  BY <1>3 DEF Interrupt
<1>4. CASE PlaybackComplete
  BY <1>4 DEF PlaybackComplete, clientVars, ghosts
<1>5. CASE CreateNewHistory \/ FetchHistory \/ DeleteHistory
  BY <1>5 DEF CreateNewHistory, FetchHistory, DeleteHistory, Command, ghosts
<1>6. CASE Disconnect
  BY <1>6 DEF Disconnect
<1>7. CASE Serve
  BY <1>7 DEF Serve, StoreMark, MarkStored, HistoryCreated, HistoryRemoved,
              HistoryDeleted, LoadReads, LoadForgets, LoadRecalls, LoadEnds,
              clientVars, ghosts
<1>8. ASSUME NEW t \in Turns, Advance(t) \/ StreamEnds(t) PROVE TurnStep
  <2>1. CASE CancelLands(t)
    BY <2>1 DEF CancelLands, Ends, IInv, TurnsInv, Over, ghosts
  <2>2. CASE Collected(t)
    BY <2>2 DEF Collected, Unreachable, Ends, IInv, TypeOK, ghosts
  <2> QED
    BY <1>8, <2>1, <2>2, TurnMoves DEF Advance
<1>9. ASSUME NEW w \in writes, WriteLands(w) PROVE TurnStep
  BY <1>9 DEF WriteLands, clientVars, ghosts
<1>10. ASSUME NEW w \in writes, WriteFails(w) PROVE TurnStep
  <2>1. CASE w.by = Consumer
    <3>1. w.by \notin doomed
      BY <2>1, TurnIsNotConsumer DEF IInv, TypeOK
    <3> QED
      BY <1>10, <2>1, <3>1 DEF WriteFails, ghosts
  <2>2. CASE w.by # Consumer
    BY <1>10, <2>2 DEF WriteFails, Ends, Goto, IInv, WritesInv, ghosts
  <2> QED
    BY <2>1, <2>2
<1>11. CASE Done
  BY <1>11 DEF Done, vars, clientVars, ghosts
<1> QED
  BY <1>1, <1>2, <1>3, <1>4, <1>5, <1>6, <1>7, <1>8, <1>9, <1>10, <1>11 DEF Next

------------------------------------------------------------------------------
(***************************************************************************)
(* What a step does to the histories.                                      *)
(***************************************************************************)

\* Turn t has its question, its answer or its text on the way to the current
\* history, and waits for it.
Questions(t) ==
    /\ phase[t] \in {"created", "hearing"}
    /\ Goto(t, "asking")
    /\ \E form \in {"asked", "empty"} : Store(t, Human(t, form))

Answers(t) ==
    /\ phase[t] \in {"streaming", "playback"}
    /\ t \notin doomed
    /\ Goto(t, "storing")
    /\ Store(t, Reply(t))

Notes(t) ==
    /\ phase[t] = "created"
    /\ Goto(t, "noting")
    /\ Store(t, Spoken(t))

StoreStep ==
    \/ UNCHANGED <<files, writes, load>>
    \/ /\ historyUid # 0
       /\ UNCHANGED <<files, load>>
       /\ \/ \E t \in Turns : Questions(t) \/ Answers(t) \/ Notes(t)
          \/ \E form \in {"heard", "empty"} :
                Store(Consumer, Message("ai", form, 0, current))
          \/ Store(Consumer, Mark("system"))
    \/ \E w \in writes : WriteLands(w)
    \/ \E w \in writes : writes' = writes \ {w} /\ UNCHANGED <<files, load>>
    \/ /\ \E h \in Histories : files' = [files EXCEPT ![h] = <<>>]
                            \/ files' = [files EXCEPT ![h] = Missing]
       /\ UNCHANGED <<writes, load>>
    \/ /\ load' = <<>> \/ \E h \in Histories : load' = Contents(h)
       /\ UNCHANGED <<files, writes>>
    \/ load # <<>> /\ load' = Tail(load) /\ UNCHANGED <<files, writes>>

\* A turn stores a question, an answer or a text, or nothing.
LEMMA TurnStoreSteps ==
    ASSUME IInv, NEW t \in Turns, Advance(t) \/ StreamEnds(t)
    PROVE  StoreStep
<1> USE DEF StoreStep, storeVars, Runs
<1>1. ASSUME NEW form \in {"asked", "empty"}, Ask(t, form),
             phase[t] \in {"created", "hearing"}, UNCHANGED <<files, load>>
      PROVE  StoreStep
  BY <1>1 DEF Ask, Questions
<1>2. ASSUME StoreReply(t), phase[t] \in {"streaming", "playback"}, t \notin doomed,
             UNCHANGED <<files, load>>
      PROVE  StoreStep
  BY <1>2 DEF StoreReply, Answers
<1>3. CASE StartChat(t)
  BY <1>1, <1>3 DEF StartChat
<1>4. CASE Transcribed(t)
  BY <1>1, <1>4 DEF Transcribed
<1>5. CASE StartSpeak(t)
  BY <1>5 DEF StartSpeak, Notes
<1>6. CASE StreamEnds(t)
  BY <1>2, <1>6 DEF StreamEnds
<1>7. CASE Played(t)
  BY <1>2, <1>7 DEF Played
<1>8. CASE StartVoice(t) \/ StartMute(t) \/ Asked(t) \/ SpokenStored(t)
  BY <1>8 DEF StartVoice, StartMute, Asked, SpokenStored
<1>9. CASE Synthesised(t) \/ ReplyStored(t) \/ CancelLands(t) \/ Collected(t)
  BY <1>9 DEF Synthesised, ReplyStored, CancelLands, Collected
<1>10. CASE TranscriptionFails(t)
  BY <1>10 DEF TranscriptionFails
<1> QED
  BY <1>3, <1>4, <1>5, <1>6, <1>7, <1>8, <1>9, <1>10 DEF Advance

\* Every step does one of these things to the histories.
LEMMA StoreSteps == IInv /\ [Next]_vars => StoreStep
<1> SUFFICES ASSUME IInv, [Next]_vars PROVE StoreStep
  OBVIOUS
<1>0. serving[1] \in {"creating", "reading", "forgetting", "recalling",
                      "deleting", "deleted"} => serving[2] \in Histories
  BY DEF IInv, MoreTypes
<1> USE DEF StoreStep, storeVars
<1>1. CASE UNCHANGED vars
  BY <1>1 DEF vars
<1>2. CASE TextInput \/ SpeakText
  BY <1>2 DEF TextInput, SpeakText, BeginTurn
<1>3. ASSUME NEW form \in {"heard", "empty"}, Interrupt(form) PROVE StoreStep
  BY <1>3 DEF Interrupt, Store
<1>4. CASE PlaybackComplete \/ Disconnect
  BY <1>4 DEF PlaybackComplete, Disconnect
<1>5. CASE CreateNewHistory \/ FetchHistory \/ DeleteHistory
  BY <1>5 DEF CreateNewHistory, FetchHistory, DeleteHistory, Command
<1>6. CASE Serve
  <2>1. CASE StoreMark
    BY <2>1 DEF StoreMark, Store, IInv, MoreTypes
  <2>2. CASE MarkStored \/ LoadForgets \/ LoadEnds \/ HistoryDeleted
    BY <2>2 DEF MarkStored, LoadForgets, LoadEnds, HistoryDeleted
  <2>3. CASE HistoryCreated
    BY <1>0, <2>3 DEF HistoryCreated
  <2>4. CASE HistoryRemoved
    BY <1>0, <2>4 DEF HistoryRemoved
  <2>5. CASE LoadReads
    BY <1>0, <2>5 DEF LoadReads
  <2>6. CASE LoadRecalls
    BY <2>6 DEF LoadRecalls
  <2> QED
    BY <1>6, <2>1, <2>2, <2>3, <2>4, <2>5, <2>6 DEF Serve
<1>7. ASSUME NEW w \in writes, WriteLands(w) \/ WriteFails(w) PROVE StoreStep
  BY <1>7 DEF WriteFails
<1>8. CASE Done
  BY <1>8 DEF Done, vars
<1> QED
  BY <1>1, <1>2, <1>3, <1>4, <1>5, <1>6, <1>7, <1>8, TurnStoreSteps DEF Next

------------------------------------------------------------------------------
(***************************************************************************)
(* What a step does to the memory.                                         *)
(***************************************************************************)

\* Turn t asks the model, remembers its answer, or notes what it will say.
AsksModel(t) ==
    /\ \E form \in {"asked", "empty"} : BeginChat(Recalled(Human(t, form)))
    /\ chats' = chats + 1

RemembersReply(t) ==
    /\ memory' = WithMessage(Recalled(Reply(t)))
    /\ UNCHANGED <<interruptHandled, chats>>
    /\ phase[t] = "streaming" /\ t \notin doomed
    /\ phase'[t] \in {"synthesising", "storing", "done"}

NotesText(t) == RememberSpoken(t) /\ UNCHANGED chats

\* The thread that reloads the memory empties it, or recalls a message.
Empties ==
    /\ Forget
    /\ reloaded' = {t \in Turns : kind[t] = "speak" /\ phase[t] \in Reading}
    /\ UNCHANGED <<chats, phase, kind>>

Recalls == load # <<>> /\ Recall(Head(load)) /\ UNCHANGED chats

MemoryStep ==
    \/ UNCHANGED <<memoryVars, chats>>
    \/ \E t \in Turns : AsksModel(t) \/ RemembersReply(t) \/ NotesText(t)
    \/ \E form \in {"heard", "empty"} :
          HandleInterrupt(Message("ai", form, 0, current)) /\ UNCHANGED chats
    \/ Recalls
    \/ Empties

\* What a turn does to the memory.
LEMMA TurnMemorySteps ==
    ASSUME IInv, NEW t \in Turns, Advance(t) \/ StreamEnds(t)
    PROVE  MemoryStep /\ UNCHANGED reloaded
<1> USE DEF MemoryStep, memoryVars, ghosts, Runs
<1>1. ASSUME NEW form \in {"asked", "empty"}, Ask(t, form)
      PROVE  MemoryStep
  BY <1>1 DEF Ask, Chat, AsksModel
<1>2. CASE StartChat(t)
  BY <1>1, <1>2 DEF StartChat
<1>3. CASE Transcribed(t)
  BY <1>1, <1>3 DEF Transcribed
<1>4. CASE Asked(t)
  BY <1>4 DEF Asked, Chat, AsksModel
<1>5. CASE StartSpeak(t)
  BY <1>5 DEF StartSpeak, NotesText
<1>6. CASE StreamEnds(t)
  <2>1. \E label \in {"synthesising", "storing", "done"} : Goto(t, label)
    BY <1>6 DEF StreamEnds, StoreReply
  <2>2. phase'[t] \in {"synthesising", "storing", "done"}
    BY <2>1 DEF Goto, IInv, TypeOK
  <2> QED
    BY <1>6, <2>2 DEF StreamEnds, RemembersReply
<1>7. CASE StartVoice(t) \/ TranscriptionFails(t) \/ StartMute(t) \/ SpokenStored(t)
  BY <1>7 DEF StartVoice, TranscriptionFails, StartMute, SpokenStored
<1>8. CASE Synthesised(t) \/ Played(t) \/ ReplyStored(t) \/ CancelLands(t)
           \/ Collected(t)
  BY <1>8 DEF Synthesised, Played, ReplyStored, CancelLands, Collected
<1> QED
  BY <1>2, <1>3, <1>4, <1>5, <1>6, <1>7, <1>8 DEF Advance

\* Every step does one of these things to the memory, and notes what is being
\* read when it empties it.
LEMMA MemorySteps ==
    IInv /\ [Next]_vars => MemoryStep /\ (UNCHANGED reloaded \/ Empties)
<1> SUFFICES ASSUME IInv, [Next]_vars
             PROVE  MemoryStep /\ (UNCHANGED reloaded \/ Empties)
  OBVIOUS
<1> USE DEF MemoryStep, memoryVars, ghosts
<1>1. CASE UNCHANGED vars
  BY <1>1 DEF vars
<1>2. CASE TextInput \/ SpeakText
  BY <1>2 DEF TextInput, SpeakText, BeginTurn
<1>3. ASSUME NEW form \in {"heard", "empty"}, Interrupt(form)
      PROVE  MemoryStep /\ UNCHANGED reloaded
  BY <1>3 DEF Interrupt
<1>4. CASE PlaybackComplete \/ Disconnect
  BY <1>4 DEF PlaybackComplete, Disconnect
<1>5. CASE CreateNewHistory \/ FetchHistory \/ DeleteHistory
  BY <1>5 DEF CreateNewHistory, FetchHistory, DeleteHistory, Command
<1>6. CASE Serve
  <2>1. CASE LoadForgets
    BY <2>1 DEF LoadForgets, Empties
  <2>2. CASE LoadRecalls
    BY <2>2 DEF LoadRecalls, Recalls
  <2>3. CASE StoreMark \/ MarkStored \/ LoadReads \/ LoadEnds
    BY <2>3 DEF StoreMark, MarkStored, LoadReads, LoadEnds
  <2>4. CASE HistoryCreated \/ HistoryRemoved \/ HistoryDeleted
    BY <2>4 DEF HistoryCreated, HistoryRemoved, HistoryDeleted
  <2> QED
    BY <1>6, <2>1, <2>2, <2>3, <2>4 DEF Serve
<1>7. ASSUME NEW w \in writes, WriteLands(w) \/ WriteFails(w)
      PROVE  MemoryStep /\ UNCHANGED reloaded
  BY <1>7 DEF WriteLands, WriteFails
<1>8. CASE Done
  BY <1>8 DEF Done, vars
<1> QED
  BY <1>1, <1>2, <1>3, <1>4, <1>5, <1>6, <1>7, <1>8, TurnMemorySteps DEF Next

------------------------------------------------------------------------------
(***************************************************************************)
(* The operators of AgentMemory.                                           *)
(***************************************************************************)
Memory == Entries({"user", "assistant"})

\* A message is added at the end, or not at all.
LEMMA WithMessageAppends ==
    ASSUME NEW m
    PROVE  WithMessage(m) = memory \/ WithMessage(m) = Append(memory, m)
BY DEF WithMessage

\* An interrupt leaves every message in its place: only the last one, if it
\* is the assistant's, becomes what was heard of it; after it comes at most
\* what was heard, and then the mark.
LEMMA InterruptMarks ==
    ASSUME memory \in Seq(Memory), ~interruptHandled,
           NEW form \in {"heard", "empty"},
           current \in 0 .. MaxTurns,
           HandleInterrupt(Message("ai", form, 0, current))
    PROVE  \E n \in {Len(memory), Len(memory) + 1} :
              /\ memory' \in Seq(Memory)
              /\ Len(memory') = n + 1
              /\ memory'[n + 1] = Mark("user")
              /\ n = Len(memory) + 1 => memory'[n] =
                    Message("assistant", "heard", 0, current)
              /\ \A i \in 1 .. Len(memory) :
                    \/ memory'[i] = memory[i]
                    \/ /\ memory[i].role = "assistant"
                       /\ memory'[i] = [memory[i] EXCEPT !.form = "heard"]
<1> DEFINE heard == Message("ai", form, 0, current)
<1>1. memory' = Append(Corrected(heard), Mark("user"))
  BY DEF HandleInterrupt
<1>2. Mark("user") \in Memory
  BY ClientAssumption DEF Mark, Message, Memory, Entries, Forms
<1>3. CASE memory # <<>> /\ Last(memory).role = "assistant"
  <2>1. Corrected(heard) = [memory EXCEPT ![Len(memory)].form = "heard"]
    BY <1>3 DEF Corrected
  <2>2. /\ Len(memory) \in Nat \ {0}
        /\ memory[Len(memory)] \in Memory
        /\ memory[Len(memory)].role = "assistant"
    BY <1>3 DEF Last
  <2>3. [memory[Len(memory)] EXCEPT !.form = "heard"] \in Memory
    BY <2>2 DEF Memory, Entries, Forms
  <2>4. /\ Corrected(heard) \in Seq(Memory)
        /\ Len(Corrected(heard)) = Len(memory)
        /\ \A i \in 1 .. Len(memory) : Corrected(heard)[i] =
              IF i = Len(memory) THEN [memory[i] EXCEPT !.form = "heard"]
                                 ELSE memory[i]
    BY <2>1, <2>2, <2>3
  <2> QED
    BY <1>1, <1>2, <2>2, <2>4
<1>4. CASE ~(memory # <<>> /\ Last(memory).role = "assistant")
  <2>1. CASE form = "empty"
    <3>1. Corrected(heard) = memory
      BY <1>4, <2>1 DEF Corrected, Message
    <3> QED
      BY <1>1, <1>2, <3>1
  <2>2. CASE form = "heard"
    <3>1. Corrected(heard) = Append(memory, Message("assistant", "heard", 0, current))
      BY <1>4, <2>2 DEF Corrected, Message
    <3>2. Message("assistant", "heard", 0, current) \in Memory
      BY DEF Message, Memory, Entries, Forms
    <3> QED
      BY <1>1, <1>2, <3>1, <3>2
  <2> QED
    BY <2>1, <2>2
<1> QED
  BY <1>3, <1>4

------------------------------------------------------------------------------
(***************************************************************************)
(* Types and turns.                                                        *)
(***************************************************************************)

\* The turns so far are numbered from 1, so that the next number is free.
LEMMA NextTurnIsFresh ==
    ASSUME IInv
    PROVE  /\ Newest \in Nat
           /\ Created = 1 .. Newest
<1>1. MaxTurns \in Nat /\ Created \subseteq 1 .. MaxTurns
  BY ClientAssumption DEF Created, Turns
<1>2. \A t \in Created, u \in Turns : u < t => u \in Created
  BY DEF IInv, TurnsInv, Created
<1>3. IsFiniteSet(Created) /\ Newest \in Nat
  <2>1. IsFiniteSet(1 .. MaxTurns)
    BY <1>1, FS_Interval
  <2> QED
    BY <1>1, <2>1, FS_Subset, FS_CardinalityType DEF Newest
<1>4. \A n \in Nat : IsFiniteSet(1 .. n) /\ Cardinality(1 .. n) = n
  <2> SUFFICES ASSUME NEW n \in Nat
               PROVE  IsFiniteSet(1 .. n) /\ Cardinality(1 .. n) = n
    OBVIOUS
  <2>1. Cardinality(1 .. n) = IF 1 > n THEN 0 ELSE n - 1 + 1
    BY FS_Interval
  <2>2. IsFiniteSet(1 .. n)
    BY FS_Interval
  <2> QED
    BY <2>1, <2>2
<1>5. ASSUME NEW t \in Created
      PROVE  t <= Newest
  <2>1. t \in Nat /\ 1 .. t \subseteq Created
    BY <1>1, <1>2, <1>5 DEF Turns
  <2>2. Cardinality(1 .. t) <= Cardinality(Created)
    BY <1>3, <2>1, FS_Subset
  <2> QED
    BY <1>4, <2>1, <2>2 DEF Newest
<1>6. ASSUME NEW t \in 1 .. Newest, t \notin Created
      PROVE  FALSE
  <2>1. Newest <= MaxTurns
    <3>1. Cardinality(Created) <= Cardinality(1 .. MaxTurns)
      BY <1>1, <1>4, FS_Subset
    <3> QED
      BY <1>1, <1>4, <3>1 DEF Newest
  <2>2. t \in Turns
    BY <1>1, <1>3, <2>1 DEF Turns
  <2>3. Created \subseteq 1 .. (t - 1)
    BY <1>1, <1>2, <1>6, <2>2 DEF Turns
  <2>4. t - 1 \in Nat
    BY <1>3
  <2>5. Cardinality(Created) <= Cardinality(1 .. (t - 1))
    BY <1>4, <2>3, <2>4, FS_Subset
  <2> QED
    BY <1>3, <1>4, <2>4, <2>5 DEF Newest
<1>7. Created \subseteq 1 .. Newest
  BY <1>1, <1>3, <1>5
<1>8. 1 .. Newest \subseteq Created
  BY <1>6
<1> QED
  BY <1>3, <1>7, <1>8

\* What the steps of the turns keep of the turns.
LEMMA TurnsKept ==
    ASSUME IInv, TurnStep
    PROVE  /\ phase' \in [Turns -> Phases]
           /\ kind' \in [Turns -> {"chat", "noise", "speak"}]
           /\ doomed' \in SUBSET Turns
           /\ TurnsInv'
<1>0. /\ phase \in [Turns -> Phases]
      /\ kind \in [Turns -> {"chat", "noise", "speak"}]
      /\ doomed \in SUBSET Turns
      /\ TurnsInv
  BY DEF IInv, TypeOK
<1> USE DEF TurnsInv, Over
<1>1. CASE UNCHANGED <<phase, kind, doomed, unanswered, unplayed>>
  BY <1>0, <1>1
<1>2. ASSUME NEW k \in {"chat", "speak"}, Begins(k)
      PROVE  /\ phase' \in [Turns -> Phases]
             /\ kind' \in [Turns -> {"chat", "noise", "speak"}]
             /\ doomed' \in SUBSET Turns
             /\ TurnsInv'
  <2> DEFINE c == Newest + 1
  <2>1. c \in Turns /\ phase[c] = "none"
    BY <1>2, NextTurnIsFresh, ClientAssumption DEF Begins, Created, Turns
  <2>2. \A u \in Turns : u < c => phase[u] # "none"
    BY <1>2, NextTurnIsFresh, ClientAssumption DEF Created, Turns
  <2>3. \A u \in Turns : u < c \/ u = c \/ phase[u] = "none"
    BY NextTurnIsFresh, ClientAssumption DEF Created, Turns
  <2>4. /\ phase' = [phase EXCEPT ![c] = "created"]
        /\ kind' = [kind EXCEPT ![c] = k]
        /\ UNCHANGED <<doomed, unanswered, unplayed>>
    BY <1>2 DEF Begins
  <2> HIDE DEF c
  <2>5. /\ phase' \in [Turns -> Phases]
        /\ kind' \in [Turns -> {"chat", "noise", "speak"}]
    BY <1>0, <2>1, <2>4 DEF Phases, BeforePlayed, BeforeAnswer
  <2>6. /\ phase'[c] = "created"
        /\ \A u \in Turns \ {c} : phase'[u] = phase[u] /\ kind'[u] = kind[u]
    BY <1>0, <2>1, <2>4
  <2>7. ASSUME NEW t \in Turns, NEW u \in Turns, u < t, phase'[t] # "none"
        PROVE  phase'[u] # "none"
    <3>1. CASE t = c
      BY <1>0, <2>2, <2>6, <2>7, <3>1
    <3>2. CASE t # c
      BY <1>0, <2>6, <2>7, <3>2
    <3> QED
      BY <3>1, <3>2
  <2> QED
    BY <1>0, <2>1, <2>4, <2>5, <2>6, <2>7
<1>3. CASE StopCurrent /\ UNCHANGED <<phase, kind>>
  <2> DEFINE Stopped(phases) == {t \in {current} \cap Turns : phase[t] \in phases}
  <2>1. /\ doomed' = doomed \cup Stopped(Phases \ Over)
        /\ unanswered' = unanswered \cup Stopped(BeforeAnswer)
        /\ unplayed' = unplayed \cup Stopped(BeforePlayed)
    BY <1>3 DEF StopCurrent
  <2>2. Stopped(BeforeAnswer) \subseteq Stopped(BeforePlayed)
    BY DEF BeforePlayed
  <2>3. Stopped(BeforePlayed) \subseteq Stopped(Phases \ Over)
    BY DEF Phases, BeforePlayed, BeforeAnswer
  <2> QED
    BY <1>0, <1>3, <2>1, <2>2, <2>3
<1>4. ASSUME NEW t \in Turns, Moves(t)
      PROVE  /\ phase' \in [Turns -> Phases]
             /\ kind' \in [Turns -> {"chat", "noise", "speak"}]
             /\ doomed' \in SUBSET Turns
             /\ TurnsInv'
  <2>1. PICK label \in Phases \ {"none", "created"} :
           /\ phase' = [phase EXCEPT ![t] = label]
           /\ label \in {"hearing", "asking", "streaming"} => kind'[t] # "speak"
    BY <1>4 DEF Moves, Goto
  <2>2. /\ phase' \in [Turns -> Phases]
        /\ phase'[t] = label
        /\ \A u \in Turns \ {t} : phase'[u] = phase[u] /\ kind'[u] = kind[u]
    BY <1>0, <1>4, <2>1 DEF Moves
  <2>3. /\ UNCHANGED <<doomed, unanswered, unplayed>>
        /\ t \notin doomed /\ phase[t] \notin Over
        /\ kind' \in [Turns -> {"chat", "noise", "speak"}]
    BY <1>4 DEF Moves
  <2>4. t \notin unplayed
    BY <1>0, <2>3
  <2> QED
    BY <1>0, <2>1, <2>2, <2>3, <2>4
<1>5. ASSUME NEW t \in Turns, Ends(t)
      PROVE  /\ phase' \in [Turns -> Phases]
             /\ kind' \in [Turns -> {"chat", "noise", "speak"}]
             /\ doomed' \in SUBSET Turns
             /\ TurnsInv'
  <2>1. /\ phase' \in [Turns -> Phases]
        /\ phase'[t] = "done" /\ phase[t] # "none"
        /\ \A u \in Turns \ {t} : phase'[u] = phase[u]
    BY <1>0, <1>5 DEF Ends, Goto, Phases
  <2>2. doomed' = doomed \ {t} /\ UNCHANGED <<kind, unanswered, unplayed>>
    BY <1>5 DEF Ends
  <2> QED
    BY <1>0, <2>1, <2>2
<1> QED
  BY <1>1, <1>2, <1>3, <1>4, <1>5 DEF TurnStep

\* What a history can be given is an entry of one.
LEMMA StorableEntries ==
    /\ Storable \subseteq Entries({"human", "ai", "system"})
    /\ Seq(Storable) \subseteq Seq(Entries({"human", "ai", "system"}))
    /\ \A t \in Turns, form \in {"asked", "empty"} : Human(t, form) \in Storable
    /\ \A t \in Turns : Reply(t) \in Storable /\ Spoken(t) \in Storable
    /\ \A turn \in 0 .. MaxTurns, form \in {"heard", "empty"} :
          Message("ai", form, 0, turn) \in Storable
    /\ Mark("system") \in Storable
<1>1. /\ \A t \in Turns : t \in Nat /\ t \in 0 .. MaxTurns /\ TextOf[t] \in Nat
      /\ 0 \in 0 .. MaxTurns
  BY ClientAssumption DEF Turns
<1>2. Storable \subseteq Entries({"human", "ai", "system"})
  BY DEF Storable
<1>3. \A t \in Turns, form \in {"asked", "empty"} : Human(t, form) \in Storable
  BY <1>1 DEF Human, Message, Storable, Entries, Forms
<1>4. \A t \in Turns : Reply(t) \in Storable /\ Spoken(t) \in Storable
  BY <1>1 DEF Reply, Spoken, Message, Storable, Entries, Forms
<1>5. \A turn \in 0 .. MaxTurns, form \in {"heard", "empty"} :
          Message("ai", form, 0, turn) \in Storable
  BY DEF Message, Storable, Entries, Forms
<1>6. Mark("system") \in Storable
  BY <1>1 DEF Mark, Message, Storable, Entries, Forms
<1> QED
  BY <1>2, <1>3, <1>4, <1>5, <1>6

\* A history is a sequence of such entries, also when its file is missing.
LEMMA ContentsTyped ==
    ASSUME IInv
    PROVE  \A h \in Histories : Contents(h) \in Seq(Storable)
<1> SUFFICES ASSUME NEW h \in Histories
             PROVE  Contents(h) \in Seq(Storable)
  OBVIOUS
<1>1. files[h] \in Seq(Storable) \cup {Missing}
  BY DEF IInv, MoreTypes
<1>2. <<>> \in Seq(Storable)
  OBVIOUS
<1> QED
  BY <1>1, <1>2 DEF Contents

\* What a step stores, and what comes of the histories.
StoreTypes ==
    /\ files \in [Histories -> Seq(Storable) \cup {Missing}]
    /\ load \in Seq(Storable)
    /\ \A w \in writes :
          /\ w.by \in 0 .. MaxTurns
          /\ w.uid \in Histories
          /\ w.message \in Storable

\* The steps of the histories keep their types.
LEMMA StoreTypesKept ==
    ASSUME IInv, StoreStep
    PROVE  StoreTypes'
<1>0. /\ StoreTypes /\ historyUid \in 0 .. MaxEvents /\ current \in 0 .. MaxTurns
      /\ Turns \subseteq 0 .. MaxTurns /\ Consumer \in 0 .. MaxTurns
  <2>1. historyUid \in 0 .. MaxEvents /\ current \in 0 .. MaxTurns
    BY DEF IInv, TypeOK
  <2>2. Turns \subseteq 0 .. MaxTurns /\ Consumer \in 0 .. MaxTurns
    BY ClientAssumption DEF Turns, Consumer
  <2>3. StoreTypes
    BY DEF IInv, TypeOK, MoreTypes, StoreTypes
  <2> QED
    BY <2>1, <2>2, <2>3
<1>1. ASSUME NEW by \in 0 .. MaxTurns, NEW m \in Storable, Store(by, m),
             historyUid # 0, UNCHANGED <<files, load>>
      PROVE  StoreTypes'
  <2>1. historyUid \in Histories
    BY <1>0, <1>1, ClientAssumption DEF Histories
  <2>2. /\ Write(by, m).by = by
        /\ Write(by, m).uid = historyUid
        /\ Write(by, m).message = m
    BY DEF Write
  <2>3. writes' = writes \cup {Write(by, m)}
    BY <1>1 DEF Store
  <2> QED
    BY <1>0, <1>1, <2>1, <2>2, <2>3 DEF StoreTypes
<1>2. CASE UNCHANGED <<files, writes, load>>
  BY <1>0, <1>2 DEF StoreTypes
<1>3. ASSUME NEW t \in Turns, Questions(t) \/ Answers(t) \/ Notes(t),
             historyUid # 0, UNCHANGED <<files, load>>
      PROVE  StoreTypes'
  BY <1>0, <1>1, <1>3, StorableEntries DEF Questions, Answers, Notes
<1>4. ASSUME NEW form \in {"heard", "empty"},
             Store(Consumer, Message("ai", form, 0, current)),
             historyUid # 0, UNCHANGED <<files, load>>
      PROVE  StoreTypes'
  BY <1>0, <1>1, <1>4, StorableEntries
<1>5. ASSUME Store(Consumer, Mark("system")), historyUid # 0,
             UNCHANGED <<files, load>>
      PROVE  StoreTypes'
  BY <1>0, <1>1, <1>5, StorableEntries
<1>6. ASSUME NEW w \in writes, WriteLands(w)
      PROVE  StoreTypes'
  <2>1. w.uid \in Histories /\ w.message \in Storable
    BY <1>0 DEF StoreTypes
  <2>2. /\ Append(Contents(w.uid), w.message) \in Seq(Storable)
        /\ <<w.message>> \in Seq(Storable)
    BY <2>1, ContentsTyped
  <2> QED
    BY <1>0, <1>6, <2>1, <2>2 DEF WriteLands, StoreTypes
<1>7. ASSUME NEW w \in writes, writes' = writes \ {w}, UNCHANGED <<files, load>>
      PROVE  StoreTypes'
  BY <1>0, <1>7 DEF StoreTypes
<1>8. ASSUME NEW h \in Histories,
             files' = [files EXCEPT ![h] = <<>>] \/ files' = [files EXCEPT ![h] = Missing],
             UNCHANGED <<writes, load>>
      PROVE  StoreTypes'
  <2>1. <<>> \in Seq(Storable)
    OBVIOUS
  <2> QED
    BY <1>0, <1>8, <2>1 DEF StoreTypes
<1>9. ASSUME load' = <<>> \/ \E h \in Histories : load' = Contents(h),
             UNCHANGED <<files, writes>>
      PROVE  StoreTypes'
  <2>1. <<>> \in Seq(Storable)
    OBVIOUS
  <2>2. load' \in Seq(Storable)
    BY <1>9, <2>1, ContentsTyped
  <2> QED
    BY <1>0, <1>9, <2>2 DEF StoreTypes
<1>10. ASSUME load # <<>>, load' = Tail(load), UNCHANGED <<files, writes>>
       PROVE  StoreTypes'
  BY <1>0, <1>10 DEF StoreTypes
<1> QED
  BY <1>2, <1>3, <1>4, <1>5, <1>6, <1>7, <1>8, <1>9, <1>10 DEF StoreStep

\* A write that is there after a step was there before, or is the one turn or
\* the consumer has just begun.
LEMMA NewWrites ==
    ASSUME IInv, StoreStep, NEW w \in writes'
    PROVE  \/ w \in writes
           \/ \E t \in Turns :
                 /\ Questions(t) \/ Answers(t) \/ Notes(t)
                 /\ w.by = t
           \/ w.by = Consumer
<1>1. \A by, m : Write(by, m).by = by
  BY DEF Write
<1> QED
  BY <1>1 DEF StoreStep, Questions, Answers, Notes, Store, WriteLands

\* Turns and threads keep to the phases in which something is stored.
LEMMA WritesKept ==
    ASSUME IInv, TurnStep, StoreStep
    PROVE  WritesInv'
<1>0. WritesInv /\ phase \in [Turns -> Phases]
  BY DEF IInv, TypeOK
<1>1. ASSUME NEW t \in Turns, Writing(t)
      PROVE  phase'[t] \in {"asking", "noting", "storing", "done"}
  <2>1. phase[t] \in {"asking", "noting", "storing", "done"}
    BY <1>0, <1>1, TurnIsNotConsumer DEF WritesInv, Writing
  <2>2. ~Moves(t)
    BY <1>1, <2>1 DEF Moves, Over
  <2>3. ASSUME NEW k, Begins(k)
        PROVE  phase'[t] = phase[t]
    <3>1. t # Newest + 1
      BY <2>1, NextTurnIsFresh, ClientAssumption DEF Created, Turns
    <3> QED
      BY <1>0, <2>3, <3>1 DEF Begins
  <2>4. ASSUME NEW u \in Turns, Moves(u) \/ Ends(u)
        PROVE  phase'[t] = phase[t] \/ phase'[t] = "done"
    BY <1>0, <2>2, <2>4 DEF Moves, Ends, Goto
  <2> QED
    BY <2>1, <2>3, <2>4 DEF TurnStep
<1>2. ASSUME NEW t \in Turns, Questions(t) \/ Answers(t) \/ Notes(t)
      PROVE  phase'[t] \in {"asking", "noting", "storing", "done"}
  BY <1>0, <1>2 DEF Questions, Answers, Notes, Goto
<1>3. ASSUME NEW w \in writes', w.by # Consumer
      PROVE  w.by \in Turns /\ phase'[w.by] \in {"asking", "noting", "storing", "done"}
  <2>1. CASE w \in writes
    BY <1>0, <1>1, <1>3, <2>1 DEF WritesInv, Writing
  <2>2. CASE w \notin writes
    BY <1>2, <1>3, <2>2, NewWrites
  <2> QED
    BY <2>1, <2>2
<1> QED
  BY <1>3 DEF WritesInv

------------------------------------------------------------------------------
(***************************************************************************)
(* Answers, questions and replies.                                         *)
(***************************************************************************)

\* No step takes an answer back.
LEMMA GivenStays ==
    ASSUME IInv, TurnStep, NEW m, Given(m)
    PROVE  Given(m)'
<1> SUFFICES ASSUME m.form = "reply"
             PROVE  phase'[m.turn] \in {"storing", "done"} /\ m.turn \notin unplayed'
  BY DEF Given
<1> DEFINE t == m.turn
<1>0. /\ t \in Turns /\ phase[t] \in {"storing", "done"} /\ t \notin unplayed
      /\ phase \in [Turns -> Phases]
  BY DEF Given, IInv, TypeOK
<1> HIDE DEF t
<1>1. CASE UNCHANGED <<phase, kind, doomed, unanswered, unplayed>>
  BY <1>0, <1>1 DEF t
<1>2. ASSUME NEW k, Begins(k)
      PROVE  phase'[t] = phase[t] /\ unplayed' = unplayed
  <2>1. t # Newest + 1
    BY <1>0, NextTurnIsFresh, ClientAssumption DEF Created, Turns
  <2> QED
    BY <1>0, <1>2, <2>1 DEF Begins
<1>3. CASE StopCurrent /\ UNCHANGED <<phase, kind>>
  <2>1. phase[t] \notin BeforePlayed
    BY <1>0 DEF BeforePlayed, BeforeAnswer
  <2>2. t \notin unplayed'
    BY <1>0, <1>3, <2>1 DEF StopCurrent
  <2> QED
    BY <1>0, <1>3, <2>2 DEF t
<1>4. ASSUME NEW u \in Turns, Moves(u) \/ Ends(u)
      PROVE  phase'[t] \in {"storing", "done"} /\ unplayed' = unplayed
  BY <1>0, <1>4 DEF Moves, Ends, Goto, Over
<1> QED
  BY <1>0, <1>1, <1>2, <1>3, <1>4 DEF TurnStep, t

\* No step takes back what was streamed.
LEMMA StreamedStays ==
    ASSUME IInv, TurnStep, NEW m, Streamed(m)
    PROVE  Streamed(m)'
<1> SUFFICES ASSUME m.form = "reply"
             PROVE  /\ phase'[m.turn] \notin BeforeAnswer \cup {"none"}
                    /\ m.turn \notin unanswered'
  BY DEF Streamed
<1> DEFINE t == m.turn
<1>0. /\ t \in Turns /\ phase[t] \notin BeforeAnswer \cup {"none"}
      /\ t \notin unanswered
      /\ phase \in [Turns -> Phases]
  BY DEF Streamed, IInv, TypeOK
<1> HIDE DEF t
<1>1. CASE UNCHANGED <<phase, kind, doomed, unanswered, unplayed>>
  BY <1>0, <1>1 DEF t
<1>2. ASSUME NEW k, Begins(k)
      PROVE  phase'[t] = phase[t] /\ unanswered' = unanswered
  <2>1. t # Newest + 1
    BY <1>0, NextTurnIsFresh, ClientAssumption DEF Created, Turns
  <2> QED
    BY <1>0, <1>2, <2>1 DEF Begins
<1>3. CASE StopCurrent /\ UNCHANGED <<phase, kind>>
  <2>1. t \notin unanswered'
    BY <1>0, <1>3 DEF StopCurrent
  <2> QED
    BY <1>0, <1>3, <2>1 DEF t
<1>4. ASSUME NEW u \in Turns, Moves(u) \/ Ends(u)
      PROVE  /\ phase'[t] \notin BeforeAnswer \cup {"none"}
             /\ unanswered' = unanswered
  BY <1>0, <1>4 DEF Moves, Ends, Goto, BeforeAnswer
<1> QED
  BY <1>0, <1>1, <1>2, <1>3, <1>4 DEF TurnStep, t

\* What was given has been streamed.
LEMMA GivenIsStreamed ==
    ASSUME IInv, NEW m, Given(m)
    PROVE  Streamed(m)
BY DEF IInv, TurnsInv, Given, Streamed, BeforeAnswer

\* What a turn stores is no answer, or one that may be kept.
LEMMA NewAnswers ==
    ASSUME IInv, TurnStep, NEW t \in Turns, Questions(t) \/ Answers(t) \/ Notes(t),
           NEW w \in writes', w \notin writes
    PROVE  /\ Given(w.message)'
           /\ w.message.form = "reply" => w.message.turn = w.by /\ Answers(t)
           /\ w.message.role = "human" => w.message.turn = w.by /\ Questions(t)
           /\ w.by = t
<1>0. TurnsInv /\ phase \in [Turns -> Phases]
  BY DEF IInv, TypeOK
<1>1. CASE Questions(t)
  <2>1. PICK form \in {"asked", "empty"} : Store(t, Human(t, form))
    BY <1>1 DEF Questions
  <2>2. w = Write(t, Human(t, form))
    BY <2>1 DEF Store
  <2>3. /\ w.by = t /\ w.message.form # "reply"
        /\ w.message.role = "human" /\ w.message.turn = t
    BY <2>2 DEF Write, Human, Message
  <2> QED
    BY <1>1, <2>3 DEF Given
<1>2. CASE Answers(t)
  <2>1. w = Write(t, Reply(t))
    BY <1>2 DEF Answers, Store
  <2>2. /\ w.by = t /\ w.message.turn = t
        /\ w.message.role # "human" /\ w.message.form = "reply"
    BY <2>1 DEF Write, Reply, Message
  <2>3. phase'[t] = "storing" /\ t \notin unplayed
    BY <1>0, <1>2 DEF Answers, Goto, TurnsInv
  <2>4. unplayed' = unplayed
    <3>1. phase'[t] # phase[t]
      BY <1>2, <2>3 DEF Answers
    <3> QED
      BY <3>1 DEF TurnStep, Begins, Moves, Ends
  <2> QED
    BY <1>2, <2>2, <2>3, <2>4 DEF Given
<1>3. CASE Notes(t)
  <2>1. w = Write(t, Spoken(t))
    BY <1>3 DEF Notes, Store
  <2>2. /\ w.by = t
        /\ w.message.role # "human" /\ w.message.form # "reply"
    BY <2>1 DEF Write, Spoken, Message
  <2> QED
    BY <2>2 DEF Given
<1> QED
  BY <1>1, <1>2, <1>3

\* Whatever a step adds to writes is the consumer's, and neither a question
\* nor an answer, or a turn's.
LEMMA WritesAdded ==
    ASSUME IInv, StoreStep, NEW w \in writes', w \notin writes
    PROVE  \/ \E t \in Turns : Questions(t) \/ Answers(t) \/ Notes(t)
           \/ /\ w.by = Consumer
              /\ w.message.role # "human" /\ w.message.form # "reply"
<1>1. ASSUME NEW form \in {"heard", "empty"},
             Store(Consumer, Message("ai", form, 0, current))
      PROVE  /\ w.by = Consumer
             /\ w.message.role # "human" /\ w.message.form # "reply"
  BY <1>1 DEF Store, Write, Message
<1>2. ASSUME Store(Consumer, Mark("system"))
      PROVE  /\ w.by = Consumer
             /\ w.message.role # "human" /\ w.message.form # "reply"
  BY <1>2 DEF Store, Write, Mark, Message
<1>3. ~UNCHANGED writes /\ ~(writes' \subseteq writes)
  OBVIOUS
<1> QED
  BY <1>1, <1>2, <1>3 DEF StoreStep, WriteLands

\* A history stays as it is, is emptied or removed, or gets one message more;
\* the message is its only one if the file could not be read.
LEMMA ContentsSteps ==
    ASSUME IInv, StoreStep, NEW h \in Histories
    PROVE  \/ Contents(h)' = Contents(h)
           \/ Contents(h)' = <<>>
           \/ \E w \in writes : /\ WriteLands(w)
                                /\ \/ Contents(h)' = Append(Contents(h), w.message)
                                   \/ Contents(h)' = <<w.message>>
<1>0. files \in [Histories -> Seq(Storable) \cup {Missing}]
  BY DEF IInv, MoreTypes
<1>1. CASE UNCHANGED files
  BY <1>1 DEF Contents
<1>2. ASSUME NEW w \in writes, WriteLands(w)
      PROVE  \/ Contents(h)' = Contents(h)
             \/ Contents(h)' = <<>>
             \/ Contents(h)' = Append(Contents(h), w.message)
             \/ Contents(h)' = <<w.message>>
  <2>1. w.uid \in Histories
    BY DEF IInv, TypeOK
  <2>2. \/ files' = [files EXCEPT ![w.uid] = Append(Contents(w.uid), w.message)]
        \/ files' = [files EXCEPT ![w.uid] = <<w.message>>]
    BY <1>2 DEF WriteLands
  <2>3. CASE h = w.uid
    <3>1. \/ files'[h] = Append(Contents(h), w.message)
          \/ files'[h] = <<w.message>>
      BY <1>0, <2>2, <2>3
    <3> QED
      BY <3>1 DEF Contents
  <2>4. CASE h # w.uid
    <3>1. files'[h] = files[h]
      BY <1>0, <2>1, <2>2, <2>4
    <3> QED
      BY <3>1 DEF Contents
  <2> QED
    BY <2>3, <2>4
<1>3. ASSUME NEW g \in Histories,
             files' = [files EXCEPT ![g] = <<>>] \/ files' = [files EXCEPT ![g] = Missing]
      PROVE  Contents(h)' = Contents(h) \/ Contents(h)' = <<>>
  <2>1. files'[h] \in {files[h], <<>>, Missing}
    BY <1>0, <1>3
  <2> QED
    BY <2>1 DEF Contents
<1> QED
  BY <1>1, <1>2, <1>3 DEF StoreStep

\* Only answers of turns that were not cut off are kept.
LEMMA AnswersKept ==
    ASSUME IInv, TurnStep, StoreStep
    PROVE  AnswersInv'
<1>0. /\ AnswersInv
      /\ \A h \in Histories : Contents(h) \in Seq(Storable)
      /\ load \in Seq(Storable)
  BY ContentsTyped DEF IInv, MoreTypes
<1>1. ASSUME NEW w \in writes'
      PROVE  Given(w.message)' /\ (w.message.form = "reply" => w.message.turn = w.by)
  <2>1. CASE w \in writes
    BY <1>0, <2>1, GivenStays DEF AnswersInv
  <2>2. CASE w \notin writes
    BY <2>2, NewAnswers, WritesAdded DEF Given
  <2> QED
    BY <2>1, <2>2
<1>2. ASSUME NEW h \in Histories, NEW i \in DOMAIN Contents(h)'
      PROVE  Given(Contents(h)[i])'
  <2>1. CASE Contents(h)' = Contents(h)
    <3>1. Given(Contents(h)[i])
      BY <1>0, <1>2, <2>1 DEF AnswersInv
    <3> QED
      BY <2>1, <3>1, GivenStays
  <2>2. ASSUME NEW w \in writes, Contents(h)' = Append(Contents(h), w.message)
        PROVE  Given(Contents(h)[i])'
    <3>1. CASE i \in DOMAIN Contents(h)
      <4>1. (Contents(h)[i])' = Contents(h)[i]
        BY <1>0, <2>2, <3>1
      <4>2. Given(Contents(h)[i])
        BY <1>0, <3>1 DEF AnswersInv
      <4> QED
        BY <4>1, <4>2, GivenStays
    <3>2. CASE i \notin DOMAIN Contents(h)
      <4>1. (Contents(h)[i])' = w.message
        BY <1>0, <1>2, <2>2, <3>2
      <4>2. Given(w.message)
        BY <1>0 DEF AnswersInv
      <4> QED
        BY <4>1, <4>2, GivenStays
    <3> QED
      BY <3>1, <3>2
  <2>3. CASE Contents(h)' = <<>>
    BY <1>2, <2>3
  <2>4. ASSUME NEW w \in writes, Contents(h)' = <<w.message>>
        PROVE  Given(Contents(h)[i])'
    <3>1. (Contents(h)[i])' = w.message
      BY <1>2, <2>4
    <3>2. Given(w.message)
      BY <1>0 DEF AnswersInv
    <3> QED
      BY <3>1, <3>2, GivenStays
  <2> QED
    BY <2>1, <2>2, <2>3, <2>4, ContentsSteps
<1>3. ASSUME NEW i \in DOMAIN load'
      PROVE  Given(load[i])'
  <2>1. CASE load' = load
    BY <1>0, <1>3, <2>1, GivenStays DEF AnswersInv
  <2>2. ASSUME NEW h \in Histories, load' = Contents(h)
        PROVE  Given(load[i])'
    BY <1>0, <1>3, <2>2, GivenStays DEF AnswersInv
  <2>3. CASE load # <<>> /\ load' = Tail(load)
    <3>1. i + 1 \in DOMAIN load /\ load'[i] = load[i + 1]
      BY <1>0, <1>3, <2>3
    <3> QED
      BY <1>0, <3>1, GivenStays DEF AnswersInv
  <2> QED
    BY <2>1, <2>2, <2>3 DEF StoreStep, WriteLands
<1> QED
  BY <1>1, <1>2, <1>3 DEF AnswersInv

\* A question on its way stays without an answer.
LEMMA QuestionsKept ==
    ASSUME IInv, TurnStep, StoreStep
    PROVE  QuestionsInv'
<1>0. /\ QuestionsInv /\ AnswersInv /\ phase \in [Turns -> Phases]
      /\ \A w \in writes : w.message \in Storable
      /\ \A h \in Histories : Contents(h) \in Seq(Storable)
  BY ContentsTyped DEF IInv, TypeOK, MoreTypes
<1> SUFFICES ASSUME NEW w \in writes', w.message.role = "human"
             PROVE  /\ w.message.turn = w.by
                    /\ phase'[w.by] \in {"asking", "done"}
                    /\ \A h \in Histories : ~Replied(Contents(h), w.by)'
                    /\ \A v \in writes' : ~(v.message.form = "reply" /\ v.by = w.by)
  BY DEF QuestionsInv
<1>1. CASE w \notin writes
  <2>1. PICK t \in Turns : Questions(t) \/ Answers(t) \/ Notes(t)
    BY <1>1, WritesAdded
  <2>2. w.by = t /\ w.message.turn = t /\ Questions(t)
    BY <1>1, <2>1, NewAnswers
  <2>3. phase'[t] = "asking"
    BY <1>0, <2>2 DEF Questions, Goto
  <2>4. AnswersInv'
    BY AnswersKept
  <2>5. \A h \in Histories : ~Replied(Contents(h), t)'
    BY <2>3, <2>4 DEF Replied, AnswersInv, Given
  <2>6. \A v \in writes' : ~(v.message.form = "reply" /\ v.by = t)
    BY <2>3, <2>4 DEF AnswersInv, Given
  <2> QED
    BY <2>2, <2>3, <2>5, <2>6
<1>2. CASE w \in writes
  <2> DEFINE t == w.by
  <2>1. /\ w.message.turn = t /\ t \in Turns
        /\ phase[t] \in {"asking", "done"}
        /\ Writing(t)
    BY <1>0, <1>2 DEF QuestionsInv, Storable, Writing
  <2>2. /\ \A h \in Histories : ~Replied(Contents(h), t)
        /\ \A v \in writes : ~(v.message.form = "reply" /\ v.by = t)
    BY <1>0, <1>2 DEF QuestionsInv
  <2> HIDE DEF t
  <2>3. phase'[t] \in {"asking", "done"}
    <3>1. ~Moves(t)
      BY <2>1 DEF Moves, Over
    <3>2. ASSUME NEW k, Begins(k)
          PROVE  phase'[t] = phase[t]
      <4>1. t # Newest + 1
        BY <2>1, NextTurnIsFresh, ClientAssumption DEF Created, Turns
      <4> QED
        BY <1>0, <2>1, <3>2, <4>1 DEF Begins
    <3>3. ASSUME NEW u \in Turns, Moves(u) \/ Ends(u)
          PROVE  phase'[t] = phase[t] \/ phase'[t] = "done"
      BY <1>0, <2>1, <3>1, <3>3 DEF Moves, Ends, Goto
    <3> QED
      BY <2>1, <3>2, <3>3 DEF TurnStep
  <2>4. ASSUME NEW h \in Histories
        PROVE  ~Replied(Contents(h), t)'
    <3>1. ASSUME NEW v \in writes, Contents(h)' = Append(Contents(h), v.message)
          PROVE  ~Replied(Contents(h), t)'
      <4>1. ~(v.message.form = "reply" /\ v.message.turn = t)
        BY <1>0, <2>2 DEF AnswersInv
      <4>2. \A i \in DOMAIN Contents(h) :
               ~(Contents(h)[i].form = "reply" /\ Contents(h)[i].turn = t)
        BY <2>2 DEF Replied
      <4>3. \A i \in DOMAIN Contents(h)' :
               \/ (Contents(h)[i])' = v.message
               \/ i \in DOMAIN Contents(h) /\ (Contents(h)[i])' = Contents(h)[i]
        BY <1>0, <3>1
      <4> QED
        BY <4>1, <4>2, <4>3 DEF Replied
    <3>2. CASE Contents(h)' = Contents(h)
      BY <2>2, <3>2 DEF Replied
    <3>3. CASE Contents(h)' = <<>>
      BY <3>3 DEF Replied
    <3>4. ASSUME NEW v \in writes, Contents(h)' = <<v.message>>
          PROVE  ~Replied(Contents(h), t)'
      <4>1. ~(v.message.form = "reply" /\ v.message.turn = t)
        BY <1>0, <2>2 DEF AnswersInv
      <4>2. \A i \in DOMAIN Contents(h)' : (Contents(h)[i])' = v.message
        BY <3>4
      <4> QED
        BY <4>1, <4>2 DEF Replied
    <3> QED
      BY <3>1, <3>2, <3>3, <3>4, ContentsSteps
  <2>5. ASSUME NEW v \in writes', v.message.form = "reply", v.by = t
        PROVE  FALSE
    <3>1. v \notin writes
      BY <2>2, <2>5
    <3>2. v.by # Consumer
      BY <2>1, <2>5, TurnIsNotConsumer
    <3>3. PICK u \in Turns : Questions(u) \/ Answers(u) \/ Notes(u)
      BY <3>1, <3>2, WritesAdded
    <3>4. Answers(t)
      BY <2>5, <3>1, <3>3, NewAnswers
    <3> QED
      BY <2>1, <3>4 DEF Answers
  <2> QED
    BY <2>1, <2>3, <2>4, <2>5 DEF t
<1> QED
  BY <1>1, <1>2

\* In a history the answers stay behind their questions.
LEMMA OrderKept ==
    ASSUME IInv, StoreStep
    PROVE  AskedBeforeAnswered'
<1>0. /\ QuestionsInv /\ AskedBeforeAnswered
      /\ \A w \in writes : w.message \in Storable
      /\ \A h \in Histories : Contents(h) \in Seq(Storable)
  BY ContentsTyped DEF IInv, MoreTypes
<1> SUFFICES ASSUME NEW h \in Histories,
                    NEW i \in DOMAIN Contents(h)', NEW j \in DOMAIN Contents(h)',
                    (Contents(h)[i].role)' = "human",
                    (Contents(h)[j].form)' = "reply",
                    (Contents(h)[i].turn = Contents(h)[j].turn)'
             PROVE  i < j
  BY DEF AskedBeforeAnswered
<1>1. CASE Contents(h)' = Contents(h)
  BY <1>0, <1>1 DEF AskedBeforeAnswered
<1>2. CASE Contents(h)' = <<>>
  BY <1>2
<1>3. ASSUME NEW w \in writes, Contents(h)' = Append(Contents(h), w.message)
      PROVE  i < j
  <2>0. Contents(h) \in Seq(Storable)
    BY <1>0
  <2>1. PICK n \in Nat :
           /\ i \in 1 .. n + 1 /\ j \in 1 .. n + 1
           /\ \A k \in 1 .. n :
                 k \in DOMAIN Contents(h) /\ (Contents(h)[k])' = Contents(h)[k]
           /\ (Contents(h)[n + 1])' = w.message
    <3>1. PICK n \in Nat : n = Len(Contents(h))
      BY <2>0
    <3> QED
      BY <1>3, <2>0, <3>1
  <2>2. CASE i \in 1 .. n /\ j \in 1 .. n
    BY <1>0, <2>1, <2>2 DEF AskedBeforeAnswered
  <2>3. CASE i \in 1 .. n /\ j = n + 1
    BY <2>1, <2>3
  <2>4. CASE i = n + 1 /\ j \in 1 .. n
    <3>1. w.message.role = "human" /\ Contents(h)[j].form = "reply"
          /\ w.message.turn = Contents(h)[j].turn
      BY <2>1, <2>4
    <3>2. Replied(Contents(h), w.by)
      BY <1>0, <2>1, <2>4, <3>1 DEF QuestionsInv, Replied
    <3> QED
      BY <1>0, <3>1, <3>2 DEF QuestionsInv
  <2>5. CASE i = n + 1 /\ j = n + 1
    BY <1>0, <2>1, <2>5 DEF Storable
  <2> QED
    BY <2>1, <2>2, <2>3, <2>4, <2>5
<1>4. ASSUME NEW w \in writes, Contents(h)' = <<w.message>>
      PROVE  i < j
  <2>1. (Contents(h)[i])' = w.message /\ (Contents(h)[j])' = w.message
    BY <1>4
  <2> QED
    BY <1>0, <2>1 DEF Storable
<1> QED
  BY <1>1, <1>2, <1>3, <1>4, ContentsSteps

------------------------------------------------------------------------------
(***************************************************************************)
(* The memory.                                                             *)
(***************************************************************************)

\* A step of the memory adds a message of a known kind at the end, or notes an
\* interruption, or empties it.
Adds(m) == memory' = memory \/ memory' = Append(memory, m)

\* What turns, reloads and interrupts add has the memory's types, and only an
\* interrupt adds a mark.
LEMMA MemoryAdds ==
    ASSUME IInv, MemoryStep
    PROVE  \/ UNCHANGED <<memoryVars, chats>>
           \/ \E m \in Memory :
                 /\ Adds(m) /\ m # Mark("user")
                 /\ \/ interruptHandled' = FALSE /\ chats' = chats + 1
                    \/ UNCHANGED <<interruptHandled, chats>>
                 /\ m.form = "reply" =>
                       \/ \E t \in Turns : RemembersReply(t) /\ m.turn = t
                       \/ Given(m)
           \/ /\ ~interruptHandled /\ interruptHandled'
              /\ chats' = chats
              /\ \E form \in {"heard", "empty"} :
                    HandleInterrupt(Message("ai", form, 0, current))
           \/ Empties
<1>0. /\ load \in Seq(Storable)
      /\ \A i \in DOMAIN load : Given(load[i])
      /\ \A t \in Turns : t \in Nat /\ t \in 0 .. MaxTurns /\ TextOf[t] \in Nat
  <2>1. load \in Seq(Storable) /\ \A i \in DOMAIN load : Given(load[i])
    BY DEF IInv, MoreTypes, AnswersInv
  <2>2. \A t \in Turns : t \in Nat /\ t \in 0 .. MaxTurns /\ TextOf[t] \in Nat
    BY ClientAssumption DEF Turns
  <2> QED
    BY <2>1, <2>2
<1>1. ASSUME NEW t \in Turns, AsksModel(t)
      PROVE  \E m \in Memory :
                /\ Adds(m) /\ m # Mark("user") /\ m.form # "reply"
                /\ interruptHandled' = FALSE /\ chats' = chats + 1
  <2>1. PICK form \in {"asked", "empty"} : BeginChat(Recalled(Human(t, form)))
    BY <1>1 DEF AsksModel
  <2> DEFINE m == Recalled(Human(t, form))
  <2>2. m = [role |-> "user", form |-> form, text |-> TextOf[t], turn |-> t]
    BY DEF Human, Message, Recalled
  <2>3. m \in Memory /\ m # Mark("user") /\ m.form # "reply"
    BY <1>0, <2>2 DEF Memory, Entries, Forms, Mark, Message
  <2>4. Adds(m) /\ interruptHandled' = FALSE /\ chats' = chats + 1
    BY <1>1, <2>1, WithMessageAppends DEF AsksModel, BeginChat, Adds
  <2> QED
    BY <2>3, <2>4
<1>2. ASSUME NEW t \in Turns, RemembersReply(t)
      PROVE  \E m \in Memory :
                /\ Adds(m) /\ m # Mark("user") /\ m.turn = t
                /\ UNCHANGED <<interruptHandled, chats>>
  <2> DEFINE m == Recalled(Reply(t))
  <2>1. m = [role |-> "assistant", form |-> "reply", text |-> t, turn |-> t]
    BY DEF Reply, Message, Recalled
  <2>2. m \in Memory /\ m # Mark("user") /\ m.turn = t
    BY <1>0, <2>1 DEF Memory, Entries, Forms, Mark, Message
  <2>3. Adds(m) /\ UNCHANGED <<interruptHandled, chats>>
    BY <1>2, WithMessageAppends DEF RemembersReply, Adds
  <2> QED
    BY <2>2, <2>3
<1>3. ASSUME NEW t \in Turns, NotesText(t)
      PROVE  \E m \in Memory :
                /\ Adds(m) /\ m # Mark("user") /\ m.form # "reply"
                /\ UNCHANGED <<interruptHandled, chats>>
  <2> DEFINE m == Recalled(Spoken(t))
  <2>1. m = [role |-> "assistant", form |-> "spoken", text |-> TextOf[t], turn |-> t]
    BY DEF Spoken, Message, Recalled
  <2>2. m \in Memory /\ m # Mark("user") /\ m.form # "reply"
    BY <1>0, <2>1 DEF Memory, Entries, Forms, Mark, Message
  <2>3. Adds(m) /\ UNCHANGED <<interruptHandled, chats>>
    BY <1>3, WithMessageAppends DEF NotesText, RememberSpoken, Remember, Adds
  <2> QED
    BY <2>2, <2>3
<1>4. ASSUME Recalls
      PROVE  \E m \in Memory :
                /\ Adds(m) /\ m # Mark("user")
                /\ UNCHANGED <<interruptHandled, chats>>
                /\ m.form = "reply" => Given(m)
  <2> DEFINE e == Head(load)
             m == Recalled(e)
  <2>1. e \in Storable /\ Given(e)
    BY <1>0, <1>4 DEF Recalls
  <2>2. m = [e EXCEPT !.role = IF e.role = "human" THEN "user" ELSE "assistant"]
    BY DEF Recalled
  <2>3. m \in Memory
    BY <2>1, <2>2 DEF Storable, Memory, Entries
  <2>4. m # Mark("user")
    BY <2>1, <2>2 DEF Storable, Entries, Mark, Message
  <2>5. m.form = e.form /\ m.turn = e.turn
    BY <2>1, <2>2 DEF Storable, Entries
  <2>6. Given(m)
    BY <2>1, <2>5 DEF Given
  <2>7. Adds(m) /\ UNCHANGED <<interruptHandled, chats>>
    BY <1>4 DEF Recalls, Recall, Adds
  <2> QED
    BY <2>3, <2>4, <2>6, <2>7
<1>5. ASSUME NEW form \in {"heard", "empty"},
             HandleInterrupt(Message("ai", form, 0, current)), UNCHANGED chats
      PROVE  \/ UNCHANGED <<memoryVars, chats>>
             \/ ~interruptHandled /\ interruptHandled'
  BY <1>5 DEF HandleInterrupt
<1> QED
  BY <1>1, <1>2, <1>3, <1>4, <1>5 DEF MemoryStep

\* The memory keeps its types.
LEMMA MemoryTyped ==
    ASSUME IInv, MemoryStep
    PROVE  memory' \in Seq(Memory) /\ interruptHandled' \in BOOLEAN /\ chats' \in Nat
<1>0. /\ memory \in Seq(Memory) /\ interruptHandled \in BOOLEAN /\ chats \in Nat
      /\ current \in 0 .. MaxTurns
  BY DEF IInv, TypeOK, MoreTypes, Memory
<1>1. CASE UNCHANGED <<memoryVars, chats>>
  BY <1>0, <1>1 DEF memoryVars
<1>2. ASSUME NEW m \in Memory, Adds(m),
             \/ interruptHandled' = FALSE /\ chats' = chats + 1
             \/ UNCHANGED <<interruptHandled, chats>>
      PROVE  memory' \in Seq(Memory) /\ interruptHandled' \in BOOLEAN /\ chats' \in Nat
  <2>1. memory' \in Seq(Memory)
    BY <1>0, <1>2 DEF Adds
  <2>2. chats' \in Nat
    BY <1>0, <1>2
  <2>3. interruptHandled' \in BOOLEAN
    BY <1>0, <1>2
  <2> QED
    BY <2>1, <2>2, <2>3
<1>3. ASSUME ~interruptHandled, interruptHandled', chats' = chats,
             NEW form \in {"heard", "empty"},
             HandleInterrupt(Message("ai", form, 0, current))
      PROVE  memory' \in Seq(Memory) /\ interruptHandled' \in BOOLEAN /\ chats' \in Nat
  <2>1. memory' \in Seq(Memory)
    BY <1>0, <1>3, InterruptMarks
  <2>2. interruptHandled' \in BOOLEAN
    BY <1>3 DEF HandleInterrupt
  <2> QED
    BY <1>0, <1>3, <2>1, <2>2
<1>4. CASE Empties
  <2>1. memory' = <<>> /\ interruptHandled' = interruptHandled /\ chats' = chats
    BY <1>4 DEF Empties, Forget
  <2> QED
    BY <1>0, <2>1
<1> QED
  BY <1>1, <1>2, <1>3, <1>4, MemoryAdds

\* What is remembered as an answer was streamed to its end.
LEMMA RepliesKept ==
    ASSUME IInv, TurnStep, MemoryStep
    PROVE  RepliesInv'
<1>0. /\ memory \in Seq(Memory) /\ current \in 0 .. MaxTurns
      /\ TurnsInv /\ RepliesInv
  BY DEF IInv, TypeOK, Memory
<1>2. ASSUME NEW i \in DOMAIN memory', i \in DOMAIN memory, memory'[i] = memory[i]
      PROVE  Streamed(memory[i])'
  BY <1>0, <1>2, StreamedStays DEF RepliesInv
<1>3. CASE UNCHANGED <<memoryVars, chats>>
  BY <1>2, <1>3 DEF memoryVars, RepliesInv
<1>4. ASSUME NEW m \in Memory, Adds(m),
             m.form = "reply" =>
                \/ \E t \in Turns : RemembersReply(t) /\ m.turn = t
                \/ Given(m)
      PROVE  RepliesInv'
  <2>1. Streamed(m)'
    <3>1. ASSUME NEW t \in Turns, RemembersReply(t), m.turn = t
          PROVE  Streamed(m)'
      <4>1. /\ phase[t] = "streaming" /\ t \notin doomed
            /\ phase'[t] \in {"synthesising", "storing", "done"}
        BY <3>1 DEF RemembersReply
      <4>2. t \notin unanswered
        BY <1>0, <4>1 DEF TurnsInv
      <4>3. unanswered' = unanswered
        BY <4>1 DEF TurnStep, Begins, Moves, Ends
      <4> QED
        BY <3>1, <4>1, <4>2, <4>3 DEF Streamed, BeforeAnswer
    <3>2. CASE Given(m)
      BY <3>2, GivenIsStreamed, StreamedStays
    <3>3. CASE m.form # "reply"
      BY <3>3 DEF Streamed
    <3> QED
      BY <1>4, <3>1, <3>2, <3>3
  <2>2. CASE memory' = memory
    BY <1>2, <2>2 DEF RepliesInv
  <2>3. CASE memory' = Append(memory, m)
    <3>1. \A i \in DOMAIN memory' :
             \/ i \in DOMAIN memory /\ memory'[i] = memory[i]
             \/ memory'[i] = m
      BY <1>0, <2>3
    <3> QED
      BY <1>2, <2>1, <3>1 DEF RepliesInv, Streamed
  <2> QED
    BY <1>4, <2>2, <2>3 DEF Adds
<1>5. ASSUME ~interruptHandled, NEW form \in {"heard", "empty"},
             HandleInterrupt(Message("ai", form, 0, current))
      PROVE  RepliesInv'
  <2>1. \A i \in DOMAIN memory' :
           \/ i \in DOMAIN memory /\ memory'[i] = memory[i]
           \/ memory'[i].form # "reply"
    <3>1. PICK n \in {Len(memory), Len(memory) + 1} :
              /\ memory' \in Seq(Memory)
              /\ Len(memory') = n + 1
              /\ memory'[n + 1] = Mark("user")
              /\ n = Len(memory) + 1 => memory'[n] =
                    Message("assistant", "heard", 0, current)
              /\ \A i \in 1 .. Len(memory) :
                    \/ memory'[i] = memory[i]
                    \/ /\ memory[i].role = "assistant"
                       /\ memory'[i] = [memory[i] EXCEPT !.form = "heard"]
      BY <1>0, <1>5, InterruptMarks
    <3>2. ASSUME NEW i \in 1 .. Len(memory), memory'[i] # memory[i]
          PROVE  memory'[i].form = "heard"
      <4>1. memory[i] \in Memory
        BY <1>0
      <4>2. [memory[i] EXCEPT !.form = "heard"].form = "heard"
        BY <4>1 DEF Memory, Entries
      <4> QED
        BY <3>1, <3>2, <4>2
    <3>3. memory'[n + 1].form = "mark"
      BY <3>1 DEF Mark, Message
    <3>4. n = Len(memory) + 1 => memory'[n].form = "heard"
      BY <3>1 DEF Message
    <3>5. \A i \in DOMAIN memory' :
             i \in 1 .. Len(memory) \/ i = n + 1 \/ (n = Len(memory) + 1 /\ i = n)
      BY <1>0, <3>1
    <3> QED
      BY <1>0, <3>2, <3>3, <3>4, <3>5
  <2> QED
    BY <1>2, <2>1 DEF RepliesInv, Streamed
<1>6. CASE Empties
  BY <1>6 DEF Empties, Forget, RepliesInv
<1> QED
  BY <1>3, <1>4, <1>5, <1>6, MemoryAdds

\* Every mark is paid for by a chat.
LEMMA MarksKept ==
    ASSUME IInv, MemoryStep
    PROVE  MarksInv'
<1>0. /\ memory \in Seq(Memory) /\ current \in 0 .. MaxTurns
      /\ chats \in Nat /\ MarksInv /\ interruptHandled \in BOOLEAN
  BY DEF IInv, TypeOK, MoreTypes, Memory
<1>1. IsFiniteSet(Marks) /\ Cardinality(Marks) \in Nat
  <2>1. Marks \subseteq 1 .. Len(memory) /\ Len(memory) \in Nat
    BY <1>0 DEF Marks
  <2>2. IsFiniteSet(1 .. Len(memory))
    BY <2>1, FS_Interval
  <2> QED
    BY <2>1, <2>2, FS_Subset, FS_CardinalityType
<1>2. CASE UNCHANGED <<memoryVars, chats>>
  BY <1>0, <1>2 DEF memoryVars, MarksInv, Marks
<1>3. ASSUME NEW m \in Memory, Adds(m), m # Mark("user"),
             \/ interruptHandled' = FALSE /\ chats' = chats + 1
             \/ UNCHANGED <<interruptHandled, chats>>
      PROVE  MarksInv'
  <2>1. Marks' = Marks
    <3>1. CASE memory' = memory
      BY <3>1 DEF Marks
    <3>2. CASE memory' = Append(memory, m)
      <4>1. \A i : i \in DOMAIN memory' /\ memory'[i] = Mark("user")
                   <=> i \in DOMAIN memory /\ memory[i] = Mark("user")
        BY <1>0, <1>3, <3>2
      <4>2. Mark("user")' = Mark("user")
        BY DEF Mark, Message
      <4> QED
        BY <4>1, <4>2 DEF Marks
    <3> QED
      BY <1>3, <3>1, <3>2 DEF Adds
  <2>2. CASE interruptHandled' = FALSE /\ chats' = chats + 1
    BY <1>0, <1>1, <2>1, <2>2 DEF MarksInv
  <2>3. CASE UNCHANGED <<interruptHandled, chats>>
    BY <1>0, <1>1, <2>1, <2>3 DEF MarksInv
  <2> QED
    BY <1>3, <2>2, <2>3
<1>4. ASSUME ~interruptHandled, interruptHandled', chats' = chats,
             NEW form \in {"heard", "empty"},
             HandleInterrupt(Message("ai", form, 0, current))
      PROVE  MarksInv'
  <2>1. PICK n \in {Len(memory), Len(memory) + 1} :
              /\ memory' \in Seq(Memory)
              /\ Len(memory') = n + 1
              /\ memory'[n + 1] = Mark("user")
              /\ n = Len(memory) + 1 => memory'[n] =
                    Message("assistant", "heard", 0, current)
              /\ \A i \in 1 .. Len(memory) :
                    \/ memory'[i] = memory[i]
                    \/ /\ memory[i].role = "assistant"
                       /\ memory'[i] = [memory[i] EXCEPT !.form = "heard"]
    BY <1>0, <1>4, InterruptMarks
  <2>2. Mark("user").role = "user" /\ Mark("user").form = "mark"
    BY DEF Mark, Message
  <2>3. ASSUME NEW i \in 1 .. Len(memory)
        PROVE  memory'[i] = Mark("user") <=> memory[i] = Mark("user")
    <3>1. memory[i] \in Memory
      BY <1>0
    <3>2. [memory[i] EXCEPT !.form = "heard"].role = memory[i].role
      BY <3>1 DEF Memory, Entries
    <3>3. memory'[i] = memory[i] \/ (memory[i].role = "assistant"
                                     /\ memory'[i].role = "assistant")
      BY <2>1, <3>2
    <3> QED
      BY <2>2, <3>3
  <2>4. n = Len(memory) + 1 => memory'[n] # Mark("user")
    BY <2>1, <2>2 DEF Message
  <2>5. Marks' = Marks \cup {n + 1}
    <3>1. Mark("user")' = Mark("user")
      BY DEF Mark, Message
    <3>2. DOMAIN memory' = 1 .. n + 1 /\ DOMAIN memory = 1 .. Len(memory)
      BY <1>0, <2>1
    <3>3. \A i : i \in 1 .. n + 1
             <=> (i \in 1 .. Len(memory) \/ i = n + 1 \/ (n = Len(memory) + 1 /\ i = n))
      BY <1>0, <2>1
    <3> QED
      BY <2>1, <2>3, <2>4, <3>1, <3>2, <3>3 DEF Marks
  <2>6. n + 1 \notin Marks
    BY <1>0 DEF Marks
  <2>7. Cardinality(Marks') = Cardinality(Marks) + 1
    BY <1>1, <2>5, <2>6, FS_AddElement
  <2> QED
    BY <1>0, <1>1, <1>4, <2>7 DEF MarksInv
<1>5. CASE Empties
  <2>1. Marks' = {}
    BY <1>5 DEF Empties, Forget, Marks
  <2>2. chats' = chats
    BY <1>5 DEF Empties
  <2> QED
    BY <1>0, <2>1, <2>2, FS_EmptySet DEF MarksInv
<1> QED
  BY <1>2, <1>3, <1>4, <1>5, MemoryAdds

\* The text of turn t is in the memory, as it was noted or as it was heard.
Knows(t, messages) ==
    \E i \in DOMAIN messages :
        /\ messages[i].role = "assistant"
        /\ messages[i].text = TextOf[t]
        /\ messages[i].form \in {"spoken", "heard"}

\* Only emptying the memory makes it forget a text.
LEMMA KnownStays ==
    ASSUME IInv, MemoryStep, ~Empties, NEW t \in Turns, Knows(t, memory)
    PROVE  Knows(t, memory')
<1>0. memory \in Seq(Memory) /\ current \in 0 .. MaxTurns
  BY DEF IInv, TypeOK, Memory
<1>1. PICK i \in 1 .. Len(memory) :
         /\ memory[i].role = "assistant"
         /\ memory[i].text = TextOf[t]
         /\ memory[i].form \in {"spoken", "heard"}
  BY <1>0 DEF Knows
<1>2. CASE UNCHANGED <<memoryVars, chats>>
  BY <1>2 DEF memoryVars
<1>3. ASSUME NEW m \in Memory, Adds(m)
      PROVE  Knows(t, memory')
  <2>1. i \in DOMAIN memory' /\ memory'[i] = memory[i]
    BY <1>0, <1>3 DEF Adds
  <2> QED
    BY <1>1, <2>1 DEF Knows
<1>4. ASSUME ~interruptHandled, NEW form \in {"heard", "empty"},
             HandleInterrupt(Message("ai", form, 0, current))
      PROVE  Knows(t, memory')
  <2>1. PICK n \in {Len(memory), Len(memory) + 1} :
              /\ memory' \in Seq(Memory)
              /\ Len(memory') = n + 1
              /\ \A j \in 1 .. Len(memory) :
                    \/ memory'[j] = memory[j]
                    \/ /\ memory[j].role = "assistant"
                       /\ memory'[j] = [memory[j] EXCEPT !.form = "heard"]
    BY <1>0, <1>4, InterruptMarks
  <2>2. i \in DOMAIN memory'
    BY <1>0, <2>1
  <2>3. memory[i] \in Memory
    BY <1>0
  <2>4. /\ [memory[i] EXCEPT !.form = "heard"].role = memory[i].role
        /\ [memory[i] EXCEPT !.form = "heard"].text = memory[i].text
        /\ [memory[i] EXCEPT !.form = "heard"].form = "heard"
    BY <2>3 DEF Memory, Entries
  <2>5. /\ memory'[i].role = "assistant"
        /\ memory'[i].text = TextOf[t]
        /\ memory'[i].form \in {"spoken", "heard"}
    BY <1>1, <2>1, <2>4
  <2> QED
    BY <2>2, <2>5 DEF Knows
<1> QED
  BY <1>2, <1>3, <1>4, MemoryAdds

\* Remembering a text puts it into the memory, or finds it there.
LEMMA NotedIsKnown ==
    ASSUME IInv, NEW t \in Turns, memory' = WithMessage(Recalled(Spoken(t)))
    PROVE  Knows(t, memory')
<1> DEFINE m == Recalled(Spoken(t))
<1>0. memory \in Seq(Memory)
  BY DEF IInv, TypeOK, Memory
<1>1. m = [role |-> "assistant", form |-> "spoken", text |-> TextOf[t], turn |-> t]
  BY DEF Spoken, Message, Recalled
<1>2. m.role = "assistant" /\ m.text = TextOf[t] /\ m.form = "spoken"
  BY <1>1
<1> HIDE DEF m
<1>3. CASE memory # <<>> /\ SameContent(Last(memory), m)
  <2>1. memory' = memory
    BY <1>2, <1>3 DEF WithMessage, m
  <2>2. Len(memory) \in DOMAIN memory /\ Last(memory) = memory[Len(memory)]
    BY <1>0, <1>3 DEF Last
  <2>3. /\ memory[Len(memory)].role = "assistant"
        /\ memory[Len(memory)].text = TextOf[t]
        /\ memory[Len(memory)].form \in {"spoken", "heard"}
    BY <1>2, <1>3, <2>2 DEF SameContent
  <2> QED
    BY <2>1, <2>2, <2>3 DEF Knows
<1>4. CASE ~(memory # <<>> /\ SameContent(Last(memory), m))
  <2>1. memory' = Append(memory, m)
    BY <1>2, <1>4 DEF WithMessage, m
  <2>2. Len(memory) + 1 \in DOMAIN memory' /\ memory'[Len(memory) + 1] = m
    BY <1>0, <2>1
  <2> QED
    BY <1>2, <2>2 DEF Knows
<1> QED
  BY <1>3, <1>4

\* A text that is read out is in the memory, unless the memory was emptied.
LEMMA SpokenKept ==
    ASSUME IInv, TurnStep, MemoryStep, UNCHANGED reloaded \/ Empties
    PROVE  SpokenIsKnown'
<1>0. /\ phase \in [Turns -> Phases]
      /\ kind \in [Turns -> {"chat", "noise", "speak"}]
      /\ \A t \in Turns :
            kind[t] = "speak" /\ phase[t] \in Reading /\ t \notin reloaded
               => Knows(t, memory)
  <2>1. SpokenIsKnown /\ phase \in [Turns -> Phases]
        /\ kind \in [Turns -> {"chat", "noise", "speak"}]
    BY DEF IInv, TypeOK
  <2> QED
    BY <2>1 DEF SpokenIsKnown, Knows
<1>1. SUFFICES ASSUME NEW t \in Turns, kind'[t] = "speak", phase'[t] \in Reading,
                      t \notin reloaded'
               PROVE  Knows(t, memory')
  BY DEF SpokenIsKnown, Knows
<1>2. ~Empties /\ UNCHANGED reloaded
  BY <1>1 DEF Empties
<1>3. CASE kind[t] = "speak" /\ phase[t] \in Reading
  BY <1>0, <1>1, <1>2, <1>3, KnownStays
<1>4. CASE ~(kind[t] = "speak" /\ phase[t] \in Reading)
  <2>1. ~UNCHANGED <<phase, kind>>
    BY <1>1, <1>4
  <2>2. ASSUME NEW k \in {"chat", "speak"}, Begins(k)
        PROVE  FALSE
    <3>1. CASE t = Newest + 1
      BY <1>0, <1>1, <2>2, <3>1 DEF Begins, Reading
    <3>2. CASE t # Newest + 1
      BY <1>0, <1>1, <1>4, <2>2, <3>2 DEF Begins
    <3> QED
      BY <3>1, <3>2
  <2>3. ASSUME NEW u \in Turns, Moves(u)
        PROVE  Knows(t, memory')
    <3>1. CASE u # t
      BY <1>0, <1>1, <1>4, <2>3, <3>1 DEF Moves, Goto
    <3>2. CASE u = t
      <4>1. memory' = WithMessage(Recalled(Spoken(t)))
        BY <1>0, <1>1, <1>4, <2>3, <3>2 DEF Moves, Goto
      <4> QED
        BY <4>1, NotedIsKnown
    <3> QED
      BY <3>1, <3>2
  <2>4. ASSUME NEW u \in Turns, Ends(u)
        PROVE  FALSE
    BY <1>0, <1>1, <1>4, <2>4 DEF Ends, Goto, Reading
  <2> QED
    BY <2>1, <2>2, <2>3, <2>4 DEF TurnStep
<1> QED
  BY <1>3, <1>4

------------------------------------------------------------------------------
(***************************************************************************)
(* The consumer and the waiters.                                           *)
(***************************************************************************)
ConsumerTypes ==
    /\ connection \in {"open", "closed"}
    /\ serving \in Labels \X (0 .. MaxEvents)
    /\ current \in 0 .. MaxTurns
    /\ historyUid \in 0 .. MaxEvents
    /\ owned \in SUBSET Histories
    /\ events \in 0 .. MaxEvents
    /\ serving[1] \in {"creating", "reading", "forgetting", "recalling",
                       "deleting", "deleted"} => serving[2] \in Histories
    /\ serving[1] = "storing_heard" => historyUid # 0

\* What the consumer keeps has its types.
LEMMA ConsumerKept == IInv /\ [Next]_vars => ConsumerTypes'
<1> SUFFICES ASSUME IInv, [Next]_vars PROVE ConsumerTypes'
  OBVIOUS
<1>0. /\ ConsumerTypes /\ Newest \in Nat
      /\ MaxEvents \in Nat /\ MaxTurns \in Nat
      /\ \A h : h \in Histories <=> h \in 1 .. MaxEvents
  <2>1. ConsumerTypes
    BY DEF IInv, TypeOK, MoreTypes, ConsumerTypes
  <2>2. /\ MaxEvents \in Nat /\ MaxTurns \in Nat
        /\ \A h : h \in Histories <=> h \in 1 .. MaxEvents
    BY ClientAssumption DEF Histories
  <2> QED
    BY <2>1, <2>2, NextTurnIsFresh
<1>1. ASSUME UNCHANGED <<connection, serving, current, historyUid, owned, events>>
      PROVE  ConsumerTypes'
  BY <1>0, <1>1 DEF ConsumerTypes
<1>2. Idle \in Labels \X (0 .. MaxEvents) /\ Idle[1] = "idle"
  BY <1>0 DEF Idle, Labels
<1>3. CASE TextInput \/ SpeakText
  <2>1. /\ UNCHANGED <<connection, serving, historyUid, owned, events>>
        /\ current' = Newest + 1 /\ Newest < MaxTurns
    BY <1>3 DEF TextInput, SpeakText, BeginTurn, storeVars
  <2> QED
    BY <1>0, <2>1 DEF ConsumerTypes
<1>4. ASSUME NEW form \in {"heard", "empty"}, Interrupt(form) PROVE ConsumerTypes'
  <2>1. /\ UNCHANGED <<connection, current, historyUid, owned>>
        /\ events < MaxEvents /\ events' = events + 1
        /\ \/ UNCHANGED serving
           \/ historyUid # 0 /\ serving' = <<"storing_heard", 0>>
    BY <1>4 DEF Interrupt, StopCurrent
  <2>2. <<"storing_heard", 0>> \in Labels \X (0 .. MaxEvents)
    BY <1>0 DEF Labels
  <2> QED
    BY <1>0, <2>1, <2>2 DEF ConsumerTypes
<1>5. ASSUME NEW label \in {"creating", "reading", "deleting"}, NEW h \in Histories,
             Command(label, h), historyUid' \in owned \cup {historyUid},
             owned' \subseteq owned
      PROVE  ConsumerTypes'
  <2>1. /\ UNCHANGED <<connection, current>>
        /\ events < MaxEvents /\ events' = events + 1
        /\ serving' = <<label, h>>
    BY <1>5 DEF Command
  <2>2. <<label, h>> \in Labels \X (0 .. MaxEvents)
    BY <1>0, <1>5 DEF Labels
  <2> QED
    BY <1>0, <1>5, <2>1, <2>2 DEF ConsumerTypes
<1>6. CASE CreateNewHistory \/ FetchHistory \/ DeleteHistory
  <2>1. CASE CreateNewHistory
    <3>1. events + 1 \in Histories
      BY <1>0, <2>1 DEF CreateNewHistory, Command, ConsumerTypes
    <3> QED
      BY <1>5, <2>1, <3>1 DEF CreateNewHistory
  <2>2. \A h \in owned : h \in Histories
    BY <1>0 DEF ConsumerTypes
  <2>3. CASE FetchHistory
    BY <1>5, <2>2, <2>3 DEF FetchHistory
  <2>4. CASE DeleteHistory
    BY <1>5, <2>2, <2>4 DEF DeleteHistory
  <2> QED
    BY <1>6, <2>1, <2>3, <2>4
<1>7. CASE Disconnect
  BY <1>0, <1>7 DEF Disconnect, StopCurrent, storeVars, ConsumerTypes
<1>8. CASE Serve
  <2>1. ASSUME NEW label \in {"reading", "forgetting", "recalling", "deleted"},
               NEW h \in Histories, serving' = <<label, h>>,
               UNCHANGED <<connection, current>>,
               UNCHANGED <<historyUid, owned>>
                  \/ (historyUid' = h /\ owned' = owned \cup {h}),
               UNCHANGED events \/ (events < MaxEvents /\ events' = events + 1)
        PROVE  ConsumerTypes'
    <3>1. <<label, h>> \in Labels \X (0 .. MaxEvents)
      BY <1>0, <2>1 DEF Labels
    <3> QED
      BY <1>0, <2>1, <3>1 DEF ConsumerTypes
  <2>2. ASSUME serving' = Idle, UNCHANGED <<connection, current, owned>>,
               historyUid' \in {historyUid, 0},
               UNCHANGED events \/ (events < MaxEvents /\ events' = events + 1)
        PROVE  ConsumerTypes'
    BY <1>0, <1>2, <2>2 DEF ConsumerTypes
  <2>3. serving[1] \in {"creating", "reading", "forgetting", "recalling",
                        "deleting", "deleted"} => serving[2] \in Histories
    BY <1>0 DEF ConsumerTypes
  <2>4. CASE StoreMark
    <3>1. <<"storing_mark", 0>> \in Labels \X (0 .. MaxEvents)
      BY <1>0 DEF Labels
    <3> QED
      BY <1>0, <2>4, <3>1 DEF StoreMark, ConsumerTypes
  <2>5. CASE MarkStored
    BY <2>2, <2>5 DEF MarkStored, storeVars
  <2>6. CASE HistoryCreated
    BY <2>1, <2>2, <2>3, <2>6 DEF HistoryCreated
  <2>7. CASE HistoryRemoved
    BY <2>1, <2>3, <2>7 DEF HistoryRemoved
  <2>8. CASE HistoryDeleted
    BY <2>2, <2>8 DEF HistoryDeleted, HistoryAfterDelete
  <2>9. CASE LoadReads
    BY <2>1, <2>3, <2>9 DEF LoadReads
  <2>10. CASE LoadForgets
    BY <2>1, <2>3, <2>10 DEF LoadForgets, storeVars
  <2>11. CASE LoadRecalls
    BY <1>1, <2>11 DEF LoadRecalls, clientVars
  <2>12. CASE LoadEnds
    BY <2>2, <2>12 DEF LoadEnds, storeVars
  <2> QED
    BY <1>8, <2>4, <2>5, <2>6, <2>7, <2>8, <2>9, <2>10, <2>11, <2>12 DEF Serve
<1>9. ASSUME NEW t \in Turns, Advance(t) \/ StreamEnds(t) PROVE ConsumerTypes'
  <2> USE <1>1 DEF storeVars
  <2>0. CASE TranscriptionFails(t)
    BY <1>0, <2>0 DEF TranscriptionFails, ConsumerTypes
  <2>1. CASE StartChat(t) \/ StartVoice(t) \/ StartSpeak(t) \/ StartMute(t)
    BY <2>1 DEF StartChat, StartVoice, StartSpeak, StartMute
  <2>2. CASE Transcribed(t) \/ Asked(t) \/ StreamEnds(t) \/ SpokenStored(t)
    BY <2>2 DEF Transcribed, Asked, StreamEnds, SpokenStored
  <2>3. CASE Synthesised(t) \/ Played(t) \/ ReplyStored(t) \/ CancelLands(t)
             \/ Collected(t)
    BY <2>3 DEF Synthesised, Played, ReplyStored, CancelLands, Collected
  <2> QED
    BY <1>9, <2>0, <2>1, <2>2, <2>3 DEF Advance
<1>10. ASSUME NEW w \in writes, WriteLands(w) PROVE ConsumerTypes'
  <2>1. /\ UNCHANGED <<connection, serving, current, historyUid, owned>>
        /\ UNCHANGED events \/ (events < MaxEvents /\ events' = events + 1)
    BY <1>10 DEF WriteLands, clientVars
  <2> QED
    BY <1>0, <2>1 DEF ConsumerTypes
<1>11. ASSUME NEW w \in writes, WriteFails(w) PROVE ConsumerTypes'
  <2>1. /\ UNCHANGED <<connection, current, historyUid, owned>>
        /\ events < MaxEvents /\ events' = events + 1
        /\ serving' = Idle \/ serving' = serving
    BY <1>11 DEF WriteFails
  <2> QED
    BY <1>0, <1>2, <2>1 DEF ConsumerTypes
<1>12. CASE PlaybackComplete \/ Done \/ UNCHANGED vars
  BY <1>1, <1>12 DEF PlaybackComplete, Done, vars, clientVars, storeVars
<1> QED
  BY <1>3, <1>4, <1>6, <1>7, <1>8, <1>9, <1>10, <1>11, <1>12 DEF Next

\* The turns inside wait_for_response are those whose sentences are played.
PlayersWait == awaiting = {t \in Turns : phase[t] = "playback"}

\* A turn enters wait_for_response when its sentences are sent, and leaves it
\* however the playback ends.
LEMMA PlayersKept == IInv /\ [Next]_vars => PlayersWait'
<1> SUFFICES ASSUME IInv, [Next]_vars PROVE PlayersWait'
  OBVIOUS
<1>0. PlayersWait /\ phase \in [Turns -> Phases]
  BY DEF IInv, TypeOK, PlayersWait
<1> USE DEF PlayersWait
<1>1. ASSUME UNCHANGED <<phase, awaiting>> PROVE PlayersWait'
  BY <1>0, <1>1
<1>2. ASSUME NEW t \in Turns, NEW label \in Phases, Goto(t, label),
             UNCHANGED awaiting, phase[t] # "playback", label # "playback"
      PROVE  PlayersWait'
  BY <1>0, <1>2 DEF Goto
<1>3. ASSUME NEW t \in Turns, NEW label \in Phases, Goto(t, label),
             awaiting' = awaiting \ {t}, label # "playback"
      PROVE  PlayersWait'
  BY <1>0, <1>3 DEF Goto
<1>4. {"done", "storing", "noting", "synthesising", "hearing", "asking",
       "streaming", "created"} \subseteq Phases
  BY DEF Phases, BeforePlayed, BeforeAnswer, Over
<1>5. CASE TextInput \/ SpeakText
  <2>1. /\ phase' = [phase EXCEPT ![Newest + 1] = "created"]
        /\ UNCHANGED awaiting /\ Newest < MaxTurns
    BY <1>5 DEF TextInput, SpeakText, BeginTurn, handlerVars
  <2>2. Newest + 1 \in Turns /\ phase[Newest + 1] = "none"
    BY <2>1, NextTurnIsFresh, ClientAssumption DEF Created, Turns
  <2> QED
    BY <1>2, <1>4, <2>1, <2>2 DEF Goto
<1>6. ASSUME NEW form \in {"heard", "empty"}, Interrupt(form) PROVE PlayersWait'
  BY <1>1, <1>6 DEF Interrupt, handlerVars
<1>7. CASE PlaybackComplete \/ Disconnect
  BY <1>1, <1>7 DEF PlaybackComplete, Disconnect, HandleMessage, CleanupClient,
                    clientVars
<1>8. CASE CreateNewHistory \/ FetchHistory \/ DeleteHistory
  BY <1>1, <1>8 DEF CreateNewHistory, FetchHistory, DeleteHistory, Command,
                    handlerVars
<1>9. CASE Serve
  BY <1>1, <1>9 DEF Serve, StoreMark, MarkStored, HistoryCreated, HistoryRemoved,
                    HistoryDeleted, LoadReads, LoadForgets, LoadRecalls, LoadEnds,
                    clientVars, handlerVars
<1>10. ASSUME NEW t \in Turns, Advance(t) \/ StreamEnds(t) PROVE PlayersWait'
  <2>1. ASSUME UNCHANGED handlerVars, NEW label \in {"done", "storing", "noting",
                    "synthesising", "hearing", "asking", "streaming"},
               Goto(t, label), phase[t] # "playback"
        PROVE  PlayersWait'
    BY <1>2, <1>4, <2>1 DEF handlerVars
  <2>2. CASE StartChat(t)
    BY <2>1, <2>2 DEF StartChat, Runs, Ask, Chat
  <2>3. CASE Transcribed(t)
    BY <2>1, <2>3 DEF Transcribed, Runs, Ask, Chat
  <2>4. CASE StartVoice(t) \/ StartMute(t)
    BY <2>1, <2>4 DEF StartVoice, StartMute, Runs
  <2>5. CASE StartSpeak(t)
    BY <2>1, <2>5 DEF StartSpeak, Runs, Voiced
  <2>6. CASE Asked(t)
    BY <2>1, <2>6 DEF Asked, Runs, Chat
  <2>7. CASE SpokenStored(t)
    BY <2>1, <2>7 DEF SpokenStored, Runs, Voiced
  <2>8. CASE ReplyStored(t)
    BY <2>1, <2>8 DEF ReplyStored, Runs
  <2>9. CASE StreamEnds(t)
    BY <2>1, <2>9 DEF StreamEnds, Runs, StoreReply
  <2>10. CASE Synthesised(t)
    <3>1. /\ phase' = [phase EXCEPT ![t] = "playback"]
          /\ awaiting' = awaiting \cup {t}
      BY <2>10 DEF Synthesised, Goto, Wait
    <3> QED
      BY <1>0, <3>1
  <2>11. CASE Played(t)
    <3>1. awaiting' = awaiting \ {t}
      BY <2>11 DEF Played, Leave
    <3>2. Goto(t, "done") \/ Goto(t, "storing")
      BY <2>11 DEF Played, StoreReply
    <3> QED
      BY <1>3, <1>4, <3>1, <3>2
  <2>12. CASE CancelLands(t)
    <3>1. CASE t \in awaiting
      BY <1>3, <1>4, <2>12, <3>1 DEF CancelLands, Leave
    <3>2. CASE t \notin awaiting
      <4>1. phase[t] # "playback"
        BY <1>0, <3>2
      <4> QED
        BY <2>1, <2>12, <3>2, <4>1 DEF CancelLands
    <3> QED
      BY <3>1, <3>2
  <2>13. CASE Collected(t)
    BY <1>3, <1>4, <2>13 DEF Collected, Leave
  <2>14. CASE TranscriptionFails(t)
    BY <2>1, <2>14 DEF TranscriptionFails, Runs
  <2> QED
    BY <1>10, <2>2, <2>3, <2>4, <2>5, <2>6, <2>7, <2>8, <2>9, <2>10, <2>11,
       <2>12, <2>13, <2>14 DEF Advance
<1>11. ASSUME NEW w \in writes, WriteLands(w) PROVE PlayersWait'
  BY <1>1, <1>11 DEF WriteLands, clientVars, handlerVars
<1>12. ASSUME NEW w \in writes, WriteFails(w) PROVE PlayersWait'
  <2>1. CASE w.by = Consumer
    BY <1>1, <1>12, <2>1 DEF WriteFails, handlerVars
  <2>2. CASE w.by # Consumer
    \* A turn that plays has nothing on its way to a history.
    <3>1. w.by \in Turns /\ phase[w.by] # "playback"
      BY <2>2 DEF IInv, WritesInv
    <3>2. Goto(w.by, "done") /\ UNCHANGED awaiting
      BY <1>12, <2>2 DEF WriteFails, Goto, handlerVars
    <3> QED
      BY <1>2, <1>4, <3>1, <3>2
  <2> QED
    BY <2>1, <2>2
<1>13. CASE Done \/ UNCHANGED vars
  BY <1>1, <1>13 DEF Done, vars, clientVars, handlerVars
<1> QED
  BY <1>5, <1>6, <1>7, <1>8, <1>9, <1>10, <1>11, <1>12, <1>13 DEF Next

\* Whose wait has overlapped another's is still waiting.
LEMMA ContestedWait ==
    ASSUME IInv, HandlerStep
    PROVE  contested' \subseteq awaiting'
<1>0. contested \subseteq awaiting
  BY DEF IInv, TypeOK, HandlerTypeOK
<1>1. ASSUME NEW t \in Turns, Wait(t) PROVE contested' \subseteq awaiting'
  <2>1. CASE awaiting = {}
    BY <1>0, <1>1, <2>1 DEF Wait
  <2>2. CASE awaiting # {}
    BY <1>0, <1>1, <2>2 DEF Wait
  <2> QED
    BY <2>1, <2>2
<1>2. CASE UNCHANGED handlerVars \/ HandleMessage \/ CleanupClient
  BY <1>0, <1>2 DEF handlerVars, HandleMessage, CleanupClient
<1>3. ASSUME NEW t \in awaiting, Leave(t) PROVE contested' \subseteq awaiting'
  BY <1>0, <1>3 DEF Leave
<1> QED
  BY <1>1, <1>2, <1>3 DEF HandlerStep

------------------------------------------------------------------------------
(***************************************************************************)
(* The invariant of the connection, and what follows from it.              *)
(***************************************************************************)

\* It holds at the start.
LEMMA InitIInv == Init => IInv
<1> SUFFICES ASSUME Init PROVE IInv
  OBVIOUS
<1>0. MaxTurns \in Nat /\ MaxEvents \in Nat /\ 0 \notin Turns
  BY ClientAssumption DEF Turns
<1>1. /\ phase \in [Turns -> Phases]
      /\ \A t \in Turns : phase[t] = "none" /\ kind[t] = "chat"
      /\ kind \in [Turns -> {"chat", "noise", "speak"}]
  BY DEF Init, Phases, Over
<1>2. /\ files \in [Histories -> {Missing}]
      /\ \A h \in Histories : Contents(h) = <<>>
      /\ load = <<>> /\ writes = {} /\ memory = <<>>
  BY DEF Init, MemoryInit, Contents
<1>3. TypeOK /\ MoreTypes
  <2>1. serving \in Labels \X (0 .. MaxEvents) /\ serving[1] = "idle"
    BY <1>0 DEF Init, Idle, Labels
  <2>2. /\ connection = "open" /\ current = 0 /\ doomed = {} /\ historyUid = 0
        /\ owned = {} /\ events = 0 /\ chats = 0 /\ interruptHandled = FALSE
        /\ registered = NoWaiter /\ awaiting = {} /\ woken = {} /\ contested = {}
    BY DEF Init, MemoryInit, HandlerInit
  <2>3. <<>> \in Seq(Storable) /\ <<>> \in Seq(Entries({"user", "assistant"}))
    OBVIOUS
  <2>4. HandlerTypeOK /\ awaiting = {t \in Turns : phase[t] = "playback"}
    BY <1>1, <2>2 DEF HandlerTypeOK
  <2>5. TypeOK
    <3>1. files \in [Histories -> Seq(Entries({"human", "ai", "system"}))
                                     \cup {Missing}]
      BY <1>2
    <3>2. memory \in Seq(Entries({"user", "assistant"}))
      BY <1>2, <2>3
    <3>3. interruptHandled \in BOOLEAN /\ doomed \in SUBSET Turns
      BY <2>2
    <3>4. connection \in {"open", "closed"} /\ owned \in SUBSET Histories
      BY <2>2
    <3>5. current \in 0 .. MaxTurns /\ historyUid \in 0 .. MaxEvents
      BY <1>0, <2>2
    <3> QED
      BY <1>1, <1>2, <2>1, <2>4, <3>1, <3>2, <3>3, <3>4, <3>5 DEF TypeOK
  <2>6. MoreTypes
    BY <1>0, <1>2, <2>1, <2>2, <2>3 DEF MoreTypes
  <2> QED
    BY <2>5, <2>6
<1>4. HInv
  BY DEF Init, HandlerInit, HInv, RegisteredWaits, OverlapsNoted, LoneWaiterIsHeard
<1>5. TurnsInv
  BY <1>1 DEF Init, TurnsInv
<1>6. WritesInv /\ QuestionsInv
  BY <1>2 DEF WritesInv, QuestionsInv
<1>7. AnswersInv /\ RepliesInv
  BY <1>2 DEF AnswersInv, RepliesInv
<1>8. AskedBeforeAnswered
  BY <1>2 DEF AskedBeforeAnswered
<1>9. MarksInv
  <2>1. Marks = {} /\ chats = 0 /\ interruptHandled = FALSE
    BY <1>2 DEF Marks, Init, MemoryInit
  <2> QED
    BY <2>1, FS_EmptySet DEF MarksInv
<1>10. SpokenIsKnown
  BY <1>1 DEF SpokenIsKnown, Reading
<1> QED
  BY <1>3, <1>4, <1>5, <1>6, <1>7, <1>8, <1>9, <1>10 DEF IInv

\* Every step keeps it.
LEMMA NextIInv == IInv /\ [Next]_vars => IInv'
<1> SUFFICES ASSUME IInv, [Next]_vars PROVE IInv'
  OBVIOUS
<1>1. /\ TurnStep /\ StoreStep /\ MemoryStep
      /\ UNCHANGED reloaded \/ Empties
  BY TurnSteps, StoreSteps, MemorySteps
<1>2. HandlerStep /\ HInv'
  BY HandlerKeeps, StepsAreHandlerSteps DEF IInv
<1>3. TypeOK' /\ MoreTypes'
  <2>1. ConsumerTypes' /\ PlayersWait'
    BY ConsumerKept, PlayersKept
  <2>2. StoreTypes'
    BY <1>1, StoreTypesKept
  <2>3. /\ phase' \in [Turns -> Phases]
        /\ kind' \in [Turns -> {"chat", "noise", "speak"}]
        /\ doomed' \in SUBSET Turns
    BY <1>1, TurnsKept
  <2>4. memory' \in Seq(Memory) /\ interruptHandled' \in BOOLEAN /\ chats' \in Nat
    BY <1>1, MemoryTyped
  <2>5. HandlerTypeOK'
    <3>1. contested' \subseteq awaiting'
      BY <1>2, ContestedWait
    <3> QED
      BY <1>2, <3>1, ClientAssumption DEF HInv, RegisteredWaits, HandlerTypeOK
  <2>6. MoreTypes'
    BY <2>1, <2>2, <2>4 DEF MoreTypes, ConsumerTypes, StoreTypes
  <2>7. /\ files' \in [Histories -> Seq(Entries({"human", "ai", "system"}))
                                       \cup {Missing}]
        /\ \A w \in writes' : w.message \in Entries({"human", "ai", "system"})
    BY <2>2, StorableEntries DEF StoreTypes
  <2>8. TypeOK'
    BY <2>1, <2>2, <2>3, <2>4, <2>5, <2>7
       DEF TypeOK, ConsumerTypes, PlayersWait, StoreTypes, Memory
  <2> QED
    BY <2>6, <2>8
<1>4. TurnsInv' /\ WritesInv'
  BY <1>1, TurnsKept, WritesKept
<1>5. AnswersInv' /\ RepliesInv'
  BY <1>1, AnswersKept, RepliesKept
<1>6. QuestionsInv' /\ AskedBeforeAnswered'
  BY <1>1, QuestionsKept, OrderKept
<1>7. MarksInv' /\ SpokenIsKnown'
  BY <1>1, MarksKept, SpokenKept
<1> QED
  BY <1>2, <1>3, <1>4, <1>5, <1>6, <1>7 DEF IInv

\* The inductive invariant of a connection: types, turns, what is stored, what
\* is remembered (consumers.py, basic_memory_agent.py, message_handler.py).
THEOREM Invariance == Spec => []IInv
BY InitIInv, NextIInv, PTL DEF Spec

\* The variables have their types.
THEOREM TypeCorrect == Spec => []TypeOK
<1>1. IInv => TypeOK
  BY DEF IInv
<1> QED
  BY <1>1, Invariance, PTL

\* What an interrupt or the end of the connection has cut off is neither
\* remembered nor stored as an answer.
THEOREM CutOff == Spec => []CutOffStaysCutOff
<1>1. IInv => CutOffStaysCutOff
  <2> SUFFICES ASSUME IInv PROVE CutOffStaysCutOff
    OBVIOUS
  <2>1. RepliesInv /\ AnswersInv
    BY DEF IInv
  <2>2. ASSUME NEW t \in unanswered PROVE ~Replied(memory, t)
    BY <2>1, <2>2 DEF RepliesInv, Streamed, Replied
  <2>3. ASSUME NEW t \in unplayed, NEW h \in Histories
        PROVE  ~Replied(Contents(h), t)
    BY <2>1, <2>3 DEF AnswersInv, Given, Replied
  <2>4. ASSUME NEW t \in unplayed, NEW w \in writes
        PROVE  ~(w.message.form = "reply" /\ w.by = t)
    BY <2>1, <2>4 DEF AnswersInv, Given
  <2> QED
    BY <2>2, <2>3, <2>4 DEF CutOffStaysCutOff
<1> QED
  BY <1>1, Invariance, PTL

\* The memory notes at most one interruption for each time the model is asked.
THEOREM OneMark == Spec => []OneMarkPerChat
<1>1. IInv => OneMarkPerChat
  <2> SUFFICES ASSUME IInv PROVE OneMarkPerChat
    OBVIOUS
  <2>1. /\ Marks \subseteq 1 .. Len(memory) /\ Len(memory) \in Nat
        /\ chats \in Nat /\ MarksInv
    BY DEF IInv, TypeOK, MoreTypes, Marks
  <2>2. IsFiniteSet(1 .. Len(memory))
    BY <2>1, FS_Interval
  <2>3. Cardinality(Marks) \in Nat
    BY <2>1, <2>2, FS_Subset, FS_CardinalityType
  <2>4. Cardinality(Marks) <= chats + 1
    BY <2>1, <2>3 DEF MarksInv
  <2> QED
    BY <2>4 DEF Marks, OneMarkPerChat
<1> QED
  BY <1>1, Invariance, PTL

\* In every history the answer comes after the question.
THEOREM QuestionsComeFirst == Spec => []AskedBeforeAnswered
<1>1. IInv => AskedBeforeAnswered
  BY DEF IInv
<1> QED
  BY <1>1, Invariance, PTL

\* A text is in the memory while it is read out, unless the client has
\* replaced the memory meanwhile.
THEOREM SpokenTextKnown == Spec => []SpokenIsKnown
<1>1. IInv => SpokenIsKnown
  BY DEF IInv
<1> QED
  BY <1>1, Invariance, PTL
==============================================================================
