---------------------------- MODULE Engines_proofs ----------------------------
(***************************************************************************)
(* Proofs about Engines, for any number of connections, requests, uploads, *)
(* failing loads and chunks of audio: the engine is loaded once, the       *)
(* connections share what the first one found, and no audio is lost        *)
(* between two turns or heard twice.                                       *)
(***************************************************************************)
EXTENDS Engines, TLAPS

(***************************************************************************)
(* EngineOnce needs more than itself: whoever loads found no engine when it*)
(* looked the second time, and nobody can have loaded one since, because   *)
(* the lock is its own.                                                    *)
(***************************************************************************)
LoaderFoundNone == \A r \in Requests : job[r] = "loading" => ~engine

SpeechInv == TypeOK /\ LoaderFoundNone /\ EngineOnce

\* A voice was taken from the context when the connection opened.
VoiceTaken ==
    \A c \in Connections :
        /\ phase[c] = "new" => voice[c] = "none" /\ turns[c] = <<>>
        /\ phase[c] # "new" /\ voice[c] # "none" => voice[c] = default
        /\ phase[c] = "open" => voice[c] # "none"
        /\ \A i \in DOMAIN turns[c] : turns[c][i].text = "heard" => voice[c] = "loaded"

IInv == SpeechInv /\ VoiceTaken /\ EnginesShared
------------------------------------------------------------------------------
LEMMA InitIInv == Init => IInv
<1> SUFFICES ASSUME Init PROVE IInv
  OBVIOUS
<1> USE EngineAssumption DEF Init
<1>1. TypeOK
  <2>1. SocketTypes
    BY DEF SocketTypes
  <2>2. SpeechTypes
    BY DEF SpeechTypes
  <2>3. \A r \in Requests : ~(job[r] \in {"holding", "loading"}) /\ lock # r
    OBVIOUS
  <2> QED
    BY <2>1, <2>2, <2>3 DEF TypeOK
<1>2. LoaderFoundNone /\ EngineOnce
  BY DEF LoaderFoundNone, EngineOnce
<1>3. VoiceTaken /\ EnginesShared
  BY DEF VoiceTaken, EnginesShared
<1> QED
  BY <1>1, <1>2, <1>3 DEF IInv, SpeechInv
------------------------------------------------------------------------------
(* Requests to transcribe.                                                  *)

Places == Answers \cup {"new", "asking", "waiting", "holding", "loading", "ready",
                        "transcribing"}

\* The request r goes somewhere, and nobody else moves.
Moves(r, place) ==
    /\ job' \in [Requests -> Places]
    /\ job'[r] = place
    /\ \A q \in Requests : q # r => job'[q] = job[q]

LEMMA GotoMoves ==
    ASSUME SpeechTypes, NEW r \in Requests, NEW place \in Places, Goto(r, place)
    PROVE  Moves(r, place)
BY DEF SpeechTypes, Goto, Moves, Places

\* Before the lock is taken nothing is decided.
LEMMA PostSpeech ==
    ASSUME SpeechInv, NEW r \in Requests, Post(r) \/ Look(r)
    PROVE  SpeechInv'
<1> USE EngineAssumption DEF SpeechInv, TypeOK
<1>1. \E place \in Answers \cup {"asking", "ready", "waiting"} :
          Goto(r, place) /\ (place = "ready" => engine)
  BY DEF Post, Look, Complaint, Answers
<1>2. PICK place \in Answers \cup {"asking", "ready", "waiting"} :
          Goto(r, place) /\ (place = "ready" => engine)
  BY <1>1
<1>3. Moves(r, place)
  BY <1>2, GotoMoves DEF Places
<1>4. job[r] \in {"new", "asking"} /\ UNCHANGED <<socketVars, kind, engine, loads, lock, failures>>
  BY DEF Post, Look
<1>5. place \notin {"holding", "loading", "transcribing"}
  BY <1>2 DEF Answers
<1> HIDE DEF Goto
<1>6. SocketTypes' /\ SpeechTypes'
  BY <1>3, <1>4 DEF SocketTypes, SpeechTypes, socketVars, Moves, Places
<1> QED
  BY <1>2, <1>3, <1>4, <1>5, <1>6 DEF Moves, LoaderFoundNone, EngineOnce

LEMMA AcquireSpeech ==
    ASSUME SpeechInv, NEW r \in Requests, Acquire(r)
    PROVE  SpeechInv'
<1> USE EngineAssumption DEF SpeechInv, TypeOK
<1>1. Moves(r, "holding")
  BY GotoMoves DEF Acquire, Places
<1>2. /\ lock = Nobody /\ lock' = r
      /\ UNCHANGED <<socketVars, kind, engine, loads, failures>>
  BY DEF Acquire
<1>3. SocketTypes' /\ SpeechTypes'
  BY <1>1, <1>2 DEF SocketTypes, SpeechTypes, socketVars, Moves, Places
<1> QED
  BY <1>1, <1>2, <1>3 DEF Moves, LoaderFoundNone, EngineOnce

\* Who looks again under the lock is the only one to do so.
LEMMA LookAgainSpeech ==
    ASSUME SpeechInv, NEW r \in Requests, LookAgain(r)
    PROVE  SpeechInv'
<1> USE EngineAssumption DEF SpeechInv, TypeOK
<1>1. job[r] = "holding" /\ lock = r /\ UNCHANGED <<socketVars, kind, engine, loads, failures>>
  BY DEF LookAgain
<1>2. CASE engine
  <2>1. Moves(r, "ready") /\ lock' = Nobody
    BY <1>2, GotoMoves DEF LookAgain, Places
  <2>2. SocketTypes' /\ SpeechTypes'
    BY <1>1, <2>1 DEF SocketTypes, SpeechTypes, socketVars, Moves, Places
  <2> QED
    BY <1>1, <1>2, <2>1, <2>2 DEF Moves, LoaderFoundNone, EngineOnce
<1>3. CASE ~engine
  <2>1. Moves(r, "loading") /\ lock' = lock
    BY <1>3, GotoMoves DEF LookAgain, Places
  <2>2. SocketTypes' /\ SpeechTypes'
    BY <1>1, <2>1 DEF SocketTypes, SpeechTypes, socketVars, Moves, Places
  <2> QED
    BY <1>1, <1>3, <2>1, <2>2 DEF Moves, LoaderFoundNone, EngineOnce
<1> QED
  BY <1>2, <1>3

\* Nobody else loads, and there was no engine.
LEMMA LoadSpeech ==
    ASSUME SpeechInv, NEW r \in Requests, Load(r)
    PROVE  SpeechInv'
<1> USE EngineAssumption DEF SpeechInv, TypeOK
<1>1. Moves(r, "ready")
  BY GotoMoves DEF Load, Places
<1>2. /\ job[r] = "loading" /\ lock = r /\ lock' = Nobody
      /\ engine' = TRUE /\ loads' = loads + 1
      /\ UNCHANGED <<socketVars, kind, failures>>
  BY DEF Load
<1>3. ~engine /\ loads = 0
  BY <1>2 DEF LoaderFoundNone, EngineOnce
<1>4. SocketTypes' /\ SpeechTypes'
  <2>1. loads' \in Nat /\ engine' \in BOOLEAN /\ lock' \in Requests \cup {Nobody}
    BY <1>2 DEF SpeechTypes
  <2> QED
    BY <1>1, <1>2, <2>1 DEF SocketTypes, SpeechTypes, socketVars, Moves, Places
<1>5. LoaderFoundNone'
  BY <1>1, <1>2 DEF Moves, LoaderFoundNone
<1>6. EngineOnce'
  BY <1>1, <1>2, <1>3 DEF Moves, EngineOnce
<1> QED
  BY <1>1, <1>2, <1>4, <1>5, <1>6 DEF Moves

\* The lock is given back without an engine.
LEMMA LoadFailsSpeech ==
    ASSUME SpeechInv, NEW r \in Requests, LoadFails(r)
    PROVE  SpeechInv'
<1> USE EngineAssumption DEF SpeechInv, TypeOK
<1>1. Moves(r, "ASR_UNAVAILABLE")
  BY GotoMoves DEF LoadFails, Places, Answers
<1>2. /\ lock = r /\ lock' = Nobody
      /\ UNCHANGED <<socketVars, kind, engine, loads>>
  BY DEF LoadFails
<1>3. failures' \in 0 .. MaxFailures
  BY DEF LoadFails, LoadGoesWrong, Fail, SocketTypes
<1>4. SocketTypes' /\ SpeechTypes'
  BY <1>1, <1>2, <1>3 DEF SocketTypes, SpeechTypes, socketVars, Moves, Places
<1> QED
  BY <1>1, <1>2, <1>4 DEF Moves, LoaderFoundNone, EngineOnce

\* A local engine is used by one thread at a time.
LEMMA TranscribeSpeech ==
    ASSUME SpeechInv, NEW r \in Requests, BeginTranscribe(r) \/ EndTranscribe(r)
    PROVE  SpeechInv'
<1> USE EngineAssumption DEF SpeechInv, TypeOK
<1>1. PICK place \in {"transcribing", "OK", "ASR_FAILED"} :
          /\ Goto(r, place)
          /\ place = "transcribing" => BeginTranscribe(r)
  BY DEF BeginTranscribe, EndTranscribe
<1>2. Moves(r, place)
  BY <1>1, GotoMoves DEF Places, Answers
<1>3. /\ job[r] \in {"ready", "transcribing"}
      /\ UNCHANGED <<socketVars, kind, engine, loads, lock, failures>>
      /\ place = "transcribing" /\ kind = "local" => \A q \in Requests : job[q] # "transcribing"
  BY <1>1 DEF BeginTranscribe, EndTranscribe
<1> HIDE DEF Goto
<1>4. SocketTypes' /\ SpeechTypes'
  BY <1>2, <1>3 DEF SocketTypes, SpeechTypes, socketVars, Moves, Places
<1> QED
  BY <1>2, <1>3, <1>4 DEF Moves, LoaderFoundNone, EngineOnce

\* What a request does concerns no connection.
LEMMA RequestIInv ==
    ASSUME IInv, NEW r \in Requests, Post(r) \/ Work(r)
    PROVE  IInv'
<1>1. SpeechInv'
  BY PostSpeech, AcquireSpeech, LookAgainSpeech, LoadSpeech, LoadFailsSpeech,
     TranscribeSpeech DEF IInv, Work, GetEngine
<1>2. UNCHANGED socketVars
  BY DEF Work, GetEngine, Post, Look, Acquire, LookAgain, Load, LoadFails,
         BeginTranscribe, EndTranscribe, socketVars
<1>3. VoiceTaken' /\ EnginesShared'
  BY <1>2 DEF IInv, VoiceTaken, EnginesShared, socketVars
<1> QED
  BY <1>1, <1>3 DEF IInv
------------------------------------------------------------------------------
(* Connections.                                                             *)

\* What a connection does concerns no request.
LEMMA SpeechAlone == ASSUME SpeechInv, UNCHANGED speechVars, SocketTypes' PROVE SpeechInv'
BY DEF SpeechInv, speechVars, TypeOK, SpeechTypes, LoaderFoundNone, EngineOnce

\* A connection opens with the context there is, or builds the first one.
LEMMA ConnectIInv ==
    ASSUME IInv, NEW c \in Connections, Connect(c) \/ ConnectFails(c)
    PROVE  IInv'
<1> USE EngineAssumption DEF IInv
<1>1. SocketTypes
  BY DEF SpeechInv, TypeOK
<1>2. /\ default' \in {"none", "loaded", "failed"}
      /\ default # "none" => default' = default
      /\ failures' \in 0 .. MaxFailures
      /\ Connect(c) => default' # "none"
  BY <1>1 DEF Connect, ConnectFails, GetDefaultContext, LoadFromConfig,
                MakeRecognizer, ModelNotFound, LoadCache, Fail, SocketTypes
<1>3. /\ phase[c] = "new"
      /\ UNCHANGED <<sent, buffer, turns, speechVars>>
      /\ \/ Connect(c) /\ voice' = [voice EXCEPT ![c] = default']
                       /\ phase' = [phase EXCEPT ![c] = "open"]
         \/ UNCHANGED <<default, voice>> /\ phase' = [phase EXCEPT ![c] = "closed"]
                       /\ default = "none"
  BY DEF Connect, ConnectFails, LoadCache
<1>4. SocketTypes'
  BY <1>1, <1>2, <1>3 DEF SocketTypes
<1>5. VoiceTaken'
  <2>1. turns[c] = <<>>
    BY <1>3 DEF VoiceTaken
  <2>2. CASE Connect(c) /\ voice' = [voice EXCEPT ![c] = default']
                        /\ phase' = [phase EXCEPT ![c] = "open"]
    <3>1. voice'[c] = default' /\ phase'[c] = "open" /\ default' # "none"
      BY <1>1, <1>2, <2>2 DEF SocketTypes
    <3>2. \A d \in Connections : d # c => voice'[d] = voice[d] /\ phase'[d] = phase[d]
      BY <1>1, <2>2 DEF SocketTypes
    <3>3. \A d \in Connections :
             phase[d] # "new" /\ voice[d] # "none" => voice[d] = default'
      BY <1>1, <1>2 DEF SocketTypes, VoiceTaken
    <3> QED
      BY <1>3, <2>1, <3>1, <3>2, <3>3 DEF VoiceTaken
  <2>3. CASE UNCHANGED <<default, voice>> /\ default = "none"
             /\ phase' = [phase EXCEPT ![c] = "closed"]
    <3>1. phase'[c] = "closed" /\ \A d \in Connections : d # c => phase'[d] = phase[d]
      BY <1>1, <2>3 DEF SocketTypes
    <3>2. voice[c] = "none"
      BY <1>3 DEF VoiceTaken
    <3> QED
      BY <1>3, <2>1, <2>3, <3>1, <3>2 DEF VoiceTaken
  <2> QED
    BY <1>3, <2>2, <2>3
<1>6. EnginesShared'
  BY <1>1, <1>2, <1>3, <1>5 DEF SocketTypes, VoiceTaken, EnginesShared
<1> QED
  BY <1>3, <1>4, <1>5, <1>6, SpeechAlone

TurnType == [audio : Seq(1 .. MaxAudio), text : Texts]

LEMMA AudioDataIInv ==
    ASSUME IInv, NEW c \in Connections, AudioData(c)
    PROVE  IInv'
<1> USE EngineAssumption DEF IInv
<1>1. SocketTypes
  BY DEF SpeechInv, TypeOK
<1>2. sent[c] + 1 \in 1 .. MaxAudio
  <2>1. turns[c] \in Seq(TurnType)
    BY <1>1 DEF SocketTypes, TurnType
  <2>2. Len(turns[c]) \in Nat
    BY <2>1
  <2> QED
    BY <1>1, <2>2 DEF AudioData, SocketTypes
<1>3. /\ sent' = [sent EXCEPT ![c] = sent[c] + 1]
      /\ buffer' = [buffer EXCEPT ![c] = Append(buffer[c], sent[c] + 1)]
      /\ UNCHANGED <<default, phase, voice, turns, speechVars, failures>>
  BY <1>1 DEF AudioData, SocketTypes
<1>4. Append(buffer[c], sent[c] + 1) \in Seq(1 .. MaxAudio)
  BY <1>1, <1>2 DEF SocketTypes
<1>5. SocketTypes'
  <2>1. sent' \in [Connections -> 0 .. MaxAudio]
    BY <1>1, <1>2, <1>3 DEF SocketTypes
  <2>2. buffer' \in [Connections -> Seq(1 .. MaxAudio)]
    BY <1>1, <1>3, <1>4 DEF SocketTypes
  <2> QED
    BY <1>1, <1>3, <2>1, <2>2 DEF SocketTypes
<1> QED
  BY <1>3, <1>5, SpeechAlone DEF VoiceTaken, EnginesShared

\* A new turn has not been heard.
LEMMA AudioEndIInv ==
    ASSUME IInv, NEW c \in Connections, AudioEnd(c)
    PROVE  IInv'
<1> USE EngineAssumption DEF IInv
<1> DEFINE turn == Turn(buffer[c])
<1>1. SocketTypes
  BY DEF SpeechInv, TypeOK
<1>2. turn \in TurnType /\ turn.text = "pending"
  BY <1>1 DEF Turn, SocketTypes, Texts, TurnType
<1>3. turns[c] \in Seq(TurnType)
  BY <1>1 DEF SocketTypes, TurnType
<1>4. /\ turns' = [turns EXCEPT ![c] = Append(turns[c], turn)]
      /\ buffer' = [buffer EXCEPT ![c] = <<>>]
      /\ phase[c] = "open"
      /\ UNCHANGED <<default, phase, voice, sent, speechVars, failures>>
  BY DEF AudioEnd
<1> HIDE DEF turn
<1>5. Append(turns[c], turn) \in Seq(TurnType) /\ <<>> \in Seq(1 .. MaxAudio)
  BY <1>2, <1>3
<1>6. SocketTypes'
  BY <1>1, <1>4, <1>5 DEF SocketTypes, TurnType
<1>7. turns'[c] = Append(turns[c], turn)
  BY <1>1, <1>4 DEF SocketTypes
<1>8. \A i \in DOMAIN turns'[c] : turns'[c][i].text = "heard" =>
          i \in DOMAIN turns[c] /\ turns[c][i].text = "heard"
  BY <1>2, <1>3, <1>7
<1>9. VoiceTaken'
  <2>1. ASSUME NEW d \in Connections, d # c PROVE turns'[d] = turns[d]
    BY <1>1, <1>4, <2>1 DEF SocketTypes
  <2> QED
    BY <1>4, <1>8, <2>1 DEF VoiceTaken
<1>10. EnginesShared'
  BY <1>1, <1>4, <1>9 DEF VoiceTaken, EnginesShared
<1> QED
  BY <1>4, <1>6, <1>9, <1>10, SpeechAlone

\* The turns of c change in place, and none is heard without an engine.
TurnsChanged(c) ==
    /\ turns'[c] \in Seq(TurnType)
    /\ DOMAIN turns'[c] = DOMAIN turns[c]
    /\ turns' = [turns EXCEPT ![c] = turns'[c]]
    /\ \A i \in DOMAIN turns[c] :
          /\ turns'[c][i].text = "heard" => turns[c][i].text = "heard" \/ voice[c] = "loaded"
          /\ turns'[c][i].audio = turns[c][i].audio

LEMMA DisconnectTurns ==
    ASSUME SocketTypes, NEW c \in Connections, Disconnect(c)
    PROVE  TurnsChanged(c)
<1> DEFINE Ended(i) ==
        IF i = Len(turns[c]) /\ turns[c][i].text = "pending"
        THEN [turns[c][i] EXCEPT !.text = "cancelled"] ELSE turns[c][i]
<1>1. turns[c] \in Seq(TurnType)
  BY DEF SocketTypes, TurnType
<1>2. ASSUME NEW i \in DOMAIN turns[c]
      PROVE  /\ Ended(i) \in TurnType /\ Ended(i).audio = turns[c][i].audio
             /\ Ended(i).text = "heard" => turns[c][i].text = "heard"
  <2>1. turns[c][i] \in TurnType
    BY <1>1
  <2>2. turns[c][i].audio \in Seq(1 .. MaxAudio)
    BY <2>1 DEF TurnType
  <2>3. CASE i = Len(turns[c]) /\ turns[c][i].text = "pending"
    <3>1. Ended(i) = [audio |-> turns[c][i].audio, text |-> "cancelled"]
      BY <2>1, <2>3 DEF TurnType
    <3> QED
      BY <2>2, <3>1 DEF TurnType, Texts
  <2>4. CASE ~(i = Len(turns[c]) /\ turns[c][i].text = "pending")
    BY <2>1, <2>4
  <2> QED
    BY <2>3, <2>4
<1>3. turns' = [turns EXCEPT ![c] = [i \in DOMAIN turns[c] |-> Ended(i)]]
  BY DEF Disconnect
<1>4. turns'[c] = [i \in DOMAIN turns[c] |-> Ended(i)]
  BY <1>3 DEF SocketTypes
<1> HIDE DEF Ended
<1>5. turns'[c] \in Seq(TurnType) /\ DOMAIN turns'[c] = DOMAIN turns[c]
  BY <1>1, <1>2, <1>4
<1> QED
  BY <1>2, <1>3, <1>4, <1>5 DEF TurnsChanged

LEMMA TranscribeTurns ==
    ASSUME SocketTypes, NEW c \in Connections, NEW i \in DOMAIN turns[c], Transcribe(c, i)
    PROVE  TurnsChanged(c)
<1>0. PICK text \in IF voice[c] = "loaded" THEN {"heard", "failed"} ELSE {"empty"} :
           turns' = [turns EXCEPT ![c][i].text = text]
  BY DEF Transcribe
<1> DEFINE turn == [turns[c][i] EXCEPT !.text = text]
<1>1. turns[c] \in Seq(TurnType)
  BY DEF SocketTypes, TurnType
<1>2. /\ turn \in TurnType /\ turn.audio = turns[c][i].audio
      /\ turn.text = "heard" => voice[c] = "loaded"
  <2>1. turns[c][i] \in TurnType
    BY <1>1
  <2>2. turn = [audio |-> turns[c][i].audio, text |-> text]
    BY <2>1 DEF TurnType
  <2> QED
    BY <1>0, <2>1, <2>2 DEF Texts, TurnType
<1>3. turns' = [turns EXCEPT ![c] = [turns[c] EXCEPT ![i] = turn]]
  BY <1>0 DEF SocketTypes
<1> HIDE DEF turn
<1>4. turns'[c] = [turns[c] EXCEPT ![i] = turn]
  BY <1>3 DEF SocketTypes
<1>5. turns'[c] \in Seq(TurnType) /\ DOMAIN turns'[c] = DOMAIN turns[c]
  BY <1>1, <1>2, <1>4
<1> QED
  BY <1>1, <1>2, <1>3, <1>4, <1>5 DEF TurnsChanged

\* A turn is heard by the engine of its connection, or not at all.
LEMMA TurnIInv ==
    ASSUME IInv, NEW c \in Connections,
           Disconnect(c) \/ \E i \in DOMAIN turns[c] : Transcribe(c, i)
    PROVE  IInv'
<1> USE EngineAssumption DEF IInv
<1>1. SocketTypes
  BY DEF SpeechInv, TypeOK
<1>2. TurnsChanged(c)
  BY <1>1, DisconnectTurns, TranscribeTurns
<1>3. /\ \/ phase' = phase
         \/ phase[c] = "open" /\ phase' = [phase EXCEPT ![c] = "closed"]
      /\ UNCHANGED <<default, voice, sent, buffer, speechVars, failures>>
  BY DEF Disconnect, Transcribe
<1>4. SocketTypes'
  BY <1>1, <1>2, <1>3 DEF SocketTypes, TurnsChanged, TurnType
<1>5. \A d \in Connections : d # c => turns'[d] = turns[d]
  BY <1>1, <1>2 DEF SocketTypes, TurnsChanged
<1>6. VoiceTaken'
  <2>1. ASSUME NEW d \in Connections, phase'[d] = "new" PROVE turns'[d] = <<>>
    <3>1. CASE d = c
      <4>1. turns[c] = <<>>
        BY <1>1, <1>3, <2>1, <3>1 DEF SocketTypes, VoiceTaken
      <4>2. DOMAIN turns'[c] = {}
        BY <1>2, <4>1 DEF TurnsChanged
      <4> QED
        BY <1>2, <3>1, <4>2 DEF TurnsChanged
    <3>2. CASE d # c
      BY <1>1, <1>3, <1>5, <2>1, <3>2 DEF SocketTypes, VoiceTaken
    <3> QED
      BY <3>1, <3>2
  <2>2. ASSUME NEW d \in Connections
        PROVE  /\ phase'[d] = "new" => voice[d] = "none"
               /\ phase'[d] # "new" /\ voice[d] # "none" => voice[d] = default
               /\ phase'[d] = "open" => voice[d] # "none"
    BY <1>1, <1>3 DEF SocketTypes, VoiceTaken
  <2>3. ASSUME NEW d \in Connections, NEW i \in DOMAIN turns'[d], turns'[d][i].text = "heard"
        PROVE  voice[d] = "loaded"
    <3>1. CASE d = c
      BY <1>2, <2>3, <3>1 DEF TurnsChanged, VoiceTaken
    <3>2. CASE d # c
      BY <1>5, <2>3, <3>2 DEF VoiceTaken
    <3> QED
      BY <3>1, <3>2
  <2> QED
    BY <1>3, <2>1, <2>2, <2>3 DEF VoiceTaken
<1>7. EnginesShared'
  BY <1>1, <1>3, <1>4, <1>6 DEF EnginesShared, VoiceTaken, SocketTypes
<1> QED
  BY <1>3, <1>4, <1>6, <1>7, SpeechAlone
------------------------------------------------------------------------------
(* The audio of a connection, cut into turns.                               *)

\* The turns ts and the buffer rest hold the first n chunks, each once and in order.
CutInto(cut, ts, rest, n) ==
    /\ cut[1] = 0
    /\ \A i \in DOMAIN ts : cut[i] <= cut[i + 1] /\ ts[i].audio = Chunks(cut[i], cut[i + 1])
    /\ rest = Chunks(cut[Len(ts) + 1], n)

Whole(ts, rest, n) == \E cut \in [1 .. Len(ts) + 1 -> 0 .. n] : CutInto(cut, ts, rest, n)

\* One more chunk is one more in the buffer.
LEMMA ChunkAdded ==
    ASSUME NEW n \in Nat, NEW ts \in Seq(TurnType), NEW rest, Whole(ts, rest, n)
    PROVE  Whole(ts, Append(rest, n + 1), n + 1)
<1>1. PICK cut \in [1 .. Len(ts) + 1 -> 0 .. n] : CutInto(cut, ts, rest, n)
  BY DEF Whole
<1>2. cut \in [1 .. Len(ts) + 1 -> 0 .. n + 1]
  OBVIOUS
<1> DEFINE m == cut[Len(ts) + 1]
<1>3. m \in 0 .. n /\ rest = Chunks(m, n)
  BY <1>1 DEF CutInto
<1> HIDE DEF m
<1>4. Append(Chunks(m, n), n + 1) = Chunks(m, n + 1)
  <2>1. Chunks(m, n) \in Seq(Nat) /\ Len(Chunks(m, n)) = n - m
    BY <1>3 DEF Chunks
  <2>2. Append(Chunks(m, n), n + 1) = [k \in 1 .. n - m + 1 |->
                                         IF k = n - m + 1 THEN n + 1 ELSE Chunks(m, n)[k]]
    BY <1>3, <2>1
  <2>3. Chunks(m, n + 1) = [k \in 1 .. n - m + 1 |->
                                         IF k = n - m + 1 THEN n + 1 ELSE Chunks(m, n)[k]]
    BY <1>3 DEF Chunks
  <2> QED
    BY <2>2, <2>3
<1> QED
  BY <1>1, <1>2, <1>3, <1>4 DEF Whole, CutInto, m

\* A new turn takes all there is in the buffer.
LEMMA TurnCut ==
    ASSUME NEW n \in Nat, NEW ts \in Seq(TurnType), NEW turn \in TurnType,
           Whole(ts, turn.audio, n)
    PROVE  Whole(Append(ts, turn), <<>>, n)
<1>1. PICK cut \in [1 .. Len(ts) + 1 -> 0 .. n] : CutInto(cut, ts, turn.audio, n)
  BY DEF Whole
<1> DEFINE ts2 == Append(ts, turn)
           cut2 == [i \in 1 .. Len(ts2) + 1 |-> IF i = Len(ts2) + 1 THEN n ELSE cut[i]]
<1>2. /\ Len(ts) \in Nat /\ Len(ts2) = Len(ts) + 1 /\ DOMAIN ts = 1 .. Len(ts)
      /\ DOMAIN ts2 = 1 .. Len(ts) + 1
      /\ \A i \in 1 .. Len(ts) : ts2[i] = ts[i]
      /\ ts2[Len(ts) + 1] = turn
  OBVIOUS
<1> HIDE DEF ts2
<1>3. cut2 \in [1 .. Len(ts2) + 1 -> 0 .. n]
  BY <1>2
<1>4. /\ \A i \in 1 .. Len(ts) + 1 : cut2[i] = cut[i]
      /\ cut2[Len(ts) + 2] = n
  BY <1>2
<1> HIDE DEF cut2
<1>5. cut2[1] = 0
  BY <1>1, <1>2, <1>4 DEF CutInto
<1>6. ASSUME NEW i \in DOMAIN ts2
      PROVE  cut2[i] <= cut2[i + 1] /\ ts2[i].audio = Chunks(cut2[i], cut2[i + 1])
  <2>1. CASE i \in 1 .. Len(ts)
    <3>1. i + 1 \in 1 .. Len(ts) + 1 /\ i \in 1 .. Len(ts) + 1
      BY <1>2, <2>1
    <3> QED
      BY <1>1, <1>2, <1>4, <2>1, <3>1 DEF CutInto
  <2>2. CASE i = Len(ts) + 1
    <3>1. cut2[i] = cut[Len(ts) + 1] /\ cut2[i + 1] = n /\ cut2[i] \in 0 .. n
      BY <1>2, <1>4, <2>2
    <3> QED
      BY <1>1, <1>2, <2>2, <3>1 DEF CutInto
  <2> QED
    BY <1>2, <2>1, <2>2
<1>7. <<>> = Chunks(cut2[Len(ts2) + 1], n)
  BY <1>2, <1>4 DEF Chunks
<1> QED
  BY <1>3, <1>5, <1>6, <1>7 DEF Whole, CutInto, ts2

\* What becomes of a turn does not change its audio.
LEMMA AudioKeeps ==
    ASSUME NEW n \in Nat, NEW ts \in Seq(TurnType), NEW rest, Whole(ts, rest, n),
           NEW ts2 \in Seq(TurnType), DOMAIN ts2 = DOMAIN ts,
           \A i \in DOMAIN ts : ts2[i].audio = ts[i].audio
    PROVE  Whole(ts2, rest, n)
<1>1. Len(ts2) = Len(ts)
  OBVIOUS
<1> QED
  BY <1>1 DEF Whole, CutInto

LEMMA AudioIsWhole == AudioWhole <=> \A c \in Connections : Whole(turns[c], buffer[c], sent[c])
BY DEF AudioWhole, Whole, CutInto

LEMMA NextAudioWhole ==
    ASSUME IInv, AudioWhole, [Next]_vars
    PROVE  AudioWhole'
<1>0. /\ SocketTypes
      /\ \A c \in Connections : turns[c] \in Seq(TurnType) /\ sent[c] \in Nat
                                 /\ Whole(turns[c], buffer[c], sent[c])
  <2>1. SocketTypes
    BY DEF IInv, SpeechInv, TypeOK
  <2>2. \A c \in Connections : turns[c] \in Seq(TurnType) /\ sent[c] \in Nat
    <3>1. ASSUME NEW c \in Connections PROVE turns[c] \in Seq(TurnType)
      BY <2>1 DEF SocketTypes, TurnType
    <3>2. ASSUME NEW c \in Connections PROVE sent[c] \in Nat
      BY <2>1, EngineAssumption DEF SocketTypes
    <3> QED
      BY <3>1, <3>2
  <2> QED
    BY <2>1, <2>2, AudioIsWhole
<1>1. AudioWhole' <=> \A c \in Connections : Whole(turns'[c], buffer'[c], sent'[c])
  BY DEF AudioWhole, Whole, CutInto
<1>2. CASE UNCHANGED <<turns, buffer, sent>>
  BY <1>2 DEF AudioWhole
<1>3. ASSUME NEW c \in Connections, AudioData(c) PROVE AudioWhole'
  <2>1. /\ turns' = turns
        /\ sent'[c] = sent[c] + 1 /\ buffer'[c] = Append(buffer[c], sent[c] + 1)
        /\ \A d \in Connections : d # c => sent'[d] = sent[d] /\ buffer'[d] = buffer[d]
    BY <1>0, <1>3 DEF AudioData, SocketTypes
  <2>2. Whole(turns'[c], buffer'[c], sent'[c])
    BY <1>0, <2>1, ChunkAdded
  <2> QED
    BY <1>0, <1>1, <2>1, <2>2
<1>4. ASSUME NEW c \in Connections, AudioEnd(c) PROVE AudioWhole'
  <2> DEFINE turn == Turn(buffer[c])
  <2>1. /\ sent' = sent
        /\ turns'[c] = Append(turns[c], turn) /\ buffer'[c] = <<>>
        /\ \A d \in Connections : d # c => turns'[d] = turns[d] /\ buffer'[d] = buffer[d]
    BY <1>0, <1>4 DEF AudioEnd, SocketTypes
  <2>2. turn \in TurnType /\ turn.audio = buffer[c]
    BY <1>0 DEF Turn, SocketTypes, Texts, TurnType
  <2> HIDE DEF turn
  <2>3. Whole(turns'[c], buffer'[c], sent'[c])
    BY <1>0, <2>1, <2>2, TurnCut
  <2> QED
    BY <1>0, <1>1, <2>1, <2>3
<1>5. ASSUME NEW c \in Connections,
             Disconnect(c) \/ \E i \in DOMAIN turns[c] : Transcribe(c, i)
      PROVE  AudioWhole'
  <2>1. TurnsChanged(c)
    BY <1>0, <1>5, DisconnectTurns, TranscribeTurns
  <2>2. UNCHANGED <<sent, buffer>>
    BY <1>5 DEF Disconnect, Transcribe
  <2>3. \A d \in Connections : d # c => turns'[d] = turns[d]
    BY <1>0, <2>1 DEF SocketTypes, TurnsChanged
  <2>4. Whole(turns'[c], buffer'[c], sent'[c])
    BY SMTT(30), <1>0, <2>1, <2>2, AudioKeeps DEF TurnsChanged
  <2> QED
    BY <1>0, <1>1, <2>2, <2>3, <2>4
<1>6. ASSUME NEW c \in Connections, Connect(c) \/ ConnectFails(c)
      PROVE  UNCHANGED <<turns, buffer, sent>>
  BY <1>6 DEF Connect, ConnectFails
<1>7. ASSUME NEW r \in Requests, Post(r) \/ Work(r)
      PROVE  UNCHANGED <<turns, buffer, sent>>
  BY <1>7 DEF Work, GetEngine, Post, Look, Acquire, LookAgain, Load, LoadFails,
              BeginTranscribe, EndTranscribe, socketVars
<1>8. CASE UNCHANGED vars
  BY <1>2, <1>8 DEF vars
<1> QED
  BY <1>2, <1>3, <1>4, <1>5, <1>6, <1>7, <1>8 DEF Next, Done
------------------------------------------------------------------------------
LEMMA NextIInv == IInv /\ [Next]_vars => IInv'
<1> SUFFICES ASSUME IInv, [Next]_vars PROVE IInv'
  OBVIOUS
<1>1. ASSUME NEW r \in Requests, Post(r) \/ Work(r) PROVE IInv'
  BY <1>1, RequestIInv
<1>2. ASSUME NEW c \in Connections, Connect(c) \/ ConnectFails(c) PROVE IInv'
  BY <1>2, ConnectIInv
<1>3. ASSUME NEW c \in Connections, AudioData(c) \/ AudioEnd(c) PROVE IInv'
  BY <1>3, AudioDataIInv, AudioEndIInv
<1>4. ASSUME NEW c \in Connections,
             Disconnect(c) \/ \E i \in DOMAIN turns[c] : Transcribe(c, i)
      PROVE  IInv'
  BY <1>4, TurnIInv
<1>5. CASE UNCHANGED vars
  BY <1>5 DEF vars, IInv, SpeechInv, TypeOK, SocketTypes, SpeechTypes, LoaderFoundNone,
     EngineOnce, VoiceTaken, EnginesShared
<1> QED
  BY <1>1, <1>2, <1>3, <1>4, <1>5 DEF Next, Done

\* The inductive invariant holds in every reachable state.
THEOREM Invariance == Spec => []IInv
BY InitIInv, NextIInv, PTL DEF Spec

\* Whoever is between the two looks or loads the engine holds the lock, and nobody
\* else does, for any number of requests.
THEOREM TypeCorrect == Spec => []TypeOK
<1>1. IInv => TypeOK
  BY DEF IInv, SpeechInv
<1> QED
  BY <1>1, Invariance, PTL

\* Whatever number of requests ask for the engine at the same time, it is loaded once.
THEOREM LoadedOnce == Spec => []EngineOnce
<1>1. IInv => EngineOnce
  BY DEF IInv, SpeechInv
<1> QED
  BY <1>1, Invariance, PTL

\* All connections, from the first one on, have the voice of the default context.
THEOREM Shared == Spec => []EnginesShared
<1>1. IInv => EnginesShared
  BY DEF IInv
<1> QED
  BY <1>1, Invariance, PTL

\* Every chunk of audio is in one turn or in the buffer, in order: the buffer is emptied
\* exactly when a turn takes it.
THEOREM AudioStaysWhole == Spec => []AudioWhole
<1>1. Init => AudioWhole
  <2> SUFFICES ASSUME Init, NEW c \in Connections PROVE Whole(turns[c], buffer[c], sent[c])
    BY AudioIsWhole
  <2>1. turns[c] = <<>> /\ buffer[c] = <<>> /\ sent[c] = 0 /\ Len(turns[c]) = 0
    BY DEF Init
  <2> DEFINE cut == [i \in 1 .. 1 |-> 0]
  <2>2. cut \in [1 .. 0 + 1 -> 0 .. 0] /\ CutInto(cut, <<>>, <<>>, 0)
    BY DEF CutInto, Chunks
  <2> QED
    BY <2>1, <2>2 DEF Whole
<1>2. IInv /\ AudioWhole /\ [Next]_vars => AudioWhole'
  BY NextAudioWhole
<1> QED
  BY <1>1, <1>2, Invariance, PTL DEF Spec
=============================================================================
