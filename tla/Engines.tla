------------------------------- MODULE Engines -------------------------------
(***************************************************************************)
(* The speech engines of one process, who loads them, and who uses them.   *)
(*                                                                         *)
(* A WebSocket connection (live2d/consumers.py) takes the ASR engine of a  *)
(* default context, which the first one builds (engine/service_context.py).*)
(* Building it never suspends: it is one step of the event loop, and nobody*)
(* ever waits for _default_context_lock. The agent each connection makes   *)
(* for itself is the subject of Live2DClient.                              *)
(*                                                                         *)
(* A request to transcribe (speech/views.py) runs in a thread and uses the *)
(* engine of speech/engines.py, which is loaded under a lock.              *)
(***************************************************************************)
EXTENDS Naturals, Sequences

CONSTANTS
    Connections, Requests,
    Nobody,        \* no request holds the lock
    Uploads,       \* the audio requests come with: [bytes, loud]
    MaxFailures,   \* bound: loads that fail
    MaxAudio       \* bound: chunks and ends of audio of a connection

ASSUME EngineAssumption ==
    /\ Nobody \notin Requests
    /\ MaxFailures \in Nat /\ MaxAudio \in Nat
    /\ \A u \in Uploads : u.bytes \in Nat /\ u.loud \in BOOLEAN

VARIABLES
    default,   \* _default_context: "none", or whether its ASR was "loaded" or "failed"
    phase,     \* of each connection
    voice,     \* asr_engine of its context
    sent,      \* how many chunks of audio the client has sent
    buffer,    \* received_audio_buffer: the numbers of the chunks in it
    turns,     \* the turns mic-audio-end has started: their audio, what became of it
    kind,      \* settings.ASR["ENGINE"]
    engine,    \* _engine of speech/engines.py is set
    loads,     \* how many engines have been loaded for it
    lock,      \* who holds _engine_lock
    job,       \* where each request is, its answer in the end
    failures   \* how many loads have failed

socketVars == <<default, phase, voice, sent, buffer, turns>>
speechVars == <<kind, engine, loads, lock, job>>
vars == <<default, phase, voice, sent, buffer, turns,
          kind, engine, loads, lock, job, failures>>

\* settings.ASR["ENGINE"]: a model on this machine, the cloud, or nothing usable.
EngineKinds == {"local", "cloud", "unset"}

Init ==
    /\ default = "none"
    /\ phase = [c \in Connections |-> "new"]
    /\ voice = [c \in Connections |-> "none"]
    /\ sent = [c \in Connections |-> 0]
    /\ buffer = [c \in Connections |-> <<>>]
    /\ turns = [c \in Connections |-> <<>>]
    /\ kind \in EngineKinds
    /\ engine = FALSE
    /\ loads = 0
    /\ lock = Nobody
    /\ job = [r \in Requests |-> "new"]
    /\ failures = 0

Fail == failures < MaxFailures /\ failures' = failures + 1
-----------------------------------------------------------------------------
(* Connections.                                                             *)

\* The recognizer is made from a model's files; init_asr goes on without it when they
\* are missing or cannot be read.
MakeRecognizer ==
    \/ default' = "loaded" /\ UNCHANGED failures
    \/ default' = "failed" /\ Fail

\* Live2dModel: its file is missing, in no known encoding, or lacks the model.
ModelNotFound == Fail

\* load_from_config: with the configuration of build_config, which is the only one, a TTS
\* engine and an agent can always be made.
LoadFromConfig == MakeRecognizer

\* Mutant of GetDefaultContext: every connection loads the engines.
LoadAlways == LoadFromConfig

\* _get_default_context: once there is a context it is never built again.
GetDefaultContext ==
    IF default = "none" THEN LoadFromConfig ELSE UNCHANGED <<default, failures>>

\* load_cache: the connection's context refers to the engines of the default one.
LoadCache(c) == voice' = [voice EXCEPT ![c] = default']

\* connect, to its end: what follows sends messages and sleeps.
Connect(c) ==
    /\ phase[c] = "new"
    /\ GetDefaultContext
    /\ LoadCache(c)
    /\ phase' = [phase EXCEPT ![c] = "open"]
    /\ UNCHANGED <<sent, buffer, turns, speechVars>>

\* The Live2D model cannot be read: init_live2d goes on without it, but
\* construct_system_prompt raises, and the connection is closed. Nothing is kept of
\* the context: the next connection tries again.
ConnectFails(c) ==
    /\ phase[c] = "new" /\ default = "none"
    /\ ModelNotFound
    /\ phase' = [phase EXCEPT ![c] = "closed"]
    /\ UNCHANGED <<default, voice, sent, buffer, turns, speechVars>>

\* mic-audio-data
AudioData(c) ==
    /\ phase[c] = "open"
    /\ sent[c] + Len(turns[c]) < MaxAudio
    /\ sent' = [sent EXCEPT ![c] = @ + 1]
    /\ buffer' = [buffer EXCEPT ![c] = Append(@, sent'[c])]
    /\ UNCHANGED <<default, phase, voice, turns, speechVars, failures>>

Turn(audio) == [audio |-> audio, text |-> "pending"]

\* Mutant of AudioEnd: the buffer is not emptied.
AudioKept(c) ==
    /\ phase[c] = "open"
    /\ sent[c] + Len(turns[c]) < MaxAudio
    /\ turns' = [turns EXCEPT ![c] = Append(@, Turn(buffer[c]))]
    /\ UNCHANGED <<default, phase, voice, sent, buffer, speechVars, failures>>

\* mic-audio-end: handle_conversation_trigger takes the audio, of which there may be
\* none, and starts a turn.
AudioEnd(c) ==
    /\ phase[c] = "open"
    /\ sent[c] + Len(turns[c]) < MaxAudio
    /\ turns' = [turns EXCEPT ![c] = Append(@, Turn(buffer[c]))]
    /\ buffer' = [buffer EXCEPT ![c] = <<>>]
    /\ UNCHANGED <<default, phase, voice, sent, speechVars, failures>>

\* process_user_input, in the order in which the worker threads get ready: an engine
\* hears the audio, or raises and ends the turn; without one the client is told, and
\* the turn goes on with an empty question.
Transcribe(c, i) ==
    /\ turns[c][i].text = "pending"
    /\ \E text \in IF voice[c] = "loaded" THEN {"heard", "failed"} ELSE {"empty"} :
          turns' = [turns EXCEPT ![c][i].text = text]
    /\ UNCHANGED <<default, phase, voice, sent, buffer, speechVars, failures>>

\* disconnect cancels the newest turn, and leaves others to go on.
Disconnect(c) ==
    /\ phase[c] = "open"
    /\ phase' = [phase EXCEPT ![c] = "closed"]
    /\ turns' = [turns EXCEPT ![c] =
                    [i \in DOMAIN @ |-> IF i = Len(@) /\ @[i].text = "pending"
                                        THEN [@[i] EXCEPT !.text = "cancelled"] ELSE @[i]]]
    /\ UNCHANGED <<default, voice, sent, buffer, speechVars, failures>>
-----------------------------------------------------------------------------
(* Requests to transcribe.                                                  *)

SampleRate == 16000
SampleBytes == 4
MaxBytes == SampleRate * SampleBytes * 60
MinSamples == 4800   \* MIN_SECONDS = 0.3

\* The checks of TranscribeView.post in their order: what is wrong with an upload.
Complaint(u) ==
    CASE u.bytes > MaxBytes                      -> "AUDIO_TOO_LONG"
      [] u.bytes % SampleBytes # 0               -> "AUDIO_MALFORMED"
      [] u.bytes \div SampleBytes < MinSamples   -> "AUDIO_TOO_SHORT"
      [] ~u.loud                                 -> "AUDIO_SILENT"
      [] OTHER                                   -> "none"

Answers == {"AUDIO_REQUIRED", "AUDIO_TOO_LONG", "AUDIO_MALFORMED", "AUDIO_TOO_SHORT",
            "AUDIO_SILENT", "ASR_UNAVAILABLE", "ASR_FAILED", "OK"}

Goto(r, place) == job' = [job EXCEPT ![r] = place]

Post(r) ==
    /\ job[r] = "new"
    /\ \/ Goto(r, "AUDIO_REQUIRED")
       \/ \E u \in Uploads :
             Goto(r, IF Complaint(u) = "none" THEN "asking" ELSE Complaint(u))
    /\ UNCHANGED <<socketVars, kind, engine, loads, lock, failures>>

\* get_engine: the first look, without the lock.
Look(r) ==
    /\ job[r] = "asking"
    /\ Goto(r, IF engine THEN "ready" ELSE "waiting")
    /\ UNCHANGED <<socketVars, kind, engine, loads, lock, failures>>

Acquire(r) ==
    /\ job[r] = "waiting" /\ lock = Nobody
    /\ lock' = r
    /\ Goto(r, "holding")
    /\ UNCHANGED <<socketVars, kind, engine, loads, failures>>

\* Mutant of LookAgain: the engine is loaded without a second look.
LookOnce(r) ==
    /\ job[r] = "holding"
    /\ Goto(r, "loading")
    /\ UNCHANGED <<lock, socketVars, kind, engine, loads, failures>>

\* Mutant of LookAgain: who finds the engine leaves with the lock.
LookAndKeep(r) ==
    /\ job[r] = "holding"
    /\ Goto(r, IF engine THEN "ready" ELSE "loading")
    /\ UNCHANGED <<lock, socketVars, kind, engine, loads, failures>>

\* The second look, under the lock.
LookAgain(r) ==
    /\ job[r] = "holding"
    /\ IF engine THEN Goto(r, "ready") /\ lock' = Nobody
       ELSE Goto(r, "loading") /\ UNCHANGED lock
    /\ UNCHANGED <<socketVars, kind, engine, loads, failures>>

Load(r) ==
    /\ job[r] = "loading" /\ kind # "unset"
    /\ engine' = TRUE
    /\ loads' = loads + 1
    /\ lock' = Nobody
    /\ Goto(r, "ready")
    /\ UNCHANGED <<socketVars, kind, failures>>

\* A local model may be missing, the cloud without an address; without a usable
\* setting there is none.
LoadGoesWrong == IF kind = "unset" THEN UNCHANGED failures ELSE Fail

\* Mutant of LoadFails: the request tries again by itself.
RetryLoad(r) ==
    /\ job[r] = "loading"
    /\ LoadGoesWrong
    /\ lock' = Nobody
    /\ Goto(r, "asking")
    /\ UNCHANGED <<socketVars, kind, engine, loads>>

\* Nothing is remembered of a failure: the next request tries again.
LoadFails(r) ==
    /\ job[r] = "loading"
    /\ LoadGoesWrong
    /\ lock' = Nobody
    /\ Goto(r, "ASR_UNAVAILABLE")
    /\ UNCHANGED <<socketVars, kind, engine, loads>>

\* transcribe: a local engine has a lock of its own, the cloud takes all comers.
BeginTranscribe(r) ==
    /\ job[r] = "ready"
    /\ kind = "local" => \A q \in Requests : job[q] # "transcribing"
    /\ Goto(r, "transcribing")
    /\ UNCHANGED <<socketVars, kind, engine, loads, lock, failures>>

EndTranscribe(r) ==
    /\ job[r] = "transcribing"
    /\ Goto(r, "OK") \/ Goto(r, "ASR_FAILED")
    /\ UNCHANGED <<socketVars, kind, engine, loads, lock, failures>>

GetEngine(r) ==
    Look(r) \/ Acquire(r) \/ LookAgain(r) \/ Load(r) \/ LoadFails(r)

Work(r) == GetEngine(r) \/ BeginTranscribe(r) \/ EndTranscribe(r)
-----------------------------------------------------------------------------
Done ==
    /\ \A c \in Connections : phase[c] # "new"
    /\ \A r \in Requests : job[r] \in Answers
    /\ UNCHANGED vars

Next ==
    \/ \E c \in Connections :
          \/ Connect(c) \/ ConnectFails(c)
          \/ AudioData(c) \/ AudioEnd(c)
          \/ \E i \in DOMAIN turns[c] : Transcribe(c, i)
          \/ Disconnect(c)
    \/ \E r \in Requests : Post(r) \/ Work(r)
    \/ Done

Spec == Init /\ [][Next]_vars

\* A thread that can go on does; the models answer or raise an exception.
FairSpec == Spec /\ \A r \in Requests : WF_vars(Work(r))
-----------------------------------------------------------------------------
Texts == {"pending", "heard", "failed", "empty", "cancelled"}

SocketTypes ==
    /\ default \in {"none", "loaded", "failed"}
    /\ phase \in [Connections -> {"new", "open", "closed"}]
    /\ voice \in [Connections -> {"none", "loaded", "failed"}]
    /\ sent \in [Connections -> 0 .. MaxAudio]
    /\ buffer \in [Connections -> Seq(1 .. MaxAudio)]
    /\ turns \in [Connections -> Seq([audio : Seq(1 .. MaxAudio), text : Texts])]
    /\ failures \in 0 .. MaxFailures

SpeechTypes ==
    /\ kind \in EngineKinds
    /\ engine \in BOOLEAN
    /\ loads \in Nat
    /\ lock \in Requests \cup {Nobody}
    /\ job \in [Requests -> Answers \cup {"new", "asking", "waiting", "holding",
                                          "loading", "ready", "transcribing"}]

\* The variables have the values the comments above give them; whoever is between
\* the two looks or loads holds the lock, and nobody else.
TypeOK ==
    /\ SocketTypes
    /\ SpeechTypes
    /\ \A r \in Requests : job[r] \in {"holding", "loading"} <=> lock = r

\* consumers.py: the engines "are loaded once, lazily, on the first connection and
\* shared by reference after that". What the first context found, that the voice
\* works or that it does not, is so for every connection ever after.
EnginesShared ==
    \A c \in Connections :
        /\ phase[c] = "open" => voice[c] = default /\ default # "none"
        /\ \A i \in DOMAIN turns[c] : turns[c][i].text = "heard" => default = "loaded"

\* What is sent after the first m chunks, up to the nth.
Chunks(m, n) == [k \in 1 .. n - m |-> m + k]

\* Each chunk of audio is in one turn or still in the buffer, in the order in which
\* they were sent: none is lost between two turns, and none is heard twice. The ends
\* of the audio cut what was sent into the turns' pieces and the buffer.
AudioWhole ==
    \A c \in Connections :
        \E cut \in [1 .. Len(turns[c]) + 1 -> 0 .. sent[c]] :
            /\ cut[1] = 0
            /\ \A i \in DOMAIN turns[c] :
                  /\ cut[i] <= cut[i + 1]
                  /\ turns[c][i].audio = Chunks(cut[i], cut[i + 1])
            /\ buffer[c] = Chunks(cut[Len(turns[c]) + 1], sent[c])

\* speech/engines.py: the engine is a singleton of the process. However many requests
\* ask for it at the same time it is loaded once, and is there when it is used; a
\* local one is used by one thread at a time.
EngineOnce ==
    /\ loads = (IF engine THEN 1 ELSE 0)
    /\ \A r \in Requests : job[r] \in {"ready", "transcribing"} => engine
    /\ kind = "local" =>
          \A q, r \in Requests : job[q] = "transcribing" /\ job[r] = "transcribing" => q = r

\* Every request is answered, whoever fails to load the engine before it.
EveryRequestAnswered ==
    \A r \in Requests : job[r] # "new" ~> job[r] \in Answers
=============================================================================
