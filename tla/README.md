# A verification of the fortune-reading backend

TLA+ models, TLC runs and TLAPS proofs for `iiii-project-backend`: a Django/Channels
backend with which a visitor draws a fortune (求籤), has it confirmed by casting blocks,
gets an interpretation written by a language model, chats about it, and talks to a Live2D
character that speaks over a WebSocket.

Everything here is translated from the code under `src/` (line numbers in `PROJECT.json`,
`map`), read with `docs/API.md` and the tests.

## The system

| part | state it keeps | operations | models |
|---|---|---|---|
| divination sessions (`apps/divinations`) | a row per session: status, fortune, question, categories, confirmed, interpretation; rows of block casts | create, prayer-complete, draw, block-casts, delete | `DivinationSession` |
| interpretation (`apps/ai_service/services.py`) | the claim (`status = "interpreting"`), the table of prewarmed jobs, three hidden messages | interpret, prewarm | `DivinationSession` |
| chat about a session (same file) | visible messages of a completed session | chat, remaining messages | `SessionChat` |
| chat history files (`live2d/engine/chat_history.py`) | a JSON file per history, a lock per file, a registry of locks | create, store, delete, prune | `ChatHistory` |
| conversation turn (`live2d/engine/conversation.py`) | sequence numbers, payload queue, TTS tasks, sender task | speak, deliver, finalize, close | `TTSDelivery` |
| consumer, dispatch, message handler (`live2d/consumers.py`, `conversation_handler.py`, `message_handler.py`) | current turn, waiters, owned histories, audio buffer | the WebSocket messages | `Live2DClient`, `MessageHandler`; the end of one turn in `TTSDelivery` |
| agent memory (`agents/basic_memory_agent.py`) | messages, interrupt flag, session context | chat, remember, handle_interrupt, load | `AgentMemory` |
| sentence divider, transformers (`engine/utils/sentence_divider.py`, `agent/transformers.py`) | the buffer and stack of the divider, the characters the guard has let through | divide, cut at the limit, take actions out, display, filter for the voice | `SentenceDivider`, `ResponsePipeline` |
| service context, connection set-up, audio buffer (`service_context.py`, `consumers.py`) | the default context of the process, an audio buffer per connection | connect, mic-audio-data, mic-audio-end | `Engines` |
| transcription endpoint (`apps/speech`) | one lazily loaded engine and its lock | POST transcribe | `Engines` |
| ownership and accounts (`divinations/views.py`, `apps/accounts`) | `user` and `anonymous_user_id` of a session; accounts | create, claim, look up, delete; register, remove | `SessionOwnership` |
| prompt safety, fortune sets, system status, configuration schemas | none, or data only the staff write | | not modelled, see below |

How they interact: the views call the services, the services share the database and, in one
process, the table of prewarmed jobs and its thread pool. The consumer runs a turn as an
asyncio task; the turn calls the agent, hands each sentence to its `TTSTaskManager`, and
stores the messages through `chat_history` in worker threads. Turns and the consumer meet in
`message_handler` (the client's `frontend-playback-complete`) and in
`current_conversation_tasks` (interrupts).

What is hard in it, and what therefore makes each part correct:

* **Sessions and interpretation** - several requests on one row, each of which keeps a copy
  of the row across a call of up to two minutes; retries; a model that fails; a row that is
  deleted meanwhile; a process that is restarted. Correct means: one owner of the claim, a
  claim that ends, one result, a record that is final, no result about another fortune.
* **Chat** - a limit counted long before it is used up. Correct means: whole exchanges,
  the interpretation in the model's context, and a bounded overrun.
* **History files** - threads that read, extend and replace a file; a lock registry from
  which locks are removed; crashes between write and rename; files that cannot be read. Correct means: nothing that was
  stored, and can be read, is lost, and nobody waits for ever.
* **Turns** - sentences synthesised concurrently and delivered in order; the end of the turn,
  the payloads and the cancellation are up to three tasks on one event loop. Correct means:
  order, completeness before the end, silence after it, nothing left running.
* **Connections** - several turns of one client, of which the consumer knows only the newest; one
  table of waiters and one memory for all of them; histories that are changed and deleted under
  a turn; interrupts and the end of the connection at any await. Correct means: nobody waits
  unheard, what was cut off is not recorded as said, a message goes to a history of the client.
* **Responses** - a text that arrives in chunks, cut into sentences and tags by generators that
  pull from one another. Correct means: whatever the chunks, what the model thinks is not voiced
  and what it says is, nothing comes twice or out of order, and the limit of characters holds.
* **Engines** - loaded late, by whoever comes first, for everybody. Correct means: once, shared,
  given up cleanly when loading fails; and no audio lost between two turns.
* **Ownership** - a check in one transaction, a write in another up to two minutes later. Correct
  means: a session that got an owner keeps it, and no owner is an account that is gone.

## The modules

### `DivinationSession` (with `Reading`, `MCDivinationSession`, `DivinationSession_proofs`)

One row and the requests on it. The variables are the columns (`status`, `fortune`, `asked`
for question and categories, `confirmed`, `answer` for `ai_interpretation`, recorded by what
it was generated from), the existence of the row, the number of its casts and of its hidden
message triples, the session's entry of `_prewarm_jobs`, and for each request its position,
its `session` object (`seen`) and what its own generation is about (`draft`).

A step is one database statement or one `transaction.atomic()` block, since
`settings.DATABASES` begins transactions with `BEGIN IMMEDIATE` (writers are serial).
`interpret_session` is the chain `InterpretRead`, `Claim`, `Edit`, `TakePrewarmed`,
`AwaitPrewarmed` or `Generate`, and `Release` or `Finish`. The claim looks at the status alone;
the edit compares with the snapshot and overwrites only the part (question or categories) that
differs, so that a stale snapshot may leave a combination on record that nobody entered, or have
the model asked about one; both are in the model. `DbError` refuses any of the four writes,
`Crash` is the restart by compose (`restart: always`).

The statuses `praying`, `rejected` and `cancelled` are declared by the code and never assigned;
`TypeOK` says so. `block_two` is always the opposite of `block_one`, so that the first cast
confirms.

`Reading` is the abstract specification: what a visitor is promised, without requests,
claims, snapshots and jobs. `DivinationSession` implements it under `Stage`; the property
`ImplementsReading` is checked by TLC and proved.

### `SessionChat` (with `MCSessionChat`, `SessionChat_proofs`)

`chat_about_session` on a completed session: read, count, read the newest messages, call the
model, store the exchange, with the deletion of the session at any point. Messages are
records that say who wrote them.

### `ChatHistory` (with `MCChatHistory`, `ChatHistory_proofs`)

One history file and the threads of `store_message`, `delete_history` and `prune_histories`,
with the lock registry, the temporary file and `os.replace`, and a restart. Every file operation may
fail: a write (`StoreFails`, which may leave the temporary file behind), a removal (`RemoveFails`) and a
read. `store_message` takes an existing file it cannot read for an empty history, and replaces it by
the one new message (`ReadFails`, `Replace`); `prune_histories` does likewise (`IsEmptyHistory`).
Locks have names because the point of the module is which lock a thread holds: `_forget_lock`
removes the registered one while others may have looked it up. Four variables are history
variables: `acked` (the messages whose `store_message` returned), `unread` (what stood in the file
that a storer failed to read), `overwritten` (what such storers have replaced) and `forgotten`.

### `TTSDelivery` (with `MCTTSDelivery`, `TTSDelivery_proofs`)

One turn on the event loop. `ready` is the loop's first-in-first-out queue of scheduled
callbacks, because the order of payloads and control messages depends on which task runs
first. A coroutine keeps running until it really suspends: `websocket_send` does not
suspend under daphne, `Queue.get` does not when there is an item, and `asyncio.gather` does not
when its tasks are done (Python 3.12). `kind` chooses between `process_single_conversation`
and `_handle_speak_text`, which shares everything but the model and the first gather.

### `Live2DClient` (with `MessageHandler`, `AgentMemory`, `MCLive2DClient`, `Live2DClient_proofs`)

One WebSocket connection. Channels gives a consumer its messages one after another, so that a
handler which awaits a worker thread holds the next message up: `serving` is what it is doing.
The turns it starts are background tasks. A turn is reduced to the places where it suspends
(`phase`): transcribing, storing the question, streaming the answer, synthesising, waiting for the
playback, storing the answer; what `TTSDelivery` says of the delivery happens inside
`synthesising` and `playback`. A step is what runs between two awaits. Which of several coroutines
goes on is left open, except that new tasks first run in the order of their creation.

`AgentMemory` is the list that is given to the model, with the interrupt flag; its messages say who
speaks, what kind of text it is, which text, and the turn it stems from. `MessageHandler` is the
table of events: one entry for each client and type of message, though each waiter makes an
event of its own, so that a second waiter takes the place of the first, and whoever leaves first
removes the entry, whosever it is. `contested` remembers which waits have overlapped.

`doomed` holds the turns for which `task.cancel()` was called and whose `CancelledError` has not
arrived: the handler corrects the memory in between. A thread which a cancelled turn was waiting
for goes on; its store lands later (`writes`). `set_memory_from_history` runs in a thread next to
the event loop, which may remember messages between its steps (`LoadReads`, `LoadForgets`,
`LoadRecalls`). A history that exists may also be unreadable: a store then replaces it by its one message
(`WriteLands`), and a load finds nothing in it (`LoadReads`). A recogniser that raises ends the turn
(`TranscriptionFails`). `Collected` is the garbage collection of a turn nobody refers to any more: its
event has been replaced, and its `finally` removes the event of the turn that replaced it.

### `ResponsePipeline` (with `SentenceDivider`, `MCResponsePipeline`, `ResponsePipeline_proofs`)

A text is a sequence of tokens, the kinds of character the code tells apart: sentence ends,
commas, abbreviations, parentheses, the three forms of the think tag, emotion tags, and anything
else. The divider's buffer always is an end of what was received, so that its beginning (`at`)
stands for it; `half` says that the last chunk ended within a tag, which until the rest has come is
text like any other. `Divide` is one pass of the loop of `_process_buffer`, with one disjunct for
each of its branches. What `pysbd` makes of a text and what `langdetect` takes its language for are
libraries' affairs: `Segmentations` lets `pysbd` cut the text after any of its end marks, and nowhere
else, and complete the last piece or not; with it goes the regular expression that is used for every language `langdetect` calls by another name (Chinese is one of
them: it says `zh-cn`, and `zh` is what is supported). A segmentation is given by where it cuts the
text and which of the pieces are sentences (`Segmentation`); the nesting of tags and of parentheses
is a recursive function of the position (`Nesting`).

`ResponsePipeline` puts the transformers behind the divider in the order of the decorators, and
pulls: the model is asked for a chunk when the divider has nothing left to yield. The guard may
return early (`cut`), the stream end, or raise (`failed`). `SpeakText` is the other use of the
segmentation, in `_handle_speak_text`.

`DeliveryExplained` says what of the text is delivered and names the two kinds of text that are
not; `Thinking` is the reference definition that `SilentIffThinking` compares the tags with.

### `Engines` (with `MCEngines`, `Engines_proofs`)

The two ways to a speech engine. A connection takes the engines of the default context, which the
first one builds: `load_from_config` has no suspension point, so that it is one step of the event
loop, and what it found is kept for ever. Audio goes into a buffer by chunks, and `mic-audio-end`
hands what is in it to a turn. `AudioWhole` says that the ends of the audio cut what was sent, once and
in order, into the pieces of the turns and the buffer. A request to transcribe runs in a thread: the checks of the upload
with their sizes as numbers, the double-checked loading under `_engine_lock` step by step, and the
transcription, in which a local engine takes one thread at a time (the lock of the transcription is a
guard of `BeginTranscribe`, so that `EngineOnce` says of it only that it is held).

### `SessionOwnership` (with `MCSessionOwnership`, `SessionOwnership_proofs`)

The columns `user` and `anonymous_user_id` of several sessions, the accounts, and the requests. A
view checks (`GetObject`), then its service reads the row again by itself (`Read`) and saves, perhaps
more than once (`Save`); a claim is one transaction. `save(update_fields=...)` leaves the
two columns alone, which is what makes the property hold: the mutant of `WriteColumns` is the
plain `save()`. An account may be removed at any time, and its sessions become nobody's
(`on_delete=SET_NULL`); the foreign key is checked when a transaction commits.

## The runs

| run | instance | result |
|---|---|---|
| `session` | 3 requests, 2 fortunes, 2 questions, 2 lists of categories, 1 restart, 1 refused write | all invariants, `CompletedFrozen`, `ImplementsReading` hold (about 620,000 states) |
| `session_progress` | 2 requests, no failure but the model's | every claim ends |
| `session_stale_question` | 2 requests, no failure but the model's | an interpretation prewarmed for an old question is used (finding) |
| `chat` | 3 requests, limit 5, window 10, as in the code | all invariants hold |
| `history` | 2 storing threads, a deletion, a pruning, 1 restart; any read, write and removal may fail | all hold (about 114,000 states) |
| `history_lost_message` | 2 storing threads and the pruning | a stored message is overwritten (finding) |
| `tts` | turns of up to 3 sentences, 1 interrupt | all hold |
| `client` | 2 turns; 2 interrupts, history commands or failures in all | all invariants hold (about 4,100,000 states) |
| `client_cleanup` | 2 turns | a turn waits for a client that is gone (finding) |
| `response` | all texts of up to 5 tokens of all kinds, chunks of up to 2, limit 4 | all invariants hold (about 2,200,000 states) |
| `engines` | 2 connections with 2 audio messages each, 2 requests, 2 failing loads, uploads at the boundaries of every check | all invariants hold, every request is answered (about 1,470,000 states) |
| `ownership` | 2 sessions, 2 accounts, 4 requests | all hold (about 133,000 states up to symmetry) |

Why the bounds suffice. Three requests are one that owns the claim, one with a stale snapshot
and one that changes the row between them; two values of each datum are enough to tell
"the same" from "another". A refused write and a restart matter once: each ends what it meets.
The proofs hold for any number of all of these. Three chat requests pass the limit together
at every count up to it. In `ChatHistory` two threads that hold different locks and one that
forgets a lock are all that can take part in a lost update, and one that stores and one that fails to
read it all that can take part in an overwritten history. Three sentences are a voiced one
that is late, one that is early and a silent one. One interrupt is all a turn can see before
its `finally` branch. In `Live2DClient` two turns are a current one and an older one it replaced,
which are all the consumer tells apart; two events (`MaxEvents` counts interrupts, history
commands, failing reads, writes and removals of a file, and recognisers that raise, together) are enough to
create a history and interrupt, delete, fetch, or fail to read or write it while the turns run, and to
interrupt twice. Five tokens are a nested
think block with a text in it, or a sentence, its remainder, a tag and what follows; a
limit of four then falls before, on and within the last sentence. Two connections are the first
and a later one; two requests are one that loads and one that waits for it, and two failures let
both fail. Four requests on two sessions are an owner's claim, another's, and two with stale
copies of the row.

Symmetry is used only where no liveness is checked: in `session` and `ownership` (where the
temporal properties are safety properties), `chat` and `history_lost_message`.
Deadlock is checked in every run; the modules have a `Done` step for the states in which the
work is over.

### Fairness

* `DivinationSession`: weak fairness of each request's own steps. A thread that serves a
  request is scheduled, and the call to the model returns, for it has a timeout
  (`LLM_TIMEOUT_SECONDS`), after which the model step goes to `release`. Nobody is forced to send
  a request, to delete, or to fail.
* `ChatHistory`: weak fairness of each worker thread's steps, and strong fairness of `Acquire`: a
  thread that waits for a lock gets it if it is free again and again. Storers and deleters take the
  lock a bounded number of times. Who can take it for ever is a pruner that cannot remove the file;
  it comes back once an hour (`_PRUNE_INTERVAL_SECONDS`, `consumers.py:52`), and in the meantime whoever
  waits gets in. Nobody is forced to store, delete or prune.
* `TTSDelivery`: weak fairness of the loop, of the threads that synthesise, and of the threads
  the turn waits for. Neither the model's stream nor the client's confirmation of the playback
  is assumed to come: `OnlyTheClientDelays` says that nothing else holds a turn up.
* `Engines`: weak fairness of each request's own steps. A thread that can go on does, and loading
  and transcribing return or raise. With several threads waiting for the lock, each gets it because
  a request asks for it once. Nobody is forced to send a request or to connect.

## The proofs

Every invariant and every safety property that a passing run checks is also a theorem, for every
value of the constants that the assumptions allow. The eight `_proofs` modules hold them; the table
of `PROJECT.json`, `theorems`, says which theorem states which property. Each component has an
inductive invariant `IInv` (the chat has several small ones, and so have the waiters and the histories
of a connection: `HInv`, `OInv`) whose conjuncts are named for what they say; below is why the
property alone would not do. Each was first checked by TLC on the instance of its run.

Assumptions. The constants that stand for `None` are not values of the columns
(`DivinationSession`, `SessionOwnership`), the mark for a missing file is not a content of a file
(`ChatHistory`: `MissingAssumption`, needed because an untyped `Missing` might otherwise be a
sequence of messages), bounds are natural numbers, the chat's window is at least twice its limit (10
and 5 in `services.py`), the requests of a chat and the threads of a history are finitely many, and there
are more locks than threads, since a lock is a new object whenever one is made. A bound on restarts, failures or events is any natural number.

### `DivinationSession_proofs`

* `TypeCorrect`, `MutualExclusion`, `RowConsistent`, `FortuneStays`, `ClaimIsOwned`: the invariants
  of `session`; `CompletedIsFrozen`: its action property; `Refinement`: the implementation of
  `Reading`, by `ReadingInit` and `ReadingNext` (each action to an action of `Reading` or a stutter).

`ClaimExclusive` is not inductive by itself: a request with a stale snapshot must not win the claim
over a running one, for which its snapshot's status must have been `confirmed` (`SnapshotsTrue`);
nothing in flight may belong to another fortune (`SameFortune` with `SnapshotsTrue`); what is stored
at the end must be about a question and categories that were on record (`WordingsOnRecord`,
`DraftsKnown`); and before the row exists nothing is in flight (`NothingBefore`). There is one lemma
per action.

### `SessionChat_proofs`

* `OverrunIsBounded`: stored messages and requests in flight are counted together. A request passes
  the limit only while fewer messages are stored, and turns from "in flight" into one stored message
  of the user (`ExchangeCountsOnce`).
* `ExchangesStayWhole`: with the fact that a session that exists has at least its two hidden messages.
* `ReadingStaysInContext`: of the messages behind the hidden ones half are the visitors'
  (`Paired`), so that whoever finds fewer of them than the limit finds a log that fits the window. The
  prefix a request has read stays as it was while the session exists (`WindowsPaired`,
  `PrefixKept`), so that this is still so when the model is called.

### `ChatHistory_proofs`

* `OverlapExplained` and `NothingLost` (and `TypeCorrect`). Whoever is inside a `with` block holds
  the lock it refers to (`LocksHeld`); until a lock is forgotten under somebody, all locks in use are
  the registered one (`OneLock`). Two threads inside therefore mean two locks, and a forgotten one
  (`Exclusion`). Until then nobody writes between a storer's read and its replacement, so that what it
  has read is what is in the file, or what it failed to read is (`ReadsCurrent`). The replacement of a
  storer that could read keeps what was acknowledged; that of one that could not costs what it failed
  to read, which is what `StoredUntilForgotten` excepts (`overwritten`), and nothing else. A crash, a
  failing write or a failing removal leaves the file alone. The lost update of `history_lost_message`
  is exactly what the hypothesis `~forgotten` excludes.

### `TTSDelivery_proofs`

* `SpeechInOrder`: `WireInv` says that the payloads below `next`, and only those, have been sent.
  `FirstMissing` is the least number not yet buffered, which exists because there are finitely many
  sentences.
* `AllSpokenBeforeEnd`: the hard one. When the turn comes to send the end, every task it gathered is
  done (`TaskInv`: only a turn that then closes has cancelled tasks), so that every payload has been put
  (`Due`, `Given`); and the sender has emptied the queue, because what wakes the turn again was
  scheduled behind it (`PlaybackInv`: the queue of the loop is first-in-first-out). A turn of
  nothing but silent sentences gathers no tasks, which is why the property excepts it.
* `SilenceAfterwards`: a turn that closes has cancelled its sender and waits until it is done
  (`SenderInv`), and only a scheduled sender sends. `QueueInv` says that neither is scheduled twice.
* `TypeCorrect`, of which the hard part is that the sender is scheduled exactly when it is neither
  waiting nor over.

What a step does is first said without the details (`ControlStep`, `SentenceStep`, `WireStep`), and
each part of the invariant is proved of that.

### `Live2DClient_proofs`

* `LoneWaiter`: a turn that waits for the playback alone can be reached by the client's message
  and by the cleanup. `OverlapsNoted` says that whoever waits next to another turn is noted in
  `contested`, and that one who is not is woken or is the one in the table. Each step of the
  connection is one of the four operations of `MessageHandler`, or leaves the table alone.
* `HistoryIsOwned`: between two messages the current history is owned by the connection. The
  invariant adds that while a history is being deleted it is the only one that may be current
  without being owned, and that the consumer's own writes end only while an interrupt is served,
  so that a failing one does not cut a history command short.
* `CutOff`: an answer that is kept belongs to a turn that was not cut off before (`Given`,
  `Streamed`): a turn stores only behind the await at which it would have been cancelled (`TurnsInv`), and a
  thread's store belongs to a turn in a phase that waits for it, or to one that is over (`WritesInv`).
* `QuestionsComeFirst`: while a question is on its way to a history, its turn has no answer in any
  history nor on its way (`QuestionsInv`).
* `OneMark`: the marks in the memory and the flag that allows one more are counted together (`MarksInv`).
* `SpokenTextKnown` is inductive given the types: interrupts change the last message but not its text.
* `TypeCorrect`, with `MoreTypes`: what `store_message` may be called with, and which handlers have a
  history in hand.

A step moves one turn, ends one, begins one, cancels the current one, or leaves the turns alone
(`TurnStep`); similar summaries exist for the memory and for the histories, and the parts of the
invariant are proved of those.

### `ResponsePipeline_proofs`

For texts, chunks and limits of any length, any set of kinds of token, and whichever of the end marks
`pysbd` cuts at and whatever `langdetect` answers:

* `ThoughtsStaySilent`: the divider's stack has as many blocks open as the text has at the beginning
  of the buffer, and each sentence is tagged as its positions are (`VoiceInv`). A chunk never changes
  what has been divided, because a tag that is not complete stays in the buffer (`Growth`).
* `DeliveryIsExplained`: outputs and pending sentences are in order and in front of the buffer
  (`OrderInv`), and each position in front of it is delivered, waits, or is of one of the two kinds
  that are dropped (`DeliveryInv`); the reasons stay valid as the text grows (`ReasonsStay`).
* `LimitIsKept`: the guard's counter is the number of characters delivered (`LimitInv`), by
  cardinalities of intervals that do not overlap.
* `TypeCorrect`, with `OutputInv`.

The lemmas on the operators come first: least and greatest positions (from well-foundedness), the
sequence of a set in ascending order, the recursive `Nesting` (that there is such a function, and what
it depends on, by a least counterexample: `NestingIs`, `NestingSame`; so that no induction over an
operator is needed), and what a `Segmentation` is (`SegmentationIs`, `SegmentationsAre`). Each branch of the divider is then
summarised in `Advances`, and each step of the guard and the transformers in `Emits`; the invariant is
proved of the summaries.

### `Engines_proofs`

* `LoadedOnce` and `Shared` (and `TypeCorrect`). `EngineOnce` is not inductive: a request that loads
  must have found no engine at its second look, and nobody can have loaded one since
  (`LoaderFoundNone`), because between its second look and the release the lock is its own, which
  is the last conjunct of `TypeOK`. `EnginesShared` needs that the voice of a connection is taken
  from the context when it opens and the context never changes afterwards (`VoiceTaken`).
* `AudioStaysWhole`: a chunk extends the last piece, and the end of the audio adds a cut where the
  text ends; a transcription changes no audio.

### `SessionOwnership_proofs`

* `TypeCorrect`, `ClaimsAreKept` and `OwnerStays`. `ClaimKept` becomes inductive with
  `WhoWasThere`: an account that was ever seen as `request.user` does not become one that never
  was, so that only its removal undoes a claim. `OneOwner` is an action property, proved from the
  invariant by cases on the actions.

### What stays with TLC

Liveness (`ClaimEnds`, `EveryoneGetsIn`, `OnlyTheClientDelays`, `EveryRequestAnswered`), which is out
of the prover's reach together with `ENABLED`; and the three findings, which are counterexamples. No
module declares a recursive operator.

## What the runs found

Three places where a run finds the program doing something else than its documentation or
comments say; the quotations are in `PROJECT.json`, `findings`.

1. `session_stale_question`: a prewarmed interpretation of an older question is used by a request
   with a stale snapshot.
2. `history_lost_message`: forgetting the lock of a removed history lets two threads write the same
   file at a time, and one message is lost.
3. `client_cleanup`: a turn that is not the newest survives the end of the connection and waits for
   ever.

Modelling also met these. Where they concern what is modelled they are behaviours of the models, and
the properties are stated so that they are allowed; no run is spent on them.

* A claim outlives its request when a write outside the `try` of `interpret_session` is refused, or
  the process is restarted: the session says `interpreting` from then on
  (`ai_service/services.py:308`). `NoOrphanClaim` excepts it, `session_progress` runs without.
* A history file that exists and cannot be read is replaced, by the next message that is stored, with
  that message alone (`chat_history.py:145`): an error that would have passed, such as too many open
  files, costs everything stored before. After a day without a message the pruning removes such a file, of
  which it says that it will not be read any more (`chat_history.py:269`). `StoredUntilForgotten` and
  `NoLostMessage` except the first, and nothing else (`overwritten`).
* Concurrent chat requests exceed the limit of five messages (`ai_service/services.py:385`), by less
  than their number (`OverrunBounded`).
* An interrupt with nothing left to interrupt replaces the end of a message that was heard
  (`basic_memory_agent.py:147`).
* The divider drops what stands between an end mark and a tag (`sentence_divider.py:459`), and a
  piece that ends in an abbreviation (`:203`). The second also happens to a text to be spoken, of
  which `consumers.py:239` says that the words must be exactly those that were generated.
* The guard never drops a repetition: it asks whether a sentence has no tags, and every sentence has
  at least one that says "none" (`transformers.py:82`). Parentheses are followed within a sentence
  only, so that one that is opened in one sentence and closed in the next is voiced.
* An ASR engine that could not be loaded for the first connection is missing for every later one
  (`service_context.py:132`). A Live2D model that cannot be read closes every connection, though
  `service_context.py:129` speaks of its graceful degradation: the prompt is made from the model.
* `speech/engines.py:8` says that Mandarin needs no second copy of the model of the Live2D side; the
  SenseVoice engine makes its own recognizer.
* A request that was admitted to a session nobody owned goes on after it was claimed, and may delete
  it (`divinations/views.py:77`). Someone who creates a session while logged in leaves the browser's
  id in it, and a claim of one's own does not clear it.

## What is left out

* Prompt safety (`prompt_safety.py`): one pure function that replaces patterns in a string. Fortune
  sets and fortunes: reference data which the staff and the fixtures write. System status: reads
  only. The configuration schemas (`config_manager`): declarations without behaviour, a large part of
  the lines of the repository; what they set (database options, time limits, limits of length) are
  constants or assumptions of the models.
* Passwords and tokens, status codes and envelopes of the views. The admin site: its form for a
  session saves every column as it was when the form was opened, which `OneOwner` and
  `CompletedFrozen` therefore do not cover.
* The text of prompts and answers; audio; the order of ties in `created_at`.
* A second process: the deployment runs one (`docker-entrypoint.sh`), and the table of prewarmed
  jobs and the history locks are per process.
* In `DivinationSession`: a failure between the statements of a `transaction.atomic()` block. A block is
  one step, so that `RowAgrees` cannot see a transaction that is not one
  (`ai_service/services.py:335`). Nor which entry a full table of prewarmed jobs drops: the session's entry
  may go at any time (`Evict`), and a wrong choice, which no property would see, costs a second generation.
* In `ChatHistory`: metadata updates and the read-only queries.
* In `Live2DClient`: `CurrentHistoryIsOwned` speaks of the time between two messages; what a turn stores
  while its history is being deleted creates the file anew.
* In `TTSDelivery`: failures of `websocket_send`. A turn of nothing but silent sentences has no
  TTS task to wait for and may end before its payloads are sent; `SpokenBeforeEnd` therefore
  speaks of turns with something to voice.
* In `ResponsePipeline`: white space, markup, special characters, the conversion to traditional
  characters, and the vertical bar, at which the regular expression cuts too.
* In `Live2DClient`: remember-context, the queries, and what `_response_data` carries; `connect` and
  the audio buffer are in `Engines`. The liveness of a connection's turns is not checked: its state space
  is too large for it, and `OnlyTheClientDelays` covers a single turn.

## Plan

1. `TTSDelivery` as the inside of a phase of `Live2DClient`, by refinement, with `ResponsePipeline` as
   the source of its sentences.
2. An abstract specification of the delivery of a turn's speech (each sentence once, in order, then the
   end, then silence) which `TTSDelivery` implements, with a proof.
3. The order of the memory's messages when a history is loaded under a running turn.
4. The metadata of `ChatHistory`, and what a history is worth when it is pruned under a store.
5. The admin site's form as a step of `SessionOwnership` and `DivinationSession`.
