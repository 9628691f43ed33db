-------------------------- MODULE TTSDelivery_proofs --------------------------
(***************************************************************************)
(* Proofs about the delivery of one turn's speech, for any number of       *)
(* sentences: the payloads go out in order, those of a turn that ends      *)
(* regularly have all gone out by then, and a turn that is over is silent. *)
(***************************************************************************)
EXTENDS TTSDelivery, FiniteSetTheorems, SequenceTheorems, WellFoundedInduction,
        TLAPS

------------------------------------------------------------------------------
(***************************************************************************)
(* The inductive invariant.                                                *)
(***************************************************************************)

\* x is in the sequence s at most once; every x is in front of every y.
Once(s, x) == \A i, j \in DOMAIN s : s[i] = x /\ s[j] = x => i = j

Before(s, x, y) == \A i, j \in DOMAIN s : s[i] = x /\ s[j] = y => i < j

Final == {"closing", "awaitsSender", "ended"}
Gathers == {"gather", "gatherAgain"}

\* The turn and the sender are scheduled at most once, the turn not while it
\* runs.
QueueInv ==
    /\ Once(ready, Turn) /\ Once(ready, Sender)
    /\ Busy => ~Scheduled(Turn)

\* The sender waits for an empty queue only, lives while there is something to
\* say, and is cancelled by the turn that closes, and by nobody else.
SenderInv ==
    /\ sender = "waiting" => queue = <<>>
    /\ uttered # <<>> /\ turn \notin {"awaitsSender", "ended"}
          => sender \in {"scheduled", "waiting"}
    /\ Sender \in doomed =>
          turn = "awaitsSender" /\ sender = "scheduled" /\ ~Scheduled(Turn)
    /\ turn = "awaitsSender" => Sender \in doomed \/ sender = "done"
    /\ turn = "ended" => sender \in {"none", "done"}
    /\ Turn \in doomed => ~Busy /\ turn \notin {"awaitsSender", "ended"}

\* A sentence's payload has been put: it is sent, buffered or in the queue.
Given(n) == n < next \/ n \in buffered \/ \E i \in DOMAIN queue : queue[i] = n

\* Sentences whose payload must be there by now: those whose task has ended
\* by itself, and the silent ones but for the one being prepared.
Due ==
    {n \in 1 .. Len(uttered) :
        \/ n \in TaskList /\ task[n] = "done"
        \/ n \notin TaskList /\ ~(turn = "preparing" /\ n = Len(uttered))}

\* Tasks are cancelled only with a turn that gathers them, which then only
\* closes; and whoever has gathered them finds them all done.
TaskInv ==
    /\ \A n \in Sentences : n \in TaskList <=> task[n] # "none"
    /\ \A n \in Sentences : Tts(n) \in doomed => n \in TaskList
    /\ turn = "preparing" => uttered # <<>> /\ Len(uttered) \notin TaskList
    /\ \A n \in Sentences : Tts(n) \in doomed \/ task[n] = "cancelled" =>
          turn \in Final \/ (turn \in Gathers /\ Turn \in doomed)
    /\ turn \in Gathers /\ Scheduled(Turn) /\ Turn \notin doomed => AllDone
    /\ turn = "playback" => AllDone
    /\ turn \notin Final => \A n \in Due : Given(n)

\* The client's answer comes behind a sender that has still to run.
PlaybackInv == turn = "playback" => Before(ready, Sender, Turn)

\* The payloads up to next, and only those, have been sent, in order.
WireInv ==
    /\ next \notin buffered
    /\ \A n \in 1 .. next - 1 : \E i \in DOMAIN wire : wire[i] = Audio(n)
    /\ \A i \in DOMAIN wire, n \in Sentences : wire[i] = Audio(n) => n < next
    /\ InOrder

\* When the chain has been ended there is nothing left to say.
EndInv ==
    \A i \in DOMAIN wire : wire[i] = ChainEnd =>
        /\ turn \in {"storing", "closing", "awaitsSender", "ended"}
        /\ TaskList # {} =>
              \A n \in 1 .. Len(uttered) : \E j \in 1 .. i : wire[j] = Audio(n)

IInv ==
    /\ TypeOK
    /\ QueueInv /\ SenderInv
    /\ TaskInv /\ PlaybackInv
    /\ WireInv /\ EndInv

------------------------------------------------------------------------------
(***************************************************************************)
(* Operators: queues, and the first missing number.                        *)
(***************************************************************************)
Entries == {Turn, Sender, Gathered} \cup {Tts(n) : n \in Sentences}
Messages == {SynthComplete, ChainEnd} \cup {Audio(n) : n \in Sentences}

Occurs(s, x) == \E i \in DOMAIN s : s[i] = x

\* The callbacks of the loop can be told apart.
LEMMA EntriesDiffer ==
    /\ Turn # Sender /\ Turn # Gathered /\ Sender # Gathered
    /\ \A n \in Sentences : Tts(n) \notin {Turn, Sender, Gathered}
    /\ \A m, n \in Sentences : Tts(m) = Tts(n) => m = n
BY DEF Turn, Sender, Gathered, Tts

\* So can the messages to the client.
LEMMA MessagesDiffer ==
    /\ SynthComplete # ChainEnd
    /\ \A n : Audio(n) \notin {SynthComplete, ChainEnd}
    /\ \A m, n : Audio(m) = Audio(n) => m = n
BY DEF SynthComplete, ChainEnd, Audio

\* What is appended to a queue.
LEMMA Appended ==
    ASSUME NEW S, NEW s \in Seq(S), NEW e \in S
    PROVE  /\ Append(s, e) \in Seq(S)
           /\ \A x : Occurs(Append(s, e), x) <=> Occurs(s, x) \/ x = e
           /\ \A x : Once(s, x) /\ (x # e \/ ~Occurs(s, x)) => Once(Append(s, e), x)
           /\ \A x, y : Before(s, x, y) /\ x # e => Before(Append(s, e), x, y)
<1>1. /\ Append(s, e) \in Seq(S) /\ DOMAIN Append(s, e) = 1 .. Len(s) + 1
      /\ DOMAIN s = 1 .. Len(s) /\ Len(s) \in Nat
      /\ Append(s, e)[Len(s) + 1] = e
      /\ \A i \in 1 .. Len(s) : Append(s, e)[i] = s[i]
  OBVIOUS
<1>2. \A i \in DOMAIN Append(s, e) : i \in DOMAIN s \/ i = Len(s) + 1
  BY <1>1
<1>3. ASSUME NEW x PROVE Occurs(Append(s, e), x) <=> Occurs(s, x) \/ x = e
  BY <1>1, <1>2 DEF Occurs
<1>4. ASSUME NEW x, Once(s, x), x # e \/ ~Occurs(s, x)
      PROVE  Once(Append(s, e), x)
  BY <1>1, <1>2, <1>4 DEF Once, Occurs
<1>5. ASSUME NEW x, NEW y, Before(s, x, y), x # e
      PROVE  Before(Append(s, e), x, y)
  BY <1>1, <1>2, <1>5 DEF Before
<1> QED
  BY <1>1, <1>3, <1>4, <1>5

\* What is left of a queue when its head is taken.
LEMMA Taken ==
    ASSUME NEW S, NEW s \in Seq(S), s # <<>>
    PROVE  /\ Tail(s) \in Seq(S)
           /\ Occurs(s, Head(s)) /\ Head(s) \in S
           /\ \A x : Occurs(s, x) <=> x = Head(s) \/ Occurs(Tail(s), x)
           /\ \A x : Once(s, x) => Once(Tail(s), x)
           /\ \A x : Once(s, x) /\ Head(s) = x => ~Occurs(Tail(s), x)
           /\ \A x, y : Before(s, x, y) => Before(Tail(s), x, y)
           /\ \A x, y : Before(s, x, y) /\ Head(s) = y => ~Occurs(s, x)
<1>1. /\ Tail(s) \in Seq(S) /\ DOMAIN s = 1 .. Len(s) /\ Len(s) \in Nat \ {0}
      /\ DOMAIN Tail(s) = 1 .. Len(s) - 1 /\ Head(s) = s[1] /\ Head(s) \in S
      /\ \A i \in 1 .. Len(s) - 1 : Tail(s)[i] = s[i + 1]
  BY HeadTailProperties
<1>2. \A i \in DOMAIN Tail(s) : i + 1 \in DOMAIN s /\ Tail(s)[i] = s[i + 1]
  BY <1>1
<1>3. \A i \in DOMAIN s : i = 1 \/ (i - 1 \in DOMAIN Tail(s) /\ Tail(s)[i - 1] = s[i])
  BY <1>1
<1>4. 1 \in DOMAIN s
  BY <1>1
<1>5. ASSUME NEW x PROVE Occurs(s, x) <=> x = Head(s) \/ Occurs(Tail(s), x)
  BY <1>1, <1>2, <1>3, <1>4 DEF Occurs
<1>6. ASSUME NEW x, Once(s, x) PROVE Once(Tail(s), x)
  <2> SUFFICES ASSUME NEW i \in DOMAIN Tail(s), NEW j \in DOMAIN Tail(s),
                      Tail(s)[i] = x, Tail(s)[j] = x
               PROVE  i = j
    BY DEF Once
  <2>1. i + 1 = j + 1
    BY <1>2, <1>6 DEF Once
  <2> QED
    BY <1>1, <2>1
<1>7. ASSUME NEW x, Once(s, x), Head(s) = x PROVE ~Occurs(Tail(s), x)
  <2> SUFFICES ASSUME NEW i \in DOMAIN Tail(s), Tail(s)[i] = x PROVE FALSE
    BY DEF Occurs
  <2>1. i + 1 = 1
    BY <1>1, <1>2, <1>4, <1>7 DEF Once
  <2> QED
    BY <1>1, <2>1
<1>8. ASSUME NEW x, NEW y, Before(s, x, y) PROVE Before(Tail(s), x, y)
  <2> SUFFICES ASSUME NEW i \in DOMAIN Tail(s), NEW j \in DOMAIN Tail(s),
                      Tail(s)[i] = x, Tail(s)[j] = y
               PROVE  i < j
    BY DEF Before
  <2>1. i + 1 < j + 1
    BY <1>2, <1>8 DEF Before
  <2> QED
    BY <1>1, <2>1
<1>9. ASSUME NEW x, NEW y, Before(s, x, y), Head(s) = y PROVE ~Occurs(s, x)
  <2> SUFFICES ASSUME NEW i \in DOMAIN s, s[i] = x PROVE FALSE
    BY DEF Occurs
  <2>1. i < 1
    BY <1>1, <1>4, <1>9 DEF Before
  <2> QED
    BY <1>1, <2>1
<1> QED
  BY <1>1, <1>4, <1>5, <1>6, <1>7, <1>8, <1>9

\* What is joined to a queue and is neither x nor y changes nothing for them.
LEMMA Joined ==
    ASSUME NEW S, NEW s \in Seq(S), NEW w \in Seq(S)
    PROVE  /\ s \o w \in Seq(S)
           /\ \A x : Occurs(s \o w, x) <=> Occurs(s, x) \/ Occurs(w, x)
           /\ \A x : Once(s, x) /\ ~Occurs(w, x) => Once(s \o w, x)
<1>1. /\ s \o w \in Seq(S)
      /\ DOMAIN s = 1 .. Len(s) /\ DOMAIN w = 1 .. Len(w)
      /\ DOMAIN (s \o w) = 1 .. Len(s) + Len(w)
      /\ Len(s) \in Nat /\ Len(w) \in Nat
      /\ \A i \in 1 .. Len(s) + Len(w) :
            (s \o w)[i] = IF i <= Len(s) THEN s[i] ELSE w[i - Len(s)]
  BY ConcatProperties
<1>2. \A i \in DOMAIN (s \o w) :
         \/ i \in DOMAIN s /\ (s \o w)[i] = s[i]
         \/ i - Len(s) \in DOMAIN w /\ (s \o w)[i] = w[i - Len(s)]
  BY <1>1
<1>3. \A i \in DOMAIN s : i \in DOMAIN (s \o w) /\ (s \o w)[i] = s[i]
  BY <1>1
<1>4. \A i \in DOMAIN w :
         i + Len(s) \in DOMAIN (s \o w) /\ (s \o w)[i + Len(s)] = w[i]
  BY <1>1
<1>5. ASSUME NEW x PROVE Occurs(s \o w, x) <=> Occurs(s, x) \/ Occurs(w, x)
  BY <1>2, <1>3, <1>4 DEF Occurs
<1>6. ASSUME NEW x, Once(s, x), ~Occurs(w, x) PROVE Once(s \o w, x)
  BY <1>2, <1>6 DEF Once, Occurs
<1> QED
  BY <1>1, <1>5, <1>6

\* There is a first number that has not arrived.
LEMMA FirstMissingIsFirst ==
    ASSUME NEW from \in 1 .. MaxSentences + 1, NEW arrived \in SUBSET Sentences
    PROVE  LET m == FirstMissing(from, arrived)
           IN  /\ m \in from .. MaxSentences + 1
               /\ m \notin arrived
               /\ \A k \in from .. m - 1 : k \in arrived
<1> DEFINE T == {m \in Nat : m >= from /\ m \notin arrived}
           first(m) == m \notin arrived /\ \A k \in from .. m - 1 : k \in arrived
<1>0. MaxSentences \in Nat /\ from \in Nat /\ from <= MaxSentences + 1
  BY DeliveryAssumption
<1>1. MaxSentences + 1 \in T
  BY <1>0 DEF Sentences
<1>2. PICK x \in T : \A y \in T : ~(<<y, x>> \in OpToRel(<, Nat))
  BY <1>1, NatLessThanWellFounded, WFMin
<1>3. \A y \in T : ~(y < x)
  BY <1>2 DEF OpToRel
<1>4. x \in from .. MaxSentences + 1
  BY <1>0, <1>1, <1>3
<1>5. \A k \in from .. x - 1 : k \in arrived
  BY <1>0, <1>3, <1>4
<1>6. x \in from .. from + MaxSentences /\ first(x)
  BY <1>0, <1>4, <1>5
<1>7. FirstMissing(from, arrived) = CHOOSE m \in from .. from + MaxSentences : first(m)
  BY DEF FirstMissing
<1> DEFINE c == FirstMissing(from, arrived)
<1>8. c \in from .. from + MaxSentences /\ first(c)
  BY <1>6, <1>7
<1> HIDE DEF c
<1>9. c <= MaxSentences + 1
  <2> SUFFICES ASSUME c > MaxSentences + 1 PROVE FALSE
    BY <1>0, <1>8
  <2>1. MaxSentences + 1 \in from .. c - 1
    BY <1>0, <1>8
  <2> QED
    BY <1>0, <1>8, <2>1 DEF Sentences
<1> QED
  BY <1>0, <1>8, <1>9 DEF c

\* A payload that is put wakes a sender that waits.
LEMMA WokenIs ==
    ASSUME NEW rest \in Seq(Entries)
    PROVE  /\ Woken(rest) \in Seq(Entries)
           /\ \A x : Occurs(Woken(rest), x)
                        <=> Occurs(rest, x) \/ (x = Sender /\ sender = "waiting")
           /\ \A x : /\ Once(rest, x)
                     /\ sender = "waiting" => x # Sender \/ ~Occurs(rest, Sender)
                     => Once(Woken(rest), x)
<1>1. Sender \in Entries
  BY DEF Entries
<1> QED
  BY <1>1, Appended DEF Woken

\* A task that is done calls gather back, which concerns neither of the two.
LEMMA NotifyIs ==
    ASSUME NEW rest \in Seq(Entries)
    PROVE  /\ Notify(rest) \in Seq(Entries)
           /\ \A x \in {Turn, Sender} : Occurs(Notify(rest), x) <=> Occurs(rest, x)
           /\ \A x \in {Turn, Sender} : Once(rest, x) => Once(Notify(rest), x)
<1>1. Gathered \in Entries
  BY DEF Entries
<1> QED
  BY <1>1, Appended, EntriesDiffer DEF Notify

------------------------------------------------------------------------------
(***************************************************************************)
(* The turn, the sender and the loop's queue.                              *)
(***************************************************************************)
TurnStates == {"chatting", "speaking", "preparing", "chatted", "gather",
               "finalizing", "gatherAgain", "playback", "storing", "closing",
               "awaitsSender", "ended"}

ControlTypes ==
    /\ turn \in TurnStates
    /\ ready \in Seq(Entries)
    /\ sender \in {"none", "scheduled", "waiting", "done"}
    /\ sender = "scheduled" <=> Scheduled(Sender)
    /\ doomed \in SUBSET ({Turn, Sender} \cup {Tts(n) : n \in Sentences})
    /\ uttered \in Seq({"voiced", "silent"})

ControlInv == ControlTypes /\ QueueInv /\ SenderInv

\* What a step does to x in the loop's queue.
Keeps(x) ==
    /\ Occurs(ready', x) <=> Scheduled(x)
    /\ Once(ready, x) => Once(ready', x)

Gains(x) == Occurs(ready', x) /\ (~Scheduled(x) => Once(ready', x))

Loses(x) == Once(ready, x) => ~Occurs(ready', x) /\ Once(ready', x)

\* Nothing moves the turn or the sender.
Quiet ==
    /\ Keeps(Turn) /\ Keeps(Sender)
    /\ UNCHANGED <<turn, sender, uttered>>
    /\ queue' = queue \/ sender # "waiting"
    /\ \A x \in {Turn, Sender} : x \in doomed' <=> x \in doomed

\* A payload wakes the sender.
Wakes ==
    /\ Keeps(Turn) /\ Gains(Sender)
    /\ sender = "waiting" /\ sender' = "scheduled"
    /\ UNCHANGED <<turn, uttered, doomed>>

\* The sender finds nothing to get, and waits; cancelled, it ends.
Sleeps ==
    /\ Keeps(Turn) /\ Loses(Sender)
    /\ Scheduled(Sender) /\ Sender \notin doomed /\ queue = <<>>
    /\ sender' = "waiting"
    /\ UNCHANGED <<turn, uttered, doomed, queue>>

Ends ==
    /\ Gains(Turn) /\ Loses(Sender)
    /\ Sender \in doomed /\ doomed' = doomed \ {Sender}
    /\ sender' = "done"
    /\ UNCHANGED <<turn, uttered, queue>>

\* The suspended turn is scheduled, by what it waited for or by a cancellation.
Resumes ==
    /\ turn \notin {"awaitsSender", "ended"} /\ ~Busy
    /\ Gains(Turn) /\ Keeps(Sender) /\ ~Scheduled(Turn)
    /\ doomed' = doomed \/ doomed' = doomed \cup {Turn}
    /\ UNCHANGED <<turn, sender, uttered, queue>>

\* It is cancelled where its cancellation is already under way or runs.
Cancels ==
    /\ turn \notin {"awaitsSender", "ended"} /\ ~Busy
    /\ Keeps(Turn) /\ Keeps(Sender)
    /\ Turn \in doomed' /\ (Sender \in doomed' <=> Sender \in doomed)
    /\ UNCHANGED <<turn, sender, uttered, queue>>

\* The turn runs again and goes on from one place to the next.
TurnGoes ==
    /\ Scheduled(Turn) /\ Loses(Turn)
    /\ \/ Keeps(Sender) /\ UNCHANGED <<sender, queue>>
       \/ /\ sender # "waiting" /\ Keeps(Sender) /\ UNCHANGED sender
       \/ sender = "waiting" /\ sender' = "scheduled" /\ Gains(Sender)
    /\ UNCHANGED uttered
    /\ turn \notin {"awaitsSender", "ended"} /\ turn' \notin {"awaitsSender", "ended"}
    /\ \/ Turn \notin doomed /\ UNCHANGED doomed
       \/ doomed' = doomed \ {Turn}

TurnCloses ==
    /\ Scheduled(Turn) /\ Loses(Turn) /\ Keeps(Sender)
    /\ turn = "awaitsSender" /\ turn' = "ended"
    /\ UNCHANGED <<sender, uttered, doomed>>
    /\ queue' = <<>>

\* The running turn goes on, suspends, speaks, or closes.
TurnRunsOn ==
    /\ Busy
    /\ UNCHANGED <<ready, sender, uttered, queue, doomed>>
    /\ turn' \notin {"awaitsSender", "ended"}

TurnSpeaks ==
    /\ turn = "speaking" /\ turn' \notin {"awaitsSender", "ended"}
    /\ Keeps(Turn)
    /\ \/ sender \in {"none", "done"} /\ sender' = "scheduled" /\ Gains(Sender)
       \/ sender \in {"scheduled", "waiting"} /\ UNCHANGED sender /\ Keeps(Sender)
    /\ UNCHANGED <<queue, doomed>>

TurnEnds ==
    /\ Busy /\ Keeps(Turn) /\ UNCHANGED <<uttered, queue>>
    /\ \/ /\ sender \in {"none", "done"} /\ turn' = "ended"
          /\ UNCHANGED <<ready, sender, doomed>>
       \/ /\ sender \in {"scheduled", "waiting"} /\ turn' = "awaitsSender"
          /\ sender' = "scheduled" /\ doomed' = doomed \cup {Sender}
          /\ sender = "waiting" => Gains(Sender)
          /\ sender = "scheduled" => Keeps(Sender)

ControlStep ==
    \/ Quiet \/ Wakes \/ Sleeps \/ Ends
    \/ Resumes \/ Cancels
    \/ TurnGoes \/ TurnCloses
    \/ TurnRunsOn \/ TurnSpeaks \/ TurnEnds

ControlTypesNext ==
    /\ turn' \in TurnStates
    /\ ready' \in Seq(Entries)
    /\ doomed' \in SUBSET ({Turn, Sender} \cup {Tts(n) : n \in Sentences})
    /\ uttered' \in Seq({"voiced", "silent"})

\* Each of these steps keeps the invariant of the turn and the sender.
LEMMA ControlKept ==
    ASSUME ControlInv, ControlStep, ControlTypesNext
    PROVE  ControlInv'
<1>0. /\ \A x : Occurs(ready, x) <=> Scheduled(x)
      /\ \A x : Occurs(ready', x) <=> Scheduled(x)'
      /\ Turn # Sender
  BY EntriesDiffer DEF Occurs, Scheduled
<1> USE DEF ControlInv, ControlTypes, ControlTypesNext, QueueInv, SenderInv,
            Keeps, Gains, Loses
<1>1. CASE Quiet
  BY <1>0, <1>1 DEF Quiet, Busy
<1>2. CASE Wakes
  BY <1>0, <1>2 DEF Wakes, Busy
<1>3. CASE Sleeps
  BY <1>0, <1>3 DEF Sleeps, Busy
<1>4. CASE Ends
  BY <1>0, <1>4 DEF Ends, Busy
<1>5. CASE Resumes
  BY <1>0, <1>5 DEF Resumes, Busy
<1>6. CASE Cancels
  BY <1>0, <1>6 DEF Cancels, Busy
<1>7. CASE TurnGoes
  BY <1>0, <1>7 DEF TurnGoes, Busy
<1>8. CASE TurnCloses
  BY <1>0, <1>8 DEF TurnCloses, Busy
<1>9. CASE TurnRunsOn
  BY <1>0, <1>9 DEF TurnRunsOn, Busy
<1>10. CASE TurnSpeaks
  BY <1>0, <1>10 DEF TurnSpeaks, Busy
<1>11. CASE TurnEnds
  BY <1>0, <1>11 DEF TurnEnds, Busy
<1> QED
  BY <1>1, <1>2, <1>3, <1>4, <1>5, <1>6, <1>7, <1>8, <1>9, <1>10, <1>11
     DEF ControlStep

\* The tasks a cancellation wakes are neither the turn nor the sender.
LEMMA WokenTasks ==
    ASSUME NEW S \in SUBSET Sentences, NEW woken \in Ascending(S)
    PROVE  LET w == [i \in DOMAIN woken |-> Tts(woken[i])]
           IN  /\ w \in Seq(Entries)
               /\ ~Occurs(w, Turn) /\ ~Occurs(w, Sender)
<1> DEFINE w == [i \in DOMAIN woken |-> Tts(woken[i])]
<1>1. IsFiniteSet(1 .. MaxSentences)
  BY DeliveryAssumption, FS_Interval
<1>2. Cardinality(S) \in Nat
  BY <1>1, FS_Subset, FS_CardinalityType DEF Sentences
<1>3. woken \in [1 .. Cardinality(S) -> S]
  BY DEF Ascending
<1>4. \A i \in DOMAIN woken : woken[i] \in Sentences
  BY <1>3
<1>5. \A i \in DOMAIN w : w[i] \in Entries /\ w[i] # Turn /\ w[i] # Sender
  BY <1>4, EntriesDiffer DEF Entries
<1>6. w \in [1 .. Cardinality(S) -> Entries]
  BY <1>3, <1>5
<1>7. w \in Seq(Entries)
  BY <1>2, <1>6
<1> QED
  BY <1>5, <1>7 DEF Occurs

\* What running the callback at the head of the queue leaves behind.
LEMMA RunsTakes ==
    ASSUME ControlInv, NEW t \in Entries, Runs(t)
    PROVE  /\ ready # <<>> /\ Head(ready) = t
           /\ ~Busy /\ Scheduled(t)
           /\ Tail(ready) \in Seq(Entries)
           /\ \A x : x # t => (Occurs(Tail(ready), x) <=> Scheduled(x))
           /\ \A x : Once(ready, x) => Once(Tail(ready), x)
           /\ Once(ready, t) => ~Occurs(Tail(ready), t)
           /\ \A x, y : Before(ready, x, y) => Before(Tail(ready), x, y)
           /\ \A x : Before(ready, x, t) => ~Scheduled(x)
<1>1. ready \in Seq(Entries)
  BY DEF ControlInv, ControlTypes
<1>2. ready # <<>> /\ Head(ready) = t /\ ~Busy
  BY DEF Runs
<1>3. \A x : Scheduled(x) <=> Occurs(ready, x)
  BY DEF Scheduled, Occurs
<1> QED
  BY <1>1, <1>2, <1>3, Taken

\* Steps of the sender, of the tasks and of gather.
LEMMA TaskControl ==
    ASSUME ControlInv,
           \/ SenderGets \/ SenderCancelled \/ GatherCalledBack
           \/ \E n \in Sentences :
                 TtsStarts(n) \/ TtsPuts(n) \/ TtsCancelled(n) \/ ThreadReturns(n)
    PROVE  ControlStep /\ ControlTypesNext
<1>0. /\ \A x : Scheduled(x) <=> Occurs(ready, x)
      /\ ControlTypes /\ QueueInv
      /\ {Turn, Sender, Gathered} \subseteq Entries
      /\ \A n \in Sentences : Tts(n) \in Entries
      /\ doomed \in SUBSET ({Turn, Sender} \cup {Tts(n) : n \in Sentences})
  BY DEF Scheduled, Occurs, ControlInv, ControlTypes, Entries
<1> USE DEF ControlStep, ControlTypesNext, ControlTypes
<1>1. CASE SenderGets
  <2>1. CASE queue = <<>>
    <3>1. Keeps(Turn) /\ Loses(Sender) /\ Scheduled(Sender) /\ ready' \in Seq(Entries)
      BY <1>0, <1>1, <2>1, RunsTakes, EntriesDiffer DEF SenderGets, Keeps, Loses
    <3> QED
      BY <1>0, <1>1, <2>1, <3>1 DEF SenderGets, Sleeps
  <2>2. CASE queue # <<>>
    <3>1. sender = "scheduled"
      BY <1>0, <1>1, RunsTakes DEF SenderGets
    <3> QED
      BY <1>0, <1>1, <2>2, <3>1 DEF SenderGets, Quiet, Keeps, Occurs, Scheduled
  <2> QED
    BY <2>1, <2>2
<1>2. CASE SenderCancelled
  <2>1. Runs(Sender) /\ Sender \in doomed /\ ready' = Append(Tail(ready), Turn)
    BY <1>2 DEF SenderCancelled, OnCancel
  <2>2. ready' \in Seq(Entries) /\ Gains(Turn) /\ Loses(Sender)
    <3>1. /\ Tail(ready) \in Seq(Entries)
          /\ Occurs(Tail(ready), Turn) <=> Scheduled(Turn)
          /\ Once(ready, Sender)
                => ~Occurs(Tail(ready), Sender) /\ Once(Tail(ready), Sender)
          /\ Once(ready, Turn) => Once(Tail(ready), Turn)
      BY <1>0, <2>1, RunsTakes, EntriesDiffer
    <3> QED
      BY ZenonT(30), <1>0, <2>1, <3>1, Appended, EntriesDiffer DEF Gains, Loses, QueueInv
  <2> QED
    BY <1>0, <1>2, <2>1, <2>2 DEF SenderCancelled, OnCancel, Ends
<1>3. CASE GatherCalledBack
  <2>1. /\ Runs(Gathered) /\ UNCHANGED <<turn, sender, uttered, queue, doomed>>
        /\ \/ ready' = Tail(ready)
           \/ /\ ready' = Append(Tail(ready), Turn) /\ ~Scheduled(Turn)
              /\ turn \in {"gather", "gatherAgain"}
    BY <1>3 DEF GatherCalledBack
  <2>2. /\ Tail(ready) \in Seq(Entries) /\ ~Busy
        /\ \A x \in {Turn, Sender} : Occurs(Tail(ready), x) <=> Scheduled(x)
        /\ \A x : Once(ready, x) => Once(Tail(ready), x)
    BY <1>0, <2>1, RunsTakes, EntriesDiffer
  <2>3. CASE ready' = Tail(ready)
    <3>1. Keeps(Turn) /\ Keeps(Sender)
      BY <2>2, <2>3 DEF Keeps
    <3> QED
      BY <1>0, <2>1, <2>2, <2>3, <3>1 DEF Quiet
  <2>4. CASE /\ ready' = Append(Tail(ready), Turn) /\ ~Scheduled(Turn)
             /\ turn \in {"gather", "gatherAgain"}
    <3>0. /\ ready' \in Seq(Entries)
          /\ \A x : Occurs(ready', x) <=> Occurs(Tail(ready), x) \/ x = Turn
          /\ \A x : Once(Tail(ready), x) /\ (x # Turn \/ ~Occurs(Tail(ready), x))
                       => Once(ready', x)
      BY ZenonT(30), <1>0, <2>2, <2>4, Appended
    <3>1. Gains(Turn) /\ Keeps(Sender)
      BY <1>0, <2>2, <2>4, <3>0, EntriesDiffer DEF Gains, Keeps, QueueInv
    <3> QED
      BY <1>0, <2>1, <2>2, <2>4, <3>0, <3>1 DEF Resumes
  <2> QED
    BY <2>1, <2>3, <2>4
<1>4. ASSUME NEW n \in Sentences, TtsStarts(n) PROVE ControlStep /\ ControlTypesNext
  <2>1. ready' \in Seq(Entries) /\ Keeps(Turn) /\ Keeps(Sender)
    BY <1>0, <1>4, RunsTakes, EntriesDiffer DEF TtsStarts, Keeps
  <2> QED
    BY <1>0, <1>4, <2>1 DEF TtsStarts, Quiet
<1>5. ASSUME NEW n \in Sentences, TtsPuts(n) PROVE ControlStep /\ ControlTypesNext
  <2>1. /\ Runs(Tts(n)) /\ ready' = Notify(Woken(Tail(ready)))
        /\ UNCHANGED <<turn, uttered, doomed>>
        /\ sender' = IF sender = "waiting" THEN "scheduled" ELSE sender
    BY <1>5 DEF TtsPuts, Voice, Put
  <2>2. /\ Tail(ready) \in Seq(Entries)
        /\ \A x \in {Turn, Sender} : Occurs(Tail(ready), x) <=> Scheduled(x)
        /\ \A x : Once(ready, x) => Once(Tail(ready), x)
    BY <1>0, <2>1, RunsTakes, EntriesDiffer
  <2> DEFINE rest == Woken(Tail(ready))
  <2>3. /\ rest \in Seq(Entries)
        /\ Occurs(rest, Turn) <=> Scheduled(Turn)
        /\ Occurs(rest, Sender) <=> Scheduled(Sender) \/ sender = "waiting"
        /\ Once(ready, Turn) => Once(rest, Turn)
        /\ Once(ready, Sender) /\ (sender = "waiting" => ~Scheduled(Sender))
              => Once(rest, Sender)
    BY <2>2, WokenIs, EntriesDiffer
  <2> HIDE DEF rest
  <2>4. /\ ready' \in Seq(Entries)
        /\ \A x \in {Turn, Sender} : Occurs(ready', x) <=> Occurs(rest, x)
        /\ \A x \in {Turn, Sender} : Once(rest, x) => Once(ready', x)
    BY <2>1, <2>3, NotifyIs DEF rest
  <2>5. CASE sender = "waiting"
    <3>1. Keeps(Turn) /\ Gains(Sender)
      BY <1>0, <2>3, <2>4, <2>5 DEF Keeps, Gains, QueueInv
    <3> QED
      BY <1>0, <2>1, <2>4, <2>5, <3>1 DEF Wakes
  <2>6. CASE sender # "waiting"
    <3>1. Keeps(Turn) /\ Keeps(Sender)
      BY <2>3, <2>4, <2>6 DEF Keeps
    <3> QED
      BY <1>0, <2>1, <2>4, <2>6, <3>1 DEF Quiet
  <2> QED
    BY <2>5, <2>6
<1>6. ASSUME NEW n \in Sentences, TtsCancelled(n) PROVE ControlStep /\ ControlTypesNext
  <2>1. /\ Runs(Tts(n)) /\ ready' = Notify(Tail(ready))
        /\ UNCHANGED <<turn, sender, uttered, queue>>
        /\ doomed' = doomed \ {Tts(n)}
    BY <1>6 DEF TtsCancelled
  <2>2. /\ Tail(ready) \in Seq(Entries)
        /\ \A x \in {Turn, Sender} : Occurs(Tail(ready), x) <=> Scheduled(x)
        /\ \A x : Once(ready, x) => Once(Tail(ready), x)
    BY <1>0, <2>1, RunsTakes, EntriesDiffer
  <2>3. ready' \in Seq(Entries) /\ Keeps(Turn) /\ Keeps(Sender)
    BY <2>1, <2>2, NotifyIs DEF Keeps
  <2> QED
    BY <1>0, <2>1, <2>3, EntriesDiffer DEF Quiet
<1>7. ASSUME NEW n \in Sentences, ThreadReturns(n) PROVE ControlStep /\ ControlTypesNext
  <2>1. ready' \in Seq(Entries) /\ Keeps(Turn) /\ Keeps(Sender)
    BY <1>0, <1>7, Appended, EntriesDiffer DEF ThreadReturns, Keeps
  <2> QED
    BY <1>0, <1>7, <2>1 DEF ThreadReturns, Quiet
<1> QED
  BY <1>1, <1>2, <1>3, <1>4, <1>5, <1>6, <1>7

\* Steps of the turn, and what happens to it from outside.
LEMMA TurnControl ==
    ASSUME TypeOK, ControlInv,
           \/ Prepared \/ Hear \/ AfterGather \/ AfterPlayback \/ Stored
           \/ Chatted \/ Finalize \/ TurnCancelled \/ Close \/ Closed
           \/ Utter \/ Resume \/ Interrupt
    PROVE  ControlStep /\ ControlTypesNext
<1>0. /\ \A x : Scheduled(x) <=> Occurs(ready, x)
      /\ ControlTypes /\ QueueInv /\ SenderInv
      /\ {Turn, Sender, Gathered} \subseteq Entries
      /\ \A n \in Sentences : Tts(n) \in Entries
      /\ doomed \in SUBSET ({Turn, Sender} \cup {Tts(n) : n \in Sentences})
  BY DEF Scheduled, Occurs, ControlInv, ControlTypes, Entries
<1> USE DEF ControlStep, ControlTypesNext, ControlTypes
<1>1. ASSUME Runs(Turn)
      PROVE  /\ Tail(ready) \in Seq(Entries) /\ Scheduled(Turn)
             /\ Occurs(Tail(ready), Sender) <=> Scheduled(Sender)
             /\ Once(ready, Sender) => Once(Tail(ready), Sender)
             /\ Once(ready, Turn) =>
                   ~Occurs(Tail(ready), Turn) /\ Once(Tail(ready), Turn)
  BY <1>0, <1>1, RunsTakes, EntriesDiffer
<1>2. ASSUME Runs(Turn), ready' = Tail(ready)
      PROVE  /\ ready' \in Seq(Entries) /\ Scheduled(Turn)
             /\ Loses(Turn) /\ Keeps(Sender)
  BY <1>1, <1>2 DEF Loses, Keeps
<1>3. ASSUME UNCHANGED ready PROVE Keeps(Turn) /\ Keeps(Sender)
  BY <1>3 DEF Keeps, Occurs, Scheduled
<1>4. CASE Prepared
  <2>1. /\ Runs(Turn) /\ ready' = Woken(Tail(ready)) /\ Turn \notin doomed
        /\ turn = "preparing" /\ turn' = "speaking" /\ UNCHANGED <<uttered, doomed>>
        /\ sender' = IF sender = "waiting" THEN "scheduled" ELSE sender
    BY <1>4 DEF Prepared, TurnRuns, Put
  <2>2. /\ ready' \in Seq(Entries)
        /\ Occurs(ready', Turn) <=> Occurs(Tail(ready), Turn)
        /\ Occurs(ready', Sender)
              <=> Occurs(Tail(ready), Sender) \/ sender = "waiting"
        /\ Once(Tail(ready), Turn) => Once(ready', Turn)
        /\ Once(Tail(ready), Sender)
           /\ (sender = "waiting" => ~Occurs(Tail(ready), Sender))
              => Once(ready', Sender)
    BY <1>1, <2>1, WokenIs, EntriesDiffer
  <2>3. Loses(Turn) /\ Scheduled(Turn)
    BY <1>1, <2>1, <2>2 DEF Loses
  <2>4. CASE sender = "waiting"
    <3>1. Gains(Sender)
      BY <1>0, <1>1, <2>1, <2>2, <2>4 DEF Gains, QueueInv
    <3> QED
      BY <1>0, <2>1, <2>2, <2>3, <2>4, <3>1 DEF TurnGoes, TurnStates
  <2>5. CASE sender # "waiting"
    <3>1. Keeps(Sender)
      BY <1>1, <2>1, <2>2, <2>5 DEF Keeps
    <3> QED
      BY <1>0, <2>1, <2>2, <2>3, <2>5, <3>1 DEF TurnGoes, TurnStates
  <2> QED
    BY <2>4, <2>5
<1>5. CASE Hear
  BY <1>0, <1>2, <1>5 DEF Hear, TurnRuns, TurnGoes, TurnStates
<1>6. CASE AfterGather
  BY <1>0, <1>2, <1>6 DEF AfterGather, TurnRuns, TurnGoes, TurnStates
<1>7. CASE AfterPlayback
  BY <1>0, <1>2, <1>7 DEF AfterPlayback, AfterTurn, TurnRuns, TurnGoes, TurnStates
<1>8. CASE Stored
  BY <1>0, <1>2, <1>8 DEF Stored, TurnRuns, TurnGoes, TurnStates
<1>9. CASE TurnCancelled
  BY <1>0, <1>2, <1>9 DEF TurnCancelled, TurnGoes, TurnStates, SenderInv
<1>10. CASE Closed
  BY <1>0, <1>2, <1>10 DEF Closed, TurnRuns, TurnCloses, TurnStates
<1>11. CASE Chatted \/ Finalize \/ AwaitModel \/ StopSpeaking
  BY <1>0, <1>11 DEF Chatted, Finalize, AwaitModel, StopSpeaking, AfterTurn, Busy,
                     TurnRunsOn, TurnStates
<1>12. CASE Close
  <2>1. CASE sender \in {"scheduled", "waiting"}
    <3>1. /\ ready' = Woken(ready) /\ turn' = "awaitsSender" /\ turn = "closing"
          /\ sender' = "scheduled" /\ doomed' = doomed \cup {Sender}
          /\ UNCHANGED <<uttered, queue>>
      BY <1>12, <2>1 DEF Close, CancelSender
    <3>2. /\ ready' \in Seq(Entries)
          /\ Occurs(ready', Turn) <=> Scheduled(Turn)
          /\ Occurs(ready', Sender) <=> Scheduled(Sender) \/ sender = "waiting"
          /\ Once(ready, Turn) => Once(ready', Turn)
          /\ Once(ready, Sender) /\ (sender = "waiting" => ~Scheduled(Sender))
                => Once(ready', Sender)
      BY <1>0, <3>1, WokenIs, EntriesDiffer
    <3>3. /\ Keeps(Turn)
          /\ sender = "waiting" => Gains(Sender)
          /\ sender = "scheduled" => Keeps(Sender)
      BY <1>0, <3>2 DEF Keeps, Gains, QueueInv
    <3> QED
      BY <1>0, <2>1, <3>1, <3>2, <3>3 DEF TurnEnds, Busy, TurnStates
  <2>2. CASE sender \notin {"scheduled", "waiting"}
    BY <1>0, <1>3, <1>12, <2>2 DEF Close, CancelSender, TurnEnds, Busy, TurnStates
  <2> QED
    BY <2>1, <2>2
<1>13. CASE SpeakVoiced \/ SpeakSilent
  <2>1. /\ turn = "speaking" /\ turn' \in {"speaking", "preparing"}
        /\ sender' = IF sender \in {"none", "done"} THEN "scheduled" ELSE sender
        /\ UNCHANGED <<queue, doomed>>
        /\ \E how \in {"voiced", "silent"} : uttered' = Append(uttered, how)
        /\ \/ ready' = WithSender
           \/ \E n \in Sentences : ready' = Append(WithSender, Tts(n))
    BY <1>13, DeliveryAssumption DEF SpeakVoiced, SpeakSilent, Speak, TypeOK, Sentences
  <2>2. /\ WithSender \in Seq(Entries)
        /\ Occurs(WithSender, Turn) <=> Scheduled(Turn)
        /\ Occurs(WithSender, Sender)
              <=> Scheduled(Sender) \/ sender \in {"none", "done"}
        /\ Once(ready, Turn) => Once(WithSender, Turn)
        /\ Once(ready, Sender) /\ (sender \in {"none", "done"} => ~Scheduled(Sender))
              => Once(WithSender, Sender)
    BY <1>0, Appended, EntriesDiffer DEF WithSender
  <2>3. /\ ready' \in Seq(Entries)
        /\ \A x \in {Turn, Sender} : Occurs(ready', x) <=> Occurs(WithSender, x)
        /\ \A x \in {Turn, Sender} : Once(WithSender, x) => Once(ready', x)
    <3>1. CASE ready' = WithSender
      BY <2>2, <3>1
    <3>2. ASSUME NEW n \in Sentences, ready' = Append(WithSender, Tts(n))
          PROVE  /\ ready' \in Seq(Entries)
                 /\ \A x \in {Turn, Sender} : Occurs(ready', x) <=> Occurs(WithSender, x)
                 /\ \A x \in {Turn, Sender} : Once(WithSender, x) => Once(ready', x)
      <4>1. Tts(n) \in Entries /\ Tts(n) # Turn /\ Tts(n) # Sender
        BY <1>0, EntriesDiffer
      <4> DEFINE rest == WithSender
      <4>2. rest \in Seq(Entries) /\ ready' = Append(rest, Tts(n))
        BY <2>2, <3>2
      <4> HIDE DEF rest
      <4>3. /\ ready' \in Seq(Entries)
            /\ \A x \in {Turn, Sender} : Occurs(ready', x) <=> Occurs(rest, x)
            /\ \A x \in {Turn, Sender} : Once(rest, x) => Once(ready', x)
        BY <4>1, <4>2, Appended
      <4> QED
        BY <4>3 DEF rest
    <3> QED
      BY <2>1, <3>1, <3>2
  <2>4. /\ Keeps(Turn)
        /\ sender \in {"none", "done"} => Gains(Sender)
        /\ sender \in {"scheduled", "waiting"} => Keeps(Sender)
    BY <1>0, <2>2, <2>3 DEF Keeps, Gains, QueueInv
  <2>5. uttered' \in Seq({"voiced", "silent"})
    BY <1>0, <2>1
  <2> QED
    BY <1>0, <2>1, <2>3, <2>4, <2>5 DEF TurnSpeaks, TurnStates
<1>14. ASSUME ready' = Append(ready, Turn), ~Scheduled(Turn)
       PROVE  ready' \in Seq(Entries) /\ Gains(Turn) /\ Keeps(Sender)
  <2>1. /\ ready' \in Seq(Entries)
        /\ \A x : Occurs(ready', x) <=> Scheduled(x) \/ x = Turn
        /\ \A x : Once(ready, x) /\ (x # Turn \/ ~Scheduled(x)) => Once(ready', x)
    BY <1>0, <1>14, Appended
  <2> QED
    BY <1>0, <1>14, <2>1, EntriesDiffer DEF Gains, Keeps, QueueInv
<1>15. CASE Resume
  BY <1>0, <1>14, <1>15 DEF Resume, Resumes, Busy
<1>16. CASE Interrupt
  <2> DEFINE pending == {n \in TaskList : task[n] \notin {"done", "cancelled"}}
             resting == {n \in pending : task[n] = "working"}
  <2>1. /\ ~Busy /\ turn \notin {"awaitsSender", "ended"}
        /\ UNCHANGED <<turn, uttered, sender, queue>>
    BY <1>16 DEF Interrupt
  <2>2. TaskList \subseteq Sentences
    BY DeliveryAssumption DEF TypeOK, TaskList, Sentences
  <2>3. CASE turn \in {"gather", "gatherAgain"}
    <3>1. doomed' = doomed \cup {Turn} \cup {Tts(n) : n \in pending}
      BY <1>16, <2>3 DEF Interrupt
    <3>2. PICK woken \in Ascending(resting) :
             ready' = ready \o [i \in DOMAIN woken |-> Tts(woken[i])]
      BY <1>16, <2>3 DEF Interrupt
    <3> DEFINE w == [i \in DOMAIN woken |-> Tts(woken[i])]
    <3>3. w \in Seq(Entries) /\ ~Occurs(w, Turn) /\ ~Occurs(w, Sender)
      BY <2>2, WokenTasks
    <3>4. ready' = ready \o w
      BY <3>2
    <3> HIDE DEF w
    <3>5. ready' \in Seq(Entries) /\ Keeps(Turn) /\ Keeps(Sender)
      BY <1>0, <3>3, <3>4, Joined DEF Keeps
    <3>6. /\ Turn \in doomed' /\ (Sender \in doomed' <=> Sender \in doomed)
          /\ doomed' \in SUBSET ({Turn, Sender} \cup {Tts(n) : n \in Sentences})
      BY <1>0, <2>2, <3>1, EntriesDiffer
    <3> QED
      BY <1>0, <2>1, <3>5, <3>6 DEF Cancels
  <2>4. CASE turn \notin {"gather", "gatherAgain"}
    <3>1. /\ doomed' = doomed \cup {Turn}
          /\ ready' = IF Scheduled(Turn) THEN ready ELSE Append(ready, Turn)
      BY <1>16, <2>4 DEF Interrupt
    <3>2. CASE Scheduled(Turn)
      BY <1>0, <1>3, <2>1, <3>1, <3>2, EntriesDiffer DEF Cancels
    <3>3. CASE ~Scheduled(Turn)
      BY <1>0, <1>14, <2>1, <3>1, <3>3 DEF Resumes
    <3> QED
      BY <3>2, <3>3
  <2> QED
    BY <2>3, <2>4
<1> QED
  BY <1>4, <1>5, <1>6, <1>7, <1>8, <1>9, <1>10, <1>11, <1>12, <1>13, <1>15, <1>16
     DEF Utter

\* Every step is one of these.
LEMMA ControlSteps ==
    TypeOK /\ ControlInv /\ [Next]_vars => ControlStep /\ ControlTypesNext
<1> SUFFICES ASSUME TypeOK, ControlInv, [Next]_vars
             PROVE  ControlStep /\ ControlTypesNext
  OBVIOUS
<1>1. CASE UNCHANGED vars
  BY <1>1 DEF vars, ControlInv, ControlTypes, ControlTypesNext, ControlStep, Quiet,
              Keeps, Scheduled, Occurs
<1>2. CASE Done
  BY <1>1, <1>2 DEF Done
<1> QED
  BY <1>1, <1>2, TaskControl, TurnControl DEF Next, Loop

------------------------------------------------------------------------------
(***************************************************************************)
(* The payloads and the wire.                                              *)
(***************************************************************************)
WireTypes ==
    /\ buffered \in SUBSET Sentences
    /\ next \in 1 .. MaxSentences + 1
    /\ wire \in Seq(Messages)

\* A payload arrives at the sender, or the client gets a control message.
WireStep ==
    \/ UNCHANGED <<wire, buffered, next>>
    \/ \E n \in Sentences : Deliver(n)
    \/ /\ \E m \in {SynthComplete, ChainEnd} : wire' = Append(wire, m)
       /\ UNCHANGED <<buffered, next>>

\* What Deliver does: it sends the payloads from next up to the first that
\* has not arrived, and keeps the others.
LEMMA DeliverSends ==
    ASSUME WireTypes, NEW n \in Sentences, Deliver(n)
    PROVE  /\ next' \in next .. MaxSentences + 1
           /\ next' \notin buffered'
           /\ buffered' \in SUBSET Sentences
           /\ \A k \in buffered \cup {n} : k < next' \/ k \in buffered'
           /\ wire' \in Seq(Messages)
           /\ Len(wire') = Len(wire) + (next' - next)
           /\ \A i \in 1 .. Len(wire) : wire'[i] = wire[i]
           /\ \A i \in Len(wire) + 1 .. Len(wire') :
                 wire'[i] = Audio(next + (i - Len(wire)) - 1)
<1> DEFINE arrived == buffered \cup {n}
           m == FirstMissing(next, arrived)
           s == [i \in 1 .. m - next |-> Audio(next + i - 1)]
<1>0. /\ arrived \in SUBSET Sentences /\ next \in 1 .. MaxSentences + 1
      /\ wire \in Seq(Messages) /\ MaxSentences \in Nat
  BY DeliveryAssumption DEF WireTypes
<1>1. /\ m \in next .. MaxSentences + 1
      /\ m \notin arrived
      /\ \A k \in next .. m - 1 : k \in arrived
  BY <1>0, FirstMissingIsFirst
<1>2. wire' = wire \o s /\ next' = m /\ buffered' = {k \in arrived : k >= m}
  BY DEF Deliver
<1> HIDE DEF m, arrived
<1>3. \A i \in 1 .. m - next : Audio(next + i - 1) \in Messages
  <2>1. \A i \in 1 .. m - next : next + i - 1 \in Sentences
    BY <1>0, <1>1 DEF Sentences
  <2> QED
    BY <2>1 DEF Messages
<1>4. /\ s \in Seq(Messages) /\ Len(s) = m - next
      /\ \A i \in 1 .. m - next : s[i] = Audio(next + i - 1)
  BY <1>0, <1>1, <1>3
<1> HIDE DEF s
<1>5. /\ wire' \in Seq(Messages)
      /\ Len(wire') = Len(wire) + (m - next)
      /\ \A i \in 1 .. Len(wire') :
            wire'[i] = IF i <= Len(wire) THEN wire[i] ELSE s[i - Len(wire)]
  <2>1. /\ wire \o s \in Seq(Messages)
        /\ Len(wire \o s) = Len(wire) + Len(s)
        /\ \A i \in 1 .. Len(wire) + Len(s) :
              (wire \o s)[i] = IF i <= Len(wire) THEN wire[i] ELSE s[i - Len(wire)]
    BY <1>0, <1>4, ConcatProperties
  <2> QED
    BY <1>2, <1>4, <2>1
<1>6. ASSUME NEW i \in Len(wire) + 1 .. Len(wire')
      PROVE  wire'[i] = Audio(next + (i - Len(wire)) - 1)
  <2>1. /\ i \in 1 .. Len(wire') /\ ~(i <= Len(wire))
        /\ i - Len(wire) \in 1 .. m - next
    BY <1>0, <1>1, <1>5
  <2> QED
    BY <1>4, <1>5, <2>1
<1>7. ASSUME NEW i \in 1 .. Len(wire)
      PROVE  wire'[i] = wire[i]
  <2>1. i \in 1 .. Len(wire') /\ i <= Len(wire)
    BY <1>0, <1>1, <1>5
  <2> QED
    BY <1>5, <2>1
<1>8. buffered' \in SUBSET Sentences /\ next' \notin buffered'
  BY <1>0, <1>1, <1>2
<1>9. \A k \in arrived : k < next' \/ k \in buffered'
  BY <1>0, <1>1, <1>2 DEF Sentences
<1> QED
  BY <1>1, <1>2, <1>5, <1>6, <1>7, <1>8, <1>9 DEF arrived

\* What is sent stays sent, and where it is.
Grows ==
    /\ Len(wire') >= Len(wire)
    /\ \A i \in 1 .. Len(wire) : wire'[i] = wire[i]

\* Numbers below a bound, and their places behind what has been sent.
LEMMA InReach ==
    /\ \A m \in Nat : \A n \in 1 .. m - 1 : n \in Nat /\ 1 <= n /\ n < m
    /\ \A l, k, m, n \in Nat : k <= n /\ n < m
          => l + (n - k) + 1 \in l + 1 .. l + (m - k)
OBVIOUS

\* The payloads on the wire stay in order.
LEMMA WireKept ==
    ASSUME WireTypes, WireInv, WireStep
    PROVE  WireTypes' /\ WireInv' /\ Grows /\ next' >= next
<1>0. /\ next \in Nat \ {0} /\ next \in 1 .. MaxSentences + 1
      /\ wire \in Seq(Messages) /\ Len(wire) \in Nat /\ DOMAIN wire = 1 .. Len(wire)
      /\ MaxSentences \in Nat /\ Sentences = 1 .. MaxSentences
  BY DeliveryAssumption DEF WireTypes, Sentences
<1>1. CASE UNCHANGED <<wire, buffered, next>>
  BY <1>0, <1>1 DEF WireTypes, WireInv, InOrder, Grows
<1>2. ASSUME NEW m \in {SynthComplete, ChainEnd}, wire' = Append(wire, m),
             UNCHANGED <<buffered, next>>
      PROVE  WireTypes' /\ WireInv' /\ Grows /\ next' >= next
  <2>1. /\ wire' \in Seq(Messages) /\ Len(wire') = Len(wire) + 1
        /\ DOMAIN wire' = 1 .. Len(wire) + 1
        /\ \A i \in 1 .. Len(wire) : wire'[i] = wire[i]
        /\ wire'[Len(wire) + 1] = m
    BY <1>0, <1>2 DEF Messages
  <2>2. \A n : \A j \in DOMAIN wire' : wire'[j] = Audio(n) =>
           j \in 1 .. Len(wire) /\ wire[j] = Audio(n)
    BY <1>0, <1>2, <2>1, MessagesDiffer
  <2>3. InOrder'
    <3> SUFFICES ASSUME NEW j \in DOMAIN wire', NEW n \in Sentences,
                        wire'[j] = Audio(n)
                 PROVE  /\ \A i \in 1 .. j - 1 : wire'[i] # Audio(n)
                        /\ n > 1 => \E i \in 1 .. j - 1 : wire'[i] = Audio(n - 1)
      BY DEF InOrder
    <3>1. j \in 1 .. Len(wire) /\ wire[j] = Audio(n)
      BY <2>2
    <3>2. /\ \A i \in 1 .. j - 1 : wire[i] # Audio(n)
          /\ n > 1 => \E i \in 1 .. j - 1 : wire[i] = Audio(n - 1)
      BY <1>0, <3>1 DEF WireInv, InOrder
    <3>3. \A i \in 1 .. j - 1 : wire'[i] = wire[i]
      BY <1>0, <2>1, <3>1
    <3> QED
      BY <3>2, <3>3
  <2>4. \A n \in 1 .. next - 1 : \E i \in DOMAIN wire' : wire'[i] = Audio(n)
    BY <1>0, <2>1 DEF WireInv
  <2>5. \A i \in DOMAIN wire', n \in Sentences : wire'[i] = Audio(n) => n < next
    BY <1>0, <2>2 DEF WireInv
  <2> QED
    BY <1>0, <1>2, <2>1, <2>3, <2>4, <2>5 DEF WireInv, WireTypes, Grows
<1>3. ASSUME NEW d \in Sentences, Deliver(d)
      PROVE  WireTypes' /\ WireInv' /\ Grows /\ next' >= next
  <2> DEFINE L == Len(wire)
  <2>1. /\ next' \in next .. MaxSentences + 1
        /\ next' \notin buffered'
        /\ buffered' \in SUBSET Sentences
        /\ wire' \in Seq(Messages)
        /\ Len(wire') = L + (next' - next)
        /\ \A i \in 1 .. L : wire'[i] = wire[i]
        /\ \A i \in L + 1 .. Len(wire') : wire'[i] = Audio(next + (i - L) - 1)
    BY <1>3, DeliverSends
  <2>2. DOMAIN wire' = 1 .. Len(wire') /\ Len(wire') \in Nat /\ L \in Nat
    BY <1>0, <2>1
  <2> HIDE DEF L
  <2>3. ASSUME NEW j \in DOMAIN wire', NEW n \in Sentences, wire'[j] = Audio(n)
        PROVE  \/ j \in 1 .. L /\ wire[j] = Audio(n) /\ n < next
               \/ j \in L + 1 .. Len(wire') /\ n = next + (j - L) - 1
    <3>1. CASE j \in 1 .. L
      <4>1. wire[j] = Audio(n) /\ j \in DOMAIN wire
        BY <1>0, <2>1, <2>3, <3>1 DEF L
      <4> QED
        BY <3>1, <4>1 DEF WireInv
    <3>2. CASE j \in L + 1 .. Len(wire')
      BY <2>1, <2>3, <3>2, MessagesDiffer
    <3> QED
      BY <2>2, <3>1, <3>2
  <2>10. next' \in Nat
    BY <1>0, <2>1
  <2>4. ASSUME NEW n \in Nat, 1 <= n, n < next'
        PROVE  \E i \in DOMAIN wire' : wire'[i] = Audio(n)
    <3>1. CASE n < next
      <4>1. PICK i \in DOMAIN wire : wire[i] = Audio(n)
        BY <1>0, <2>4, <3>1 DEF WireInv
      <4> QED
        BY <1>0, <2>1, <2>2, <4>1 DEF L
    <3>2. CASE n >= next
      <4>1. L + (n - next) + 1 \in L + 1 .. Len(wire')
        BY <1>0, <2>1, <2>2, <2>10, <2>4, <3>2, InReach
      <4>2. next + ((L + (n - next) + 1) - L) - 1 = n
        BY <1>0, <2>2
      <4> QED
        BY <2>1, <2>2, <4>1, <4>2
    <3> QED
      BY <1>0, <2>1, <3>1, <3>2
  <2>5. \A i \in DOMAIN wire', n \in Sentences : wire'[i] = Audio(n) => n < next'
    <3> SUFFICES ASSUME NEW j \in DOMAIN wire', NEW n \in Sentences, wire'[j] = Audio(n)
                 PROVE  n < next'
      OBVIOUS
    <3>1. /\ next \in Nat /\ next' \in Nat /\ next <= next'
          /\ Len(wire') = L + (next' - next)
      BY <1>0, <2>1
    <3>2. CASE n < next
      BY <3>1, <3>2 DEF Sentences
    <3>3. CASE j \in L + 1 .. Len(wire') /\ n = next + (j - L) - 1
      <4>1. j \in Nat /\ j <= L + (next' - next)
        BY <2>2, <3>1, <3>3
      <4> QED
        BY <2>2, <3>1, <3>3, <4>1
    <3> QED
      BY <2>3, <3>2, <3>3
  <2>6. ASSUME NEW j \in DOMAIN wire', NEW n \in Sentences, wire'[j] = Audio(n)
        PROVE  /\ \A i \in 1 .. j - 1 : wire'[i] # Audio(n)
               /\ n > 1 => \E i \in 1 .. j - 1 : wire'[i] = Audio(n - 1)
    <3>1. CASE j \in 1 .. L /\ wire[j] = Audio(n)
      <4>1. /\ \A i \in 1 .. j - 1 : wire[i] # Audio(n)
            /\ n > 1 => \E i \in 1 .. j - 1 : wire[i] = Audio(n - 1)
        BY <1>0, <3>1 DEF WireInv, InOrder, L
      <4>2. \A i \in 1 .. j - 1 : wire'[i] = wire[i]
        BY <2>1, <2>2, <3>1
      <4> QED
        BY <4>1, <4>2
    <3>2. CASE j \in L + 1 .. Len(wire') /\ n = next + (j - L) - 1
      <4>1. ASSUME NEW i \in 1 .. j - 1, wire'[i] = Audio(n)
            PROVE  FALSE
        <5>1. i \in DOMAIN wire'
          BY <2>2, <3>2
        <5>2. \/ i \in 1 .. L /\ n < next
              \/ i \in L + 1 .. Len(wire') /\ n = next + (i - L) - 1
          BY <2>3, <4>1, <5>1
        <5> QED
          BY <1>0, <2>2, <3>2, <5>2
      <4>2. ASSUME n > 1
            PROVE  \E i \in 1 .. j - 1 : wire'[i] = Audio(n - 1)
        <5>1. CASE j = L + 1
          <6>1. n - 1 \in 1 .. next - 1
            BY <1>0, <2>2, <3>2, <4>2, <5>1
          <6>2. PICK i \in DOMAIN wire : wire[i] = Audio(n - 1)
            BY <6>1 DEF WireInv
          <6>3. i \in 1 .. j - 1 /\ wire'[i] = wire[i]
            BY <1>0, <2>1, <2>2, <5>1, <6>2 DEF L
          <6> QED
            BY <6>2, <6>3
        <5>2. CASE j # L + 1
          <6>1. j - 1 \in L + 1 .. Len(wire') /\ j - 1 \in 1 .. j - 1
            BY <2>2, <3>2, <5>2
          <6>2. wire'[j - 1] = Audio(next + ((j - 1) - L) - 1)
            BY <2>1, <6>1
          <6>3. next + ((j - 1) - L) - 1 = n - 1
            BY <1>0, <2>2, <3>2
          <6> QED
            BY <6>1, <6>2, <6>3
        <5> QED
          BY <5>1, <5>2
      <4> QED
        BY <4>1, <4>2
    <3> QED
      BY <2>3, <2>6, <3>1, <3>2
  <2>7. InOrder'
    BY <2>6 DEF InOrder
  <2>8. WireInv'
    <3>1. \A n \in 1 .. next' - 1 : \E i \in DOMAIN wire' : wire'[i] = Audio(n)
      <4>1. \A n \in 1 .. next' - 1 : n \in Nat /\ 1 <= n /\ n < next'
        BY <2>10, InReach
      <4> QED
        BY <2>4, <4>1
    <3> QED
      BY <2>1, <2>5, <2>7, <3>1 DEF WireInv
  <2>9. Grows /\ next' >= next /\ WireTypes'
    BY <1>0, <2>1, <2>2 DEF Grows, WireTypes, L
  <2> QED
    BY <2>8, <2>9
<1> QED
  BY <1>1, <1>2, <1>3 DEF WireStep

\* Every step is one of these.
LEMMA WireSteps ==
    TypeOK /\ [Next]_vars => WireStep
<1> SUFFICES ASSUME TypeOK, [Next]_vars
             PROVE  WireStep
  OBVIOUS
<1>0. queue \in Seq(Sentences)
  BY DEF TypeOK
<1>1. CASE UNCHANGED vars
  BY <1>1 DEF vars, WireStep
<1>2. CASE SenderGets
  <2>1. CASE queue = <<>>
    BY <1>2, <2>1 DEF SenderGets, WireStep
  <2>2. CASE queue # <<>>
    <3>1. Head(queue) \in Sentences
      BY <1>0, <2>2
    <3> QED
      BY <1>2, <2>2, <3>1 DEF SenderGets, WireStep
  <2> QED
    BY <2>1, <2>2
<1>3. CASE Chatted \/ Finalize \/ AfterGather \/ AfterPlayback
  <2>1. /\ UNCHANGED <<buffered, next>>
        /\ UNCHANGED wire \/ Announce \/ wire' = Append(wire, ChainEnd)
    BY <1>3 DEF Chatted, Finalize, AfterGather, AfterPlayback
  <2> QED
    BY <2>1 DEF WireStep, Announce
<1>4. CASE SenderCancelled \/ GatherCalledBack
  BY <1>4 DEF SenderCancelled, GatherCalledBack, WireStep
<1>5. ASSUME NEW n \in Sentences,
             TtsStarts(n) \/ TtsPuts(n) \/ TtsCancelled(n) \/ ThreadReturns(n)
      PROVE  WireStep
  BY <1>5 DEF TtsStarts, TtsPuts, TtsCancelled, ThreadReturns, WireStep
<1>6. CASE Prepared \/ Hear \/ Stored \/ TurnCancelled \/ Close \/ Closed
  BY <1>6 DEF Prepared, Hear, Stored, TurnCancelled, Close, Closed, WireStep
<1>7. CASE Utter
  BY <1>7 DEF Utter, SpeakVoiced, SpeakSilent, AwaitModel, StopSpeaking, WireStep
<1>8. CASE Resume \/ Interrupt \/ Done
  BY <1>8 DEF Resume, Interrupt, Done, vars, WireStep
<1> QED
  BY <1>1, <1>2, <1>3, <1>4, <1>5, <1>6, <1>7, <1>8 DEF Next, Loop

------------------------------------------------------------------------------
(***************************************************************************)
(* The sentences, their tasks and their payloads.                          *)
(***************************************************************************)
SentenceTypes ==
    /\ kind \in {"chat", "speak"}
    /\ uttered \in Seq({"voiced", "silent"}) /\ Len(uttered) <= MaxSentences
    /\ task \in [Sentences -> {"none", "created", "working", "back", "done",
                               "cancelled"}]
    /\ queue \in Seq(Sentences)
    /\ interrupts \in 0 .. MaxInterrupts

\* A payload that is put stands in the queue.
LEMMA PutIs ==
    ASSUME queue \in Seq(Sentences), NEW n \in Sentences, Put(n)
    PROVE  /\ queue' \in Seq(Sentences)
           /\ \A m : Occurs(queue', m) <=> Occurs(queue, m) \/ m = n
BY Appended DEF Put

\* A payload that was put is not lost, unless the queue is replaced.
LEMMA GivenStays ==
    ASSUME TypeOK, NEW m \in Sentences, Given(m),
           \/ UNCHANGED <<queue, buffered, next>>
           \/ UNCHANGED <<buffered, next>> /\ \E n \in Sentences : Put(n)
           \/ queue # <<>> /\ queue' = Tail(queue) /\ Deliver(Head(queue))
    PROVE  Given(m)'
<1>0. queue \in Seq(Sentences) /\ WireTypes
  BY DEF TypeOK, WireTypes, Messages
<1>1. CASE UNCHANGED <<queue, buffered, next>>
  BY <1>1 DEF Given
<1>2. CASE UNCHANGED <<buffered, next>> /\ \E n \in Sentences : Put(n)
  <2>1. Occurs(queue, m) => Occurs(queue', m)
    BY <1>0, <1>2, PutIs
  <2> QED
    BY <1>2, <2>1 DEF Given, Occurs
<1>3. CASE queue # <<>> /\ queue' = Tail(queue) /\ Deliver(Head(queue))
  <2>1. /\ Head(queue) \in Sentences
        /\ Occurs(queue, m) => m = Head(queue) \/ Occurs(queue', m)
    BY <1>0, <1>3, Taken
  <2>2. /\ next' \in next .. MaxSentences + 1 /\ next \in 1 .. MaxSentences + 1
        /\ \A k \in buffered \cup {Head(queue)} : k < next' \/ k \in buffered'
    BY <1>0, <1>3, <2>1, DeliverSends DEF WireTypes
  <2>3. m < next => m < next'
    BY <2>2, DeliveryAssumption DEF Sentences
  <2> QED
    BY <2>1, <2>2, <2>3 DEF Given, Occurs
<1> QED
  BY <1>1, <1>2, <1>3

\* A task goes on: it starts, comes back, puts its payload, or is cancelled.
TaskMoves(n) ==
    /\ n \in TaskList
    /\ UNCHANGED <<kind, uttered, turn, interrupts>>
    /\ \E state \in {"working", "back", "done", "cancelled"} :
          /\ task' = [task EXCEPT ![n] = state]
          /\ state \in {"done", "cancelled"} \/ task[n] \notin {"done", "cancelled"}
          /\ state = "done" => Given(n)' /\ task[n] = "back"
          /\ state = "cancelled" => Tts(n) \in doomed
    /\ doomed' \subseteq doomed /\ (Turn \in doomed => Turn \in doomed')
    /\ Occurs(ready', Turn) <=> Scheduled(Turn)
    /\ queue' \in Seq(Sentences)
    /\ \A m \in Sentences : Given(m) => Given(m)'

\* A sentence is spoken.
Speaks ==
    /\ turn = "speaking" /\ UNCHANGED <<kind, queue, buffered, next, doomed, interrupts>>
    /\ Len(uttered) < MaxSentences
    /\ \/ /\ uttered' = Append(uttered, "voiced") /\ UNCHANGED turn
          /\ task' = [task EXCEPT ![Len(uttered) + 1] = "created"]
       \/ /\ uttered' = Append(uttered, "silent") /\ turn' = "preparing"
          /\ UNCHANGED task

\* No sentence is spoken, and no task goes on.
Calm ==
    /\ UNCHANGED <<kind, uttered, task>>
    /\ queue' \in Seq(Sentences) /\ interrupts' \in 0 .. MaxInterrupts
    /\ turn' = "preparing" => turn = "preparing"
    /\ turn' = "playback" => AllDone
    /\ turn \in Final => turn' \in Final
    /\ turn \in Gathers /\ Turn \in doomed =>
          turn' \in Final \/ (turn' \in Gathers /\ Turn \in doomed')
    /\ \A n \in Sentences : Tts(n) \in doomed' =>
          \/ Tts(n) \in doomed
          \/ n \in TaskList /\ turn' \in Gathers /\ Turn \in doomed'
    /\ turn' \in Gathers /\ Occurs(ready', Turn) /\ Turn \notin doomed' => AllDone
    /\ turn' \in Final \/ \A n \in Sentences : Given(n) => Given(n)'
    /\ turn = "preparing" /\ turn' # "preparing" =>
          turn' \in Final \/ Given(Len(uttered))'

SentenceStep ==
    Speaks \/ Calm \/ \E n \in Sentences : TaskMoves(n)

\* The tasks of the sentences are sentences.
LEMMA TasksAreSentences ==
    ASSUME SentenceTypes
    PROVE  /\ Len(uttered) \in Nat /\ 1 .. Len(uttered) \subseteq Sentences
           /\ TaskList \subseteq Sentences /\ MaxSentences \in Nat
           /\ \A n \in TaskList : n \in 1 .. Len(uttered)
BY DeliveryAssumption DEF SentenceTypes, TaskList, Sentences

\* Each of these steps keeps the invariant of the sentences and their tasks.
LEMMA SentencesKept ==
    ASSUME SentenceTypes, TaskInv, SentenceStep
    PROVE  SentenceTypes' /\ TaskInv'
<1>0. /\ Len(uttered) \in Nat /\ 1 .. Len(uttered) \subseteq Sentences
      /\ TaskList \subseteq Sentences /\ MaxSentences \in Nat
      /\ \A n \in TaskList : n \in 1 .. Len(uttered)
  BY TasksAreSentences
<1>1. \A x : Occurs(ready', x) <=> Scheduled(x)'
  BY DEF Occurs, Scheduled
<1>2. /\ \A n \in Sentences : n \in TaskList <=> task[n] # "none"
      /\ \A n \in Sentences : Tts(n) \in doomed => n \in TaskList
      /\ turn = "preparing" => uttered # <<>> /\ Len(uttered) \notin TaskList
      /\ \A n \in Sentences : Tts(n) \in doomed \/ task[n] = "cancelled" =>
            turn \in Final \/ (turn \in Gathers /\ Turn \in doomed)
      /\ turn \in Gathers /\ Scheduled(Turn) /\ Turn \notin doomed => AllDone
      /\ turn = "playback" => AllDone
      /\ turn \notin Final => \A n \in Due : Given(n)
  BY DEF TaskInv
<1>3. CASE Calm
  <2>1. TaskList' = TaskList /\ (AllDone' <=> AllDone)
    BY <1>3 DEF Calm, TaskList, AllDone
  <2>2. \A n \in Due' : turn' \notin Final => Given(n)'
    <3> SUFFICES ASSUME NEW n \in 1 .. Len(uttered), n \in Due', turn' \notin Final
                 PROVE  Given(n)'
      BY <1>3 DEF Due, Calm
    <3>1. CASE n \in Due
      BY <1>0, <1>2, <1>3, <3>1 DEF Calm
    <3>2. CASE n \notin Due
      <4>1. /\ n \notin TaskList /\ turn = "preparing" /\ n = Len(uttered)
            /\ turn' # "preparing"
        BY <1>3, <2>1, <3>2 DEF Due, Calm
      <4> QED
        BY <1>3, <4>1 DEF Calm
    <3> QED
      BY <3>1, <3>2
  <2>3. SentenceTypes'
    BY <1>3 DEF SentenceTypes, Calm
  <2>4. \A n \in Sentences : Tts(n) \in doomed' => n \in TaskList
    BY <1>2, <1>3 DEF Calm
  <2>5. ASSUME NEW n \in Sentences, Tts(n) \in doomed' \/ task[n] = "cancelled"
        PROVE  turn' \in Final \/ (turn' \in Gathers /\ Turn \in doomed')
    <3>1. CASE Tts(n) \in doomed \/ task[n] = "cancelled"
      BY <1>2, <1>3, <3>1 DEF Calm
    <3> QED
      BY <1>3, <2>5, <3>1 DEF Calm
  <2>6. turn' = "preparing" => uttered' # <<>> /\ Len(uttered)' \notin TaskList'
    BY <1>2, <1>3, <2>1 DEF Calm
  <2>7. /\ turn' \in Gathers /\ Scheduled(Turn)' /\ Turn \notin doomed' => AllDone'
        /\ turn' = "playback" => AllDone'
        /\ UNCHANGED task
    BY <1>1, <1>3, <2>1 DEF Calm
  <2> QED
    BY <1>2, <2>1, <2>2, <2>3, <2>4, <2>5, <2>6, <2>7 DEF TaskInv
<1>4. CASE Speaks
  <2> DEFINE new == Len(uttered) + 1
  <2>1. /\ new \in Sentences /\ Len(uttered') = new /\ turn = "speaking"
        /\ turn' \in {"speaking", "preparing"} /\ UNCHANGED doomed
        /\ \A n \in 1 .. Len(uttered) : uttered'[n] = uttered[n]
        /\ \A n \in Sentences : Given(n) => Given(n)'
        /\ uttered' \in Seq({"voiced", "silent"}) /\ uttered' # <<>>
    <3>1. /\ turn = "speaking" /\ turn' \in {"speaking", "preparing"}
          /\ UNCHANGED <<queue, buffered, next, doomed>>
          /\ Len(uttered) < MaxSentences
          /\ \E how \in {"voiced", "silent"} : uttered' = Append(uttered, how)
      BY <1>4 DEF Speaks
    <3>2. new \in Sentences
      BY <1>0, <3>1 DEF Sentences
    <3>3. /\ Len(uttered') = new
          /\ \A n \in 1 .. Len(uttered) : uttered'[n] = uttered[n]
          /\ uttered' \in Seq({"voiced", "silent"})
      BY <3>1 DEF SentenceTypes
    <3>4. uttered' # <<>>
      BY <1>0, <3>3
    <3>5. \A n \in Sentences : Given(n) => Given(n)'
      BY <3>1 DEF Given
    <3> QED
      BY <3>1, <3>2, <3>3, <3>4, <3>5
  <2>2. SentenceTypes'
    BY <1>0, <1>4, <2>1 DEF Speaks, SentenceTypes, Sentences
  <2>3. \A n \in Sentences : Tts(n) \notin doomed /\ task[n] # "cancelled"
    BY <1>2, <2>1 DEF Final, Gathers
  <2>4. \A n \in Sentences : n # new => task'[n] = task[n]
    BY <1>4 DEF Speaks, SentenceTypes
  <2>5. \/ /\ uttered'[new] = "voiced" /\ turn' = "speaking" /\ task'[new] = "created"
           /\ TaskList' = TaskList \cup {new}
        \/ /\ uttered'[new] = "silent" /\ turn' = "preparing" /\ task'[new] = task[new]
           /\ TaskList' = TaskList
    <3>1. \A n \in 1 .. Len(uttered') : n \in 1 .. Len(uttered) \/ n = new
      BY <1>0, <2>1
    <3>2. \A n \in 1 .. Len(uttered) : n \in 1 .. Len(uttered') /\ n # new
      BY <1>0, <2>1
    <3>3. new \in 1 .. Len(uttered')
      BY <1>0, <2>1
    <3>4. TaskList' = {n \in 1 .. Len(uttered') : uttered'[n] = "voiced"}
      BY DEF TaskList
    <3>5. \/ /\ uttered'[new] = "voiced" /\ turn' = "speaking" /\ task'[new] = "created"
          \/ /\ uttered'[new] = "silent" /\ turn' = "preparing" /\ task'[new] = task[new]
      BY <1>0, <1>4, <2>1 DEF Speaks, SentenceTypes
    <3> HIDE DEF new
    <3>6. CASE uttered'[new] = "voiced"
      BY <2>1, <3>1, <3>2, <3>3, <3>4, <3>5, <3>6 DEF TaskList
    <3>7. CASE uttered'[new] = "silent"
      BY <2>1, <3>1, <3>2, <3>3, <3>4, <3>5, <3>7 DEF TaskList
    <3> QED
      BY <3>5, <3>6, <3>7
  <2>6. new \notin 1 .. Len(uttered) /\ new \notin TaskList
    BY <1>0
  <2>7. \A n \in 1 .. Len(uttered') : n \in 1 .. Len(uttered) \/ n = new
    BY <1>0, <2>1
  <2> HIDE DEF new
  <2>8. \A n \in Sentences : n \in TaskList' <=> task'[n] # "none"
    BY <1>2, <2>1, <2>4, <2>5, <2>6
  <2>9. turn' = "preparing" => Len(uttered') \notin TaskList'
    BY <2>1, <2>5, <2>6
  <2>10. \A n \in Sentences : task'[n] # "cancelled"
    BY <2>1, <2>3, <2>4, <2>5
  <2>11. \A n \in Due' : Given(n)'
    <3> SUFFICES ASSUME NEW n \in 1 .. Len(uttered'), n \in Due' PROVE Given(n)'
      BY DEF Due
    <3>1. n # new
      BY <2>1, <2>5, <2>6 DEF Due
    <3>2. n \in 1 .. Len(uttered) /\ n \in Sentences
      BY <1>0, <2>7, <3>1
    <3>3. n \in Due
      BY <2>1, <2>4, <2>5, <3>1, <3>2 DEF Due
    <3> QED
      BY <1>2, <2>1, <3>2, <3>3 DEF Final
  <2> QED
    BY <2>1, <2>2, <2>3, <2>8, <2>9, <2>10, <2>11 DEF TaskInv, Gathers
<1>5. ASSUME NEW n \in Sentences, TaskMoves(n)
      PROVE  SentenceTypes' /\ TaskInv'
  <2>1. PICK state \in {"working", "back", "done", "cancelled"} :
           /\ task' = [task EXCEPT ![n] = state]
           /\ state \in {"done", "cancelled"} \/ task[n] \notin {"done", "cancelled"}
           /\ state = "done" => Given(n)' /\ task[n] = "back"
           /\ state = "cancelled" => Tts(n) \in doomed
    BY <1>5 DEF TaskMoves
  <2>2. /\ n \in TaskList /\ UNCHANGED <<uttered, turn>>
        /\ TaskList' = TaskList
        /\ doomed' \subseteq doomed /\ (Turn \in doomed <=> Turn \in doomed')
        /\ Scheduled(Turn)' <=> Scheduled(Turn)
        /\ \A m \in Sentences : Given(m) => Given(m)'
    BY <1>1, <1>5 DEF TaskMoves, TaskList
  <2>3. /\ \A m \in Sentences : m # n => task'[m] = task[m]
        /\ task'[n] = state
    BY <2>1 DEF SentenceTypes
  <2>4. SentenceTypes'
    <3>1. task' \in [Sentences -> {"none", "created", "working", "back", "done",
                                   "cancelled"}]
      BY <2>1 DEF SentenceTypes
    <3> QED
      BY <1>5, <3>1 DEF SentenceTypes, TaskMoves
  <2>5. AllDone => AllDone'
    BY <1>0, <2>1, <2>2, <2>3 DEF AllDone
  <2>6. \A m \in Sentences : m \in TaskList' <=> task'[m] # "none"
    BY <1>2, <2>2, <2>3
  <2>7. ASSUME NEW m \in Sentences, Tts(m) \in doomed' \/ task'[m] = "cancelled"
        PROVE  turn' \in Final \/ (turn' \in Gathers /\ Turn \in doomed')
    <3>1. Tts(m) \in doomed \/ task[m] = "cancelled"
      BY <2>1, <2>2, <2>3, <2>7
    <3> QED
      BY <1>2, <2>2, <3>1
  <2>8. ASSUME turn' \notin Final, NEW m \in Due' PROVE Given(m)'
    <3>1. m \in 1 .. Len(uttered) /\ m \in Sentences
      BY <1>0, <2>2 DEF Due
    <3>2. CASE m = n /\ state = "done"
      BY <2>1, <3>2
    <3>3. CASE ~(m = n /\ state = "done")
      <4>1. m \in Due
        BY <2>1, <2>2, <2>3, <3>1, <3>3 DEF Due
      <4> QED
        BY <1>2, <2>2, <2>8, <3>1, <4>1
    <3> QED
      BY <3>2, <3>3
  <2>9. /\ \A m \in Sentences : Tts(m) \in doomed' => m \in TaskList'
        /\ turn' = "preparing" => uttered' # <<>> /\ Len(uttered') \notin TaskList'
        /\ turn' \in Gathers /\ Scheduled(Turn)' /\ Turn \notin doomed' => AllDone'
        /\ turn' = "playback" => AllDone'
    BY <1>2, <2>2, <2>5
  <2> QED
    BY <2>4, <2>6, <2>7, <2>8, <2>9 DEF TaskInv
<1> QED
  BY <1>3, <1>4, <1>5 DEF SentenceStep

\* The steps of a task are such steps.
LEMMA TaskSteps ==
    ASSUME TypeOK, ControlInv, TaskInv, NEW n \in Sentences,
           TtsStarts(n) \/ TtsPuts(n) \/ TtsCancelled(n) \/ ThreadReturns(n)
    PROVE  TaskMoves(n)
<1>0. /\ \A x : Scheduled(x) <=> Occurs(ready, x)
      /\ queue \in Seq(Sentences) /\ ready \in Seq(Entries)
      /\ Tts(n) \in Entries /\ Tts(n) # Turn
      /\ \A m \in Sentences : m \in TaskList <=> task[m] # "none"
      /\ \A m \in Sentences : Tts(m) \in doomed => m \in TaskList
  BY EntriesDiffer DEF Scheduled, Occurs, ControlInv, ControlTypes, Entries, TypeOK,
                       TaskInv
<1>1. ASSUME Runs(Tts(n))
      PROVE  /\ Tail(ready) \in Seq(Entries)
             /\ Occurs(Tail(ready), Turn) <=> Scheduled(Turn)
  BY <1>0, <1>1, RunsTakes
<1>2. CASE TtsStarts(n)
  <2>1. \A m \in Sentences : Given(m) => Given(m)'
    BY <1>2, GivenStays DEF TtsStarts
  <2>2. /\ task[n] = "created" /\ task' = [task EXCEPT ![n] = "working"]
        /\ UNCHANGED <<kind, uttered, turn, interrupts, doomed, queue>>
        /\ Occurs(ready', Turn) <=> Scheduled(Turn)
    BY <1>1, <1>2 DEF TtsStarts
  <2> QED
    BY <1>0, <2>1, <2>2 DEF TaskMoves
<1>3. CASE ThreadReturns(n)
  <2>1. \A m \in Sentences : Given(m) => Given(m)'
    BY <1>3, GivenStays DEF ThreadReturns
  <2>2. /\ task[n] = "working" /\ task' = [task EXCEPT ![n] = "back"]
        /\ UNCHANGED <<kind, uttered, turn, interrupts, doomed, queue>>
        /\ Occurs(ready', Turn) <=> Scheduled(Turn)
    BY <1>0, <1>3, Appended DEF ThreadReturns
  <2> QED
    BY <1>0, <2>1, <2>2 DEF TaskMoves
<1>4. CASE TtsPuts(n)
  <2>1. /\ task[n] = "back" /\ task' = [task EXCEPT ![n] = "done"]
        /\ Put(n) /\ ready' = Notify(Woken(Tail(ready))) /\ Runs(Tts(n))
        /\ UNCHANGED <<kind, uttered, turn, interrupts, doomed, buffered, next>>
    BY <1>4 DEF TtsPuts, Voice
  <2>2. \A m \in Sentences : Given(m) => Given(m)'
    BY <2>1, GivenStays
  <2>3. queue' \in Seq(Sentences) /\ Given(n)'
    BY <1>0, <2>1, PutIs DEF Given, Occurs
  <2>4. /\ Woken(Tail(ready)) \in Seq(Entries)
        /\ Occurs(Woken(Tail(ready)), Turn) <=> Scheduled(Turn)
    BY <1>1, <2>1, WokenIs, EntriesDiffer
  <2>5. Occurs(ready', Turn) <=> Scheduled(Turn)
    BY <2>1, <2>4, NotifyIs
  <2> QED
    BY <1>0, <2>1, <2>2, <2>3, <2>5 DEF TaskMoves
<1>5. CASE TtsCancelled(n)
  <2>1. /\ task' = [task EXCEPT ![n] = "cancelled"] /\ Tts(n) \in doomed
        /\ ready' = Notify(Tail(ready)) /\ Runs(Tts(n)) /\ doomed' = doomed \ {Tts(n)}
        /\ UNCHANGED <<kind, uttered, turn, interrupts, queue, buffered, next>>
    BY <1>5 DEF TtsCancelled
  <2>2. \A m \in Sentences : Given(m) => Given(m)'
    BY <2>1, GivenStays
  <2>3. Occurs(ready', Turn) <=> Scheduled(Turn)
    BY <1>1, <2>1, NotifyIs
  <2> QED
    BY <1>0, <2>1, <2>2, <2>3 DEF TaskMoves
<1> QED
  BY <1>2, <1>3, <1>4, <1>5

\* The other steps of the loop leave the sentences and their tasks alone.
LEMMA CalmSteps ==
    ASSUME TypeOK, ControlInv, TaskInv,
           \/ SenderGets \/ SenderCancelled \/ GatherCalledBack
           \/ Prepared \/ Hear \/ AfterGather \/ AfterPlayback \/ Stored
           \/ Chatted \/ Finalize \/ TurnCancelled \/ Close \/ Closed
           \/ AwaitModel \/ StopSpeaking \/ Resume \/ Interrupt
           \/ UNCHANGED vars
    PROVE  Calm
<1>0. /\ \A x : Scheduled(x) <=> Occurs(ready, x)
      /\ queue \in Seq(Sentences) /\ ready \in Seq(Entries)
      /\ {Turn, Sender, Gathered} \subseteq Entries
      /\ interrupts \in 0 .. MaxInterrupts /\ MaxInterrupts \in {0, 1}
      /\ SentenceTypes
  BY DeliveryAssumption DEF Scheduled, Occurs, ControlInv, ControlTypes, Entries,
                            TypeOK, SentenceTypes
<1>1. /\ \A n \in Sentences : Tts(n) \in doomed \/ task[n] = "cancelled" =>
            turn \in Final \/ (turn \in Gathers /\ Turn \in doomed)
      /\ turn \in Gathers /\ Scheduled(Turn) /\ Turn \notin doomed => AllDone
      /\ turn = "playback" => AllDone
      /\ turn = "preparing" => uttered # <<>> /\ Len(uttered) \notin TaskList
      /\ TaskList \subseteq Sentences
  BY <1>0, TasksAreSentences DEF TaskInv
<1>2. ASSUME UNCHANGED <<queue, buffered, next>>
      PROVE  \A n \in Sentences : Given(n) => Given(n)'
  BY <1>2, GivenStays
<1> USE DEF Final, Gathers
<1>3. CASE SenderGets
  <2>1. \A n \in Sentences : Given(n) => Given(n)'
    BY <1>3, GivenStays DEF SenderGets
  <2>2. queue' \in Seq(Sentences)
    BY <1>0, <1>3 DEF SenderGets
  <2>3. Occurs(ready', Turn) <=> Scheduled(Turn)
    BY ZenonT(30), <1>0, <1>3, RunsTakes, EntriesDiffer DEF SenderGets
  <2>4. UNCHANGED <<kind, turn, uttered, task, doomed, interrupts>>
    BY <1>3 DEF SenderGets
  <2> QED
    BY <1>0, <1>1, <2>1, <2>2, <2>3, <2>4 DEF Calm
<1>4. CASE SenderCancelled
  <2>1. turn = "awaitsSender"
    BY <1>4 DEF SenderCancelled, ControlInv, SenderInv
  <2> QED
    BY <1>0, <1>4, <2>1 DEF SenderCancelled, Calm
<1>5. CASE GatherCalledBack
  <2>1. /\ UNCHANGED <<kind, turn, uttered, task, queue, buffered, next, doomed,
                       interrupts>>
        /\ \/ ready' = Tail(ready)
           \/ /\ ready' = Append(Tail(ready), Turn)
              /\ turn \in {"gather", "gatherAgain"}
              /\ AllDone \/ \E n \in TaskList : task[n] = "cancelled"
    BY <1>5 DEF GatherCalledBack
  <2>2. Occurs(Tail(ready), Turn) <=> Scheduled(Turn)
    BY <1>0, <1>5, RunsTakes, EntriesDiffer DEF GatherCalledBack
  <2>3. turn' \in Gathers /\ Occurs(ready', Turn) /\ Turn \notin doomed' => AllDone
    BY <1>1, <2>1, <2>2
  <2> QED
    BY <1>0, <1>1, <1>2, <2>1, <2>3 DEF Calm
<1>6. CASE Prepared
  <2>1. /\ turn = "preparing" /\ turn' = "speaking" /\ Put(Len(uttered))
        /\ UNCHANGED <<kind, uttered, task, buffered, next, doomed, interrupts>>
    BY <1>6 DEF Prepared, TurnRuns
  <2>2. Len(uttered) \in Sentences
    <3>1. Len(uttered) \in 1 .. Len(uttered)
      BY <1>0, <1>1, <2>1 DEF SentenceTypes
    <3> QED
      BY <1>0, <3>1, TasksAreSentences
  <2>3. \A n \in Sentences : Given(n) => Given(n)'
    BY <2>1, <2>2, GivenStays
  <2>4. queue' \in Seq(Sentences) /\ Given(Len(uttered))'
    BY <1>0, <2>1, <2>2, PutIs DEF Given, Occurs
  <2> QED
    BY <1>0, <1>1, <2>1, <2>3, <2>4 DEF Calm
<1>7. CASE Hear \/ AwaitModel \/ StopSpeaking
  BY <1>0, <1>1, <1>2, <1>7
     DEF Hear, AwaitModel, StopSpeaking, TurnRuns, Calm
<1>8. CASE AfterGather
  <2>1. /\ turn \in Gathers /\ turn' \in {"finalizing", "playback"} /\ Turn \notin doomed
        /\ Runs(Turn)
        /\ UNCHANGED <<kind, uttered, task, queue, buffered, next, doomed, interrupts>>
    BY <1>8 DEF AfterGather, TurnRuns
  <2>2. Scheduled(Turn)
    BY <1>0, <2>1, RunsTakes
  <2> QED
    BY <1>0, <1>1, <1>2, <2>1, <2>2 DEF Calm
<1>9. CASE AfterPlayback \/ Stored
  <2>1. /\ turn \in {"playback", "storing"} /\ turn' \in {"storing", "closing"}
        /\ UNCHANGED <<kind, uttered, task, queue, buffered, next, doomed, interrupts>>
    BY <1>9 DEF AfterPlayback, Stored, AfterTurn, TurnRuns
  <2> QED
    BY <1>0, <1>1, <1>2, <2>1 DEF Calm
<1>10. CASE Chatted \/ Finalize
  <2>1. /\ turn \in {"chatted", "finalizing"}
        /\ turn' \in {"finalizing", "gather", "playback", "gatherAgain", "storing", "closing"}
        /\ turn' = "playback" => AllDone
        /\ UNCHANGED <<kind, ready, uttered, task, queue, buffered, next, doomed,
                       interrupts>>
    BY <1>10 DEF Chatted, Finalize, AfterTurn
  <2>2. ~Occurs(ready', Turn)
    BY <1>0, <2>1 DEF ControlInv, QueueInv, Busy
  <2> QED
    BY <1>0, <1>1, <1>2, <2>1, <2>2 DEF Calm
<1>11. CASE TurnCancelled \/ Close \/ Closed
  <2>1. /\ turn' \in Final
        /\ \A n \in Sentences : Tts(n) \in doomed' => Tts(n) \in doomed
        /\ queue' = queue \/ queue' = <<>>
        /\ UNCHANGED <<kind, uttered, task, interrupts>>
    BY <1>11, EntriesDiffer DEF TurnCancelled, Close, CancelSender, Closed
  <2>2. queue' \in Seq(Sentences)
    BY <1>0, <2>1, EmptySeq
  <2>3. turn' # "preparing" /\ turn' # "playback" /\ turn' \notin Gathers
    BY <2>1
  <2> QED
    BY <1>0, <1>1, <2>1, <2>2, <2>3 DEF Calm
<1>12. CASE Resume
  <2>1. /\ turn \in {"chatting", "preparing", "playback", "storing"}
        /\ UNCHANGED <<kind, turn, uttered, task, queue, buffered, next, doomed,
                       interrupts>>
    BY <1>12 DEF Resume
  <2> QED
    BY <1>0, <1>1, <1>2, <2>1 DEF Calm
<1>13. CASE Interrupt
  <2>1. /\ interrupts < MaxInterrupts /\ interrupts' = interrupts + 1
        /\ UNCHANGED <<kind, turn, uttered, task, queue, buffered, next>>
    BY <1>13 DEF Interrupt
  <2>2. interrupts' \in 0 .. MaxInterrupts
    BY <1>0, <2>1
  <2>3. Turn \in doomed'
    BY <1>13 DEF Interrupt
  <2>4. ASSUME NEW n \in Sentences, Tts(n) \in doomed', Tts(n) \notin doomed
        PROVE  n \in TaskList /\ turn \in Gathers
    <3>1. /\ turn \in Gathers
          /\ Tts(n) \in {Tts(m) : m \in {k \in TaskList : task[k] \notin {"done", "cancelled"}}}
      BY <1>13, <2>4, EntriesDiffer DEF Interrupt
    <3> QED
      BY <1>1, <3>1, EntriesDiffer
  <2> QED
    BY <1>0, <1>1, <1>2, <2>1, <2>2, <2>3, <2>4 DEF Calm
<1>14. CASE UNCHANGED vars
  <2>1. UNCHANGED <<kind, turn, ready, uttered, task, queue, buffered, next, doomed,
                    interrupts>>
    BY <1>14 DEF vars
  <2> QED
    BY <1>0, <1>1, <1>2, <2>1 DEF Calm
<1> QED
  BY <1>3, <1>4, <1>5, <1>6, <1>7, <1>8, <1>9, <1>10, <1>11, <1>12, <1>13, <1>14

\* Every step is one of these.
LEMMA SentenceSteps ==
    TypeOK /\ ControlInv /\ TaskInv /\ [Next]_vars => SentenceStep
<1> SUFFICES ASSUME TypeOK, ControlInv, TaskInv, [Next]_vars
             PROVE  SentenceStep
  OBVIOUS
<1>1. CASE SpeakVoiced \/ SpeakSilent
  BY <1>1 DEF SpeakVoiced, SpeakSilent, Speak, Speaks, SentenceStep
<1>2. CASE Done
  BY <1>2, CalmSteps DEF Done, SentenceStep
<1> QED
  BY <1>1, <1>2, TaskSteps, CalmSteps DEF Next, Loop, Utter, SentenceStep

------------------------------------------------------------------------------
(***************************************************************************)
(* The end of the chain.                                                   *)
(***************************************************************************)

\* The turn waits for the client behind a sender that has still to run.
LEMMA PlaybackKept ==
    ASSUME IInv, [Next]_vars
    PROVE  PlaybackInv'
<1>0. /\ \A x : Scheduled(x) <=> Occurs(ready, x)
      /\ ready \in Seq(Entries) /\ {Turn, Sender, Gathered} \subseteq Entries
      /\ \A n \in Sentences : Tts(n) \in Entries
      /\ ControlInv /\ TaskInv /\ Turn # Sender
  BY EntriesDiffer DEF Scheduled, Occurs, IInv, TypeOK, ControlInv, ControlTypes, Entries,
                       TurnStates
<1> SUFFICES ASSUME turn' = "playback" PROVE Before(ready', Sender, Turn)
  BY DEF PlaybackInv
<1>1. CASE ~Occurs(ready', Turn)
  BY <1>1 DEF Before, Occurs
<1>2. ASSUME Before(ready, Sender, Turn),
             \/ ready' = ready
             \/ ready # <<>> /\ ready' = Tail(ready)
             \/ ready' = Append(ready, Turn)
      PROVE  Before(ready', Sender, Turn)
  <2>1. ready # <<>> => Before(Tail(ready), Sender, Turn)
    BY <1>0, <1>2, Taken
  <2>2. Before(Append(ready, Turn), Sender, Turn)
    BY <1>0, <1>2, Appended
  <2> QED
    BY <1>2, <2>1, <2>2
<1>3. turn = "playback" => Before(ready, Sender, Turn) /\ AllDone
  BY DEF IInv, PlaybackInv, TaskInv
<1>4. CASE Finalize \/ Chatted
  <2>1. ~Scheduled(Turn)
    BY <1>4 DEF IInv, QueueInv, Busy, Finalize, Chatted
  <2> QED
    BY <1>0, <1>1, <1>4, <2>1 DEF Finalize, Chatted
<1>5. CASE AfterGather
  <2>1. Runs(Turn) /\ ready' = Tail(ready)
    BY <1>5 DEF AfterGather, TurnRuns
  <2> QED
    BY <1>0, <1>1, <2>1, RunsTakes DEF IInv, QueueInv
<1>6. CASE SenderGets \/ GatherCalledBack
  <2>1. /\ turn = "playback"
        /\ ready' = ready \/ (ready # <<>> /\ ready' = Tail(ready))
    BY <1>6 DEF SenderGets, GatherCalledBack, Runs
  <2> QED
    BY <1>2, <1>3, <2>1
<1>7. CASE SenderCancelled
  BY <1>7 DEF SenderCancelled, IInv, SenderInv
<1>8. ASSUME NEW n \in Sentences,
             TtsStarts(n) \/ TtsPuts(n) \/ TtsCancelled(n) \/ ThreadReturns(n)
      PROVE  FALSE
  <2>1. TaskMoves(n)
    BY <1>0, <1>8, TaskSteps DEF IInv
  <2>2. turn = "playback" /\ n \in TaskList /\ task[n] \in {"done", "cancelled"}
    BY <1>3, <2>1 DEF TaskMoves, AllDone
  <2>3. Tts(n) \in doomed
    BY <1>8, <2>2 DEF TtsStarts, TtsPuts, TtsCancelled, ThreadReturns
  <2> QED
    BY <1>0, <2>2, <2>3 DEF TaskInv, Final, Gathers
<1>9. CASE Resume \/ Interrupt
  <2>1. turn = "playback" /\ (ready' = ready \/ ready' = Append(ready, Turn))
    BY <1>9 DEF Resume, Interrupt
  <2> QED
    BY <1>2, <1>3, <2>1
<1>10. CASE \/ Prepared \/ Hear \/ Stored \/ AfterPlayback \/ TurnCancelled \/ Close \/ Closed
            \/ SpeakVoiced \/ SpeakSilent \/ AwaitModel \/ StopSpeaking
  BY <1>10 DEF Prepared, Hear, Stored, AfterPlayback, AfterTurn, TurnRuns, TurnCancelled,
               Close, CancelSender, Closed, SpeakVoiced, SpeakSilent, Speak, AwaitModel,
               StopSpeaking
<1>11. CASE UNCHANGED vars \/ Done
  BY <1>2, <1>3, <1>11 DEF vars, Done
<1> QED
  BY <1>4, <1>5, <1>6, <1>7, <1>8, <1>9, <1>10, <1>11 DEF Next, Loop, Utter

\* When the client has answered, every sentence has been sent: the sender ran.
LEMMA PlaybackSaysAll ==
    ASSUME IInv, TurnRuns("playback"), NEW n \in 1 .. Len(uttered), TaskList # {}
    PROVE  \E i \in DOMAIN wire : wire[i] = Audio(n)
<1>0. /\ ControlInv /\ SentenceTypes /\ TaskInv /\ SenderInv /\ WireInv
      /\ Runs(Turn) /\ turn = "playback" /\ Turn \in Entries
      /\ next \in 1 .. MaxSentences + 1
  BY DEF IInv, TypeOK, ControlInv, ControlTypes, Entries, TurnStates, SentenceTypes,
         TurnRuns
<1>1. /\ Len(uttered) \in Nat /\ 1 .. Len(uttered) \subseteq Sentences
      /\ \A k \in TaskList : k \in 1 .. Len(uttered)
  BY <1>0, TasksAreSentences
<1>2. ~Scheduled(Sender)
  BY <1>0, RunsTakes DEF IInv, PlaybackInv
<1>3. sender = "waiting" /\ queue = <<>>
  <2>1. uttered # <<>>
    BY <1>1
  <2>2. sender = "scheduled" <=> Scheduled(Sender)
    BY DEF IInv, TypeOK
  <2> QED
    BY <1>0, <1>2, <2>1, <2>2 DEF SenderInv
<1>4. \A k \in 1 .. Len(uttered) : k \in Due
  BY <1>0, <1>1 DEF TaskInv, Due, AllDone, Final, Gathers
<1>5. \A k \in 1 .. Len(uttered) : k < next \/ k \in buffered
  BY <1>0, <1>3, <1>4 DEF TaskInv, Given, Final
<1>6. next \notin 1 .. Len(uttered)
  BY <1>0, <1>5, DeliveryAssumption DEF WireInv
<1>7. n \in 1 .. next - 1
  BY <1>0, <1>1, <1>6, DeliveryAssumption
<1> QED
  BY <1>0, <1>7 DEF WireInv

\* When the chain ends, nothing is left to say; and it stays so.
LEMMA EndKept ==
    ASSUME IInv, [Next]_vars, Grows
    PROVE  EndInv'
<1> DEFINE Over == {"storing", "closing", "awaitsSender", "ended"}
           Said(i) == \A n \in 1 .. Len(uttered) : \E j \in 1 .. i : wire[j] = Audio(n)
<1>0. /\ wire \in Seq(Messages) /\ Len(wire) \in Nat /\ DOMAIN wire = 1 .. Len(wire)
      /\ WireStep
  BY WireSteps DEF IInv, TypeOK, Messages
<1>1. \A i \in DOMAIN wire : wire[i] = ChainEnd =>
         turn \in Over /\ (TaskList # {} => Said(i))
  BY DEF IInv, EndInv
<1>2. turn \in Over => turn' \in Over /\ uttered' = uttered
  <2>1. CASE Loop
    BY <2>1 DEF Loop, SenderGets, SenderCancelled, GatherCalledBack, TtsStarts, TtsPuts,
                TtsCancelled, Prepared, Hear, AfterGather, AfterPlayback, AfterTurn, Stored,
                Chatted, Finalize, TurnCancelled, Close, CancelSender, Closed, TurnRuns
  <2>2. CASE Utter
    BY <2>2 DEF Utter, SpeakVoiced, SpeakSilent, Speak, AwaitModel, StopSpeaking
  <2>3. CASE \/ Resume \/ Interrupt \/ Done \/ UNCHANGED vars
             \/ \E n \in Sentences : ThreadReturns(n)
    BY <2>3 DEF Resume, Interrupt, Done, ThreadReturns, vars
  <2> QED
    BY <2>1, <2>2, <2>3 DEF Next
<1>3. \A x : \A i \in 1 .. Len(wire) : wire'[i] = x <=> wire[i] = x
  BY DEF Grows
<1>4. ASSUME NEW i \in 1 .. Len(wire), wire[i] = ChainEnd
      PROVE  turn' \in Over /\ (TaskList' # {} => Said(i)')
  <2>1. turn' \in Over /\ uttered' = uttered
    BY <1>0, <1>1, <1>2, <1>4
  <2>2. TaskList' = TaskList
    BY <2>1 DEF TaskList
  <2>3. ASSUME TaskList # {}, NEW n \in 1 .. Len(uttered)
        PROVE  \E j \in 1 .. i : wire'[j] = Audio(n)
    <3>1. PICK j \in 1 .. i : wire[j] = Audio(n)
      BY <1>0, <1>1, <1>4, <2>3
    <3>2. j \in 1 .. Len(wire)
      BY <1>0
    <3> QED
      BY <1>3, <3>1, <3>2
  <2> QED
    BY <2>1, <2>2, <2>3
<1>5. CASE \A i \in DOMAIN wire' : wire'[i] = ChainEnd => i \in 1 .. Len(wire)
  <2> SUFFICES ASSUME NEW i \in DOMAIN wire', wire'[i] = ChainEnd
               PROVE  turn' \in Over /\ (TaskList' # {} => Said(i)')
    BY DEF EndInv
  <2>1. i \in 1 .. Len(wire) /\ wire[i] = ChainEnd
    BY <1>3, <1>5
  <2> QED
    BY <1>4, <2>1
<1>6. ASSUME wire' = Append(wire, ChainEnd), turn' \in Over, UNCHANGED uttered,
             TaskList # {} => \A n \in 1 .. Len(uttered) :
                                 \E j \in DOMAIN wire : wire[j] = Audio(n)
      PROVE  EndInv'
  <2>1. DOMAIN wire' = 1 .. Len(wire) + 1
    BY <1>0, <1>6
  <2>2. TaskList' = TaskList
    BY <1>6 DEF TaskList
  <2> SUFFICES ASSUME NEW i \in DOMAIN wire', wire'[i] = ChainEnd
               PROVE  turn' \in Over /\ (TaskList' # {} => Said(i)')
    BY DEF EndInv
  <2>3. CASE i \in 1 .. Len(wire)
    BY <1>3, <1>4, <2>3
  <2>4. CASE i = Len(wire) + 1
    <3>1. ASSUME TaskList # {}, NEW n \in 1 .. Len(uttered)
          PROVE  \E j \in 1 .. i : wire'[j] = Audio(n)
      <4>1. PICK j \in DOMAIN wire : wire[j] = Audio(n)
        BY <1>6, <3>1
      <4>2. j \in 1 .. Len(wire) /\ j \in 1 .. i
        BY <1>0, <2>4
      <4> QED
        BY <1>3, <4>1, <4>2
    <3> QED
      BY <1>6, <2>2, <3>1
  <2> QED
    BY <1>0, <2>1, <2>3, <2>4
<1>7. ASSUME wire' = wire \/ Announce \/ \E d \in Sentences : Deliver(d)
      PROVE  \A i \in DOMAIN wire' : wire'[i] = ChainEnd => i \in 1 .. Len(wire)
  <2>1. CASE wire' = wire
    BY <1>0, <2>1
  <2>2. CASE Announce
    BY <1>0, <2>2, MessagesDiffer DEF Announce
  <2>3. ASSUME NEW d \in Sentences, Deliver(d)
        PROVE  \A i \in DOMAIN wire' : wire'[i] = ChainEnd => i \in 1 .. Len(wire)
    <3>0. WireTypes
      BY DEF IInv, TypeOK, WireTypes, Messages
    <3>1. /\ wire' \in Seq(Messages)
          /\ \A i \in Len(wire) + 1 .. Len(wire') :
                wire'[i] = Audio(next + (i - Len(wire)) - 1)
      BY <2>3, <3>0, DeliverSends
    <3>2. \A i \in DOMAIN wire' : i \in 1 .. Len(wire) \/ i \in Len(wire) + 1 .. Len(wire')
      BY <1>0, <3>1
    <3> QED
      BY <3>1, <3>2, MessagesDiffer
  <2> QED
    BY <1>7, <2>1, <2>2, <2>3
<1>8. CASE Finalize
  <2>1. CASE /\ TaskList = {} /\ wire' = Append(wire, ChainEnd) /\ turn' \in AfterTurn
             /\ UNCHANGED uttered
    BY <1>6, <2>1 DEF AfterTurn
  <2>2. CASE wire' = wire \/ Announce
    BY <1>5, <1>7, <2>2
  <2> QED
    BY <1>8, <2>1, <2>2 DEF Finalize
<1>9. CASE AfterPlayback
  <2>1. /\ TurnRuns("playback") /\ turn' \in AfterTurn /\ UNCHANGED uttered
        /\ wire' = wire \/ wire' = Append(wire, ChainEnd)
    BY <1>9 DEF AfterPlayback
  <2>2. CASE wire' = wire
    BY <1>5, <1>7, <2>2
  <2>3. CASE wire' = Append(wire, ChainEnd)
    BY <1>6, <2>1, <2>3, PlaybackSaysAll DEF AfterTurn
  <2> QED
    BY <2>1, <2>2, <2>3
<1>10. CASE ~Finalize /\ ~AfterPlayback
  <2>1. wire' = wire \/ Announce \/ \E d \in Sentences : Deliver(d)
    <3>1. CASE SenderGets
      <4>1. CASE queue # <<>>
        <5>1. Head(queue) \in Sentences
          BY <4>1 DEF IInv, TypeOK
        <5> QED
          BY <3>1, <4>1, <5>1 DEF SenderGets
      <4> QED
        BY <3>1, <4>1 DEF SenderGets
    <3>2. CASE Loop /\ ~SenderGets
      BY <1>10, <3>2 DEF Loop, SenderCancelled, GatherCalledBack, TtsStarts, TtsPuts,
                TtsCancelled, Prepared, Hear, AfterGather, Stored,
                Chatted, TurnCancelled, Close, Closed
    <3>3. CASE Utter
      BY <3>3 DEF Utter, SpeakVoiced, SpeakSilent, AwaitModel, StopSpeaking
    <3>4. CASE \/ Resume \/ Interrupt \/ Done \/ UNCHANGED vars
               \/ \E n \in Sentences : ThreadReturns(n)
      BY <3>4 DEF Resume, Interrupt, Done, ThreadReturns, vars
    <3> QED
      BY <3>1, <3>2, <3>3, <3>4 DEF Next
  <2> QED
    BY <1>5, <1>7, <2>1
<1> QED
  BY <1>8, <1>9, <1>10

------------------------------------------------------------------------------
(***************************************************************************)
(* The theorems.                                                           *)
(***************************************************************************)
LEMMA InitIInv == Init => IInv
<1> SUFFICES ASSUME Init PROVE IInv
  OBVIOUS
<1>0. /\ MaxSentences \in Nat /\ MaxInterrupts \in {0, 1}
      /\ ready = <<Turn>> /\ DOMAIN ready = {1} /\ ready[1] = Turn
      /\ uttered = <<>> /\ Len(uttered) = 0 /\ wire = <<>> /\ DOMAIN wire = {}
      /\ queue = <<>> /\ turn = "chatting" /\ sender = "none" /\ doomed = {}
      /\ next = 1 /\ buffered = {}
  BY DeliveryAssumption DEF Init
<1>1. TaskList = {} /\ Due = {}
  BY <1>0 DEF TaskList, Due
<1>2. ~Scheduled(Sender)
  BY <1>0, EntriesDiffer DEF Scheduled
<1>3. TypeOK
  <2>1. ready \in Seq({Turn, Sender, Gathered} \cup {Tts(n) : n \in Sentences})
    BY <1>0
  <2>2. next \in 1 .. MaxSentences + 1 /\ Len(uttered) <= MaxSentences
    BY <1>0
  <2> QED
    BY <1>0, <1>2, <2>1, <2>2 DEF TypeOK, Init
<1>4. QueueInv
  BY <1>0 DEF QueueInv, Once, Busy
<1>5. SenderInv
  BY <1>0 DEF SenderInv, Busy
<1>6. TaskInv
  BY <1>0, <1>1 DEF TaskInv, Init, Final, Gathers
<1>7. PlaybackInv /\ WireInv /\ EndInv
  BY <1>0 DEF PlaybackInv, WireInv, InOrder, EndInv
<1> QED
  BY <1>3, <1>4, <1>5, <1>6, <1>7 DEF IInv

LEMMA NextIInv == IInv /\ [Next]_vars => IInv'
<1> SUFFICES ASSUME IInv, [Next]_vars PROVE IInv'
  OBVIOUS
<1>0. /\ TypeOK /\ ControlInv /\ TaskInv /\ SentenceTypes
      /\ WireTypes /\ WireInv
  BY DEF IInv, TypeOK, ControlInv, ControlTypes, Entries, TurnStates, SentenceTypes,
         WireTypes, Messages
<1>1. ControlInv'
  BY <1>0, ControlSteps, ControlKept
<1>2. SentenceTypes' /\ TaskInv'
  BY <1>0, SentenceSteps, SentencesKept
<1>3. WireTypes' /\ WireInv' /\ Grows
  BY <1>0, WireSteps, WireKept
<1>4. PlaybackInv' /\ EndInv'
  BY <1>3, PlaybackKept, EndKept
<1>5. TypeOK'
  BY <1>1, <1>2, <1>3
     DEF TypeOK, ControlInv, ControlTypes, Entries, TurnStates, SentenceTypes, WireTypes,
         Messages
<1> QED
  BY <1>1, <1>2, <1>3, <1>4, <1>5 DEF IInv, ControlInv

\* The inductive invariant of the delivery of a turn's speech.
THEOREM Invariance == Spec => []IInv
<1>1. Init => IInv
  BY InitIInv
<1>2. IInv /\ [Next]_vars => IInv'
  BY NextIInv
<1> QED
  BY <1>1, <1>2, PTL DEF Spec

\* The state is well typed, and in particular the sender is scheduled exactly when
\* it is neither waiting for a payload nor over (_process_payload_queue).
THEOREM TypeCorrect == Spec => []TypeOK
<1>1. IInv => TypeOK
  BY DEF IInv
<1> QED
  BY <1>1, Invariance, PTL

\* However late each synthesis ends, the client gets the payloads in the order of the
\* sentences, without a gap and none twice (_next_sequence_to_send, buffered).
THEOREM SpeechInOrder == Spec => []InOrder
<1>1. IInv => InOrder
  BY DEF IInv, WireInv
<1> QED
  BY <1>1, Invariance, PTL

\* conversation-chain-end comes when every sentence of the turn has been sent.
THEOREM AllSpokenBeforeEnd == Spec => []SpokenBeforeEnd
<1>1. IInv => SpokenBeforeEnd
  BY DEF IInv, EndInv, SpokenBeforeEnd
<1> QED
  BY <1>1, Invariance, PTL

\* A turn that is over has no sender and sends nothing more (aclose).
THEOREM SilenceAfterwards == Spec => SilentAfterwards
<1>1. IInv /\ [Next]_vars =>
         [turn = "ended" => sender \in {"none", "done"} /\ UNCHANGED wire]_vars
  <2> SUFFICES ASSUME IInv, Next, turn = "ended"
               PROVE  sender \in {"none", "done"} /\ UNCHANGED wire
    OBVIOUS
  <2>1. sender \in {"none", "done"} /\ ControlInv
    BY DEF IInv, SenderInv, TypeOK, ControlInv, ControlTypes, Entries, TurnStates
  <2>2. ~Scheduled(Sender)
    BY <2>1 DEF ControlInv, ControlTypes
  <2>3. ~SenderGets
    BY <2>1, <2>2, RunsTakes DEF SenderGets, Entries
  <2> QED
    BY <2>1, <2>3
       DEF Next, Loop, Utter, SenderCancelled, GatherCalledBack, TtsStarts, TtsPuts,
           TtsCancelled, ThreadReturns, Prepared, Hear, AfterGather, AfterPlayback, Stored,
           Chatted, Finalize, TurnCancelled, Close, Closed, TurnRuns, SpeakVoiced,
           SpeakSilent, AwaitModel, StopSpeaking, Resume, Interrupt, Done, vars
<1> QED
  BY <1>1, Invariance, PTL DEF Spec, SilentAfterwards
==============================================================================
