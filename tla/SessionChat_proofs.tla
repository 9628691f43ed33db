-------------------------- MODULE SessionChat_proofs --------------------------
(***************************************************************************)
(* Proofs about the chat, for any number of requests, any limit and any    *)
(* window that is long enough: exchanges stay whole, the interpretation    *)
(* stays in the model's context, and how far concurrent requests can       *)
(* overrun the limit.                                                      *)
(***************************************************************************)
EXTENDS SessionChat, FiniteSetTheorems, TLAPS

(***************************************************************************)
(* What the proof needs of the types: the log is a sequence of messages,   *)
(* which have a kind.  The bound itself carries the rest: a request that   *)
(* passes the limit adds one to the requests in flight, one that stores    *)
(* its exchange moves one from there to the log.                           *)
(***************************************************************************)
LogTyped ==
    /\ live \in BOOLEAN
    /\ log \in Seq({Prompt, Interpretation} \cup Visible)
    /\ pc \in [Requests -> {"idle", "count", "history", "generate", "store"}]

\* Whatever a request or a deletion does, messages, positions and the existence
\* of the row keep their types: the log stays, is emptied or grows by an
\* exchange.
LEMMA LogTypedKept ==
    ASSUME LogTyped, [Next]_vars
    PROVE  LogTyped'
<1>1. /\ live' \in BOOLEAN
      /\ pc' \in [Requests -> {"idle", "count", "history", "generate", "store"}]
  BY DEF LogTyped, Next, Done, vars, Read, Count, ReadHistory, Generate,
         GenerateFails, Unanswered, Store, Delete, Goto, Respond
<1>2. \/ log' = log
      \/ log' = << >>
      \/ \E r \in Requests : log' = log \o Exchange(r)
  BY DEF Next, Done, vars, Read, Count, ReadHistory, Generate,
         GenerateFails, Unanswered, Store, Delete
<1>3. \A r \in Requests :
          log \o Exchange(r) \in Seq({Prompt, Interpretation} \cup Visible)
  <2>1. ASSUME NEW r \in Requests
        PROVE  Exchange(r) \in Seq({Prompt, Interpretation} \cup Visible)
    BY DEF Exchange, Visible
  <2>2. QED
    BY <2>1 DEF LogTyped
<1>4. log' \in Seq({Prompt, Interpretation} \cup Visible)
  <2>1. CASE log' = log
    BY <2>1 DEF LogTyped
  <2>2. CASE log' = << >>
    BY <2>2
  <2>3. CASE \E r \in Requests : log' = log \o Exchange(r)
    BY <1>3, <2>3
  <2>4. QED
    BY <1>2, <2>1, <2>2, <2>3
<1>5. QED
  BY <1>1, <1>4 DEF LogTyped

\* So the types the proofs need hold at all times.
LEMMA LogTypedInvariant == Spec => []LogTyped
<1>1. Init => LogTyped
  BY DEF Init, LogTyped
<1>2. QED
  BY <1>1, LogTypedKept, PTL DEF Spec

------------------------------------------------------------------------------
\* The two cardinalities in the bound are numbers.
LEMMA Counts ==
    ASSUME LogTyped
    PROVE  /\ IsFiniteSet(UserMessages(Len(log)))
           /\ ChatMessageCount \in Nat
           /\ IsFiniteSet(InFlight)
           /\ Cardinality(InFlight) \in Nat
           /\ Cardinality(Requests) \in Nat
           /\ Cardinality(InFlight) <= Cardinality(Requests)
<1>1. Len(log) \in Nat
  BY DEF LogTyped
<1>2. IsFiniteSet(1 .. Len(log))
  BY <1>1, FS_Interval
<1>3. IsFiniteSet(UserMessages(Len(log)))
  BY <1>2, FS_Subset DEF UserMessages
<1>4. IsFiniteSet(InFlight) /\ Cardinality(InFlight) <= Cardinality(Requests)
  BY FS_Subset, ChatAssumption DEF InFlight
<1>5. QED
  BY <1>3, <1>4, FS_CardinalityType, ChatAssumption DEF ChatMessageCount

\* An exchange adds exactly one message of a user.
LEMMA ExchangeCountsOnce ==
    ASSUME LogTyped, NEW r \in Requests, log' = log \o Exchange(r)
    PROVE  ChatMessageCount' = ChatMessageCount + 1
<1> DEFINE n == Len(log)
<1>1. n \in Nat /\ Len(log') = n + 2
  BY DEF LogTyped, Exchange
<1>2. \A i \in 1 .. n : log'[i] = log[i]
  BY DEF LogTyped, Exchange
<1>3. log'[n + 1].kind = "user" /\ log'[n + 2].kind = "assistant"
  BY <1>1 DEF LogTyped, Exchange
<1>4. UserMessages(Len(log))' = UserMessages(n) \cup {n + 1}
  BY <1>1, <1>2, <1>3 DEF UserMessages
<1>5. n + 1 \notin UserMessages(n)
  BY <1>1 DEF UserMessages
<1>6. Cardinality(UserMessages(n) \cup {n + 1}) = Cardinality(UserMessages(n)) + 1
  BY <1>5, Counts, FS_AddElement
<1>7. QED
  BY <1>4, <1>6 DEF ChatMessageCount

\* A request that ends leaves the requests in flight.
LEMMA InFlightLoses ==
    ASSUME LogTyped, NEW r \in Requests, r \in InFlight, Respond(r)
    PROVE  Cardinality(InFlight') = Cardinality(InFlight) - 1
<1>1. InFlight' = InFlight \ {r}
  BY DEF LogTyped, InFlight, Respond, Goto
<1>2. QED
  BY <1>1, Counts, FS_RemoveElement

\* However many requests chat about one session at once, the messages stored
\* exceed the limit by less than the number of those requests.
THEOREM OverrunIsBounded == Spec => []OverrunBounded
<1>1. Init => OverrunBounded
  <2> SUFFICES ASSUME Init
               PROVE  OverrunBounded
    OBVIOUS
  <2>1. UserMessages(Len(log)) = {}
    BY DEF Init, UserMessages, Prompt, Interpretation
  <2>2. InFlight = {}
    BY DEF Init, InFlight
  <2>3. Cardinality(Requests) \in Nat
    BY FS_CardinalityType, ChatAssumption
  <2>4. QED
    BY <2>1, <2>2, <2>3, FS_EmptySet, ChatAssumption
       DEF OverrunBounded, ChatMessageCount
<1>2. OverrunBounded /\ LogTyped /\ LogTyped' /\ [Next]_vars => OverrunBounded'
  <2> SUFFICES ASSUME OverrunBounded, LogTyped, LogTyped', [Next]_vars
               PROVE  OverrunBounded'
    OBVIOUS
  <2> USE DEF OverrunBounded
  <2>1. ASSUME NEW r \in Requests, Read(r)
        PROVE  OverrunBounded'
    <3>1. InFlight' = InFlight /\ ChatMessageCount' = ChatMessageCount
      BY <2>1 DEF Read, Goto, InFlight, LogTyped, ChatMessageCount, UserMessages
    <3>2. QED
      BY <3>1
  <2>2. ASSUME NEW r \in Requests, Count(r)
        PROVE  OverrunBounded'
    <3>1. ChatMessageCount' = ChatMessageCount
      BY <2>2 DEF Count, ChatMessageCount, UserMessages
    <3>2. CASE MayChat(ChatMessageCount)
      <4>1. Cardinality(InFlight') <= Cardinality(Requests)
            /\ Cardinality(InFlight') \in Nat
        BY FS_Subset, FS_CardinalityType, ChatAssumption DEF InFlight
      <4>2. QED
        BY <3>1, <3>2, <4>1, Counts, ChatAssumption DEF MayChat
    <3>3. CASE ~MayChat(ChatMessageCount)
      <4>1. InFlight' = InFlight
        BY <2>2, <3>3 DEF Count, Respond, Goto, InFlight, LogTyped
      <4>2. QED
        BY <3>1, <4>1
    <3>4. QED
      BY <3>2, <3>3
  <2>3. ASSUME NEW r \in Requests, ReadHistory(r) \/ Generate(r)
        PROVE  OverrunBounded'
    <3>1. InFlight' = InFlight /\ ChatMessageCount' = ChatMessageCount
      BY <2>3 DEF ReadHistory, Generate, Goto, InFlight, LogTyped,
         ChatMessageCount, UserMessages
    <3>2. QED
      BY <3>1
  <2>4. ASSUME NEW r \in Requests, GenerateFails(r)
        PROVE  OverrunBounded'
    <3>1. ChatMessageCount' = ChatMessageCount
      BY <2>4 DEF GenerateFails, Unanswered, ChatMessageCount, UserMessages
    <3>2. Cardinality(InFlight') = Cardinality(InFlight) - 1
      BY <2>4, InFlightLoses DEF GenerateFails, InFlight
    <3>3. QED
      BY <3>1, <3>2, Counts, ChatAssumption
  <2>5. ASSUME NEW r \in Requests, Store(r)
        PROVE  OverrunBounded'
    <3>1. Cardinality(InFlight') = Cardinality(InFlight) - 1
      BY <2>5, InFlightLoses DEF Store, InFlight
    <3>2. CASE Storable
      <4>1. ChatMessageCount' = ChatMessageCount + 1
        BY <2>5, <3>2, ExchangeCountsOnce DEF Store
      <4>2. QED
        BY <3>1, <4>1, Counts, ChatAssumption
    <3>3. CASE ~Storable
      <4>1. ChatMessageCount' = ChatMessageCount
        BY <2>5, <3>3 DEF Store, ChatMessageCount, UserMessages
      <4>2. QED
        BY <3>1, <4>1, Counts, ChatAssumption
    <3>4. QED
      BY <3>2, <3>3
  <2>6. CASE Delete
    <3>1. UserMessages(Len(log))' = {}
      BY <2>6 DEF Delete, UserMessages
    <3>2. ChatMessageCount' = 0
      BY <3>1, FS_EmptySet DEF ChatMessageCount
    <3>3. InFlight' = InFlight
      BY <2>6 DEF Delete, InFlight
    <3>4. QED
      BY <3>2, <3>3, Counts, ChatAssumption
  <2>7. CASE UNCHANGED vars
    <3>1. InFlight' = InFlight /\ ChatMessageCount' = ChatMessageCount
      BY <2>7 DEF vars, InFlight, ChatMessageCount, UserMessages
    <3>2. QED
      BY <3>1
  <2>8. QED
    BY <2>1, <2>2, <2>3, <2>4, <2>5, <2>6, <2>7 DEF Next, Done
<1>3. QED
  BY <1>1, <1>2, LogTypedInvariant, PTL DEF Spec

------------------------------------------------------------------------------
(***************************************************************************)
(* What the log looks like, and what the model is shown of it.  Messages   *)
(* are only appended while the session exists, two at a time.              *)
(***************************************************************************)

\* A step leaves the log and the windows alone, appends an exchange while the
\* session exists, drops both with the session, or moves a window.
LEMMA LogSteps ==
    ASSUME LogTyped, [Next]_vars
    PROVE  \/ /\ log' = log
              /\ live' = live
              /\ \/ window' = window
                 \/ \E r \in Requests :
                       window' = [window EXCEPT ![r] = 0] \/ ReadHistory(r)
           \/ \E r \in Requests :
                 /\ live /\ live'
                 /\ log' = log \o Exchange(r)
                 /\ window' = [window EXCEPT ![r] = 0]
           \/ ~live' /\ log' = <<>> /\ window' = window
<1>1. ASSUME NEW r \in Requests,
             Read(r) \/ Count(r) \/ ReadHistory(r) \/ Generate(r)
      PROVE  /\ log' = log
             /\ live' = live
             /\ \/ window' = window
                \/ window' = [window EXCEPT ![r] = 0] \/ ReadHistory(r)
  BY <1>1 DEF Read, Count, Generate, Respond, ReadHistory
<1>2. ASSUME NEW r \in Requests, GenerateFails(r)
      PROVE  log' = log /\ live' = live /\ window' = [window EXCEPT ![r] = 0]
  BY <1>2 DEF GenerateFails, Unanswered, Respond
<1>3. ASSUME NEW r \in Requests, Store(r)
      PROVE  /\ window' = [window EXCEPT ![r] = 0]
             /\ live' = live
             /\ log' = log \/ (live /\ log' = log \o Exchange(r))
  BY <1>3 DEF Store, Storable, Respond
<1>4. CASE Delete
  BY <1>4 DEF Delete
<1>5. CASE UNCHANGED vars
  BY <1>5 DEF vars
<1>6. QED
  BY <1>1, <1>2, <1>3, <1>4, <1>5 DEF Next, Done, LogTyped

\* The exchange lengthens the log by two messages and keeps what was there.
LEMMA ExchangeAppends ==
    ASSUME LogTyped, NEW r \in Requests, log' = log \o Exchange(r)
    PROVE  /\ Len(log) \in Nat
           /\ Len(log') = Len(log) + 2
           /\ \A i \in 1 .. Len(log) : log'[i] = log[i]
           /\ log'[Len(log) + 1] = [kind |-> "user", by |-> r]
           /\ log'[Len(log) + 2] = [kind |-> "assistant", by |-> r]
BY DEF LogTyped, Exchange

\* Messages are hidden ones or a visitor's exchanges; a window never reaches
\* beyond the log.
THEOREM TypeCorrect == Spec => []TypeOK
<1> DEFINE Part ==
      /\ \A i \in 3 .. Len(log) : log[i] \in Visible
      /\ window \in [Requests -> Nat]
      /\ live => Len(log) >= 2 /\ \A r \in Requests : window[r] <= Len(log)
<1>1. Init => Part
  BY DEF Init
<1>2. LogTyped /\ Part /\ [Next]_vars => Part'
  <2> SUFFICES ASSUME LogTyped, Part, [Next]_vars
               PROVE  Part'
    OBVIOUS
  <2>0. Len(log) \in Nat
    BY DEF LogTyped
  <2>1. CASE /\ log' = log
             /\ live' = live
             /\ \/ window' = window
                \/ \E r \in Requests :
                      window' = [window EXCEPT ![r] = 0] \/ ReadHistory(r)
    <3>1. window' \in [Requests -> Nat]
      BY <2>0, <2>1 DEF ReadHistory
    <3>2. live' => \A r \in Requests : window'[r] <= Len(log')
      BY <2>0, <2>1 DEF ReadHistory
    <3>3. QED
      BY <2>1, <3>1, <3>2
  <2>2. ASSUME NEW r \in Requests,
               live, log' = log \o Exchange(r),
               window' = [window EXCEPT ![r] = 0]
        PROVE  Part'
    <3>1. /\ Len(log) \in Nat /\ Len(log') = Len(log) + 2
          /\ \A i \in 1 .. Len(log) : log'[i] = log[i]
          /\ log'[Len(log) + 1] = [kind |-> "user", by |-> r]
          /\ log'[Len(log) + 2] = [kind |-> "assistant", by |-> r]
      BY <2>2, ExchangeAppends
    <3>2. log'[Len(log) + 1] \in Visible /\ log'[Len(log) + 2] \in Visible
      BY <3>1 DEF Visible
    <3>3. \A i \in 3 .. Len(log') : log'[i] \in Visible
      BY <3>1, <3>2
    <3>4. window' \in [Requests -> Nat]
      BY <2>2
    <3>5. Len(log') >= 2 /\ \A q \in Requests : window'[q] <= Len(log')
      BY <2>2, ExchangeAppends
    <3>6. QED
      BY <3>3, <3>4, <3>5
  <2>3. CASE ~live' /\ log' = <<>> /\ window' = window
    BY <2>3
  <2>4. QED
    BY <2>1, <2>2, <2>3, LogSteps
<1>3. LogTyped /\ Part => TypeOK
  BY DEF LogTyped, TypeOK
<1>4. QED
  BY <1>1, <1>2, <1>3, LogTypedInvariant, PTL DEF Spec

\* A stored message is never separated from the one it belongs to, whichever
\* other requests store, fail or find the session deleted in between.
THEOREM ExchangesStayWhole == Spec => []ExchangesWhole
<1> DEFINE Part == ExchangesWhole /\ (live => Len(log) >= 2)
<1>1. Init => Part
  BY DEF Init, ExchangesWhole
<1>2. LogTyped /\ Part /\ [Next]_vars => Part'
  <2> SUFFICES ASSUME LogTyped, Part, [Next]_vars
               PROVE  Part'
    OBVIOUS
  <2>1. CASE log' = log /\ live' = live
    BY <2>1 DEF ExchangesWhole
  <2>2. ASSUME NEW r \in Requests,
               live, live', log' = log \o Exchange(r)
        PROVE  Part'
    <3> DEFINE n == Len(log)
    <3>1. n \in Nat /\ n % 2 = 0 /\ n >= 2 /\ Len(log') = n + 2
      BY <2>2, ExchangeAppends DEF ExchangesWhole
    <3>2. (n + 1) % 2 = 1 /\ (n + 2) % 2 = 0
      BY <3>1
    <3>3. /\ log'[n + 1] = [kind |-> "user", by |-> r]
          /\ log'[n + 2] = [kind |-> "assistant", by |-> r]
      BY <2>2, ExchangeAppends
    <3>4. (n + 1) + 1 = n + 2
      BY <3>1
    <3>5. ASSUME NEW i \in 3 .. Len(log')
          PROVE  /\ log'[i].kind = IF i % 2 = 1 THEN "user" ELSE "assistant"
                 /\ i % 2 = 1 => log'[i + 1].by = log'[i].by
      <4>1. CASE i \in 3 .. n
        <5>1. log'[i] = log[i]
          BY <2>2, <4>1, ExchangeAppends
        <5>2. i % 2 = 1 => i + 1 \in 1 .. n
          BY <3>1, <4>1
        <5>3. i % 2 = 1 => log'[i + 1] = log[i + 1]
          BY <2>2, <5>2, ExchangeAppends
        <5>4. QED
          BY <2>2, <4>1, <5>1, <5>3 DEF ExchangesWhole
      <4>2. CASE i = n + 1
        BY <3>2, <3>3, <3>4, <4>2
      <4>3. CASE i = n + 2
        BY <3>2, <3>3, <4>3
      <4>4. QED
        BY <3>1, <4>1, <4>2, <4>3
    <3>6. QED
      BY SMTT(30), <2>2, <3>1, <3>2, <3>5 DEF ExchangesWhole
  <2>3. CASE ~live' /\ log' = <<>>
    BY <2>3 DEF ExchangesWhole
  <2>4. QED
    BY <2>1, <2>2, <2>3, LogSteps
<1>3. QED
  BY <1>1, <1>2, LogTypedInvariant, PTL DEF Spec

------------------------------------------------------------------------------
(***************************************************************************)
(* The history the model is given.  Half the messages after the hidden     *)
(* ones are visitors', so that whoever finds fewer than the limit of them  *)
(* finds a log that fits the window.  The prefix a request has read stays  *)
(* as it was while the session exists, so that this is still so when the   *)
(* model answers.                                                          *)
(***************************************************************************)
Opening ==
    live => /\ Len(log) >= 2
            /\ log[1] = Prompt
            /\ log[2] = Interpretation

\* Of the first n messages, all but the two hidden ones come in pairs.
Paired(n) == n >= 2 /\ n = 2 + 2 * Cardinality(UserMessages(n))

WindowsPaired ==
    live => /\ Paired(Len(log))
            /\ \A r \in Requests : pc[r] = "generate" =>
                  window[r] <= Len(log) /\ Paired(window[r])

\* A prefix of the log keeps its visitors' messages as the log grows.
LEMMA PrefixKept ==
    ASSUME LogTyped, NEW r \in Requests, log' = log \o Exchange(r),
           NEW n \in Nat, n <= Len(log)
    PROVE  UserMessages(n)' = UserMessages(n)
<1>1. \A i \in 1 .. Len(log) : log'[i] = log[i]
  BY ExchangeAppends
<1>2. Len(log) \in Nat
  BY ExchangeAppends
<1>3. \A i \in 1 .. n : log'[i] = log[i]
  BY <1>1, <1>2
<1>4. QED
  BY <1>3 DEF UserMessages

\* A whole exchange keeps the pairing of the log.
LEMMA ExchangeKeepsPaired ==
    ASSUME LogTyped, NEW r \in Requests, log' = log \o Exchange(r),
           Paired(Len(log))
    PROVE  Paired(Len(log))'
<1>1. ChatMessageCount' = ChatMessageCount + 1
  BY ExchangeCountsOnce
<1>2. Len(log) \in Nat /\ Len(log') = Len(log) + 2
  BY ExchangeAppends
<1>3. ChatMessageCount \in Nat
  BY Counts
<1>4. QED
  BY <1>1, <1>2, <1>3 DEF Paired, ChatMessageCount

\* The hidden messages stay where interpret_session put them.
LEMMA OpeningInvariant == Spec => []Opening
<1>1. Init => Opening
  BY DEF Init, Opening
<1>2. LogTyped /\ Opening /\ [Next]_vars => Opening'
  <2> SUFFICES ASSUME LogTyped, Opening, [Next]_vars
               PROVE  Opening'
    OBVIOUS
  <2>1. ASSUME NEW r \in Requests, live, log' = log \o Exchange(r)
        PROVE  Opening'
    <3>1. /\ Len(log) \in Nat /\ Len(log') = Len(log) + 2
          /\ \A i \in 1 .. Len(log) : log'[i] = log[i]
      BY <2>1, ExchangeAppends
    <3>2. QED
      BY <2>1, <3>1 DEF Opening
  <2>2. CASE log' = log /\ live' = live
    BY <2>2 DEF Opening
  <2>3. CASE ~live'
    BY <2>3 DEF Opening
  <2>4. QED
    BY <2>1, <2>2, <2>3, LogSteps
<1>3. QED
  BY <1>1, <1>2, LogTypedInvariant, PTL DEF Spec

\* A request at the model goes on having read whole exchanges: the log under
\* its window changes only at the end, by an exchange, or goes with the session.
LEMMA WindowsPairedKept ==
    ASSUME LogTyped, TypeOK, WindowsPaired, [Next]_vars
    PROVE  WindowsPaired'
<1>1. Len(log) \in Nat
  BY DEF LogTyped
<1>2. CASE Delete
  BY <1>2 DEF Delete, WindowsPaired
<1>3. CASE \/ UNCHANGED vars
           \/ \E r \in Requests :
                 Read(r) \/ Count(r) \/ Generate(r) \/ GenerateFails(r)
  <2>1. log' = log /\ live' = live
    BY <1>3 DEF vars, Read, Count, Generate, GenerateFails, Unanswered
  <2>2. ASSUME NEW q \in Requests, pc'[q] = "generate"
        PROVE  pc[q] = "generate" /\ window'[q] = window[q]
    BY <1>1, <1>3, <2>2
       DEF vars, Read, Count, Generate, GenerateFails, Goto, Respond, TypeOK
  <2>3. QED
    BY <2>1, <2>2 DEF WindowsPaired, Paired, UserMessages
<1>4. ASSUME NEW r \in Requests, ReadHistory(r)
      PROVE  WindowsPaired'
  <2>1. log' = log /\ live' = live
    BY <1>4 DEF ReadHistory
  <2>2. ASSUME NEW q \in Requests, pc'[q] = "generate"
        PROVE  \/ pc[q] = "generate" /\ window'[q] = window[q]
               \/ window'[q] = Len(log)
    BY <1>1, <1>4, <2>2 DEF ReadHistory, Goto, TypeOK
  <2>3. ASSUME live
        PROVE  Paired(Len(log))'
    BY <2>1, <2>3 DEF WindowsPaired, Paired, UserMessages
  <2>4. ASSUME live, NEW q \in Requests, pc'[q] = "generate"
        PROVE  window'[q] <= Len(log') /\ Paired(window[q])'
    <3>1. CASE pc[q] = "generate" /\ window'[q] = window[q]
      BY <2>1, <2>4, <3>1 DEF WindowsPaired, Paired, UserMessages
    <3>2. CASE window'[q] = Len(log)
      <4>1. window'[q] = Len(log') /\ window'[q] <= Len(log')
        BY <1>1, <2>1, <3>2
      <4>2. Paired(Len(log))'
        BY <2>3, <2>4
      <4>3. QED
        BY <4>1, <4>2 DEF Paired, UserMessages
    <3>3. QED
      BY <2>2, <2>4, <3>1, <3>2
  <2>5. QED
    BY <2>1, <2>3, <2>4 DEF WindowsPaired
<1>5. ASSUME NEW r \in Requests, Store(r)
      PROVE  WindowsPaired'
  <2>1. ASSUME NEW q \in Requests, pc'[q] = "generate"
        PROVE  pc[q] = "generate" /\ window'[q] = window[q]
    BY <1>1, <1>5, <2>1 DEF Store, Goto, Respond, TypeOK
  <2>2. CASE live
    <3>1. log' = log \o Exchange(r) /\ live' = live
      BY <1>5, <2>2 DEF Store, Storable
    <3>2. Paired(Len(log))'
      BY <2>2, <3>1, ExchangeKeepsPaired DEF WindowsPaired
    <3>3. Len(log') = Len(log) + 2
      BY <3>1, ExchangeAppends
    <3>4. ASSUME NEW q \in Requests, pc'[q] = "generate"
          PROVE  window'[q] <= Len(log') /\ Paired(window[q])'
      <4>1. window[q] \in Nat /\ window[q] <= Len(log) /\ Paired(window[q])
        BY <2>1, <2>2, <3>4 DEF WindowsPaired, TypeOK
      <4>2. UserMessages(window[q])' = UserMessages(window[q])
        <5>1. \A n \in Nat : n <= Len(log) =>
                 {i \in 1 .. n : log'[i].kind = "user"} = UserMessages(n)
          BY <3>1, PrefixKept DEF UserMessages
        <5>2. QED
          BY <2>1, <3>4, <4>1, <5>1 DEF UserMessages
      <4>3. QED
        BY <1>1, <2>1, <3>3, <3>4, <4>1, <4>2 DEF Paired
    <3>5. QED
      BY <3>2, <3>4 DEF WindowsPaired
  <2>3. CASE ~live
    BY <1>5, <2>3 DEF Store, WindowsPaired
  <2>4. QED
    BY <2>2, <2>3
<1>6. QED
  BY <1>2, <1>3, <1>4, <1>5 DEF Next, Done

\* A request at the model has read whole exchanges.
LEMMA WindowsPairedInvariant == Spec => []WindowsPaired
<1>1. Init => WindowsPaired
  <2> SUFFICES ASSUME Init
               PROVE  WindowsPaired
    OBVIOUS
  <2>1. Len(log) = 2 /\ UserMessages(2) = {}
    BY DEF Init, UserMessages, Prompt, Interpretation
  <2>2. Paired(Len(log))
    BY <2>1, FS_EmptySet DEF Paired
  <2>3. QED
    BY <2>2 DEF Init, WindowsPaired
<1>2. QED
  BY <1>1, WindowsPairedKept, LogTypedInvariant, TypeCorrect, PTL DEF Spec

\* A request that finds the limit kept always shows the model the messages of
\* the interpretation it is asked about: this is what the window of twice the
\* limit is for, and it holds for any limit and any window at least as long.
THEOREM ReadingStaysInContext == Spec => []ReadingInContext
<1>1. TypeOK /\ Opening /\ WindowsPaired => ReadingInContext
  <2> SUFFICES ASSUME TypeOK, Opening, WindowsPaired,
                      NEW r \in Requests, live, pc[r] = "generate",
                      MayChat(Cardinality(UserMessages(window[r])))
               PROVE  {Prompt, Interpretation} \subseteq Context(r)
    BY DEF ReadingInContext
  <2> DEFINE c == Cardinality(UserMessages(window[r]))
  <2>1. window[r] \in Nat /\ window[r] >= 2 /\ window[r] = 2 + 2 * c
    BY DEF TypeOK, WindowsPaired, Paired
  <2>2. c \in Nat
    <3>1. IsFiniteSet(1 .. window[r])
      BY <2>1, FS_Interval
    <3>2. IsFiniteSet(UserMessages(window[r]))
      BY <3>1, FS_Subset DEF UserMessages
    <3>3. QED
      BY <3>2, FS_CardinalityType
  <2>3. c < ChatMessageLimit
    BY DEF MayChat
  <2>4. window[r] <= HistoryWindow
    BY <2>1, <2>2, <2>3, ChatAssumption
  <2>5. FirstOfHistory(window[r]) = 1
    BY <2>1, <2>4, ChatAssumption DEF FirstOfHistory
  <2>6. 1 \in 1 .. window[r] /\ 2 \in 1 .. window[r]
    BY <2>1
  <2>7. QED
    BY <2>5, <2>6 DEF Context, Opening
<1>2. QED
  BY <1>1, TypeCorrect, OpeningInvariant, WindowsPairedInvariant, PTL
==============================================================================
