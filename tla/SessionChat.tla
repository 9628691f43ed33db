----------------------------- MODULE SessionChat -----------------------------
(***************************************************************************)
(* Chatting about a completed session: the requests that run               *)
(* chat_about_session (apps/ai_service/services.py) at the same time, and  *)
(* the deletion of the session under them.                                 *)
(*                                                                         *)
(* A request reads the session, counts the messages, reads the history and *)
(* stores the exchange in four separate statements, none of them in a      *)
(* transaction with another, and calls the language model before the last. *)
(* A completed session never changes (module DivinationSession), so that   *)
(* the messages and the existence of the row are all the state there is.   *)
(* System messages are left out: every query of the chat excludes them.    *)
(***************************************************************************)
EXTENDS Naturals, Sequences, FiniteSets

CONSTANTS
    Requests,         \* POST chat requests being served
    ChatMessageLimit, \* CHAT_MESSAGE_LIMIT, 5
    HistoryWindow     \* messages of history given to the model, 10

ASSUME ChatAssumption ==
    /\ IsFiniteSet(Requests)
    /\ Requests # {}
    /\ ChatMessageLimit \in Nat \ {0}
    /\ HistoryWindow \in Nat
    /\ 2 * ChatMessageLimit <= HistoryWindow

VARIABLES
    live,     \* the session's row exists
    log,      \* its messages, oldest first
    pc,       \* where each request stands
    window    \* how many messages the log had when a request read the history

vars == <<live, log, pc, window>>

\* The two hidden messages that interpret_session left, and visible ones.
Prompt == [kind |-> "prompt"]
Interpretation == [kind |-> "interpretation"]
Visible == [kind : {"user", "assistant"}, by : Requests]

Init ==
    /\ live = TRUE
    /\ log = <<Prompt, Interpretation>>
    /\ pc = [r \in Requests |-> "idle"]
    /\ window = [r \in Requests |-> 0]

\* Visible messages of users in the first n messages of the log.
UserMessages(n) == {i \in 1 .. n : log[i].kind = "user"}

\* _chat_message_count.
ChatMessageCount == Cardinality(UserMessages(Len(log)))

\* Mutant of MayChat: the boundary is off by one.
MayChatOnceMore(n) == n <= ChatMessageLimit

\* The request goes on while fewer than the limit are stored.
MayChat(n) == n < ChatMessageLimit

\* Mutant of FirstOfHistory: a shorter slice than the limit needs.
FirstOfShortHistory(n) == IF n > 8 THEN n - 7 ELSE 1

\* Where the slice [:HistoryWindow] of the newest messages begins.
FirstOfHistory(n) ==
    IF n > HistoryWindow THEN n - HistoryWindow + 1 ELSE 1

\* What the request r hands to the model as history.
Context(r) == {log[i] : i \in FirstOfHistory(window[r]) .. window[r]}

\* Mutant of Exchange: both messages are stored as the interpretation's are.
HiddenExchange(r) == <<Prompt, Interpretation>>

\* The two messages bulk_create stores in one transaction.
Exchange(r) ==
    <<[kind |-> "user", by |-> r], [kind |-> "assistant", by |-> r]>>

\* Mutant of Unanswered: the user's message is stored although nobody answers.
UnansweredStored(r) ==
    log' = IF live THEN Append(log, [kind |-> "user", by |-> r]) ELSE log

\* A failing model leaves no message behind.
Unanswered(r) == log' = log

\* The foreign key to the session: without the row, bulk_create fails.
Storable == live

Goto(r, label) == pc' = [pc EXCEPT ![r] = label]

Respond(r) ==
    /\ Goto(r, "idle")
    /\ window' = [window EXCEPT ![r] = 0]

------------------------------------------------------------------------------
\* Read the session; a completed one goes on.
Read(r) ==
    /\ pc[r] = "idle"
    /\ live
    /\ Goto(r, "count")
    /\ UNCHANGED <<live, log, window>>

\* Count the messages; CHAT_LIMIT_REACHED ends the request.
Count(r) ==
    /\ pc[r] = "count"
    /\ IF MayChat(ChatMessageCount)
       THEN Goto(r, "history") /\ UNCHANGED window
       ELSE Respond(r)
    /\ UNCHANGED <<live, log>>

\* Read the newest messages.
ReadHistory(r) ==
    /\ pc[r] = "history"
    /\ window' = [window EXCEPT ![r] = Len(log)]
    /\ Goto(r, "generate")
    /\ UNCHANGED <<live, log>>

\* _chat answers.
Generate(r) ==
    /\ pc[r] = "generate"
    /\ Goto(r, "store")
    /\ UNCHANGED <<live, log, window>>

\* _chat raises AI_SERVICE_UNAVAILABLE.
GenerateFails(r) ==
    /\ pc[r] = "generate"
    /\ Unanswered(r)
    /\ Respond(r)
    /\ UNCHANGED live

\* bulk_create; the reads that fill the response change nothing.
Store(r) ==
    /\ pc[r] = "store"
    /\ log' = IF Storable THEN log \o Exchange(r) ELSE log
    /\ Respond(r)
    /\ UNCHANGED live

\* DELETE of the session takes its messages along.
Delete ==
    /\ live
    /\ live' = FALSE
    /\ log' = <<>>
    /\ UNCHANGED <<pc, window>>

Done ==
    /\ ~live
    /\ \A r \in Requests : pc[r] = "idle"
    /\ UNCHANGED vars

Next ==
    \/ \E r \in Requests :
          \/ Read(r) \/ Count(r) \/ ReadHistory(r)
          \/ Generate(r) \/ GenerateFails(r) \/ Store(r)
    \/ Delete \/ Done

Spec == Init /\ [][Next]_vars

------------------------------------------------------------------------------
\* Messages are hidden ones or a visitor's exchanges; a window never reaches
\* beyond the log.
TypeOK ==
    /\ live \in BOOLEAN
    /\ log \in Seq({Prompt, Interpretation} \cup Visible)
    /\ \A i \in 3 .. Len(log) : log[i] \in Visible
    /\ pc \in [Requests -> {"idle", "count", "history", "generate", "store"}]
    /\ window \in [Requests -> Nat]
    /\ live => \A r \in Requests : window[r] <= Len(log)

\* Requests that have passed the limit and may still store their exchange.
InFlight == {r \in Requests : pc[r] \in {"history", "generate", "store"}}

\* The limit can be overrun (it is counted long before the exchange is
\* stored), but only by the requests served at the same time.
OverrunBounded ==
    ChatMessageCount + Cardinality(InFlight)
        < ChatMessageLimit + Cardinality(Requests)

\* Messages come in whole exchanges after the two hidden ones: a message that
\* was not answered is not stored, does not count against the limit, and no
\* other request's message separates a question from its answer. Nothing is stored
\* for a session that was deleted while the model answered.
ExchangesWhole ==
    IF live
    THEN /\ Len(log) % 2 = 0
         /\ \A i \in 3 .. Len(log) :
               /\ log[i].kind = IF i % 2 = 1 THEN "user" ELSE "assistant"
               /\ i % 2 = 1 => log[i + 1].by = log[i].by
    ELSE log = <<>>

\* While the limit is kept, the model is given the interpretation it talks
\* about: at the last message allowed the history fits its window exactly.
ReadingInContext ==
    \A r \in Requests :
        /\ live
        /\ pc[r] = "generate"
        /\ MayChat(Cardinality(UserMessages(window[r])))
        => {Prompt, Interpretation} \subseteq Context(r)
==============================================================================
