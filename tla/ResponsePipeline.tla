-------------------------- MODULE ResponsePipeline --------------------------
(***************************************************************************)
(* From the stream of the language model to what is shown and spoken: the  *)
(* chat function of BasicMemoryAgent and its transformers                  *)
(* (engine/agent/transformers.py), and the text _handle_speak_text speaks. *)
(*                                                                         *)
(* The transformers are generators: each pulls the next item from the one  *)
(* before it. The model is asked for a chunk when the divider has nothing  *)
(* left to yield, and nobody asks once the guard has returned.             *)
(*                                                                         *)
(* mode is where the response is:                                          *)
(*   open   the model sends             ended    it has ended, the buffer  *)
(*   done   everything is delivered              is flushed                *)
(*   cut    the guard has returned      speaking a given text is spoken    *)
(*   failed the stream has raised       spoken   it has been               *)
(***************************************************************************)
EXTENDS SentenceDivider

CONSTANTS
    TokenKinds,      \* the kinds of token the texts are made of
    MaxTokens,       \* bound: the length of a response
    MaxChunk,        \* bound: the length of a chunk
    MaxCharacters    \* max_response_characters (a token counts as one)

ASSUME TokenAssumption == TokenKinds \subseteq Kinds
ASSUME BoundAssumption ==
    MaxTokens \in Nat /\ MaxChunk \in Nat /\ MaxCharacters \in Nat \ {0}

VARIABLES
    mode,
    emitted,      \* emitted_characters of the guard
    remembered,   \* the response has become a message of the agent's memory
    outputs       \* the sentences delivered: their interval, and what is voiced

vars == <<received, half, at, depth, isFirst, pending, mode, emitted, remembered, outputs>>
pipeVars == <<mode, emitted, remembered, outputs>>

Init ==
    /\ DividerInit
    /\ mode = "open"
    /\ emitted = 0
    /\ remembered = FALSE
    /\ outputs = <<>>
-----------------------------------------------------------------------------
Interval(s) == s.from .. s.to

\* How deep every position from `first` on, and the one before it, is nested in
\* brackets. One that closes nothing is ignored.
Nesting(text, opening, closing, first, last) ==
    LET level[p \in first - 1 .. last] ==
            IF p = first - 1 THEN 0
            ELSE IF text[p] \in opening THEN level[p - 1] + 1
            ELSE IF text[p] = closing /\ level[p - 1] > 0 THEN level[p - 1] - 1
            ELSE level[p - 1]
    IN  level

Text == [p \in DOMAIN received |-> Kind(p)]

\* _filter_nested of one sentence: the positions outside its parentheses. What
\* has no end, a half tag included, goes on to the end of the sentence.
OutsideParentheses(first, last) ==
    LET level == Nesting(Text, {"(", "half"}, ")", first, last)
    IN  {p \in first .. last : level[p] = 0 /\ Kind(p) # ")"}

\* The emotion tags of a text.
extract_emotion(first, last) == Of({"emotion"}, first, last)

\* Of anything but a tag they become actions, and are taken out of the text.
actions_extractor(s) ==
    IF s.tags \in {"start", "end"} THEN {} ELSE extract_emotion(s.from, s.to)

\* display_processor: a tag becomes a parenthesis, a self-closing one stays. (The
\* conversion to traditional characters changes wording only.)
display_processor(s) ==
    CASE s.tags = "start" -> [sign |-> "(", text |-> {}]
      [] s.tags = "end" -> [sign |-> ")", text |-> {}]
      [] OTHER -> [sign |-> "", text |-> Interval(s) \ actions_extractor(s)]

\* What is left of a text to be voiced. (Markup and special characters are left out.)
filter_text(s) == OutsideParentheses(s.from, s.to) \cap display_processor(s).text

\* Nothing of a sentence with a think tag is voiced, of another what is displayed.
tts_filter(s) == IF s.tags = "none" THEN filter_text(s) ELSE {}

\* A SentenceOutput.
Output(s) == [from |-> s.from, to |-> s.to, tags |-> s.tags, actions |-> actions_extractor(s),
              display |-> display_processor(s), voiced |-> tts_filter(s)]

\* Mutant of CutText: the whole sentence that passes the limit is let through.
LetThrough(s) == s

\* The guard cuts a sentence that is longer than what remains. (A sentence has
\* tags, if only one that says "none": is_long_plain_sentence is never true, and no
\* repetition is removed.)
CutText(s) ==
    [s EXCEPT !.to = Min({s.to, s.from + (MaxCharacters - emitted) - 1})]

\* response_quality_guard and what comes after it.
Emit ==
    /\ mode \in {"open", "ended"}
    /\ pending # <<>>
    /\ LET s == CutText(Head(pending))
       IN  /\ emitted' = emitted + (s.to - s.from + 1)
           /\ outputs' = Append(outputs, Output(s))
    /\ IF emitted' >= MaxCharacters
       THEN mode' = "cut" /\ pending' = <<>>
       ELSE UNCHANGED mode /\ pending' = Tail(pending)
    /\ UNCHANGED <<received, half, at, depth, isFirst, remembered>>

\* The divider works when it is asked for the next sentence.
DivideBuffer ==
    /\ mode \in {"open", "ended"}
    /\ Divide
    /\ UNCHANGED pipeVars

Receive ==
    /\ mode = "open"
    /\ \E chunk \in BoundedSeq(TokenKinds, MaxChunk), h \in BOOLEAN :
          /\ Len(received) + Len(chunk) <= MaxTokens
          /\ AddChunk(chunk, h)
    /\ UNCHANGED pipeVars

\* The stream ends: the response, if there is one, is remembered, whatever the
\* buffer still holds. (An APIError ends the stream with a text that says so.)
StreamEnds ==
    /\ mode = "open" /\ Settled
    /\ mode' = "ended"
    /\ remembered' = (received # <<>>)
    /\ UNCHANGED <<dividerVars, emitted, outputs>>

\* Any other exception goes through all generators; the buffer goes with them.
StreamFails ==
    /\ mode = "open" /\ Settled
    /\ mode' = "failed"
    /\ UNCHANGED <<dividerVars, emitted, remembered, outputs>>

Flush == mode = "ended" /\ FlushBuffer /\ UNCHANGED pipeVars

FlushEnds ==
    /\ mode = "ended" /\ Settled
    /\ at > Len(received)
    /\ mode' = "done"
    /\ UNCHANGED <<dividerVars, emitted, remembered, outputs>>
-----------------------------------------------------------------------------
\* _handle_speak_text of a text: its sentences and what remains, as they are.
SpeakText ==
    /\ mode = "open" /\ received = <<>>
    /\ \E text \in BoundedSeq(TokenKinds, MaxTokens) : text # <<>> /\ received' = text
    /\ mode' = "speaking"
    /\ UNCHANGED <<half, at, depth, isFirst, pending, emitted, remembered, outputs>>

Spoken(s) == [from |-> s.from, to |-> s.to, tags |-> "none", actions |-> {},
              display |-> [sign |-> "", text |-> Interval(s)], voiced |-> Interval(s)]

SpeakSentences ==
    /\ mode = "speaking"
    /\ \E s \in Segmentations(1, Len(received)) :
          LET remaining == IF s.rest > Len(received) THEN <<>>
                           ELSE <<Sentence(s.rest, Len(received), "none")>>
              said == s.sentences \o remaining
          IN  outputs' = [i \in 1 .. Len(said) |-> Spoken(said[i])]
    /\ at' = Len(received) + 1
    /\ mode' = "spoken"
    /\ UNCHANGED <<received, half, depth, isFirst, pending, emitted, remembered>>
-----------------------------------------------------------------------------
Done == mode \in {"done", "cut", "failed", "spoken"} /\ UNCHANGED vars

Next ==
    \/ Receive \/ DivideBuffer \/ Emit
    \/ StreamEnds \/ StreamFails \/ Flush \/ FlushEnds
    \/ SpeakText \/ SpeakSentences
    \/ Done

Spec == Init /\ [][Next]_vars
-----------------------------------------------------------------------------
Positions == 1 .. MaxTokens

\* The variables have the values the comments above give them.
TypeOK ==
    /\ received \in Seq(TokenKinds) /\ Len(received) <= MaxTokens
    /\ half \in BOOLEAN
    /\ at \in 1 .. Len(received) + 1
    /\ depth \in 0 .. MaxTokens
    /\ isFirst \in BOOLEAN
    /\ \A i \in DOMAIN pending :
          pending[i] \in [from : Positions, to : Positions,
                          tags : {"start", "end", "self", "inside", "none"}]
    /\ mode \in {"open", "ended", "done", "cut", "failed", "speaking", "spoken"}
    /\ emitted \in 0 .. MaxTokens
    /\ remembered \in BOOLEAN
    /\ \A i \in DOMAIN outputs :
          /\ outputs[i].from <= outputs[i].to
          /\ outputs[i].display \in [sign : {"(", ")", ""}, text : SUBSET Interval(outputs[i])]
          /\ outputs[i].voiced \cup outputs[i].actions \subseteq Interval(outputs[i])

Delivered == UNION {Interval(outputs[i]) : i \in DOMAIN outputs}
Waiting == UNION {Interval(pending[i]) : i \in DOMAIN pending}

\* How many think blocks are open after each position of what was received.
Thinking == Nesting(Text, {"think"}, "/think", 1, Len(received))

\* However the stream is cut into chunks: what the model thinks is not voiced
\* (tts_filter: "Skips TTS for think tag content"), and what it says is, unless a
\* parenthesis of the same sentence comes before it.
SilentIffThinking ==
    mode # "spoken" =>
        \A i \in DOMAIN outputs : \A p \in Interval(outputs[i]) \ Of(Tags \cup {"emotion"}, 1, Len(received)) :
            /\ p \in outputs[i].voiced => Thinking[p] = 0
            /\ Thinking[p] = 0 /\ Of({"(", ")", "half"}, outputs[i].from, p) = {}
                  => p \in outputs[i].voiced

\* Nothing marks the end of a sentence or of a block between p and q.
NoTagWithin(p, q) == Of(Tags, p, q) = {}

\* p belongs to a piece that ends in an abbreviation.
BeforeAbbreviation(p) ==
    \E q \in Of({"abbr"}, p, Len(received)) : Of({"stop"}, p, q) = {}

\* p is in a text in front of a tag that has an end mark and does not end with it.
BeforeTag(p) ==
    \E t \in Of(Tags, p + 1, Len(received)) :
        /\ NoTagWithin(p, t - 1)
        /\ Kind(t - 1) # "stop"
        /\ \E q \in EndMarks(1, t - 1) : NoTagWithin(q, t - 1)

\* What is delivered comes in the order in which the model sent it, nothing of it
\* twice, and nothing of it is still in the buffer.
InOrder ==
    LET all == outputs \o pending
    IN  /\ \A i, j \in DOMAIN all : i < j => all[i].to < all[j].from
        /\ \A i \in DOMAIN all : all[i].from <= all[i].to /\ all[i].to < at

\* Once and in order, everything that was received is delivered, except what the
\* guard has cut off, pieces that end in an abbreviation, and the remainder of a
\* text in front of a tag. When the response is done, the buffer is empty.
DeliveryExplained ==
    /\ InOrder
    /\ mode # "cut" =>
          \A p \in 1 .. at - 1 :
              p \in Delivered \cup Waiting \/ BeforeAbbreviation(p) \/ BeforeTag(p)
    /\ mode \in {"done", "spoken"} => at = Len(received) + 1

Shown == Cardinality(Delivered)

\* A response never gets longer than the limit, is cut at exactly the limit, and
\* is remembered whenever the model got to its end.
LimitHolds ==
    mode \notin {"speaking", "spoken"} =>
        /\ Shown <= MaxCharacters
        /\ mode = "cut" => Shown = MaxCharacters
        /\ mode \in {"ended", "done"} /\ received # <<>> => remembered
=============================================================================
