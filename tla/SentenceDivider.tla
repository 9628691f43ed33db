-------------------------- MODULE SentenceDivider ---------------------------
(***************************************************************************)
(* The sentence divider (engine/utils/sentence_divider.py): it cuts the    *)
(* stream of the language model into sentences and tags.                   *)
(*                                                                         *)
(* A text is what matters of it to the divider: a sequence of tokens.      *)
(*   word        anything else          comma   a character of COMMAS      *)
(*   stop        a sentence end         abbr    a word of ABBREVIATIONS    *)
(*   think       <think>                /think  </think>    think/ <think/>*)
(*   ( and )     parentheses        emotion [joy], a key of emo_map: words  *)
(*                                      to the divider                     *)
(* White space is left out: every text is stripped. The buffer always is an*)
(* end of what was received, so that `at`, where it begins, stands for it. *)
(* A chunk may end within a tag: `half` says that the last tag received is *)
(* not complete, and a text like any other.                                *)
(***************************************************************************)
EXTENDS Naturals, Sequences, FiniteSets, SequencesExt, FiniteSetsExt

VARIABLES
    received,   \* what the language model has sent
    half,       \* the last token is a tag whose end has not arrived
    at,         \* _buffer: the position in `received` where it begins
    depth,      \* the length of _tag_stack: "think" is the only valid tag
    isFirst,    \* _is_first_sentence
    pending     \* the sentences _process_buffer is about to yield

dividerVars == <<received, half, at, depth, isFirst, pending>>

Tags == {"think", "/think", "think/"}
Kinds == Tags \cup {"word", "comma", "stop", "abbr", "(", ")", "emotion"}

Kind(p) == IF half /\ p = Len(received) THEN "half" ELSE received[p]

Of(kinds, first, last) == {p \in first .. last : Kind(p) \in kinds}

\* contains_end_punctuation: an abbreviation contains a full stop.
EndMarks(first, last) == Of({"stop", "abbr"}, first, last)

\* A SentenceWithTags: an interval of positions and its tags, which are never
\* empty: "start", "end" or "self" of a tag; "inside" of one; or "none".
Sentence(first, last, tags) == [from |-> first, to |-> last, tags |-> tags]

\* _get_current_tags
CurrentTags == IF depth > 0 THEN "inside" ELSE "none"

DividerInit ==
    /\ received = <<>>
    /\ half = FALSE
    /\ at = 1
    /\ depth = 0
    /\ isFirst = TRUE
    /\ pending = <<>>
-----------------------------------------------------------------------------
(* Segmentation: the complete sentences of first .. last, and `rest`, where *)
(* what remains of the text begins.                                         *)

\* The members of a set of positions in their order: one sequence.
Ascending(S) ==
    {s \in [1 .. Cardinality(S) -> S] : \A i, j \in DOMAIN s : i < j => s[i] < s[j]}

After(first, cuts) == Max(cuts \cup {first - 1}) + 1

\* The text is cut after each of `cuts`; the pieces that end at one of `ends` are
\* sentences, and what follows the last cut remains.
Segmentation(first, cuts, ends) ==
    {[sentences |-> [i \in DOMAIN s |->
                        Sentence(After(first, {c \in cuts : c < s[i]}), s[i], CurrentTags)],
      rest |-> After(first, cuts)] : s \in Ascending(ends)}

\* Every end mark ends a piece, and a piece that ends in an abbreviation is
\* skipped. (The pattern also ends a piece at a vertical bar: left out.)
segment_text_by_regex(first, last) ==
    Segmentation(first, EndMarks(first, last), Of({"stop"}, first, last))

\* What pysbd makes of a text is its own affair: it cuts the text after some of
\* the end marks. All pieces but the last are sentences, the last is one if
\* is_complete_sentence.
PysbdSegmentations(first, last) ==
    UNION {Segmentation(first, cuts, cuts) :
              cuts \in {chosen \cup Of({"stop"}, last, last) :
                           chosen \in SUBSET EndMarks(first, last - 1)}}

\* segment_text_by_pysbd: langdetect, which guesses, decides whether the language
\* is supported. It says zh-cn or zh-tw of Chinese, and "zh" is what is supported.
Segmentations(first, last) ==
    PysbdSegmentations(first, last) \cup segment_text_by_regex(first, last)
-----------------------------------------------------------------------------
(* One pass of the loop of _process_buffer.                                 *)

TagsInBuffer == Of(Tags, at, Len(received))
NextTag == Min(TagsInBuffer)

\* Mutant of CommaSplit: the comma stays in the buffer.
CommaKept ==
    \E comma \in Of({"comma"}, at, Len(received)) :
        /\ pending' = <<Sentence(at, comma, CurrentTags)>>
        /\ at' = comma
        /\ isFirst' = FALSE
        /\ UNCHANGED depth

\* comma_splitter cuts at the first occurrence of the first member of COMMAS
\* that occurs: at any comma, as the model does not say which it is.
CommaSplit ==
    \E comma \in Of({"comma"}, at, Len(received)) :
        /\ pending' = <<Sentence(at, comma, CurrentTags)>>
        /\ at' = comma + 1
        /\ isFirst' = FALSE
        /\ UNCHANGED depth

SplittableAtComma == isFirst /\ Of({"comma"}, at, Len(received)) # {}

\* Mutant of PopTag: the stack is not looked at.
PopBlindly == depth' = depth - 1

\* Mutant of PopTag: the end of an inner tag ends them all.
PopAll == depth' = 0

\* A closing tag that matches nothing is ignored.
PopTag == depth' = IF depth > 0 THEN depth - 1 ELSE 0

\* A tag at the start of the buffer, and _extract_tag. The tag itself is yielded.
ExtractTag ==
    /\ TagsInBuffer # {} /\ NextTag = at
    /\ LET tag == Kind(at)
       IN  /\ \/ tag = "think" /\ depth' = depth + 1
              \/ tag = "/think" /\ PopTag
              \/ tag = "think/" /\ UNCHANGED depth
           /\ pending' = <<Sentence(at, at, CASE tag = "think"  -> "start"
                                              [] tag = "/think" -> "end"
                                              [] tag = "think/" -> "self")>>
    /\ at' = at + 1
    /\ UNCHANGED isFirst

\* Text before a tag: its sentences, if there is an end mark, and what remains
\* before the tag is consumed with them; all of it otherwise.
DivideBeforeTag ==
    /\ TagsInBuffer # {} /\ NextTag > at
    /\ at' = NextTag
    /\ IF EndMarks(at, NextTag - 1) # {}
       THEN \E s \in Segmentations(at, NextTag - 1) : pending' = s.sentences
       ELSE pending' = <<Sentence(at, NextTag - 1, CurrentTags)>>
    /\ UNCHANGED <<depth, isFirst>>

\* No tag: the first sentence may end at a comma.
DivideAtComma == TagsInBuffer = {} /\ SplittableAtComma /\ CommaSplit

\* No tag: the sentences of the buffer, if the segmentation finds any.
DivideSentences ==
    /\ TagsInBuffer = {} /\ ~SplittableAtComma
    /\ EndMarks(at, Len(received)) # {}
    /\ \E s \in Segmentations(at, Len(received)) :
          /\ s.sentences # <<>>
          /\ pending' = s.sentences
          /\ at' = s.rest
    /\ isFirst' = FALSE
    /\ UNCHANGED depth

Divide ==
    /\ pending = <<>>
    /\ \/ ExtractTag
       \/ DivideBeforeTag
       \/ DivideAtComma
       \/ DivideSentences
    /\ UNCHANGED <<received, half>>

\* The loop is left: there is no tag and no comma to divide at, and no end mark
\* or a segmentation that finds no sentence.
Settled ==
    /\ pending = <<>>
    /\ TagsInBuffer = {} /\ ~SplittableAtComma
    /\ EndMarks(at, Len(received)) # {} =>
          \E s \in Segmentations(at, Len(received)) : s.sentences = <<>>

\* process_stream: the next chunk is added to the buffer. The rest of a tag comes
\* before anything else; h says that the chunk ends within its last tag.
AddChunk(chunk, h) ==
    /\ Settled
    /\ chunk # <<>> \/ half
    /\ h => chunk # <<>> /\ Last(chunk) \in Tags
    /\ received' = received \o chunk
    /\ half' = h
    /\ UNCHANGED <<at, depth, isFirst, pending>>

\* _flush_buffer, once its _process_buffer has settled: the final fragment.
FlushBuffer ==
    /\ Settled
    /\ at <= Len(received)
    /\ pending' = <<Sentence(at, Len(received), CurrentTags)>>
    /\ at' = Len(received) + 1
    /\ UNCHANGED <<received, half, depth, isFirst>>
=============================================================================
