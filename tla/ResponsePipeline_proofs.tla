----------------------- MODULE ResponsePipeline_proofs -----------------------
(***************************************************************************)
(* Proofs about the way of a response from the model to the client, for    *)
(* responses, chunks and limits of any length: nothing is lost or said     *)
(* twice, what the model thinks stays silent, and the limit holds.         *)
(***************************************************************************)
EXTENDS ResponsePipeline, FiniteSetTheorems, SequenceTheorems, WellFoundedInduction,
        TLAPS

------------------------------------------------------------------------------
(***************************************************************************)
(* Least and greatest positions.                                           *)
(***************************************************************************)

\* Every set of positions has a first member.
LEMMA MinIs ==
    ASSUME NEW S \in SUBSET Nat, S # {}
    PROVE  Min(S) \in S /\ \A x \in S : Min(S) <= x
<1>1. PICK m \in S : \A y \in S : ~(<<y, m>> \in OpToRel(<, Nat))
  BY NatLessThanWellFounded, WFMin
<1>2. m \in Nat /\ \A y \in S : y \in Nat /\ ~(y < m)
  BY <1>1 DEF OpToRel
<1>3. \A y \in S : m <= y
  BY <1>2
<1> QED
  BY <1>3 DEF Min

\* Every bounded set of positions has a last member.
LEMMA MaxIs ==
    ASSUME NEW S \in SUBSET Nat, S # {}, NEW b \in Nat, \A x \in S : x <= b
    PROVE  Max(S) \in S /\ \A x \in S : x <= Max(S)
<1> DEFINE T == {m \in Nat : \A x \in S : x <= m}
<1>1. PICK m \in T : \A y \in T : ~(<<y, m>> \in OpToRel(<, Nat))
  <2>1. b \in T
    OBVIOUS
  <2> QED
    BY <2>1, NatLessThanWellFounded, WFMin
<1>2. m \in Nat /\ \A x \in S : x <= m
  OBVIOUS
<1>3. \A y \in T : ~(y < m)
  BY <1>1 DEF OpToRel
<1>4. m \in S
  <2> SUFFICES ASSUME m \notin S PROVE FALSE
    OBVIOUS
  <2>1. \A x \in S : x \in Nat /\ x < m
    BY <1>2
  <2>2. m - 1 \in Nat /\ \A x \in S : x <= m - 1
    <3>1. PICK x \in S : x \in Nat /\ x < m
      BY <2>1
    <3>2. m - 1 \in Nat
      BY <1>2, <3>1
    <3>3. ASSUME NEW y \in S PROVE y <= m - 1
      BY <1>2, <2>1
    <3> QED
      BY <3>2, <3>3
  <2>3. m - 1 \in T
    BY <2>2
  <2> QED
    BY <1>2, <1>3, <2>3
<1> QED
  BY <1>2, <1>4 DEF Max

\* Where a text goes on after the last of its cuts.
LEMMA AfterIs ==
    ASSUME NEW first \in Nat \ {0}, NEW last \in Nat, first <= last + 1,
           NEW cuts \in SUBSET (first .. last)
    PROVE  /\ After(first, cuts) \in first .. last + 1
           /\ \A c \in cuts : c < After(first, cuts)
           /\ After(first, cuts) = first \/ After(first, cuts) - 1 \in cuts
           /\ cuts # {} => After(first, cuts) > first
<1> DEFINE S == cuts \cup {first - 1}
           m == Max(S)
<1>1. S \in SUBSET Nat /\ S # {} /\ \A x \in S : x <= last /\ x >= first - 1
  OBVIOUS
<1>2. m \in S /\ \A x \in S : x <= m
  BY <1>1, MaxIs
<1>3. After(first, cuts) = m + 1
  BY DEF After
<1> HIDE DEF m
<1>4. m \in Nat /\ first - 1 <= m /\ m <= last
  BY <1>1, <1>2
<1>5. \A c \in cuts : c <= m /\ c \in Nat /\ c >= first
  BY <1>2
<1>6. m + 1 \in first .. last + 1 /\ \A c \in cuts : c < m + 1
  BY <1>4, <1>5
<1>7. m + 1 = first \/ (m + 1) - 1 \in cuts
  <2>1. (m + 1) - 1 = m /\ (m = first - 1 => m + 1 = first)
    BY <1>4
  <2> QED
    BY <1>2, <2>1
<1>8. ASSUME NEW c \in cuts PROVE m + 1 > first
  BY <1>4, <1>5
<1> QED
  BY <1>3, <1>6, <1>7, <1>8

------------------------------------------------------------------------------
(***************************************************************************)
(* The depth of brackets.                                                  *)
(***************************************************************************)

\* What one token does to the depth.
Deeper(kind, opening, closing, before) ==
    IF kind \in opening THEN before + 1
    ELSE IF kind = closing /\ before > 0 THEN before - 1
    ELSE before

\* level is the depth of every position up to last.
Levels(level, text, opening, closing, first, last) ==
    level = [p \in first - 1 .. last |->
                IF p = first - 1 THEN 0
                ELSE Deeper(text[p], opening, closing, level[p - 1])]

\* Nesting is such a function.
LEMMA NestingIs ==
    ASSUME NEW text, NEW opening, NEW closing, NEW first \in Nat \ {0}, NEW last \in Nat
    PROVE  LET level == Nesting(text, opening, closing, first, last)
           IN  /\ first <= last + 1 => level[first - 1] = 0
               /\ \A p \in first .. last :
                     level[p] = Deeper(text[p], opening, closing, level[p - 1])
               /\ \A p \in first - 1 .. last : level[p] \in Nat
<1> DEFINE L(level, n) == Levels(level, text, opening, closing, first, n)
           Bad == {n \in Nat : ~ \E level : L(level, n)}
<1>1. Bad = {}
  <2> SUFFICES ASSUME Bad # {} PROVE FALSE
    OBVIOUS
  <2>1. PICK n \in Bad : \A m \in Bad : ~(<<m, n>> \in OpToRel(<, Nat))
    BY NatLessThanWellFounded, WFMin
  <2>2. n \in Nat /\ \A m \in Nat : m < n => \E level : L(level, m)
    BY <2>1 DEF OpToRel
  <2>3. CASE n < first
    <3> DEFINE level == [p \in first - 1 .. n |-> 0]
    <3>1. \A p \in first - 1 .. n : p = first - 1
      BY <2>2, <2>3
    <3>2. L(level, n)
      BY <3>1 DEF Levels
    <3> QED
      BY <2>1, <3>2
  <2>4. CASE n >= first
    <3>1. n - 1 \in Nat /\ n - 1 < n
      BY <2>2, <2>4
    <3>2. PICK before : L(before, n - 1)
      BY <2>2, <3>1
    <3> DEFINE level == [p \in first - 1 .. n |->
                            IF p = n THEN Deeper(text[n], opening, closing, before[n - 1])
                            ELSE before[p]]
    <3>3. \A p \in first - 1 .. n :
             p # n => /\ p \in first - 1 .. n - 1
                      /\ before[p] = IF p = first - 1 THEN 0
                                     ELSE Deeper(text[p], opening, closing, before[p - 1])
                      /\ level[p] = before[p]
                      /\ p # first - 1 => p - 1 \in first - 1 .. n /\ p - 1 # n
                                          /\ level[p - 1] = before[p - 1]
      BY <2>2, <2>4, <3>2 DEF Levels
    <3>4. n # first - 1 /\ n - 1 \in first - 1 .. n /\ level[n - 1] = before[n - 1]
      BY <2>2, <2>4
    <3>5. \A p \in first - 1 .. n :
             level[p] = IF p = first - 1 THEN 0
                        ELSE Deeper(text[p], opening, closing, level[p - 1])
      BY <3>3, <3>4
    <3> HIDE DEF Bad
    <3>6. L(level, n)
      BY <3>5 DEF Levels
    <3> QED
      BY <2>1, <3>6 DEF Bad
  <2> QED
    BY <2>2, <2>3, <2>4
<1> DEFINE level == Nesting(text, opening, closing, first, last)
<1>2. level = CHOOSE f : f = [p \in first - 1 .. last |->
                IF p = first - 1 THEN 0
                ELSE Deeper(text[p], opening, closing, f[p - 1])]
  BY DEF Nesting, Deeper
<1>3. level = [p \in first - 1 .. last |->
                IF p = first - 1 THEN 0
                ELSE Deeper(text[p], opening, closing, level[p - 1])]
  BY <1>1, <1>2 DEF Levels
<1> HIDE DEF level
<1>4. /\ first <= last + 1 => level[first - 1] = 0
      /\ \A p \in first .. last :
            level[p] = Deeper(text[p], opening, closing, level[p - 1])
  BY <1>3
<1>5. \A p \in first - 1 .. last : level[p] \in Nat
  <2> DEFINE B == {p \in first - 1 .. last : level[p] \notin Nat}
  <2> SUFFICES ASSUME B # {} PROVE FALSE
    OBVIOUS
  <2>1. B \in SUBSET Nat
    OBVIOUS
  <2>2. Min(B) \in B /\ \A x \in B : Min(B) <= x
    BY <2>1, MinIs
  <2>3. PICK p \in first - 1 .. last : level[p] \notin Nat /\ \A x \in B : p <= x
    BY <2>2
  <2>4. CASE p = first - 1
    BY <1>4, <2>3, <2>4
  <2>5. CASE p # first - 1
    <3>1. p \in first .. last /\ p - 1 \in first - 1 .. last /\ ~(p <= p - 1)
      BY <2>5
    <3>2. level[p - 1] \in Nat
      BY <2>3, <3>1
    <3> QED
      BY <1>4, <2>3, <3>1, <3>2 DEF Deeper
  <2> QED
    BY <2>4, <2>5
<1> QED
  BY <1>4, <1>5 DEF level

\* The depth of a position depends on the tokens up to it alone.
LEMMA NestingSame ==
    ASSUME NEW text1, NEW text2, NEW opening, NEW closing, NEW first \in Nat \ {0},
           NEW last1 \in Nat, NEW last2 \in Nat, NEW q \in Nat,
           q <= last1, q <= last2, first <= q + 1,
           \A p \in first .. q : text1[p] = text2[p]
    PROVE  Nesting(text1, opening, closing, first, last1)[q]
              = Nesting(text2, opening, closing, first, last2)[q]
<1> DEFINE l1 == Nesting(text1, opening, closing, first, last1)
           l2 == Nesting(text2, opening, closing, first, last2)
           B == {p \in first - 1 .. q : l1[p] # l2[p]}
<1>1. /\ l1[first - 1] = 0 /\ l2[first - 1] = 0
      /\ \A p \in first .. last1 : l1[p] = Deeper(text1[p], opening, closing, l1[p - 1])
      /\ \A p \in first .. last2 : l2[p] = Deeper(text2[p], opening, closing, l2[p - 1])
  BY NestingIs
<1> HIDE DEF l1, l2
<1>2. B = {}
  <2> SUFFICES ASSUME B # {} PROVE FALSE
    OBVIOUS
  <2>1. B \in SUBSET Nat
    OBVIOUS
  <2>2. Min(B) \in B /\ \A x \in B : Min(B) <= x
    BY <2>1, MinIs
  <2>3. PICK p \in first - 1 .. q : l1[p] # l2[p] /\ \A x \in B : p <= x
    BY <2>2
  <2>4. p # first - 1
    BY <1>1, <2>3
  <2>5. /\ p \in first .. q /\ p \in first .. last1 /\ p \in first .. last2
        /\ p - 1 \in first - 1 .. q /\ ~(p <= p - 1)
    BY <2>4
  <2>6. l1[p - 1] = l2[p - 1]
    BY <2>3, <2>5
  <2> QED
    BY <1>1, <2>3, <2>5, <2>6
<1>3. q \in first - 1 .. q
  OBVIOUS
<1> QED
  BY <1>2, <1>3 DEF l1, l2

\* Between two brackets the depth stays.
LEMMA NestingFlat ==
    ASSUME NEW text, NEW opening, NEW closing, NEW first \in Nat \ {0}, NEW last \in Nat,
           NEW a \in first - 1 .. last, NEW q \in a .. last,
           \A p \in a + 1 .. q : text[p] \notin opening /\ text[p] # closing
    PROVE  Nesting(text, opening, closing, first, last)[q]
              = Nesting(text, opening, closing, first, last)[a]
<1> DEFINE l == Nesting(text, opening, closing, first, last)
           B == {p \in a .. q : l[p] # l[a]}
<1>1. \A p \in first .. last : l[p] = Deeper(text[p], opening, closing, l[p - 1])
  BY NestingIs
<1> HIDE DEF l
<1>2. B = {}
  <2> SUFFICES ASSUME B # {} PROVE FALSE
    OBVIOUS
  <2>1. B \in SUBSET Nat
    OBVIOUS
  <2>2. Min(B) \in B /\ \A x \in B : Min(B) <= x
    BY <2>1, MinIs
  <2>3. PICK p \in a .. q : l[p] # l[a] /\ \A x \in B : p <= x
    BY <2>2
  <2>4. p \in a + 1 .. q /\ p \in first .. last /\ p - 1 \in a .. q /\ ~(p <= p - 1)
    <3>1. p # a
      BY <2>3
    <3> QED
      BY <3>1
  <2>5. l[p - 1] = l[a]
    BY <2>3, <2>4
  <2> QED
    BY <1>1, <2>3, <2>4, <2>5 DEF Deeper
<1> QED
  BY <1>2 DEF l

\* Before the first bracket there is no depth.
LEMMA NestingNone ==
    ASSUME NEW text, NEW opening, NEW closing, NEW first \in Nat \ {0}, NEW last \in Nat,
           NEW q \in first .. last,
           \A p \in first .. q : text[p] \notin opening /\ text[p] # closing
    PROVE  Nesting(text, opening, closing, first, last)[q] = 0
<1> DEFINE l == Nesting(text, opening, closing, first, last)
           B == {p \in first .. q : l[p] # 0}
<1>1. /\ first <= last + 1 => l[first - 1] = 0
      /\ \A p \in first .. last : l[p] = Deeper(text[p], opening, closing, l[p - 1])
      /\ \A p \in first - 1 .. last : l[p] \in Nat
  BY NestingIs
<1> HIDE DEF l
<1>2. l[first - 1] = 0
  <2>1. first <= last + 1
    OBVIOUS
  <2> QED
    BY <1>1, <2>1
<1>3. B = {}
  <2> SUFFICES ASSUME B # {} PROVE FALSE
    OBVIOUS
  <2>1. B \in SUBSET Nat
    OBVIOUS
  <2>2. Min(B) \in B /\ \A x \in B : Min(B) <= x
    BY <2>1, MinIs
  <2>3. PICK p \in first .. q : l[p] # 0 /\ \A x \in B : p <= x
    BY <2>2
  <2>4. p \in first .. last /\ (p - 1 = first - 1 \/ (p - 1 \in first .. q /\ ~(p <= p - 1)))
    OBVIOUS
  <2>5. l[p - 1] = 0
    BY <1>2, <2>3, <2>4
  <2> QED
    BY <1>1, <2>3, <2>4, <2>5 DEF Deeper
<1>4. q \in first .. q
  OBVIOUS
<1> QED
  BY <1>3, <1>4 DEF l

------------------------------------------------------------------------------
(***************************************************************************)
(* Segmentation.                                                           *)
(***************************************************************************)

\* A sequence of positions in their order has all of them.
LEMMA AscendingIs ==
    ASSUME NEW m \in Nat, NEW S \in SUBSET (0 .. m), NEW s \in Ascending(S)
    PROVE  /\ s \in Seq(S)
           /\ \A i, j \in DOMAIN s : i < j => s[i] < s[j]
           /\ \A x \in S : \E i \in DOMAIN s : s[i] = x
<1>1. IsFiniteSet(0 .. m)
  BY FS_Interval
<1>2. IsFiniteSet(S) /\ Cardinality(S) \in Nat
  BY <1>1, FS_Subset, FS_CardinalityType
<1> DEFINE n == Cardinality(S)
<1>3. s \in [1 .. n -> S] /\ \A i, j \in DOMAIN s : i < j => s[i] < s[j]
  BY DEF Ascending
<1>4. IsFiniteSet(1 .. n) /\ Cardinality(1 .. n) = n
  BY <1>2, FS_Interval
<1> HIDE DEF n
<1>5. s \in Injection(1 .. n, S)
  <2> SUFFICES ASSUME NEW i \in 1 .. n, NEW j \in 1 .. n, s[i] = s[j]
               PROVE  i = j
    BY <1>3 DEF Injection, IsInjective
  <2>1. ~(s[i] < s[j]) /\ ~(s[j] < s[i])
    <3>1. \A x \in S : x \in Nat
      OBVIOUS
    <3>2. s[i] \in Nat /\ s[j] \in Nat
      <4>1. s[i] \in S /\ s[j] \in S
        BY <1>3
      <4> QED
        BY <3>1, <4>1
    <3> QED
      BY <3>2
  <2>2. ~(i < j) /\ ~(j < i)
    BY <1>3, <2>1
  <2> QED
    BY <1>2, <2>2 DEF n
<1>6. s \in Surjection(1 .. n, S)
  BY <1>2, <1>4, <1>5, FS_Injection DEF n
<1> QED
  BY <1>2, <1>3, <1>6 DEF Surjection, n

\* The sentences and the rest that cutting first .. last after `cuts` gives.
CutUp(cut, first, last, cuts, ends) ==
    /\ cut.sentences \in Seq([from : first .. last, to : ends, tags : {CurrentTags}])
    /\ \A i \in DOMAIN cut.sentences :
          cut.sentences[i].from <= cut.sentences[i].to /\ cut.sentences[i].to < cut.rest
    /\ \A i, j \in DOMAIN cut.sentences :
          i < j => cut.sentences[i].to < cut.sentences[j].from
    /\ cut.rest \in first .. last + 1 /\ (cuts # {} => cut.rest > first)
    /\ \A c \in cuts : c < cut.rest
    /\ cut.rest = first \/ cut.rest - 1 \in cuts
    /\ \A p \in first .. cut.rest - 1 :
          \/ \E i \in DOMAIN cut.sentences : p \in Interval(cut.sentences[i])
          \/ \E c \in cuts \ ends : p <= c /\ \A d \in cuts : ~(p <= d /\ d < c)

\* Segmentation cuts a text up: the pieces are in order, and a position before the
\* rest is in one of them, unless the next cut ends no sentence.
LEMMA SegmentationIs ==
    ASSUME NEW first \in Nat \ {0}, NEW last \in Nat, first <= last + 1,
           NEW cuts \in SUBSET (first .. last), NEW ends \in SUBSET cuts,
           NEW cut \in Segmentation(first, cuts, ends)
    PROVE  CutUp(cut, first, last, cuts, ends)
<1> DEFINE before(c) == {d \in cuts : d < c}
           piece(c) == Sentence(After(first, before(c)), c, CurrentTags)
<1>1. PICK s \in Ascending(ends) :
         cut = [sentences |-> [i \in DOMAIN s |-> piece(s[i])],
                rest |-> After(first, cuts)]
  BY DEF Segmentation
<1>2. /\ s \in Seq(ends)
      /\ \A i, j \in DOMAIN s : i < j => s[i] < s[j]
      /\ \A x \in ends : \E i \in DOMAIN s : s[i] = x
  <2>1. ends \in SUBSET (0 .. last)
    OBVIOUS
  <2> QED
    BY ZenonT(30), <2>1, AscendingIs
<1>3. /\ cut.sentences = [i \in DOMAIN s |-> piece(s[i])]
      /\ DOMAIN cut.sentences = DOMAIN s
      /\ \A i \in DOMAIN s : cut.sentences[i] = piece(s[i])
      /\ cut.rest = After(first, cuts)
  BY <1>1
<1>4. /\ cut.rest \in first .. last + 1 /\ (cuts # {} => cut.rest > first)
      /\ \A c \in cuts : c < cut.rest
      /\ cut.rest = first \/ cut.rest - 1 \in cuts
  BY <1>3, AfterIs
\* The piece that ends at c begins where the cut before it has left off.
<1>5. ASSUME NEW c \in ends
      PROVE  /\ c \in cuts /\ c \in first .. last
             /\ piece(c).from \in first .. c /\ piece(c).to = c
             /\ piece(c).tags = CurrentTags
             /\ piece(c) = [from |-> piece(c).from, to |-> c, tags |-> CurrentTags]
             /\ \A d \in cuts : d < c => d < piece(c).from
             /\ piece(c).from = first \/ \E d \in cuts : d < c /\ piece(c).from = d + 1
  <2>1. c \in cuts /\ c \in first .. last
    OBVIOUS
  <2> DEFINE from == After(first, before(c))
  <2>2. /\ from \in first .. c
        /\ \A d \in before(c) : d < from
        /\ from = first \/ from - 1 \in before(c)
    <3>1. before(c) \in SUBSET (first .. c - 1) /\ c - 1 \in Nat /\ first <= (c - 1) + 1
      <4>1. c - 1 \in Nat /\ first <= (c - 1) + 1
        BY <2>1
      <4>2. ASSUME NEW d \in cuts, d < c PROVE d \in first .. c - 1
        <5>1. d \in first .. last
          OBVIOUS
        <5> QED
          BY <2>1, <4>2, <5>1
      <4> QED
        BY <4>1, <4>2
    <3>2. /\ from \in first .. (c - 1) + 1
          /\ \A d \in before(c) : d < from
          /\ from = first \/ from - 1 \in before(c)
      BY <3>1, AfterIs
    <3> QED
      BY <2>1, <3>2
  <2>3. /\ piece(c) = [from |-> from, to |-> c, tags |-> CurrentTags]
        /\ piece(c).from = from
    BY DEF Sentence
  <2> HIDE DEF from, piece
  <2>4. ASSUME from # first PROVE \E d \in cuts : d < c /\ from = d + 1
    <3>1. from - 1 \in cuts /\ from - 1 < c /\ from = (from - 1) + 1
      BY <2>1, <2>2, <2>4
    <3> QED
      BY <3>1
  <2> QED
    BY <2>1, <2>2, <2>3, <2>4
<1> HIDE DEF piece
<1>6. \A i \in DOMAIN s : s[i] \in ends
  BY <1>2
<1>7. cut.sentences \in Seq([from : first .. last, to : ends, tags : {CurrentTags}])
  <2>1. \A i \in DOMAIN s :
           piece(s[i]) \in [from : first .. last, to : ends, tags : {CurrentTags}]
    <3> SUFFICES ASSUME NEW i \in DOMAIN s
                 PROVE  piece(s[i]) \in [from : first .. last, to : ends,
                                         tags : {CurrentTags}]
      OBVIOUS
    <3>1. /\ s[i] \in ends /\ s[i] \in first .. last
          /\ piece(s[i]).from \in first .. s[i]
          /\ piece(s[i]) = [from |-> piece(s[i]).from, to |-> s[i], tags |-> CurrentTags]
      BY <1>5, <1>6
    <3>2. piece(s[i]).from \in first .. last
      BY <3>1
    <3> QED
      BY <3>1, <3>2
  <2>2. cut.sentences \in Seq([from : first .. last, to : ends, tags : {CurrentTags}])
    <3>1. DOMAIN s = 1 .. Len(s) /\ Len(s) \in Nat
      BY <1>2
    <3> DEFINE P == [from : first .. last, to : ends, tags : {CurrentTags}]
    <3>2. \A i \in 1 .. Len(s) : piece(s[i]) \in P
      BY <2>1, <3>1
    <3> HIDE DEF P
    <3>3. cut.sentences = [i \in 1 .. Len(s) |-> piece(s[i])]
      BY <1>3, <3>1
    <3>4. cut.sentences \in [1 .. Len(s) -> P]
      BY <3>2, <3>3
    <3>5. cut.sentences \in Seq(P)
      BY <3>1, <3>4, SeqDef
    <3> QED
      BY <3>5 DEF P
  <2> QED
    BY <2>2
<1>8. ASSUME NEW i \in DOMAIN s
      PROVE  cut.sentences[i].from <= cut.sentences[i].to /\ cut.sentences[i].to < cut.rest
  <2>1. /\ s[i] \in ends /\ s[i] \in cuts /\ cut.sentences[i] = piece(s[i])
        /\ piece(s[i]).from \in first .. s[i] /\ piece(s[i]).to = s[i]
    BY <1>3, <1>5, <1>6
  <2>2. s[i] < cut.rest
    BY <1>4, <2>1
  <2>3. \A x : x \in first .. s[i] => x <= s[i]
    OBVIOUS
  <2>4. piece(s[i]).from <= s[i]
    BY <2>1, <2>3
  <2> QED
    BY <2>1, <2>2, <2>4
<1>9. ASSUME NEW i \in DOMAIN s, NEW j \in DOMAIN s, i < j
      PROVE  cut.sentences[i].to < cut.sentences[j].from
  <2>1. /\ s[i] \in ends /\ s[j] \in ends /\ s[i] < s[j]
        /\ cut.sentences[i] = piece(s[i]) /\ cut.sentences[j] = piece(s[j])
    BY <1>2, <1>3, <1>6, <1>9
  <2>2. s[i] < piece(s[j]).from /\ piece(s[i]).to = s[i]
    BY <1>5, <2>1
  <2> QED
    BY <2>1, <2>2
<1>10. ASSUME NEW p \in first .. cut.rest - 1
       PROVE  \/ \E i \in DOMAIN s : p \in Interval(cut.sentences[i])
              \/ \E c \in cuts \ ends : p <= c /\ \A d \in cuts : ~(p <= d /\ d < c)
  <2> DEFINE later == {c \in cuts : p <= c}
             c == Min(later)
  <2>1. cut.rest - 1 \in later
    BY <1>4
  <2>2. later \in SUBSET Nat
    <3>1. \A d \in cuts : d \in first .. last
      OBVIOUS
    <3>2. \A d \in first .. last : d \in Nat
      OBVIOUS
    <3> QED
      BY <3>1, <3>2
  <2>3. c \in later /\ \A d \in later : c <= d
    BY <2>1, <2>2, MinIs
  <2> HIDE DEF c
  <2>4. c \in cuts /\ p <= c /\ c \in Nat /\ \A d \in cuts : ~(p <= d /\ d < c)
    BY <2>2, <2>3
  <2>5. CASE c \in ends
    <3>1. PICK i \in DOMAIN s : s[i] = c
      BY <1>2, <2>5
    <3>2. /\ cut.sentences[i] = piece(c) /\ piece(c).to = c
          /\ piece(c).from \in first .. c
          /\ piece(c).from = first \/ \E d \in cuts : d < c /\ piece(c).from = d + 1
      BY <1>3, <1>5, <2>5, <3>1
    <3>3. piece(c).from <= p
      <4>1. CASE piece(c).from = first
        BY <1>4, <4>1
      <4>2. ASSUME NEW d \in cuts, d < c, piece(c).from = d + 1
            PROVE  piece(c).from <= p
        BY <1>4, <2>4, <4>2
      <4> QED
        BY <3>2, <4>1, <4>2
    <3>4. p \in cut.sentences[i].from .. cut.sentences[i].to
      BY <1>4, <2>4, <3>2, <3>3
    <3> QED
      BY <3>4 DEF Interval
  <2>6. CASE c \notin ends
    BY <2>4, <2>6
  <2> QED
    BY <2>5, <2>6
<1> QED
  BY <1>3, <1>4, <1>7, <1>8, <1>9, <1>10 DEF CutUp

------------------------------------------------------------------------------
(***************************************************************************)
(* The inductive invariant.                                                *)
(***************************************************************************)

SentenceTags == {"start", "end", "self", "inside", "none"}

SentenceType == [from : Positions, to : Positions, tags : SentenceTags]

OutputType ==
    [from : Positions, to : Positions, tags : SentenceTags, actions : SUBSET Positions,
     display : [sign : {"(", ")", ""}, text : SUBSET Positions], voiced : SUBSET Positions]

\* Sentences one after the other, from `first` on and before `next`.
Ordered(said, first, next) ==
    /\ \A i \in DOMAIN said :
          first <= said[i].from /\ said[i].from <= said[i].to /\ said[i].to < next
    /\ \A i, j \in DOMAIN said : i < j => said[i].to < said[j].from

\* A tag that is not complete is still in the buffer as long as the model sends.
TypeInv ==
    /\ received \in Seq(TokenKinds) /\ Len(received) <= MaxTokens
    /\ half \in BOOLEAN
    /\ at \in 1 .. Len(received) + 1
    /\ depth \in 0 .. at - 1
    /\ isFirst \in BOOLEAN
    /\ pending \in Seq(SentenceType)
    /\ mode \in {"open", "ended", "done", "cut", "failed", "speaking", "spoken"}
    /\ remembered \in BOOLEAN
    /\ outputs \in Seq(OutputType)
    /\ mode = "open" /\ half => at <= Len(received)

OrderInv ==
    /\ Ordered(outputs, 1, at)
    /\ Ordered(pending, 1, at)
    /\ \A i \in DOMAIN outputs, j \in DOMAIN pending : outputs[i].to < pending[j].from

\* Nothing of an output is from outside it.
OutputInv ==
    \A i \in DOMAIN outputs :
        outputs[i].voiced \cup outputs[i].actions \cup outputs[i].display.text
            \subseteq Interval(outputs[i])

\* emitted counts what is delivered of an answer, and nothing of a given text.
LimitInv ==
    /\ emitted = IF mode \in {"speaking", "spoken"} THEN 0 ELSE Shown
    /\ emitted <= MaxCharacters
    /\ mode \in {"open", "ended"} => emitted < MaxCharacters
    /\ mode = "cut" => emitted = MaxCharacters
    /\ mode \in {"ended", "done"} /\ received # <<>> => remembered

\* What the tags of a sentence say of its positions.
Tagged(s) ==
    \A p \in Interval(s) :
        /\ s.tags \in {"start", "end", "self"} => Kind(p) \in Tags
        /\ s.tags = "none" => Thinking[p] = 0
        /\ s.tags = "inside" => Thinking[p] > 0

\* What is voiced of an output.
Voiced(s) ==
    /\ s.tags # "none" => s.voiced = {}
    /\ s.tags = "none" =>
          \A p \in Interval(s) :
              Kind(p) # "emotion" /\ Of({"(", ")", "half"}, s.from, p) = {} => p \in s.voiced

\* The stack of the divider holds the blocks that are open where the buffer begins.
VoiceInv ==
    mode \notin {"speaking", "spoken"} =>
        /\ depth = Thinking[at - 1]
        /\ \A i \in DOMAIN pending : Tagged(pending[i])
        /\ \A i \in DOMAIN outputs : Tagged(outputs[i]) /\ Voiced(outputs[i])

Accounted(p) == p \in Delivered \cup Waiting \/ BeforeAbbreviation(p) \/ BeforeTag(p)

DeliveryInv ==
    /\ mode # "cut" => \A p \in 1 .. at - 1 : Accounted(p)
    /\ mode \in {"done", "spoken"} => at = Len(received) + 1

\* A given text is spoken before anything else has happened.
SpeakingInv ==
    mode = "speaking" =>
        /\ received # <<>> /\ half = FALSE /\ at = 1 /\ depth = 0
        /\ outputs = <<>> /\ pending = <<>>

IInv ==
    /\ TypeInv /\ OrderInv /\ OutputInv /\ LimitInv
    /\ VoiceInv /\ DeliveryInv /\ SpeakingInv

------------------------------------------------------------------------------
(***************************************************************************)
(* What a chunk changes: nothing of what was received and is complete.     *)
(***************************************************************************)

\* Every position that the divider has taken from the buffer, and every one up to a
\* complete token, keeps its kind.
Grows ==
    /\ Len(received) \in Nat /\ Len(received)' \in Nat /\ Len(received) <= Len(received)'
    /\ at \in 1 .. Len(received) + 1
    /\ \A p \in 1 .. at - 1 : Kind(p)' = Kind(p)
    /\ \A q \in 1 .. Len(received) :
          Kind(q) # "half" => \A p \in 1 .. q : Kind(p)' = Kind(p)

LEMMA Growth ==
    ASSUME TypeInv, mode = "open", NEW chunk \in Seq(TokenKinds), NEW h \in BOOLEAN,
           AddChunk(chunk, h)
    PROVE  Grows
<1>1. /\ received \in Seq(TokenKinds) /\ half \in BOOLEAN /\ at \in 1 .. Len(received) + 1
      /\ half => at <= Len(received)
  BY DEF TypeInv
<1>2. /\ received' = received \o chunk /\ half' = h
      /\ chunk # <<>> \/ half
  BY DEF AddChunk
<1>3. h => chunk # <<>>
  BY DEF AddChunk
<1>4. /\ Len(received) \in Nat /\ Len(chunk) \in Nat
      /\ Len(received)' = Len(received) + Len(chunk)
      /\ \A p \in 1 .. Len(received) : received'[p] = received[p]
      /\ h => Len(chunk) > 0
  BY <1>1, <1>2, <1>3
<1>5. ASSUME NEW p \in 1 .. Len(received), ~(half /\ p = Len(received))
      PROVE  Kind(p) = received[p] /\ Kind(p)' = Kind(p)
  <2>1. Kind(p) = received[p]
    BY <1>5 DEF Kind
  <2>2. ~(half' /\ p = Len(received)')
    BY <1>2, <1>4
  <2>3. Kind(p)' = received'[p]
    BY <2>2 DEF Kind
  <2> QED
    BY <1>4, <2>1, <2>3
<1>6. ASSUME NEW p \in 1 .. at - 1 PROVE Kind(p)' = Kind(p)
  <2>1. p \in 1 .. Len(received) /\ ~(half /\ p = Len(received))
    BY <1>1, <1>4
  <2> QED
    BY <1>5, <2>1
<1>7. ASSUME NEW q \in 1 .. Len(received), Kind(q) # "half", NEW p \in 1 .. q
      PROVE  Kind(p)' = Kind(p)
  <2>1. ~(half /\ q = Len(received))
    BY <1>7 DEF Kind
  <2>2. p \in 1 .. Len(received) /\ ~(half /\ p = Len(received))
    BY <1>4, <2>1
  <2> QED
    BY <1>5, <2>2
<1> QED
  BY <1>1, <1>4, <1>6, <1>7 DEF Grows

\* The blocks that are open at such a position stay the same.
LEMMA ThinkingStays ==
    ASSUME Grows
    PROVE  \A q \in 0 .. at - 1 : Thinking'[q] = Thinking[q]
<1> SUFFICES ASSUME NEW q \in 0 .. at - 1
             PROVE  Thinking'[q] = Thinking[q]
  OBVIOUS
<1>1. /\ Len(received) \in Nat /\ Len(received)' \in Nat /\ q \in Nat
      /\ q <= Len(received) /\ q <= Len(received)'
  BY DEF Grows
<1>2. ASSUME NEW p \in 1 .. q PROVE Text'[p] = Text[p]
  <2>1. p \in 1 .. at - 1 /\ p \in 1 .. Len(received) /\ p \in 1 .. Len(received)'
    BY <1>1 DEF Grows
  <2>2. Text[p] = Kind(p)
    BY <2>1 DEF Text
  <2>3. Text'[p] = Kind(p)'
    BY <2>1 DEF Text
  <2> QED
    BY <2>1, <2>2, <2>3 DEF Grows
<1>3. \A n, m \in Nat : \A t1, t2 :
         (/\ q <= n /\ q <= m
          /\ \A p \in 1 .. q : t1[p] = t2[p])
         => Nesting(t1, {"think"}, "/think", 1, n)[q] = Nesting(t2, {"think"}, "/think", 1, m)[q]
  BY <1>1, NestingSame
<1>4. Nesting(Text', {"think"}, "/think", 1, Len(received)')[q]
         = Nesting(Text, {"think"}, "/think", 1, Len(received))[q]
  BY <1>1, <1>2, <1>3
<1> QED
  BY <1>4 DEF Thinking

\* So do the reasons why a position is not delivered.
LEMMA ReasonsStay ==
    ASSUME Grows, NEW p \in 1 .. at - 1
    PROVE  /\ BeforeAbbreviation(p) => BeforeAbbreviation(p)'
           /\ BeforeTag(p) => BeforeTag(p)'
<1>1. /\ Len(received) \in Nat /\ Len(received)' \in Nat /\ Len(received) <= Len(received)'
      /\ at \in 1 .. Len(received) + 1
      /\ \A q \in 1 .. Len(received) :
            Kind(q) # "half" => \A x \in 1 .. q : Kind(x)' = Kind(x)
  BY DEF Grows
<1>2. ASSUME BeforeAbbreviation(p) PROVE BeforeAbbreviation(p)'
  <2>1. PICK q \in p .. Len(received) : Kind(q) = "abbr" /\ Of({"stop"}, p, q) = {}
    BY <1>2 DEF BeforeAbbreviation, Of
  <2>2. q \in 1 .. Len(received) /\ q \in p .. Len(received)'
    BY <1>1
  <2>3. \A x \in 1 .. q : Kind(x)' = Kind(x)
    BY <1>1, <2>1, <2>2
  <2>4. Kind(q)' = "abbr"
    BY <2>1, <2>2, <2>3
  <2>5. \A x \in p .. q : Kind(x)' # "stop"
    <3> SUFFICES ASSUME NEW x \in p .. q PROVE Kind(x)' # "stop"
      OBVIOUS
    <3>1. x \in 1 .. q /\ Kind(x) # "stop"
      BY <2>1, <2>2 DEF Of
    <3> QED
      BY <2>3, <3>1
  <2>6. q \in Of({"abbr"}, p, Len(received))' /\ Of({"stop"}, p, q)' = {}
    BY <2>2, <2>4, <2>5 DEF Of
  <2> QED
    BY <2>6 DEF BeforeAbbreviation
<1>3. ASSUME BeforeTag(p) PROVE BeforeTag(p)'
  <2>1. PICK t \in p + 1 .. Len(received) :
           /\ Kind(t) \in Tags /\ NoTagWithin(p, t - 1) /\ Kind(t - 1) # "stop"
           /\ \E q \in EndMarks(1, t - 1) : NoTagWithin(q, t - 1)
    BY <1>3 DEF BeforeTag, Of
  <2>2. PICK q \in 1 .. t - 1 :
           Kind(q) \in {"stop", "abbr"} /\ NoTagWithin(q, t - 1)
    BY <2>1 DEF EndMarks, Of
  <2>3. /\ t \in 1 .. Len(received) /\ t \in p + 1 .. Len(received)' /\ t - 1 \in 1 .. t
        /\ \A x \in 1 .. t - 1 : x \in 1 .. t
    BY <1>1
  <2>4. Kind(t) # "half"
    BY <2>1 DEF Tags
  <2>5. \A x \in 1 .. t : Kind(x)' = Kind(x)
    BY <1>1, <2>3, <2>4
  <2>6. Kind(t)' \in Tags /\ Kind(t - 1)' # "stop" /\ Kind(q)' \in {"stop", "abbr"}
    BY <2>1, <2>2, <2>3, <2>5
  <2>7. ASSUME NEW a \in 1 .. t, NoTagWithin(a, t - 1) PROVE NoTagWithin(a, t - 1)'
    <3>1. \A x \in a .. t - 1 : x \in 1 .. t
      BY <2>3
    <3>2. \A x \in a .. t - 1 : Kind(x)' \notin Tags
      BY <2>5, <2>7, <3>1 DEF NoTagWithin, Of
    <3> QED
      BY <3>2 DEF NoTagWithin, Of
  <2>8. p \in 1 .. t /\ q \in 1 .. t
    BY <1>1, <2>3
  <2>9. NoTagWithin(p, t - 1)' /\ NoTagWithin(q, t - 1)'
    BY <2>1, <2>2, <2>7, <2>8
  <2>10. t \in Of(Tags, p + 1, Len(received))' /\ q \in EndMarks(1, t - 1)'
    BY <2>2, <2>3, <2>6 DEF EndMarks, Of
  <2> QED
    BY <2>6, <2>9, <2>10 DEF BeforeTag
<1> QED
  BY <1>2, <1>3

------------------------------------------------------------------------------
(***************************************************************************)
(* One pass of the divider.                                                *)
(***************************************************************************)

\* A sequence whose members are in T.
LEMMA SeqOver ==
    ASSUME NEW S, NEW T, NEW s \in Seq(S), \A i \in DOMAIN s : s[i] \in T
    PROVE  s \in Seq(T)
<1>1. Len(s) \in Nat /\ DOMAIN s = 1 .. Len(s) /\ s = [i \in 1 .. Len(s) |-> s[i]]
  OBVIOUS
<1>2. s \in [1 .. Len(s) -> T]
  BY <1>1
<1> QED
  BY <1>1, <1>2, SeqDef

\* The sentences of a text, and the rest: only a piece that ends in an abbreviation
\* is left out, and there is no rest after a full stop.
Divided(cut, first, last) ==
    /\ cut.sentences \in Seq([from : first .. last, to : first .. last, tags : {CurrentTags}])
    /\ Ordered(cut.sentences, first, cut.rest)
    /\ cut.rest \in first .. last + 1
    /\ cut.rest = first \/ Kind(cut.rest - 1) \in {"stop", "abbr"}
    /\ Kind(last) = "stop" => cut.rest = last + 1
    /\ \A p \in first .. cut.rest - 1 :
          \/ \E i \in DOMAIN cut.sentences : p \in Interval(cut.sentences[i])
          \/ BeforeAbbreviation(p)

LEMMA SegmentationsAre ==
    ASSUME NEW first \in Nat \ {0}, NEW last \in Nat, first <= last,
           Len(received) \in Nat, last <= Len(received),
           NEW cut \in Segmentations(first, last)
    PROVE  Divided(cut, first, last)
<1>1. PICK cuts \in SUBSET EndMarks(first, last), ends \in SUBSET EndMarks(first, last) :
         /\ ends \subseteq cuts
         /\ cut \in Segmentation(first, cuts, ends)
         /\ Kind(last) = "stop" => last \in cuts
         /\ \A c \in cuts \ ends :
               Kind(c) = "abbr" /\ \A x \in first .. c : Kind(x) = "stop" => x \in cuts
  <2>1. CASE cut \in PysbdSegmentations(first, last)
    <3>1. PICK chosen \in SUBSET EndMarks(first, last - 1) :
             cut \in Segmentation(first, chosen \cup Of({"stop"}, last, last),
                                  chosen \cup Of({"stop"}, last, last))
      BY <2>1 DEF PysbdSegmentations
    <3> DEFINE cuts == chosen \cup Of({"stop"}, last, last)
    <3>2. cuts \in SUBSET EndMarks(first, last)
      <4>1. EndMarks(first, last - 1) \subseteq EndMarks(first, last)
        <5> SUFFICES ASSUME NEW x \in EndMarks(first, last - 1)
                     PROVE  x \in EndMarks(first, last)
          OBVIOUS
        <5>1. x \in first .. last - 1 /\ Kind(x) \in {"stop", "abbr"}
          BY DEF EndMarks, Of
        <5>2. x \in first .. last
          BY <5>1
        <5> QED
          BY <5>1, <5>2 DEF EndMarks, Of
      <4>2. Of({"stop"}, last, last) \subseteq EndMarks(first, last)
        <5> SUFFICES ASSUME NEW x \in Of({"stop"}, last, last)
                     PROVE  x \in EndMarks(first, last)
          OBVIOUS
        <5>1. x \in last .. last /\ Kind(x) = "stop"
          BY DEF Of
        <5>2. x \in first .. last
          BY <5>1
        <5> QED
          BY <5>1, <5>2 DEF EndMarks, Of
      <4> QED
        BY <4>1, <4>2
    <3>3. Kind(last) = "stop" => last \in cuts
      <4>1. last \in last .. last
        OBVIOUS
      <4> QED
        BY <4>1 DEF Of
    <3> QED
      BY <3>1, <3>2, <3>3
  <2>2. CASE cut \in segment_text_by_regex(first, last)
    <3> DEFINE cuts == EndMarks(first, last)
               ends == Of({"stop"}, first, last)
    <3>1. cut \in Segmentation(first, cuts, ends)
      BY <2>2 DEF segment_text_by_regex
    <3>2. ends \in SUBSET cuts
      BY DEF EndMarks, Of
    <3>3. \A c \in cuts \ ends : c \in first .. last /\ Kind(c) = "abbr"
      BY DEF EndMarks, Of
    <3>4. \A x \in first .. last : Kind(x) = "stop" => x \in cuts
      BY DEF EndMarks, Of
    <3>5. \A c \in first .. last : \A x \in first .. c : x \in first .. last
      OBVIOUS
    <3>6. last \in first .. last
      OBVIOUS
    <3> HIDE DEF cuts, ends
    <3>7. \A c \in cuts \ ends :
             Kind(c) = "abbr" /\ \A x \in first .. c : Kind(x) = "stop" => x \in cuts
      BY <3>3, <3>4, <3>5
    <3>8. Kind(last) = "stop" => last \in cuts
      BY <3>4, <3>6
    <3>9. cuts = EndMarks(first, last) /\ ends \subseteq cuts
      BY <3>2 DEF cuts
    <3> QED
      BY <3>1, <3>7, <3>8, <3>9
  <2> QED
    BY <2>1, <2>2 DEF Segmentations
<1>2. cuts \in SUBSET (first .. last) /\ \A c \in cuts : Kind(c) \in {"stop", "abbr"}
  BY DEF EndMarks, Of
<1>3. CutUp(cut, first, last, cuts, ends)
  BY <1>1, <1>2, SegmentationIs
<1>4. /\ cut.rest \in first .. last + 1
      /\ cut.rest = first \/ Kind(cut.rest - 1) \in {"stop", "abbr"}
  BY <1>2, <1>3 DEF CutUp
<1>5. Kind(last) = "stop" => cut.rest = last + 1
  <2>1. Kind(last) = "stop" => last < cut.rest
    BY <1>1, <1>3 DEF CutUp
  <2> QED
    BY <1>4, <2>1
<1>6. cut.sentences \in Seq([from : first .. last, to : ends, tags : {CurrentTags}])
  BY <1>3 DEF CutUp
<1>7. \A i \in DOMAIN cut.sentences :
         /\ cut.sentences[i] \in [from : first .. last, to : first .. last, tags : {CurrentTags}]
         /\ first <= cut.sentences[i].from
  <2>1. ends \subseteq first .. last
    BY <1>1, <1>2
  <2>2. \A i \in DOMAIN cut.sentences :
           cut.sentences[i] \in [from : first .. last, to : ends, tags : {CurrentTags}]
    <3> DEFINE P == [from : first .. last, to : ends, tags : {CurrentTags}]
    <3>1. cut.sentences \in Seq(P)
      BY <1>6
    <3> HIDE DEF P
    <3>2. \A i \in DOMAIN cut.sentences : cut.sentences[i] \in P
      BY <3>1
    <3> QED
      BY <3>2 DEF P
  <2>3. [from : first .. last, to : ends, tags : {CurrentTags}]
           \subseteq [from : first .. last, to : first .. last, tags : {CurrentTags}]
    BY <2>1
  <2>4. \A s \in [from : first .. last, to : first .. last, tags : {CurrentTags}] :
           first <= s.from
    OBVIOUS
  <2> QED
    BY <2>2, <2>3, <2>4
<1>8. cut.sentences \in Seq([from : first .. last, to : first .. last, tags : {CurrentTags}])
  BY <1>6, <1>7, SeqOver
<1>9. Ordered(cut.sentences, first, cut.rest)
  BY <1>3, <1>7 DEF CutUp, Ordered
<1>10. ASSUME NEW p \in first .. cut.rest - 1
       PROVE  \/ \E i \in DOMAIN cut.sentences : p \in Interval(cut.sentences[i])
              \/ BeforeAbbreviation(p)
  <2>1. \/ \E i \in DOMAIN cut.sentences : p \in Interval(cut.sentences[i])
        \/ \E c \in cuts \ ends : p <= c /\ \A d \in cuts : ~(p <= d /\ d < c)
    BY <1>3 DEF CutUp
  <2>2. ASSUME NEW c \in cuts \ ends, p <= c, \A d \in cuts : ~(p <= d /\ d < c)
        PROVE  BeforeAbbreviation(p)
    <3>1. /\ c \in first .. last /\ Kind(c) = "abbr"
          /\ \A x \in first .. c : Kind(x) = "stop" => x \in cuts
      BY <1>1, <1>2
    <3>2. p \in Nat /\ first <= p
      BY <1>4
    <3>3. c \in p .. Len(received)
      BY <2>2, <3>1, <3>2
    <3>4. \A x \in p .. c : Kind(x) # "stop"
      <4> SUFFICES ASSUME NEW x \in p .. c, Kind(x) = "stop" PROVE FALSE
        OBVIOUS
      <4>1. x # c
        BY <3>1
      <4>2. x \in first .. c /\ p <= x /\ x < c
        BY <3>1, <3>2, <4>1
      <4> QED
        BY <2>2, <3>1, <4>2
    <3>5. c \in Of({"abbr"}, p, Len(received)) /\ Of({"stop"}, p, c) = {}
      BY <3>1, <3>3, <3>4 DEF Of
    <3> QED
      BY <3>5 DEF BeforeAbbreviation
  <2> QED
    BY <2>1, <2>2
<1> QED
  BY <1>4, <1>5, <1>8, <1>9, <1>10 DEF Divided

\* The pass takes at .. at' - 1 from the buffer, in order: a tag, which opens or
\* closes a block, or text of one block.
Advances ==
    /\ pending = <<>>
    /\ UNCHANGED <<received, half>>
    /\ at \in Nat /\ at' \in Nat /\ 1 <= at /\ at <= at' /\ at' <= Len(received) + 1
    /\ isFirst' \in BOOLEAN
    /\ pending' \in Seq(SentenceType)
    /\ Ordered(pending', at, at')
    /\ \A p \in Nat : at <= p /\ p < at' =>
          \/ \E i \in DOMAIN pending' : p \in Interval(pending'[i])
          \/ BeforeAbbreviation(p)
          \/ BeforeTag(p)
    /\ \/ /\ at' = at + 1 /\ Kind(at) \in Tags
          /\ depth' = Deeper(Kind(at), {"think"}, "/think", depth)
          /\ \A i \in DOMAIN pending' : pending'[i].tags \in {"start", "end", "self"}
       \/ /\ \A p \in Nat : at <= p /\ p < at' => Kind(p) \notin Tags
          /\ depth' = depth
          /\ \A i \in DOMAIN pending' : pending'[i].tags = CurrentTags

\* A single sentence.
LEMMA SingleSentence ==
    ASSUME NEW a \in Nat, NEW b \in Nat, 1 <= a, a <= b, b <= MaxTokens,
           NEW tags \in SentenceTags, NEW next \in Nat, b < next,
           NEW said, said = <<Sentence(a, b, tags)>>
    PROVE  /\ said \in Seq(SentenceType)
           /\ Ordered(said, a, next)
           /\ \A p \in Nat : a <= p /\ p <= b =>
                 \E i \in DOMAIN said : p \in Interval(said[i])
           /\ \A i \in DOMAIN said : said[i].tags = tags
<1> DEFINE s == Sentence(a, b, tags)
<1>1. s = [from |-> a, to |-> b, tags |-> tags]
  BY DEF Sentence
<1>2. a \in Positions /\ b \in Positions
  BY BoundAssumption DEF Positions
<1>3. s \in SentenceType /\ s.from = a /\ s.to = b /\ s.tags = tags
  BY <1>1, <1>2 DEF SentenceType
<1> HIDE DEF s
<1>4. said = <<s>>
  BY DEF s
<1>5. DOMAIN said = {1} /\ said[1] = s /\ said \in Seq(SentenceType)
  BY <1>3, <1>4
<1>6. Ordered(said, a, next)
  BY <1>3, <1>5 DEF Ordered
<1>7. \A p \in Nat : a <= p /\ p <= b => p \in Interval(said[1])
  BY <1>3, <1>5 DEF Interval
<1> QED
  BY <1>3, <1>5, <1>6, <1>7

\* The first tag in the buffer.
LEMMA NextTagIs ==
    ASSUME Len(received) \in Nat, at \in Nat, TagsInBuffer # {}
    PROVE  /\ NextTag \in at .. Len(received) /\ Kind(NextTag) \in Tags
           /\ \A p \in at .. NextTag - 1 : Kind(p) \notin Tags
<1>1. TagsInBuffer \in SUBSET Nat
  <2>1. TagsInBuffer \subseteq at .. Len(received)
    BY DEF TagsInBuffer, Of
  <2>2. \A p \in at .. Len(received) : p \in Nat
    OBVIOUS
  <2> QED
    BY <2>1, <2>2
<1>2. NextTag \in TagsInBuffer /\ \A p \in TagsInBuffer : NextTag <= p
  BY <1>1, MinIs DEF NextTag
<1>3. NextTag \in at .. Len(received) /\ Kind(NextTag) \in Tags
  BY <1>2 DEF TagsInBuffer, Of
<1>4. ASSUME NEW p \in at .. NextTag - 1, Kind(p) \in Tags PROVE FALSE
  <2>1. p \in at .. Len(received) /\ ~(NextTag <= p)
    BY <1>3
  <2>2. p \in TagsInBuffer
    BY <1>4, <2>1 DEF TagsInBuffer, Of
  <2> QED
    BY <1>2, <2>1, <2>2
<1> QED
  BY <1>3, <1>4

\* What the divider's actions presuppose.
Positioned ==
    /\ Len(received) \in Nat /\ Len(received) <= MaxTokens
    /\ at \in Nat /\ 1 <= at /\ at <= Len(received) + 1
    /\ depth \in Nat /\ isFirst \in BOOLEAN

LEMMA TypedPosition ==
    ASSUME TypeInv
    PROVE  Positioned
<1>1. Len(received) \in Nat
  BY DEF TypeInv
<1> QED
  BY <1>1 DEF TypeInv, Positioned

LEMMA ExtractTagAdvances ==
    ASSUME Positioned, pending = <<>>, UNCHANGED <<received, half>>, ExtractTag
    PROVE  Advances /\ Kind(at' - 1) # "half"
<1>1. at' = at + 1 /\ isFirst' = isFirst /\ at' - 1 = at
  BY DEF ExtractTag, Positioned
<1>2. at \in at .. Len(received) /\ Kind(at) \in Tags
  BY NextTagIs DEF ExtractTag, Positioned
<1>3. /\ depth' = Deeper(Kind(at), {"think"}, "/think", depth)
      /\ \E tags \in {"start", "end", "self"} : pending' = <<Sentence(at, at, tags)>>
  <2>1. CASE Kind(at) = "think"
    BY <2>1 DEF ExtractTag, Deeper
  <2>2. CASE Kind(at) = "/think"
    BY <2>2 DEF ExtractTag, PopTag, Deeper, Positioned
  <2>3. CASE Kind(at) = "think/"
    BY <2>3 DEF ExtractTag, Deeper
  <2> QED
    BY <1>2, <2>1, <2>2, <2>3 DEF Tags
<1>4. PICK tags \in {"start", "end", "self"} : pending' = <<Sentence(at, at, tags)>>
  BY <1>3
<1>5. tags \in SentenceTags
  BY DEF SentenceTags
<1>6. /\ at \in Nat /\ 1 <= at /\ at <= MaxTokens /\ at' \in Nat /\ at < at'
      /\ at <= at' /\ at' <= Len(received) + 1 /\ isFirst' \in BOOLEAN
      /\ \A p \in Nat : at <= p /\ p < at' => p <= at
  BY <1>1, <1>2, BoundAssumption DEF Positioned
<1>7. /\ pending' \in Seq(SentenceType)
      /\ Ordered(pending', at, at')
      /\ \A p \in Nat : at <= p /\ p <= at =>
            \E i \in DOMAIN pending' : p \in Interval(pending'[i])
      /\ \A i \in DOMAIN pending' : pending'[i].tags = tags
  BY <1>4, <1>5, <1>6, SingleSentence
<1>8. Kind(at' - 1) # "half"
  BY <1>1, <1>2 DEF Tags
<1> QED
  BY <1>1, <1>2, <1>3, <1>6, <1>7, <1>8 DEF Advances

LEMMA CommaAdvances ==
    ASSUME Positioned, pending = <<>>, UNCHANGED <<received, half>>, DivideAtComma
    PROVE  Advances /\ Kind(at' - 1) # "half"
<1>1. PICK comma \in Of({"comma"}, at, Len(received)) :
         /\ pending' = <<Sentence(at, comma, CurrentTags)>>
         /\ at' = comma + 1 /\ isFirst' = FALSE /\ depth' = depth
  BY DEF DivideAtComma, CommaSplit
<1>2. comma \in at .. Len(received) /\ Kind(comma) = "comma"
  BY DEF Of
<1>3. \A p \in at .. Len(received) : Kind(p) \notin Tags
  BY DEF DivideAtComma, TagsInBuffer, Of
<1>4. CurrentTags \in SentenceTags
  BY DEF CurrentTags, SentenceTags
<1>5. /\ at \in Nat /\ 1 <= at /\ comma \in Nat /\ at <= comma /\ comma <= MaxTokens
      /\ at' \in Nat /\ comma < at' /\ at <= at' /\ at' <= Len(received) + 1
      /\ \A p \in Nat : at <= p /\ p < at' => p <= comma /\ p \in at .. Len(received)
      /\ at' - 1 = comma
  BY <1>1, <1>2, BoundAssumption DEF Positioned
<1>6. /\ pending' \in Seq(SentenceType)
      /\ Ordered(pending', at, at')
      /\ \A p \in Nat : at <= p /\ p <= comma =>
            \E i \in DOMAIN pending' : p \in Interval(pending'[i])
      /\ \A i \in DOMAIN pending' : pending'[i].tags = CurrentTags
  BY <1>1, <1>4, <1>5, SingleSentence
<1> QED
  BY <1>1, <1>2, <1>3, <1>5, <1>6 DEF Advances

LEMMA FlushAdvances ==
    ASSUME Positioned, FlushBuffer
    PROVE  Advances
<1>1. /\ pending = <<>> /\ at <= Len(received)
      /\ pending' = <<Sentence(at, Len(received), CurrentTags)>>
      /\ at' = Len(received) + 1
      /\ UNCHANGED <<received, half, depth, isFirst>>
  BY DEF FlushBuffer, Settled
<1>2. \A p \in at .. Len(received) : Kind(p) \notin Tags
  BY DEF FlushBuffer, Settled, TagsInBuffer, Of
<1>3. CurrentTags \in SentenceTags
  BY DEF CurrentTags, SentenceTags
<1>4. /\ at \in Nat /\ 1 <= at /\ Len(received) \in Nat /\ at <= Len(received)
      /\ Len(received) <= MaxTokens /\ isFirst' \in BOOLEAN
      /\ at' \in Nat /\ Len(received) < at' /\ at <= at' /\ at' <= Len(received) + 1
      /\ \A p \in Nat : at <= p /\ p < at' => p <= Len(received) /\ p \in at .. Len(received)
  BY <1>1, BoundAssumption DEF Positioned
<1>5. /\ pending' \in Seq(SentenceType)
      /\ Ordered(pending', at, at')
      /\ \A p \in Nat : at <= p /\ p <= Len(received) =>
            \E i \in DOMAIN pending' : p \in Interval(pending'[i])
      /\ \A i \in DOMAIN pending' : pending'[i].tags = CurrentTags
  BY <1>1, <1>3, <1>4, SingleSentence
<1> QED
  BY <1>1, <1>2, <1>4, <1>5 DEF Advances

\* The sentences of a text before `next`.
LEMMA DividedSentences ==
    ASSUME NEW first \in Nat \ {0}, NEW last \in Nat, first <= last, last <= MaxTokens,
           NEW cut, Divided(cut, first, last), NEW next \in Nat, cut.rest <= next
    PROVE  /\ cut.sentences \in Seq(SentenceType)
           /\ Ordered(cut.sentences, first, next)
           /\ \A i \in DOMAIN cut.sentences : cut.sentences[i].tags = CurrentTags
<1> DEFINE P == [from : first .. last, to : first .. last, tags : {CurrentTags}]
           said == cut.sentences
<1>1. said \in Seq(P) /\ Ordered(said, first, cut.rest) /\ cut.rest \in first .. last + 1
  BY DEF Divided
<1>2. P \subseteq SentenceType /\ \A s \in P : s.tags = CurrentTags /\ s.to \in Nat
  <2>1. CurrentTags \in SentenceTags
    BY DEF CurrentTags, SentenceTags
  <2>2. first .. last \subseteq Positions
    BY BoundAssumption DEF Positions
  <2> QED
    BY <2>1, <2>2 DEF SentenceType
<1> HIDE DEF P, said
<1>3. \A i \in DOMAIN said : said[i] \in P
  BY <1>1
<1>4. said \in Seq(SentenceType) /\ \A i \in DOMAIN said : said[i].tags = CurrentTags
  BY <1>1, <1>2, <1>3, SeqOver
<1>5. \A i \in DOMAIN said : said[i].to < next
  <2> SUFFICES ASSUME NEW i \in DOMAIN said PROVE said[i].to < next
    OBVIOUS
  <2>1. said[i].to \in Nat /\ said[i].to < cut.rest /\ cut.rest \in Nat
    BY <1>1, <1>2, <1>3 DEF Ordered
  <2> QED
    BY <2>1
<1>6. Ordered(said, first, next)
  BY <1>1, <1>5 DEF Ordered
<1> QED
  BY <1>4, <1>6 DEF said

LEMMA SentencesAdvance ==
    ASSUME Positioned, pending = <<>>, UNCHANGED <<received, half>>, DivideSentences
    PROVE  Advances /\ (at' = at \/ Kind(at' - 1) # "half")
<1>1. /\ EndMarks(at, Len(received)) # {} /\ TagsInBuffer = {}
      /\ isFirst' = FALSE /\ depth' = depth
  BY DEF DivideSentences
<1>2. PICK cut \in Segmentations(at, Len(received)) :
         pending' = cut.sentences /\ at' = cut.rest
  BY DEF DivideSentences
<1>3. at <= Len(received)
  <2>1. PICK p \in at .. Len(received) : TRUE
    BY <1>1 DEF EndMarks, Of
  <2> QED
    BY <2>1 DEF Positioned
<1>4. /\ at \in Nat \ {0} /\ Len(received) \in Nat /\ Len(received) <= MaxTokens
      /\ MaxTokens \in Nat
  BY BoundAssumption DEF Positioned
<1>5. Divided(cut, at, Len(received))
  BY <1>3, <1>4, SegmentationsAre
<1>6. /\ cut.rest \in at .. Len(received) + 1
      /\ cut.rest = at \/ Kind(cut.rest - 1) \in {"stop", "abbr"}
      /\ \A p \in at .. cut.rest - 1 :
            \/ \E i \in DOMAIN cut.sentences : p \in Interval(cut.sentences[i])
            \/ BeforeAbbreviation(p)
  BY <1>5 DEF Divided
<1>7. /\ cut.rest \in Nat /\ at <= cut.rest /\ cut.rest <= Len(received) + 1
      /\ \A p \in Nat : at <= p /\ p < cut.rest =>
            p \in at .. cut.rest - 1 /\ p \in at .. Len(received)
  BY <1>4, <1>6
<1>8. /\ cut.sentences \in Seq(SentenceType)
      /\ Ordered(cut.sentences, at, cut.rest)
      /\ \A i \in DOMAIN cut.sentences : cut.sentences[i].tags = CurrentTags
  <2>1. cut.rest <= cut.rest
    BY <1>7
  <2> QED
    BY <1>3, <1>4, <1>5, <1>7, <2>1, DividedSentences
<1>9. \A p \in at .. Len(received) : Kind(p) \notin Tags
  BY <1>1 DEF TagsInBuffer, Of
<1>10. isFirst' \in BOOLEAN /\ 1 <= at
  <2>1. isFirst' \in BOOLEAN
    BY <1>1
  <2>2. 1 <= at
    BY <1>4
  <2> QED
    BY <2>1, <2>2
<1>11. Advances
  BY <1>1, <1>2, <1>4, <1>6, <1>7, <1>8, <1>9, <1>10 DEF Advances
<1>12. at' = at \/ Kind(at' - 1) # "half"
  BY <1>2, <1>6
<1> QED
  BY <1>11, <1>12

\* In front of a tag: what follows the last sentence is lost, as BeforeTag says.
LEMMA BeforeTagAdvances ==
    ASSUME Positioned, pending = <<>>, UNCHANGED <<received, half>>, DivideBeforeTag
    PROVE  Advances /\ at' <= Len(received)
<1> DEFINE t == NextTag
<1>1. /\ TagsInBuffer # {} /\ t > at /\ at' = t
      /\ depth' = depth /\ isFirst' = isFirst
  BY DEF DivideBeforeTag
<1>2. /\ t \in at .. Len(received) /\ Kind(t) \in Tags
      /\ \A p \in at .. t - 1 : Kind(p) \notin Tags
  BY <1>1, NextTagIs DEF Positioned
<1>3. \/ /\ EndMarks(at, t - 1) # {}
         /\ \E s \in Segmentations(at, t - 1) : pending' = s.sentences
      \/ /\ EndMarks(at, t - 1) = {}
         /\ pending' = <<Sentence(at, t - 1, CurrentTags)>>
  BY DEF DivideBeforeTag
<1> HIDE DEF t
<1>4. /\ at \in Nat \ {0} /\ at \in Nat /\ 1 <= at /\ t - 1 \in Nat /\ at <= t - 1 /\ t - 1 <= MaxTokens
      /\ t - 1 <= Len(received) /\ Len(received) \in Nat /\ t \in Nat /\ t - 1 < t /\ at <= t
      /\ t <= Len(received) + 1 /\ t <= Len(received) /\ MaxTokens \in Nat
      /\ \A p \in Nat : at <= p /\ p < t => p <= t - 1 /\ p \in at .. t - 1
      /\ (t - 1) + 1 = t
  BY <1>1, <1>2, BoundAssumption DEF Positioned
<1>5. CurrentTags \in SentenceTags
  BY DEF CurrentTags, SentenceTags
<1>6. /\ pending' \in Seq(SentenceType)
      /\ Ordered(pending', at, t)
      /\ \A i \in DOMAIN pending' : pending'[i].tags = CurrentTags
      /\ \A p \in Nat : at <= p /\ p < t =>
            \/ \E i \in DOMAIN pending' : p \in Interval(pending'[i])
            \/ BeforeAbbreviation(p)
            \/ BeforeTag(p)
  <2>1. CASE EndMarks(at, t - 1) = {} /\ pending' = <<Sentence(at, t - 1, CurrentTags)>>
    BY <1>4, <1>5, <2>1, SingleSentence
  <2>2. CASE /\ EndMarks(at, t - 1) # {}
             /\ \E s \in Segmentations(at, t - 1) : pending' = s.sentences
    <3>1. PICK cut \in Segmentations(at, t - 1) : pending' = cut.sentences
      BY <2>2
    <3>2. Divided(cut, at, t - 1)
      BY <1>4, SegmentationsAre
    <3>3. cut.rest \in at .. (t - 1) + 1 /\ (Kind(t - 1) = "stop" => cut.rest = (t - 1) + 1)
      BY <3>2 DEF Divided
    <3>4. cut.rest <= t /\ cut.rest \in Nat
      BY <1>4, <3>3
    <3>5. /\ cut.sentences \in Seq(SentenceType)
          /\ Ordered(cut.sentences, at, t)
          /\ \A i \in DOMAIN cut.sentences : cut.sentences[i].tags = CurrentTags
      BY <1>4, <3>2, <3>4, DividedSentences
    <3>6. ASSUME NEW p \in Nat, at <= p, p < t, p < cut.rest
          PROVE  \/ \E i \in DOMAIN cut.sentences : p \in Interval(cut.sentences[i])
                 \/ BeforeAbbreviation(p)
      <4>1. p \in at .. cut.rest - 1
        BY <1>4, <3>4, <3>6
      <4> QED
        BY <3>2, <4>1 DEF Divided
    <3>7. ASSUME NEW p \in Nat, at <= p, p < t, ~(p < cut.rest)
          PROVE  BeforeTag(p)
      <4>1. Kind(t - 1) # "stop"
        BY <1>4, <3>3, <3>7
      <4>2. PICK q \in at .. t - 1 : Kind(q) \in {"stop", "abbr"}
        BY <2>2 DEF EndMarks, Of
      <4>3. ASSUME NEW a \in at .. t - 1 PROVE NoTagWithin(a, t - 1)
        <5>1. \A x \in a .. t - 1 : x \in at .. t - 1
          BY <1>4
        <5> QED
          BY <1>2, <5>1 DEF NoTagWithin, Of
      <4>4. /\ p \in at .. t - 1 /\ t \in p + 1 .. Len(received) /\ q \in 1 .. t - 1
        BY <1>4, <3>7
      <4>5. t \in Of(Tags, p + 1, Len(received)) /\ q \in EndMarks(1, t - 1)
        BY <1>2, <4>2, <4>4 DEF EndMarks, Of
      <4>6. NoTagWithin(p, t - 1) /\ NoTagWithin(q, t - 1)
        BY <4>3, <4>4
      <4> QED
        BY <4>1, <4>5, <4>6 DEF BeforeTag
    <3> QED
      BY <3>1, <3>5, <3>6, <3>7
  <2> QED
    BY <1>3, <2>1, <2>2
<1>7. isFirst' \in BOOLEAN
  BY <1>1 DEF Positioned
<1>8. \A p \in Nat : at <= p /\ p < t => Kind(p) \notin Tags
  BY <1>2, <1>4
<1>9. Advances
  BY <1>1, <1>4, <1>6, <1>7, <1>8 DEF Advances
<1> QED
  BY <1>1, <1>4, <1>9

\* Every pass advances; what it takes is complete as long as the model sends.
LEMMA DivideAdvances ==
    ASSUME TypeInv, mode \in {"open", "ended"}, Divide
    PROVE  Advances /\ (mode = "open" /\ half => at' <= Len(received))
<1>1. Positioned
  BY TypedPosition
<1>2. pending = <<>> /\ UNCHANGED <<received, half>>
  BY DEF Divide
<1>3. Advances /\ (at' = at \/ Kind(at' - 1) # "half" \/ at' <= Len(received))
  <2>1. CASE ExtractTag
    BY <1>1, <1>2, <2>1, ExtractTagAdvances
  <2>2. CASE DivideBeforeTag
    BY <1>1, <1>2, <2>2, BeforeTagAdvances
  <2>3. CASE DivideAtComma
    BY <1>1, <1>2, <2>3, CommaAdvances
  <2>4. CASE DivideSentences
    BY <1>1, <1>2, <2>4, SentencesAdvance
  <2> QED
    BY <2>1, <2>2, <2>3, <2>4 DEF Divide
<1>4. ASSUME mode = "open", half PROVE at' <= Len(received)
  <2>1. /\ Len(received) \in Nat /\ at \in Nat /\ at <= Len(received)
        /\ at' \in Nat /\ at' <= Len(received) + 1
    BY <1>1, <1>3, <1>4 DEF TypeInv, Positioned, Advances
  <2>2. Kind(Len(received)) = "half"
    BY <1>4 DEF Kind
  <2>3. at' = Len(received) + 1 => at' - 1 = Len(received) /\ at' # at
    BY <2>1
  <2> QED
    BY <1>3, <2>1, <2>2, <2>3
<1> QED
  BY <1>3, <1>4

------------------------------------------------------------------------------
(***************************************************************************)
(* The blocks the model thinks in.                                         *)
(***************************************************************************)

\* A think tag opens or closes a block; without one nothing changes.
LEMMA ThinkingIs ==
    ASSUME Len(received) \in Nat, received \in Seq(TokenKinds)
    PROVE  /\ Thinking[0] = 0
           /\ \A p \in 0 .. Len(received) : Thinking[p] \in Nat
           /\ \A p \in 1 .. Len(received) :
                 Thinking[p] = Deeper(Kind(p), {"think"}, "/think", Thinking[p - 1])
           /\ \A a \in 0 .. Len(received) : \A q \in a .. Len(received) :
                 (\A p \in a + 1 .. q : Kind(p) \notin Tags) => Thinking[q] = Thinking[a]
<1> DEFINE n == Len(received)
<1>1. \A p \in 1 .. n : Text[p] = Kind(p)
  BY DEF Text
<1>2. /\ 1 <= n + 1 /\ 1 - 1 = 0 /\ 1 \in Nat \ {0}
      /\ \A p \in 0 .. n : p \in 1 - 1 .. n
  OBVIOUS
<1>3. Thinking = Nesting(Text, {"think"}, "/think", 1, n)
  BY DEF Thinking
<1>4. /\ Thinking[1 - 1] = 0
      /\ \A p \in 1 .. n :
            Thinking[p] = Deeper(Text[p], {"think"}, "/think", Thinking[p - 1])
      /\ \A p \in 1 - 1 .. n : Thinking[p] \in Nat
  <2>1. n \in Nat /\ 1 <= n + 1 /\ 1 \in Nat \ {0}
    BY <1>2
  <2> HIDE DEF n
  <2> DEFINE level == Nesting(Text, {"think"}, "/think", 1, n)
  <2>2. /\ 1 <= n + 1 => level[1 - 1] = 0
        /\ \A p \in 1 .. n : level[p] = Deeper(Text[p], {"think"}, "/think", level[p - 1])
        /\ \A p \in 1 - 1 .. n : level[p] \in Nat
    BY ONLY <2>1, NestingIs
  <2> HIDE DEF level
  <2>3. Thinking = level
    BY <1>3 DEF level
  <2> QED
    BY <2>1, <2>2, <2>3
<1>5. ASSUME NEW a \in 0 .. n, NEW q \in a .. n, \A p \in a + 1 .. q : Kind(p) \notin Tags
      PROVE  Thinking[q] = Thinking[a]
  <2>1. \A p \in a + 1 .. q : p \in 1 .. n
    OBVIOUS
  <2>2. \A p \in a + 1 .. q : Text[p] \notin {"think"} /\ Text[p] # "/think"
    BY <1>1, <1>5, <2>1 DEF Tags
  <2>3. a \in 1 - 1 .. n /\ q \in a .. n /\ n \in Nat /\ 1 \in Nat \ {0}
    BY <1>2
  <2> HIDE DEF n
  <2>4. Nesting(Text, {"think"}, "/think", 1, n)[q] = Nesting(Text, {"think"}, "/think", 1, n)[a]
    BY ONLY <2>2, <2>3, NestingFlat
  <2> QED
    BY <1>3, <2>4
<1> QED
  BY <1>1, <1>2, <1>4, <1>5

\* Nothing of this changes as long as no chunk comes.
LEMMA Unmoved ==
    ASSUME UNCHANGED <<received, half>>
    PROVE  /\ Thinking' = Thinking
           /\ \A p : Kind(p)' = Kind(p)
           /\ \A p : BeforeAbbreviation(p) => BeforeAbbreviation(p)'
           /\ \A p : BeforeTag(p) => BeforeTag(p)'
<1>1. \A p : Kind(p)' = Kind(p)
  BY DEF Kind
<1>2. Text' = Text
  BY DEF Text, Kind
<1>3. Thinking' = Thinking
  BY <1>2 DEF Thinking
<1>4. \A p : BeforeAbbreviation(p) => BeforeAbbreviation(p)'
  BY DEF BeforeAbbreviation, Of, Kind
<1>5. \A p : BeforeTag(p) => BeforeTag(p)'
  BY DEF BeforeTag, NoTagWithin, EndMarks, Of, Kind
<1> QED
  BY <1>1, <1>3, <1>4, <1>5

------------------------------------------------------------------------------
(***************************************************************************)
(* The invariant, step by step.                                            *)
(***************************************************************************)

LEMMA InitHolds == Init => IInv
<1> SUFFICES ASSUME Init PROVE IInv
  OBVIOUS
<1>1. /\ received = <<>> /\ half = FALSE /\ at = 1 /\ depth = 0 /\ isFirst = TRUE
      /\ pending = <<>> /\ mode = "open" /\ emitted = 0 /\ remembered = FALSE /\ outputs = <<>>
  BY DEF Init, DividerInit
<1>2. Len(received) = 0 /\ received \in Seq(TokenKinds)
  BY <1>1, EmptySeq
<1>3. TypeInv
  <2>1. pending \in Seq(SentenceType) /\ outputs \in Seq(OutputType)
    BY <1>1, EmptySeq
  <2>2. at \in 1 .. Len(received) + 1 /\ depth \in 0 .. at - 1 /\ Len(received) <= MaxTokens
    BY <1>1, <1>2, BoundAssumption
  <2> QED
    BY <1>1, <1>2, <2>1, <2>2 DEF TypeInv
<1>4. OrderInv /\ OutputInv
  BY <1>1 DEF OrderInv, OutputInv, Ordered
<1>5. LimitInv
  <2>1. Delivered = {}
    BY <1>1 DEF Delivered
  <2>2. Shown = 0
    BY <2>1, FS_EmptySet DEF Shown
  <2> QED
    BY <1>1, <2>2, BoundAssumption DEF LimitInv
<1>6. VoiceInv
  <2>1. Thinking[0] = 0
    BY <1>2, ThinkingIs
  <2> QED
    BY <1>1, <2>1 DEF VoiceInv
<1>7. DeliveryInv /\ SpeakingInv
  BY <1>1 DEF DeliveryInv, SpeakingInv
<1> QED
  BY <1>3, <1>4, <1>5, <1>6, <1>7 DEF IInv

\* A position before m is before a or from a on.
LEMMA Before ==
    ASSUME NEW a \in Nat, NEW m \in Nat, NEW p, p \in 1 .. m - 1, 1 <= a, a <= m
    PROVE  p \in Nat /\ (p \in 1 .. a - 1 \/ (a <= p /\ p < m))
OBVIOUS

\* The position before m.
LEMMA Previous ==
    ASSUME NEW a \in Nat, NEW m \in Nat, 1 <= a, a <= m
    PROVE  /\ m - 1 \in Nat /\ a - 1 \in Nat /\ a - 1 <= m - 1 /\ m - 1 < m
           /\ \A d \in Nat : d <= m - 1 => d \in 0 .. m - 1
OBVIOUS

\* Where a sentence begins and ends.
LEMMA EndsAre ==
    /\ \A s \in SentenceType : s.from \in Nat /\ s.to \in Nat
    /\ \A s \in OutputType : s.from \in Nat /\ s.to \in Nat
<1>1. Positions \subseteq Nat
  BY BoundAssumption DEF Positions
<1>2. \A s \in SentenceType : s.from \in Positions /\ s.to \in Positions
  BY DEF SentenceType
<1>3. \A s \in OutputType : s.from \in Positions /\ s.to \in Positions
  BY DEF OutputType
<1> QED
  BY <1>1, <1>2, <1>3

\* The divider takes from the buffer what nobody has had yet.
LEMMA AdvanceKeeps ==
    ASSUME IInv, mode \in {"open", "ended"}, Advances, UNCHANGED pipeVars,
           mode = "open" /\ half => at' <= Len(received)
    PROVE  IInv'
<1>1. /\ TypeInv /\ OrderInv /\ OutputInv /\ LimitInv /\ VoiceInv /\ DeliveryInv
      /\ mode' = mode /\ emitted' = emitted /\ remembered' = remembered /\ outputs' = outputs
  BY DEF IInv, pipeVars
<1>2. /\ pending = <<>> /\ received' = received /\ half' = half
      /\ at \in Nat /\ at' \in Nat /\ 1 <= at /\ at <= at' /\ at' <= Len(received) + 1
      /\ isFirst' \in BOOLEAN
      /\ pending' \in Seq(SentenceType)
      /\ Ordered(pending', at, at')
      /\ Len(received) \in Nat /\ received \in Seq(TokenKinds)
  BY <1>1 DEF Advances, TypeInv
<1>3. /\ Thinking' = Thinking
      /\ \A p : Kind(p)' = Kind(p)
      /\ \A p : BeforeAbbreviation(p) => BeforeAbbreviation(p)'
      /\ \A p : BeforeTag(p) => BeforeTag(p)'
  BY <1>2, Unmoved
<1>4. \A p \in 0 .. Len(received) : Thinking[p] \in Nat
  BY <1>2, ThinkingIs
<1>5. depth \in Nat /\ depth <= at - 1 /\ depth = Thinking[at - 1]
  BY <1>1, <1>2 DEF TypeInv, VoiceInv
\* Where the buffer begins, and what the new sentences say of their positions.
<1>6. /\ depth' \in 0 .. at' - 1 /\ depth' = Thinking[at' - 1]
      /\ \A i \in DOMAIN pending' : \A p \in Interval(pending'[i]) :
            /\ pending'[i].tags \in {"start", "end", "self"} => Kind(p) \in Tags
            /\ pending'[i].tags = "none" => Thinking[p] = 0
            /\ pending'[i].tags = "inside" => Thinking[p] > 0
  <2>1. ASSUME NEW i \in DOMAIN pending', NEW p \in Interval(pending'[i])
        PROVE  p \in Nat /\ at <= p /\ p < at'
    <3>1. pending'[i] \in SentenceType
      BY <1>2
    <3>2. /\ pending'[i].from \in Nat /\ pending'[i].to \in Nat
          /\ at <= pending'[i].from /\ pending'[i].to < at'
      BY <1>2, <3>1, BoundAssumption DEF SentenceType, Positions, Ordered
    <3>3. p \in pending'[i].from .. pending'[i].to
      BY DEF Interval
    <3> QED
      BY <1>2, <3>2, <3>3
  <2>2. CASE /\ at' = at + 1 /\ Kind(at) \in Tags
             /\ depth' = Deeper(Kind(at), {"think"}, "/think", depth)
             /\ \A i \in DOMAIN pending' : pending'[i].tags \in {"start", "end", "self"}
    <3>1. at \in 1 .. Len(received) /\ at' - 1 = at
      BY <1>2, <2>2
    <3>2. Thinking[at] = Deeper(Kind(at), {"think"}, "/think", Thinking[at - 1])
      BY <1>2, <3>1, ThinkingIs
    <3>3. depth' = Thinking[at' - 1]
      BY <1>5, <2>2, <3>1, <3>2
    <3>4. depth' \in Nat /\ depth' <= at' - 1
      BY SMTT(30), <1>2, <1>5, <2>2, <3>1 DEF Deeper
    <3>5. ASSUME NEW i \in DOMAIN pending', NEW p \in Interval(pending'[i])
          PROVE  Kind(p) \in Tags
      <4>1. p = at
        BY <1>2, <2>1, <2>2
      <4> QED
        BY <2>2, <4>1
    <3>6. depth' \in 0 .. at' - 1
      BY <1>2, <3>4, Previous
    <3> QED
      BY <2>2, <3>3, <3>5, <3>6
  <2>3. CASE /\ \A p \in Nat : at <= p /\ p < at' => Kind(p) \notin Tags
             /\ depth' = depth
             /\ \A i \in DOMAIN pending' : pending'[i].tags = CurrentTags
    <3>1. ASSUME NEW q \in Nat, at - 1 <= q, q < at' PROVE Thinking[q] = depth
      <4>1. at - 1 \in 0 .. Len(received) /\ q \in at - 1 .. Len(received)
        BY <1>2, <3>1
      <4>2. \A p \in (at - 1) + 1 .. q : p \in Nat /\ at <= p /\ p < at'
        BY <1>2, <3>1
      <4>3. \A p \in (at - 1) + 1 .. q : Kind(p) \notin Tags
        BY <2>3, <4>2
      <4>4. Thinking[q] = Thinking[at - 1]
        BY <1>2, <4>1, <4>3, ThinkingIs
      <4> QED
        BY <1>5, <4>4
    <3>2. at' - 1 \in Nat /\ at - 1 <= at' - 1 /\ at' - 1 < at' /\ at - 1 \in Nat
      BY <1>2, Previous
    <3>3. depth' = Thinking[at' - 1] /\ depth' \in 0 .. at' - 1
      BY <1>2, <1>5, <2>3, <3>1, <3>2
    <3>4. ASSUME NEW i \in DOMAIN pending', NEW p \in Interval(pending'[i])
          PROVE  Thinking[p] = depth
      <4>1. p \in Nat /\ at - 1 <= p /\ p < at'
        BY <1>2, <2>1
      <4> QED
        BY <3>1, <4>1
    <3> QED
      BY <1>5, <2>3, <3>3, <3>4 DEF CurrentTags
  <2> QED
    BY <2>2, <2>3 DEF Advances
<1>7. TypeInv'
  <2>1. at' \in 1 .. Len(received)' + 1
    BY <1>2
  <2>2. mode' = "open" /\ half' => at' <= Len(received)'
    BY <1>1, <1>2
  <2> QED
    BY <1>1, <1>2, <1>6, <2>1, <2>2 DEF TypeInv
<1>8. OrderInv'
  <2>1. \A i \in DOMAIN outputs :
           /\ outputs[i] \in OutputType
           /\ 1 <= outputs[i].from /\ outputs[i].from <= outputs[i].to /\ outputs[i].to < at
    BY <1>1 DEF TypeInv, OrderInv, Ordered
  <2>2. \A i \in DOMAIN outputs : outputs[i].to \in Nat
    BY <2>1, EndsAre
  <2>3. \A j \in DOMAIN pending' :
           /\ pending'[j] \in SentenceType
           /\ at <= pending'[j].from /\ pending'[j].from <= pending'[j].to
           /\ pending'[j].to < at'
    BY <1>2 DEF Ordered
  <2>4. \A j \in DOMAIN pending' : pending'[j].from \in Nat
    BY <2>3, BoundAssumption DEF SentenceType, Positions
  <2>5. \A i \in DOMAIN outputs : outputs[i].to < at'
    BY <1>2, <2>1, <2>2
  <2>6. Ordered(outputs, 1, at)
    BY <1>1 DEF OrderInv
  <2>7. Ordered(outputs, 1, at')
    BY <2>5, <2>6 DEF Ordered
  <2>8. \A j \in DOMAIN pending' : 1 <= pending'[j].from
    BY <1>2, <2>3, <2>4
  <2>9. Ordered(pending', 1, at')
    BY <1>2, <2>8 DEF Ordered
  <2>10. \A i \in DOMAIN outputs, j \in DOMAIN pending' : outputs[i].to < pending'[j].from
    BY <1>2, <2>1, <2>2, <2>3, <2>4
  <2> QED
    BY <1>1, <2>7, <2>9, <2>10 DEF OrderInv
<1>9. OutputInv'
  BY <1>1 DEF OutputInv, Interval
<1>10. LimitInv'
  <2>1. Shown' = Shown
    BY <1>1 DEF Shown, Delivered, Interval
  <2> QED
    BY <1>1, <1>2, <2>1 DEF LimitInv
<1>11. VoiceInv'
  <2>1. \A i \in DOMAIN outputs : Tagged(outputs[i]) /\ Voiced(outputs[i])
    BY <1>1 DEF VoiceInv
  <2>2. \A i \in DOMAIN outputs' : Tagged(outputs[i])'
    BY <1>1, <1>3, <2>1 DEF Tagged, Interval
  <2>3. \A i \in DOMAIN outputs' : Voiced(outputs[i])'
    BY <1>1, <1>3, <2>1 DEF Voiced, Interval, Of
  <2>4. \A i \in DOMAIN pending' : Tagged(pending[i])'
    BY <1>3, <1>6 DEF Tagged, Interval
  <2>5. depth' = Thinking'[at' - 1]
    BY <1>3, <1>6
  <2> QED
    BY <2>2, <2>3, <2>4, <2>5 DEF VoiceInv
<1>12. DeliveryInv'
  <2>1. ASSUME NEW p, p \in 1 .. at' - 1 PROVE Accounted(p)'
    <3>1. p \in Nat /\ (p \in 1 .. at - 1 \/ (at <= p /\ p < at'))
      BY <1>2, <2>1, Before
    <3>2. CASE p \in 1 .. at - 1
      <4>1. Waiting = {} /\ mode # "cut"
        BY <1>2 DEF Waiting
      <4>2. p \in Delivered \/ BeforeAbbreviation(p) \/ BeforeTag(p)
        BY <1>1, <3>2, <4>1 DEF DeliveryInv, Accounted
      <4>3. p \in Delivered => p \in Delivered'
        BY <1>1 DEF Delivered, Interval
      <4> QED
        BY <1>3, <4>2, <4>3 DEF Accounted
    <3>3. CASE at <= p /\ p < at'
      <4>1. \/ \E i \in DOMAIN pending' : p \in Interval(pending'[i])
            \/ BeforeAbbreviation(p)
            \/ BeforeTag(p)
        BY <3>1, <3>3 DEF Advances
      <4>2. (\E i \in DOMAIN pending' : p \in Interval(pending'[i])) => p \in Waiting'
        BY DEF Waiting, Interval
      <4> QED
        BY <1>3, <4>1, <4>2 DEF Accounted
    <3> QED
      BY <3>1, <3>2, <3>3
  <2>2. mode' \notin {"done", "spoken"}
    BY <1>1
  <2> QED
    BY <2>1, <2>2 DEF DeliveryInv
<1>13. SpeakingInv'
  BY <1>1 DEF SpeakingInv
<1> QED
  BY <1>7, <1>8, <1>9, <1>10, <1>11, <1>12, <1>13 DEF IInv

\* A chunk changes nothing of what has been taken from the buffer.
LEMMA ReceiveKeeps ==
    ASSUME IInv, Receive
    PROVE  IInv'
<1>1. /\ TypeInv /\ OrderInv /\ OutputInv /\ LimitInv /\ VoiceInv /\ DeliveryInv
      /\ mode = "open"
  BY DEF IInv, Receive
<1>2. /\ mode' = mode /\ emitted' = emitted /\ remembered' = remembered /\ outputs' = outputs
  BY DEF Receive, pipeVars
<1>3. PICK chunk \in BoundedSeq(TokenKinds, MaxChunk), h \in BOOLEAN :
         Len(received) + Len(chunk) <= MaxTokens /\ AddChunk(chunk, h)
  BY DEF Receive
<1>4. chunk \in Seq(TokenKinds)
  <2>1. PICK m \in 0 .. MaxChunk : chunk \in [1 .. m -> TokenKinds]
    BY DEF BoundedSeq, SeqOf
  <2>2. m \in Nat
    BY BoundAssumption
  <2> QED
    BY <2>1, <2>2, SeqDef
<1>5. /\ received' = received \o chunk /\ half' = h
      /\ UNCHANGED <<at, depth, isFirst, pending>>
      /\ Settled
  BY <1>3 DEF AddChunk
<1>6. Grows
  BY <1>1, <1>3, <1>4, Growth
<1>7. /\ Len(received) \in Nat /\ received' \in Seq(TokenKinds)
      /\ Len(received)' = Len(received) + Len(chunk) /\ Len(chunk) \in Nat
      /\ Len(received)' <= MaxTokens /\ pending = <<>>
      /\ at \in Nat /\ 1 <= at /\ at <= Len(received) + 1
  <2>1. received \in Seq(TokenKinds) /\ at \in 1 .. Len(received) + 1
    BY <1>1 DEF TypeInv
  <2>2. received' \in Seq(TokenKinds) /\ Len(received)' = Len(received) + Len(chunk)
    BY <1>4, <1>5, <2>1
  <2>3. Len(received) \in Nat /\ Len(chunk) \in Nat /\ pending = <<>>
    BY <1>4, <1>5, <2>1 DEF Settled
  <2> QED
    BY <1>3, <2>1, <2>2, <2>3
<1>8. TypeInv'
  <2>1. at' \in 1 .. Len(received)' + 1
    BY <1>5, <1>7
  <2>2. half' => at' <= Len(received)'
    <3>1. half => at <= Len(received)
      BY <1>1 DEF TypeInv
    <3>2. h => Len(chunk) > 0
      <4>1. h => chunk # <<>>
        BY <1>3 DEF AddChunk
      <4> QED
        BY <1>4, <4>1
    <3> QED
      BY <1>5, <1>7, <3>2
  <2>3. half' \in BOOLEAN
    BY <1>5
  <2> QED
    BY <1>1, <1>2, <1>5, <1>7, <2>1, <2>2, <2>3 DEF TypeInv
<1>9. OrderInv' /\ OutputInv'
  BY <1>1, <1>2, <1>5 DEF OrderInv, OutputInv, Ordered, Interval
<1>10. LimitInv'
  <2>1. Shown' = Shown
    BY <1>2 DEF Shown, Delivered, Interval
  <2> QED
    BY <1>1, <1>2, <2>1 DEF LimitInv
<1>11. ASSUME NEW i \in DOMAIN outputs
       PROVE  /\ outputs[i].from \in Nat /\ outputs[i].to \in Nat
              /\ 1 <= outputs[i].from
              /\ \A p \in Interval(outputs[i]) :
                    /\ p \in Nat /\ outputs[i].from <= p
                    /\ p \in 1 .. at - 1 /\ p \in 0 .. at - 1
                    /\ \A x \in outputs[i].from .. p : x \in 1 .. at - 1
  <2>1. outputs[i] \in OutputType
    BY <1>1 DEF TypeInv
  <2>2. /\ outputs[i].from \in Nat /\ outputs[i].to \in Nat
        /\ 1 <= outputs[i].from /\ outputs[i].to < at
    BY <1>1, <2>1, EndsAre DEF OrderInv, Ordered
  <2> QED
    BY <1>7, <2>2 DEF Interval
<1>12. VoiceInv'
  <2>1. \A i \in DOMAIN outputs : Tagged(outputs[i]) /\ Voiced(outputs[i])
    BY <1>1 DEF VoiceInv
  <2>2. \A p \in 1 .. at - 1 : Kind(p)' = Kind(p)
    BY <1>6 DEF Grows
  <2>3. \A p \in 0 .. at - 1 : Thinking'[p] = Thinking[p]
    BY <1>6, ThinkingStays
  <2>4. ASSUME NEW i \in DOMAIN outputs PROVE Tagged(outputs[i])'
    <3>1. \A p \in Interval(outputs[i]) :
             /\ outputs[i].tags \in {"start", "end", "self"} => Kind(p)' \in Tags
             /\ outputs[i].tags = "none" => Thinking'[p] = 0
             /\ outputs[i].tags = "inside" => Thinking'[p] > 0
      BY <1>11, <2>1, <2>2, <2>3 DEF Tagged
    <3> QED
      BY <1>2, <3>1 DEF Tagged, Interval
  <2>5. ASSUME NEW i \in DOMAIN outputs PROVE Voiced(outputs[i])'
    <3>1. outputs[i].tags # "none" => outputs[i].voiced = {}
      BY <2>1 DEF Voiced
    <3>2. ASSUME outputs[i].tags = "none", NEW p \in Interval(outputs[i]),
                 Kind(p)' # "emotion",
                 \A x \in outputs[i].from .. p : Kind(x)' \notin {"(", ")", "half"}
          PROVE  p \in outputs[i].voiced
      <4>1. Kind(p) # "emotion"
        BY <1>11, <2>2, <3>2
      <4>2. \A x \in outputs[i].from .. p : Kind(x) \notin {"(", ")", "half"}
        BY <1>11, <2>2, <3>2
      <4>3. Of({"(", ")", "half"}, outputs[i].from, p) = {}
        BY <4>2 DEF Of
      <4> QED
        BY <2>1, <3>2, <4>1, <4>3 DEF Voiced
    <3> QED
      BY <1>2, <3>1, <3>2 DEF Voiced, Interval, Of
  <2>6. depth' = Thinking'[at' - 1]
    <3>1. depth = Thinking[at - 1] /\ at - 1 \in 0 .. at - 1
      BY <1>1, <1>7 DEF VoiceInv
    <3> QED
      BY <1>5, <2>3, <3>1
  <2>7. DOMAIN pending' = {}
    BY <1>5, <1>7
  <2> QED
    BY <1>2, <2>4, <2>5, <2>6, <2>7 DEF VoiceInv
<1>13. DeliveryInv'
  <2>1. ASSUME NEW p \in 1 .. at - 1 PROVE Accounted(p)'
    <3>1. p \in Delivered \cup Waiting \/ BeforeAbbreviation(p) \/ BeforeTag(p)
      BY <1>1 DEF DeliveryInv, Accounted
    <3>2. p \in Delivered \cup Waiting => p \in Delivered' \cup Waiting'
      BY <1>2, <1>5 DEF Delivered, Waiting, Interval
    <3>3. /\ BeforeAbbreviation(p) => BeforeAbbreviation(p)'
          /\ BeforeTag(p) => BeforeTag(p)'
      BY <1>6, ReasonsStay
    <3> QED
      BY <3>1, <3>2, <3>3 DEF Accounted
  <2>2. mode' \notin {"done", "spoken"}
    BY <1>1, <1>2
  <2> QED
    BY <1>5, <2>1, <2>2 DEF DeliveryInv
<1>14. SpeakingInv'
  BY <1>1, <1>2 DEF SpeakingInv
<1> QED
  BY <1>8, <1>9, <1>10, <1>12, <1>13, <1>14 DEF IInv

\* The end of the stream and of the response change where the response is, and
\* nothing that was delivered.
LEMMA EndKeeps ==
    ASSUME IInv, StreamEnds \/ StreamFails \/ FlushEnds
    PROVE  IInv'
<1>1. /\ TypeInv /\ OrderInv /\ OutputInv /\ LimitInv /\ VoiceInv /\ DeliveryInv
  BY DEF IInv
<1>2. /\ UNCHANGED <<received, half, at, depth, isFirst, pending, emitted, outputs>>
      /\ \/ mode = "open" /\ mode' = "ended" /\ remembered' = (received # <<>>)
         \/ mode = "open" /\ mode' = "failed" /\ remembered' = remembered
         \/ /\ mode = "ended" /\ mode' = "done" /\ remembered' = remembered
            /\ at > Len(received)
  BY DEF StreamEnds, StreamFails, FlushEnds, dividerVars
<1>3. /\ Thinking' = Thinking
      /\ \A p : Kind(p)' = Kind(p)
      /\ \A p : BeforeAbbreviation(p) => BeforeAbbreviation(p)'
      /\ \A p : BeforeTag(p) => BeforeTag(p)'
  BY <1>2, Unmoved
<1>4. TypeInv'
  BY <1>1, <1>2 DEF TypeInv
<1>5. OrderInv' /\ OutputInv'
  BY <1>1, <1>2 DEF OrderInv, OutputInv, Ordered, Interval
<1>6. LimitInv'
  <2>1. Shown' = Shown
    BY <1>2 DEF Shown, Delivered, Interval
  <2> QED
    BY <1>1, <1>2, <2>1 DEF LimitInv
<1>7. VoiceInv'
  <2>1. /\ depth = Thinking[at - 1]
        /\ \A i \in DOMAIN pending : Tagged(pending[i])
        /\ \A i \in DOMAIN outputs : Tagged(outputs[i]) /\ Voiced(outputs[i])
    BY <1>1, <1>2 DEF VoiceInv
  <2>2. \A i \in DOMAIN outputs' : Tagged(outputs[i])'
    BY <1>2, <1>3, <2>1 DEF Tagged, Interval
  <2>3. \A i \in DOMAIN outputs' : Voiced(outputs[i])'
    BY <1>2, <1>3, <2>1 DEF Voiced, Interval, Of
  <2>4. \A i \in DOMAIN pending' : Tagged(pending[i])'
    BY <1>2, <1>3, <2>1 DEF Tagged, Interval
  <2>5. depth' = Thinking'[at' - 1]
    BY <1>2, <1>3, <2>1
  <2> QED
    BY <2>2, <2>3, <2>4, <2>5 DEF VoiceInv
<1>8. DeliveryInv'
  <2>1. ASSUME NEW p \in 1 .. at - 1 PROVE Accounted(p)'
    <3>1. p \in Delivered \cup Waiting \/ BeforeAbbreviation(p) \/ BeforeTag(p)
      BY <1>1, <1>2 DEF DeliveryInv, Accounted
    <3>2. p \in Delivered \cup Waiting => p \in Delivered' \cup Waiting'
      BY <1>2 DEF Delivered, Waiting, Interval
    <3> QED
      BY <1>3, <3>1, <3>2 DEF Accounted
  <2>2. mode' \in {"done", "spoken"} => at = Len(received) + 1
    <3>1. at \in 1 .. Len(received) + 1 /\ Len(received) \in Nat
      BY <1>1 DEF TypeInv
    <3>2. mode' \in {"done", "spoken"} => at > Len(received)
      BY <1>2
    <3> QED
      BY <3>1, <3>2
  <2> QED
    BY <1>2, <2>1, <2>2 DEF DeliveryInv
<1>9. SpeakingInv'
  BY <1>2 DEF SpeakingInv
<1> QED
  BY <1>4, <1>5, <1>6, <1>7, <1>8, <1>9 DEF IInv

\* Nothing has happened yet when a given text is spoken.
LEMMA SpeakTextKeeps ==
    ASSUME IInv, SpeakText
    PROVE  IInv'
<1>1. /\ TypeInv /\ OrderInv /\ LimitInv
      /\ mode = "open" /\ received = <<>> /\ mode' = "speaking"
      /\ UNCHANGED <<half, at, depth, isFirst, pending, emitted, remembered, outputs>>
  BY DEF IInv, SpeakText
<1>2. PICK text \in BoundedSeq(TokenKinds, MaxTokens) : text # <<>> /\ received' = text
  BY DEF SpeakText
<1>3. received' \in Seq(TokenKinds) /\ Len(received)' \in Nat /\ Len(received)' <= MaxTokens
  <2>1. PICK m \in 0 .. MaxTokens : text \in [1 .. m -> TokenKinds]
    BY DEF BoundedSeq, SeqOf
  <2>2. m \in Nat /\ m <= MaxTokens
    BY BoundAssumption
  <2>3. text \in Seq(TokenKinds) /\ Len(text) = m
    BY <2>1, <2>2, SeqDef
  <2> QED
    BY <1>2, <2>2, <2>3
<1>4. at = 1 /\ depth = 0 /\ half = FALSE
  <2>1. Len(received) = 0
    BY <1>1
  <2>2. at = 1
    BY <1>1, <2>1 DEF TypeInv
  <2>3. depth = 0 /\ (half => at <= 0) /\ half \in BOOLEAN
    BY <1>1, <2>1, <2>2 DEF TypeInv
  <2> QED
    BY <2>2, <2>3
<1>5. outputs = <<>>
  <2>1. outputs \in Seq(OutputType) /\ Ordered(outputs, 1, at)
    BY <1>1 DEF TypeInv, OrderInv
  <2>2. \A i \in DOMAIN outputs : FALSE
    <3> SUFFICES ASSUME NEW i \in DOMAIN outputs PROVE FALSE
      OBVIOUS
    <3>1. outputs[i].from \in Nat /\ outputs[i].to \in Nat
      BY <2>1, EndsAre
    <3> QED
      BY <1>4, <2>1, <3>1 DEF Ordered
  <2> QED
    BY <2>1, <2>2
<1>6. pending = <<>>
  <2>1. pending \in Seq(SentenceType) /\ Ordered(pending, 1, at)
    BY <1>1 DEF TypeInv, OrderInv
  <2>2. \A i \in DOMAIN pending : FALSE
    <3> SUFFICES ASSUME NEW i \in DOMAIN pending PROVE FALSE
      OBVIOUS
    <3>1. pending[i].from \in Nat /\ pending[i].to \in Nat
      BY <2>1, EndsAre
    <3> QED
      BY <1>4, <2>1, <3>1 DEF Ordered
  <2> QED
    BY <2>1, <2>2
<1>7. emitted = 0
  <2>1. Delivered = {}
    BY <1>5 DEF Delivered
  <2>2. Shown = 0
    BY <2>1, FS_EmptySet DEF Shown
  <2> QED
    BY <1>1, <2>2 DEF LimitInv
<1>8. TypeInv'
  <2>1. at' \in 1 .. Len(received)' + 1 /\ depth' \in 0 .. at' - 1
    BY <1>1, <1>3, <1>4
  <2> QED
    BY <1>1, <1>3, <2>1 DEF TypeInv
<1>9. OrderInv' /\ OutputInv'
  BY <1>1, <1>5, <1>6 DEF OrderInv, OutputInv, Ordered
<1>10. LimitInv'
  BY <1>1, <1>7, BoundAssumption DEF LimitInv
<1>11. VoiceInv' /\ DeliveryInv' /\ SpeakingInv'
  BY <1>1, <1>2, <1>4, <1>5, <1>6 DEF VoiceInv, DeliveryInv, SpeakingInv
<1> QED
  BY <1>8, <1>9, <1>10, <1>11 DEF IInv

\* One more sentence after the others.
LEMMA OrderedAppend ==
    ASSUME NEW T, \A s \in T : s.from \in Nat /\ s.to \in Nat,
           NEW said \in Seq(T), NEW x \in T, NEW first \in Nat, NEW next \in Nat,
           Ordered(said, first, next),
           \A i \in DOMAIN said : said[i].to < x.from,
           first <= x.from, x.from <= x.to, x.to < next
    PROVE  Ordered(Append(said, x), first, next)
<1> DEFINE all == Append(said, x)
           n == Len(said)
<1>1. /\ n \in Nat /\ DOMAIN all = 1 .. n + 1 /\ DOMAIN said = 1 .. n
      /\ \A i \in 1 .. n : all[i] = said[i]
      /\ all[n + 1] = x
  OBVIOUS
<1> HIDE DEF all, n
<1>2. ASSUME NEW i \in DOMAIN all
      PROVE  first <= all[i].from /\ all[i].from <= all[i].to /\ all[i].to < next
  <2>1. CASE i = n + 1
    BY <1>1, <2>1
  <2>2. CASE i # n + 1
    <3>1. i \in DOMAIN said /\ all[i] = said[i]
      BY <1>1, <2>2
    <3> QED
      BY <3>1 DEF Ordered
  <2> QED
    BY <2>1, <2>2
<1>3. ASSUME NEW i \in DOMAIN all, NEW j \in DOMAIN all, i < j
      PROVE  all[i].to < all[j].from
  <2>1. i \in DOMAIN said /\ all[i] = said[i]
    BY <1>1, <1>3
  <2>2. CASE j = n + 1
    BY <1>1, <2>1, <2>2
  <2>3. CASE j # n + 1
    <3>1. j \in DOMAIN said /\ all[j] = said[j]
      BY <1>1, <2>3
    <3> QED
      BY <1>3, <2>1, <3>1 DEF Ordered
  <2> QED
    BY <2>2, <2>3
<1> QED
  BY <1>2, <1>3 DEF Ordered, all

\* A concatenation with nothing, or with one more.
LEMMA Concatenated ==
    ASSUME NEW T, NEW said \in Seq(T), NEW x \in T
    PROVE  said \o <<>> = said /\ said \o <<x>> = Append(said, x)
  BY ConcatEmptySeq, AppendIsConcat

\* What a given text is divided into: its sentences, and the rest of it.
LEMMA SaidIs ==
    ASSUME NEW n \in Nat, n = Len(received), 1 <= n, n <= MaxTokens,
           NEW cut \in Segmentations(1, n), NEW said,
           said = cut.sentences \o (IF cut.rest > n THEN <<>>
                                    ELSE <<Sentence(cut.rest, n, "none")>>)
    PROVE  /\ said \in Seq(SentenceType)
           /\ Ordered(said, 1, n + 1)
           /\ \A p \in 1 .. n :
                 \/ \E i \in DOMAIN said : p \in Interval(said[i])
                 \/ BeforeAbbreviation(p)
<1>1. Divided(cut, 1, n)
  BY SegmentationsAre
<1>2. /\ cut.rest \in 1 .. n + 1
      /\ Ordered(cut.sentences, 1, cut.rest)
      /\ \A p \in 1 .. cut.rest - 1 :
            \/ \E i \in DOMAIN cut.sentences : p \in Interval(cut.sentences[i])
            \/ BeforeAbbreviation(p)
  BY <1>1 DEF Divided
<1>3. cut.sentences \in Seq(SentenceType) /\ Ordered(cut.sentences, 1, n + 1)
  <2>1. cut.rest <= n + 1 /\ n + 1 \in Nat
    BY <1>2
  <2> QED
    BY <1>1, <2>1, DividedSentences
<1>4. CASE cut.rest > n
  <2>1. said = cut.sentences
    <3>1. said = cut.sentences \o <<>>
      BY <1>4
    <3> QED
      BY <1>3, <3>1, ConcatEmptySeq
  <2>2. \A p \in 1 .. n : p \in 1 .. cut.rest - 1
    BY <1>2, <1>4
  <2> QED
    BY <1>2, <1>3, <2>1, <2>2
<1>5. CASE ~(cut.rest > n)
  <2> DEFINE x == Sentence(cut.rest, n, "none")
  <2>1. x = [from |-> cut.rest, to |-> n, tags |-> "none"]
    BY DEF Sentence
  <2>2. /\ cut.rest \in Nat /\ 1 <= cut.rest /\ cut.rest <= n /\ n < n + 1 /\ n + 1 \in Nat
        /\ 1 \in Nat
    BY <1>2, <1>5
  <2>3. x \in SentenceType /\ x.from = cut.rest /\ x.to = n
    BY <2>1, <2>2, BoundAssumption DEF SentenceType, SentenceTags, Positions
  <2>4. said = cut.sentences \o <<x>>
    BY <1>5
  <2> HIDE DEF x
  <2>5. said = Append(cut.sentences, x)
    BY <1>3, <2>3, <2>4, Concatenated
  <2>6. \A i \in DOMAIN cut.sentences : cut.sentences[i].to < x.from
    BY <1>2, <2>3 DEF Ordered
  <2>7. 1 <= x.from /\ x.from <= x.to /\ x.to < n + 1
    BY <2>2, <2>3
  <2>8. \A s \in SentenceType : s.from \in Nat /\ s.to \in Nat
    BY EndsAre
  <2>9. Ordered(said, 1, n + 1)
    BY <1>3, <2>2, <2>3, <2>5, <2>6, <2>7, <2>8, OrderedAppend
  <2>10. /\ said \in Seq(SentenceType)
         /\ \A i \in DOMAIN cut.sentences : i \in DOMAIN said /\ said[i] = cut.sentences[i]
         /\ \E i \in DOMAIN said : said[i] = x
    <3> DEFINE a == cut.sentences
    <3>1. a \in Seq(SentenceType)
      BY <1>3
    <3> HIDE DEF a
    <3>2. /\ Append(a, x) \in Seq(SentenceType)
          /\ \A i \in DOMAIN a : i \in DOMAIN Append(a, x) /\ Append(a, x)[i] = a[i]
          /\ Len(a) + 1 \in DOMAIN Append(a, x) /\ Append(a, x)[Len(a) + 1] = x
      BY <2>3, <3>1
    <3> QED
      BY <2>5, <3>2 DEF a
  <2>11. ASSUME NEW p \in 1 .. n
         PROVE  \/ \E i \in DOMAIN said : p \in Interval(said[i])
                \/ BeforeAbbreviation(p)
    <3>1. CASE p \in 1 .. cut.rest - 1
      BY <1>2, <2>10, <3>1
    <3>2. CASE p \notin 1 .. cut.rest - 1
      <4>1. p \in cut.rest .. n
        BY <2>2, <3>2
      <4>2. p \in Interval(x)
        BY <2>3, <4>1 DEF Interval
      <4> QED
        BY <2>10, <4>2
    <3> QED
      BY <3>1, <3>2
  <2> QED
    BY <2>9, <2>10, <2>11
<1> QED
  BY <1>4, <1>5

LEMMA SpeakSentencesKeeps ==
    ASSUME IInv, SpeakSentences
    PROVE  IInv'
<1>1. /\ TypeInv /\ LimitInv /\ mode = "speaking" /\ mode' = "spoken"
      /\ received # <<>> /\ half = FALSE /\ at = 1 /\ depth = 0 /\ pending = <<>>
      /\ UNCHANGED <<received, half, depth, isFirst, pending, emitted, remembered>>
      /\ at' = Len(received) + 1
  BY DEF IInv, SpeakingInv, SpeakSentences
<1> DEFINE n == Len(received)
<1>2. n \in Nat /\ 1 <= n /\ n <= MaxTokens /\ received \in Seq(TokenKinds)
  <2>1. received \in Seq(TokenKinds) /\ n <= MaxTokens
    BY <1>1 DEF TypeInv
  <2> QED
    BY <1>1, <2>1
<1>3. PICK cut \in Segmentations(1, n) :
         LET remaining == IF cut.rest > n THEN <<>> ELSE <<Sentence(cut.rest, n, "none")>>
             said == cut.sentences \o remaining
         IN  outputs' = [i \in 1 .. Len(said) |-> Spoken(said[i])]
  BY DEF SpeakSentences
<1> DEFINE said == cut.sentences \o (IF cut.rest > n THEN <<>>
                                     ELSE <<Sentence(cut.rest, n, "none")>>)
<1>4. outputs' = [i \in 1 .. Len(said) |-> Spoken(said[i])]
  BY <1>3
<1>5. /\ said \in Seq(SentenceType)
      /\ Ordered(said, 1, n + 1)
      /\ \A p \in 1 .. n :
            \/ \E i \in DOMAIN said : p \in Interval(said[i])
            \/ BeforeAbbreviation(p)
  BY <1>2, SaidIs
<1>6. at' = n + 1
  BY <1>1
<1> HIDE DEF said
<1>7. /\ DOMAIN outputs' = DOMAIN said /\ DOMAIN said = 1 .. Len(said) /\ Len(said) \in Nat
      /\ \A i \in DOMAIN said : outputs'[i] = Spoken(said[i])
  BY <1>4, <1>5
<1>8. ASSUME NEW i \in DOMAIN said
      PROVE  /\ Spoken(said[i]) \in OutputType
             /\ Spoken(said[i]).from = said[i].from /\ Spoken(said[i]).to = said[i].to
             /\ Spoken(said[i]).voiced \cup Spoken(said[i]).actions
                   \cup Spoken(said[i]).display.text \subseteq Interval(said[i])
  <2>1. said[i] \in SentenceType
    BY <1>5
  <2>2. said[i].from \in Positions /\ said[i].to \in Positions
    BY <2>1 DEF SentenceType
  <2>3. Interval(said[i]) \subseteq Positions
    BY <2>2, BoundAssumption DEF Interval, Positions
  <2> HIDE DEF n
  <2>4. Spoken(said[i]) \in OutputType
    BY <2>2, <2>3 DEF Spoken, OutputType, SentenceTags
  <2>5. /\ Spoken(said[i]).from = said[i].from /\ Spoken(said[i]).to = said[i].to
        /\ Spoken(said[i]).voiced = Interval(said[i]) /\ Spoken(said[i]).actions = {}
        /\ Spoken(said[i]).display.text = Interval(said[i])
    BY DEF Spoken
  <2> QED
    BY <2>4, <2>5
<1>9. TypeInv'
  <2>1. outputs' \in Seq(OutputType)
    <3>1. outputs' \in [1 .. Len(said) -> OutputType]
      BY <1>4, <1>7, <1>8
    <3> QED
      BY <1>7, <3>1, SeqDef
  <2>2. at' \in 1 .. Len(received)' + 1 /\ depth' \in 0 .. at' - 1
    BY <1>1, <1>2
  <2> QED
    BY <1>1, <2>1, <2>2 DEF TypeInv
<1>10. OrderInv'
  <2>1. Ordered(outputs', 1, at')
    BY <1>5, <1>6, <1>7, <1>8 DEF Ordered
  <2> QED
    BY <1>1, <2>1 DEF OrderInv, Ordered
<1>11. OutputInv'
  BY <1>7, <1>8 DEF OutputInv, Interval
<1>12. LimitInv'
  BY <1>1 DEF LimitInv
<1>13. VoiceInv' /\ SpeakingInv'
  BY <1>1 DEF VoiceInv, SpeakingInv
<1>14. DeliveryInv'
  <2>1. ASSUME NEW p \in 1 .. n PROVE Accounted(p)'
    <3>1. \/ \E i \in DOMAIN said : p \in Interval(said[i])
          \/ BeforeAbbreviation(p)
      BY <1>5
    <3>2. BeforeAbbreviation(p) => BeforeAbbreviation(p)'
      BY <1>1, Unmoved
    <3>3. ASSUME NEW i \in DOMAIN said, p \in Interval(said[i]) PROVE p \in Delivered'
      <4>1. p \in outputs'[i].from .. outputs'[i].to
        BY <1>7, <1>8, <3>3 DEF Interval
      <4> QED
        BY <1>7, <4>1 DEF Delivered, Interval
    <3> QED
      BY <3>1, <3>2, <3>3 DEF Accounted
  <2>2. \A p : p \in 1 .. at' - 1 => p \in 1 .. n
    BY <1>2, <1>6
  <2>3. at' = Len(received)' + 1
    BY <1>1
  <2> QED
    BY <2>1, <2>2, <2>3 DEF DeliveryInv
<1> QED
  BY <1>9, <1>10, <1>11, <1>12, <1>13, <1>14 DEF IInv

\* A position with no parenthesis before it in its sentence is outside them.
LEMMA OutsideIs ==
    ASSUME NEW first \in Nat \ {0}, NEW last \in Nat, NEW p \in first .. last,
           Len(received) \in Nat, last <= Len(received),
           \A x \in first .. p : Kind(x) \notin {"(", ")", "half"}
    PROVE  p \in OutsideParentheses(first, last)
<1>1. \A x \in first .. p : x \in 1 .. Len(received)
  OBVIOUS
<1>2. \A x \in first .. p : Text[x] \notin {"(", "half"} /\ Text[x] # ")"
  BY <1>1 DEF Text
<1>3. Nesting(Text, {"(", "half"}, ")", first, last)[p] = 0
  BY <1>2, NestingNone
<1>4. p \in first .. p
  OBVIOUS
<1> QED
  BY <1>3, <1>4 DEF OutsideParentheses

\* A sentence is displayed and voiced in part, and voiced as its tags demand.
LEMMA OutputIs ==
    ASSUME NEW s \in SentenceType, Len(received) \in Nat, 1 <= s.from, s.to <= Len(received)
    PROVE  /\ Output(s) \in OutputType
           /\ Output(s).from = s.from /\ Output(s).to = s.to /\ Output(s).tags = s.tags
           /\ Output(s).voiced \cup Output(s).actions \cup Output(s).display.text
                 \subseteq Interval(s)
           /\ Voiced(Output(s))
<1>1. /\ s.from \in Nat /\ s.to \in Nat /\ s.from \in Positions /\ s.to \in Positions
      /\ s.tags \in SentenceTags
  <2>1. s.from \in Positions /\ s.to \in Positions /\ s.tags \in SentenceTags
    BY DEF SentenceType
  <2> QED
    BY <2>1, EndsAre
<1>2. Interval(s) \subseteq Positions
  BY <1>1, BoundAssumption DEF Interval, Positions
<1>3. actions_extractor(s) \subseteq Interval(s)
  BY DEF actions_extractor, extract_emotion, Of, Interval
<1>4. /\ display_processor(s) \in [sign : {"(", ")", ""}, text : SUBSET Interval(s)]
      /\ display_processor(s).text \subseteq Interval(s)
  <2>1. CASE s.tags = "start"
    BY <2>1 DEF display_processor
  <2>2. CASE s.tags = "end"
    BY <2>2 DEF display_processor
  <2>3. CASE s.tags # "start" /\ s.tags # "end"
    BY <2>3 DEF display_processor
  <2> QED
    BY <2>1, <2>2, <2>3
<1>5. tts_filter(s) \subseteq Interval(s)
  BY <1>4 DEF tts_filter, filter_text
<1>6. Output(s) = [from |-> s.from, to |-> s.to, tags |-> s.tags,
                   actions |-> actions_extractor(s), display |-> display_processor(s),
                   voiced |-> tts_filter(s)]
  BY DEF Output
<1>7. Output(s) \in OutputType
  <2>1. display_processor(s) \in [sign : {"(", ")", ""}, text : SUBSET Positions]
    BY <1>2, <1>4
  <2>2. actions_extractor(s) \in SUBSET Positions /\ tts_filter(s) \in SUBSET Positions
    BY <1>2, <1>3, <1>5
  <2>3. \A d \in [sign : {"(", ")", ""}, text : SUBSET Positions] :
        \A a, v \in SUBSET Positions :
           [from |-> s.from, to |-> s.to, tags |-> s.tags, actions |-> a, display |-> d,
            voiced |-> v] \in OutputType
    BY <1>1 DEF OutputType
  <2> QED
    BY <1>6, <2>1, <2>2, <2>3
<1>8. /\ Output(s).from = s.from /\ Output(s).to = s.to /\ Output(s).tags = s.tags
      /\ Output(s).voiced = tts_filter(s) /\ Output(s).actions = actions_extractor(s)
      /\ Output(s).display = display_processor(s)
  BY <1>6
<1>9. s.tags # "none" => Output(s).voiced = {}
  BY <1>8 DEF tts_filter
<1>10. ASSUME s.tags = "none", NEW p \in Interval(s), Kind(p) # "emotion",
              Of({"(", ")", "half"}, s.from, p) = {}
       PROVE  p \in Output(s).voiced
  <2>1. p \in s.from .. s.to
    BY DEF Interval
  <2>2. \A x \in s.from .. p : Kind(x) \notin {"(", ")", "half"}
    BY <1>10 DEF Of
  <2>3. s.from \in Nat \ {0}
    BY <1>1
  <2>4. p \in OutsideParentheses(s.from, s.to)
    BY <1>1, <2>1, <2>2, <2>3, OutsideIs
  <2>5. p \in display_processor(s).text
    <3>1. p \notin actions_extractor(s)
      BY <1>10 DEF actions_extractor, extract_emotion, Of
    <3> QED
      BY <1>10, <3>1 DEF display_processor
  <2> QED
    BY <1>8, <1>10, <2>4, <2>5 DEF tts_filter, filter_text
<1>11. Voiced(Output(s))
  <2>1. Interval(Output(s)) = Interval(s)
    BY <1>8 DEF Interval
  <2> QED
    BY <1>8, <1>9, <1>10, <2>1 DEF Voiced
<1> QED
  BY <1>3, <1>4, <1>5, <1>7, <1>8, <1>11

\* The guard keeps a sentence, or what fits: the limit is then reached exactly.
LEMMA CutTextIs ==
    ASSUME NEW h \in SentenceType, h.from <= h.to, emitted \in Nat, emitted < MaxCharacters
    PROVE  LET s == CutText(h)
           IN  /\ s \in SentenceType /\ s.from = h.from /\ s.tags = h.tags
               /\ s.from <= s.to /\ s.to <= h.to
               /\ emitted + (s.to - s.from + 1) \in Nat
               /\ emitted + (s.to - s.from + 1) <= MaxCharacters
               /\ s = h \/ emitted + (s.to - s.from + 1) = MaxCharacters
<1> DEFINE room == h.from + (MaxCharacters - emitted) - 1
           last == Min({h.to, room})
           s == CutText(h)
<1>1. h.from \in Nat /\ h.to \in Nat
  BY EndsAre
<1>2. MaxCharacters \in Nat /\ room \in Nat /\ h.from <= room
  BY <1>1, BoundAssumption
<1>3. {h.to, room} \in SUBSET Nat /\ {h.to, room} # {}
  BY <1>1, <1>2
<1>4. /\ last = h.to \/ last = room
      /\ last <= h.to /\ last <= room
  <2> HIDE DEF room
  <2>1. Min({h.to, room}) \in {h.to, room} /\ \A x \in {h.to, room} : Min({h.to, room}) <= x
    BY ONLY <1>3, MinIs
  <2> QED
    BY <2>1
<1>5. s = [h EXCEPT !.to = last]
  BY DEF CutText
<1> HIDE DEF last
<1>6. last \in Nat /\ h.from <= last
  BY <1>1, <1>2, <1>4
<1>7. h = [from |-> h.from, to |-> h.to, tags |-> h.tags]
  BY DEF SentenceType
<1>8. s = [from |-> h.from, to |-> last, tags |-> h.tags]
  BY <1>5, <1>7
<1>9. s \in SentenceType
  <2>1. h.from \in Positions /\ h.to \in Positions /\ h.tags \in SentenceTags
    BY DEF SentenceType
  <2>2. last \in Positions
    BY <1>4, <1>6, <2>1, <1>1, BoundAssumption DEF Positions
  <2> QED
    BY <1>8, <2>1, <2>2 DEF SentenceType
<1>10. s.from = h.from /\ s.to = last /\ s.tags = h.tags
  BY <1>8
<1>11. /\ emitted + (last - h.from + 1) \in Nat
       /\ emitted + (last - h.from + 1) <= MaxCharacters
       /\ last = room => emitted + (last - h.from + 1) = MaxCharacters
  BY <1>1, <1>2, <1>4, <1>6
<1>12. last = h.to => s = h
  BY <1>7, <1>8
<1> QED
  BY <1>4, <1>6, <1>9, <1>10, <1>11, <1>12

\* What is delivered lies before the buffer, and no more than that.
LEMMA DeliveredIs ==
    ASSUME TypeInv, OrderInv
    PROVE  /\ Delivered \subseteq 1 .. at - 1
           /\ IsFiniteSet(Delivered) /\ Shown \in Nat /\ Shown <= at - 1
           /\ at - 1 <= MaxTokens
<1>1. /\ outputs \in Seq(OutputType) /\ at \in 1 .. Len(received) + 1
      /\ Len(received) \in Nat /\ Len(received) <= MaxTokens
  BY DEF TypeInv
<1>2. ASSUME NEW i \in DOMAIN outputs, NEW p \in Interval(outputs[i])
      PROVE  p \in 1 .. at - 1
  <2>1. outputs[i].from \in Nat /\ outputs[i].to \in Nat
    BY <1>1, EndsAre
  <2>2. 1 <= outputs[i].from /\ outputs[i].to < at
    BY DEF OrderInv, Ordered
  <2>3. p \in outputs[i].from .. outputs[i].to
    BY DEF Interval
  <2> QED
    BY <1>1, <2>1, <2>2, <2>3
<1>3. Delivered \subseteq 1 .. at - 1
  BY <1>2 DEF Delivered
<1>4. at - 1 \in Nat /\ at - 1 <= MaxTokens
  BY <1>1, BoundAssumption
<1>5. IsFiniteSet(1 .. at - 1) /\ Cardinality(1 .. at - 1) = at - 1
  BY <1>4, FS_Interval
<1>6. IsFiniteSet(Delivered) /\ Cardinality(Delivered) <= Cardinality(1 .. at - 1)
  BY <1>3, <1>5, FS_Subset
<1>7. Cardinality(Delivered) \in Nat
  BY <1>6, FS_CardinalityType
<1> QED
  BY <1>3, <1>4, <1>5, <1>6, <1>7 DEF Shown

\* The next sentence adds its length to what is shown.
LEMMA ShownGrows ==
    ASSUME NEW D, IsFiniteSet(D), NEW a \in Nat, NEW b \in Nat, a <= b,
           \A p \in D : p \notin a .. b
    PROVE  Cardinality(D \cup (a .. b)) = Cardinality(D) + (b - a + 1)
<1>1. IsFiniteSet(a .. b) /\ Cardinality(a .. b) = b - a + 1
  BY FS_Interval
<1>2. D \cap (a .. b) = {}
  OBVIOUS
<1>3. Cardinality(D \cap (a .. b)) = 0
  BY <1>2, FS_EmptySet
<1>4. Cardinality(D \cup (a .. b))
         = Cardinality(D) + Cardinality(a .. b) - Cardinality(D \cap (a .. b))
  BY <1>1, FS_Union
<1>5. Cardinality(D) \in Nat
  BY FS_CardinalityType
<1> QED
  BY <1>1, <1>3, <1>4, <1>5

\* A sequence with one more member, and one without its first.
LEMMA AppendIs ==
    ASSUME NEW T, NEW all \in Seq(T), NEW x \in T
    PROVE  /\ Append(all, x) \in Seq(T)
           /\ \A i \in DOMAIN all : i \in DOMAIN Append(all, x) /\ Append(all, x)[i] = all[i]
           /\ \A i \in DOMAIN Append(all, x) :
                 \/ i \in DOMAIN all /\ Append(all, x)[i] = all[i]
                 \/ Append(all, x)[i] = x
           /\ \E i \in DOMAIN Append(all, x) : Append(all, x)[i] = x
<1> DEFINE n == Len(all)
<1>1. /\ n \in Nat /\ DOMAIN Append(all, x) = 1 .. n + 1 /\ DOMAIN all = 1 .. n
      /\ \A i \in 1 .. n : Append(all, x)[i] = all[i]
      /\ Append(all, x)[n + 1] = x
      /\ Append(all, x) \in Seq(T)
  OBVIOUS
<1> HIDE DEF n
<1>2. /\ n + 1 \in 1 .. n + 1
      /\ \A i \in 1 .. n + 1 : i \in 1 .. n \/ i = n + 1
      /\ \A i \in 1 .. n : i \in 1 .. n + 1
  BY <1>1
<1> QED
  BY <1>1, <1>2

LEMMA TailIs ==
    ASSUME NEW T, NEW all \in Seq(T), all # <<>>
    PROVE  /\ 1 \in DOMAIN all /\ Head(all) = all[1] /\ Head(all) \in T
           /\ Tail(all) \in Seq(T)
           /\ \A i \in DOMAIN Tail(all) :
                 i + 1 \in DOMAIN all /\ 1 < i + 1 /\ Tail(all)[i] = all[i + 1]
           /\ \A i, j \in DOMAIN Tail(all) : i < j => i + 1 < j + 1
           /\ \A i \in DOMAIN all :
                 i = 1 \/ \E j \in DOMAIN Tail(all) : Tail(all)[j] = all[i]
<1> DEFINE n == Len(all)
<1>1. /\ n \in Nat /\ n >= 1 /\ DOMAIN all = 1 .. n
      /\ Tail(all) \in Seq(T) /\ DOMAIN Tail(all) = 1 .. n - 1
      /\ \A i \in 1 .. n - 1 : Tail(all)[i] = all[i + 1]
      /\ Head(all) = all[1]
  OBVIOUS
<1> HIDE DEF n
<1>2. /\ 1 \in 1 .. n
      /\ \A i \in 1 .. n - 1 : i + 1 \in 1 .. n /\ 1 < i + 1
      /\ \A i, j \in 1 .. n - 1 : i < j => i + 1 < j + 1
  BY <1>1
<1>3. ASSUME NEW i \in 1 .. n, i # 1
      PROVE  \E j \in 1 .. n - 1 : Tail(all)[j] = all[i]
  <2>1. i - 1 \in 1 .. n - 1 /\ (i - 1) + 1 = i
    BY <1>1, <1>3
  <2>2. Tail(all)[i - 1] = all[(i - 1) + 1]
    BY <1>1, <2>1
  <2> QED
    BY <2>1, <2>2
<1>4. Head(all) \in T
  BY <1>1, <1>2
<1> QED
  BY <1>1, <1>2, <1>3, <1>4

\* What Emit does: the next sentence, or what fits of it, is delivered, and the rest of
\* the sentences waits, unless the limit is reached.
Emits(s) ==
    /\ s \in SentenceType /\ s.from <= s.to /\ s.to <= pending[1].to
    /\ s.from = pending[1].from /\ s.tags = pending[1].tags
    /\ outputs' = Append(outputs, Output(s))
    /\ emitted' \in Nat /\ emitted' = emitted + (s.to - s.from + 1)
    /\ emitted' <= MaxCharacters
    /\ \/ emitted' = MaxCharacters /\ mode' = "cut" /\ pending' = <<>>
       \/ /\ emitted' < MaxCharacters /\ mode' = mode /\ pending' = Tail(pending)
          /\ s = pending[1]
    /\ mode \in {"open", "ended"} /\ pending # <<>>
    /\ UNCHANGED <<received, half, at, depth, isFirst, remembered>>

LEMMA EmitIs ==
    ASSUME IInv, Emit
    PROVE  \E s : Emits(s)
<1> DEFINE h == Head(pending)
           s == CutText(h)
<1>1. /\ TypeInv /\ OrderInv /\ LimitInv
      /\ mode \in {"open", "ended"} /\ pending # <<>>
      /\ emitted' = emitted + (s.to - s.from + 1)
      /\ outputs' = Append(outputs, Output(s))
      /\ IF emitted' >= MaxCharacters THEN mode' = "cut" /\ pending' = <<>>
         ELSE mode' = mode /\ pending' = Tail(pending)
      /\ UNCHANGED <<received, half, at, depth, isFirst, remembered>>
  BY DEF IInv, Emit
<1>2. pending \in Seq(SentenceType)
  BY <1>1 DEF TypeInv
<1>3. h = pending[1] /\ 1 \in DOMAIN pending /\ h \in SentenceType
  BY <1>1, <1>2, TailIs
<1>4. h.from <= h.to
  BY <1>1, <1>3 DEF OrderInv, Ordered
<1>5. emitted \in Nat /\ emitted < MaxCharacters
  BY <1>1, DeliveredIs DEF LimitInv
<1> HIDE DEF h
<1>6. /\ s \in SentenceType /\ s.from = h.from /\ s.tags = h.tags
      /\ s.from <= s.to /\ s.to <= h.to
      /\ emitted + (s.to - s.from + 1) \in Nat
      /\ emitted + (s.to - s.from + 1) <= MaxCharacters
      /\ s = h \/ emitted + (s.to - s.from + 1) = MaxCharacters
  BY <1>3, <1>4, <1>5, CutTextIs
<1> HIDE DEF s
<1>7. \/ emitted' = MaxCharacters /\ mode' = "cut" /\ pending' = <<>>
      \/ /\ emitted' < MaxCharacters /\ mode' = mode /\ pending' = Tail(pending)
         /\ s = h
  <2>1. emitted' \in Nat /\ emitted' <= MaxCharacters /\ MaxCharacters \in Nat
    BY <1>1, <1>6, BoundAssumption
  <2>2. CASE emitted' >= MaxCharacters
    <3>1. emitted' = MaxCharacters
      BY <2>1, <2>2
    <3>2. mode' = "cut" /\ pending' = <<>>
      BY <1>1, <2>2
    <3> QED
      BY <3>1, <3>2
  <2>3. CASE ~(emitted' >= MaxCharacters)
    <3>1. emitted' < MaxCharacters /\ emitted' # MaxCharacters
      BY <2>1, <2>3
    <3>2. mode' = mode /\ pending' = Tail(pending)
      BY <1>1, <2>3
    <3>3. s = h
      BY <1>1, <1>6, <3>1
    <3> QED
      BY <3>1, <3>2, <3>3
  <2> QED
    BY <2>2, <2>3
<1>8. Emits(s)
  BY <1>1, <1>3, <1>6, <1>7 DEF Emits
<1> QED
  BY <1>8

LEMMA EmitKeeps ==
    ASSUME IInv, NEW s, Emits(s)
    PROVE  IInv'
<1> DEFINE out == Output(s)
<1>1. /\ TypeInv /\ OrderInv /\ OutputInv /\ LimitInv /\ VoiceInv /\ DeliveryInv
  BY DEF IInv
<1>2. /\ s \in SentenceType /\ s.from <= s.to /\ s.to <= pending[1].to
      /\ s.from = pending[1].from /\ s.tags = pending[1].tags
      /\ outputs' = Append(outputs, out)
      /\ emitted' = emitted + (s.to - s.from + 1)
      /\ mode \in {"open", "ended"}
      /\ UNCHANGED <<received, half, at, depth, isFirst, remembered>>
  BY DEF Emits
<1>3. /\ \/ emitted' = MaxCharacters /\ mode' = "cut" /\ pending' = <<>>
         \/ /\ emitted' < MaxCharacters /\ mode' = mode /\ pending' = Tail(pending)
            /\ s = pending[1]
      /\ emitted' \in Nat /\ emitted' <= MaxCharacters
  BY DEF Emits
<1>4. /\ outputs \in Seq(OutputType) /\ pending \in Seq(SentenceType) /\ pending # <<>>
      /\ at \in Nat /\ Len(received) \in Nat /\ at <= Len(received) + 1
      /\ received \in Seq(TokenKinds)
  <2>1. /\ outputs \in Seq(OutputType) /\ pending \in Seq(SentenceType) /\ pending # <<>>
        /\ received \in Seq(TokenKinds) /\ at \in 1 .. Len(received) + 1
    BY <1>1 DEF TypeInv, Emits
  <2> QED
    BY <2>1
<1>5. /\ 1 \in DOMAIN pending
      /\ Tail(pending) \in Seq(SentenceType)
      /\ \A i \in DOMAIN Tail(pending) :
            i + 1 \in DOMAIN pending /\ 1 < i + 1 /\ Tail(pending)[i] = pending[i + 1]
      /\ \A i, j \in DOMAIN Tail(pending) : i < j => i + 1 < j + 1
      /\ \A i \in DOMAIN pending :
            i = 1 \/ \E j \in DOMAIN Tail(pending) : Tail(pending)[j] = pending[i]
  BY <1>4, TailIs
<1>6. /\ s.from \in Nat /\ s.to \in Nat /\ pending[1].to \in Nat
      /\ 1 <= s.from /\ s.to < at /\ s.to <= Len(received)
  <2>1. s.from \in Nat /\ s.to \in Nat /\ pending[1].to \in Nat
    BY <1>2, <1>4, <1>5, EndsAre
  <2>2. 1 <= pending[1].from /\ pending[1].to < at
    BY <1>1, <1>5 DEF OrderInv, Ordered
  <2> QED
    BY <1>2, <1>4, <2>1, <2>2
<1>7. /\ out \in OutputType
      /\ out.from = s.from /\ out.to = s.to /\ out.tags = s.tags
      /\ out.voiced \cup out.actions \cup out.display.text \subseteq Interval(s)
      /\ Voiced(out)
  BY <1>2, <1>4, <1>6, OutputIs
<1> HIDE DEF out
<1>8. /\ outputs' \in Seq(OutputType)
      /\ \A i \in DOMAIN outputs : i \in DOMAIN outputs' /\ outputs'[i] = outputs[i]
      /\ \A i \in DOMAIN outputs' :
            (i \in DOMAIN outputs /\ outputs'[i] = outputs[i]) \/ outputs'[i] = out
      /\ \E i \in DOMAIN outputs' : outputs'[i] = out
  <2> DEFINE all == Append(outputs, out)
  <2>1. /\ all \in Seq(OutputType)
        /\ \A i \in DOMAIN outputs : i \in DOMAIN all /\ all[i] = outputs[i]
        /\ \A i \in DOMAIN all :
              (i \in DOMAIN outputs /\ all[i] = outputs[i]) \/ all[i] = out
        /\ \E i \in DOMAIN all : all[i] = out
    <3>1. outputs \in Seq(OutputType) /\ out \in OutputType
      BY <1>4, <1>7
    <3> QED
      BY ONLY <3>1, AppendIs
  <2>2. outputs' = all
    BY <1>2
  <2> HIDE DEF all
  <2> QED
    BY <2>1, <2>2
<1>9. Interval(out) = Interval(s)
  BY <1>7 DEF Interval
<1>10. /\ pending' \in Seq(SentenceType)
       /\ \A i \in DOMAIN pending' : \E j \in DOMAIN pending : 1 < j /\ pending'[i] = pending[j]
  <2>1. CASE pending' = <<>>
    BY <2>1, EmptySeq
  <2>2. CASE pending' = Tail(pending)
    BY <1>5, <2>2
  <2> QED
    BY <1>3, <2>1, <2>2
<1>11. TypeInv'
  <2>1. mode' \in {"open", "ended", "cut"} /\ (mode' = "open" => mode = "open")
    BY <1>2, <1>3
  <2> QED
    BY <1>1, <1>2, <1>8, <1>10, <2>1 DEF TypeInv
<1>12. OrderInv'
  <2>1. Ordered(outputs', 1, at')
    <3>1. \A i \in DOMAIN outputs : outputs[i].to < out.from
      BY <1>1, <1>2, <1>5, <1>7 DEF OrderInv
    <3>2. Ordered(outputs, 1, at)
      BY <1>1 DEF OrderInv
    <3>3. \A x \in OutputType : x.from \in Nat /\ x.to \in Nat
      BY EndsAre
    <3>4. 1 <= out.from /\ out.from <= out.to /\ out.to < at /\ 1 \in Nat
      BY <1>2, <1>6, <1>7
    <3>5. Ordered(Append(outputs, out), 1, at)
      BY <1>4, <1>7, <3>1, <3>2, <3>3, <3>4, OrderedAppend
    <3> QED
      BY <1>2, <3>5
  <2>2. Ordered(pending', 1, at')
    <3>1. CASE pending' = <<>>
      BY <3>1 DEF Ordered
    <3>2. CASE pending' = Tail(pending)
      BY <1>1, <1>2, <1>5, <3>2 DEF OrderInv, Ordered
    <3> QED
      BY <1>3, <3>1, <3>2
  <2>3. ASSUME NEW j \in DOMAIN pending, 1 < j
        PROVE  /\ s.to < pending[j].from
               /\ \A i \in DOMAIN outputs : outputs[i].to < pending[j].from
    <3>1. pending[1].to < pending[j].from
      BY <1>1, <1>5, <2>3 DEF OrderInv, Ordered
    <3>2. pending[j].from \in Nat
      BY <1>4, EndsAre
    <3>3. s.to < pending[j].from
      BY <1>2, <1>6, <3>1, <3>2
    <3> QED
      BY <1>1, <3>3 DEF OrderInv
  <2>4. \A i \in DOMAIN outputs', j \in DOMAIN pending' : outputs'[i].to < pending'[j].from
    BY <1>7, <1>8, <1>10, <2>3
  <2> QED
    BY <2>1, <2>2, <2>4 DEF OrderInv
<1>13. OutputInv'
  <2>1. \A i \in DOMAIN outputs' :
           outputs'[i].voiced \cup outputs'[i].actions \cup outputs'[i].display.text
              \subseteq Interval(outputs'[i])
    BY <1>1, <1>7, <1>8, <1>9 DEF OutputInv
  <2> QED
    BY <2>1 DEF OutputInv, Interval
\* Interval(s) is new.
<1>14. Delivered' = Delivered \cup Interval(s)
  <2>1. \A p : p \in Delivered' <=> \E i \in DOMAIN outputs' : p \in Interval(outputs'[i])
    BY DEF Delivered, Interval
  <2>2. \A p : p \in Delivered <=> \E i \in DOMAIN outputs : p \in Interval(outputs[i])
    BY DEF Delivered
  <2>3. \A p : p \in Delivered' <=> p \in Delivered \/ p \in Interval(s)
    BY <1>8, <1>9, <2>1, <2>2
  <2> QED
    BY <2>3
<1>15. LimitInv'
  <2>1. IsFiniteSet(Delivered) /\ Shown \in Nat
    BY <1>1, DeliveredIs
  <2>2. \A p \in Delivered : p \notin s.from .. s.to
    <3> SUFFICES ASSUME NEW p \in Delivered PROVE p \notin s.from .. s.to
      OBVIOUS
    <3>1. PICK i \in DOMAIN outputs : p \in Interval(outputs[i])
      BY DEF Delivered
    <3>2. p \in outputs[i].from .. outputs[i].to
      BY <3>1 DEF Interval
    <3>3. outputs[i].to < s.from
      BY <1>1, <1>2, <1>5 DEF OrderInv
    <3>4. outputs[i].to \in Nat /\ outputs[i].from \in Nat
      BY <1>4, EndsAre
    <3> QED
      BY <1>6, <3>2, <3>3, <3>4
  <2>3. Cardinality(Delivered \cup (s.from .. s.to)) = Cardinality(Delivered) + (s.to - s.from + 1)
    BY <1>2, <1>6, <2>1, <2>2, ShownGrows
  <2>4. Shown' = Shown + (s.to - s.from + 1)
    BY <1>14, <2>3 DEF Shown, Interval
  <2>5. emitted' = Shown'
    BY <1>1, <1>2, <2>4 DEF LimitInv
  <2>6. mode' \in {"open", "ended", "cut"} /\ (mode' = "ended" => mode = "ended")
    BY <1>2, <1>3
  <2>7. (mode' = "cut" => emitted' = MaxCharacters)
        /\ (mode' \in {"open", "ended"} => emitted' < MaxCharacters)
    BY <1>2, <1>3
  <2> QED
    BY <1>1, <1>2, <1>3, <2>5, <2>6, <2>7 DEF LimitInv
<1>16. VoiceInv'
  <2>1. /\ depth = Thinking[at - 1]
        /\ \A i \in DOMAIN pending : Tagged(pending[i])
        /\ \A i \in DOMAIN outputs : Tagged(outputs[i]) /\ Voiced(outputs[i])
    BY <1>1, <1>2 DEF VoiceInv
  <2>2. Thinking' = Thinking /\ \A p : Kind(p)' = Kind(p)
    BY <1>2, Unmoved
  <2>3. Tagged(out)
    <3>1. Tagged(pending[1])
      BY <1>5, <2>1
    <3>2. \A p \in Interval(out) : p \in Interval(pending[1])
      <4>1. \A p \in s.from .. s.to : p \in pending[1].from .. pending[1].to
        BY <1>2, <1>6
      <4> QED
        BY <1>9, <4>1 DEF Interval
    <3> QED
      BY <1>2, <1>7, <3>1, <3>2 DEF Tagged
  <2>4. \A i \in DOMAIN outputs' : Tagged(outputs'[i]) /\ Voiced(outputs'[i])
    BY <1>7, <1>8, <2>1, <2>3
  <2>5. \A i \in DOMAIN pending' : Tagged(pending'[i])
    BY <1>10, <2>1
  <2>6. \A i \in DOMAIN outputs' : Tagged(outputs[i])'
    BY <2>2, <2>4 DEF Tagged, Interval
  <2>7. \A i \in DOMAIN outputs' : Voiced(outputs[i])'
    BY <2>2, <2>4 DEF Voiced, Interval, Of
  <2>8. \A i \in DOMAIN pending' : Tagged(pending[i])'
    BY <2>2, <2>5 DEF Tagged, Interval
  <2>9. depth' = Thinking'[at' - 1]
    BY <1>2, <2>1, <2>2
  <2> QED
    BY <2>6, <2>7, <2>8, <2>9 DEF VoiceInv
<1>17. DeliveryInv'
  <2>1. ASSUME mode' # "cut", NEW p \in 1 .. at - 1 PROVE Accounted(p)'
    <3>1. pending' = Tail(pending) /\ s = pending[1]
      BY <1>3, <2>1
    <3>2. p \in Delivered \cup Waiting \/ BeforeAbbreviation(p) \/ BeforeTag(p)
      BY <1>1, <1>2 DEF DeliveryInv, Accounted
    <3>3. ASSUME p \in Waiting PROVE p \in Delivered' \cup Waiting'
      <4>1. PICK i \in DOMAIN pending : p \in Interval(pending[i])
        BY <3>3 DEF Waiting
      <4>2. CASE i = 1
        BY <1>14, <3>1, <4>1, <4>2
      <4>3. CASE i # 1
        <5>1. PICK j \in DOMAIN pending' : pending'[j] = pending[i]
          BY <1>5, <3>1, <4>3
        <5> QED
          BY <4>1, <5>1 DEF Waiting, Interval
      <4> QED
        BY <4>2, <4>3
    <3>4. /\ BeforeAbbreviation(p) => BeforeAbbreviation(p)'
          /\ BeforeTag(p) => BeforeTag(p)'
      BY <1>2, Unmoved
    <3>5. p \in Delivered => p \in Delivered'
      BY <1>14
    <3> QED
      BY <3>2, <3>3, <3>4, <3>5 DEF Accounted
  <2>2. mode' \notin {"done", "spoken"}
    BY <1>2, <1>3
  <2> QED
    BY <1>2, <2>1, <2>2 DEF DeliveryInv
<1>18. SpeakingInv'
  BY <1>2, <1>3 DEF SpeakingInv
<1> QED
  BY <1>11, <1>12, <1>13, <1>15, <1>16, <1>17, <1>18 DEF IInv

LEMMA StutterKeeps ==
    ASSUME IInv, UNCHANGED vars
    PROVE  IInv'
<1>1. UNCHANGED <<received, half, at, depth, isFirst, pending, mode, emitted, remembered, outputs>>
  BY DEF vars
<1>2. /\ Thinking' = Thinking
      /\ \A p : Kind(p)' = Kind(p)
      /\ \A p : BeforeAbbreviation(p) => BeforeAbbreviation(p)'
      /\ \A p : BeforeTag(p) => BeforeTag(p)'
  BY <1>1, Unmoved
<1>3. TypeInv' /\ OrderInv' /\ OutputInv' /\ SpeakingInv'
  BY <1>1 DEF IInv, TypeInv, OrderInv, OutputInv, SpeakingInv, Ordered, Interval
<1>4. LimitInv'
  BY <1>1 DEF IInv, LimitInv, Shown, Delivered, Interval
<1>5. VoiceInv'
  BY <1>1, <1>2 DEF IInv, VoiceInv, Tagged, Voiced, Interval, Of
<1>6. DeliveryInv'
  BY <1>1, <1>2 DEF IInv, DeliveryInv, Accounted, Delivered, Waiting, Interval
<1> QED
  BY <1>3, <1>4, <1>5, <1>6 DEF IInv

LEMMA NextKeeps ==
    ASSUME IInv, [Next]_vars
    PROVE  IInv'
<1>1. CASE Receive
  BY <1>1, ReceiveKeeps
<1>2. CASE DivideBuffer
  <2>1. mode \in {"open", "ended"} /\ Divide /\ UNCHANGED pipeVars /\ TypeInv
    BY <1>2 DEF DivideBuffer, IInv
  <2> QED
    BY <2>1, DivideAdvances, AdvanceKeeps
<1>3. CASE Emit
  BY <1>3, EmitIs, EmitKeeps
<1>4. CASE StreamEnds \/ StreamFails \/ FlushEnds
  BY <1>4, EndKeeps
<1>5. CASE Flush
  <2>1. mode = "ended" /\ FlushBuffer /\ UNCHANGED pipeVars /\ TypeInv
    BY <1>5 DEF Flush, IInv
  <2>2. Advances
    BY <2>1, TypedPosition, FlushAdvances
  <2> QED
    BY <2>1, <2>2, AdvanceKeeps
<1>6. CASE SpeakText
  BY <1>6, SpeakTextKeeps
<1>7. CASE SpeakSentences
  BY <1>7, SpeakSentencesKeeps
<1>8. CASE Done \/ UNCHANGED vars
  BY <1>8, StutterKeeps DEF Done
<1> QED
  BY <1>1, <1>2, <1>3, <1>4, <1>5, <1>6, <1>7, <1>8 DEF Next

------------------------------------------------------------------------------
(***************************************************************************)
(* The theorems.                                                           *)
(***************************************************************************)

\* The inductive invariant holds: what is delivered, what waits and what the buffer
\* holds are one after the other, however the stream is cut into chunks.
THEOREM Invariance == Spec => []IInv
<1>1. IInv /\ [Next]_vars => IInv'
  BY NextKeeps
<1> QED
  BY InitHolds, <1>1, PTL DEF Spec

\* The variables of the divider, the guard and the transformers have their types.
THEOREM TypeCorrect == Spec => []TypeOK
<1>1. IInv => TypeOK
  <2> SUFFICES ASSUME IInv PROVE TypeOK
    OBVIOUS
  <2>1. /\ TypeInv /\ OrderInv /\ OutputInv /\ LimitInv
    BY DEF IInv
  <2>2. Shown \in Nat /\ Shown <= at - 1 /\ at - 1 <= MaxTokens /\ at \in Nat
    BY <2>1, DeliveredIs DEF TypeInv
  <2>3. emitted \in 0 .. MaxTokens
    <3>1. emitted = 0 \/ emitted = Shown
      BY <2>1 DEF LimitInv
    <3> QED
      BY <2>2, <3>1, BoundAssumption
  <2>4. depth \in 0 .. MaxTokens
    <3>1. depth \in 0 .. at - 1
      BY <2>1 DEF TypeInv
    <3> QED
      BY <2>2, <3>1, BoundAssumption
  <2>5. \A i \in DOMAIN pending :
           pending[i] \in [from : Positions, to : Positions,
                           tags : {"start", "end", "self", "inside", "none"}]
    <3>1. pending \in Seq(SentenceType)
      BY <2>1 DEF TypeInv
    <3>2. \A i \in DOMAIN pending : pending[i] \in SentenceType
      BY <3>1
    <3> QED
      BY <3>2 DEF SentenceType, SentenceTags
  <2>6. ASSUME NEW i \in DOMAIN outputs
        PROVE  /\ outputs[i].from <= outputs[i].to
               /\ outputs[i].display \in
                     [sign : {"(", ")", ""}, text : SUBSET Interval(outputs[i])]
               /\ outputs[i].voiced \cup outputs[i].actions \subseteq Interval(outputs[i])
    <3>1. outputs[i] \in OutputType
      BY <2>1 DEF TypeInv
    <3>2. outputs[i].display \in [sign : {"(", ")", ""}, text : SUBSET Positions]
      BY <3>1 DEF OutputType
    <3>3. outputs[i].display.text \subseteq Interval(outputs[i])
      BY <2>1 DEF OutputInv
    <3>4. outputs[i].display \in
             [sign : {"(", ")", ""}, text : SUBSET Interval(outputs[i])]
      BY <3>2, <3>3
    <3> QED
      BY <2>1, <3>4 DEF OrderInv, OutputInv, Ordered
  <2> QED
    BY <2>1, <2>3, <2>4, <2>5, <2>6 DEF TypeOK, TypeInv
<1> QED
  BY Invariance, <1>1, PTL

\* What the model thinks is never voiced, and what it says is, unless a parenthesis
\* of the same sentence hides it: for every way to cut the stream.
THEOREM ThoughtsStaySilent == Spec => []SilentIffThinking
<1>1. IInv => SilentIffThinking
  <2> SUFFICES ASSUME IInv, mode # "spoken", NEW i \in DOMAIN outputs,
                      NEW p \in Interval(outputs[i]),
                      p \notin Of(Tags \cup {"emotion"}, 1, Len(received))
               PROVE  /\ p \in outputs[i].voiced => Thinking[p] = 0
                      /\ Thinking[p] = 0 /\ Of({"(", ")", "half"}, outputs[i].from, p) = {}
                            => p \in outputs[i].voiced
    BY DEF SilentIffThinking
  <2>1. /\ TypeInv /\ OrderInv /\ VoiceInv /\ SpeakingInv
    BY DEF IInv
  <2>2. mode # "speaking"
    <3>1. outputs # <<>>
      OBVIOUS
    <3> QED
      BY <2>1, <3>1 DEF SpeakingInv
  <2>3. Tagged(outputs[i]) /\ Voiced(outputs[i])
    BY <2>1, <2>2 DEF VoiceInv
  <2>4. p \in 1 .. Len(received)
    <3>1. outputs \in Seq(OutputType) /\ at \in 1 .. Len(received) + 1 /\ Len(received) \in Nat
      BY <2>1 DEF TypeInv
    <3>2. outputs[i].from \in Nat /\ outputs[i].to \in Nat
      BY <3>1, EndsAre
    <3>3. 1 <= outputs[i].from /\ outputs[i].to < at
      BY <2>1 DEF OrderInv, Ordered
    <3>4. p \in outputs[i].from .. outputs[i].to
      BY DEF Interval
    <3> QED
      BY <3>1, <3>2, <3>3, <3>4
  <2>5. Kind(p) \notin Tags /\ Kind(p) # "emotion"
    BY <2>4 DEF Of
  <2>6. outputs[i].tags \in SentenceTags
    <3>1. outputs[i] \in OutputType
      BY <2>1 DEF TypeInv
    <3> QED
      BY <3>1 DEF OutputType
  <2>7. CASE outputs[i].tags \in {"start", "end", "self"}
    BY <2>3, <2>5, <2>7 DEF Tagged
  <2>8. CASE outputs[i].tags = "inside"
    <3>1. Thinking[p] > 0 /\ outputs[i].voiced = {}
      BY <2>3, <2>8 DEF Tagged, Voiced
    <3>2. Thinking[p] # 0
      <4>1. Thinking[p] \in Nat
        <5>1. Len(received) \in Nat /\ received \in Seq(TokenKinds) /\ p \in 0 .. Len(received)
          BY <2>1, <2>4 DEF TypeInv
        <5> QED
          BY <5>1, ThinkingIs
      <4> QED
        BY <3>1, <4>1
    <3> QED
      BY <3>1, <3>2
  <2>9. CASE outputs[i].tags = "none"
    BY <2>3, <2>5, <2>9 DEF Tagged, Voiced
  <2> QED
    BY <2>6, <2>7, <2>8, <2>9 DEF SentenceTags
<1> QED
  BY Invariance, <1>1, PTL

\* Two sequences of sentences, one after the other, are in order.
LEMMA OrderedConcat ==
    ASSUME NEW a, NEW b, NEW S, NEW T, a \in Seq(S), b \in Seq(T), NEW next,
           Ordered(a, 1, next), Ordered(b, 1, next),
           \A i \in DOMAIN a, j \in DOMAIN b : a[i].to < b[j].from
    PROVE  LET all == a \o b
           IN  /\ \A i, j \in DOMAIN all : i < j => all[i].to < all[j].from
               /\ \A i \in DOMAIN all : all[i].from <= all[i].to /\ all[i].to < next
<1> DEFINE all == a \o b
           n == Len(a)
           m == Len(b)
<1>1. /\ n \in Nat /\ m \in Nat /\ DOMAIN a = 1 .. n /\ DOMAIN b = 1 .. m
      /\ DOMAIN all = 1 .. n + m
      /\ \A i \in 1 .. n + m : all[i] = IF i <= n THEN a[i] ELSE b[i - n]
  OBVIOUS
<1> HIDE DEF all, n, m
<1>2. ASSUME NEW i \in 1 .. n + m
      PROVE  \/ i \in 1 .. n /\ all[i] = a[i]
             \/ i > n /\ i - n \in 1 .. m /\ all[i] = b[i - n]
  BY <1>1
<1>3. ASSUME NEW i \in 1 .. n + m
      PROVE  all[i].from <= all[i].to /\ all[i].to < next
  BY <1>1, <1>2 DEF Ordered
<1>4. ASSUME NEW i \in 1 .. n + m, NEW j \in 1 .. n + m, i < j
      PROVE  all[i].to < all[j].from
  <2>1. CASE i \in 1 .. n /\ all[i] = a[i] /\ j \in 1 .. n /\ all[j] = a[j]
    BY <1>1, <1>4, <2>1 DEF Ordered
  <2>2. CASE i \in 1 .. n /\ all[i] = a[i] /\ j - n \in 1 .. m /\ all[j] = b[j - n]
    BY <1>1, <2>2
  <2>3. CASE i > n /\ i - n \in 1 .. m /\ all[i] = b[i - n] /\ j - n \in 1 .. m /\ all[j] = b[j - n]
    <3>1. i - n < j - n
      BY <1>1, <1>4
    <3> QED
      BY <1>1, <2>3, <3>1 DEF Ordered
  <2>4. i > n => j > n
    BY <1>1, <1>4
  <2>5. j > n => ~(j \in 1 .. n)
    BY <1>1
  <2> QED
    BY <1>2, <2>1, <2>2, <2>3, <2>4, <2>5
<1> QED
  BY <1>1, <1>3, <1>4 DEF all

\* Everything received is delivered once and in order, but for what the guard, an
\* abbreviation or a tag takes away; a response that is done has emptied the buffer.
THEOREM DeliveryIsExplained == Spec => []DeliveryExplained
<1>1. IInv => DeliveryExplained
  <2> SUFFICES ASSUME IInv PROVE DeliveryExplained
    OBVIOUS
  <2>1. TypeInv /\ OrderInv /\ DeliveryInv
    BY DEF IInv
  <2>2. InOrder
    <3>1. outputs \in Seq(OutputType) /\ pending \in Seq(SentenceType)
      BY <2>1 DEF TypeInv
    <3>2. /\ Ordered(outputs, 1, at) /\ Ordered(pending, 1, at)
          /\ \A i \in DOMAIN outputs, j \in DOMAIN pending : outputs[i].to < pending[j].from
      BY <2>1 DEF OrderInv
    <3> QED
      BY <3>1, <3>2, OrderedConcat DEF InOrder
  <2> QED
    BY <2>1, <2>2 DEF DeliveryExplained, DeliveryInv, Accounted
<1> QED
  BY Invariance, <1>1, PTL

\* No answer gets longer than the limit, and one that is cut has exactly that length.
THEOREM LimitIsKept == Spec => []LimitHolds
<1>1. IInv => LimitHolds
  BY DEF IInv, LimitInv, LimitHolds
<1> QED
  BY Invariance, <1>1, PTL
==============================================================================
