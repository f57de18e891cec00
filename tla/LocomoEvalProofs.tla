--------------------------- MODULE LocomoEvalProofs ---------------------------
(***************************************************************************)
(* What holds of the LoCoMo evaluation for samples, questions and planners of *)
(* any size: LLM runs and rule-based extraction keep their promises under its *)
(* specification, a question is answered only from memories that retrieval    *)
(* selected and that may be used, and every miss is laid at a stage.          *)
(***************************************************************************)
EXTENDS ExtractionProofs, LocomoEval, SequenceTheorems

-----------------------------------------------------------------------------
(* What Extraction promises, under the specification of the evaluation. *)

\* An evaluation is runs of Extraction, with questions in between that change none of it.
THEOREM EvaluationIsExtraction == EvalSpec => Spec
<1>1. EvalInit => Init BY DEF EvalInit
<1>2. [EvalNext]_<<vars, evalVars>> => [Next]_vars BY DEF EvalNext, AskQuestion, vars
<1> QED BY <1>1, <1>2, PTL DEF EvalSpec, Spec

\* So that what holds of Extraction holds of an evaluation: the cap on calls, the cache,
\* requests to forget and sensitive words.
THEOREM ExtractionHoldsInEvaluation ==
    EvalSpec => [](/\ CallsWithinCap /\ RepliesAreTheirOwn
                   /\ ForgetRequestsAreHeard /\ SensitiveWordsStayOut)
BY EvaluationIsExtraction, CapIsHard, CachedRepliesAreTheirOwn, ForgetRequestsAlwaysHeard,
   SensitiveWordsAlwaysStayOut, PTL

-----------------------------------------------------------------------------
(* Texts. *)

\* A text made of such words, as Tokens sees them.
Within(text, words) == IsList(text) /\ Tokens(text) \subseteq words

LEMMA BareTwice == \A w : Bare(Bare(w)) = Bare(w) /\ Bare("|") = "|"
BY DEF Bare

LEMMA ListFacts ==
    ASSUME NEW s, IsList(s)
    PROVE  /\ Len(s) \in Nat /\ DOMAIN s = 1 .. Len(s)
           /\ \A n \in 1 .. Len(s) : s[n] \in Range(s)
BY DEF IsList

LEMMA EmptyText == ASSUME NEW words PROVE Within(<<>>, words)
BY OneAndNone DEF Within, Tokens

\* A text takes its words from another one, as they are or bare.
LEMMA TakenFrom ==
    ASSUME NEW text, IsList(text), NEW s, NEW X,
           IsList(s), \A w \in Range(s) : \E v \in Range(text) : w = v \/ w = Bare(v)
    PROVE  Within(s, Tokens(text))
<1> SUFFICES ASSUME NEW t \in Tokens(s) PROVE t \in Tokens(text) BY DEF Within
<1>1. PICK w \in Range(s) : t = Bare(w) /\ t # "|" BY DEF Tokens
<1>2. PICK v \in Range(text) : w = v \/ w = Bare(v) BY <1>1
<1>3. t = Bare(v) BY <1>1, <1>2, BareTwice
<1> QED BY <1>1, <1>3 DEF Tokens

LEMMA OneWord ==
    ASSUME NEW text, IsList(text), NEW w \in Range(text)
    PROVE  Within(<<w>>, Tokens(text))
<1>1. IsList(<<w>>) /\ Range(<<w>>) = {w} BY OneAndNone
<1> QED BY <1>1, TakenFrom

\* Part of a text.
LEMMA PartOfText ==
    ASSUME NEW text, IsList(text), NEW m \in Nat \ {0}, NEW n \in Int, n <= Len(text)
    PROVE  Within(SubSeq(text, m, n), Tokens(text))
<1> DEFINE X == Range(text)
<1>1. Len(text) \in Nat /\ \A i \in 1 .. Len(text) : text[i] \in X BY ListFacts
<1>2. \A i \in m .. n : text[i] \in X BY <1>1
<1> HIDE DEF X
<1>3. SubSeq(text, m, n) \in Seq(X) BY <1>2, SubSeqProperties
<1>4. IsList(SubSeq(text, m, n)) /\ Range(SubSeq(text, m, n)) \subseteq X BY <1>3, ListOver
<1> QED BY <1>4, TakenFrom DEF X

LEMMA WithinMore ==
    ASSUME NEW text, NEW A, NEW B, Within(text, A), A \subseteq B
    PROVE  Within(text, B)
BY DEF Within

\* The first of some texts that is not empty.
LEMMA FirstWithin ==
    ASSUME NEW texts, NEW k \in Nat, DOMAIN texts = 1 .. k, NEW words,
           \A n \in 1 .. k : Within(texts[n], words)
    PROVE  Within(Cascade(texts), words)
<1>1. \/ Cascade(texts) = <<>>
      \/ \E n \in 1 .. k : Cascade(texts) = texts[n]
    BY CascadeChooses
<1> QED BY <1>1, EmptyText

LEMMA EitherWithin ==
    ASSUME NEW a, NEW b, NEW words, Within(a, words), Within(b, words)
    PROVE  Within(Either(a, b), words)
BY DEF Either

-----------------------------------------------------------------------------
(* Rules, and greatest elements. *)

LEMMA FirstThatChooses ==
    ASSUME NEW rules, NEW k \in Nat, DOMAIN rules = 1 .. k, NEW otherwise
    PROVE  \/ /\ FirstThat(rules, otherwise) = otherwise
              /\ \A n \in 1 .. k : ~ rules[n].if
           \/ \E n \in 1 .. k :
                 /\ FirstThat(rules, otherwise) = rules[n].then /\ rules[n].if
                 /\ \A m \in 1 .. n - 1 : ~ rules[m].if
<1> DEFINE applying == {n \in DOMAIN rules : rules[n].if}
<1>1. applying \in SUBSET Nat /\ applying \subseteq 1 .. k OBVIOUS
<1>2. CASE applying = {} BY <1>2 DEF FirstThat
<1>3. CASE applying # {}
    <2> HIDE DEF applying
    <2>1. Min(applying) \in applying /\ \A m \in applying : Min(applying) <= m BY <1>1, <1>3, MinIsLeast
    <2> DEFINE n == Min(applying)
    <2>2. n \in 1 .. k BY <1>1, <2>1
    <2>3. \A m \in 1 .. n - 1 : m \in 1 .. k /\ m \notin applying BY <1>1, <2>1, <2>2
    <2>4. FirstThat(rules, otherwise) = rules[n].then BY <1>3 DEF FirstThat, applying
    <2>5. rules[n].if /\ \A m \in 1 .. n - 1 : ~ rules[m].if BY <2>1, <2>3 DEF applying
    <2> HIDE DEF n
    <2> QED BY <2>2, <2>4, <2>5
<1> QED BY <1>2, <1>3

LEMMA FirstThatIsOne ==
    ASSUME NEW rules, NEW k \in Nat, DOMAIN rules = 1 .. k, NEW otherwise
    PROVE  FirstThat(rules, otherwise) = otherwise
           \/ \E n \in 1 .. k : FirstThat(rules, otherwise) = rules[n].then
BY FirstThatChooses

\* Among the first n numbers, some have the greatest value.
LEMMA GreatestOne ==
    ASSUME NEW n \in Nat, NEW S \in SUBSET (1 .. n), S # {}, NEW f \in [S -> Int]
    PROVE  \E i \in S : \A j \in S : f[j] <= f[i]
<1> DEFINE Upto(m) == S \cap (1 .. m)
           T == {m \in 0 .. n : Upto(m) # {} => \E i \in Upto(m) : \A j \in Upto(m) : f[j] <= f[i]}
<1>1. 0 \in T OBVIOUS
<1>2. ASSUME NEW m \in 0 .. n - 1, m \in T PROVE m + 1 \in T
    <2>0. m \in 0 .. n /\ m + 1 \in 0 .. n OBVIOUS
    <2>1. Upto(m + 1) = Upto(m) \cup (IF m + 1 \in S THEN {m + 1} ELSE {})
        <3>1. 1 .. m + 1 = (1 .. m) \cup {m + 1} BY <2>0
        <3> QED BY <3>1
    <2>2. CASE m + 1 \notin S BY <1>2, <2>0, <2>1, <2>2
    <2>3. CASE m + 1 \in S /\ Upto(m) = {}
        <3>1. Upto(m + 1) = {m + 1} BY <2>1, <2>3
        <3>2. f[m + 1] \in Int BY <2>3
        <3> QED BY <2>0, <3>1, <3>2
    <2>4. CASE m + 1 \in S /\ Upto(m) # {}
        <3>1. PICK i \in Upto(m) : \A j \in Upto(m) : f[j] <= f[i] BY <1>2, <2>4
        <3>2. Upto(m + 1) = Upto(m) \cup {m + 1} BY <2>1, <2>4
        <3>3. f[m + 1] \in Int /\ \A j \in Upto(m) : f[j] \in Int BY <2>4
        <3> HIDE DEF Upto
        <3>4. CASE f[m + 1] <= f[i]
            <4>1. \A j \in Upto(m + 1) : f[j] <= f[i] BY <3>1, <3>2, <3>4
            <4> QED BY <2>0, <3>1, <3>2, <4>1
        <3>5. CASE ~ f[m + 1] <= f[i]
            <4>1. \A j \in Upto(m + 1) : f[j] <= f[m + 1] BY <3>1, <3>2, <3>3, <3>5
            <4> QED BY <2>0, <3>2, <4>1
        <3> QED BY <3>4, <3>5
    <2> QED BY <2>2, <2>3, <2>4
<1>3. 0 .. n \subseteq T
    <2> HIDE DEF T
    <2> QED BY <1>1, <1>2, StepByStep
<1>4. n \in T BY <1>3
<1>5. Upto(n) = S OBVIOUS
<1> QED BY <1>4, <1>5

LEMMA MaxIsGreatest ==
    ASSUME NEW n \in Nat, NEW S \in SUBSET (1 .. n), S # {}
    PROVE  Max(S) \in S /\ \A k \in S : k <= Max(S)
<1> DEFINE f == [i \in S |-> i]
<1>1. f \in [S -> Int] OBVIOUS
<1>2. \E i \in S : \A j \in S : f[j] <= f[i]
    <2> HIDE DEF f
    <2> QED BY <1>1, GreatestOne
<1>3. \E i \in S : \A j \in S : i >= j BY <1>2
<1>4. Max(S) \in S /\ \A k \in S : Max(S) >= k BY <1>3, Zenon DEF Max
<1> QED BY <1>4


-----------------------------------------------------------------------------
(* A span of a text is made of its words. *)

LEMMA FirstInWithin ==
    ASSUME NEW text, IsList(text), NEW words
    PROVE  Within(FirstIn(text, words), Tokens(text))
<1> DEFINE at == {n \in DOMAIN text : text[n] \in words}
<1>1. DOMAIN text = 1 .. Len(text) /\ Len(text) \in Nat /\ \A n \in 1 .. Len(text) : text[n] \in Range(text)
    BY ListFacts
<1>2. CASE at = {} BY <1>2, EmptyText DEF FirstIn
<1>3. CASE at # {}
    <2>1. at \in SUBSET Nat /\ at \subseteq 1 .. Len(text) BY <1>1
    <2>2. FirstIn(text, words) = <<text[Min(at)]>> BY <1>3 DEF FirstIn
    <2> HIDE DEF at
    <2>3. Min(at) \in at BY <1>3, <2>1, MinIsLeast
    <2>4. text[Min(at)] \in Range(text) BY <1>1, <2>1, <2>3
    <2> QED BY <2>2, <2>4, OneWord
<1> QED BY <1>2, <1>3

LEMMA LastInWithin ==
    ASSUME NEW text, IsList(text), NEW words
    PROVE  Within(LastIn(text, words), Tokens(text))
<1> DEFINE at == {n \in DOMAIN text : text[n] \in words}
<1>1. DOMAIN text = 1 .. Len(text) /\ Len(text) \in Nat /\ \A n \in 1 .. Len(text) : text[n] \in Range(text)
    BY ListFacts
<1>2. CASE at = {} BY <1>2, EmptyText DEF LastIn
<1>3. CASE at # {}
    <2>1. at \in SUBSET (1 .. Len(text)) BY <1>1
    <2>2. LastIn(text, words) = <<text[Max(at)]>> BY <1>3 DEF LastIn
    <2> HIDE DEF at
    <2>3. Max(at) \in at BY <1>1, <1>3, <2>1, MaxIsGreatest
    <2>4. text[Max(at)] \in Range(text) BY <1>1, <2>1, <2>3
    <2> QED BY <2>2, <2>4, OneWord
<1> QED BY <1>2, <1>3

\* Where a stretch of a text may begin and end.
Spans(text) == {r \in (1 .. Len(text)) \X (1 .. Len(text)) : r[1] <= r[2]}

LEMMA StretchWithin ==
    ASSUME NEW text, IsList(text), NEW r \in Spans(text)
    PROVE  Within(Stretch(text, r), Tokens(text))
<1> DEFINE k == r[2] - r[1] + 1
           s == Stretch(text, r)
           X == {Bare(v) : v \in Range(text)}
<1>1. Len(text) \in Nat /\ \A n \in 1 .. Len(text) : text[n] \in Range(text) BY ListFacts
<1>2. r[1] \in 1 .. Len(text) /\ r[2] \in 1 .. Len(text) /\ r[1] <= r[2] BY DEF Spans
<1>3. k \in Nat BY <1>1, <1>2
<1>4. s = [n \in 1 .. k |-> Bare(text[r[1] + n - 1])] BY DEF Stretch
<1>5. \A n \in 1 .. k : Bare(text[r[1] + n - 1]) \in X
    <2> SUFFICES ASSUME NEW n \in 1 .. k PROVE Bare(text[r[1] + n - 1]) \in X OBVIOUS
    <2>1. r[1] + n - 1 \in 1 .. Len(text) BY <1>1, <1>2
    <2> QED BY <1>1, <2>1
<1> HIDE DEF k, s, X
<1>6. s \in Seq(X) BY <1>3, <1>4, <1>5
<1>7. IsList(s) /\ Range(s) \subseteq X BY <1>6, ListOver
<1>8. Within(s, Tokens(text)) BY <1>7, TakenFrom DEF X
<1> QED BY <1>8 DEF s

LEMMA FirstStretchWithin ==
    ASSUME NEW text, IsList(text), NEW bounds \in SUBSET Spans(text)
    PROVE  Within(FirstStretch(text, bounds), Tokens(text))
<1>1. CASE bounds = {} BY <1>1, EmptyText DEF FirstStretch
<1>2. CASE bounds # {}
    <2> DEFINE S == {b[1] : b \in bounds}
               IsFirst(b) == \A other \in bounds : b[1] <= other[1]
               first == CHOOSE b \in bounds : IsFirst(b)
    <2>1. Len(text) \in Nat BY ListFacts
    <2>2. S \in SUBSET Nat /\ S # {} BY <1>2, <2>1 DEF Spans
    <2>3. \E n \in S : \A m \in S : n <= m
        <3> HIDE DEF S
        <3> QED BY <2>2, LeastOne
    <2>4. \E b \in bounds : IsFirst(b) BY <2>3
    <2> HIDE DEF IsFirst
    <2>5. first \in bounds BY <2>4
    <2>6. FirstStretch(text, bounds) = Stretch(text, first) BY <1>2 DEF FirstStretch, IsFirst
    <2> QED BY <2>5, <2>6, StretchWithin
<1> QED BY <1>1, <1>2

LEMMA StretchesAreSpans ==
    ASSUME NEW text, IsList(text), NEW words
    PROVE  Stretches(text, words) \subseteq Spans(text)
<1> DEFINE Run(i) == {j \in i .. Len(text) : \A n \in i .. j : text[n] \in words}
<1>1. Len(text) \in Nat /\ DOMAIN text = 1 .. Len(text) BY ListFacts
<1> SUFFICES ASSUME NEW i \in DOMAIN text, text[i] \in words
             PROVE  <<i, Max(Run(i))>> \in Spans(text)
    BY DEF Stretches
<1>2. i \in 1 .. Len(text) BY <1>1
<1>3. Run(i) \in SUBSET (1 .. Len(text)) /\ i \in Run(i) BY <1>1, <1>2
<1>4. \A j \in Run(i) : i <= j /\ j <= Len(text) BY <1>1, <1>2
<1> HIDE DEF Run
<1>5. Max(Run(i)) \in Run(i) BY <1>1, <1>3, MaxIsGreatest
<1> QED BY <1>2, <1>3, <1>4, <1>5 DEF Spans

LEMMA PhrasesAreSpans ==
    ASSUME NEW text, IsList(text)
    PROVE  Phrases(text) \subseteq Spans(text)
<1>1. Len(text) \in Nat /\ DOMAIN text = 1 .. Len(text) BY ListFacts
<1>2. \A n \in DOMAIN text : <<n, n>> \in Spans(text) BY <1>1 DEF Spans
<1> QED BY <1>2, StretchesAreSpans DEF Phrases

LEMMA CleanWithin ==
    ASSUME NEW phrase, NEW words, Within(phrase, words)
    PROVE  Within(Clean(phrase), words)
<1> DEFINE names == {n \in DOMAIN phrase : phrase[n] \notin NotNames}
<1>0. IsList(phrase) /\ Tokens(phrase) \subseteq words BY DEF Within
<1>1. Len(phrase) \in Nat /\ DOMAIN phrase = 1 .. Len(phrase) BY <1>0, ListFacts
<1>2. CASE names = {} BY <1>2, EmptyText DEF Clean
<1>3. CASE names # {}
    <2>1. names \in SUBSET Nat /\ names \subseteq 1 .. Len(phrase) BY <1>1
    <2>2. Clean(phrase) = SubSeq(phrase, Min(names), Len(phrase)) BY <1>3 DEF Clean
    <2> HIDE DEF names
    <2>3. Min(names) \in names BY <1>3, <2>1, MinIsLeast
    <2> DEFINE n == Min(names)
    <2>6. n \in 1 .. Len(phrase) BY <2>1, <2>3
    <2> HIDE DEF n
    <2>4. n \in Nat \ {0} BY <1>1, <2>6
    <2> USE DEF n
    <2>5. Within(SubSeq(phrase, Min(names), Len(phrase)), Tokens(phrase))
        BY <1>0, <1>1, <2>4, PartOfText
    <2> QED BY <1>0, <2>2, <2>5, WithinMore
<1> QED BY <1>2, <1>3

LEMMA WithoutSubjectWithin ==
    ASSUME NEW phrase, NEW words, Within(phrase, words), NEW subject, IsList(subject)
    PROVE  Within(WithoutSubject(phrase, subject), words)
<1>0. IsList(phrase) /\ Tokens(phrase) \subseteq words BY DEF Within
<1>1. Len(phrase) \in Nat /\ Len(subject) \in Nat BY <1>0, ListFacts
<1>2. Within(SubSeq(phrase, Len(subject) + 1, Len(phrase)), Tokens(phrase))
    BY <1>0, <1>1, PartOfText
<1>3. Within(SubSeq(phrase, Len(subject) + 1, Len(phrase)), words) BY <1>0, <1>2, WithinMore
<1> QED BY <1>3 DEF WithoutSubject

LEMMA NameAfterWithin ==
    ASSUME NEW text, IsList(text), NEW words, NEW subject, IsList(subject)
    PROVE  Within(NameAfter(text, words, subject), Tokens(text))
<1>1. PICK bounds : /\ bounds \subseteq Phrases(text)
                    /\ NameAfter(text, words, subject)
                       = Clean(WithoutSubject(FirstStretch(text, bounds), subject))
    BY DEF NameAfter
<1>2. Within(FirstStretch(text, bounds), Tokens(text))
    BY <1>1, PhrasesAreSpans, FirstStretchWithin
<1> QED BY <1>1, <1>2, WithoutSubjectWithin, CleanWithin

LEMMA OtherNameWithin ==
    ASSUME NEW text, IsList(text), NEW subject, IsList(subject)
    PROVE  Within(OtherName(text, subject), Tokens(text))
<1>1. PICK bounds : /\ bounds \subseteq Phrases(text)
                    /\ OtherName(text, subject)
                       = WithoutSubject(Clean(FirstStretch(text, bounds)), subject)
    BY DEF OtherName
<1>2. Within(FirstStretch(text, bounds), Tokens(text))
    BY <1>1, PhrasesAreSpans, FirstStretchWithin
<1>3. Within(Clean(FirstStretch(text, bounds)), Tokens(text)) BY <1>2, CleanWithin
<1> QED BY <1>1, <1>3, WithoutSubjectWithin

LEMMA NovelPhraseWithin ==
    ASSUME NEW text, IsList(text), NEW q
    PROVE  Within(NovelPhrase(q, text), Tokens(text))
<1> DEFINE new == {w \in Range(text) : Bare(w) \notin Fillers \cup Tokens(q)}
           all == Stretches(text, new)
           longest == {b \in all : \A other \in all : other[2] - other[1] <= b[2] - b[1]}
<1>1. NovelPhrase(q, text) = FirstStretch(text, longest) BY DEF NovelPhrase
<1>2. longest \subseteq all OBVIOUS
<1>3. all \subseteq Spans(text) BY StretchesAreSpans
<1> HIDE DEF longest, all
<1> QED BY <1>1, <1>2, <1>3, FirstStretchWithin

AnswerTypes == {"location", "person", "temporal", "count", "yes_no", "relationship", "object"}

LEMMA QuestionTypes == ASSUME NEW q PROVE QuestionType(q) \in AnswerTypes
<1>1. PICK a, b, c, d, e, f :
          QuestionType(q) = FirstThat(<<
              [if |-> a, then |-> "location"], [if |-> b, then |-> "person"],
              [if |-> c, then |-> "temporal"], [if |-> d, then |-> "count"],
              [if |-> e, then |-> "yes_no"], [if |-> f, then |-> "relationship"]>>, "object")
    BY Zenon DEF QuestionType
<1> DEFINE rules == <<
              [if |-> a, then |-> "location"], [if |-> b, then |-> "person"],
              [if |-> c, then |-> "temporal"], [if |-> d, then |-> "count"],
              [if |-> e, then |-> "yes_no"], [if |-> f, then |-> "relationship"]>>
<1>2. DOMAIN rules = 1 .. 6 OBVIOUS
<1>3. \A n \in 1 .. 6 : n = 1 \/ n = 2 \/ n = 3 \/ n = 4 \/ n = 5 \/ n = 6 OBVIOUS
<1>4. /\ rules[1].then = "location" /\ rules[2].then = "person" /\ rules[3].then = "temporal"
      /\ rules[4].then = "count" /\ rules[5].then = "yes_no" /\ rules[6].then = "relationship"
    OBVIOUS
<1>5. QuestionType(q) = FirstThat(rules, "object") BY <1>1
<1> HIDE DEF rules
<1>6. FirstThat(rules, "object") = "object" \/ \E n \in 1 .. 6 : FirstThat(rules, "object") = rules[n].then
    BY <1>2, FirstThatIsOne
<1> QED BY <1>3, <1>4, <1>5, <1>6 DEF AnswerTypes

LEMMA SpanWithin ==
    ASSUME NEW text, IsList(text), NEW q, IsList(q), NEW type \in AnswerTypes
    PROVE  Within(ExtractiveSpan(q, text, type), Tokens(text))
<1> DEFINE subject == QuerySubject(q)
           span == ExtractiveSpan(q, text, type)
           words == Tokens(text)
<1>1. IsList(subject) BY PhrasesAreSpans, FirstStretchWithin DEF QuerySubject, Within
<1> HIDE DEF subject
<1>2. Within(OtherName(text, subject), words) BY <1>1, OtherNameWithin
<1>3. CASE type = "location"
    <2> DEFINE a == NameAfter(text, {"in", "to", "from"}, subject)
               b == OtherName(text, subject)
    <2>1. span = Cascade(<<a, b>>) BY <1>3 DEF ExtractiveSpan, subject
    <2>2. Within(a, words) BY <1>1, NameAfterWithin
    <2> HIDE DEF a, b, span, words
    <2>3. span = Either(a, b) BY <2>1, CascadeOfTwo
    <2>4. Within(span, words) BY <1>2, <2>2, <2>3, EitherWithin DEF b
    <2> QED BY <2>4 DEF span, words
<1>4. CASE type = "person"
    <2> DEFINE a == NameAfter(text, {"dating", "married", "with", "to", "and"}, subject)
               b == OtherName(text, subject)
    <2>1. span = Cascade(<<a, b>>) BY <1>4 DEF ExtractiveSpan, subject
    <2>2. Within(a, words) BY <1>1, NameAfterWithin
    <2> HIDE DEF a, b, span, words
    <2>3. span = Either(a, b) BY <2>1, CascadeOfTwo
    <2>4. Within(span, words) BY <1>2, <2>2, <2>3, EitherWithin DEF b
    <2> QED BY <2>4 DEF span, words
<1>5. CASE type = "temporal"
    <2> DEFINE a == FirstIn(text, Days)
               b == FirstIn(text, Dates)
    <2>1. span = Cascade(<<a, b>>) BY <1>5 DEF ExtractiveSpan
    <2>2. Within(a, words) /\ Within(b, words) BY FirstInWithin
    <2> HIDE DEF a, b, span, words
    <2>3. span = Either(a, b) BY <2>1, CascadeOfTwo
    <2>4. Within(span, words) BY <2>2, <2>3, EitherWithin
    <2> QED BY <2>4 DEF span, words
<1>6. CASE type = "count"
    <2> DEFINE a == LastIn(text, Numbers)
               b == LastIn(text, {"1990"})
               c == FirstIn(text, NumberWords)
    <2>1. span = Cascade(<<a, b, c>>) BY <1>6 DEF ExtractiveSpan
    <2>2. Within(a, words) /\ Within(b, words) /\ Within(c, words) BY FirstInWithin, LastInWithin
    <2> HIDE DEF a, b, c, span, words
    <2>3. span = Either(a, Either(b, c)) BY <2>1, CascadeOfThree
    <2>4. Within(span, words) BY <2>2, <2>3, EitherWithin
    <2> QED BY <2>4 DEF span, words
<1>7. CASE type \in {"yes_no", "relationship", "object"}
    <2>1. span = NovelPhrase(q, text) BY <1>7 DEF ExtractiveSpan
    <2> QED BY <2>1, NovelPhraseWithin
<1> QED BY <1>3, <1>4, <1>5, <1>6, <1>7 DEF AnswerTypes

-----------------------------------------------------------------------------
(* The templates: the object of a memory, or what of it answers the question. *)

\* What the model of a memory promises of every memory: it rests on something that was said.
Sound(m) == IsList(m.claim) /\ IsList(m.object) /\ m.evidence # {} /\ m.confidence \in Nat
Own(m) == Tokens(m.claim) \cup Tokens(m.object)
\* Records as they are selected.
Selection(records) ==
    IsList(records) /\ \A n \in DOMAIN records : Sound(records[n].memory) /\ records[n].score \in Int

LEMMA TextItself == ASSUME NEW text, IsList(text) PROVE Within(text, Tokens(text))
BY DEF Within

LEMMA OwnTexts ==
    ASSUME NEW m, Sound(m)
    PROVE  Within(m.claim, Own(m)) /\ Within(m.object, Own(m))
BY TextItself, WithinMore DEF Sound, Own

\* A text, and so whatever it is made of.
LEMMA PartOfWithin ==
    ASSUME NEW text, NEW words, Within(text, words), NEW part, Within(part, Tokens(text))
    PROVE  Within(part, words)
BY DEF Within

LEMMA ObjectWithin ==
    ASSUME NEW m, Sound(m)
    PROVE  Within(ObjectOf(m), Own(m))
<1>1. CASE m.object # <<>> BY <1>1, OwnTexts DEF ObjectOf
<1>2. CASE m.object = <<>> /\ Len(m.claim) >= 3
    <2>1. Len(m.claim) \in Nat /\ IsList(m.claim) BY ListFacts DEF Sound
    <2>2. Within(SubSeq(m.claim, 3, Len(m.claim)), Tokens(m.claim)) BY <2>1, PartOfText
    <2>3. ObjectOf(m) = SubSeq(m.claim, 3, Len(m.claim)) BY <1>2 DEF ObjectOf
    <2> QED BY <2>2, <2>3, OwnTexts, PartOfWithin
<1>3. CASE m.object = <<>> /\ ~ Len(m.claim) >= 3 BY <1>3, EmptyText DEF ObjectOf
<1> QED BY <1>1, <1>2, <1>3

LEMMA PlaceInWithin ==
    ASSUME NEW text, IsList(text)
    PROVE  Within(PlaceIn(text), Tokens(text))
<1> DEFINE at == {n \in DOMAIN text : n < Len(text) /\ text[n] \in {"to", "in"}}
           first == Min(at)
           start == IF first + 1 < Len(text) /\ text[first + 1] \in {"the", "a"} THEN first + 2 ELSE first + 1
           ends == {n \in start + 1 .. Len(text) :
                       text[n] \in {"today", "yesterday", "next", "last", "with", "for", "before", "after"}}
           stops == ends \cup {Len(text) + 1}
           stop == Min(stops)
<1>1. Len(text) \in Nat /\ DOMAIN text = 1 .. Len(text) BY ListFacts
<1>2. CASE at = {} BY <1>2, EmptyText DEF PlaceIn
<1>3. CASE at # {}
    <2>1. at \in SUBSET Nat /\ \A n \in at : n \in 1 .. Len(text) BY <1>1
    <2>2. PlaceIn(text) = SubSeq(text, start, stop - 1) BY <1>3 DEF PlaceIn
    <2> HIDE DEF at
    <2>3. first \in at BY <1>3, <2>1, MinIsLeast
    <2> HIDE DEF first
    <2>4. first \in 1 .. Len(text) BY <2>1, <2>3
    <2>5. start \in Nat \ {0} BY <1>1, <2>4
    <2> HIDE DEF start
    <2>6. stops \in SUBSET Nat /\ stops # {} /\ \A n \in stops : n <= Len(text) + 1 BY <1>1, <2>5
    <2> HIDE DEF stops
    <2>7. stop \in stops BY <2>6, MinIsLeast
    <2> HIDE DEF stop
    <2>8. stop - 1 \in Int /\ stop - 1 <= Len(text) BY <1>1, <2>6, <2>7
    <2> QED BY <2>2, <2>5, <2>8, PartOfText
<1> QED BY <1>2, <1>3

LEMMA ThreeWithin ==
    ASSUME NEW a, NEW b, NEW c, NEW words, Within(a, words), Within(b, words), Within(c, words)
    PROVE  Within(Cascade(<<a, b, c>>), words)
<1>1. Cascade(<<a, b, c>>) = Either(a, Either(b, c)) BY CascadeOfThree
<1> QED BY <1>1, EitherWithin

LEMMA PersonInWithin ==
    ASSUME NEW text, IsList(text), NEW relation
    PROVE  Within(PersonIn(text, relation), Tokens(text))
<1> DEFINE partners == {n \in 2 .. Len(text) : text[n] \in Capitalised /\ text[n - 1] \in {"dating", "with"}}
           a == FirstStretch(text, {<<n, n>> : n \in partners})
           b == FirstIn(text, Capitalised)
<1>1. Len(text) \in Nat BY ListFacts
<1>2. {<<n, n>> : n \in partners} \subseteq Spans(text) BY <1>1 DEF Spans
<1>3. PersonIn(text, relation) = <<>> \/ PersonIn(text, relation) = Cascade(<<a, b>>) BY DEF PersonIn
<1> HIDE DEF partners
<1>4. Within(a, Tokens(text)) /\ Within(b, Tokens(text)) BY <1>2, FirstStretchWithin, FirstInWithin
<1> HIDE DEF a, b
<1>5. Cascade(<<a, b>>) = Either(a, b) BY CascadeOfTwo
<1>6. Within(Cascade(<<a, b>>), Tokens(text)) BY <1>4, <1>5, EitherWithin
<1> QED BY <1>3, <1>6, EmptyText

LEMMA TimeInWithin ==
    ASSUME NEW text, IsList(text)
    PROVE  Within(TimeIn(text), Tokens(text))
<1> DEFINE after == {n \in DOMAIN text : n < Len(text) /\ text[n] \in {"on", "before", "after"}}
           a == FirstIn(text, {"yesterday", "Yesterday", "today"})
           b == FirstIn(text, Days)
           c == FirstStretch(text, {<<n + 1, Len(text)>> : n \in after})
<1>1. Len(text) \in Nat /\ DOMAIN text = 1 .. Len(text) BY ListFacts
<1>2. {<<n + 1, Len(text)>> : n \in after} \subseteq Spans(text)
    <2> SUFFICES ASSUME NEW n \in after PROVE <<n + 1, Len(text)>> \in Spans(text) OBVIOUS
    <2>1. n \in 1 .. Len(text) /\ n < Len(text) BY <1>1
    <2>2. n + 1 \in 1 .. Len(text) /\ Len(text) \in 1 .. Len(text) /\ n + 1 <= Len(text) BY <1>1, <2>1
    <2> QED BY <2>2 DEF Spans
<1>3. TimeIn(text) = Cascade(<<a, b, c>>) BY DEF TimeIn
<1> HIDE DEF after
<1>4. Within(a, Tokens(text)) /\ Within(b, Tokens(text)) /\ Within(c, Tokens(text))
    BY <1>2, FirstStretchWithin, FirstInWithin
<1> HIDE DEF a, b, c
<1> QED BY <1>3, <1>4, ThreeWithin

LEMMA AnswerObjectWithin ==
    ASSUME NEW m, Sound(m), NEW object, Within(object, Own(m)), NEW type
    PROVE  Within(AnswerObject(object, m, type), Own(m))
<1> DEFINE numbers == Numbers \cup NumberWords \cup {"1990"}
<1>0. Within(m.claim, Own(m)) /\ IsList(m.claim) /\ IsList(object) BY OwnTexts DEF Within
<1>1. CASE type = "location" /\ m.relation \notin Places
    <2>1. AnswerObject(object, m, type) = Cascade(<<PlaceIn(object), PlaceIn(m.claim), object>>)
        BY <1>1 DEF AnswerObject
    <2>2. Within(PlaceIn(object), Own(m)) /\ Within(PlaceIn(m.claim), Own(m))
        BY <1>0, PlaceInWithin, PartOfWithin
    <2> QED BY <2>1, <2>2, ThreeWithin
<1>2. CASE type = "person"
    <2>1. AnswerObject(object, m, type)
          = Cascade(<<PersonIn(object, m.relation), PersonIn(m.claim, m.relation), object>>)
        BY <1>2 DEF AnswerObject
    <2>2. Within(PersonIn(object, m.relation), Own(m)) /\ Within(PersonIn(m.claim, m.relation), Own(m))
        BY <1>0, PersonInWithin, PartOfWithin
    <2> QED BY <2>1, <2>2, ThreeWithin
<1>3. CASE type = "temporal"
    <2>1. AnswerObject(object, m, type) = Cascade(<<TimeIn(object), TimeIn(m.claim), object>>)
        BY <1>3 DEF AnswerObject
    <2>2. Within(TimeIn(object), Own(m)) /\ Within(TimeIn(m.claim), Own(m))
        BY <1>0, TimeInWithin, PartOfWithin
    <2> QED BY <2>1, <2>2, ThreeWithin
<1>4. CASE type = "count"
    <2>1. AnswerObject(object, m, type)
          = Cascade(<<FirstIn(object, numbers), FirstIn(m.claim, numbers), object>>)
        BY <1>4 DEF AnswerObject
    <2>2. Within(FirstIn(object, numbers), Own(m)) /\ Within(FirstIn(m.claim, numbers), Own(m))
        BY <1>0, FirstInWithin, PartOfWithin
    <2> QED BY <2>1, <2>2, ThreeWithin
<1>5. CASE /\ ~ (type = "location" /\ m.relation \notin Places)
           /\ type \notin {"person", "temporal", "count"}
    <2>1. AnswerObject(object, m, type) = object BY <1>5 DEF AnswerObject
    <2> QED BY <2>1
<1> QED BY <1>1, <1>2, <1>3, <1>4, <1>5

LEMMA TrimmedWithin ==
    ASSUME NEW answer, NEW words, Within(answer, words), NEW q
    PROVE  Within(Trimmed(answer, q), words)
<1> DEFINE said == {n \in 2 .. Len(answer) : /\ answer[n] \in {"before", "after", "during"}
                                             /\ SubSeq(answer, n, Len(answer)) \in SubSeqs(q)}
           first == Min(said)
<1>0. IsList(answer) BY DEF Within
<1>1. Len(answer) \in Nat BY <1>0, ListFacts
<1>2. CASE said = {} BY <1>2 DEF Trimmed
<1>3. CASE said # {}
    <2>1. said \in SUBSET Nat /\ \A n \in said : n \in 2 .. Len(answer) BY <1>1
    <2>2. Trimmed(answer, q) = SubSeq(answer, 1, first - 1) BY <1>3 DEF Trimmed
    <2> HIDE DEF said
    <2>3. first \in said BY <1>3, <2>1, MinIsLeast
    <2> HIDE DEF first
    <2>4. first - 1 \in Int /\ first - 1 <= Len(answer) BY <1>1, <2>1, <2>3
    <2>5. Within(SubSeq(answer, 1, first - 1), Tokens(answer)) BY <1>0, <2>4, PartOfText
    <2> QED BY <2>2, <2>5, PartOfWithin
<1> QED BY <1>2, <1>3

-----------------------------------------------------------------------------
(* The best template. *)

LEMMA TokensAreFinite ==
    ASSUME NEW text, IsList(text)
    PROVE  IsFiniteSet(Tokens(text))
<1> DEFINE bare == [n \in 1 .. Len(text) |-> Bare(text[n])]
           X == {Bare(w) : w \in Range(text)}
<1>1. Len(text) \in Nat /\ DOMAIN text = 1 .. Len(text) BY ListFacts
<1>2. X = {Bare(text[n]) : n \in 1 .. Len(text)} BY <1>1, Zenon DEF Range
<1>3. bare \in Surjection(1 .. Len(text), X) BY <1>2 DEF Surjection
<1>4. IsFiniteSet(1 .. Len(text)) BY <1>1, UpToIsFinite
<1> HIDE DEF bare, X
<1>5. IsFiniteSet(X) BY <1>3, <1>4, FS_Surjection
<1>6. Tokens(text) \subseteq X BY DEF Tokens, X
<1> QED BY <1>5, <1>6, FS_Subset

\* A question that says something: the bar only joins claims.
Question(q) == IsList(q) /\ "|" \notin Range(q)

LEMMA QuestionHasTokens ==
    ASSUME NEW q, Question(q), q # <<>>
    PROVE  IsFiniteSet(Tokens(q)) /\ Cardinality(Tokens(q)) \in Nat \ {0}
<1>1. IsFiniteSet(Tokens(q)) BY TokensAreFinite DEF Question
<1>2. Len(q) \in Nat /\ DOMAIN q = 1 .. Len(q) /\ q \in Seq(Range(q)) BY ListFacts DEF Question, IsList
<1>3. 1 \in DOMAIN q BY <1>2
<1>4. q[1] \in Range(q) BY <1>3 DEF Range
<1>5. q[1] # "|" BY <1>4 DEF Question
<1>6. Bare(q[1]) # "|" BY <1>5 DEF Bare
<1>7. Bare(q[1]) \in Tokens(q) BY <1>4, <1>6 DEF Tokens
<1>8. Cardinality(Tokens(q)) \in Nat /\ Cardinality(Tokens(q)) # 0
    BY <1>1, <1>7, FS_CardinalityType, FS_EmptySet
<1> QED BY <1>1, <1>8

LEMMA TypeBonusIsNumber == ASSUME NEW type, NEW relation PROVE TypeBonus(type, relation) \in Nat
<1> DEFINE a == type = "location" /\ relation \in Places
           b == type \in {"location", "temporal"} /\ relation \in Happenings
           c == type = "person" /\ relation \in Relationships
           d == type = "temporal" /\ relation \in Times
           e == type = "relationship" /\ relation \in Relationships
           f == type = "object" /\ relation \in Tastes \cup Routines
<1> DEFINE rules == <<
              [if |-> a, then |-> 25], [if |-> b, then |-> 35], [if |-> c, then |-> 80],
              [if |-> d, then |-> 80], [if |-> e, then |-> 85], [if |-> f, then |-> 45]>>
<1>2. DOMAIN rules = 1 .. 6 OBVIOUS
<1>3. \A n \in 1 .. 6 : n = 1 \/ n = 2 \/ n = 3 \/ n = 4 \/ n = 5 \/ n = 6 OBVIOUS
<1>4. /\ rules[1].then = 25 /\ rules[2].then = 35 /\ rules[3].then = 80
      /\ rules[4].then = 80 /\ rules[5].then = 85 /\ rules[6].then = 45
    OBVIOUS
<1>5. TypeBonus(type, relation) = FirstThat(rules, 0) BY Zenon DEF TypeBonus
<1> HIDE DEF rules
<1>6. FirstThat(rules, 0) = 0 \/ \E n \in 1 .. 6 : FirstThat(rules, 0) = rules[n].then
    BY <1>2, FirstThatIsOne
<1> QED BY <1>3, <1>4, <1>5, <1>6

LEMMA TemplateBonusIsNumber == ASSUME NEW words, NEW relation PROVE TemplateBonus(words, relation) \in Nat
<1> DEFINE asks(cues) == words \cap cues # {}
           a == relation \in Places /\ asks({"Where", "live", "stay", "from", "camping"})
           b == relation \in Times /\ asks({"When", "day", "date", "time", "now"})
           c == /\ relation \in Happenings
                /\ asks({"When", "day", "date", "time", "Where", "What", "do", "did", "Did"})
           d == /\ relation \in Relationships
                /\ asks({"relationship", "status", "dating", "married", "friend", "Who"})
           e == relation \in Routines /\ asks({"drink", "play"})
           f == relation \in Tastes /\ asks({"like", "likes"})
           g == relation # "" /\ asks({"When", "day", "date", "time"})
<1> DEFINE rules == <<
              [if |-> a, then |-> 70], [if |-> b, then |-> 70], [if |-> c, then |-> 45],
              [if |-> d, then |-> 65], [if |-> e, then |-> 60], [if |-> f, then |-> 50],
              [if |-> g, then |-> 20]>>
<1>2. DOMAIN rules = 1 .. 7 OBVIOUS
<1>3. \A n \in 1 .. 7 : n = 1 \/ n = 2 \/ n = 3 \/ n = 4 \/ n = 5 \/ n = 6 \/ n = 7 OBVIOUS
<1>4. /\ rules[1].then = 70 /\ rules[2].then = 70 /\ rules[3].then = 45 /\ rules[4].then = 65
      /\ rules[5].then = 60 /\ rules[6].then = 50 /\ rules[7].then = 20
    OBVIOUS
<1>5. TemplateBonus(words, relation) = FirstThat(rules, 0) BY Zenon DEF TemplateBonus
<1> HIDE DEF rules
<1>6. FirstThat(rules, 0) = 0 \/ \E n \in 1 .. 7 : FirstThat(rules, 0) = rules[n].then
    BY <1>2, FirstThatIsOne
<1> QED BY <1>3, <1>4, <1>5, <1>6

LEMMA TemplateScoreIsNumber ==
    ASSUME NEW q, Question(q), q # <<>>, NEW s, s.score \in Int, NEW object
    PROVE  TemplateScore(q, s, object) \in Int
<1> DEFINE words == Tokens(q)
           template == {s.memory.subject} \cup Pieces(s.memory.relation) \cup Tokens(object)
                       \cup Tokens(s.memory.claim)
           overlap == (100 * Cardinality(words \cap template)) \div Cardinality(words)
           bonus == IF Pieces(s.memory.relation) \cap words # {} THEN 40 ELSE 0
           a == TemplateBonus(words, s.memory.relation)
           b == TypeBonus(QuestionType(q), s.memory.relation)
<1>1. IsFiniteSet(words) /\ Cardinality(words) \in Nat \ {0} BY QuestionHasTokens
<1>2. Cardinality(words \cap template) \in Nat BY <1>1, FS_Intersection, FS_CardinalityType
<1> HIDE DEF words, template
<1>3. overlap \in Int BY <1>1, <1>2
<1>4. bonus \in Nat OBVIOUS
<1>5. a \in Nat /\ b \in Nat BY TemplateBonusIsNumber, TypeBonusIsNumber
<1>6. Least(25, s.score \div 1000) \in Int BY DEF Least
<1>7. TemplateScore(q, s, object) = overlap + a + b + bonus + Least(25, s.score \div 1000)
    BY DEF TemplateScore, words, template
<1> HIDE DEF overlap, a, b, bonus
<1> QED BY <1>3, <1>4, <1>5, <1>6, <1>7

\* What the templates answer is an object, or part of what the memory it is from says.
LEMMA OverlapAnswerWithin ==
    ASSUME NEW q, NEW records, Selection(records)
    PROVE  \/ OverlapAnswer(q, records).answer = ABSTAIN
           \/ \E n \in DOMAIN records :
                 Within(OverlapAnswer(q, records).answer, Own(records[n].memory))
<1> DEFINE m == Head(records).memory
           object == AnswerObject(ObjectOf(m), m, QuestionType(q))
           given == OverlapAnswer(q, records)
<1>1. given = NoSynthesis \/ (Len(records) = 1 /\ given = [answer |-> object, confidence |-> 46])
    BY DEF OverlapAnswer
<1>2. CASE given = NoSynthesis BY <1>2 DEF NoSynthesis
<1>3. CASE Len(records) = 1 /\ given = [answer |-> object, confidence |-> 46]
    <2>1. records \in Seq(Range(records)) BY DEF Selection, IsList
    <2>2. 1 \in DOMAIN records /\ Head(records) = records[1] BY <1>3, <2>1
    <2>3. Sound(m) BY <2>2 DEF Selection
    <2>4. Within(object, Own(m)) BY <2>3, ObjectWithin, AnswerObjectWithin
    <2> QED BY <1>3, <2>2, <2>4
<1> QED BY <1>1, <1>2, <1>3

LEMMA SynthesisWithin ==
    ASSUME NEW q, Question(q), NEW records, Selection(records)
    PROVE  \/ Synthesis(q, records).answer = ABSTAIN
           \/ \E n \in DOMAIN records : Within(Synthesis(q, records).answer, Own(records[n].memory))
<1> DEFINE object(n) == ObjectOf(records[n].memory)
           answerable == {n \in DOMAIN records : object(n) # <<>>}
           worth(n) == TemplateScore(q, records[n], object(n))
           IsBest(n) == \A k \in answerable : worth(k) <= worth(n)
           best == Min({n \in answerable : IsBest(n)})
           m == records[best].memory
           answer == Trimmed(AnswerObject(object(best), m, QuestionType(q)), q)
           given == Synthesis(q, records)
<1>1. \/ given = NoSynthesis
      \/ given = OverlapAnswer(q, records)
      \/ /\ q # <<>> /\ answerable # {}
         /\ given.answer = answer
    BY DEF Synthesis
<1>2. CASE given = NoSynthesis BY <1>2 DEF NoSynthesis
<1>3. CASE given = OverlapAnswer(q, records) BY <1>3, OverlapAnswerWithin
<1>4. CASE q # <<>> /\ answerable # {} /\ given.answer = answer
    <2> DEFINE f == [n \in answerable |-> worth(n)]
               S == {n \in answerable : IsBest(n)}
    <2>1. Len(records) \in Nat /\ DOMAIN records = 1 .. Len(records) BY ListFacts DEF Selection
    <2>2. \A n \in DOMAIN records : worth(n) \in Int BY <1>4, TemplateScoreIsNumber DEF Selection
    <2>3. answerable \in SUBSET (1 .. Len(records)) BY <2>1
    <2> HIDE DEF worth, answerable
    <2>4. f \in [answerable -> Int] BY <2>1, <2>2, <2>3
    <2>5. \E i \in answerable : \A j \in answerable : f[j] <= f[i]
        <3> HIDE DEF f
        <3> QED BY <1>4, <2>1, <2>3, <2>4, GreatestOne
    <2>13. \A n \in answerable : f[n] = worth(n) OBVIOUS
    <2>6. S # {} /\ S \in SUBSET Nat
        <3> HIDE DEF f
        <3>1. \E i \in answerable : IsBest(i) BY <2>5, <2>13
        <3> HIDE DEF IsBest
        <3>2. S # {} BY <3>1
        <3>3. S \subseteq answerable OBVIOUS
        <3> HIDE DEF S
        <3> QED BY <2>3, <3>2, <3>3
    <2>7. S \subseteq answerable OBVIOUS
    <2>8. best = Min(S) OBVIOUS
    <2> HIDE DEF S, best
    <2>9. best \in DOMAIN records BY <2>1, <2>3, <2>6, <2>7, <2>8, MinIsLeast
    <2>10. Sound(m) BY <2>9 DEF Selection
    <2>11. Within(AnswerObject(object(best), m, QuestionType(q)), Own(m))
        BY <2>10, ObjectWithin, AnswerObjectWithin
    <2>12. Within(answer, Own(m)) BY <2>11, TrimmedWithin
    <2> QED BY <1>4, <2>9, <2>12
<1> QED BY <1>1, <1>2, <1>3, <1>4

-----------------------------------------------------------------------------
(* What is selected are memories that may be used, in some order. *)

\* Every element that is kept was at one of the positions.
KeptFrom(list, positions) ==
    \A p \in DOMAIN Kept(list, positions) :
        \E n \in DOMAIN list : n \in positions /\ Kept(list, positions)[p] = list[n]

LEMMA KeptElements ==
    ASSUME NEW list, IsList(list), NEW positions
    PROVE  KeptFrom(list, positions)
<1> DEFINE chosen == [n \in DOMAIN list |-> IF n \in positions THEN <<list[n]>> ELSE <<>>]
           kept == Kept(list, positions)
<1>1. PICK k \in Nat : DOMAIN list = 1 .. k BY ListFacts
<1>2. kept = FlattenSeq(chosen) BY DEF Kept
<1>3. \A n \in 1 .. k : (n \in positions /\ chosen[n] = <<list[n]>>) \/ chosen[n] = <<>> BY <1>1
<1>4. chosen = [n \in 1 .. k |-> chosen[n]] BY <1>1
<1> HIDE DEF chosen
<1>5. \A n \in 1 .. k : IsList(chosen[n])
    <2> SUFFICES ASSUME NEW n \in 1 .. k PROVE IsList(chosen[n]) OBVIOUS
    <2>1. IsList(<<>>) /\ IsList(<<list[n]>>) BY OneAndNone
    <2> QED BY <1>3, <2>1
<1>6. FromLists(chosen, k) BY <1>4, <1>5, FlatElements
<1> SUFFICES ASSUME NEW p \in DOMAIN kept
             PROVE  \E n \in DOMAIN list : n \in positions /\ kept[p] = list[n]
    BY DEF KeptFrom
<1>7. PICK n \in 1 .. k : \E m \in DOMAIN chosen[n] : kept[p] = chosen[n][m]
    BY <1>2, <1>6 DEF FromLists
<1>8. chosen[n] = <<list[n]>> /\ n \in positions
    <2>1. DOMAIN <<>> = {} OBVIOUS
    <2> QED BY <1>3, <1>7, <2>1
<1>9. DOMAIN <<list[n]>> = {1} /\ <<list[n]>>[1] = list[n] OBVIOUS
<1>10. kept[p] = list[n] BY <1>7, <1>8, <1>9
<1> QED BY <1>1, <1>8, <1>10

\* Before is a total order of scored memories.
LEMMA BeforeIsOrder ==
    ASSUME NEW scored, Selection(scored), NEW h \in DOMAIN scored, NEW i \in DOMAIN scored, NEW j \in DOMAIN scored
    PROVE  /\ ~ Before(scored, i, i)
           /\ i # j => Before(scored, i, j) \/ Before(scored, j, i)
           /\ Before(scored, h, i) /\ Before(scored, i, j) => Before(scored, h, j)
<1>1. DOMAIN scored = 1 .. Len(scored) /\ Len(scored) \in Nat BY ListFacts DEF Selection
<1>2. \A n \in DOMAIN scored : scored[n].score \in Int /\ scored[n].memory.confidence \in Nat
    BY DEF Selection, Sound
<1> QED BY <1>1, <1>2 DEF Before

LEMMA AheadGrows ==
    ASSUME NEW scored, Selection(scored), NEW i \in DOMAIN scored, NEW j \in DOMAIN scored, Before(scored, i, j)
    PROVE  Cardinality(Ahead(scored, i)) < Cardinality(Ahead(scored, j))
<1> DEFINE S == Ahead(scored, i)
           T == Ahead(scored, j)
<1>1. IsFiniteSet(DOMAIN scored) BY ListFacts, UpToIsFinite DEF Selection
<1>2. S \subseteq DOMAIN scored /\ T \subseteq DOMAIN scored BY DEF Ahead
<1>3. IsFiniteSet(S) /\ IsFiniteSet(T) BY <1>1, <1>2, FS_Subset
<1>4. S \subseteq T BY BeforeIsOrder DEF Ahead
<1>5. i \in T /\ i \notin S BY BeforeIsOrder DEF Ahead
<1> HIDE DEF S, T
<1>6. Cardinality(S) <= Cardinality(T) /\ Cardinality(S) # Cardinality(T) BY <1>3, <1>4, <1>5, FS_Subset
<1>7. Cardinality(S) \in Nat /\ Cardinality(T) \in Nat BY <1>3, FS_CardinalityType
<1>8. Cardinality(S) < Cardinality(T) BY <1>6, <1>7
<1> QED BY <1>8 DEF S, T

\* Each place in the ranking is taken.
LEMMA PlacesAreTaken ==
    ASSUME NEW scored, Selection(scored), NEW n \in DOMAIN scored
    PROVE  \E i \in DOMAIN scored : Cardinality(Ahead(scored, i)) = n - 1
<1> DEFINE N == Len(scored)
           D == DOMAIN scored
           places == 0 .. N - 1
           rank == [i \in D |-> Cardinality(Ahead(scored, i))]
<1>1. N \in Nat /\ D = 1 .. N /\ n \in 1 .. N BY ListFacts DEF Selection
<1>2. IsFiniteSet(D) /\ Cardinality(D) = N
    <2>1. 1 \in Int /\ N \in Int BY <1>1
    <2>2. IsFiniteSet(1 .. N) /\ Cardinality(1 .. N) = IF 1 > N THEN 0 ELSE N - 1 + 1 BY <2>1, FS_Interval
    <2> QED BY <1>1, <2>2
<1>3. ASSUME NEW i \in D PROVE Cardinality(Ahead(scored, i)) \in places
    <2>1. Ahead(scored, i) \subseteq D \ {i} BY BeforeIsOrder DEF Ahead
    <2>2. IsFiniteSet(D \ {i}) /\ Cardinality(D \ {i}) = N - 1 BY <1>2, FS_RemoveElement
    <2> HIDE DEF D
    <2>3. /\ IsFiniteSet(Ahead(scored, i))
          /\ Cardinality(Ahead(scored, i)) <= Cardinality(D \ {i})
        BY <2>1, <2>2, FS_Subset
    <2>4. Cardinality(Ahead(scored, i)) \in Nat BY <2>3, FS_CardinalityType
    <2> QED BY <1>1, <2>2, <2>3, <2>4
<1>4. rank \in [D -> places] BY <1>3
<1>5. ASSUME NEW i \in D, NEW j \in D, rank[i] = rank[j] PROVE i = j
    <2>1. Cardinality(Ahead(scored, i)) = Cardinality(Ahead(scored, j)) BY <1>5
    <2>2. Cardinality(Ahead(scored, i)) \in Nat BY <1>1, <1>3
    <2>3. ~ Before(scored, i, j) /\ ~ Before(scored, j, i) BY <2>1, <2>2, AheadGrows
    <2> QED BY <2>3, BeforeIsOrder
<1>6. rank \in Injection(D, places) BY <1>4, <1>5 DEF Injection, IsInjective
<1>7. IsFiniteSet(places) /\ Cardinality(places) = N
    <2>1. 0 \in Int /\ N - 1 \in Int BY <1>1
    <2>2. /\ IsFiniteSet(0 .. N - 1)
          /\ Cardinality(0 .. N - 1) = IF 0 > N - 1 THEN 0 ELSE (N - 1) - 0 + 1
        BY <2>1, FS_Interval
    <2> QED BY <1>1, <2>2
<1> HIDE DEF rank, D, places, N
<1>8. rank \in Surjection(D, places) BY <1>2, <1>6, <1>7, FS_Injection
<1>9. n - 1 \in places BY <1>1 DEF places
<1>10. \E i \in D : rank[i] = n - 1 BY <1>8, <1>9 DEF Surjection
<1> QED BY <1>10 DEF rank, D

LEMMA RankedIsSelection ==
    ASSUME NEW scored, Selection(scored)
    PROVE  Ranked(scored) \in Seq(Range(scored))
<1> DEFINE N == Len(scored)
           At(n) == CHOOSE i \in DOMAIN scored : Cardinality(Ahead(scored, i)) = n - 1
<1>1. N \in Nat /\ DOMAIN scored = 1 .. N BY ListFacts DEF Selection
<1>2. \A n \in 1 .. N : At(n) \in DOMAIN scored BY <1>1, PlacesAreTaken
<1>3. Ranked(scored) = [n \in 1 .. N |-> scored[At(n)]] BY <1>1 DEF Ranked
<1> HIDE DEF At
<1>4. \A n \in 1 .. N : scored[At(n)] \in Range(scored) BY <1>2 DEF Range
<1> HIDE DEF N
<1> QED BY <1>1, <1>3, <1>4

LEMMA PickedIsList ==
    ASSUME NEW X, NEW ranked \in Seq(X), NEW start \in Seq(X), NEW k, NEW oneOfADay
    PROVE  Picked(ranked, k, oneOfADay, start) \in Seq(X)
<1> DEFINE n == Len(ranked)
           Chosen(i, s) == IF Passed(s, ranked[i], k, oneOfADay) THEN s ELSE Append(s, ranked[i])
           step == [p \in (1 .. n) \X Seq(X) |-> Chosen(p[1], p[2])]
           Pick(f) == [i \in 0 .. n |-> IF i = 0 THEN start ELSE Chosen(i, f[i - 1])]
           pick == CHOOSE f : f = Pick(f)
<1>1. n \in Nat /\ \A i \in 1 .. n : ranked[i] \in X OBVIOUS
<1>2. \A i \in 1 .. n, s \in Seq(X) : Chosen(i, s) \in Seq(X) BY <1>1
<1>3. \A i \in 1 .. n, s \in Seq(X) : step[<<i, s>>] = Chosen(i, s)
    <2> SUFFICES ASSUME NEW i \in 1 .. n, NEW s \in Seq(X) PROVE step[<<i, s>>] = Chosen(i, s) OBVIOUS
    <2>1. <<i, s>> \in (1 .. n) \X Seq(X) /\ <<i, s>>[1] = i /\ <<i, s>>[2] = s OBVIOUS
    <2> HIDE DEF Chosen
    <2> QED BY <2>1
<1>4. Picked(ranked, k, oneOfADay, start) = pick[n] BY DEF Picked
<1> HIDE DEF Chosen
<1>5. step \in [(1 .. n) \X Seq(X) -> Seq(X)]
    <2>1. \A p \in (1 .. n) \X Seq(X) : Chosen(p[1], p[2]) \in Seq(X) BY <1>2
    <2> QED BY <2>1
<1> HIDE DEF step
<1>6. PICK F \in [0 .. n -> Seq(X)] : Along(F, n, start, step)
    <2> HIDE DEF n
    <2> QED BY <1>1, <1>5, RecursionAlong
<1>7. F[0] = start /\ \A i \in 1 .. n : F[i] = Chosen(i, F[i - 1])
    <2>1. \A i \in 1 .. n : i - 1 \in 0 .. n BY <1>1
    <2> QED BY <1>3, <1>6, <2>1 DEF Along
<1>8. F = Pick(F)
    <2>1. \A i \in 0 .. n : F[i] = IF i = 0 THEN start ELSE Chosen(i, F[i - 1])
        <3>1. \A i \in 0 .. n : i = 0 \/ i \in 1 .. n BY <1>1
        <3> QED BY <1>7, <3>1
    <2> QED BY <2>1
<1>9. pick = Pick(pick) BY <1>8
<1> HIDE DEF pick
<1>10. pick[0] = start /\ \A i \in 1 .. n : pick[i] = Chosen(i, pick[i - 1])
    <2>1. \A i \in 0 .. n : pick[i] = IF i = 0 THEN start ELSE Chosen(i, pick[i - 1])
        <3> HIDE DEF Pick
        <3>1. \A i \in 0 .. n : Pick(pick)[i] = IF i = 0 THEN start ELSE Chosen(i, pick[i - 1]) BY DEF Pick
        <3> QED BY <1>9, <3>1
    <2>2. 0 \in 0 .. n /\ \A i \in 1 .. n : i \in 0 .. n /\ i # 0 BY <1>1
    <2> QED BY <2>1, <2>2
<1> DEFINE S == {i \in 0 .. n : pick[i] \in Seq(X)}
<1>11. 0 \in S BY <1>1, <1>10
<1>12. ASSUME NEW i \in 0 .. n - 1, i \in S PROVE i + 1 \in S
    <2>1. i + 1 \in 1 .. n /\ i + 1 \in 0 .. n /\ (i + 1) - 1 = i BY <1>1
    <2>2. pick[i + 1] = Chosen(i + 1, pick[i]) BY <1>10, <2>1
    <2> QED BY <1>2, <1>12, <2>1, <2>2
<1>13. 0 .. n \subseteq S
    <2> HIDE DEF S, n
    <2> QED BY <1>1, <1>11, <1>12, StepByStep
<1>14. pick[n] \in Seq(X) BY <1>1, <1>13
<1> QED BY <1>4, <1>14

LEMMA DiverseIsSelection ==
    ASSUME NEW scored, Selection(scored), NEW k
    PROVE  DiverseTopK(Ranked(scored), k) \in Seq(Range(scored))
<1> DEFINE X == Range(scored)
           ranked == Ranked(scored)
           spread == Picked(ranked, k, Len(ranked) > k, <<>>)
<1>1. ranked \in Seq(X) BY RankedIsSelection
<1>2. <<>> \in Seq(X) OBVIOUS
<1> HIDE DEF X, ranked
<1>3. spread \in Seq(X) BY <1>1, <1>2, PickedIsList
<1> HIDE DEF spread
<1>4. Picked(ranked, k, FALSE, spread) \in Seq(X) BY <1>1, <1>3, PickedIsList
<1> QED BY <1>4 DEF DiverseTopK, spread, ranked, X

-----------------------------------------------------------------------------
(* Scores are numbers, and what is selected may be used. *)

LEMMA RelationMatchIsNumber == ASSUME NEW q, NEW m PROVE RelationMatch(q, m) \in Nat
<1> DEFINE parts == Pieces(m.relation) \ Stopwords
           asks(cues) == q.all \cap cues # {}
           is(kinds) == parts \cap kinds # {}
           a == asks(parts)
           b == /\ asks({"Where", "live", "stay", "move", "moved", "from", "location"})
                /\ is({"location", "home", "address"})
           c == /\ asks({"When", "time", "date", "day", "before", "after"})
                /\ \/ is({"time", "date", "day", "plan", "event", "schedule"})
                   \/ OpenTokens(m.object) \cap TemporalWords # {}
           d == /\ asks({"relationship", "status", "friend", "dating", "married"})
                /\ \/ m.relation = "relationship_status"
                   \/ ClaimTokens(m) \cap {"friend", "dating", "married"} # {}
           e == asks({"like", "likes"}) /\ m.relation \in {"likes", "dislikes"}
           f == asks({"drink"}) /\ m.relation \in {"habit", "routine", "likes"}
           g == asks({"career", "plan", "goal"}) /\ is({"career", "job", "plan", "goal", "attribute"})
<1> DEFINE rules == <<
              [if |-> a, then |-> 8000], [if |-> b, then |-> 10000], [if |-> c, then |-> 8000],
              [if |-> d, then |-> 10000], [if |-> e, then |-> 10000], [if |-> f, then |-> 9000],
              [if |-> g, then |-> 8000]>>
<1>2. DOMAIN rules = 1 .. 7 OBVIOUS
<1>3. \A n \in 1 .. 7 : n = 1 \/ n = 2 \/ n = 3 \/ n = 4 \/ n = 5 \/ n = 6 \/ n = 7 OBVIOUS
<1>4. /\ rules[1].then = 8000 /\ rules[2].then = 10000 /\ rules[3].then = 8000 /\ rules[4].then = 10000
      /\ rules[5].then = 10000 /\ rules[6].then = 9000 /\ rules[7].then = 8000
    OBVIOUS
<1>5. RelationMatch(q, m) = FirstThat(rules, 0) BY SMT DEF RelationMatch
<1> HIDE DEF rules
<1>6. FirstThat(rules, 0) = 0 \/ \E n \in 1 .. 7 : FirstThat(rules, 0) = rules[n].then
    BY <1>2, FirstThatIsOne
<1> QED BY <1>3, <1>4, <1>5, <1>6

LEMMA ScoreIsNumber ==
    ASSUME NEW q, NEW m, NEW latest, NEW content \in Int
    PROVE  ScoreOf(q, m, latest, content) \in Int
<1> DEFINE relation == RelationMatch(q, m)
           entity == IF m.subject \in q.all THEN 1 ELSE 0
           temporal == TemporalMatch(q, m)
           recency == Recency(q, m, latest)
           kind == KindWeight(m.kind)
           penalty == IF q.strong /\ relation = 0 THEN 1200 ELSE 0
           sum == (45 * content + 24 * relation + 10 * temporal) \div 100
                  + 1800 * entity + recency + kind - penalty
<1>1. relation \in Int BY RelationMatchIsNumber
<1>2. temporal \in Int BY DEF TemporalMatch
<1>3. recency \in Int BY DEF Recency
<1>4. kind \in Int BY DEF KindWeight
<1>5. entity \in Int /\ penalty \in Int OBVIOUS
<1>6. ScoreOf(q, m, latest, content) = Clamped(sum) BY DEF ScoreOf
<1> HIDE DEF relation, entity, temporal, recency, kind, penalty
<1>7. sum \in Int BY <1>1, <1>2, <1>3, <1>4, <1>5
<1> HIDE DEF sum
<1>8. Clamped(sum) \in Int BY <1>7 DEF Clamped
<1> QED BY <1>6, <1>8

LEMMA OverlapIsNumber ==
    ASSUME NEW question, IsList(question), NEW m
    PROVE  Overlap(Query(question), m) \in Int
<1> DEFINE content == Query(question).content
           shared == content \cap ClaimTokens(m)
<1>1. IsFiniteSet(OpenTokens(question)) BY TokensAreFinite, FS_Subset DEF OpenTokens
<1>2. content \subseteq OpenTokens(question) BY DEF Query
<1>3. IsFiniteSet(content) BY <1>1, <1>2, FS_Subset
<1>4. IsFiniteSet(shared) BY <1>3, FS_Subset
<1>5. Overlap(Query(question), m)
      = IF content = {} THEN 0 ELSE (10000 * Cardinality(shared)) \div Cardinality(content)
    BY DEF Overlap
<1> HIDE DEF content, shared
<1>6. Cardinality(shared) \in Nat /\ Cardinality(content) \in Nat BY <1>3, <1>4, FS_CardinalityType
<1>7. content # {} => Cardinality(content) # 0 BY <1>3, FS_EmptySet
<1> QED BY <1>5, <1>6, <1>7

\* What extraction leaves: memories that are sound, with scores for each.
Memories(memories) == IsList(memories) /\ \A n \in DOMAIN memories : Sound(memories[n])

LEMMA ContentIsNumber ==
    ASSUME Bm25Scores \subseteq Nat, NEW planner, NEW memories, NEW question, IsList(question),
           NEW f \in ContentScores(planner, memories, question), NEW n \in DOMAIN memories
    PROVE  f[memories[n].id] \in Int
<1> DEFINE ids == {memories[k].id : k \in DOMAIN memories}
           Of(id) == memories[CHOOSE k \in DOMAIN memories : memories[k].id = id]
<1>1. memories[n].id \in ids OBVIOUS
<1>2. CASE planner.bm25
    <2>1. PICK matching : \E g \in [matching -> Bm25Scores] : f = [id \in ids |-> IF id \in matching THEN g[id] ELSE 0]
        BY <1>2 DEF ContentScores
    <2>2. PICK g \in [matching -> Bm25Scores] : f = [id \in ids |-> IF id \in matching THEN g[id] ELSE 0]
        BY <2>1
    <2> HIDE DEF ids
    <2>3. f[memories[n].id] = IF memories[n].id \in matching THEN g[memories[n].id] ELSE 0 BY <1>1, <2>2
    <2>4. memories[n].id \in matching => g[memories[n].id] \in Nat OBVIOUS
    <2> QED BY <2>3, <2>4
<1>3. CASE ~ planner.bm25
    <2>1. f = [id \in ids |-> Overlap(Query(question), Of(id))] BY <1>3 DEF ContentScores
    <2> HIDE DEF Of
    <2>2. f[memories[n].id] = Overlap(Query(question), Of(memories[n].id)) BY <1>1, <2>1
    <2> QED BY <2>2, OverlapIsNumber
<1> QED BY <1>2, <1>3

\* What may be told of a selection.
Usable(records) == Selection(records) /\ \A n \in DOMAIN records : records[n].memory.reason = ""

LEMMA ScoredIsUsable ==
    ASSUME Bm25Scores \subseteq Nat, NEW planner, NEW memories, Memories(memories),
           NEW question, IsList(question), NEW content \in ContentScores(planner, memories, question)
    PROVE  Usable(Scored(planner, memories, question, content))
<1> DEFINE q == Query(question)
           latest == LatestDay(memories)
           at == {n \in DOMAIN memories :
                     memories[n].reason = "" /\ (memories[n].kind = "episode" => planner.verbatim)}
           all == Kept(memories, at)
           scored == [n \in DOMAIN all |->
                         [memory |-> all[n], score |-> ScoreOf(q, all[n], latest, content[all[n].id])]]
           worth == {n \in DOMAIN scored : scored[n].score > 0}
           X == {s \in Range(scored) : Sound(s.memory) /\ s.score \in Int /\ s.memory.reason = ""}
<1>1. Scored(planner, memories, question, content) = Kept(scored, worth) BY DEF Scored, Candidates
<1>2. IsList(all) /\ KeptFrom(memories, at) BY KeptIsList, KeptElements DEF Memories
<1>3. \A n \in DOMAIN all : \E k \in DOMAIN memories : k \in at /\ all[n] = memories[k]
    BY <1>2 DEF KeptFrom
<1>4. Len(all) \in Nat /\ DOMAIN all = 1 .. Len(all) BY <1>2, ListFacts
<1>5. ASSUME NEW n \in DOMAIN all
      PROVE  Sound(all[n]) /\ all[n].reason = "" /\ content[all[n].id] \in Int
    <2>1. PICK k \in DOMAIN memories : k \in at /\ all[n] = memories[k] BY <1>3
    <2>2. Sound(memories[k]) /\ memories[k].reason = "" BY <2>1 DEF Memories
    <2>3. content[memories[k].id] \in Int BY ContentIsNumber
    <2> QED BY <2>1, <2>2, <2>3
<1> HIDE DEF all, at
<1>6. ASSUME NEW n \in DOMAIN scored
      PROVE  Sound(scored[n].memory) /\ scored[n].score \in Int /\ scored[n].memory.reason = ""
    <2>1. ScoreOf(q, all[n], latest, content[all[n].id]) \in Int BY <1>5, ScoreIsNumber
    <2> QED BY <1>5, <2>1
<1>7. scored = [n \in 1 .. Len(all) |-> scored[n]] BY <1>4
<1> HIDE DEF scored
<1>8. \A n \in 1 .. Len(all) : scored[n] \in X BY <1>4, <1>6, <1>7 DEF Range
<1> HIDE DEF X
<1>9. scored \in Seq(X) BY <1>4, <1>7, <1>8
<1>10. IsList(scored) BY <1>9, ListOver
<1> DEFINE kept == Kept(scored, worth)
<1> HIDE DEF worth
<1>11. IsList(kept) /\ KeptFrom(scored, worth) BY <1>10, KeptIsList, KeptElements
<1>12. ASSUME NEW n \in DOMAIN kept
       PROVE  Sound(kept[n].memory) /\ kept[n].score \in Int /\ kept[n].memory.reason = ""
    <2>1. PICK k \in DOMAIN scored : kept[n] = scored[k] BY <1>11 DEF KeptFrom
    <2> QED BY <1>6, <2>1
<1> QED BY <1>1, <1>11, <1>12 DEF Usable, Selection

LEMMA RetrievedIsUsable ==
    ASSUME Bm25Scores \subseteq Nat, NEW planner, NEW memories, Memories(memories),
           NEW question, IsList(question), NEW content \in ContentScores(planner, memories, question), NEW k
    PROVE  LET result == Retrieve(planner, memories, question, content, k) IN
           /\ Usable(result.selected)
           /\ result.reason = "" => result.selected # <<>> /\ result.provenance # {}
<1> DEFINE result == Retrieve(planner, memories, question, content, k)
           scored == Scored(planner, memories, question, content)
           selected == DiverseTopK(Ranked(scored), k)
<1>1. Usable(scored) BY ScoredIsUsable
<1>2. result.selected = selected BY DEF Retrieve
<1>3. /\ result.reason = "" => selected # <<>>
      /\ result.reason = "" => result.provenance = UNION {selected[n].memory.evidence : n \in DOMAIN selected}
    BY DEF Retrieve
<1> HIDE DEF result, scored
<1>4. selected \in Seq(Range(scored)) BY <1>1, DiverseIsSelection DEF Usable
<1> HIDE DEF selected
<1>5. IsList(selected) /\ Range(selected) \subseteq Range(scored) BY <1>4, ListOver
<1>6. ASSUME NEW n \in DOMAIN selected
      PROVE  /\ Sound(selected[n].memory) /\ selected[n].score \in Int
             /\ selected[n].memory.reason = ""
    <2>1. selected[n] \in Range(scored) BY <1>5 DEF Range
    <2>2. PICK m \in DOMAIN scored : selected[n] = scored[m] BY <2>1 DEF Range
    <2> QED BY <1>1, <2>2 DEF Usable, Selection
<1>7. Usable(selected) BY <1>5, <1>6 DEF Usable, Selection
<1>8. ASSUME result.reason = "" PROVE selected # <<>> /\ result.provenance # {}
    <2>1. selected # <<>> BY <1>3, <1>8
    <2>2. selected \in Seq(Range(selected)) BY <1>5 DEF IsList
    <2>3. 1 \in DOMAIN selected BY <2>1, <2>2
    <2>4. selected[1].memory.evidence # {} BY <1>6, <2>3 DEF Sound
    <2> QED BY <1>3, <1>8, <2>1, <2>3, <2>4
<1> QED BY <1>2, <1>7, <1>8 DEF result

-----------------------------------------------------------------------------
(* The answers of each mode. *)

\* The turns as they were told, and what a selection says of itself and rests on.
Turned(turns) == IsList(turns) /\ \A n \in DOMAIN turns : IsList(turns[n].text)
SelectedWords(records) == UNION {Own(records[n].memory) : n \in DOMAIN records}
ToldWords(turns, records) == UNION {Tokens(EvidenceText(turns, records[n].memory)) : n \in DOMAIN records}

\* An answer that is given is a reply, or in such words, and retrieval had no objection.
Accounted(given, result, reply, words) ==
    given.answer # ABSTAIN =>
        /\ result.reason = ""
        /\ given.answer = reply \/ Tokens(given.answer) \subseteq words

LEMMA EvidenceIsList ==
    ASSUME NEW turns, Turned(turns), NEW m, Sound(m)
    PROVE  IsList(EvidenceText(turns, m))
<1> DEFINE rests == {n \in DOMAIN turns : turns[n].id \in m.evidence}
<1>1. CASE m.kind = "episode" \/ rests = {} BY <1>1 DEF EvidenceText, Sound
<1>2. CASE ~ (m.kind = "episode" \/ rests = {})
    <2>1. Len(turns) \in Nat /\ DOMAIN turns = 1 .. Len(turns) BY ListFacts DEF Turned
    <2>2. rests \in SUBSET Nat /\ rests \subseteq DOMAIN turns BY <2>1
    <2>3. EvidenceText(turns, m) = turns[Min(rests)].text BY <1>2 DEF EvidenceText
    <2>4. rests # {} BY <1>2
    <2> HIDE DEF rests
    <2>5. Min(rests) \in DOMAIN turns BY <2>2, <2>4, MinIsLeast
    <2> QED BY <2>3, <2>5 DEF Turned
<1> QED BY <1>1, <1>2

LEMMA HeadIsFirst ==
    ASSUME NEW s, IsList(s), s # <<>>
    PROVE  1 \in 1 .. Len(s) /\ Head(s) = s[1]
BY DEF IsList

LEMMA TwoBefore ==
    ASSUME NEW X, NEW x \in X, NEW y \in X, NEW k \in Nat, NEW rest, rest = [n \in 1 .. k |-> rest[n]],
           \A n \in 1 .. k : rest[n] \in X
    PROVE  <<x, y>> \o rest \in Seq(X)
<1>1. rest \in Seq(X) OBVIOUS
<1>2. <<x, y>> \in Seq(X) OBVIOUS
<1> QED BY <1>1, <1>2, Concatenated

LEMMA RefusedIsAccounted ==
    ASSUME NEW why, NEW result, NEW reply, NEW words
    PROVE  Accounted(Refused(why), result, reply, words)
BY DEF Accounted, Refused

LEMMA AnsweredIsAccounted ==
    ASSUME NEW text, NEW words, Within(text, words), NEW why, NEW result, result.reason = "", NEW reply
    PROVE  Accounted(Answered(text, why), result, reply, words)
BY DEF Accounted, Answered, Within

LEMMA ReplyIsAccounted ==
    ASSUME NEW reply, NEW why, NEW result, result.reason = "", NEW words
    PROVE  Accounted(Answered(reply, why), result, reply, words)
BY DEF Accounted, Answered

LEMMA Joined ==
    ASSUME NEW s, NEW t, NEW words, Within(s, words), Within(t, words)
    PROVE  Within(s \o t, words)
<1> DEFINE X == Range(s) \cup Range(t)
<1>1. IsList(s) /\ IsList(t) BY DEF Within
<1>2. Range(s) \subseteq X /\ Range(t) \subseteq X OBVIOUS
<1> HIDE DEF X
<1>3. s \in Seq(X) /\ t \in Seq(X) BY <1>1, <1>2 DEF IsList
<1>4. s \o t \in Seq(X) BY <1>3
<1>5. IsList(s \o t) /\ Range(s \o t) \subseteq X BY <1>4, ListOver
<1>6. ASSUME NEW w \in Range(s \o t), Bare(w) # "|" PROVE Bare(w) \in words
    <2>1. w \in Range(s) \/ w \in Range(t) BY <1>5 DEF X
    <2> QED BY <1>6, <2>1 DEF Within, Tokens
<1> QED BY <1>5, <1>6 DEF Within, Tokens

LEMMA FlatWithin ==
    ASSUME NEW k \in Nat, NEW lists, lists = [n \in 1 .. k |-> lists[n]], NEW words,
           \A n \in 1 .. k : Within(lists[n], words)
    PROVE  Within(FlattenSeq(lists), words)
<1> DEFINE flat == FlattenSeq(lists)
<1>1. \A n \in 1 .. k : IsList(lists[n]) BY DEF Within
<1>2. IsList(flat) /\ FromLists(lists, k) BY <1>1, FlatPrefixes, FlatElements
<1>3. ASSUME NEW w \in Range(flat), Bare(w) # "|" PROVE Bare(w) \in words
    <2>1. PICK p \in DOMAIN flat : w = flat[p] BY DEF Range
    <2>2. PICK n \in 1 .. k : \E m \in DOMAIN lists[n] : flat[p] = lists[n][m] BY <1>2 DEF FromLists
    <2>3. w \in Range(lists[n]) BY <2>1, <2>2 DEF Range
    <2> QED BY <1>3, <2>3 DEF Within, Tokens
<1> QED BY <1>2, <1>3 DEF Within, Tokens

LEMMA NormalIsAccounted ==
    ASSUME NEW result, Selection(result.selected), NEW reply
    PROVE  Accounted(NormalAnswer(result), result, reply, SelectedWords(result.selected))
<1> DEFINE records == result.selected
           k == Len(records)
           words == SelectedWords(records)
           claims == [n \in DOMAIN records |-> (IF n = 1 THEN <<>> ELSE <<"|">>) \o records[n].memory.claim]
<1>1. CASE result.reason # "" BY <1>1, RefusedIsAccounted DEF NormalAnswer
<1>2. CASE result.reason = ""
    <2>1. k \in Nat /\ DOMAIN records = 1 .. k BY ListFacts DEF Selection
    <2>2. NormalAnswer(result) = Answered(FlattenSeq(claims), "") BY <1>2 DEF NormalAnswer
    <2>3. Within(<<"|">>, words) /\ Within(<<>>, words)
        <3>1. IsList(<<"|">>) /\ Range(<<"|">>) = {"|"} BY OneAndNone
        <3>2. Tokens(<<"|">>) = {} BY <3>1, BareTwice DEF Tokens
        <3> QED BY <3>1, <3>2, EmptyText DEF Within
    <2>4. ASSUME NEW n \in 1 .. k PROVE Within(claims[n], words)
        <3>1. Sound(records[n].memory) /\ n \in DOMAIN records BY <2>1 DEF Selection
        <3>2. Own(records[n].memory) \subseteq words BY <3>1 DEF SelectedWords
        <3>3. Within(records[n].memory.claim, words) BY <3>1, <3>2, OwnTexts, WithinMore
        <3>4. claims[n] = <<>> \o records[n].memory.claim \/ claims[n] = <<"|">> \o records[n].memory.claim
            BY <3>1
        <3> HIDE DEF claims, words
        <3> QED BY <2>3, <3>3, <3>4, Joined
    <2>5. claims = [n \in 1 .. k |-> claims[n]] BY <2>1
    <2> HIDE DEF claims, k, words
    <2>6. Within(FlattenSeq(claims), words) BY <2>1, <2>4, <2>5, FlatWithin
    <2>7. Accounted(NormalAnswer(result), result, reply, words) BY <1>2, <2>2, <2>6, AnsweredIsAccounted
    <2> QED BY <2>7 DEF words
<1> QED BY <1>1, <1>2

LEMMA TemplateWithin ==
    ASSUME NEW q, Question(q), NEW records, Selection(records), Direct(Synthesis(q, records))
    PROVE  Within(Synthesis(q, records).answer, SelectedWords(records))
<1> DEFINE answer == Synthesis(q, records).answer
<1>1. answer # ABSTAIN BY DEF Direct
<1>2. PICK n \in DOMAIN records : Within(answer, Own(records[n].memory)) BY <1>1, SynthesisWithin
<1>3. Own(records[n].memory) \subseteq SelectedWords(records) BY DEF SelectedWords
<1> QED BY <1>2, <1>3, WithinMore

LEMMA DiagnosticIsAccounted ==
    ASSUME NEW q, Question(q), NEW result, Selection(result.selected), NEW reply
    PROVE  Accounted(DiagnosticAnswer(q, result), result, reply, SelectedWords(result.selected))
<1> DEFINE synthesis == Synthesis(q, result.selected)
           text == IF Direct(synthesis) THEN synthesis.answer ELSE <<>>
<1>1. CASE result.reason # "" BY <1>1, RefusedIsAccounted DEF DiagnosticAnswer
<1>2. CASE result.reason = ""
    <2>1. DiagnosticAnswer(q, result) = Answered(text, "no_direct_answer") BY <1>2 DEF DiagnosticAnswer
    <2>2. Within(text, SelectedWords(result.selected)) BY TemplateWithin, EmptyText
    <2> HIDE DEF text
    <2> QED BY <1>2, <2>1, <2>2, AnsweredIsAccounted
<1> QED BY <1>1, <1>2

LEMMA SpanInWithin ==
    ASSUME NEW turns, Turned(turns), NEW q, Question(q), NEW records, Selection(records)
    PROVE  Within(SpanIn(turns, q, records), ToldWords(turns, records))
<1> DEFINE spans == [n \in DOMAIN records |->
                        ExtractiveSpan(q, EvidenceText(turns, records[n].memory), QuestionType(q))]
           k == Len(records)
           words == ToldWords(turns, records)
<1>1. k \in Nat /\ DOMAIN records = 1 .. k BY ListFacts DEF Selection
<1>2. SpanIn(turns, q, records) = Cascade(spans) BY DEF SpanIn
<1>3. ASSUME NEW n \in 1 .. k PROVE Within(spans[n], words)
    <2> DEFINE text == EvidenceText(turns, records[n].memory)
    <2>1. n \in DOMAIN records /\ Sound(records[n].memory) BY <1>1 DEF Selection
    <2>2. IsList(text) BY <2>1, EvidenceIsList
    <2>3. Tokens(text) \subseteq words BY <2>1 DEF ToldWords
    <2>4. spans[n] = ExtractiveSpan(q, text, QuestionType(q)) BY <2>1
    <2> HIDE DEF text, spans, words
    <2>5. Within(spans[n], Tokens(text)) BY <2>2, <2>4, QuestionTypes, SpanWithin DEF Question
    <2> QED BY <2>3, <2>5, WithinMore
<1>4. DOMAIN spans = 1 .. k BY <1>1
<1> HIDE DEF spans, words, k
<1>5. Within(Cascade(spans), words) BY <1>1, <1>3, <1>4, FirstWithin
<1> QED BY <1>2, <1>5 DEF words

LEMMA SynthesisIsAccounted ==
    ASSUME NEW turns, Turned(turns), NEW q, Question(q), NEW result, Selection(result.selected), NEW reply
    PROVE  Accounted(SynthesisAnswer(q, turns, result), result, reply,
                     SelectedWords(result.selected) \cup ToldWords(turns, result.selected))
<1> DEFINE records == result.selected
           synthesis == Synthesis(q, records)
           given == SynthesisAnswer(q, turns, result)
           words == SelectedWords(records) \cup ToldWords(turns, records)
<1>1. \/ \E why : given = Refused(why)
      \/ result.reason = "" /\ Direct(synthesis) /\ given = Answered(synthesis.answer, "")
      \/ result.reason = "" /\ given = Answered(SpanIn(turns, q, records), "no_answer")
    BY DEF SynthesisAnswer
<1>2. ASSUME NEW why, given = Refused(why) PROVE Accounted(given, result, reply, words)
    BY <1>2, RefusedIsAccounted
<1>3. ASSUME result.reason = "", Direct(synthesis), given = Answered(synthesis.answer, "")
      PROVE  Accounted(given, result, reply, words)
    <2>2. Within(synthesis.answer, SelectedWords(records)) BY <1>3, TemplateWithin
    <2>3. SelectedWords(records) \subseteq words OBVIOUS
    <2>1. Within(synthesis.answer, words) BY <2>2, <2>3, WithinMore
    <2> HIDE DEF words, synthesis, given
    <2> QED BY <1>3, <2>1, AnsweredIsAccounted
<1>4. ASSUME result.reason = "", given = Answered(SpanIn(turns, q, records), "no_answer")
      PROVE  Accounted(given, result, reply, words)
    <2>1. Within(SpanIn(turns, q, records), words) BY SpanInWithin, WithinMore
    <2> HIDE DEF words, given
    <2> QED BY <1>4, <2>1, AnsweredIsAccounted
<1> QED BY <1>1, <1>2, <1>3, <1>4

LEMMA LlmIsAccounted ==
    ASSUME NEW turns, Turned(turns), NEW q, Question(q), NEW result, Selection(result.selected),
           result.reason = "" => result.selected # <<>>, NEW reply
    PROVE  Accounted(LlmAnswer(q, turns, result, reply), result, reply,
                     SelectedWords(result.selected) \cup ToldWords(turns, result.selected))
<1> DEFINE records == result.selected
           k == Len(records)
           words == SelectedWords(records) \cup ToldWords(turns, records)
           object(s) == IF s.memory.kind = "episode" THEN ObjectOf(s.memory) ELSE s.memory.object
           text(s) == Cascade(<<object(s), EvidenceText(turns, s.memory)>>)
           spans == [n \in DOMAIN records |-> ExtractiveSpan(q, text(records[n]), QuestionType(q))]
           top == object(Head(records))
           asked == <<reply, top>>
           found == Cascade(asked \o spans)
           given == LlmAnswer(q, turns, result, reply)
<1>1. CASE result.reason # "" BY <1>1, RefusedIsAccounted DEF LlmAnswer
<1>2. CASE result.reason = ""
    <2>1. k \in Nat /\ DOMAIN records = 1 .. k BY ListFacts DEF Selection
    <2>2. given = Answered(found, "llm_no_answer") BY <1>2 DEF LlmAnswer
    <2>3. ASSUME NEW n \in 1 .. k
          PROVE  Within(object(records[n]), words) /\ Within(EvidenceText(turns, records[n].memory), words)
        <3> DEFINE m == records[n].memory
        <3>1. n \in DOMAIN records /\ Sound(m) BY <2>1 DEF Selection
        <3>2. Within(object(records[n]), Own(m)) BY <3>1, ObjectWithin, OwnTexts
        <3>3. Own(m) \subseteq words BY <3>1 DEF SelectedWords
        <3>4. Within(EvidenceText(turns, m), Tokens(EvidenceText(turns, m)))
            BY <3>1, EvidenceIsList, TextItself
        <3>5. Tokens(EvidenceText(turns, m)) \subseteq words BY <3>1 DEF ToldWords
        <3> HIDE DEF words, object
        <3> QED BY <3>2, <3>3, <3>4, <3>5, WithinMore
    <2>4. ASSUME NEW n \in 1 .. k PROVE Within(spans[n], words)
        <3> DEFINE a == object(records[n])
                   b == EvidenceText(turns, records[n].memory)
                   t == text(records[n])
        <3>1. t = Cascade(<<a, b>>) OBVIOUS
        <3>2. Within(a, words) /\ Within(b, words) BY <2>3
        <3>3. spans[n] = ExtractiveSpan(q, t, QuestionType(q)) BY <2>1
        <3> HIDE DEF a, b, t, words, spans
        <3>4. t = Either(a, b) BY <3>1, CascadeOfTwo
        <3>5. Within(t, words) BY <3>2, <3>4, EitherWithin
        <3>6. Within(spans[n], Tokens(t)) BY <3>3, <3>5, QuestionTypes, SpanWithin DEF Question, Within
        <3> QED BY <3>5, <3>6, PartOfWithin
    <2>5. Within(top, words)
        <3>1. records # <<>> /\ IsList(records) BY <1>2 DEF Selection
        <3>2. 1 \in 1 .. k /\ Head(records) = records[1] BY <3>1, HeadIsFirst
        <3> QED BY <2>3, <3>2
    <2> DEFINE X == {reply, top} \cup {spans[n] : n \in 1 .. k}
               all == asked \o spans
    <2>6. spans = [n \in 1 .. k |-> spans[n]] BY <2>1
    <2>7. reply \in X /\ top \in X /\ \A n \in 1 .. k : spans[n] \in X OBVIOUS
    <2>8. \A x \in X : x = reply \/ Within(x, words) BY <2>4, <2>5
    <2> HIDE DEF spans, top, words, X
    <2>11. all \in Seq(X)
        <3> HIDE DEF k
        <3> QED BY <2>1, <2>6, <2>7, TwoBefore
    <2> HIDE DEF all
    <2>9. IsList(all) /\ Range(all) \subseteq X BY <2>11, ListOver
    <2>12. Len(all) \in Nat /\ DOMAIN all = 1 .. Len(all) /\ \A n \in 1 .. Len(all) : all[n] \in X
        BY <2>9, ListFacts
    <2>13. found = <<>> \/ \E n \in 1 .. Len(all) : found = all[n]
        <3>1. found = Cascade(all) BY DEF all
        <3> QED BY <2>12, <3>1, CascadeChooses
    <2>14. found = reply \/ Within(found, words) BY <2>8, <2>12, <2>13, EmptyText
    <2> HIDE DEF found
    <2>15. CASE found = reply BY <1>2, <2>2, <2>15, ReplyIsAccounted DEF words
    <2>16. CASE Within(found, words) BY <1>2, <2>2, <2>16, AnsweredIsAccounted DEF words
    <2> QED BY <2>14, <2>15, <2>16 DEF words
<1> QED BY <1>1, <1>2

-----------------------------------------------------------------------------
(* Where a question that is missed went wrong. *)

LEMMA MissIsLaid ==
    ASSUME NEW question, ~ ExpectsAbstention(question), question.evidence # {},
           NEW memories, NEW result, NEW given
    PROVE  LET stage == Diagnosis(question, memories, result, given) IN
           \/ stage.labels # {}
           \/ /\ stage.decision \in {"answered_with_evidence", "low_confidence"}
              /\ given.answer = Synthesis(question.words, result.selected).answer
<1> DEFINE stored == \E n \in DOMAIN memories :
                         memories[n].kind # "episode" /\ memories[n].evidence \cap question.evidence # {}
           hit == \E n \in DOMAIN result.selected : result.selected[n].memory.evidence \cap question.evidence # {}
           abstains == given.answer = ABSTAIN
           answerable == ~ ExpectsAbstention(question)
           template == Synthesis(question.words, result.selected).answer
           stage == Diagnosis(question, memories, result, given)
           rules == <<
            [if |-> ~ answerable, then |-> IF abstains THEN "correct_abstention" ELSE "answered_expected_abstain"],
            [if |-> ~ stored, then |-> IF abstains THEN "safe_abstention" ELSE "unsafe_answer"],
            [if |-> ~ hit, then |-> IF abstains THEN "safe_abstention" ELSE "wrong_memory_answer"],
            [if |-> result.confidence < 2000, then |-> "low_confidence"]>>
           otherwise == IF abstains THEN "abstention_with_evidence" ELSE "answered_with_evidence"
<1>1. stage.decision = FirstThat(rules, otherwise) BY DEF Diagnosis
<1>2. /\ ~ stored => "missing_extraction" \in stage.labels
      /\ stored /\ ~ hit => "retrieval_miss" \in stage.labels
      /\ hit /\ template = ABSTAIN => "answer_synthesis_failed" \in stage.labels
      /\ hit /\ template # ABSTAIN /\ given.answer # template => "format_mismatch" \in stage.labels
    BY DEF Diagnosis
<1>3. CASE stored /\ hit /\ template # ABSTAIN /\ given.answer = template
    <2> HIDE DEF stored, hit, template
    <2>1. rules[1].if = ~ answerable /\ rules[2].if = ~ stored /\ rules[3].if = ~ hit OBVIOUS
    <2>2. DOMAIN rules = 1 .. 4 /\ rules[4].then = "low_confidence" OBVIOUS
    <2>6. ~ rules[1].if /\ ~ rules[2].if /\ ~ rules[3].if BY <1>3, <2>1
    <2>3. otherwise = "answered_with_evidence" BY <1>3
    <2>4. \A n \in 1 .. 4 : n = 1 \/ n = 2 \/ n = 3 \/ n = 4 OBVIOUS
    <2> HIDE DEF rules, otherwise
    <2>5. \/ FirstThat(rules, otherwise) = otherwise
          \/ \E n \in 1 .. 4 : FirstThat(rules, otherwise) = rules[n].then /\ rules[n].if
        BY <2>2, FirstThatChooses
    <2>7. FirstThat(rules, otherwise) = "low_confidence" \/ FirstThat(rules, otherwise) = "answered_with_evidence"
        BY <2>2, <2>3, <2>4, <2>5, <2>6
    <2>8. stage.decision \in {"answered_with_evidence", "low_confidence"} BY <1>1, <2>7
    <2>9. given.answer = Synthesis(question.words, result.selected).answer BY <1>3 DEF template
    <2> HIDE DEF stage
    <2> QED BY <2>8, <2>9 DEF stage
<1> HIDE DEF stored, hit, template, stage
<1> QED BY <1>2, <1>3 DEF template, stage

-----------------------------------------------------------------------------
(* Samples that are fit to be asked about. *)

GoodSample(s) ==
    /\ Turned(s.turns) /\ Memories(s.memories)
    /\ IsList(s.questions) /\ \A n \in DOMAIN s.questions : Question(s.questions[n].words)

LEMMA InRange == ASSUME NEW s, NEW n \in DOMAIN s PROVE s[n] \in Range(s)
BY DEF Range

\* The memory EpisodesOf makes of a turn.
EpisodeOf(turn) ==
    [id |-> turn.id, kind |-> "episode", claim |-> turn.text, object |-> <<>>,
     subject |-> turn.speaker, relation |-> "", day |-> turn.day, confidence |-> 4000,
     evidence |-> {turn.id}, reason |-> ""]

LEMMA EpisodeFields ==
    ASSUME NEW turn
    PROVE  /\ EpisodeOf(turn).claim = turn.text /\ EpisodeOf(turn).object = <<>>
           /\ EpisodeOf(turn).evidence = {turn.id} /\ EpisodeOf(turn).confidence = 4000
BY DEF EpisodeOf

LEMMA LimitedIsGood ==
    ASSUME NEW s \in Samples, NEW limit \in Nat
    PROVE  GoodSample(Limited(s, limit))
<1> DEFINE end == Least(limit, Len(s.turns))
           turns == SubSeq(s.turns, 1, end)
           at == {n \in DOMAIN s.memories : s.memories[n].evidence \subseteq IdsOf(turns)}
           kept == Kept(s.memories, at)
           episodes == EpisodesOf(turns)
           limited == Limited(s, limit)
           X == Range(s.turns)
<1>0. /\ IsList(s.turns) /\ IsList(s.memories) /\ IsList(s.questions)
      /\ \A t \in Range(s.turns) : IsList(t.text)
      /\ \A m \in Range(s.memories) : Sound(m)
      /\ \A q \in Range(s.questions) : Question(q.words)
    BY SamplesAssumption DEF IsList, Sound, Question
<1>1. limited.turns = turns /\ limited.questions = s.questions /\ limited.memories = kept \o episodes
    BY DEF Limited
<1>2. Len(s.turns) \in Nat /\ \A n \in 1 .. Len(s.turns) : s.turns[n] \in X BY <1>0, ListFacts
<1>3. end \in Int /\ end <= Len(s.turns) BY <1>2 DEF Least
<1> HIDE DEF end, X
<1>4. \A n \in 1 .. end : s.turns[n] \in X BY <1>2, <1>3
<1>5. turns \in Seq(X) BY <1>3, <1>4, SubSeqProperties
<1>6. IsList(turns) /\ Range(turns) \subseteq X BY <1>5, ListOver
<1> HIDE DEF turns
<1>7. \A n \in DOMAIN turns : IsList(turns[n].text) BY <1>0, <1>6, InRange DEF X
<1>8. Turned(turns) BY <1>6, <1>7 DEF Turned
<1>9. IsList(kept) /\ KeptFrom(s.memories, at) BY <1>0, KeptIsList, KeptElements
<1>10. ASSUME NEW n \in DOMAIN kept PROVE Sound(kept[n])
    <2>1. PICK m \in DOMAIN s.memories : kept[n] = s.memories[m] BY <1>9 DEF KeptFrom
    <2> QED BY <1>0, <2>1, InRange
<1>11. Len(turns) \in Nat /\ DOMAIN turns = 1 .. Len(turns) BY <1>6, ListFacts
<1>12. ASSUME NEW n \in DOMAIN turns PROVE Sound(episodes[n])
    <2>1. episodes[n] = EpisodeOf(turns[n]) BY DEF EpisodesOf, EpisodeOf
    <2>2. IsList(<<>>) BY OneAndNone
    <2> HIDE DEF episodes
    <2>3. /\ episodes[n].claim = turns[n].text /\ episodes[n].object = <<>>
          /\ episodes[n].evidence = {turns[n].id} /\ episodes[n].confidence = 4000
        BY <2>1, EpisodeFields
    <2> QED BY <1>7, <2>2, <2>3 DEF Sound
<1>13. DOMAIN episodes = 1 .. Len(turns) /\ episodes = [n \in 1 .. Len(turns) |-> episodes[n]]
    BY <1>11 DEF EpisodesOf
<1> DEFINE Y == {m \in Range(kept) \cup {episodes[n] : n \in 1 .. Len(turns)} : Sound(m)}
<1> HIDE DEF kept, episodes
<1>14. \A n \in 1 .. Len(turns) : episodes[n] \in Y BY <1>11, <1>12
<1>15. Range(kept) \subseteq Y BY <1>10 DEF Range
<1>16. \A m \in Y : Sound(m) OBVIOUS
<1> HIDE DEF Y
<1>17. kept \in Seq(Y) BY <1>9, <1>15 DEF IsList
<1>18. episodes \in Seq(Y) BY <1>11, <1>13, <1>14
<1> DEFINE all == kept \o episodes
<1>19. all \in Seq(Y) BY <1>17, <1>18, Concatenated
<1> HIDE DEF all
<1>20. IsList(all) /\ Range(all) \subseteq Y BY <1>19, ListOver
<1>21. Memories(all) BY <1>16, <1>20, InRange DEF Memories
<1>22. \A n \in DOMAIN s.questions : Question(s.questions[n].words) BY <1>0, InRange
<1> HIDE DEF limited
<1>23. GoodSample(limited) BY <1>0, <1>1, <1>8, <1>21, <1>22 DEF GoodSample, all
<1> QED BY <1>23 DEF limited

LEMMA WindowedIsGood ==
    ASSUME NEW s \in Samples, NEW limit \in Nat
    PROVE  GoodSample(Windowed(Limited(s, limit)))
<1> DEFINE t == Limited(s, limit)
           told(q) == q.evidence # {} /\ q.evidence \subseteq IdsOf(t.turns)
           at == {n \in DOMAIN t.questions : told(t.questions[n])}
           kept == Kept(t.questions, at)
           w == Windowed(t)
<1>1. GoodSample(t) BY LimitedIsGood
<1>2. t = [turns |-> t.turns, questions |-> t.questions, memories |-> t.memories] BY DEF Limited
<1> HIDE DEF t
<1>3. w = [t EXCEPT !.questions = kept] BY DEF Windowed
<1>4. w.turns = t.turns /\ w.memories = t.memories /\ w.questions = kept BY <1>2, <1>3
<1>5. IsList(kept) /\ KeptFrom(t.questions, at) BY <1>1, KeptIsList, KeptElements DEF GoodSample
<1> HIDE DEF at, kept, w
<1>6. ASSUME NEW n \in DOMAIN kept PROVE Question(kept[n].words)
    <2>1. PICK m \in DOMAIN t.questions : kept[n] = t.questions[m] BY <1>5 DEF KeptFrom, kept
    <2> QED BY <1>1, <2>1 DEF GoodSample
<1>7. GoodSample(w) BY <1>1, <1>4, <1>5, <1>6 DEF GoodSample
<1> QED BY <1>7 DEF w, t

LEMMA PreparedIsGood == ASSUME NEW s \in Prepared PROVE GoodSample(s)
<1>1. 2 \in Nat /\ 9 \in Nat OBVIOUS
<1> QED BY <1>1, LimitedIsGood, WindowedIsGood DEF Prepared

-----------------------------------------------------------------------------
(* The evaluation. *)

\* What AnswersAreAccountedFor asks of a question that was put.
AnswerHolds(asked, turns, mode) ==
    LET selected == {asked.result.selected[i].memory : i \in DOMAIN asked.result.selected}
        words == UNION {Tokens(m.claim) \cup Tokens(m.object) : m \in selected}
        told == UNION {Tokens(EvidenceText(turns, m)) : m \in selected}
        stage == asked.stage
    IN  /\ asked.answer # ABSTAIN =>
              /\ asked.result.reason = "" /\ asked.result.provenance # {}
              /\ \A m \in selected : m.reason = ""
              /\ \/ asked.answer = asked.reply
                 \/ Tokens(asked.answer) \subseteq
                       words \cup IF mode \in {"synthesis", "llm"} THEN told ELSE {}
        /\ ~ asked.passed /\ ~ ExpectsAbstention(asked.question) /\ asked.question.evidence # {} =>
              \/ stage.labels # {}
              \/ /\ stage.decision \in {"answered_with_evidence", "low_confidence"}
                 /\ asked.answer = Synthesis(asked.question.words, asked.result.selected).answer

SampleInv == sample = NoSample \/ (GoodSample(sample) /\ config.mode \in Modes)
EvalInv == SampleInv /\ AnswersAreAccountedFor

LEMMA ModeIsAccounted ==
    ASSUME NEW turns, Turned(turns), NEW q, Question(q), NEW result, Selection(result.selected),
           result.reason = "" => result.selected # <<>>, NEW reply, NEW mode \in Modes
    PROVE  Accounted(AnswerIn(mode, q, turns, result, reply), result, reply,
                     SelectedWords(result.selected) \cup
                     IF mode \in {"synthesis", "llm"} THEN ToldWords(turns, result.selected) ELSE {})
<1> DEFINE words == SelectedWords(result.selected)
           told == ToldWords(turns, result.selected)
           given == AnswerIn(mode, q, turns, result, reply)
<1>1. words \cup {} = words OBVIOUS
<1>2. CASE mode = "normal"
    <2>1. given = NormalAnswer(result) BY <1>2 DEF AnswerIn
    <2> QED BY <1>1, <1>2, <2>1, NormalIsAccounted
<1>3. CASE mode = "diagnostic-synthesis"
    <2>1. given = DiagnosticAnswer(q, result) BY <1>3 DEF AnswerIn
    <2> QED BY <1>1, <1>3, <2>1, DiagnosticIsAccounted
<1>4. CASE mode = "synthesis"
    <2>1. given = SynthesisAnswer(q, turns, result) BY <1>4 DEF AnswerIn
    <2> QED BY <1>4, <2>1, SynthesisIsAccounted
<1>5. CASE mode = "llm"
    <2>1. given = LlmAnswer(q, turns, result, reply) BY <1>5 DEF AnswerIn
    <2> QED BY <1>5, <2>1, LlmIsAccounted
<1> QED BY <1>2, <1>3, <1>4, <1>5 DEF Modes

LEMMA AskedHolds ==
    ASSUME GoodSample(sample), config.mode \in Modes, NEW n \in DOMAIN sample.questions,
           AskQuestion(sample.questions[n])
    PROVE  AnswerHolds(last', sample.turns, config.mode)
<1> DEFINE question == sample.questions[n]
           q == question.words
           turns == sample.turns
<1>1. PICK content, reply :
          /\ content \in ContentScores(config.planner, sample.memories, q)
          /\ LET result == Retrieve(config.planner, sample.memories, q, content, TopK)
                 given == AnswerIn(config.mode, q, turns, result, reply)
             IN  last' = [question |-> question, content |-> content, result |-> result, reply |-> reply,
                          answer |-> given.answer,
                          passed |-> Passes(given.answer, question),
                          stage |-> Diagnosis(question, sample.memories, result, given)]
    BY DEF AskQuestion
<1> DEFINE result == Retrieve(config.planner, sample.memories, q, content, TopK)
           given == AnswerIn(config.mode, q, turns, result, reply)
           records == result.selected
           selected == {records[i].memory : i \in DOMAIN records}
<1>2. /\ last'.question = question /\ last'.result = result /\ last'.reply = reply
      /\ last'.answer = given.answer
      /\ last'.stage = Diagnosis(question, sample.memories, result, given)
    BY <1>1
<1>3. Question(q) /\ IsList(q) /\ Turned(turns) /\ Memories(sample.memories)
    BY DEF GoodSample, Question
<1>4. Usable(records) /\ (result.reason = "" => records # <<>> /\ result.provenance # {})
    BY <1>1, <1>3, SamplesAssumption, RetrievedIsUsable
<1> HIDE DEF result
<1>5. Accounted(given, result, reply,
                SelectedWords(records) \cup
                IF config.mode \in {"synthesis", "llm"} THEN ToldWords(turns, records) ELSE {})
    BY <1>3, <1>4, ModeIsAccounted DEF Usable
<1> HIDE DEF given
<1>6. /\ SelectedWords(records) = UNION {Tokens(m.claim) \cup Tokens(m.object) : m \in selected}
      /\ ToldWords(turns, records) = UNION {Tokens(EvidenceText(turns, m)) : m \in selected}
    BY DEF SelectedWords, ToldWords, Own
<1>7. given.answer # ABSTAIN =>
          /\ result.reason = "" /\ result.provenance # {}
          /\ \A m \in selected : m.reason = ""
          /\ \/ given.answer = reply
             \/ Tokens(given.answer) \subseteq
                   SelectedWords(records) \cup
                   IF config.mode \in {"synthesis", "llm"} THEN ToldWords(turns, records) ELSE {}
    BY <1>4, <1>5 DEF Accounted, Usable
<1> DEFINE stage == Diagnosis(question, sample.memories, result, given)
<1>8. ~ ExpectsAbstention(question) /\ question.evidence # {} =>
          \/ stage.labels # {}
          \/ /\ stage.decision \in {"answered_with_evidence", "low_confidence"}
             /\ given.answer = Synthesis(q, records).answer
    BY MissIsLaid
<1>9. {last'.result.selected[i].memory : i \in DOMAIN last'.result.selected} = selected BY <1>2
<1> HIDE DEF records, selected, turns, stage
<1> DEFINE told == UNION {Tokens(EvidenceText(turns, m)) : m \in selected}
           words == UNION {Tokens(m.claim) \cup Tokens(m.object) : m \in selected}
<1>10. last'.answer # ABSTAIN =>
           /\ last'.result.reason = "" /\ last'.result.provenance # {}
           /\ \A m \in selected : m.reason = ""
           /\ \/ last'.answer = last'.reply
              \/ Tokens(last'.answer) \subseteq
                    words \cup IF config.mode \in {"synthesis", "llm"} THEN told ELSE {}
    <2>1. last'.answer = given.answer /\ last'.result = result /\ last'.reply = reply BY <1>2
    <2>2. words = SelectedWords(records) /\ told = ToldWords(turns, records) BY <1>6
    <2> HIDE DEF words, told
    <2> QED BY <1>7, <2>1, <2>2
<1>11. ~ ExpectsAbstention(last'.question) /\ last'.question.evidence # {} =>
           \/ last'.stage.labels # {}
           \/ /\ last'.stage.decision \in {"answered_with_evidence", "low_confidence"}
              /\ last'.answer = Synthesis(last'.question.words, last'.result.selected).answer
    <2>1. /\ last'.stage = stage /\ last'.question = question /\ last'.answer = given.answer
          /\ last'.result.selected = records
        BY <1>2 DEF stage, records
    <2> HIDE DEF question
    <2> QED BY <1>8, <2>1
<1> HIDE DEF question
<1> QED BY <1>9, <1>10, <1>11 DEF AnswerHolds, turns

LEMMA EvalInvInit == EvalInit => EvalInv
<1> SUFFICES ASSUME EvalInit PROVE EvalInv OBVIOUS
<1>1. last = Unasked BY DEF EvalInit
<1>2. AnswersAreAccountedFor BY <1>1 DEF AnswersAreAccountedFor
<1>3. SampleInv
    <2>1. CASE sample = NoSample BY <2>1 DEF SampleInv
    <2>2. CASE sample \in Prepared /\ config \in [planner : Planners, mode : Modes]
        BY <2>2, PreparedIsGood DEF SampleInv
    <2> QED BY <2>1, <2>2 DEF EvalInit
<1> QED BY <1>2, <1>3 DEF EvalInv

LEMMA EvalInvNext == EvalInv /\ [EvalNext]_<<vars, evalVars>> => EvalInv'
<1> SUFFICES ASSUME EvalInv, [EvalNext]_<<vars, evalVars>> PROVE EvalInv' OBVIOUS
<1>1. ASSUME UNCHANGED evalVars PROVE EvalInv'
    BY <1>1 DEF EvalInv, SampleInv, AnswersAreAccountedFor, evalVars
<1>2. ASSUME NEW n \in DOMAIN sample.questions, AskQuestion(sample.questions[n]) PROVE EvalInv'
    <2>1. sample' = sample /\ config' = config BY <1>2 DEF AskQuestion
    <2>2. sample # NoSample BY DEF NoSample
    <2>3. GoodSample(sample) /\ config.mode \in Modes BY <2>2 DEF EvalInv, SampleInv
    <2>4. AnswerHolds(last', sample.turns, config.mode) BY <1>2, <2>3, AskedHolds
    <2>5. AnswersAreAccountedFor' BY <2>1, <2>4 DEF AnswersAreAccountedFor, AnswerHolds
    <2>6. SampleInv' BY <2>1 DEF EvalInv, SampleInv
    <2> QED BY <2>5, <2>6 DEF EvalInv
<1> QED BY <1>1, <1>2 DEF EvalNext, evalVars

\* AnswersAreAccountedFor, for samples, questions, planners and LLMs of any kind: in every
\* mode an answer is given only where retrieval had no objection, from memories that may be
\* used and in their words, those of the turns they rest on or the LLM's own; and a question
\* that is missed is laid at a stage, unless the answer is what the evidence says.
THEOREM EveryAnswerIsAccountedFor == EvalSpec => []AnswersAreAccountedFor
<1>1. EvalInv => AnswersAreAccountedFor BY DEF EvalInv
<1> QED BY EvalInvInit, EvalInvNext, <1>1, PTL DEF EvalSpec

=============================================================================
