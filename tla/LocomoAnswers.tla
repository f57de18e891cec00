---------------------------- MODULE LocomoAnswers ----------------------------
(* How the LoCoMo evaluation answers a question from what was selected            *)
(* (answer.py, answerer.py, LoCoMoCognitiveSystem of locomo_eval.py), scores the  *)
(* answer, and says at which stage a miss arose. An answer is a text; one that    *)
(* could not be found is empty.                                                   *)
EXTENDS OpenPlanner

ABSTAIN == <<"ABSTAIN">>
FirstIn(text, words) ==
    LET at == {n \in DOMAIN text : text[n] \in words} IN IF at = {} THEN <<>> ELSE <<text[Min(at)]>>
LastIn(text, words) ==
    LET at == {n \in DOMAIN text : text[n] \in words} IN IF at = {} THEN <<>> ELSE <<text[Max(at)]>>

-----------------------------------------------------------------------------
(* answer.py: a span of a text, chosen by the type of the question. *)

NotNames == {"Where", "Who", "When", "I", "yesterday"}
Capitalised == {"Where", "Who", "When", "What", "How", "Did", "Is", "I", "Yesterday", "Ana", "Bob", "Bern", "Rome"}
Openings == {"Ana:", "Bob:"}
Days == {"monday"}
Dates == {"yesterday", "Yesterday", "today", "1990"}
Numbers == {"2", "3"}
NumberWords == {"two", "three"}
Fillers == {"a", "and", "did", "do", "does", "for", "has", "have", "I", "in", "is", "on", "that", "the",
            "to", "was", "with"}

QuestionType(q) ==
    LET has(words) == Tokens(q) \cap words # {}
    IN  FirstThat(<<
        [if |-> has({"Where"}), then |-> "location"],
        [if |-> has({"Who"}), then |-> "person"],
        [if |-> has({"When"}) \/ <<"What", "day">> \in SubSeqs(q), then |-> "temporal"],
        [if |-> <<"How", "many">> \in SubSeqs(q), then |-> "count"],
        [if |-> q # <<>> /\ Head(q) \in {"Did", "Is"}, then |-> "yes_no"],
        [if |-> has({"relationship", "status", "dating", "married"}), then |-> "relationship"]>>, "object")

\* The longest stretches of a text that are made of such words, in their order.
Stretch(text, r) == [n \in 1 .. r[2] - r[1] + 1 |-> Bare(text[r[1] + n - 1])]
Stretches(text, words) ==
    LET starts == {i \in DOMAIN text : text[i] \in words /\ (i = 1 \/ text[i - 1] \notin words)}
        EndOf(i) == Max({j \in i .. Len(text) : \A n \in i .. j : text[n] \in words})
    IN  {<<i, EndOf(i)>> : i \in starts}
\* The first of them, as a text.
FirstStretch(text, bounds) ==
    IF bounds = {} THEN <<>> ELSE Stretch(text, CHOOSE b \in bounds : \A other \in bounds : b[1] <= other[1])

\* Capitalised phrases; the name that opens a turn is one of its own.
Phrases(text) ==
    Stretches(text, Capitalised) \cup {<<n, n>> : n \in {k \in DOMAIN text : text[k] \in Openings}}
\* _query_subject: the question word, more often than not.
QuerySubject(q) == FirstStretch(q, Phrases(q))
Clean(phrase) ==
    LET names == {n \in DOMAIN phrase : phrase[n] \notin NotNames}
    IN  IF names = {} THEN <<>>
        ELSE SubSeq(phrase, Min(names), Len(phrase))
WithoutSubject(phrase, subject) ==
    IF subject # <<>> /\ IsPrefix(subject, phrase)
    THEN SubSeq(phrase, Len(subject) + 1, Len(phrase)) ELSE phrase

\* The name after such a word, an article between them allowed; or any other than the subject.
NameAfter(text, words, subject) ==
    LET follows(b) == \/ b[1] > 1 /\ text[b[1] - 1] \in words
                      \/ b[1] > 2 /\ text[b[1] - 1] \in {"the", "a"} /\ text[b[1] - 2] \in words
    IN  Clean(WithoutSubject(FirstStretch(text, {b \in Phrases(text) : follows(b)}), subject))
OtherName(text, subject) ==
    LET other(b) == Clean(Stretch(text, b)) \notin {<<>>, subject}
    IN  WithoutSubject(Clean(FirstStretch(text, {b \in Phrases(text) : other(b)})), subject)
\* The longest stretch of words that carry meaning and are not in the question.
NovelPhrase(q, text) ==
    LET new == {w \in Range(text) : Bare(w) \notin Fillers \cup Tokens(q)}
        all == Stretches(text, new)
    IN  FirstStretch(text, {b \in all : \A other \in all : other[2] - other[1] <= b[2] - b[1]})

ExtractiveSpan(q, text, type) ==
    LET subject == QuerySubject(q)
    IN  CASE type = "location" ->
                Cascade(<<NameAfter(text, {"in", "to", "from"}, subject), OtherName(text, subject)>>)
          [] type = "person" ->
                Cascade(<<NameAfter(text, {"dating", "married", "with", "to", "and"}, subject),
                             OtherName(text, subject)>>)
          [] type = "temporal" -> Cascade(<<FirstIn(text, Days), FirstIn(text, Dates)>>)
          [] type = "count" ->
                Cascade(<<LastIn(text, Numbers), LastIn(text, {"1990"}), FirstIn(text, NumberWords)>>)
          [] type \in {"yes_no", "relationship", "object"} -> NovelPhrase(q, text)

-----------------------------------------------------------------------------
(* The template synthesis of locomo_eval.py: the object of the selected record that fits *)
(* the question best. Scores and confidences are in hundredths here.                      *)

Happenings == {"event", "plan", "activity"}
Relationships == {"relationship", "relationship_status"}
Places == {"location", "camping_location"}
Times == {"time", "date"}
Tastes == {"likes", "dislikes"}
Routines == {"habit", "routine"}

\* _question_type_relation_bonus, _relation_template_bonus, and the words of the relation.
TypeBonus(type, relation) ==
    FirstThat(<<
        [if |-> type = "location" /\ relation \in Places, then |-> 25],
        [if |-> type \in {"location", "temporal"} /\ relation \in Happenings, then |-> 35],
        [if |-> type = "person" /\ relation \in Relationships, then |-> 80],
        [if |-> type = "temporal" /\ relation \in Times, then |-> 80],
        [if |-> type = "relationship" /\ relation \in Relationships, then |-> 85],
        [if |-> type = "object" /\ relation \in Tastes \cup Routines, then |-> 45]>>, 0)
TemplateBonus(words, relation) ==
    LET asks(cues) == words \cap cues # {}
    IN  FirstThat(<<
        [if |-> relation \in Places /\ asks({"Where", "live", "stay", "from", "camping"}), then |-> 70],
        [if |-> relation \in Times /\ asks({"When", "day", "date", "time", "now"}), then |-> 70],
        [if |-> /\ relation \in Happenings
                /\ asks({"When", "day", "date", "time", "Where", "What", "do", "did", "Did"}), then |-> 45],
        [if |-> /\ relation \in Relationships
                /\ asks({"relationship", "status", "dating", "married", "friend", "Who"}), then |-> 65],
        [if |-> relation \in Routines /\ asks({"drink", "play"}), then |-> 60],
        [if |-> relation \in Tastes /\ asks({"like", "likes"}), then |-> 50],
        [if |-> relation # "" /\ asks({"When", "day", "date", "time"}), then |-> 20]>>, 0)

Least(x, y) == IF x < y THEN x ELSE y
TemplateScore(q, s, object) ==
    LET m == s.memory
        words == Tokens(q)
        template == {m.subject} \cup Pieces(m.relation) \cup Tokens(object) \cup Tokens(m.claim)
    IN  (100 * Cardinality(words \cap template)) \div Cardinality(words)
        + TemplateBonus(words, m.relation) + TypeBonus(QuestionType(q), m.relation)
        + (IF Pieces(m.relation) \cap words # {} THEN 40 ELSE 0) + Least(25, s.score \div 1000)

\* _object_from_claim: all but the first two words. A turn has no other object.
ObjectOf(m) == IF m.object # <<>> THEN m.object
               ELSE IF Len(m.claim) >= 3 THEN SubSeq(m.claim, 3, Len(m.claim)) ELSE <<>>

\* _answer_object_for_question: what of the object, or of the claim, answers it.
\* A place follows "to" or "in", up to a word that leads on; a person follows "dating" or "with".
PlaceIn(text) ==
    LET at == {n \in DOMAIN text : n < Len(text) /\ text[n] \in {"to", "in"}}
        first == Min(at)
        start == IF first + 1 < Len(text) /\ text[first + 1] \in {"the", "a"} THEN first + 2 ELSE first + 1
        ends == {n \in start + 1 .. Len(text) :
                    text[n] \in {"today", "yesterday", "next", "last", "with", "for", "before", "after"}}
    IN  IF at = {} THEN <<>>
        ELSE SubSeq(text, start, Min(ends \cup {Len(text) + 1}) - 1)
PersonIn(text, relation) ==
    LET partners == {n \in 2 .. Len(text) : text[n] \in Capitalised /\ text[n - 1] \in {"dating", "with"}}
    IN  IF relation # "relationship_status" THEN <<>>
        ELSE Cascade(<<FirstStretch(text, {<<n, n>> : n \in partners}), FirstIn(text, Capitalised)>>)
TimeIn(text) ==
    LET after == {n \in DOMAIN text : n < Len(text) /\ text[n] \in {"on", "before", "after"}}
    IN  Cascade(<<FirstIn(text, {"yesterday", "Yesterday", "today"}), FirstIn(text, Days),
                     FirstStretch(text, {<<n + 1, Len(text)>> : n \in after})>>)
AnswerObject(object, m, type) ==
    LET parts(Part(_)) == <<Part(object), Part(m.claim), object>>
    IN  CASE type = "location" /\ m.relation \notin Places -> Cascade(parts(PlaceIn))
          [] type = "person" -> Cascade(parts(LAMBDA t : PersonIn(t, m.relation)))
          [] type = "temporal" -> Cascade(parts(TimeIn))
          [] type = "count" -> Cascade(parts(LAMBDA t : FirstIn(t, Numbers \cup NumberWords \cup {"1990"})))
          [] OTHER -> object

\* _trim_contextual_answer: "before ..." goes when the question says as much.
Trimmed(answer, q) ==
    LET said == {n \in 2 .. Len(answer) : /\ answer[n] \in {"before", "after", "during"}
                                          /\ SubSeq(answer, n, Len(answer)) \in SubSeqs(q)}
    IN  IF said = {} THEN answer ELSE SubSeq(answer, 1, Min(said) - 1)

NoSynthesis == [answer |-> ABSTAIN, confidence |-> 0]
\* _single_record_overlap_answer.
OverlapAnswer(q, records) ==
    LET m == Head(records).memory
        object == AnswerObject(ObjectOf(m), m, QuestionType(q))
    IN  IF /\ Len(records) = 1 /\ object # <<>>
           /\ 100 * Cardinality(Tokens(q) \cap Tokens(m.claim)) >= 35 * Cardinality(Tokens(q))
        THEN [answer |-> object, confidence |-> 46] ELSE NoSynthesis
Synthesis(q, records) ==
    LET object(n) == ObjectOf(records[n].memory)
        answerable == {n \in DOMAIN records : object(n) # <<>>}
        worth(n) == TemplateScore(q, records[n], object(n))
        best == Min({n \in answerable : \A k \in answerable : worth(k) <= worth(n)})
        m == records[best].memory
    IN  IF q = <<>> \/ QuestionType(q) = "yes_no" THEN NoSynthesis
        ELSE IF answerable = {} \/ worth(best) < 10 THEN OverlapAnswer(q, records)
        ELSE [answer |-> Trimmed(AnswerObject(object(best), m, QuestionType(q)), q),
              confidence |-> 30 + (45 * Least(worth(best), 100) + m.confidence \div 4) \div 100]
Direct(synthesis) == synthesis.answer # ABSTAIN /\ synthesis.confidence >= 45

-----------------------------------------------------------------------------
(* LoCoMoCognitiveSystem.answer(), by answer mode. A reply of the LLM is a text; it is *)
(* empty when it abstains or fails.                                                    *)

\* _evidence_text_for: a turn itself, or the first turn a memory rests on.
EvidenceText(turns, m) ==
    LET rests == {n \in DOMAIN turns : turns[n].id \in m.evidence}
    IN  IF m.kind = "episode" \/ rests = {} THEN m.claim ELSE turns[Min(rests)].text
SpanIn(turns, q, records) ==
    LET span(s) == ExtractiveSpan(q, EvidenceText(turns, s.memory), QuestionType(q))
    IN  Cascade([n \in DOMAIN records |-> span(records[n])])

Answered(text, why) == [answer |-> IF text = <<>> THEN ABSTAIN ELSE text, why |-> IF text = <<>> THEN why ELSE ""]
Refused(why) == [answer |-> ABSTAIN, why |-> why]

NormalAnswer(result) ==
    LET claims == [n \in DOMAIN result.selected |->
                      (IF n = 1 THEN <<>> ELSE <<"|">>) \o result.selected[n].memory.claim]
    IN  IF result.reason # "" THEN Refused(result.reason) ELSE Answered(FlattenSeq(claims), "")
DiagnosticAnswer(q, result) ==
    LET synthesis == Synthesis(q, result.selected)
    IN  IF result.reason # "" THEN Refused(result.reason)
        ELSE Answered(IF Direct(synthesis) THEN synthesis.answer ELSE <<>>, "no_direct_answer")
\* (What would become of it if the template were asked before the retrieval.)
TemplateBeforeRetrieval(q, turns, result) ==
    LET synthesis == Synthesis(q, result.selected)
    IN  IF Direct(synthesis) THEN Answered(synthesis.answer, "")
        ELSE IF result.reason # "" THEN Refused(result.reason)
        ELSE Answered(SpanIn(turns, q, result.selected), "no_answer")
\* Template first, then a span of the turns; what asks for a yes or a no is left alone.
SynthesisAnswer(q, turns, result) ==
    LET synthesis == Synthesis(q, result.selected)
    IN  IF QuestionType(q) = "yes_no" THEN Refused("yes_no")
        ELSE IF result.reason # "" THEN Refused(result.reason)
        ELSE IF Direct(synthesis) THEN Answered(synthesis.answer, "")
        ELSE Answered(SpanIn(turns, q, result.selected), "no_answer")
\* LLMAnswerer with ExtractiveAnswerer to fall back on: the object of the top record, or a span.
LlmAnswer(q, turns, result, reply) ==
    LET object(s) == IF s.memory.kind = "episode" THEN ObjectOf(s.memory) ELSE s.memory.object
        text(s) == Cascade(<<object(s), EvidenceText(turns, s.memory)>>)
        spans == [n \in DOMAIN result.selected |->
                     ExtractiveSpan(q, text(result.selected[n]), QuestionType(q))]
    IN  IF result.reason # "" THEN Refused(result.reason)
        ELSE Answered(Cascade(<<reply, object(Head(result.selected))>> \o spans), "llm_no_answer")

AnswerIn(mode, q, turns, result, reply) ==
    CASE mode = "normal" -> NormalAnswer(result)
      [] mode = "diagnostic-synthesis" -> DiagnosticAnswer(q, result)
      [] mode = "synthesis" -> SynthesisAnswer(q, turns, result)
      [] mode = "llm" -> LlmAnswer(q, turns, result, reply)

-----------------------------------------------------------------------------
(* What the evaluation makes of an answer. A question has words, golden answers and the *)
(* turns its answer is in; adversarial ones have no answer.                             *)

ExpectsAbstention(question) == question.adversarial \/ question.answers = {}
\* _has_answer_substring and _token_f1 of at least a half.
AnswerMatches(answer, gold) ==
    LET shared == Cardinality(Tokens(answer) \cap Tokens(gold))
    IN  \/ gold # <<>> /\ gold \in SubSeqs(answer)
        \/ shared > 0 /\ 4 * shared >= Cardinality(Tokens(answer)) + Cardinality(Tokens(gold))
Passes(answer, question) ==
    IF ExpectsAbstention(question) THEN answer = ABSTAIN
    ELSE answer # ABSTAIN /\ \E gold \in question.answers : AnswerMatches(answer, gold)

\* _stage_diagnostic: what is known at each stage of how a question fared. Turns are no
\* stored records, so a question answered from a turn alone is not answered from evidence.
Diagnosis(question, memories, result, given) ==
    LET stored == \E n \in DOMAIN memories :
                      memories[n].kind # "episode" /\ memories[n].evidence \cap question.evidence # {}
        hit == \E n \in DOMAIN result.selected : result.selected[n].memory.evidence \cap question.evidence # {}
        abstains == given.answer = ABSTAIN
        answerable == ~ ExpectsAbstention(question)
        template == Synthesis(question.words, result.selected).answer
    IN  [decision |-> FirstThat(<<
            [if |-> ~ answerable, then |-> IF abstains THEN "correct_abstention" ELSE "answered_expected_abstain"],
            [if |-> ~ stored, then |-> IF abstains THEN "safe_abstention" ELSE "unsafe_answer"],
            [if |-> ~ hit, then |-> IF abstains THEN "safe_abstention" ELSE "wrong_memory_answer"],
            [if |-> result.confidence < 2000, then |-> "low_confidence"]>>,
            IF abstains THEN "abstention_with_evidence" ELSE "answered_with_evidence"),
         labels |-> IF ~ answerable THEN {} ELSE {label \in
            {"missing_extraction", "retrieval_miss", "low_confidence_abstention", "answer_synthesis_failed",
             "unsafe_answer", "format_mismatch"} :
            CASE label = "missing_extraction" -> question.evidence # {} /\ ~ stored
              [] label = "retrieval_miss" -> stored /\ ~ hit
              [] label = "low_confidence_abstention" ->
                    abstains /\ given.why \in {"low_confidence", "low_margin", "relation_mismatch"}
              [] label = "answer_synthesis_failed" -> hit /\ template = ABSTAIN
              [] label = "unsafe_answer" -> ~ abstains /\ question.evidence # {} /\ ~ stored
              [] label = "format_mismatch" -> hit /\ template # ABSTAIN /\ given.answer # template}]
=============================================================================
