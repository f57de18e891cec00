----------------------------- MODULE LocomoEval -----------------------------
(* The LoCoMo evaluation (locomo_eval.py): LLM extraction runs and the rule-based *)
(* extractors as Extraction has them, and the questions of a sample, asked of     *)
(* what was extracted from it, answered in one of the modes, scored and diagnosed. *)
EXTENDS Extraction, LocomoAnswers

CONSTANTS
    Samples,    \* [turns: a sequence of [id, speaker, text, day], memories, questions]
    Planners,   \* the planners a system is built with
    LlmAnswers, \* what the answering LLM may reply
    TopK        \* 3

VARIABLES
    sample,  \* the sample that is evaluated, as the limits on turns and questions leave it
    config,  \* [planner, mode] of the system under evaluation
    last     \* the question that was asked, and what came of it

\* What samples are made of: texts are lists of words, the bar only joins claims, and a
\* memory rests on something that was said.
ASSUME SamplesAssumption ==
    /\ Bm25Scores \subseteq Nat
    /\ \A s \in Samples :
          /\ s.turns \in Seq(Range(s.turns)) /\ s.memories \in Seq(Range(s.memories))
          /\ s.questions \in Seq(Range(s.questions))
          /\ \A t \in Range(s.turns) : t.text \in Seq(Range(t.text))
          /\ \A m \in Range(s.memories) :
                /\ m.claim \in Seq(Range(m.claim)) /\ m.object \in Seq(Range(m.object))
                /\ m.evidence # {} /\ m.confidence \in Nat
          /\ \A q \in Range(s.questions) : q.words \in Seq(Range(q.words)) /\ "|" \notin Range(q.words)

evalVars == <<sample, config, last>>

NoSample == [turns |-> <<>>, memories |-> <<>>, questions |-> <<>>]
NoConfig == [mode |-> "none"]
Unasked == [answer |-> <<>>]
Modes == {"normal", "diagnostic-synthesis", "synthesis", "llm"}

-----------------------------------------------------------------------------
(* Preparing a sample. *)

IdsOf(turns) == {turns[n].id : n \in DOMAIN turns}
\* The turns as the store holds them.
EpisodesOf(turns) ==
    [n \in DOMAIN turns |->
        [id |-> turns[n].id, kind |-> "episode", claim |-> turns[n].text, object |-> <<>>,
         subject |-> turns[n].speaker, relation |-> "", day |-> turns[n].day, confidence |-> 4000,
         evidence |-> {turns[n].id}, reason |-> ""]]
\* _apply_turn_limit: what the later turns would have told is not there.
Limited(s, limit) ==
    LET turns == SubSeq(s.turns, 1, Least(limit, Len(s.turns)))
    IN  [turns |-> turns, questions |-> s.questions,
         memories |-> Kept(s.memories, {n \in DOMAIN s.memories : s.memories[n].evidence \subseteq IdsOf(turns)})
                      \o EpisodesOf(turns)]
\* _filter_qas_to_evidence_window: questions whose evidence was told, none without evidence.
Windowed(s) ==
    LET told(q) == q.evidence # {} /\ q.evidence \subseteq IdsOf(s.turns)
    IN  [s EXCEPT !.questions = Kept(@, {n \in DOMAIN @ : told(@[n])})]
Prepared ==
    {Limited(s, limit) : s \in Samples, limit \in {2, 9}}
    \cup {s \in {Windowed(Limited(t, 2)) : t \in Samples} : s.questions # <<>>}

-----------------------------------------------------------------------------
EvalInit ==
    /\ Init
    /\ \/ sample = NoSample /\ config = NoConfig
       \/ /\ sample \in Prepared /\ extractor = "generic"
          /\ config \in [planner : Planners, mode : Modes]
    /\ last = Unasked

\* Questions leave the store as it is, so that one in each behaviour is enough.
AskQuestion(question) ==
    /\ last = Unasked
    /\ \E content \in ContentScores(config.planner, sample.memories, question.words),
          reply \in IF config.mode = "llm" THEN LlmAnswers ELSE {<<>>} :
          LET result == Retrieve(config.planner, sample.memories, question.words, content, TopK)
              given == AnswerIn(config.mode, question.words, sample.turns, result, reply)
          IN  last' = [question |-> question, content |-> content, result |-> result, reply |-> reply, answer |-> given.answer,
                       passed |-> Passes(given.answer, question),
                       stage |-> Diagnosis(question, sample.memories, result, given)]
    /\ UNCHANGED <<vars, sample, config>>

EvalNext ==
    \/ sample = NoSample /\ Next /\ UNCHANGED evalVars
    \/ \E n \in DOMAIN sample.questions : AskQuestion(sample.questions[n])

EvalSpec == EvalInit /\ [][EvalNext]_<<vars, evalVars>>

-----------------------------------------------------------------------------
(* Properties. *)

\* Verbatim turns are "a recall safety net, not competing structured answers", which must
\* "not trigger a spurious low-margin abstention" (retrieval.py): a planner that answers
\* from the structured memories, whichever way it scores their content, answers as well when
\* it sees the turns, unless another memory is about as good as the best (then a turn that
\* takes the place of one of its day can let that other in). Content scores are compared as
\* they were: under BM25 a memory has the same one with the turns as without.
SafetyNet ==
    last # Unasked =>
        LET words == last.question.words
            without == [config.planner EXCEPT !.verbatim = FALSE]
            found == Scored(without, sample.memories, words, last.content)
            close == {i \in DOMAIN found : \A j \in DOMAIN found : found[j].score - found[i].score < Margin}
        IN  /\ Cardinality(close) = 1
            /\ Retrieve(without, sample.memories, words, last.content, TopK).reason = ""
            => last.result.reason = ""

\* Whatever the mode: a question is answered only where retrieval found enough, from memories
\* that may be used, in their words or those of the turns they rest on, unless they are the
\* LLM's own; and each question that is missed though it has evidence is laid at a stage, or
\* the answer is what the selected evidence says.
AnswersAreAccountedFor ==
    last # Unasked =>
        LET selected == {last.result.selected[i].memory : i \in DOMAIN last.result.selected}
            words == UNION {Tokens(m.claim) \cup Tokens(m.object) : m \in selected}
            told == UNION {Tokens(EvidenceText(sample.turns, m)) : m \in selected}
            stage == last.stage
        IN  /\ last.answer # ABSTAIN =>
                  /\ last.result.reason = "" /\ last.result.provenance # {}
                  /\ \A m \in selected : m.reason = ""
                  /\ \/ last.answer = last.reply
                     \/ Tokens(last.answer) \subseteq
                           words \cup IF config.mode \in {"synthesis", "llm"} THEN told ELSE {}
            /\ ~ last.passed /\ ~ ExpectsAbstention(last.question) /\ last.question.evidence # {} =>
                  \/ stage.labels # {}
                  \/ /\ stage.decision \in {"answered_with_evidence", "low_confidence"}
                     /\ last.answer = Synthesis(last.question.words, last.result.selected).answer
=============================================================================
