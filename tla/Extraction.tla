----------------------------- MODULE Extraction -----------------------------
(* Extraction as the evaluations drive it: episodes handed to a rule-based       *)
(* extractor or to one behind a schema (extractor.py), and LLM runs over a       *)
(* conversation, within a call budget (locomo_eval.py), through a cache of       *)
(* replies that outlives the run. A run may die at any point; the file it was    *)
(* writing is then torn.                                                         *)
EXTENDS LineRules

CONSTANTS
    Episodes,       \* what the rule-based extractors are given: [lines, consent]
    Payloads,       \* what the provider of the schema-constrained extractor returns
    Conversations,  \* the conversations LLM runs select: sequences of turns
    Replies,        \* what the LLM may reply: a list of items, or Unparseable
    Unparseable,    \* a reply that is no JSON object with a list of memories
    Models,         \* the models runs may be configured with
    Caps, NoCap,    \* --max-api-calls, or none
    UnboundedTurns, \* the most turns an unbounded run may have (500 in the code)
    MinConfidence,  \* 45 of 100
    MaxRuns         \* bound on the number of runs

VARIABLES
    extractor, \* which extractor this process was built with
    heard,     \* the episode extracted last by rules or schema, and what came of it
    files,     \* the cache directory: key -> reply with what the provider was sent for it
    run,       \* the LLM run under way
    proposed,  \* what the LLM run proposed so far
    runs       \* how many runs were started

vars == <<extractor, heard, files, run, proposed, runs>>

-----------------------------------------------------------------------------
(* Extractors without memory. *)

\* SchemaConstrainedLLMExtractor: one bad candidate and the extraction raises; the
\* action and the user a candidate names are taken as they come.
Acceptable(item) ==
    /\ item.claim # ""
    /\ item.type \in {"semantic_fact", "preference", "procedure", "reflection", "constraint", "episodic_note"}
    /\ item.action \in {"store", "ignore", "ask_consent", "update_existing", "invalidate_existing",
                        "delete", "do_not_use"}
    /\ item.numeric
SchemaConstrained(payload) ==
    [n \in DOMAIN payload |-> Candidate(payload[n].action, payload[n].type, payload[n].user, "", {payload[n].claim})]

\* An episode is a list of lines; what a pattern captures is part of the line it is
\* found in, cues included, and what a dialogue line says is a list.
ASSUME EpisodesAssumption ==
    \A e \in Episodes :
        /\ e.lines \in Seq(Range(e.lines))
        /\ \A l \in Range(e.lines) : l.object \cap SensitiveCues \subseteq l.cues /\ l.says \in Seq(Range(l.says))

Results(e) ==
    CASE extractor = "deterministic" -> {Deterministic(e)}
      [] extractor = "noisy" -> {Noisy(e)}
      [] extractor = "recruiting" -> {Recruiting(e)}
      [] extractor = "generic" -> IF Len(e.lines) = 1 THEN {Generic(e)} ELSE {}
      [] extractor = "schema" ->
            {SchemaConstrained(p) : p \in {q \in Payloads : \A n \in DOMAIN q : Acceptable(q[n])}}
      [] OTHER -> {}

-----------------------------------------------------------------------------
(* The LLM extractor on one turn: [dia_id, session, speaker, timestamp, words, consent]. *)

\* The subject as candidates carry it: the first person is the speaker.
Subject(item, t) == IF item.subject = "i" THEN t.speaker ELSE item.subject

\* _rejection_reason, in its order ("" when the item is accepted); words that carry
\* no meaning are not among those of a turn, an object or an entity.
Rejections(item, t) == <<
    [reason |-> "schema", if |-> ~ item.complete],
    [reason |-> "missing_or_wrong_provenance", if |-> item.dia_id # t.dia_id],
    [reason |-> "low_confidence", if |-> item.confidence < MinConfidence],
    [reason |-> "uncertainty", if |-> item.relation = "uncertainty"],
    [reason |-> "ambiguous_reference", if |-> item.relation = "ambiguous_reference" \/ ~ item.resolved],
    [reason |-> "sensitive_without_consent",
     if |-> item.sensitivity \in {"high", "restricted"} /\ t.consent # "explicit"],
    [reason |-> "unsupported_memory", if |-> item.support = {} \/ ~ item.support \subseteq t.words],
    [reason |-> "unsupported_memory", if |-> item.object = {}],
    [reason |-> "hallucinated_entity",
     if |-> Subject(item, t) # t.speaker /\ Subject(item, t) \notin t.words],
    [reason |-> "unsupported_memory", if |-> item.object \cap t.words = {}],
    [reason |-> "hallucinated_entity", if |-> ~ item.entities \subseteq t.words \cup {t.speaker}]>>
Rejection(item, t) ==
    LET found == Rejections(item, t)
        met == {n \in DOMAIN found : found[n].if}
    IN  IF met = {} THEN "" ELSE found[Min(met)].reason

MemoryOf(item, t) ==
    IF Rejection(item, t) # "" THEN Ignored
    ELSE Fact(t, IF item.relation = "preference" THEN "preference" ELSE "semantic_fact",
              Subject(item, t), item.relation, item.object, FALSE)
\* A reply whose items are not all objects raises, though it is well-formed enough to be kept.
Readable(reply) == reply # Unparseable /\ \A n \in DOMAIN reply : reply[n].object_like
MemoriesOf(reply, t) ==
    IF reply = <<>> THEN {Ignored} ELSE {MemoryOf(reply[n], t) : n \in DOMAIN reply}

-----------------------------------------------------------------------------
(* The cache of replies. *)

\* open_conversation_source_turn: all that the provider is sent of a turn.
SourceTurn(t) ==
    [dia_id |-> t.dia_id, session |-> t.session, speaker |-> t.speaker, timestamp |-> t.timestamp, words |-> t.words]

KeyWithoutText(m, t) == <<m, t.speaker, t.session, t.dia_id>>
\* cache_key: the model (and prompt version), and what is sent of the turn but its timestamp.
Key(m, t) == <<m, t.speaker, t.session, t.dia_id, t.words>>
Turns == UNION {Range(c) : c \in Conversations}
Keys == {Key(m, t) : m \in Models, t \in Turns}

ASSUME ExtractionAssumption ==
    /\ Caps \subseteq Nat
    /\ \A c \in Conversations : c \in Seq(Turns) /\ c # <<>>

Absent == [state |-> "absent"]
Torn == [state |-> "torn"]
File(reply, m, t) == [state |-> "whole", reply |-> reply, model |-> m, sent |-> SourceTurn(t)]

FileThere(m, t) == files[Key(m, t)].state # "absent"
\* read(): a file that cannot be parsed is as good as none.
HasValidCache(m, t) == files[Key(m, t)].state = "whole"
Cacheable(reply) == reply # Unparseable

-----------------------------------------------------------------------------
(* LLM runs. *)

Idle == [step |-> "idle"]
NothingHeard == [lines |-> <<>>, consent |-> ""]

Init ==
    /\ extractor \in {"deterministic", "noisy", "recruiting", "generic", "schema", "llm"}
    /\ heard = [episode |-> NothingHeard, candidates |-> <<>>]
    /\ files = [k \in Keys |-> Absent]
    /\ run = Idle
    /\ proposed = {}
    /\ runs = 0

Ingest(e) ==
    /\ \E c \in Results(e) : heard' = [episode |-> e, candidates |-> c]
    /\ UNCHANGED <<extractor, files, run, proposed, runs>>

PlannedByFiles(m, turns) == Cardinality({n \in DOMAIN turns : ~ FileThere(m, turns[n])})
\* _plan_llm_extraction: every selected turn without a valid cached reply is a call.
Planned(m, turns) == Cardinality({n \in DOMAIN turns : ~ HasValidCache(m, turns[n])})
\* _validate_llm_call_budget.
WithinBudget(m, turns, cap) ==
    IF cap = NoCap THEN Planned(m, turns) = 0 \/ Len(turns) <= UnboundedTurns
    ELSE Planned(m, turns) <= cap

\* A run that is over budget fails here, before its first call: no step.
StartRun(m, turns, cap) ==
    /\ extractor = "llm"
    /\ run.step = "idle"
    /\ runs < MaxRuns
    /\ WithinBudget(m, turns, cap)
    /\ runs' = runs + 1
    /\ run' = [step |-> "turn", model |-> m, turns |-> turns, cap |-> cap, at |-> 1, calls |-> 0]
    /\ proposed' = {}
    /\ UNCHANGED <<extractor, heard, files>>

Turn == run.turns[run.at]

\* What the extractor makes of a reply that a model gave to what it was sent; one it cannot
\* read ends the run with an error.
Digest(reply, model, sent) ==
    IF Readable(reply) THEN
        /\ proposed' = proposed \cup
               {[at |-> run.at, turn |-> Turn, model |-> run.model, asked |-> sent, answered_by |-> model, memory |-> c] :
                    c \in MemoriesOf(reply, Turn)}
        /\ run' = IF run.at = Len(run.turns) THEN Idle
                  ELSE [step |-> "turn", model |-> run.model, turns |-> run.turns, cap |-> run.cap,
                        at |-> run.at + 1, calls |-> run.calls]
    ELSE run' = Idle /\ UNCHANGED proposed

CacheHit ==
    /\ run.step = "turn"
    /\ HasValidCache(run.model, Turn)
    /\ LET f == files[Key(run.model, Turn)] IN Digest(f.reply, f.model, f.sent)
    /\ UNCHANGED <<extractor, heard, files, runs>>

\* The call; a reply worth keeping is written, and opening its file empties it.
CallProvider(reply) ==
    /\ run.step = "turn"
    /\ ~ HasValidCache(run.model, Turn)
    /\ IF Cacheable(reply) THEN
           /\ files' = [files EXCEPT ![Key(run.model, Turn)] = Torn]
           /\ run' = [step |-> "writing", model |-> run.model, turns |-> run.turns, cap |-> run.cap,
                      at |-> run.at, calls |-> run.calls + 1, reply |-> reply]
       ELSE run' = Idle /\ UNCHANGED files
    /\ UNCHANGED <<extractor, heard, proposed, runs>>

WriteReply ==
    /\ run.step = "writing"
    /\ files' = [files EXCEPT ![Key(run.model, Turn)] = File(run.reply, run.model, Turn)]
    /\ Digest(run.reply, run.model, SourceTurn(Turn))
    /\ UNCHANGED <<extractor, heard, runs>>

\* The process is killed, a call or a write fails, or --limit-qa ends the run early.
Stop ==
    /\ run.step # "idle"
    /\ run' = Idle
    /\ UNCHANGED <<extractor, heard, files, proposed, runs>>

Next ==
    \/ \E e \in Episodes : Ingest(e)
    \/ \E m \in Models, c \in Conversations, cap \in Caps \cup {NoCap} : StartRun(m, c, cap)
    \/ CacheHit
    \/ \E reply \in Replies : CallProvider(reply)
    \/ WriteReply
    \/ Stop

Spec == Init /\ [][Next]_vars

-----------------------------------------------------------------------------
(* Properties. *)

RuleExtractors == {"deterministic", "noisy", "recruiting", "generic"}
Hears == IF extractor \in {"noisy", "recruiting"} THEN PolicyCues ELSE PlainPolicyCues

\* Whatever else a line of prose says - a fact about a candidate, a preference, a hedge,
\* something sensitive -, a request in it to forget or not to use something that it names
\* is heard by every rule-based extractor as just that, in the verbs it knows (Hears: the
\* plain ones know fewer): the line yields no fact, and one constraint is proposed for it,
\* if only one to be ignored because what it names is no more than "the client".
ForgetRequestsAreHeard ==
    extractor \in RuleExtractors =>
        LET asking == {n \in DOMAIN heard.episode.lines :
                /\ heard.episode.lines[n].form = "prose"
                /\ heard.episode.lines[n].cues \cap Hears # {}
                /\ heard.episode.lines[n].tail # ""}
            constraints == {n \in DOMAIN heard.candidates : heard.candidates[n].type = "constraint"}
        IN  /\ Cardinality(constraints) >= Cardinality(asking)
            /\ asking = DOMAIN heard.episode.lines /\ asking # {} => constraints = DOMAIN heard.candidates

\* The two extractors that know sensitive words: without explicit consent nothing they
\* propose to store from prose is made of such words, or, in the noisy one, comes from a
\* hedged line alone.
SensitiveWordsStayOut ==
    (/\ extractor \in {"noisy", "recruiting"}
     /\ heard.episode.consent # "explicit"
     /\ \A n \in DOMAIN heard.episode.lines : heard.episode.lines[n].form = "prose") =>
        \A n \in DOMAIN heard.candidates :
            LET c == heard.candidates[n] IN
            c.action = "store" =>
                /\ c.object \cap SensitiveCues = {}
                /\ extractor = "noisy" =>
                       \E m \in DOMAIN heard.episode.lines : "hedge" \notin heard.episode.lines[m].cues

\* --max-api-calls is a hard cap (locomo_benchmark.md): the budget is checked once, before
\* the first call, against what the cache holds then, torn files of earlier runs included.
CallsWithinCap ==
    run.step # "idle" /\ run.cap # NoCap => run.calls <= run.cap

\* What the LLM proposes for a turn is the answer of this run's model to this very turn -
\* speaker, session, place in the dialogue and text -, however often conversations were
\* corrected, models changed and runs repeated over the same cache; and what is to be stored
\* of it shares a word with the turn. Excepted is the date, which the provider is sent and
\* the key leaves out: a turn whose date was corrected gets the reply made for the old one.
RepliesAreTheirOwn ==
    \A p \in proposed :
        /\ p.answered_by = p.model
        /\ p.asked = [SourceTurn(p.turn) EXCEPT !.timestamp = p.asked.timestamp]
        /\ p.memory.action = "store" => p.memory.object \cap p.turn.words # {}

=============================================================================
