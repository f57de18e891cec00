---------------------------- MODULE OpenPlanner ----------------------------
(* OpenConversationRetrievalPlanner (src/cognitive_memory/retrieval.py): how the  *)
(* memories of a conversation are scored for a question, which of them are        *)
(* selected, and when the planner recommends to abstain. A text is a sequence of  *)
(* words, each spelled in one way only. Scores and confidences are in             *)
(* ten-thousandths.                                                               *)
EXTENDS Lists

CONSTANT Bm25Scores \* what a match may be worth under BM25, which looks at all memories

\* A memory: id, kind (fact, event, reflection or episode), claim and object (texts), subject
\* (a word), relation, day it is dated at, confidence, evidence (turns), and the reason it
\* is excluded for, if any.
SumOver(seq, Value(_)) == FoldLeft(LAMBDA sum, x : sum + Value(x), 0, seq)
Clamped(x) == IF x < 0 THEN 0 ELSE IF x > 10000 THEN 10000 ELSE x

-----------------------------------------------------------------------------
(* Words. *)

Stopwords ==
    {"a", "and", "Did", "did", "do", "does", "for", "from", "has", "have", "How", "I", "in", "is", "Is",
     "on", "still", "that", "the", "to", "was", "What", "When", "Where", "Who", "with"}
RelationCues ==
    {"after", "before", "date", "day", "dating", "drink", "friend", "like", "likes", "live", "location",
     "married", "move", "moved", "now", "plan", "relationship", "status", "time"}
TemporalWords == {"yesterday", "today", "monday", "july", "next", "last", "now", "before", "after"}

\* What opens a turn in terms of the words it stands for; "|" joins claims.
Bare(w) == CASE w = "Ana:" -> "Ana" [] w = "Bob:" -> "Bob" [] w = "Yesterday" -> "yesterday" [] OTHER -> w
Tokens(text) == {Bare(w) : w \in Range(text)} \ {"|"}
OpenTokens(text) == Tokens(text) \ Stopwords
\* The words a relation is made of.
Pieces(relation) ==
    CASE relation = "" -> {}
      [] relation = "relationship_status" -> {"relationship", "status"}
      [] relation = "camping_location" -> {"camping", "location"}
      [] OTHER -> {relation}
ClaimTokens(m) == OpenTokens(m.claim) \cup Pieces(m.relation) \cup OpenTokens(m.object)

\* _OpenConversationQuery: stopwords go first, cues among them ("when", "where", "still").
Query(question) ==
    LET all == OpenTokens(question)
        content == all \ RelationCues
    IN  [all |-> all, strong |-> all \cap RelationCues # {},
         content |-> IF content = {} THEN all ELSE content]

\* Light folding of inflections, for BM25 alone.
Stem(word) ==
    CASE word \in {"camped", "camping", "camps"} -> "camp" [] word = "moved" -> "mov" [] OTHER -> word

-----------------------------------------------------------------------------
(* The score of a memory. *)

Overlap(q, m) ==
    IF q.content = {} THEN 0
    ELSE (10000 * Cardinality(q.content \cap ClaimTokens(m))) \div Cardinality(q.content)

\* A planner is [verbatim, bm25, topScore, confidence]: whether it looks at the turns
\* themselves, how it scores content, and its two thresholds.
Candidates(planner, memories) ==
    Kept(memories, {n \in DOMAIN memories :
        memories[n].reason = "" /\ (memories[n].kind = "episode" => planner.verbatim)})

\* The content scores that memories may get, by id: the overlap, or BM25 over stems.
ContentScores(planner, memories, question) ==
    LET candidates == Candidates(planner, memories)
        ids == {memories[n].id : n \in DOMAIN memories}
        Of(id) == memories[CHOOSE n \in DOMAIN memories : memories[n].id = id]
        StemsIn(words) == {Stem(w) : w \in words}
        matching == {id \in {candidates[n].id : n \in DOMAIN candidates} :
                        StemsIn(OpenTokens(question)) \cap StemsIn(ClaimTokens(Of(id))) # {}}
    IN  IF planner.bm25
        THEN {[id \in ids |-> IF id \in matching THEN f[id] ELSE 0] : f \in [matching -> Bm25Scores]}
        ELSE {[id \in ids |-> Overlap(Query(question), Of(id))]}

\* Some of the cues are stopwords, so that no question has them.
RelationMatch(q, m) ==
    LET parts == Pieces(m.relation) \ Stopwords
        asks(cues) == q.all \cap cues # {}
        is(kinds) == parts \cap kinds # {}
    IN  FirstThat(<<
        [if |-> asks(parts), then |-> 8000],
        [if |-> /\ asks({"Where", "live", "stay", "move", "moved", "from", "location"})
                /\ is({"location", "home", "address"}), then |-> 10000],
        [if |-> /\ asks({"When", "time", "date", "day", "before", "after"})
                /\ \/ is({"time", "date", "day", "plan", "event", "schedule"})
                   \/ OpenTokens(m.object) \cap TemporalWords # {}, then |-> 8000],
        [if |-> /\ asks({"relationship", "status", "friend", "dating", "married"})
                /\ \/ m.relation = "relationship_status"
                   \/ ClaimTokens(m) \cap {"friend", "dating", "married"} # {}, then |-> 10000],
        [if |-> asks({"like", "likes"}) /\ m.relation \in {"likes", "dislikes"}, then |-> 10000],
        [if |-> asks({"drink"}) /\ m.relation \in {"habit", "routine", "likes"}, then |-> 9000],
        [if |-> asks({"career", "plan", "goal"}) /\ is({"career", "job", "plan", "goal", "attribute"}),
         then |-> 8000]>>, 0)

TemporalMatch(q, m) ==
    IF q.all \cap {"When", "time", "date", "day", "before", "after", "now", "still"} = {} THEN 0
    ELSE IF (OpenTokens(m.object) \cup ClaimTokens(m)) \cap TemporalWords # {} THEN 10000
    ELSE IF m.relation \in {"plan", "event"} THEN 5000 ELSE 0

\* Episodes date nothing, excluded memories do.
LatestDay(memories) ==
    Max({0} \cup {memories[n].day : n \in {k \in DOMAIN memories : memories[k].kind # "episode"}})
Recency(q, m, latest) ==
    IF q.all \cap {"now", "current", "still", "latest"} = {} \/ latest = 0 THEN 0
    ELSE CASE latest <= m.day -> 600 [] latest - m.day = 1 -> 500 [] latest - m.day \in 2 .. 7 -> 300
           [] latest - m.day \in 8 .. 30 -> 150 [] OTHER -> 0

KindWeight(kind) == CASE kind = "fact" -> 600 [] kind = "event" -> 400 [] OTHER -> 0

ScoreOf(q, m, latest, content) ==
    LET relation == RelationMatch(q, m)
        entity == IF m.subject \in q.all THEN 1 ELSE 0
    IN  Clamped((45 * content + 24 * relation + 10 * TemporalMatch(q, m)) \div 100
                + 1800 * entity + Recency(q, m, latest) + KindWeight(m.kind)
                - IF q.strong /\ relation = 0 THEN 1200 ELSE 0)

-----------------------------------------------------------------------------
(* retrieve(). *)

Margin == 400
Scored(planner, memories, question, content) ==
    LET q == Query(question)
        latest == LatestDay(memories)
        all == Candidates(planner, memories)
        scored == [n \in DOMAIN all |->
                      [memory |-> all[n], score |-> ScoreOf(q, all[n], latest, content[all[n].id])]]
    IN  Kept(scored, {n \in DOMAIN scored : scored[n].score > 0})

\* By score, then confidence, then as they came.
Before(scored, i, j) ==
    LET a == scored[i] b == scored[j]
    IN  \/ a.score > b.score
        \/ a.score = b.score /\ a.memory.confidence > b.memory.confidence
        \/ a.score = b.score /\ a.memory.confidence = b.memory.confidence /\ i < j
Ahead(scored, i) == {j \in DOMAIN scored : Before(scored, j, i)}
Ranked(scored) ==
    [n \in DOMAIN scored |-> scored[CHOOSE i \in DOMAIN scored : Cardinality(Ahead(scored, i)) = n - 1]]

\* One memory of a day while there are more than fit, then whatever was left out; no claim twice.
Passed(selected, s, k, oneOfADay) ==
    \/ Len(selected) >= k
    \/ \E n \in DOMAIN selected : selected[n].memory.claim = s.memory.claim
    \/ oneOfADay /\ \E n \in DOMAIN selected : selected[n].memory.day = s.memory.day
Picked(ranked, k, oneOfADay, start) ==
    LET pick[n \in 0 .. Len(ranked)] ==
            IF n = 0 THEN start
            ELSE LET selected == pick[n - 1]
                 IN  IF Passed(selected, ranked[n], k, oneOfADay) THEN selected ELSE Append(selected, ranked[n])
    IN  pick[Len(ranked)]
DiverseTopK(ranked, k) == Picked(ranked, k, FALSE, Picked(ranked, k, Len(ranked) > k, <<>>))

SecondOfAll(selected) == IF Len(selected) > 1 THEN selected[2].score ELSE 0
\* What the best one is compared with: turns do not compete with a structured memory.
SecondScore(selected) ==
    LET rest == IF Head(selected).memory.kind = "episode" THEN Tail(selected)
                ELSE SelectSeq(Tail(selected), LAMBDA s : s.memory.kind # "episode")
    IN  IF rest = <<>> THEN 0 ELSE Head(rest).score

Confidence(selected) ==
    LET top == Head(selected).score
        total == SumOver(selected, LAMBDA s : s.score)
        weighted == SumOver(selected, LAMBDA s : s.memory.confidence * s.score)
    IN  Clamped((7 * top + 3 * (weighted \div total)) \div 10)

AbstainReason(planner, question, selected, content) ==
    LET q == Query(question)
        top == Head(selected)
        second == SecondScore(selected)
    IN  FirstThat(<<
        [if |-> top.score < planner.topScore \/ Confidence(selected) < planner.confidence,
         then |-> "low_confidence"],
        [if |-> /\ top.memory.kind # "episode" /\ second > 0
                /\ top.score - second < Margin /\ top.score < 6200, then |-> "low_margin"],
        [if |-> /\ q.strong /\ RelationMatch(q, top.memory) = 0 /\ TemporalMatch(q, top.memory) = 0
                /\ content[top.memory.id] < 5000, then |-> "relation_mismatch"]>>, "")

\* RetrievalResult: what may be answered only has a provenance.
Retrieve(planner, memories, question, content, k) ==
    LET selected == DiverseTopK(Ranked(Scored(planner, memories, question, content)), k)
        reason == IF selected = <<>> THEN "insufficient_evidence"
                  ELSE AbstainReason(planner, question, selected, content)
    IN  [selected |-> selected, reason |-> reason,
         confidence |-> IF selected = <<>> THEN 0 ELSE Confidence(selected),
         provenance |-> IF reason # "" THEN {}
                        ELSE UNION {selected[n].memory.evidence : n \in DOMAIN selected}]
=============================================================================
