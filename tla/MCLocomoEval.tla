---------------------------- MODULE MCLocomoEval ----------------------------
(* A small instance of LocomoEval for TLC: that of Extraction, and conversations *)
(* with what the generic extractor might have made of them.                      *)
EXTENDS MCExtraction, LocomoEval

Said(id, speaker, text, day) == [id |-> id, speaker |-> speaker, text |-> text, day |-> day]
Memory(id, kind, subject, relation, object, day, turn) ==
    [id |-> id, kind |-> kind, claim |-> <<subject, relation>> \o object, subject |-> subject, relation |-> relation,
     object |-> object, day |-> day, confidence |-> 8500, evidence |-> {turn}, reason |-> ""]
Asks(words, answers, evidence) ==
    [words |-> words, answers |-> answers, evidence |-> evidence, adversarial |-> FALSE]

MovingTurns == <<
    Said("d1", "Ana", <<"Ana:", "I", "moved", "to", "Bern">>, 1),
    Said("d2", "Bob", <<"Bob:", "I", "like", "tea", "and", "hiking">>, 1),
    Said("d3", "Ana", <<"Ana:", "I", "started", "dating", "Bob">>, 2),
    Said("d4", "Ana", <<"Ana:", "Yesterday", "I", "camped", "in", "Rome">>, 3)>>
Moving == [turns |-> MovingTurns,
    memories |-> <<
        Memory("f1", "fact", "Ana", "location", <<"Bern">>, 1, "d1"),
        Memory("f2", "fact", "Bob", "likes", <<"tea">>, 1, "d2"),
        [Memory("f3", "fact", "Ana", "location", <<"Rome">>, 2, "d2") EXCEPT !.reason = "do_not_use"],
        Memory("e1", "event", "Ana", "relationship_status", <<"dating", "Bob">>, 2, "d3"),
        [Memory("r1", "reflection", "Bob", "likes", <<"tea">>, 3, "d2") EXCEPT !.object = <<>>],
        [Memory("r2", "reflection", "Bob", "preference", <<>>, 3, "d2") EXCEPT !.claim = <<"Bob", "enjoys", "hiking">>]>>,
    questions |-> <<
        Asks(<<"Where", "did", "Ana", "move">>, {<<"Bern">>}, {"d1"}),
        Asks(<<"What", "does", "Bob", "like">>, {<<"tea">>}, {"d2"}),
        Asks(<<"Who", "is", "Ana", "dating">>, {<<"Bob">>}, {"d3"}),
        Asks(<<"What", "hiking", "has", "Bob", "enjoyed">>, {<<"hiking">>}, {"d2"}),
        Asks(<<"Where", "has", "Ana", "camped">>, {<<"Rome">>}, {"d4"}),
        Asks(<<"Is", "Ana", "dating">>, {<<"yes">>}, {"d3"}),
        [Asks(<<"What", "does", "Ana", "drink">>, {<<"tea">>}, {}) EXCEPT !.adversarial = TRUE],
        Asks(<<"When", "did", "Ana", "move", "now">>, {<<"monday">>}, {"d1"})>>]

\* Memories that come close to one another, more than are selected, and turns that repeat them.
RivalTurns == <<
    Said("d1", "Ana", <<"Ana:", "I", "like", "tea", "and", "rust">>, 1),
    Said("d2", "Ana", <<"Ana:", "I", "like", "tea", "now">>, 2),
    Said("d3", "Bob", <<"Bob:", "Ana", "has", "2", "cats">>, 3)>>
Rivals == [turns |-> RivalTurns,
    memories |-> <<
        Memory("f1", "fact", "Ana", "likes", <<"tea">>, 1, "d1"),
        [Memory("f2", "fact", "Ana", "likes", <<"tea", "now">>, 2, "d2") EXCEPT !.confidence = 5000],
        Memory("f3", "fact", "Ana", "attribute", <<"2", "cats">>, 3, "d3"),
        Memory("f4", "fact", "Ana", "likes", <<"rust">>, 3, "d1"),
        [Memory("e1", "event", "Ana", "event", <<"tea">>, 2, "d2") EXCEPT !.claim = <<"Ana", "likes", "tea">>]>>,
    questions |-> <<
        Asks(<<"What", "does", "Ana", "like", "now">>, {<<"tea">>}, {"d1", "d2"}),
        Asks(<<"How", "many", "cats", "has", "Ana">>, {<<"2">>}, {"d3"}),
        Asks(<<"What", "cats", "does", "Bob", "like">>, {<<"tea">>}, {"d3"}),
        Asks(<<"Did", "Ana", "move">>, {}, {}),
        Asks(<<"What", "tea", "and", "rust">>, {<<"tea">>}, {"d1"})>>]

MCSamples == {Moving, Rivals}
MCPlanners == {
    [verbatim |-> FALSE, bm25 |-> FALSE, topScore |-> 4500, confidence |-> 3200],
    [verbatim |-> TRUE, bm25 |-> FALSE, topScore |-> 4500, confidence |-> 3200],
    [verbatim |-> TRUE, bm25 |-> TRUE, topScore |-> 3000, confidence |-> 3200],
    [verbatim |-> TRUE, bm25 |-> TRUE, topScore |-> 7800, confidence |-> 4000]}
MCBm25 == {5000, 9500}
MCLlmAnswers == {<<>>, <<"Rome">>}
=============================================================================
