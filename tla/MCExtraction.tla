---------------------------- MODULE MCExtraction ----------------------------
(* A small instance of Extraction for TLC. *)
EXTENDS Extraction

CONSTANTS m1, m2

Line(cues) == [BlankLine EXCEPT !.cues = cues]
Tells(group, subject, relation, object) ==
    [group |-> group, subject |-> subject, relation |-> relation, object |-> object, type |-> "semantic_fact"]

\* One line of every kind, and lines two rules compete for.
MCLines == {
    [BlankLine EXCEPT !.form = "FACT", !.subject = "bob", !.relation = "note", !.object = {"forget", "salary"},
                      !.cues = {"forget", "salary"}, !.tail = "salary", !.term = "salary"],
    [BlankLine EXCEPT !.form = "SENSITIVE", !.subject = "bob", !.relation = "note", !.object = {"medical"}, !.cues = {"medical"}],
    [BlankLine EXCEPT !.form = "PREFERENCE", !.relation = "tone", !.object = {"brief"}],
    [BlankLine EXCEPT !.form = "PROCEDURE", !.object = {"call first"}],
    [BlankLine EXCEPT !.form = "DO_NOT_USE", !.tail = "acme", !.term = "acme", !.cues = {"acme"}],
    [Line({"forget"}) EXCEPT !.tail = "that"],
    [Line({"delete", "company"}) EXCEPT !.tail = "that company", !.reference = "company"],
    [Line({"do not mention", "company", "again"}) EXCEPT !.tail = "company Globex again", !.company = "Globex", !.named = "Globex", !.term = "Globex"],
    [Line({"forget", "offer"}) EXCEPT !.candidate = "bob", !.tail = "his offer", !.term = "his offer"],
    [Line({"do not use", "hedge", "phone", "i prefer"}) EXCEPT !.tail = "my phone", !.term = "my phone", !.object = {"phone"}],
    [Line({"i prefer", "home address", "address"}) EXCEPT !.object = {"home address"}],
    [Line({"i prefer", "hedge"}) EXCEPT !.object = {"tea"}, !.says = <<Tells("own", "ana", "likes", "tea")>>],
    [Line({"salary", "amount", "migraine"}) EXCEPT !.candidate = "bob"],
    [Line({"medical"}) EXCEPT !.candidate = "bob"],
    [Line({"hedge", "relocation", "open"}) EXCEPT !.candidate = "bob"],
    [Line({"do not contact"}) EXCEPT !.candidate = "bob"],
    [Line({"confidential", "budget", "amount"}) EXCEPT !.client = "nova", !.named = "Nova"],
    [Line({"budget", "amount", "skill"}) EXCEPT !.client = "nova"],
    [Line({"skill", "senior"}) EXCEPT !.role = "ml"],
    Line({"remote used to be", "remote", "hybrid", "now"}),
    Line({"gymbuddy", "flutter", "beta", "rust"}),
    Line({"child"}),
    [Line({}) EXCEPT !.says = <<Tells("own", "ana", "location", "bern"), Tells("own", "ana", "attribute", "bern"),
        Tells("own", "ana", "likes", "it"), Tells("kin", "ana", "relationship_friend", "bob"),
        Tells("third", "bob", "location", "rome"), Tells("event", "ana", "event", "race"),
        Tells("event", "ana", "event", "race"), Tells("time", "ana", "event_time", "today")>>],
    Line({})}
MCEpisodes ==
    {[lines |-> <<l>>, consent |-> c] : l \in MCLines, c \in {"implicit", "explicit"}}
    \cup {[lines |-> <<l, m>>, consent |-> "implicit"] :
               l \in {x \in MCLines : x.cues \cap PolicyCues # {}}, m \in {x \in MCLines : "hedge" \in x.cues}}

SchemaItem == [claim |-> "likes tea", type |-> "preference", action |-> "store", user |-> User, numeric |-> TRUE]
MCPayloads == {<<>>, <<SchemaItem>>, <<SchemaItem, [SchemaItem EXCEPT !.action = "delete", !.user = "someone"]>>,
               <<[SchemaItem EXCEPT !.type = "secret"]>>}

MCTurn(dia, words, day) ==
    [dia_id |-> dia, session |-> "s1", speaker |-> "ana", timestamp |-> day, words |-> words, consent |-> "implicit"]
\* The dataset in three editions: the words of the first turn are corrected, and the date.
MCConversations == {<<MCTurn("d1", {"move", "bern"}, 1), MCTurn("d2", {"bob", "tea"}, 1)>>,
                    <<MCTurn("d1", {"move", "rome"}, 1), MCTurn("d2", {"bob", "tea"}, 1)>>,
                    <<MCTurn("d1", {"move", "bern"}, 2), MCTurn("d2", {"bob", "tea"}, 2)>>}
Item == [complete |-> TRUE, object_like |-> TRUE, dia_id |-> "d1", confidence |-> 60, relation |-> "location",
         resolved |-> TRUE, sensitivity |-> "low", support |-> {"move"}, subject |-> "i", object |-> {"bern"},
         entities |-> {"bern"}]
MCUnparseable == <<[Item EXCEPT !.dia_id = "not json"]>>
MCReplies == {Unparseable, <<>>, <<[Item EXCEPT !.object_like = FALSE]>>, <<Item>>,
              <<[Item EXCEPT !.dia_id = "d2", !.support = {"tea"}, !.subject = "bob", !.object = {"tea"}, !.entities = {}],
                [Item EXCEPT !.confidence = 40]>>}
=============================================================================
