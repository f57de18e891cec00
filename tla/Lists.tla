------------------------------- MODULE Lists -------------------------------
(* Lists as the evaluation and the extractors go through them: what is kept of  *)
(* one, and the first alternative that has something to say.                    *)
EXTENDS Integers, FiniteSets, SequencesExt

\* The elements at some positions of a list, in their order.
Kept(list, positions) ==
    FlattenSeq([n \in DOMAIN list |-> IF n \in positions THEN <<list[n]>> ELSE <<>>])

\* A cascade of alternatives, each a list: the first that finds any.
Cascade(alternatives) ==
    LET found == {n \in DOMAIN alternatives : alternatives[n] # <<>>}
    IN  IF found = {} THEN <<>> ELSE alternatives[Min(found)]

\* What the first rule [if, then] says that applies.
FirstThat(rules, otherwise) ==
    LET applying == {n \in DOMAIN rules : rules[n].if}
    IN  IF applying = {} THEN otherwise ELSE rules[Min(applying)].then
=============================================================================
