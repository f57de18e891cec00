-------------------------- MODULE MCGovernedMemory --------------------------
(* Small instances of GovernedMemory for TLC. *)
EXTENDS GovernedMemory

CONSTANTS p1, p2, t1, t2, ads, none, subject, stranger, name, note

MCOneTerm == {{"a"}}
\* name carries the erased word in its fields, note in its text alone (a lenient policy
\* does not find it there).
MCText == [c \in Contents |-> {"a"}]
MCFields == [c \in Contents |-> IF c = name THEN {"a"} ELSE {}]
MCRisks == [c \in Contents |-> IF c = name THEN {"sensitive"} ELSE {}]
MCAllowed == [c \in Contents |-> IF c = note THEN Purposes ELSE {}]

Policy(l, s, d) == [lenient |-> l, strict_revocation |-> s, deduplicate |-> d]
MCPolicies == {Policy(FALSE, FALSE, TRUE), Policy(TRUE, TRUE, FALSE)}
=============================================================================
