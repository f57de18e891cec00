--------------------------- MODULE MCDSARIntake ---------------------------
(* Small instances of DSARIntake for TLC. *)
EXTENDS DSARIntake

CONSTANTS stable, doubtful, fresh1, fresh2, none, ada, t1, t2, loop

\* File 1 names its request, file 2 cannot be read, and record 3 names no request: it
\* gets a new id at every delivery.
MCTopic == <<3>>
MCRequest == [m \in Messages |-> IF m = 1 THEN stable ELSE none]
MCKind == [id \in Ids |-> "erasure"]
MCTerm == [id \in Ids |-> ada]
=============================================================================
