--------------------------- MODULE MCDSARService ---------------------------
(* Small instances of DSARService for TLC. *)
EXTENDS DSARService

CONSTANTS plain, first, second, export, none, ada, bob

\* plain is let through, first and second are held by the strict profile.
MCKind == [id \in Ids |-> IF id = export THEN "access"
                          ELSE IF id = second THEN "consent_withdrawal" ELSE "erasure"]
MCTerm == [id \in Ids |-> IF id = second THEN bob ELSE ada]
=============================================================================
