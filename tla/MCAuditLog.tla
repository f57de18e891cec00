----------------------------- MODULE MCAuditLog -----------------------------
(* Small instances of AuditLog for TLC. *)
EXTENDS AuditLog

CONSTANTS erasure, served

\* An erasure is disclosed, a served recall is not.
MCRedacted == [body \in Subject |-> "digest"]
=============================================================================
