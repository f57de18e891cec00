---------------------------- MODULE DSARService ----------------------------
(***************************************************************************)
(* src/src/cognitive_memory/dsar.py over the revocation side of one         *)
(* tenant's GovernedMemory and its audit file: execute, approve and reject  *)
(* by request_id, the replay registry rebuilt from the audit trail, the     *)
(* hold queue (which lives in memory only), the memory's own forget tool    *)
(* beside the service, and a crash between any two durable effects.         *)
(*                                                                         *)
(* The gateway serialises its calls on one lock, the MCP server and the     *)
(* listener are single threads: calls do not interleave, variable call is   *)
(* the one that is under way.                                               *)
(***************************************************************************)
EXTENDS Integers, Sequences, FiniteSets

CONSTANTS
    Ids,            \* request_ids; every retry of a request carries its id
    NoId,           \* the memory's own tools act for no request
    Terms,
    KindOf,         \* kind of each request
    TermOf,         \* its term (for an access request its subject)
    Suspicious,     \* the requests whose requester or text a strict profile holds
    DirectTerms,    \* terms the memory's own forget tool is called with
    MaxAudit,       \* bound of the audit trail
    MaxAside        \* bound of its entries that belong to no execute, approve or reject

ASSUME DSARAssumption ==
    /\ NoId \notin Ids
    /\ KindOf \in [Ids -> {"erasure", "consent_withdrawal", "access"}]
    /\ TermOf \in [Ids -> Terms]
    /\ Suspicious \subseteq {id \in Ids : KindOf[id] # "access"}
    /\ DirectTerms \subseteq Terms
    /\ MaxAudit \in Nat /\ MaxAside \in Nat

VARIABLES
    audit,          \* the persisted trail of the tenant
    pending,        \* GovernedMemory.pending_revocations; entry n has the id "rev<n>"
    registry,       \* the replay registry: the summary of each id
    loaded,         \* _registry_tenants: this process has rebuilt the registry
    call,           \* the call under way, between two durable effects
    drains          \* constant in a behaviour: nobody restarts it while a request is held

vars == <<audit, pending, registry, loaded, call, drains>>

-----------------------------------------------------------------------------
(* Data. Ghost fields: behalf, the request an effect was carried out for; owner,
   the request a hold was queued for. *)

NoCall == [op |-> "idle"]
Idle == call = NoCall

\* What the memory writes for a revocation; an approved withdrawal restricts.
Effect(action, term, id) == [action |-> action, term |-> term, behalf |-> id]
Effects == {"erasure", "consent_revocation", "restrict"}
Direct(kind) == IF kind = "erasure" THEN "erasure" ELSE "consent_revocation"
\* (Mutants of a definition stand before it; no behaviour of Spec uses them.)
KindAsAction(kind) == kind
OnApproval(kind) == IF kind = "erasure" THEN "erasure" ELSE "restrict"
Note(action) == [action |-> action]

Unanswered == [status |-> "none"]
None == 0       \* no certificate_seq, no pending_id
Summary(action, id, status, certificate_seq, pending_id) ==
    [action |-> action, id |-> id, status |-> status,
     certificate_seq |-> certificate_seq, pending_id |-> pending_id]

Room(n) == Len(audit) + n <= MaxAudit
IsAside(e) == e.action \in {"dsar_plan", "dsar_verify"} \/ (e.action = "erasure" /\ e.behalf = NoId)
AsideCount ==
    Cardinality({k \in DOMAIN audit : IsAside(audit[k])})
    + Cardinality({n \in DOMAIN pending : pending[n].owner = NoId})
Aside == Idle /\ Room(1) /\ AsideCount < MaxAside
Log(entry) == audit' = Append(audit, entry)

\* The actions a summary is rebuilt from.
RegistryActions == {"dsar_execute", "dsar_approve", "dsar_reject"}

Summaries(log, id) == {k \in DOMAIN log : log[k].action \in RegistryActions /\ log[k].id = id}
Newest(places) == CHOOSE k \in places : \A j \in places : j <= k
\* What a rebuild finds of an id: later entries overwrite earlier ones.
Latest(log, id) ==
    LET found == Summaries(log, id)
    IN  IF found = {} THEN Unanswered ELSE log[Newest(found)]

NotRehydrated == registry
\* _ensure_registry: every call that reads the registry rebuilds it first, once.
Rehydrated == IF loaded THEN registry ELSE [id \in Ids |-> Latest(audit, id)]
EnsureRegistry == loaded' = TRUE /\ registry' = Rehydrated
Known(id) == Rehydrated[id]

CertificatesIn(log) == {k \in DOMAIN log : log[k].action = "erasure"}
FirstCertificate(log, before) ==
    IF CertificatesIn(log) = before THEN None
    ELSE CHOOSE k \in CertificatesIn(log) : \A j \in CertificatesIn(log) : k <= j
\* The newest certificate, if there are more of them than before the call.
NewCertificate(log, before) ==
    IF CertificatesIn(log) = before THEN None ELSE Newest(CertificatesIn(log))

Waiting(list) == {n \in DOMAIN list : list[n].status = "pending"}
OldestHold(list) == CHOOSE n \in Waiting(list) : \A m \in Waiting(list) : n <= m
\* _held: the last of the holds that wait.
NewestHold(list) == Newest(Waiting(list))

HoldOf(kind, term, id) == [kind |-> kind, term |-> term, owner |-> id, status |-> "pending"]

-----------------------------------------------------------------------------
Init ==
    /\ audit = <<>> /\ pending = <<>>
    /\ registry = [id \in Ids |-> Unanswered] /\ loaded = FALSE
    /\ call = NoCall
    /\ drains \in BOOLEAN

\* The trail entry and the registered summary are one step of _record and of
\* _register_review: the file is written before the registry is read again.
Register(summary) ==
    /\ Log(summary)
    /\ registry' = [registry EXCEPT ![summary.id] = summary]
    /\ UNCHANGED <<pending, loaded, drains>>

-----------------------------------------------------------------------------
(* execute() *)

\* The revocation goes through: the memory has written its certificate or withdrawal.
ExecuteRevocation(id) ==
    /\ Idle /\ Room(2)
    /\ Known(id) = Unanswered
    /\ KindOf[id] # "access" /\ id \notin Suspicious
    /\ EnsureRegistry
    /\ Log(Effect(Direct(KindOf[id]), TermOf[id], id))
    /\ call' = [op |-> "record", id |-> id, before |-> CertificatesIn(audit)]
    /\ UNCHANGED <<pending, drains>>

RecordExecuted ==
    /\ call.op = "record"
    /\ Register(Summary("dsar_execute", call.id, "executed",
                        NewCertificate(audit, call.before), None))
    /\ call' = NoCall

\* The strict profile queues it instead.
ExecuteHeld(id) ==
    /\ Idle /\ Room(2)
    /\ Known(id) = Unanswered
    /\ id \in Suspicious
    /\ EnsureRegistry
    /\ pending' = Append(pending, HoldOf(KindOf[id], TermOf[id], id))
    /\ Log(Note("revocation_held"))
    /\ call' = [op |-> "record_hold", id |-> id]
    /\ UNCHANGED drains

RecordHeld ==
    /\ call.op = "record_hold"
    /\ Register(Summary("dsar_execute", call.id, "held", None, NewestHold(pending)))
    /\ call' = NoCall

\* The export is anchored first and disclosed second.
ExecuteAccess(id) ==
    /\ Idle /\ Room(2)
    /\ Known(id) = Unanswered
    /\ KindOf[id] = "access"
    /\ LET summary == Summary("dsar_execute", id, "executed", None, None)
       IN  /\ Log(summary)
           /\ registry' = [Rehydrated EXCEPT ![id] = summary]
    /\ loaded' = TRUE
    /\ call' = [op |-> "export", id |-> id]
    /\ UNCHANGED <<pending, drains>>

ExportAccess ==
    /\ call.op = "export"
    /\ Log(Note("access_export"))
    /\ call' = NoCall
    /\ UNCHANGED <<pending, registry, loaded, drains>>

-----------------------------------------------------------------------------
(* approve(), reject() *)

\* The pending id is looked up in the memory, where only this process's holds are.
StillPending(n) == n \in DOMAIN pending /\ pending[n].status = "pending"

Approve(id) ==
    LET n == Known(id).pending_id
    IN  /\ Idle /\ Room(3)
        /\ Known(id).status = "held"
        /\ EnsureRegistry
        /\ \/ /\ StillPending(n)
              /\ pending' = [pending EXCEPT ![n].status = "approved"]
              /\ Log(Note("revocation_approved"))
              /\ call' = [op |-> "run_approved", id |-> id, hold |-> pending[n],
                          before |-> CertificatesIn(audit)]
           \/ /\ ~ StillPending(n)
              /\ call' = [op |-> "record_approval", id |-> id, before |-> CertificatesIn(audit)]
              /\ UNCHANGED <<pending, audit>>
        /\ UNCHANGED drains

RunApproved ==
    /\ call.op = "run_approved"
    /\ Log(Effect(OnApproval(call.hold.kind), call.hold.term, call.hold.owner))
    /\ call' = [op |-> "record_approval", id |-> call.id, before |-> call.before]
    /\ UNCHANGED <<pending, registry, loaded, drains>>

RecordApproval ==
    /\ call.op = "record_approval"
    /\ Register(Summary("dsar_approve", call.id, "approved",
                        NewCertificate(audit, call.before), registry[call.id].pending_id))
    /\ call' = NoCall

Reject(id) ==
    LET n == Known(id).pending_id
    IN  /\ Idle /\ Room(2)
        /\ Known(id).status = "held"
        /\ EnsureRegistry
        /\ IF StillPending(n)
           THEN /\ pending' = [pending EXCEPT ![n].status = "rejected"]
                /\ Log(Note("revocation_rejected"))
           ELSE UNCHANGED <<pending, audit>>
        /\ call' = [op |-> "record_rejection", id |-> id]
        /\ UNCHANGED drains

RecordRejection ==
    /\ call.op = "record_rejection"
    /\ Register(Summary("dsar_reject", call.id, "rejected", None, registry[call.id].pending_id))
    /\ call' = NoCall

-----------------------------------------------------------------------------
(* Everything else that touches the trail, the queue or the registry. *)

\* plan(): a dry run, audited; it does not read the registry.
Plan ==
    /\ Aside
    /\ Log(Note("dsar_plan"))
    /\ UNCHANGED <<pending, registry, loaded, call, drains>>

\* verify() and ticket_payload() of a known request: a probe, audited.
Verify(id) ==
    /\ Aside
    /\ Known(id) # Unanswered
    /\ EnsureRegistry
    /\ Log(Note("dsar_verify"))
    /\ UNCHANGED <<pending, call, drains>>

\* status(), a replayed execute() and a verify() of an unknown id read only.
Consult ==
    /\ Idle
    /\ EnsureRegistry
    /\ UNCHANGED <<audit, pending, call, drains>>

\* The memory's own forget tool, let through or held.
DirectForget(term) ==
    /\ Aside
    /\ Log(Effect("erasure", term, NoId))
    /\ UNCHANGED <<pending, registry, loaded, call, drains>>

DirectHold(term) ==
    /\ Aside
    /\ pending' = Append(pending, HoldOf("erasure", term, NoId))
    /\ Log(Note("revocation_held"))
    /\ UNCHANGED <<registry, loaded, call, drains>>

\* The process stops, at any point, and starts again over the same trail.
Crash ==
    /\ drains => \A id \in Ids : Latest(audit, id).status # "held"
    /\ pending' = <<>>
    /\ registry' = [id \in Ids |-> Unanswered] /\ loaded' = FALSE
    /\ call' = NoCall
    /\ UNCHANGED <<audit, drains>>

Next ==
    \/ \E id \in Ids :
          \/ ExecuteRevocation(id) \/ ExecuteHeld(id) \/ ExecuteAccess(id)
          \/ Approve(id) \/ Reject(id) \/ Verify(id)
    \/ RecordExecuted \/ RecordHeld \/ ExportAccess
    \/ RunApproved \/ RecordApproval \/ RecordRejection
    \/ Plan \/ Consult
    \/ \E term \in DirectTerms : DirectForget(term) \/ DirectHold(term)
    \/ Crash

Spec == Init /\ [][Next]_vars

-----------------------------------------------------------------------------
(* Properties. *)

Carried(id) == {k \in DOMAIN audit : audit[k].action \in Effects /\ audit[k].behalf = id}

Statuses == {"executed", "held", "approved", "rejected"}
SummaryType == [action : RegistryActions, id : Ids, status : Statuses,
                certificate_seq : Nat, pending_id : Nat]
EffectType == [action : Effects, term : Terms, behalf : Ids \cup {NoId}]
NoteType == [action : {"revocation_held", "revocation_approved", "revocation_rejected",
                       "access_export", "dsar_plan", "dsar_verify"}]
HoldType == [kind : {"erasure", "consent_withdrawal"}, term : Terms,
             owner : Ids \cup {NoId}, status : {"pending", "approved", "rejected"}]

\* Every variable keeps its type, and a call under way has what it needs to finish.
TypeOK ==
    /\ audit \in Seq(SummaryType \cup EffectType \cup NoteType)
    /\ pending \in Seq(HoldType)
    /\ registry \in [Ids -> SummaryType \cup {Unanswered}]
    /\ loaded \in BOOLEAN /\ drains \in BOOLEAN
    /\ \/ Idle
       \/ /\ call.id \in Ids /\ loaded
          /\ \/ call.op \in {"record_hold", "export", "record_rejection"}
             \/ call.op \in {"record", "record_approval"} /\ call.before \subseteq DOMAIN audit
             \/ call.op = "run_approved" /\ call.hold \in HoldType

\* A request is answered once, across retries, reviews and restarts: the summaries
\* of the trail implement the ledger.
Ledger == INSTANCE RequestLedger WITH answer <- [id \in Ids |-> Latest(audit, id)]
AnsweredOnce == Ledger!Spec

\* The certificate an executed erasure points at is the one issued for it.
OwnCertificate(id) ==
    Latest(audit, id).status = "executed" /\ KindOf[id] = "erasure" =>
        LET k == Latest(audit, id).certificate_seq
        IN  k \in CertificatesIn(audit) \cap Carried(id) /\ audit[k].term = TermOf[id]

\* A replay hands out what the trail says, and for an executed erasure the very
\* certificate that was issued for it, never that of an earlier or of another one.
ReplayIsTruthful ==
    \A id \in Ids : (loaded => registry[id] = Latest(audit, id)) /\ OwnCertificate(id)

\* docs/servicenow_integration.md, table of statuses: what approved and rejected mean.
ApprovedRan == \A id \in Ids : Latest(audit, id).status = "approved" => Carried(id) # {}
HeldDidNotRun ==
    \A id \in Ids : Latest(audit, id).status \in {"held", "rejected"} =>
        Carried(id) = {} \/ (call.op = "record_approval" /\ call.id = id)

\* While the service is only restarted with no request held, a review does to the
\* request it names, and to no other, what its status says.
OrderlyReviewsHold ==
    drains => /\ ApprovedRan /\ HeldDidNotRun
              /\ \A id \in Ids :
                    Latest(audit, id).status = "approved" /\ KindOf[id] = "erasure" =>
                        Latest(audit, id).certificate_seq \in Carried(id)
=============================================================================
