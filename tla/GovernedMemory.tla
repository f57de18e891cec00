--------------------------- MODULE GovernedMemory ---------------------------
(***************************************************************************)
(* The governance layer of src/src/cognitive_memory/reliability.py over a   *)
(* durable store (adapters/sqlite_backend.py): writes with quarantine,      *)
(* erasure, restriction and consent withdrawal, the strict-revocation hold  *)
(* queue, explicit release, retention clean-up, tombstone reconciliation,   *)
(* scoped views, the read gate, and what a crash between any two durable    *)
(* effects leaves behind.                                                   *)
(*                                                                         *)
(* A process runs each public operation under its own RLock, so operations  *)
(* of one process never interleave; an operation with several durable       *)
(* effects is split at each of them (variable inflight), because a crash,   *)
(* or a second process on the same store, can come between.                 *)
(***************************************************************************)
EXTENDS Integers, FiniteSets

CONSTANTS
    Instances,      \* processes that share one store and one audit file
    Tenants,
    Contents,       \* what a write can carry (subject, relation, object, text)
    Terms,          \* erasure, restriction and consent terms, as token sets
    Purposes,       \* declared purposes of use; NoPurpose is the empty string
    NoPurpose,
    Requesters,     \* requester of a revocation; the empty string is one of them
    Entitled,       \* the requesters that are the data subject or an operator
    TextTokens,     \* tokens of a content's text, subject and object
    FieldTokens,    \* tokens of its subject and object only
    Risks,          \* what the write-side detectors find in a content
    AllowedFor,     \* allowed_purposes of a content; {} means unrestricted
    Policies,       \* compliance policies the deployment switches between
    DurableStore,   \* the backend keeps its rows across a crash
    TombstoneTable, \* the backend has record_tombstone and list_tombstones
    AuditFile,      \* the audit log is given a persist_path
    Faults,         \* of {"restored", "audit_lost"}: which of them may happen, once
    MaxIds, MaxHolds, MaxViews  \* bounds of the counters

ASSUME ConstantsAssumption ==
    /\ NoPurpose \notin Purposes
    /\ Entitled \subseteq Requesters
    /\ TextTokens \in [Contents -> SUBSET UNION Terms]
    /\ FieldTokens \in [Contents -> SUBSET UNION Terms]
    /\ \A c \in Contents : FieldTokens[c] \subseteq TextTokens[c]
    /\ Risks \in [Contents -> SUBSET {"injection", "sensitive", "sensitive_channel", "low_trust"}]
    /\ AllowedFor \in [Contents -> SUBSET Purposes]
    /\ Policies \subseteq [lenient : BOOLEAN, strict_revocation : BOOLEAN, deduplicate : BOOLEAN]
    /\ {DurableStore, TombstoneTable, AuditFile} \subseteq BOOLEAN
    /\ TombstoneTable => DurableStore
    /\ TombstoneTable \/ AuditFile
    /\ Faults \subseteq {"restored", "audit_lost"}
    /\ "restored" \in Faults => DurableStore /\ AuditFile
    /\ "audit_lost" \in Faults => TombstoneTable /\ AuditFile
    /\ MaxIds \in Nat /\ MaxHolds \in Nat /\ MaxViews \in Nat

VARIABLES
    policy,         \* policy[i]: the compliance policy of process i
    registry,       \* registry[i]: erased_terms, restricted_terms and revoked_consent
    pending,        \* pending[i][n]: the hold with id "rev<n>", decided ones included
    id_counter,     \* id_counter[i]: SqliteBackend._counter
    views,          \* views[i][n]: the view with handle "vw<n>"; granted is ghost
    inflight,       \* inflight[i]: the operation holding the lock, between two effects
    records,        \* rows of the records table
    table,          \* rows of the tombstones table
    trail,          \* the audit file's erasure, restrict and consent_revocation entries
    derived,        \* copies held by the registered derivative store
    backup,         \* a copy of the store file, once one was taken
    fault,          \* "none", or the restore or the loss that happened
    promised,       \* ghost: revocations process i acknowledged to a caller
    authorised,     \* ghost: revocations an entitled requester or a reviewer asked for
    orphans         \* ghost: copies that lost their row and were not purged with it

volatile == <<policy, registry, pending, id_counter, views, inflight>>
durable  == <<records, table, trail, derived>>
ghosts   == <<promised, authorised, orphans>>
vars     == <<volatile, durable, backup, fault, ghosts>>

-----------------------------------------------------------------------------
(* Data. *)

Kinds == {"erased", "restricted", "consent"}
Revocation == [kind : Kinds, tenant : Tenants, term : Terms, purpose : Purposes \cup {NoPurpose}]
\* held: "" for a clean record, else why it is quarantined (an injection hold
\* needs an override to be released; the other reasons behave alike).
Record == [id : 1..MaxIds, tenant : Tenants, content : Contents,
           held : {"", "injection", "other"}]
Copy == [id : 1..MaxIds, tenant : Tenants, content : Contents]
Hold == [rev : Revocation, status : {"pending", "approved", "rejected"}]
NoHold == [status |-> "none"]
View == [tenant : Tenants, status : {"valid", "revoked", "expired"},
         granted : SUBSET Revocation, under : Policies]
NoView == [status |-> "none"]
Steps == {"delete", "purge", "certify", "purge_expired", "log_restrict", "write_back"}
NoRevocation == [kind |-> "none"]
InFlight == [step : Steps, rev : Revocation \cup {NoRevocation}, targets : SUBSET Record]
Idle == [step |-> "idle", targets |-> {}]
RevocationSteps == {"delete", "purge", "certify", "log_restrict"}

CopyOf(r) == [id |-> r.id, tenant |-> r.tenant, content |-> r.content]
CopiesOf(rs) == {CopyOf(r) : r \in rs}

\* tokenize() of what erasure inspects: the whole record, or subject and object only.
ErasureTokens(i, c) == IF policy[i].lenient THEN FieldTokens[c] ELSE TextTokens[c]
\* A term without tokens never hits.
TermHits(i, term, c) == term # {} /\ term \subseteq ErasureTokens(i, c)

\* What process i withholds of a tenant's content on account of an entry e.
Blocks(i, e, t, c, purpose) ==
    /\ e.tenant = t
    /\ \/ e.kind = "erased" /\ TermHits(i, e.term, c)
       \/ /\ e.kind # "erased" /\ e.term # {} /\ e.term \subseteq TextTokens[c]
          /\ e.kind = "consent" => e.purpose \in {NoPurpose, purpose}

ErasedContent(i, t, c) ==
    \E e \in registry[i] : e.kind = "erased" /\ e.tenant = t /\ TermHits(i, e.term, c)

\* The read gate of recall(), release() and verify_record(), for a query about the
\* record's own subject (relevance, conflicts and purpose rules only narrow it further).
Servable(i, r, t, purpose) ==
    /\ r.tenant = t
    /\ r.held = ""
    /\ ~ \E e \in registry[i] : Blocks(i, e, t, r.content, purpose)
    /\ purpose = NoPurpose \/ AllowedFor[r.content] = {} \/ purpose \in AllowedFor[r.content]
    /\ "injection" \notin Risks[r.content]

\* The copies nobody will purge any more once only these rows are left.
Strand(rows) == orphans \cup {d \in derived : d \notin CopiesOf(rows)}

\* (Mutants of a definition stand before it; no behaviour of Spec uses them.)
RebuildFromTable(tab, log) == tab
\* What a start-up rebuilds from the tombstone table and the audit entries.
Rebuild(tab, log) == {e \in tab \cup log : e.term # {}}

\* Registries and table ignore a term without tokens.
Add(set, e) == IF e.term = {} THEN set ELSE set \cup {e}
AddErasedOnly(tab, e) == IF e.kind = "erased" THEN Add(tab, e) ELSE tab
AddToTable(tab, e) == IF TombstoneTable THEN Add(tab, e) ELSE tab

CountsRows(n, rows) == n = Cardinality(rows)
\* SqliteBackend._max_counter: n is the highest id in use, 0 without rows.
IsMaxCounter(n, rows) ==
    /\ \A r \in rows : r.id <= n
    /\ n = 0 \/ \E r \in rows : r.id = n

CounterBeforeIncrement(i) == id_counter[i]
\* write() numbers a fresh record after moving the counter.
NextId(i) == id_counter[i] + 1

\* INSERT OR REPLACE.
Insert(rows, r) == {s \in rows : s.id # r.id} \cup {r}

\* _bump_epoch: the outstanding views of these tenants no longer match their epoch.
RevokeViews(vs, ts) ==
    [h \in DOMAIN vs |-> IF vs[h].status = "valid" /\ vs[h].tenant \in ts
                         THEN [vs[h] EXCEPT !.status = "revoked"] ELSE vs[h]]

GovernanceOf(i, t) == {e \in registry[i] : e.tenant = t}
Free(i) == inflight[i] = Idle
\* The first n of a list that only grows.
NextIn(list, n, null) == list[n] = null /\ \A m \in 1..(n - 1) : list[m] # null

-----------------------------------------------------------------------------
Init ==
    /\ policy \in [Instances -> Policies]
    /\ registry = [i \in Instances |-> {}]
    /\ pending = [i \in Instances |-> [n \in 1..MaxHolds |-> NoHold]]
    /\ id_counter = [i \in Instances |-> 0]
    /\ views = [i \in Instances |-> [n \in 1..MaxViews |-> NoView]]
    /\ inflight = [i \in Instances |-> Idle]
    /\ records = {} /\ table = {} /\ trail = {} /\ derived = {}
    /\ backup = {} /\ fault = "none"
    /\ promised = [i \in Instances |-> {}]
    /\ authorised = {} /\ orphans = {}

-----------------------------------------------------------------------------
(* Writes. *)

\* The write side quarantines; consent lifts the privacy holds, never the others.
HoldReason(i, t, c, consent) ==
    LET found == Risks[c] \ (IF consent THEN {"sensitive", "sensitive_channel"} ELSE {})
    IN  IF "injection" \in found THEN "injection"
        ELSE IF found # {} \/ ErasedContent(i, t, c) THEN "other" ELSE ""

\* _is_duplicate compares scope and content, whatever the stored row's quarantine.
IsDuplicate(t, c) == \E r \in records : r.tenant = t /\ r.content = c

\* remember(): a write that deduplication skips changes nothing and is no step.
Remember(i, t, c, consent) ==
    LET held == HoldReason(i, t, c, consent)
        id == NextId(i)
    IN  /\ Free(i)
        /\ id <= MaxIds
        /\ ~ (held = "" /\ policy[i].deduplicate /\ IsDuplicate(t, c))
        /\ id_counter' = [id_counter EXCEPT ![i] = id]
        /\ records' = Insert(records, [id |-> id, tenant |-> t, content |-> c, held |-> held])
        /\ UNCHANGED <<policy, registry, pending, views, inflight, table, trail, derived,
                       backup, fault, ghosts>>

\* release_quarantined() for one record: the row is deleted, then written back
\* clean under its own id (the store's counter moves on all the same).
ReleaseDelete(i, r, override) ==
    /\ Free(i)
    /\ r \in records
    /\ r.held # ""
    /\ r.held = "injection" => override
    /\ id_counter[i] < MaxIds
    /\ records' = records \ {r}
    /\ inflight' = [inflight EXCEPT ![i] =
           [step |-> "write_back", rev |-> NoRevocation, targets |-> {r}]]
    /\ UNCHANGED <<policy, registry, pending, id_counter, views, table, trail, derived,
                   backup, fault, ghosts>>

ReleaseWriteBack(i) ==
    /\ inflight[i].step = "write_back"
    /\ \E r \in inflight[i].targets : records' = Insert(records, [r EXCEPT !.held = ""])
    /\ id_counter' = [id_counter EXCEPT ![i] = @ + 1]
    /\ inflight' = [inflight EXCEPT ![i] = Idle]
    /\ UNCHANGED <<policy, registry, pending, views, table, trail, derived, backup, fault, ghosts>>

-----------------------------------------------------------------------------
(* Revocations. *)

SuspiciousRequester(i, requester, risky) ==
    policy[i].strict_revocation /\ requester \notin Entitled
\* _revocation_hold_reason: only strict revocation mode looks at the requester.
Suspicious(i, requester, risky) ==
    policy[i].strict_revocation /\ (risky \/ requester \notin Entitled)

\* _execute_forget up to the tombstone, which a durable backend commits at once.
ExecuteForget(i, rev) ==
    /\ registry' = [registry EXCEPT ![i] = Add(@, rev)]
    /\ table' = AddToTable(table, rev)
    /\ views' = [views EXCEPT ![i] = RevokeViews(@, {rev.tenant})]
    /\ inflight' = [inflight EXCEPT ![i] = [step |-> "delete", rev |-> rev, targets |-> {}]]
    /\ UNCHANGED <<trail, promised>>

ExecuteRestrictQuietly(i, rev) ==
    /\ registry' = [registry EXCEPT ![i] = Add(@, rev)]
    /\ table' = AddToTable(table, rev)
    /\ inflight' = [inflight EXCEPT ![i] = [step |-> "log_restrict", rev |-> rev, targets |-> {}]]
    /\ UNCHANGED <<trail, promised, views>>
ExecuteRestrict(i, rev) ==
    /\ registry' = [registry EXCEPT ![i] = Add(@, rev)]
    /\ table' = AddToTable(table, rev)
    /\ views' = [views EXCEPT ![i] = RevokeViews(@, {rev.tenant})]
    /\ inflight' = [inflight EXCEPT ![i] = [step |-> "log_restrict", rev |-> rev, targets |-> {}]]
    /\ UNCHANGED <<trail, promised>>

\* revoke_consent(): in memory, then one audit entry, the only durable source.
ExecuteRevokeConsent(i, rev) ==
    /\ registry' = [registry EXCEPT ![i] = Add(@, rev)]
    /\ trail' = trail \cup {rev}
    /\ views' = [views EXCEPT ![i] = RevokeViews(@, {rev.tenant})]
    /\ promised' = [promised EXCEPT ![i] = Add(@, rev)]
    /\ UNCHANGED <<table, inflight>>

Execute(i, rev) ==
    \/ rev.kind = "erased" /\ ExecuteForget(i, rev)
    \/ rev.kind = "restricted" /\ ExecuteRestrict(i, rev)
    \/ rev.kind = "consent" /\ ExecuteRevokeConsent(i, rev)

\* forget(), restrict() and revoke_consent() with nothing to hold back.
Revoke(i, rev, requester, risky) ==
    /\ Free(i)
    /\ ~ Suspicious(i, requester, risky)
    /\ Execute(i, rev)
    /\ authorised' = IF policy[i].strict_revocation => ~risky /\ requester \in Entitled
                     THEN Add(authorised, rev) ELSE authorised
    /\ UNCHANGED <<policy, pending, id_counter, records, derived, backup, fault, orphans>>

\* The same calls held for review. A hold has no field for a withdrawal's purpose.
HoldRevocation(i, rev, requester, risky, n) ==
    /\ Free(i)
    /\ Suspicious(i, requester, risky)
    /\ NextIn(pending[i], n, NoHold)
    /\ pending' = [pending EXCEPT ![i][n] =
           [rev |-> [rev EXCEPT !.purpose = NoPurpose], status |-> "pending"]]
    /\ UNCHANGED <<policy, registry, id_counter, views, inflight, durable, backup, fault, ghosts>>

\* What approval executes: an erasure, and for any other kind a restriction.
OnApproval(rev) == IF rev.kind = "erased" THEN rev ELSE [rev EXCEPT !.kind = "restricted"]

ApproveRevocation(i, n) ==
    /\ Free(i)
    /\ pending[i][n].status = "pending"
    /\ pending' = [pending EXCEPT ![i][n].status = "approved"]
    /\ Execute(i, OnApproval(pending[i][n].rev))
    /\ authorised' = Add(authorised, OnApproval(pending[i][n].rev))
    /\ UNCHANGED <<policy, id_counter, records, derived, backup, fault, orphans>>

RejectRevocation(i, n) ==
    /\ Free(i)
    /\ pending[i][n].status = "pending"
    /\ pending' = [pending EXCEPT ![i][n].status = "rejected"]
    /\ UNCHANGED <<policy, registry, id_counter, views, inflight, durable, backup, fault, ghosts>>

MatchingServed(i, rev) ==
    {r \in records : r.tenant = rev.tenant /\ r.held = "" /\ TermHits(i, rev.term, r.content)}
\* The records an erasure matches, quarantined ones included.
Matching(i, rev) == {r \in records : r.tenant = rev.tenant /\ TermHits(i, rev.term, r.content)}

ForgetDelete(i) ==
    /\ inflight[i].step = "delete"
    /\ LET matched == Matching(i, inflight[i].rev)
       IN  /\ records' = records \ matched
           /\ inflight' = [inflight EXCEPT ![i].step = "purge", ![i].targets = matched]
    /\ UNCHANGED <<policy, registry, pending, id_counter, views, table, trail, derived,
                   backup, fault, ghosts>>

\* _purge_derivatives hands the store exactly the records that were deleted.
Purge(targets) ==
    /\ derived' = derived \ CopiesOf(targets)
    /\ orphans' = orphans \ CopiesOf(targets)

ForgetPurge(i) ==
    /\ inflight[i].step = "purge"
    /\ Purge(inflight[i].targets)
    /\ inflight' = [inflight EXCEPT ![i].step = "certify"]
    /\ UNCHANGED <<policy, registry, pending, id_counter, views, records, table, trail,
                   backup, fault, promised, authorised>>

ForgetCertify(i) ==
    /\ inflight[i].step = "certify"
    /\ trail' = trail \cup {inflight[i].rev}
    /\ promised' = [promised EXCEPT ![i] = Add(@, inflight[i].rev)]
    /\ inflight' = [inflight EXCEPT ![i] = Idle]
    /\ UNCHANGED <<policy, registry, pending, id_counter, views, records, table, derived,
                   backup, fault, authorised, orphans>>

RestrictLog(i) ==
    /\ inflight[i].step = "log_restrict"
    /\ trail' = trail \cup {inflight[i].rev}
    /\ promised' = [promised EXCEPT ![i] = Add(@, inflight[i].rev)]
    /\ inflight' = [inflight EXCEPT ![i] = Idle]
    /\ UNCHANGED <<policy, registry, pending, id_counter, views, records, table, derived,
                   backup, fault, authorised, orphans>>

-----------------------------------------------------------------------------
(* Sweeps, policy and views. *)

\* cleanup_expired(): any of the records, of one tenant or of all, may have
\* outlived their window.
CleanupDelete(i, expired) ==
    /\ Free(i)
    /\ expired # {}
    /\ records' = records \ expired
    /\ inflight' = [inflight EXCEPT ![i] =
           [step |-> "purge_expired", rev |-> NoRevocation, targets |-> expired]]
    /\ UNCHANGED <<policy, registry, pending, id_counter, views, table, trail, derived,
                   backup, fault, ghosts>>

CleanupPurge(i) ==
    /\ inflight[i].step = "purge_expired"
    /\ Purge(inflight[i].targets)
    /\ inflight' = [inflight EXCEPT ![i] = Idle]
    /\ UNCHANGED <<policy, registry, pending, id_counter, views, records, table, trail,
                   backup, fault, promised, authorised>>

\* purge_records() raises: the exception leaves forget() or cleanup_expired()
\* with the rows gone and nothing else done.
PurgeRaises(i) ==
    /\ inflight[i].step \in {"purge", "purge_expired"}
    /\ inflight' = [inflight EXCEPT ![i] = Idle]
    /\ orphans' = Strand(records)
    /\ UNCHANGED <<policy, registry, pending, id_counter, views, durable, backup, fault,
                   promised, authorised>>

\* reconcile_tombstones(): deletes what erasure withholds. The derivative store
\* is not told, and no view is revoked.
Reconcile(i, ts) ==
    LET remove == {r \in records : r.tenant \in ts /\ ErasedContent(i, r.tenant, r.content)}
    IN  /\ Free(i)
        /\ remove # {}
        /\ records' = records \ remove
        /\ orphans' = Strand(records \ remove)
        /\ UNCHANGED <<volatile, table, trail, derived, backup, fault, promised, authorised>>

SetPolicy(i, p) ==
    /\ Free(i)
    /\ policy' = [policy EXCEPT ![i] = p]
    /\ views' = [views EXCEPT ![i] = RevokeViews(@, Tenants)]
    /\ UNCHANGED <<registry, pending, id_counter, inflight, durable, backup, fault, ghosts>>

IssueView(i, t, n) ==
    /\ Free(i)
    /\ NextIn(views[i], n, NoView)
    /\ views' = [views EXCEPT ![i][n] =
           [tenant |-> t, status |-> "valid", granted |-> GovernanceOf(i, t), under |-> policy[i]]]
    /\ UNCHANGED <<policy, registry, pending, id_counter, inflight, durable, backup, fault, ghosts>>

\* The view's ttl runs out (an expired view reads "expired" even if revoked before).
ViewExpires(i, n) ==
    /\ views[i][n].status \in {"valid", "revoked"}
    /\ views' = [views EXCEPT ![i][n].status = "expired"]
    /\ UNCHANGED <<policy, registry, pending, id_counter, inflight, durable, backup, fault, ghosts>>

-----------------------------------------------------------------------------
(* The environment. *)

\* A derivative store takes a copy of a row that recall serves to someone.
Derive(i, r) ==
    /\ Free(i)
    /\ r \in records
    /\ \E purpose \in Purposes \cup {NoPurpose} : Servable(i, r, r.tenant, purpose)
    /\ derived' = derived \cup {CopyOf(r)}
    /\ orphans' = orphans \ {CopyOf(r)}
    /\ UNCHANGED <<volatile, records, table, trail, backup, fault, promised, authorised>>

\* What a start-up of process i finds and rebuilds.
Restarted(is, rows, tab, log) ==
    /\ policy' \in [Instances -> Policies]
    /\ \A i \in Instances \ is : policy'[i] = policy[i]
    /\ id_counter' \in [Instances -> 0..MaxIds]
    /\ \A i \in Instances : IF i \in is THEN IsMaxCounter(id_counter'[i], rows)
                             ELSE id_counter'[i] = id_counter[i]
    /\ registry' = [i \in Instances |-> IF i \in is THEN Rebuild(tab, log) ELSE registry[i]]
    /\ pending' = [i \in Instances |-> IF i \in is THEN [n \in 1..MaxHolds |-> NoHold] ELSE pending[i]]
    /\ views' = [i \in Instances |-> IF i \in is THEN [n \in 1..MaxViews |-> NoView] ELSE views[i]]
    /\ inflight' = [i \in Instances |-> IF i \in is THEN Idle ELSE inflight[i]]
    /\ orphans' = Strand(rows)
    /\ records' = rows /\ table' = tab /\ trail' = log
    /\ UNCHANGED <<derived, authorised>>

\* Consent withdrawals live in the audit file alone; without it they are gone.
WithoutConsent(es) == {e \in es : e.kind # "consent"}

\* One process stops, between any two durable effects, and starts again.
Crash(i) ==
    /\ Restarted({i}, IF DurableStore THEN records ELSE {}, table,
                  IF AuditFile THEN trail ELSE {})
    /\ promised' = IF AuditFile THEN promised
                   ELSE [promised EXCEPT ![i] = WithoutConsent(@)]
    /\ UNCHANGED <<backup, fault>>

\* An operator copies the store file.
TakeBackup ==
    /\ "restored" \in Faults
    /\ fault = "none" /\ backup = {}
    /\ backup' = {[rows |-> records, tab |-> table]}
    /\ UNCHANGED <<volatile, durable, fault, ghosts>>

\* The store is restored from the copy; the audit file is not.
RestoreBackup ==
    /\ fault = "none"
    /\ \E b \in backup : Restarted(Instances, b.rows, b.tab, trail)
    /\ backup' = {} /\ fault' = "restored"
    /\ UNCHANGED promised

\* The audit file is lost; the store is not.
LoseAuditFile ==
    /\ "audit_lost" \in Faults
    /\ fault = "none"
    /\ Restarted(Instances, records, table, {})
    /\ backup' = {} /\ fault' = "audit_lost"
    /\ promised' = [i \in Instances |-> WithoutConsent(promised[i])]

-----------------------------------------------------------------------------
Next ==
    \/ \E i \in Instances :
        \/ \E t \in Tenants, c \in Contents, consent \in BOOLEAN : Remember(i, t, c, consent)
        \/ \E r \in records, override \in BOOLEAN : ReleaseDelete(i, r, override)
        \/ ReleaseWriteBack(i)
        \/ \E rev \in Revocation, q \in Requesters, risky \in BOOLEAN :
              /\ rev.kind # "consent" => rev.purpose = NoPurpose
              /\ \/ Revoke(i, rev, q, risky)
                 \/ \E n \in 1..MaxHolds : HoldRevocation(i, rev, q, risky, n)
        \/ \E n \in 1..MaxHolds : ApproveRevocation(i, n) \/ RejectRevocation(i, n)
        \/ ForgetDelete(i) \/ ForgetPurge(i) \/ ForgetCertify(i) \/ RestrictLog(i)
        \/ \E expired \in SUBSET records : CleanupDelete(i, expired)
        \/ CleanupPurge(i) \/ PurgeRaises(i)
        \/ \E ts \in {{t} : t \in Tenants} \cup {Tenants} : Reconcile(i, ts)
        \/ \E p \in Policies : SetPolicy(i, p)
        \/ \E n \in 1..MaxViews : ViewExpires(i, n) \/ \E t \in Tenants : IssueView(i, t, n)
        \/ \E r \in records : Derive(i, r)
        \/ Crash(i)
    \/ TakeBackup \/ RestoreBackup \/ LoseAuditFile

Spec == Init /\ [][Next]_vars

-----------------------------------------------------------------------------
(* Properties. *)

ProcessTypes ==
    /\ policy \in [Instances -> Policies]
    /\ registry \in [Instances -> SUBSET Revocation]
    /\ pending \in [Instances -> [1..MaxHolds -> Hold \cup {NoHold}]]
    /\ id_counter \in [Instances -> 0..MaxIds]
    /\ views \in [Instances -> [1..MaxViews -> View \cup {NoView}]]

OperationTypes ==
    /\ inflight \in [Instances -> InFlight \cup {Idle}]
    /\ \A i \in Instances :
          /\ inflight[i].step \in RevocationSteps => inflight[i].rev \in Revocation
          /\ inflight[i].step = "write_back" => id_counter[i] # MaxIds

StoreTypes ==
    /\ records \subseteq Record
    /\ table \subseteq Revocation
    /\ trail \subseteq Revocation
    /\ derived \subseteq Copy
    /\ backup \subseteq [rows : SUBSET Record, tab : SUBSET Revocation]
    /\ fault \in {"none", "restored", "audit_lost"}

GhostTypes ==
    /\ promised \in [Instances -> SUBSET Revocation]
    /\ authorised \subseteq Revocation
    /\ orphans \subseteq derived

\* Every variable keeps its type; in particular an operation that is under way
\* has what it needs to finish, and no copy is stranded that nobody holds.
TypeOK == ProcessTypes /\ OperationTypes /\ StoreTypes /\ GhostTypes

\* What a process acknowledged to a caller (an erasure certificate, a restrict
\* or a consent_revocation entry) its read gate enforces for ever: whatever is
\* written, released from quarantine or swapped in as policy since, and after
\* any crash, a restore of an older store file, or the loss of the audit file.
RevokedNeverServed ==
    \A i \in Instances : \A e \in promised[i], r \in records, p \in Purposes \cup {NoPurpose} :
        Blocks(i, e, r.tenant, r.content, p) => ~ Servable(i, r, r.tenant, p)

\* Why that is so, whichever fault strikes next: an acknowledged revocation is in
\* memory, in every durable place its kind is kept in that no fault has emptied
\* yet, and an erasure or restriction under way is in the table before it is logged.
Survives(e) ==
    /\ e.term # {}
    /\ TombstoneTable /\ fault # "restored" /\ e.kind # "consent" => e \in table
    /\ AuditFile /\ (fault # "audit_lost" \/ e.kind = "consent") => e \in trail

PromisesSurvive ==
    /\ \A i \in Instances : \A e \in promised[i] : e \in registry[i] /\ Survives(e)
    /\ \A i \in Instances :
          inflight[i].step \in RevocationSteps /\ inflight[i].rev.term # {} =>
              /\ inflight[i].rev \in registry[i]
              /\ inflight[i].rev.kind # "consent"
              /\ TombstoneTable /\ fault # "restored" => inflight[i].rev \in table
    /\ fault = "restored" \/ backup # {} => AuditFile
    /\ fault = "audit_lost" => TombstoneTable

\* With a tombstone table, a crash between any two effects of an operation is
\* invisible to the read gate: what a start-up would rebuild is what the running
\* process enforces, neither less (an erasure undone) nor more.
RestartChangesNothing ==
    TombstoneTable => \A i \in Instances : registry[i] = Rebuild(table, trail)

\* A release that comes to its end, and whether the row it took out is back then.
ReleaseEnds(i) == inflight[i].step = "write_back" /\ inflight'[i] # inflight[i]
RowsAreBack(i) == CopiesOf(inflight[i].targets) \subseteq CopiesOf(records')

\* No write of a fresh record and no restart makes a stored row vanish: a row leaves the
\* store only as the target of an erasure, a clean-up or a release, under an erasure its
\* tenant asked for, or with a lost or restored store; and a release puts its row back,
\* unless the process dies between the deletion and the write: that loses the row, though
\* sqlite_backend.py says that "records survive a restart".
RowsLeaveByRightOnly ==
    [][/\ \A r \in records :
             \/ CopyOf(r) \in CopiesOf(records')
             \/ \E i \in Instances : r \in inflight'[i].targets
             \/ \E i \in Instances : ErasedContent(i, r.tenant, r.content)
             \/ fault' # fault \/ ~DurableStore
       /\ \A i \in Instances :
             ReleaseEnds(i) => RowsAreBack(i) \/ Crash(i) \/ fault' # fault]_vars

\* When a certificate is written, its tenant has no row left that the term
\* matches, quarantined or released ones included, and of the derived copies
\* only those whose purge a crash, an exception, a reconcile or a restore cut off.
CertificateIsComplete ==
    \A i \in Instances : inflight[i].step = "certify" =>
        LET rev == inflight[i].rev
        IN  \A r \in CopiesOf(records) \cup (derived \ orphans) :
                ~ (r.tenant = rev.tenant /\ TermHits(i, rev.term, r.content))

\* Nothing is withheld or erased, in memory, in the table or in the audit file,
\* that no entitled requester and no reviewer asked for while the policy was
\* strict: a held or rejected request leaves no trace a restart could pick up.
RevocationsAreAuthorised ==
    \A i \in Instances : registry[i] \cup Rebuild(table, trail) \subseteq authorised

\* A view that still validates was issued under the policy and the revocations
\* in force now: a policy swap, an erasure, a restriction or a withdrawal since,
\* requested directly or approved from a hold, has revoked it.
ValidViewIsCurrent ==
    \A i \in Instances : \A n \in 1..MaxViews :
        views[i][n].status = "valid" =>
            /\ views[i][n].granted = GovernanceOf(i, views[i][n].tenant)
            /\ views[i][n].under = policy[i]
=============================================================================
