--------------------------- MODULE GovernedRecall ---------------------------
(***************************************************************************)
(* What the governance layer answers: recall() of reliability.py with its   *)
(* relevance floor, supersession, conflict resolution by trust or by        *)
(* corroboration, purposes and views, over writes that the compliance       *)
(* profile in force (compliance.py) tags with trust or holds back.          *)
(*                                                                         *)
(* One process; every call holds the lock, so each is one step. What a      *)
(* crash inside a revocation leaves behind is in GovernedMemory.           *)
(***************************************************************************)
EXTENDS Integers, Sequences, FiniteSets, TLC

CONSTANTS
    Inputs,         \* the turns that remember() may be called with
    Queries,        \* the recalls the properties are about
    Revocations,    \* what may be erased, restricted or withdrawn
    Policies,       \* the profiles the deployment switches between
    Score,          \* Score[about][text]: similarity, in percent; 0 is no candidate
    Honest,         \* the source that is never wrong (for the properties)
    Durable,        \* SqliteBackend; else the records live in the process
    Views,          \* the views that may be issued
    MaxWrites, MaxCommands  \* bounds

ASSUME RecallAssumption ==
    /\ \A p \in Policies :
          /\ p.unlisted \in 0 .. 100 /\ \A s \in DOMAIN p.trust_of : p.trust_of[s] \in 0 .. 100
          /\ p.margin \in Nat /\ p.floor \in Nat
    /\ \A c \in Inputs : c.trust \in 0 .. 100
    /\ \A q \in Queries :
          /\ {"tenant", "subject", "about", "purpose"} \subseteq DOMAIN q
          /\ \A c \in Inputs : Score[q.about][c.text] \in Nat
    /\ \A rev \in Revocations : rev.kind \in {"erased", "restricted", "consent"}
    /\ MaxWrites \in Nat /\ MaxCommands \in Nat

VARIABLES
    policy, records, clock, revoked,
    view,           \* the view issued last: what its handle stands for, and what the process makes of it
    written, commands,  \* bounded counters; written numbers the records
    orderly         \* no restart over stored records so far (ghost)

vars == <<policy, records, clock, revoked, view, written, commands, orderly>>

NoPurpose == ""
Anyone == ""        \* a query or a view without a subject
NoView == [status |-> "none"]
NoRecord == 0

-----------------------------------------------------------------------------
(* compliance.py: the built-in profiles. All isolate scopes and tenants. *)

NoRule == [relations |-> {}, consent |-> FALSE, channels |-> {}]
Default == [trust_of |-> <<>>, unlisted |-> 0, sensitive |-> {}, min_trust |-> 0, margin |-> 15,
            floor |-> 50, retention |-> {}, sweep |-> FALSE, rules |-> <<>>,
            lineage |-> FALSE, deduplicate |-> FALSE]
Recruitment ==
    [Default EXCEPT
        !.trust_of = [user |-> 90, recruiter |-> 90, external_tool |-> 50, scraper |-> 40],
        !.unlisted = 30, !.sensitive = {"notes", "note", "recruiter_note"}, !.margin = 20,
        !.retention = {"high", "restricted"},
        !.rules = [scheduling |-> [NoRule EXCEPT !.relations =
                       {"notice_period", "location", "work_mode", "availability"}],
                   hiring |-> [NoRule EXCEPT !.relations = {"seniority", "skill"}, !.consent = TRUE]]]
Pharma ==
    [Default EXCEPT
        !.trust_of = [user |-> 90, clinician |-> 90, external_tool |-> 40, scraper |-> 20],
        !.unlisted = 30, !.min_trust = 30, !.margin = 25, !.retention = {"high", "restricted"},
        !.rules = [treatment |-> NoRule, research |-> [NoRule EXCEPT !.consent = TRUE]]]
Finance ==
    [Default EXCEPT
        !.trust_of = [user |-> 90, external_tool |-> 40, scraper |-> 20],
        !.unlisted = 20, !.min_trust = 20, !.retention = {"restricted"}]

\* A source that the profile does not list has the trust of strangers, or the caller's.
TrustIn(p, source, claimed) ==
    IF source \in DOMAIN p.trust_of THEN p.trust_of[source]
    ELSE IF p.unlisted # 0 THEN p.unlisted ELSE claimed

-----------------------------------------------------------------------------
(* The read gate. *)

\* An erased, restricted or withdrawn term is a word of a record's object or subject.
Hit(rev, r) == rev.tenant = r.tenant /\ rev.term \in {r.object, r.subject}

Blocked(r, purpose) ==
    \E rev \in revoked : Hit(rev, r) /\ (rev.kind = "consent" => rev.purpose \in {NoPurpose, purpose})

\* _purpose_block_reason()
PurposeBlocks(r, purpose) ==
    /\ purpose # NoPurpose
    /\ \/ r.allowed # {} /\ purpose \notin r.allowed
       \/ /\ purpose \in DOMAIN policy.rules
          /\ LET rule == policy.rules[purpose]
             IN  \/ rule.relations # {} /\ r.relation \notin rule.relations
                 \/ rule.consent /\ purpose \notin r.consented
                 \/ rule.channels # {} /\ r.source \notin rule.channels

\* _is_expired()
Expired(r) == r.old /\ (IF r.held THEN "restricted" ELSE "high") \in policy.retention

\* _exclusion_reason(), for a query about a subject, or about none in particular
\* (which is not answered from a record about somebody).
Permitted(r, tenant, subject, purpose) ==
    /\ ~ r.held
    /\ ~ Blocked(r, purpose)
    /\ r.tenant = tenant
    /\ r.subject \in {Anyone, subject}
    /\ ~ PurposeBlocks(r, purpose)
    /\ r.risk # "injection"

ScoreOf(q, id) == Score[q.about][records[id].text]
Kept(q) ==
    {id \in DOMAIN records :
        /\ records[id].tenant = q.tenant /\ ScoreOf(q, id) > 0
        /\ Permitted(records[id], q.tenant, q.subject, q.purpose)
        /\ ~ (policy.sweep /\ Expired(records[id]))}

-----------------------------------------------------------------------------
(* Which of the records that are kept answers. *)

Before(a, b) == \E k \in DOMAIN a : a[k] > b[k] /\ \A j \in 1 .. k - 1 : a[j] = b[j]
\* The first of them in a sort by descending keys; a tie goes to the older record.
First(ids, Key(_)) == CHOOSE i \in ids : \A j \in ids \ {i} : Before(Key(i), Key(j))

TopOf(q, ids) == First(ids, LAMBDA i : <<ScoreOf(q, i), records[i].trust, records[i].at, -i>>)
\* (Mutants of a definition stand before it; no behaviour of Spec uses them.)
NearestOf(q, ids) == First(ids, LAMBDA i : <<ScoreOf(q, i), records[i].at, records[i].trust, -i>>)
LatestOf(q, ids) == First(ids, LAMBDA i : <<records[i].at, ScoreOf(q, i), records[i].trust, -i>>)
MostTrusted(q, ids) == First(ids, LAMBDA i : <<records[i].trust, records[i].at, ScoreOf(q, i), -i>>)

ValuesOf(ids) == {records[id].object : id \in ids}
SourcesOf(ids) == {records[id].source : id \in ids}
\* Who asserted a value: the sources of its records, and those merged into them.
WitnessesOf(ids, value) ==
    UNION {records[id].witnesses \cup {records[id].source} :
              id \in {i \in ids : records[i].object = value}}
Corroborated(ids) == {v \in ValuesOf(ids) : Cardinality(WitnessesOf(ids, v)) >= 2}

\* _resolve_group(): the record of the top record's subject and relation that stands
\* for them, or none.
Resolved(q, ids, top) ==
    LET group == {id \in ids : /\ records[id].subject = records[top].subject
                               /\ records[id].relation = records[top].relation}
        best == MostTrusted(q, group)
        others == {id \in group : records[id].source # records[best].source}
    IN  IF Cardinality(ValuesOf(group)) <= 1 THEN top
        ELSE IF policy.lineage /\ Cardinality(Corroborated(group)) = 1
        THEN LatestOf(q, {id \in group : records[id].object \in Corroborated(group)})
        ELSE IF Cardinality(SourcesOf(group)) = 1 THEN LatestOf(q, group)
        ELSE IF records[best].trust - records[MostTrusted(q, others)].trust >= policy.margin
        THEN best ELSE NoRecord

OutrankedInRelation(q, ids, id) ==
    \E other \in ids \ {id} :
        /\ ScoreOf(q, other) >= policy.floor
        /\ records[other].subject = records[id].subject
        /\ records[other].relation = records[id].relation
        /\ records[other].source # records[id].source
        /\ records[other].trust - records[id].trust >= policy.margin
OutrankedByAnyone(q, ids, id) ==
    \E other \in ids \ {id} :
        /\ ScoreOf(q, other) >= policy.floor
        /\ records[other].subject = records[id].subject
        /\ records[other].source # records[id].source
\* Another source about the same subject, relevant as well and trusted clearly more.
Outranked(q, ids, id) ==
    \E other \in ids \ {id} :
        /\ ScoreOf(q, other) >= policy.floor
        /\ records[other].subject = records[id].subject
        /\ records[other].source # records[id].source
        /\ records[other].trust - records[id].trust >= policy.margin

\* _recall_locked() once the query is bound: the record that answers, or none.
Answering(q) ==
    LET ids == Kept(q)
        top == TopOf(q, ids)
        chosen == Resolved(q, ids, top)
    IN  IF \/ ids = {} \/ ScoreOf(q, top) < policy.floor
           \/ chosen = NoRecord \/ Outranked(q, ids, chosen)
        THEN NoRecord ELSE chosen

\* A query that presents the view: it must fit the view, and takes its purpose.
FitsAnySubject(q) == view.status = "valid" /\ view.tenant = q.tenant
Fits(q) ==
    /\ view.status = "valid" /\ view.tenant = q.tenant
    /\ view.subject = Anyone \/ q.subject \in {Anyone, view.subject}
    /\ view.purpose = NoPurpose \/ q.purpose \in {NoPurpose, view.purpose}
Bound(q) == IF q.purpose = NoPurpose THEN [q EXCEPT !.purpose = view.purpose] ELSE q
\* Whether the handle is among the process's views: none is issued, or it is from before a restart.
Known == view.status \in {"valid", "revoked", "expired"}
\* A handle the process does not know is a session like any other: the query is not bound.
AnsweringVia(q) ==
    IF ~ Known THEN Answering(q) ELSE IF Fits(q) THEN Answering(Bound(q)) ELSE NoRecord

\* verify_record(): the re-check before acting on a record that was served.
StillValid(id, tenant, subject) ==
    /\ id \in DOMAIN records /\ records[id].tenant = tenant
    /\ Permitted(records[id], tenant, IF subject = Anyone THEN records[id].subject ELSE subject,
                 NoPurpose)
    /\ ~ Expired(records[id])

\* release(): a caller that was shown candidates asks for the content of one.
HandedOut(id, tenant, subject, purpose) ==
    /\ id \in DOMAIN records
    /\ Permitted(records[id], tenant, subject, purpose) /\ ~ Expired(records[id])

Abstain == "abstain"
ValueOf(id) == IF id = NoRecord THEN Abstain ELSE records[id].object

\* _classify(): how an agent's action does; the empty set expects it to abstain.
Classified(action, expected) ==
    IF action = Abstain THEN IF expected = {} THEN "correct" ELSE "recoverable_abstention"
    ELSE IF action \in expected THEN "correct" ELSE "silent_error"
\* classify_step(): the same for an agent that acts on the answer.
Outcome(id, expected) == Classified(ValueOf(id), expected)

-----------------------------------------------------------------------------
(* The steps. *)

\* _remember(): why a write is quarantined.
IsHeld(c, trust) ==
    \/ c.risk = "injection"
    \/ ~ c.consent /\ (c.risk = "sensitive" \/ c.source \in policy.sensitive)
    \/ trust < policy.min_trust
    \/ \E rev \in revoked : rev.kind = "erased" /\ Hit(rev, c)

SameFact(r, c) ==
    r.tenant = c.tenant /\ r.subject = c.subject /\ r.relation = c.relation /\ r.object = c.object
\* _is_duplicate() compares with quarantined records too.
IsDuplicate(c) == \E id \in DOMAIN records : SameFact(records[id], c) /\ records[id].text = c.text

MergedReplaces(c) ==
    [id \in DOMAIN records |->
        IF SameFact(records[id], c) THEN [records[id] EXCEPT !.witnesses = {c.source}]
        ELSE records[id]]
\* _merge_assertion() adds a witness to the first record of the fact; SqliteBackend
\* hands out copies of its rows, and the copy with the witness is dropped.
Merged(c) ==
    LET ids == {id \in DOMAIN records : SameFact(records[id], c)}
        first == CHOOSE id \in ids : \A i \in ids : id <= i
    IN  IF Durable THEN records ELSE [records EXCEPT ![first].witnesses = @ \cup {c.source}]

NewRecord(c) ==
    LET trust == TrustIn(policy, c.source, c.trust)
    IN  [tenant |-> c.tenant, subject |-> c.subject, relation |-> c.relation, object |-> c.object,
         text |-> c.text, source |-> c.source, trust |-> trust, at |-> clock + 1,
         held |-> IsHeld(c, trust), risk |-> c.risk, allowed |-> c.allowed,
         consented |-> c.consented, witnesses |-> {c.source}, old |-> FALSE]

Adding(id, r) == [i \in DOMAIN records \cup {id} |-> IF i = id THEN r ELSE records[i]]
Only(ids) == [i \in DOMAIN records \cap ids |-> records[i]]

\* remember(). (The ids a lineage write links to are read by nothing.)
Remember(c) ==
    /\ written < MaxWrites /\ written' = written + 1
    /\ clock' = clock + 1
    /\ IF policy.deduplicate /\ ~ NewRecord(c).held /\ IsDuplicate(c)
       THEN records' = IF policy.lineage THEN Merged(c) ELSE records
       ELSE records' = Adding(written + 1, NewRecord(c))
    /\ UNCHANGED <<policy, revoked, view, commands, orderly>>

\* release_quarantined(), the override for injections included.
ReleaseQuarantined(id) ==
    /\ commands < MaxCommands /\ commands' = commands + 1
    /\ id \in DOMAIN records /\ records[id].held
    /\ records' = [records EXCEPT ![id].held = FALSE]
    /\ UNCHANGED <<policy, clock, revoked, view, written, orderly>>

\* _bump_epoch()
Revoking(tenant) ==
    IF view.status = "valid" /\ view.tenant = tenant THEN [view EXCEPT !.status = "revoked"] ELSE view

\* forget(), restrict(), revoke_consent(): in force at once.
Revoke(rev) ==
    /\ commands < MaxCommands /\ commands' = commands + 1
    /\ revoked' = revoked \cup {rev}
    /\ records' = IF rev.kind = "erased" THEN Only({id \in DOMAIN records : ~ Hit(rev, records[id])})
                  ELSE records
    /\ view' = Revoking(rev.tenant)
    /\ UNCHANGED <<policy, written, orderly>>
\* The calls of their own; a turn that ingest() hands to them has advanced the clock.
RevokeNow(rev) == Revoke(rev) /\ clock' = clock

SetPolicy(p) ==
    /\ commands < MaxCommands /\ commands' = commands + 1
    /\ p # policy /\ policy' = p
    /\ view' = IF view.status = "valid" THEN [view EXCEPT !.status = "revoked"] ELSE view
    /\ UNCHANGED <<records, clock, revoked, written, orderly>>

\* Handles are counted from 1 in each process: one from before a restart is given out again.
IssueView(v) ==
    /\ view.status \in {"none", "unknown"}
    /\ view' = [status |-> "valid", tenant |-> v.tenant, subject |-> v.subject, purpose |-> v.purpose]
    /\ UNCHANGED <<policy, records, clock, revoked, written, commands, orderly>>

ViewExpires ==
    /\ view.status \in {"valid", "revoked"}
    /\ view' = [view EXCEPT !.status = "expired"]
    /\ UNCHANGED <<policy, records, clock, revoked, written, commands, orderly>>

\* Time passes: the records so far outlive any retention window.
Age ==
    /\ commands < MaxCommands /\ commands' = commands + 1
    /\ records' = [id \in DOMAIN records |-> [records[id] EXCEPT !.old = TRUE]]
    /\ UNCHANGED <<policy, clock, revoked, view, written, orderly>>

CleanupExpired ==
    /\ records' = Only({id \in DOMAIN records : ~ Expired(records[id])})
    /\ records' # records
    /\ UNCHANGED <<policy, clock, revoked, view, written, commands, orderly>>

\* A new process, which counts its turns from 0 again and knows no view, whatever handle an
\* agent still holds; a durable store is as it was.
Restart ==
    /\ commands < MaxCommands /\ commands' = commands + 1
    /\ clock' = 0
    /\ view' = IF view = NoView THEN NoView ELSE [view EXCEPT !.status = "unknown"]
    /\ records' = IF Durable THEN records ELSE <<>>
    /\ orderly' = (orderly /\ records' = <<>>)
    /\ UNCHANGED <<policy, revoked, written>>

Init ==
    /\ policy \in Policies
    /\ records = <<>> /\ clock = 0 /\ revoked = {} /\ view = NoView
    /\ written = 0 /\ commands = 0 /\ orderly = TRUE

Next ==
    \/ \E c \in Inputs : Remember(c)
    \/ \E id \in 1 .. MaxWrites : ReleaseQuarantined(id)
    \/ \E rev \in Revocations : RevokeNow(rev)
    \/ \E p \in Policies : SetPolicy(p)
    \/ \E v \in Views : IssueView(v)
    \/ ViewExpires \/ Age \/ CleanupExpired \/ Restart

Spec == Init /\ [][Next]_vars

-----------------------------------------------------------------------------
(* Properties. *)

\* Records are numbered as they came; a time is never ahead of the process's clock
\* while it has not been started again, and no two records then share one.
TypeOK ==
    /\ policy \in Policies
    /\ DOMAIN records \subseteq 1 .. written /\ written \in 0 .. MaxWrites
    /\ \A id \in DOMAIN records :
          /\ records[id].trust \in 0 .. 100
          /\ records[id].source \in records[id].witnesses
          /\ orderly => records[id].at <= clock
    /\ orderly => \A i, j \in DOMAIN records : i < j => records[i].at < records[j].at
    /\ \A rev \in revoked : rev.kind \in {"erased", "restricted", "consent"}
    /\ view.status \in {"none", "valid", "revoked", "expired", "unknown"}
    /\ commands \in 0 .. MaxCommands

\* "latest wins" (MemoryRecord.valid_at): no answer comes from a record when its source
\* has since said something else on the same subject and relation, with the same trust,
\* that may be served as well.
Stale(q) ==
    LET d == Answering(q)
    IN  d # NoRecord /\ \E e \in Kept(q) :
            /\ e > d /\ records[e].object # records[d].object
            /\ records[e].subject = records[d].subject /\ records[e].relation = records[d].relation
            /\ records[e].source = records[d].source /\ records[e].trust = records[d].trust
LatestWins == \A q \in Queries : Stale(q) => policy.lineage \/ ~ orderly

\* The same, whatever happened before.
LatestAlwaysWins == \A q \in Queries : Stale(q) => policy.lineage

\* "prefer a recoverable abstention over a confident wrong answer": what is stored by
\* sources trusted clearly less than an honest one, however much of it, under whatever
\* relation and however similar to the query, never makes an agent act on a wrong value;
\* the honest source's last word on what was asked is right, the rest is an abstention.
\* (All that may be served is about the subject: nothing outranks a record about nobody.)
HonestIn(q) ==
    {id \in Kept(q) : /\ records[id].source = Honest /\ records[id].relation = q.about
                      /\ records[id].subject = q.subject}
ClearlyLessTrusted(q) ==
    \A i \in Kept(q) \ HonestIn(q), h \in HonestIn(q) :
        /\ records[i].source # Honest /\ records[i].subject = q.subject
        /\ records[h].trust - records[i].trust >= policy.margin
NoSilentError ==
    \A q \in Queries :
        LET honest == HonestIn(q)
            last == {records[id].object : id \in {h \in honest : \A i \in honest : i <= h}}
        IN  /\ \E h \in honest : ScoreOf(q, h) >= policy.floor
            /\ ClearlyLessTrusted(q) /\ orderly
            /\ Cardinality({records[h].trust : h \in honest}) = 1
            /\ policy.lineage => Cardinality(ValuesOf(honest)) = 1
            => Outcome(Answering(q), last) # "silent_error"

\* Governance does not silence what nobody disputes: when all that may be served agree,
\* one of them is relevant, and a better match is not clearly less trusted than another,
\* recall answers.
AgreementAnswers ==
    \A q \in Queries :
        LET ids == Kept(q)
        IN  /\ Cardinality(ValuesOf(ids)) = 1
            /\ \E id \in ids : ScoreOf(q, id) >= policy.floor
            /\ \A i, j \in ids : records[j].trust - records[i].trust < policy.margin
            => Answering(q) # NoRecord

\* What is recalled through the view is about its subject in its tenant, and may be used for
\* its purpose.
WithinView(id) ==
    /\ records[id].tenant = view.tenant
    /\ view.subject = Anyone \/ records[id].subject \in {Anyone, view.subject}
    /\ view.purpose # NoPurpose => ~ PurposeBlocks(records[id], view.purpose)

\* As long as the process knows its handle, what is recalled through a view is within it and
\* would pass the re-check before acting, unless it has outlived its window unswept. (A
\* handle from before a restart binds nothing, though issue_view() says that it "binds
\* (tenant, subject, purpose) with a TTL": the query is answered as any other.)
ViewBinds ==
    \A q \in Queries :
        LET id == AnsweringVia(q)
        IN  Known /\ id # NoRecord =>
               /\ WithinView(id)
               /\ StillValid(id, q.tenant, Anyone) \/ Expired(records[id])
               /\ HandedOut(id, q.tenant, q.subject, view.purpose) \/ Expired(records[id])
=============================================================================
