------------------------- MODULE DSARServiceProofs -------------------------
(***************************************************************************)
(* What holds of DSARService for every set of requests, of every kind, held *)
(* or not, restarted in good order or at any point: a request is answered   *)
(* once (the trail implements RequestLedger), and a replay is truthful.     *)
(* While it is only restarted with no request held, a review does to its    *)
(* request what its status says; and, restarted at any point, it carries a  *)
(* request out once, unless the execution of that very request was          *)
(* interrupted.                                                             *)
(***************************************************************************)
EXTENDS DSARService, TLAPS

Entry == SummaryType \cup EffectType \cup NoteType

\* Whichever summaries an id has in a trail, one of them is the newest.
HasNewest(log, id) ==
    Summaries(log, id) # {} =>
        \E k \in Summaries(log, id) : \A j \in Summaries(log, id) : j <= k

\* The newest of some places, when there is one, is among them and is unique.
LEMMA NewestIsLast ==
    ASSUME NEW S \in SUBSET Nat, NEW k \in S, \A j \in S : j <= k
    PROVE  Newest(S) = k
<1>1. \A m \in S : (\A j \in S : j <= m) => m = k OBVIOUS
<1>2. Newest(S) \in S /\ \A j \in S : j <= Newest(S) BY DEF Newest
<1> QED BY <1>1, <1>2

\* An entry more: its place is the last one, the others keep theirs.
LEMMA OneMore ==
    ASSUME NEW log \in Seq(Entry), NEW e \in Entry
    PROVE  /\ Append(log, e) \in Seq(Entry)
           /\ Len(log) \in Nat /\ DOMAIN log = 1..Len(log)
           /\ DOMAIN Append(log, e) = 1..(Len(log) + 1)
           /\ \A k \in 1..Len(log) : Append(log, e)[k] = log[k] /\ log[k] \in Entry
           /\ Append(log, e)[Len(log) + 1] = e
OBVIOUS

\* An element more in a list.
LEMMA LastOne ==
    ASSUME NEW S, NEW list \in Seq(S), NEW e \in S
    PROVE  /\ Append(list, e) \in Seq(S) /\ Append(list, e) # <<>>
           /\ Append(list, e)[Len(Append(list, e))] = e
OBVIOUS

IsSummaryOf(e, id) == e.action \in RegistryActions /\ e.id = id

\* What one more entry makes of the latest summary of an id.
LEMMA LatestAfter ==
    ASSUME NEW log \in Seq(Entry), NEW e \in Entry, NEW id, HasNewest(log, id)
    PROVE  LET more == Append(log, e)
           IN  /\ HasNewest(more, id)
               /\ IsSummaryOf(e, id) => Latest(more, id) = e
               /\ ~ IsSummaryOf(e, id) => Latest(more, id) = Latest(log, id)
<1> DEFINE more == Append(log, e)
           n == Len(log) + 1
<1>0. /\ Len(log) \in Nat /\ DOMAIN log = 1..Len(log) /\ DOMAIN more = 1..n
      /\ \A k \in 1..Len(log) : more[k] = log[k]
      /\ more[n] = e
    BY OneMore
<1> HIDE DEF more
<1>1. CASE IsSummaryOf(e, id)
    <2>1. n \in Summaries(more, id) /\ \A j \in Summaries(more, id) : j <= n
        BY <1>0, <1>1 DEF Summaries, IsSummaryOf
    <2>2. Summaries(more, id) \in SUBSET Nat BY <1>0 DEF Summaries
    <2>3. Newest(Summaries(more, id)) = n BY <2>1, <2>2, NewestIsLast
    <2>4. Latest(more, id) = e BY <1>0, <2>1, <2>3 DEF Latest
    <2>5. HasNewest(more, id) BY <2>1 DEF HasNewest
    <2> QED BY <1>1, <2>4, <2>5 DEF more
<1>2. CASE ~ IsSummaryOf(e, id)
    <2>1. Summaries(more, id) = Summaries(log, id)
        BY <1>0, <1>2 DEF Summaries, IsSummaryOf
    <2>2. HasNewest(more, id) BY <2>1 DEF HasNewest
    <2>3. CASE Summaries(log, id) = {}
        <3>1. Latest(more, id) = Latest(log, id) BY <2>1, <2>3 DEF Latest
        <3> QED BY <1>2, <2>2, <3>1 DEF more
    <2>4. CASE Summaries(log, id) # {}
        <3>1. PICK k \in Summaries(log, id) : \A j \in Summaries(log, id) : j <= k
            BY <2>4 DEF HasNewest
        <3>2. Summaries(log, id) \in SUBSET Nat BY <1>0 DEF Summaries
        <3>3. Newest(Summaries(log, id)) = k BY <3>1, <3>2, NewestIsLast
        <3>4. k \in 1..Len(log) BY <1>0, <3>1 DEF Summaries
        <3>5. Latest(more, id) = Latest(log, id)
            BY <1>0, <2>1, <2>4, <3>3, <3>4 DEF Latest
        <3> QED BY <1>2, <2>2, <3>5 DEF more
    <2> QED BY <2>3, <2>4
<1> QED BY <1>1, <1>2

-----------------------------------------------------------------------------
(* The inductive invariant. *)

\* What a call under way relies on between its steps.
CallInv ==
    /\ call.op \in {"record", "record_hold"} => Latest(audit, call.id).status = "none"
    /\ call.op \in {"run_approved", "record_approval", "record_rejection"} =>
           Latest(audit, call.id).status = "held"
    /\ call.op = "record_hold" => pending # <<>> /\ pending[Len(pending)].status = "pending"
    /\ call.op = "run_approved" => call.before = CertificatesIn(audit)
    /\ call.op = "record_approval" =>
           CertificatesIn(audit) = call.before \/ Len(audit) \in CertificatesIn(audit)
    /\ call.op = "record" =>
           /\ KindOf[call.id] # "access" /\ Len(audit) \in DOMAIN audit
           /\ call.before = CertificatesIn(audit) \ {Len(audit)}
           /\ audit[Len(audit)] = Effect(Direct(KindOf[call.id]), TermOf[call.id], call.id)

IInv ==
    /\ TypeOK
    /\ \A id \in Ids : HasNewest(audit, id)
    /\ ReplayIsTruthful
    /\ CallInv

\* A summary found in a trail is a summary.
LEMMA LatestType ==
    ASSUME NEW log \in Seq(Entry), NEW id, HasNewest(log, id)
    PROVE  Latest(log, id) \in SummaryType \cup {Unanswered}
<1>1. CASE Summaries(log, id) = {} BY <1>1 DEF Latest
<1>2. CASE Summaries(log, id) # {}
    <2>1. PICK k \in Summaries(log, id) : \A j \in Summaries(log, id) : j <= k
        BY <1>2 DEF HasNewest
    <2>2. Summaries(log, id) \in SUBSET Nat BY DEF Summaries
    <2>3. Newest(Summaries(log, id)) = k BY <2>1, <2>2, NewestIsLast
    <2>4. log[k] \in Entry /\ log[k].action \in RegistryActions BY <2>1 DEF Summaries
    <2>5. log[k] \in SummaryType
        BY <2>4 DEF Entry, EffectType, NoteType, Effects, RegistryActions
    <2> QED BY <1>2, <2>3, <2>5 DEF Latest
<1> QED BY <1>1, <1>2

\* A status tells an unanswered request from a summary.
LEMMA StatusTells ==
    ASSUME NEW s \in SummaryType \cup {Unanswered}
    PROVE  /\ s.status = "none" => s = Unanswered
           /\ s.status # "none" => s \in SummaryType
           /\ s = Unanswered => s.status = "none"
BY DEF SummaryType, Unanswered, Statuses

\* What the registry answers, rebuilt or not, is what the trail says.
LEMMA KnownIsLatest ==
    ASSUME IInv
    PROVE  /\ \A id \in Ids : Known(id) = Latest(audit, id)
           /\ Rehydrated \in [Ids -> SummaryType \cup {Unanswered}]
           /\ \A id \in Ids : Latest(audit, id) \in SummaryType \cup {Unanswered}
<1>0. audit \in Seq(Entry) BY DEF IInv, TypeOK, Entry
<1>1. \A id \in Ids : Latest(audit, id) \in SummaryType \cup {Unanswered}
    BY <1>0, LatestType DEF IInv
<1>2. \A id \in Ids : Known(id) = Latest(audit, id)
    BY DEF IInv, ReplayIsTruthful, Known, Rehydrated
<1>3. Rehydrated \in [Ids -> SummaryType \cup {Unanswered}]
    BY <1>1 DEF IInv, TypeOK, Rehydrated
<1> QED BY <1>1, <1>2, <1>3

\* A step that logs one more entry.
LEMMA LogAfter ==
    ASSUME audit \in Seq(Entry), \A id \in Ids : HasNewest(audit, id),
           NEW e \in Entry, Log(e)
    PROVE  /\ audit' \in Seq(Entry)
           /\ Len(audit) \in Nat /\ Len(audit') = Len(audit) + 1 /\ audit'[Len(audit')] = e
           /\ DOMAIN audit = 1..Len(audit) /\ DOMAIN audit' = 1..Len(audit')
           /\ \A k \in DOMAIN audit : audit'[k] = audit[k]
           /\ CertificatesIn(audit') =
                 CertificatesIn(audit) \cup (IF e.action = "erasure" THEN {Len(audit')} ELSE {})
           /\ \A id \in Ids :
                 /\ HasNewest(audit', id)
                 /\ Latest(audit', id) =
                       IF IsSummaryOf(e, id) THEN e ELSE Latest(audit, id)
<1>1. /\ audit' \in Seq(Entry)
      /\ Len(audit) \in Nat /\ Len(audit') = Len(audit) + 1 /\ audit'[Len(audit')] = e
      /\ DOMAIN audit = 1..Len(audit) /\ DOMAIN audit' = 1..Len(audit')
      /\ \A k \in DOMAIN audit : audit'[k] = audit[k]
    BY OneMore DEF Log
<1>2. CertificatesIn(audit') =
          CertificatesIn(audit) \cup (IF e.action = "erasure" THEN {Len(audit')} ELSE {})
    BY <1>1 DEF CertificatesIn
<1>3. ASSUME NEW id \in Ids
      PROVE  /\ HasNewest(audit', id)
             /\ Latest(audit', id) = IF IsSummaryOf(e, id) THEN e ELSE Latest(audit, id)
    BY LatestAfter DEF Log
<1> QED BY <1>1, <1>2, <1>3

\* A certificate stays where it was issued.
LEMMA CertificateStays ==
    ASSUME audit \in Seq(Entry), \A id \in Ids : HasNewest(audit, id),
           NEW e \in Entry, Log(e), NEW id \in Ids, ~ IsSummaryOf(e, id), OwnCertificate(id)
    PROVE  OwnCertificate(id)'
<1>1. /\ Latest(audit', id) = Latest(audit, id)
      /\ \A k \in DOMAIN audit : k \in DOMAIN audit' /\ audit'[k] = audit[k]
    BY LogAfter
<1> QED BY <1>1 DEF OwnCertificate, CertificatesIn, Carried

\* What every step must re-establish of the trail and of the registry.
TrailInv ==
    /\ audit \in Seq(Entry)
    /\ registry \in [Ids -> SummaryType \cup {Unanswered}]
    /\ loaded \in BOOLEAN
    /\ \A id \in Ids : HasNewest(audit, id)
    /\ ReplayIsTruthful

\* A step that logs no summary: every answer stays what it is.
LEMMA QuietStep ==
    ASSUME IInv,
           audit' = audit \/ \E e \in EffectType \cup NoteType : Log(e),
           EnsureRegistry \/ UNCHANGED <<registry, loaded>>
    PROVE  TrailInv' /\ \A id \in Ids : Latest(audit', id) = Latest(audit, id)
<1>0. audit \in Seq(Entry) /\ (\A id \in Ids : HasNewest(audit, id))
    BY DEF IInv, TypeOK, Entry
<1>1. /\ audit' \in Seq(Entry)
      /\ \A id \in Ids : /\ HasNewest(audit', id)
                         /\ Latest(audit', id) = Latest(audit, id)
                         /\ OwnCertificate(id)'
    <2>1. CASE audit' = audit
        BY <1>0, <2>1 DEF IInv, ReplayIsTruthful, OwnCertificate, CertificatesIn, Carried
    <2>2. CASE \E e \in EffectType \cup NoteType : Log(e)
        <3>1. PICK e \in EffectType \cup NoteType : Log(e) BY <2>2
        <3>2. e \in Entry BY DEF Entry
        <3>3. \A id \in Ids : ~ IsSummaryOf(e, id)
            BY DEF IsSummaryOf, RegistryActions, EffectType, NoteType, Effects
        <3>4. \A id \in Ids : OwnCertificate(id) BY DEF IInv, ReplayIsTruthful
        <3> QED BY <1>0, <3>1, <3>2, <3>3, <3>4, LogAfter, CertificateStays
    <2> QED BY <2>1, <2>2
<1>2. /\ registry' \in [Ids -> SummaryType \cup {Unanswered}]
      /\ loaded' \in BOOLEAN
      /\ loaded' => \A id \in Ids : registry'[id] = Latest(audit, id)
    <2>1. CASE EnsureRegistry BY <2>1, KnownIsLatest DEF EnsureRegistry, Known
    <2>2. CASE UNCHANGED <<registry, loaded>> BY <2>2 DEF IInv, TypeOK, ReplayIsTruthful
    <2> QED BY <2>1, <2>2
<1> QED BY <1>1, <1>2 DEF TrailInv, ReplayIsTruthful

\* A step that logs and registers a summary: it is its request's answer now.
LEMMA AnswerStep ==
    ASSUME IInv, NEW s \in SummaryType, Log(s),
           registry' = [Rehydrated EXCEPT ![s.id] = s], loaded' = TRUE,
           s.status = "executed" /\ KindOf[s.id] = "erasure" =>
               /\ s.certificate_seq \in CertificatesIn(audit) \cap Carried(s.id)
               /\ audit[s.certificate_seq].term = TermOf[s.id]
    PROVE  /\ TrailInv'
           /\ Latest(audit', s.id) = s
           /\ \A id \in Ids \ {s.id} : Latest(audit', id) = Latest(audit, id)
<1>0. audit \in Seq(Entry) /\ (\A id \in Ids : HasNewest(audit, id)) /\ s \in Entry
    BY DEF IInv, TypeOK, Entry
<1>a. s.id \in Ids /\ s.action \in RegistryActions BY DEF SummaryType
<1>1. /\ audit' \in Seq(Entry)
      /\ \A id \in Ids : /\ HasNewest(audit', id)
                         /\ Latest(audit', id) = IF id = s.id THEN s ELSE Latest(audit, id)
      /\ \A k \in DOMAIN audit : k \in DOMAIN audit' /\ audit'[k] = audit[k]
    BY <1>0, <1>a, LogAfter DEF IsSummaryOf
<1>2. \A id \in Ids \ {s.id} : OwnCertificate(id)'
    <2>1. \A id \in Ids \ {s.id} : ~ IsSummaryOf(s, id) BY DEF IsSummaryOf
    <2>2. \A id \in Ids : OwnCertificate(id) BY DEF IInv, ReplayIsTruthful
    <2> QED BY <1>0, <2>1, <2>2, CertificateStays
<1>3. OwnCertificate(s.id)'
    BY <1>a, <1>1 DEF OwnCertificate, CertificatesIn, Carried
<1>4. \A id \in Ids : registry'[id] = Latest(audit', id)
    BY <1>1, KnownIsLatest DEF Known
<1>5. registry' \in [Ids -> SummaryType \cup {Unanswered}]
    BY <1>a, KnownIsLatest
<1> QED BY <1>a, <1>1, <1>2, <1>3, <1>4, <1>5 DEF TrailInv, ReplayIsTruthful

-----------------------------------------------------------------------------
(* Every step. *)

Answers == [id \in Ids |-> Latest(audit, id)]

\* What a step may do to the answers of the trail.
AnswerChange ==
    \/ \A id \in Ids : Latest(audit', id) = Latest(audit, id)
    \/ \E id \in Ids :
          /\ \A other \in Ids \ {id} : Latest(audit', other) = Latest(audit, other)
          /\ \/ /\ Latest(audit, id).status = "none"
                /\ Latest(audit', id).status \in {"executed", "held"}
             \/ /\ Latest(audit, id).status = "held"
                /\ Latest(audit', id).status \in {"approved", "rejected"}

\* The rest of the invariant, once the trail and the registry are settled.
OthersType ==
    /\ pending \in Seq(HoldType) /\ drains \in BOOLEAN
    /\ \/ Idle
       \/ /\ call.id \in Ids /\ loaded
          /\ \/ call.op \in {"record_hold", "export", "record_rejection"}
             \/ call.op \in {"record", "record_approval"} /\ call.before \subseteq DOMAIN audit
             \/ call.op = "run_approved" /\ call.hold \in HoldType

\* The entries the service logs beside its summaries.
LEMMA EntryTypes ==
    /\ \A action \in Effects, term \in Terms, id \in Ids \cup {NoId} :
          Effect(action, term, id) \in EffectType
    /\ \A action \in {"revocation_held", "revocation_approved", "revocation_rejected",
                      "access_export", "dsar_plan", "dsar_verify"} : Note(action) \in NoteType
    /\ \A action \in RegistryActions, id \in Ids, status \in Statuses, c \in Nat, n \in Nat :
          Summary(action, id, status, c, n) \in SummaryType
BY DEF Effect, EffectType, Note, NoteType, Summary, SummaryType

\* execute(), first half of an erasure or of a withdrawal that is let through.
LEMMA ExecuteRevocationStep ==
    ASSUME IInv, NEW id \in Ids, ExecuteRevocation(id)
    PROVE  IInv' /\ AnswerChange
<1> DEFINE e == Effect(Direct(KindOf[id]), TermOf[id], id)
<1>1. e \in EffectType
    BY EntryTypes, DSARAssumption DEF Direct, Effects
<1>2. Log(e) /\ EnsureRegistry BY DEF ExecuteRevocation
<1> HIDE DEF e
<1>3. TrailInv' /\ \A i \in Ids : Latest(audit', i) = Latest(audit, i)
    BY <1>1, <1>2, QuietStep
<1>4. /\ Len(audit) \in Nat /\ DOMAIN audit = 1..Len(audit)
      /\ Len(audit') = Len(audit) + 1 /\ DOMAIN audit' = 1..Len(audit')
      /\ audit'[Len(audit')] = e
    BY <1>1, <1>2, LogAfter DEF IInv, TypeOK, Entry
<1>5. call' = [op |-> "record", id |-> id, before |-> CertificatesIn(audit)]
    BY DEF ExecuteRevocation
<1>6. Latest(audit, id).status = "none"
    BY KnownIsLatest, StatusTells DEF ExecuteRevocation
<1>a. CertificatesIn(audit) = CertificatesIn(audit') \ {Len(audit')}
    BY <1>1, <1>2, <1>4, LogAfter DEF IInv, TypeOK, Entry, CertificatesIn
<1>7. CallInv'
    BY <1>3, <1>4, <1>5, <1>6, <1>a DEF CallInv, ExecuteRevocation, e
<1>8. OthersType'
    BY <1>2, <1>4, <1>5 DEF OthersType, IInv, TypeOK, ExecuteRevocation, EnsureRegistry, CertificatesIn
<1> QED BY <1>3, <1>7, <1>8 DEF AnswerChange, IInv, TrailInv, OthersType, TypeOK, Entry

\* Its second half: the request is answered with the certificate just issued.
LEMMA RecordExecutedStep ==
    ASSUME IInv, RecordExecuted
    PROVE  IInv' /\ AnswerChange
<1> DEFINE id == call.id
           c == NewCertificate(audit, call.before)
           s == Summary("dsar_execute", id, "executed", c, None)
<1>0. id \in Ids /\ loaded /\ call.op = "record"
    BY DEF IInv, TypeOK, RecordExecuted, Idle, NoCall
<1>1. c \in Nat /\ (KindOf[id] = "erasure" =>
          c \in CertificatesIn(audit) \cap Carried(id) /\ audit[c].term = TermOf[id])
    <2>1. /\ Len(audit) \in DOMAIN audit /\ call.before = CertificatesIn(audit) \ {Len(audit)}
          /\ audit[Len(audit)] = Effect(Direct(KindOf[id]), TermOf[id], id)
          /\ DOMAIN audit = 1..Len(audit) /\ Len(audit) \in Nat
        BY <1>0 DEF IInv, CallInv, TypeOK
    <2>2. CASE KindOf[id] = "erasure"
        <3>1. Len(audit) \in CertificatesIn(audit) /\ CertificatesIn(audit) # call.before
            BY <2>1, <2>2 DEF CertificatesIn, Effect, Direct
        <3>2. CertificatesIn(audit) \in SUBSET Nat /\ \A j \in CertificatesIn(audit) : j <= Len(audit)
            BY <2>1 DEF CertificatesIn
        <3>3. c = Len(audit) BY <3>1, <3>2, NewestIsLast DEF NewCertificate
        <3>4. Len(audit) \in Carried(id)
            BY <2>1, <2>2 DEF Carried, Effect, Direct, Effects
        <3> QED BY <2>1, <3>1, <3>3, <3>4 DEF Effect
    <2>3. CASE KindOf[id] # "erasure"
        <3>1. Len(audit) \notin CertificatesIn(audit)
            BY <2>1, <2>3 DEF CertificatesIn, Effect, Direct
        <3>2. c = None BY <2>1, <3>1 DEF NewCertificate
        <3> QED BY <2>3, <3>2 DEF None
    <2> QED BY <2>2, <2>3
<1>2. s \in SummaryType BY <1>0, <1>1, EntryTypes DEF RegistryActions, Statuses, None
<1>3. s.id = id /\ s.status = "executed" /\ s.certificate_seq = c BY DEF Summary
<1>4. /\ Log(s) /\ registry' = [Rehydrated EXCEPT ![id] = s] /\ loaded' = TRUE
      /\ pending' = pending /\ drains' = drains /\ call' = NoCall
    BY <1>0, <1>3 DEF RecordExecuted, Register, Rehydrated, IInv, TypeOK
<1> HIDE DEF s, c
<1>5. /\ TrailInv' /\ Latest(audit', id) = s
      /\ \A other \in Ids \ {id} : Latest(audit', other) = Latest(audit, other)
    BY <1>1, <1>2, <1>3, <1>4, AnswerStep
<1>6. Latest(audit, id).status = "none" BY <1>0 DEF IInv, CallInv
<1>7. CallInv' BY <1>4 DEF CallInv, NoCall
<1>8. OthersType' BY <1>4 DEF OthersType, IInv, TypeOK, Idle
<1> QED BY <1>0, <1>3, <1>5, <1>6, <1>7, <1>8 DEF AnswerChange, IInv, TrailInv, OthersType, TypeOK, Entry

\* execute(), first half of a request the strict profile holds.
LEMMA ExecuteHeldStep ==
    ASSUME IInv, NEW id \in Ids, ExecuteHeld(id)
    PROVE  IInv' /\ AnswerChange
<1> DEFINE h == HoldOf(KindOf[id], TermOf[id], id)
<1>1. h \in HoldType
    BY DSARAssumption DEF ExecuteHeld, HoldOf, HoldType
<1>2. /\ Log(Note("revocation_held")) /\ EnsureRegistry /\ pending' = Append(pending, h)
      /\ call' = [op |-> "record_hold", id |-> id] /\ drains' = drains
    BY DEF ExecuteHeld
<1> HIDE DEF h
<1>3. TrailInv' /\ \A i \in Ids : Latest(audit', i) = Latest(audit, i)
    BY <1>2, EntryTypes, QuietStep
<1>4. pending' \in Seq(HoldType) /\ pending' # <<>> /\ pending'[Len(pending')] = h
    <2>1. pending \in Seq(HoldType) BY DEF IInv, TypeOK
    <2> QED BY <1>1, <1>2, <2>1, LastOne
<1>5. Latest(audit, id).status = "none"
    BY KnownIsLatest, StatusTells DEF ExecuteHeld
<1>6. CallInv'
    BY <1>2, <1>3, <1>4, <1>5 DEF CallInv, HoldOf, h
<1>7. OthersType' BY <1>2, <1>4 DEF OthersType, IInv, TypeOK, EnsureRegistry
<1> QED BY <1>3, <1>6, <1>7 DEF AnswerChange, IInv, TrailInv, OthersType, TypeOK, Entry

\* Its second half: the request is held under the id of the hold just queued.
LEMMA RecordHeldStep ==
    ASSUME IInv, RecordHeld
    PROVE  IInv' /\ AnswerChange
<1> DEFINE id == call.id
           n == NewestHold(pending)
           s == Summary("dsar_execute", id, "held", None, n)
<1>0. id \in Ids /\ loaded /\ call.op = "record_hold"
    BY DEF IInv, TypeOK, RecordHeld, Idle, NoCall
<1>1. n \in Nat
    <2>1. /\ Len(pending) \in Waiting(pending) /\ Waiting(pending) \in SUBSET Nat
          /\ \A m \in Waiting(pending) : m <= Len(pending)
        BY <1>0 DEF IInv, CallInv, TypeOK, Waiting
    <2>2. n = Len(pending) BY <2>1, NewestIsLast DEF NewestHold
    <2> QED BY <2>1, <2>2
<1>2. s \in SummaryType BY <1>0, <1>1, EntryTypes DEF RegistryActions, Statuses, None
<1>3. s.id = id /\ s.status = "held" BY DEF Summary
<1>4. /\ Log(s) /\ registry' = [Rehydrated EXCEPT ![id] = s] /\ loaded' = TRUE
      /\ pending' = pending /\ drains' = drains /\ call' = NoCall
    BY <1>0, <1>3 DEF RecordHeld, Register, Rehydrated, IInv, TypeOK
<1> HIDE DEF s, n
<1>5. /\ TrailInv' /\ Latest(audit', id) = s
      /\ \A other \in Ids \ {id} : Latest(audit', other) = Latest(audit, other)
    BY <1>2, <1>3, <1>4, AnswerStep
<1>6. Latest(audit, id).status = "none" BY <1>0 DEF IInv, CallInv
<1>7. CallInv' BY <1>4 DEF CallInv, NoCall
<1>8. OthersType' BY <1>4 DEF OthersType, IInv, TypeOK, Idle
<1> QED BY <1>0, <1>3, <1>5, <1>6, <1>7, <1>8 DEF AnswerChange, IInv, TrailInv, OthersType, TypeOK, Entry

\* An access request is answered before its export is logged.
LEMMA ExecuteAccessStep ==
    ASSUME IInv, NEW id \in Ids, ExecuteAccess(id)
    PROVE  IInv' /\ AnswerChange
<1> DEFINE s == Summary("dsar_execute", id, "executed", None, None)
<1>1. s \in SummaryType BY EntryTypes DEF RegistryActions, Statuses, None
<1>2. s.id = id /\ s.status = "executed" BY DEF Summary
<1>3. /\ Log(s) /\ registry' = [Rehydrated EXCEPT ![id] = s] /\ loaded' = TRUE
      /\ pending' = pending /\ drains' = drains /\ call' = [op |-> "export", id |-> id]
      /\ KindOf[id] = "access"
    BY DEF ExecuteAccess
<1> HIDE DEF s
<1>4. /\ TrailInv' /\ Latest(audit', id) = s
      /\ \A other \in Ids \ {id} : Latest(audit', other) = Latest(audit, other)
    BY <1>1, <1>2, <1>3, AnswerStep
<1>5. Latest(audit, id).status = "none"
    BY KnownIsLatest, StatusTells DEF ExecuteAccess
<1>6. CallInv' BY <1>3 DEF CallInv
<1>7. OthersType' BY <1>3 DEF OthersType, IInv, TypeOK
<1> QED BY <1>2, <1>4, <1>5, <1>6, <1>7 DEF AnswerChange, IInv, TrailInv, OthersType, TypeOK, Entry

\* The export of an access request is logged; its answer stays.
LEMMA ExportAccessStep ==
    ASSUME IInv, ExportAccess
    PROVE  IInv' /\ AnswerChange
<1>1. TrailInv' /\ \A i \in Ids : Latest(audit', i) = Latest(audit, i)
    BY EntryTypes, QuietStep DEF ExportAccess
<1>2. CallInv' BY DEF CallInv, NoCall, ExportAccess
<1>3. OthersType' BY DEF OthersType, IInv, TypeOK, ExportAccess, Idle
<1> QED BY <1>1, <1>2, <1>3 DEF AnswerChange, IInv, TrailInv, OthersType, TypeOK, Entry

\* approve(): the hold, when this process has it, is taken off the queue.
LEMMA ApproveStep ==
    ASSUME IInv, NEW id \in Ids, Approve(id)
    PROVE  IInv' /\ AnswerChange
<1> DEFINE n == Known(id).pending_id
<1>0. EnsureRegistry /\ drains' = drains /\ Latest(audit, id).status = "held"
    BY KnownIsLatest DEF Approve
<1>1. CASE /\ StillPending(n)
           /\ pending' = [pending EXCEPT ![n].status = "approved"]
           /\ Log(Note("revocation_approved"))
           /\ call' = [op |-> "run_approved", id |-> id, hold |-> pending[n],
                       before |-> CertificatesIn(audit)]
    <2>1. TrailInv' /\ \A i \in Ids : Latest(audit', i) = Latest(audit, i)
        BY <1>0, <1>1, EntryTypes, QuietStep
    <2>2. pending[n] \in HoldType /\ n \in DOMAIN pending
        BY <1>1 DEF StillPending, IInv, TypeOK
    <2>3. pending' \in Seq(HoldType)
        <3>1. [pending[n] EXCEPT !.status = "approved"] \in HoldType BY <2>2 DEF HoldType
        <3>2. pending' = [pending EXCEPT ![n] = [pending[n] EXCEPT !.status = "approved"]]
            BY <1>1
        <3> QED BY <2>2, <3>1, <3>2 DEF IInv, TypeOK
    <2>4. CertificatesIn(audit') = CertificatesIn(audit)
        <3>1. Note("revocation_approved") \in Entry /\ Note("revocation_approved").action # "erasure"
            BY EntryTypes DEF Entry, Note
        <3> QED BY <1>1, <3>1, LogAfter DEF IInv, TypeOK, Entry
    <2>5. CallInv' BY <1>0, <1>1, <2>1, <2>4 DEF CallInv
    <2>6. OthersType' BY <1>0, <1>1, <2>2, <2>3 DEF OthersType, IInv, TypeOK, EnsureRegistry
    <2> QED BY <2>1, <2>5, <2>6 DEF AnswerChange, IInv, TrailInv, OthersType, TypeOK, Entry
<1>2. CASE /\ call' = [op |-> "record_approval", id |-> id, before |-> CertificatesIn(audit)]
           /\ UNCHANGED <<pending, audit>>
    <2>1. TrailInv' /\ \A i \in Ids : Latest(audit', i) = Latest(audit, i)
        BY <1>0, <1>2, QuietStep
    <2>2. CallInv' BY <1>0, <1>2, <2>1 DEF CallInv
    <2>3. OthersType'
        BY <1>0, <1>2 DEF OthersType, IInv, TypeOK, EnsureRegistry, CertificatesIn
    <2> QED BY <2>1, <2>2, <2>3 DEF AnswerChange, IInv, TrailInv, OthersType, TypeOK, Entry
<1> QED BY <1>1, <1>2 DEF Approve

\* The approved revocation is carried out.
LEMMA RunApprovedStep ==
    ASSUME IInv, RunApproved
    PROVE  IInv' /\ AnswerChange
<1> DEFINE e == Effect(OnApproval(call.hold.kind), call.hold.term, call.hold.owner)
<1>0. call.op = "run_approved" /\ call.id \in Ids /\ call.hold \in HoldType /\ loaded
    BY DEF RunApproved, IInv, TypeOK, Idle, NoCall
<1>1. e \in EffectType
    BY <1>0, EntryTypes DEF HoldType, OnApproval, Effects
<1>2. /\ Log(e) /\ UNCHANGED <<pending, registry, loaded, drains>>
      /\ call' = [op |-> "record_approval", id |-> call.id, before |-> call.before]
    BY DEF RunApproved
<1> HIDE DEF e
<1>3. TrailInv' /\ \A i \in Ids : Latest(audit', i) = Latest(audit, i)
    BY <1>1, <1>2, QuietStep
<1>4. /\ CertificatesIn(audit') =
            CertificatesIn(audit) \cup (IF e.action = "erasure" THEN {Len(audit')} ELSE {})
      /\ DOMAIN audit \subseteq DOMAIN audit'
    BY <1>1, <1>2, LogAfter DEF IInv, TypeOK, Entry
<1>5. Latest(audit, call.id).status = "held" /\ call.before = CertificatesIn(audit)
    BY <1>0 DEF IInv, CallInv
<1>6. CallInv' BY <1>0, <1>2, <1>3, <1>4, <1>5 DEF CallInv
<1>7. OthersType'
    BY <1>0, <1>2, <1>4, <1>5 DEF OthersType, IInv, TypeOK, CertificatesIn
<1> QED BY <1>3, <1>6, <1>7 DEF AnswerChange, IInv, TrailInv, OthersType, TypeOK, Entry

\* The review is the last answer of its request.
LEMMA ReviewRecorded ==
    ASSUME IInv, NEW id \in Ids, loaded, Latest(audit, id).status = "held",
           NEW action \in {"dsar_approve", "dsar_reject"}, NEW status \in {"approved", "rejected"},
           NEW c \in Nat,
           Register(Summary(action, id, status, c, registry[id].pending_id)), call' = NoCall
    PROVE  IInv' /\ AnswerChange
<1> DEFINE s == Summary(action, id, status, c, registry[id].pending_id)
<1>1. registry[id] \in SummaryType
    BY KnownIsLatest, StatusTells DEF IInv, ReplayIsTruthful
<1>2. s \in SummaryType
    <2>1. registry[id].pending_id \in Nat BY <1>1 DEF SummaryType
    <2> QED BY <2>1, EntryTypes DEF RegistryActions, Statuses
<1>3. s.id = id /\ s.status = status BY DEF Summary
<1>4. /\ Log(s) /\ registry' = [Rehydrated EXCEPT ![id] = s] /\ loaded' = TRUE
      /\ pending' = pending /\ drains' = drains
    BY <1>3 DEF Register, Rehydrated, IInv, TypeOK
<1> HIDE DEF s
<1>5. /\ TrailInv' /\ Latest(audit', id) = s
      /\ \A other \in Ids \ {id} : Latest(audit', other) = Latest(audit, other)
    BY <1>2, <1>3, <1>4, AnswerStep
<1>6. CallInv' BY DEF CallInv, NoCall
<1>7. OthersType' BY <1>4 DEF OthersType, IInv, TypeOK, Idle
<1> QED BY <1>3, <1>5, <1>6, <1>7 DEF AnswerChange, IInv, TrailInv, OthersType, TypeOK, Entry

\* Second half of approve(), whether anything was carried out or not.
LEMMA RecordApprovalStep ==
    ASSUME IInv, RecordApproval
    PROVE  IInv' /\ AnswerChange
<1>0. call.op = "record_approval" /\ call.id \in Ids /\ loaded
    BY DEF RecordApproval, IInv, TypeOK, Idle, NoCall
<1>1. NewCertificate(audit, call.before) \in Nat
    <2>1. CASE CertificatesIn(audit) = call.before BY <2>1 DEF NewCertificate, None
    <2>2. CASE CertificatesIn(audit) # call.before
        <3>1. Len(audit) \in CertificatesIn(audit) BY <1>0, <2>2 DEF IInv, CallInv
        <3>2. CertificatesIn(audit) \in SUBSET Nat /\ \A j \in CertificatesIn(audit) : j <= Len(audit)
            BY DEF IInv, TypeOK, CertificatesIn
        <3> QED BY <2>2, <3>1, <3>2, NewestIsLast DEF NewCertificate
    <2> QED BY <2>1, <2>2
<1>2. Latest(audit, call.id).status = "held" BY <1>0 DEF IInv, CallInv
<1> QED BY <1>0, <1>1, <1>2, ReviewRecorded DEF RecordApproval

\* reject(): the hold, when this process has it, is taken off the queue.
LEMMA RejectStep ==
    ASSUME IInv, NEW id \in Ids, Reject(id)
    PROVE  IInv' /\ AnswerChange
<1> DEFINE n == Known(id).pending_id
<1>0. /\ EnsureRegistry /\ drains' = drains /\ Latest(audit, id).status = "held"
      /\ call' = [op |-> "record_rejection", id |-> id]
    BY KnownIsLatest DEF Reject
<1>1. TrailInv' /\ \A i \in Ids : Latest(audit', i) = Latest(audit, i)
    <2>1. CASE StillPending(n)
        <3>1. Log(Note("revocation_rejected")) BY <2>1 DEF Reject
        <3> QED BY <1>0, <3>1, EntryTypes, QuietStep
    <2>2. CASE ~ StillPending(n)
        <3>1. audit' = audit BY <2>2 DEF Reject
        <3> QED BY <1>0, <3>1, QuietStep
    <2> QED BY <2>1, <2>2
<1>2. pending' \in Seq(HoldType)
    <2>1. CASE StillPending(n)
        <3>1. pending[n] \in HoldType /\ n \in DOMAIN pending
            BY <2>1 DEF StillPending, IInv, TypeOK
        <3>2. [pending[n] EXCEPT !.status = "rejected"] \in HoldType BY <3>1 DEF HoldType
        <3>3. pending' = [pending EXCEPT ![n] = [pending[n] EXCEPT !.status = "rejected"]]
            BY <2>1 DEF Reject
        <3> QED BY <3>1, <3>2, <3>3 DEF IInv, TypeOK
    <2>2. CASE ~ StillPending(n) BY <2>2 DEF Reject, IInv, TypeOK
    <2> QED BY <2>1, <2>2
<1>3. CallInv' BY <1>0, <1>1 DEF CallInv
<1>4. OthersType' BY <1>0, <1>2 DEF OthersType, IInv, TypeOK, EnsureRegistry
<1> QED BY <1>1, <1>3, <1>4 DEF AnswerChange, IInv, TrailInv, OthersType, TypeOK, Entry

\* Its second half.
LEMMA RecordRejectionStep ==
    ASSUME IInv, RecordRejection
    PROVE  IInv' /\ AnswerChange
<1>0. call.op = "record_rejection" /\ call.id \in Ids /\ loaded
    BY DEF RecordRejection, IInv, TypeOK, Idle, NoCall
<1>1. Latest(audit, call.id).status = "held" BY <1>0 DEF IInv, CallInv
<1> QED BY <1>0, <1>1, ReviewRecorded DEF RecordRejection, None

\* Everything that neither answers a request nor is part of answering one.
LEMMA BesideStep ==
    ASSUME IInv, Idle, call' = call, drains' = drains, pending' \in Seq(HoldType),
           audit' = audit \/ \E e \in EffectType \cup NoteType : Log(e),
           EnsureRegistry \/ UNCHANGED <<registry, loaded>>
    PROVE  IInv' /\ AnswerChange
<1>1. TrailInv' /\ \A id \in Ids : Latest(audit', id) = Latest(audit, id) BY QuietStep
<1>2. call' = NoCall BY DEF Idle
<1>3. CallInv' BY <1>2 DEF CallInv, NoCall
<1>4. OthersType' BY <1>2 DEF OthersType, IInv, TypeOK, Idle
<1> QED BY <1>1, <1>3, <1>4 DEF AnswerChange, IInv, TrailInv, OthersType, TypeOK, Entry

\* The memory's own tools, probes, dry runs and replays.
LEMMA AsideStep ==
    ASSUME IInv,
           \/ Plan \/ Consult
           \/ \E id \in Ids : Verify(id)
           \/ \E term \in DirectTerms : DirectForget(term) \/ DirectHold(term)
    PROVE  IInv' /\ AnswerChange
<1>0. pending \in Seq(HoldType) BY DEF IInv, TypeOK
<1>1. CASE Plan BY <1>0, <1>1, EntryTypes, BesideStep DEF Plan, Aside
<1>2. CASE Consult BY <1>0, <1>2, BesideStep DEF Consult
<1>3. ASSUME NEW id \in Ids, Verify(id) PROVE IInv' /\ AnswerChange
    BY <1>0, <1>3, EntryTypes, BesideStep DEF Verify, Aside
<1>4. ASSUME NEW term \in DirectTerms, DirectForget(term) PROVE IInv' /\ AnswerChange
    <2>1. Effect("erasure", term, NoId) \in EffectType BY EntryTypes, DSARAssumption DEF Effects
    <2>2. /\ Idle /\ Log(Effect("erasure", term, NoId))
          /\ UNCHANGED <<pending, registry, loaded, call, drains>>
        BY <1>4 DEF DirectForget, Aside
    <2> QED BY <1>0, <2>1, <2>2, BesideStep
<1>5. ASSUME NEW term \in DirectTerms, DirectHold(term) PROVE IInv' /\ AnswerChange
    <2>1. HoldOf("erasure", term, NoId) \in HoldType BY DSARAssumption DEF HoldOf, HoldType
    <2>2. pending' \in Seq(HoldType) BY <1>0, <1>5, <2>1 DEF DirectHold
    <2>3. Idle /\ Log(Note("revocation_held")) /\ UNCHANGED <<registry, loaded, call, drains>>
        BY <1>5 DEF DirectHold, Aside
    <2> QED BY <2>2, <2>3, EntryTypes, BesideStep
<1> QED BY <1>1, <1>2, <1>3, <1>4, <1>5

\* A crash loses the queue, the registry and the call; the trail stays.
LEMMA CrashStep ==
    ASSUME IInv, Crash
    PROVE  IInv' /\ AnswerChange
<1>1. /\ audit' = audit /\ pending' = <<>> /\ call' = NoCall /\ drains' = drains
      /\ registry' = [id \in Ids |-> Unanswered] /\ loaded' = FALSE
    BY DEF Crash
<1>2. TrailInv'
    <2>1. audit' \in Seq(Entry) BY <1>1 DEF IInv, TypeOK, Entry
    <2>2. \A id \in Ids : HasNewest(audit', id) BY <1>1 DEF IInv
    <2>3. \A id \in Ids : OwnCertificate(id)'
        BY <1>1 DEF IInv, ReplayIsTruthful, OwnCertificate, CertificatesIn, Carried
    <2> QED BY <1>1, <2>1, <2>2, <2>3 DEF TrailInv, ReplayIsTruthful
<1>3. CallInv' BY <1>1 DEF CallInv, NoCall
<1>4. OthersType' BY <1>1 DEF OthersType, IInv, TypeOK, Idle
<1> QED BY <1>1, <1>2, <1>3, <1>4 DEF AnswerChange, IInv, TrailInv, OthersType, TypeOK, Entry

\* A step that changes nothing.
LEMMA Stutter ==
    ASSUME IInv, UNCHANGED vars
    PROVE  IInv' /\ AnswerChange
BY DEF vars, AnswerChange, IInv, TypeOK, ReplayIsTruthful, OwnCertificate, CertificatesIn,
    Carried, CallInv, Idle

-----------------------------------------------------------------------------
(* The theorems. *)

\* The invariant holds before the first call.
LEMMA InitInv == Init => IInv
<1> SUFFICES ASSUME Init PROVE IInv OBVIOUS
<1>1. audit = <<>> /\ \A id \in Ids : Summaries(audit, id) = {}
    BY DEF Init, Summaries
<1>2. TypeOK
    <2>1. <<>> \in Seq(SummaryType \cup EffectType \cup NoteType) /\ <<>> \in Seq(HoldType)
        OBVIOUS
    <2>2. [id \in Ids |-> Unanswered] \in [Ids -> SummaryType \cup {Unanswered}] OBVIOUS
    <2> QED BY <2>1, <2>2 DEF Init, TypeOK, Idle
<1>3. \A id \in Ids : HasNewest(audit, id) BY <1>1 DEF HasNewest
<1>4. ReplayIsTruthful BY <1>1 DEF Init, ReplayIsTruthful, OwnCertificate, Latest, Unanswered
<1>5. CallInv BY DEF Init, CallInv, NoCall
<1> QED BY <1>2, <1>3, <1>4, <1>5 DEF IInv

\* Every step keeps it and changes the answers as the ledger allows.
LEMMA EveryStep ==
    ASSUME IInv, [Next]_vars
    PROVE  IInv' /\ AnswerChange
<1>1. CASE \E id \in Ids : ExecuteRevocation(id) \/ ExecuteHeld(id) \/ ExecuteAccess(id)
    BY <1>1, ExecuteRevocationStep, ExecuteHeldStep, ExecuteAccessStep
<1>2. CASE \E id \in Ids : Approve(id) \/ Reject(id)
    BY <1>2, ApproveStep, RejectStep
<1>3. CASE RecordExecuted \/ RecordHeld \/ ExportAccess
    BY <1>3, RecordExecutedStep, RecordHeldStep, ExportAccessStep
<1>4. CASE RunApproved \/ RecordApproval \/ RecordRejection
    BY <1>4, RunApprovedStep, RecordApprovalStep, RecordRejectionStep
<1>5. CASE \/ Plan \/ Consult
           \/ \E id \in Ids : Verify(id)
           \/ \E term \in DirectTerms : DirectForget(term) \/ DirectHold(term)
    BY <1>5, AsideStep
<1>6. CASE Crash BY <1>6, CrashStep
<1>7. CASE UNCHANGED vars BY <1>7, Stutter
<1> QED BY <1>1, <1>2, <1>3, <1>4, <1>5, <1>6, <1>7 DEF Next

\* Every variable keeps its type, and a call under way can finish.
THEOREM ServiceTypeCorrect == Spec => []TypeOK
<1>1. IInv /\ [Next]_vars => IInv' BY EveryStep
<1>2. IInv => TypeOK BY DEF IInv
<1> QED BY <1>1, <1>2, InitInv, PTL DEF Spec

\* dsar.py, _ensure_registry and the capture of a certificate: after any crashes and
\* retries a replay says what the trail says, and an executed erasure points at the
\* certificate issued for it.
THEOREM ReplaysAreTruthful == Spec => []ReplayIsTruthful
<1>1. IInv /\ [Next]_vars => IInv' BY EveryStep
<1>2. IInv => ReplayIsTruthful BY DEF IInv
<1> QED BY <1>1, <1>2, InitInv, PTL DEF Spec

\* The answers of the trail at the start are those of an empty ledger.
LEMMA LedgerInit == Init => Ledger!Init
BY DEF Init, Ledger!Init, Ledger!Unanswered, Latest, Summaries, Unanswered

\* What a step does to the answers is a step of the ledger, or none.
LEMMA LedgerStep ==
    ASSUME AnswerChange
    PROVE  [Ledger!Next]_Answers
<1>1. CASE \A id \in Ids : Latest(audit', id) = Latest(audit, id)
    BY <1>1 DEF Answers
<1>2. ASSUME NEW id \in Ids,
             \A other \in Ids \ {id} : Latest(audit', other) = Latest(audit, other),
             \/ /\ Latest(audit, id).status = "none"
                /\ Latest(audit', id).status \in {"executed", "held"}
             \/ /\ Latest(audit, id).status = "held"
                /\ Latest(audit', id).status \in {"approved", "rejected"}
      PROVE  Ledger!Next
    BY <1>2 DEF Ledger!Next, Ledger!Settle, Ledger!Review, Ledger!OthersKeepTheirs
<1> QED BY <1>1, <1>2 DEF AnswerChange

\* dsar.py, execute, approve and reject: the service implements the ledger. A request
\* is answered once, every retry replays the answer, and a held one is reviewed once.
THEOREM LedgerImplemented == Spec => AnsweredOnce
<1>1. IInv /\ [Next]_vars => IInv' /\ [Ledger!Next]_Answers BY EveryStep, LedgerStep
<1> QED BY <1>1, InitInv, LedgerInit, PTL DEF Spec, AnsweredOnce, Ledger!Spec, Answers

-----------------------------------------------------------------------------
(* Reviews, and what restarts leave of them. *)

\* An effect carried out for a request.
IsEffectFor(e, id) == e.action \in Effects /\ e.behalf = id

\* What each kind of entry is to a request.
LEMMA EntryKinds ==
    /\ \A e \in NoteType, id \in Ids : ~ IsSummaryOf(e, id) /\ ~ IsEffectFor(e, id)
    /\ \A e \in EffectType, id \in Ids : ~ IsSummaryOf(e, id) /\ (IsEffectFor(e, id) <=> e.behalf = id)
    /\ \A action \in RegistryActions, id \in Ids : \A i, status, c, n :
          LET s == Summary(action, i, status, c, n)
          IN  (IsSummaryOf(s, id) <=> i = id) /\ ~ IsEffectFor(s, id)
BY DEF IsSummaryOf, IsEffectFor, RegistryActions, Effects, NoteType, EffectType, Summary

\* What one more entry makes of the answers and of the effects of every request.
LEMMA TrailAfter ==
    ASSUME IInv, IInv', NEW e, Log(e)
    PROVE  /\ Len(audit') \in DOMAIN audit' /\ Len(audit') \notin DOMAIN audit
           /\ audit'[Len(audit')] = e
           /\ \A k \in DOMAIN audit : audit'[k] = audit[k]
           /\ CertificatesIn(audit) = CertificatesIn(audit') \ {Len(audit')}
           /\ \A id \in Ids :
                /\ Latest(audit', id) = IF IsSummaryOf(e, id) THEN e ELSE Latest(audit, id)
                /\ Carried(id)' = Carried(id) \cup (IF IsEffectFor(e, id) THEN {Len(audit')} ELSE {})
<1>0. audit \in Seq(Entry) /\ audit' \in Seq(Entry) /\ (\A id \in Ids : HasNewest(audit, id))
    BY DEF IInv, TypeOK, Entry
<1>1. e \in Entry
    <2>1. audit' = Append(audit, e) BY DEF Log
    <2>2. Len(audit) + 1 \in DOMAIN audit' /\ audit'[Len(audit) + 1] = e BY <1>0, <2>1
    <2> QED BY <1>0, <2>2
<1>2. /\ Len(audit) \in Nat /\ Len(audit') = Len(audit) + 1 /\ audit'[Len(audit')] = e
      /\ DOMAIN audit = 1..Len(audit) /\ DOMAIN audit' = 1..Len(audit')
      /\ \A k \in DOMAIN audit : audit'[k] = audit[k]
      /\ \A id \in Ids : Latest(audit', id) = IF IsSummaryOf(e, id) THEN e ELSE Latest(audit, id)
    BY <1>0, <1>1, LogAfter
<1>3. CertificatesIn(audit) = CertificatesIn(audit') \ {Len(audit')}
    BY <1>2 DEF CertificatesIn
<1>4. \A id \in Ids :
         Carried(id)' = Carried(id) \cup (IF IsEffectFor(e, id) THEN {Len(audit')} ELSE {})
    BY <1>2 DEF Carried, IsEffectFor
<1> QED BY <1>2, <1>3, <1>4

\* An entry that neither answers a request nor is an effect for one, or no entry.
LEMMA NothingSaid ==
    ASSUME IInv, IInv',
           \/ audit' = audit
           \/ \E e \in NoteType : Log(e)
           \/ \E e \in EffectType : e.behalf = NoId /\ Log(e)
    PROVE  \A id \in Ids : Latest(audit', id) = Latest(audit, id) /\ Carried(id)' = Carried(id)
<1>1. CASE audit' = audit BY <1>1 DEF Carried
<1>2. CASE \E e \in NoteType : Log(e) BY <1>2, EntryKinds, TrailAfter
<1>3. CASE \E e \in EffectType : e.behalf = NoId /\ Log(e)
    <2>1. PICK e \in EffectType : e.behalf = NoId /\ Log(e) BY <1>3
    <2>2. \A id \in Ids : ~ IsSummaryOf(e, id) /\ ~ IsEffectFor(e, id)
        BY <2>1, EntryKinds, DSARAssumption
    <2> QED BY <2>1, <2>2, TrailAfter
<1> QED BY <1>1, <1>2, <1>3

\* The newest of the holds that wait is the last one, when that one waits.
LEMMA NewestHoldIsLast ==
    ASSUME IInv, call.op = "record_hold"
    PROVE  NewestHold(pending) = Len(pending) /\ Len(pending) \in DOMAIN pending
<1>1. /\ Len(pending) \in Waiting(pending) /\ Waiting(pending) \in SUBSET Nat
      /\ \A m \in Waiting(pending) : m <= Len(pending)
    BY DEF IInv, CallInv, TypeOK, Waiting
<1> QED BY <1>1, NewestIsLast DEF NewestHold, Waiting

-----------------------------------------------------------------------------
(* Reviews, in good order. *)

UnderReview(id) ==
    call.op \in {"run_approved", "record_approval", "record_rejection"} /\ call.id = id

\* A held request has its own hold in the queue, still undecided between two reviews.
HeldInv ==
    \A id \in Ids : Latest(audit, id).status = "held" =>
        LET n == Latest(audit, id).pending_id
        IN  /\ id \in Suspicious
            /\ n \in DOMAIN pending /\ pending[n].owner = id /\ pending[n].kind = KindOf[id]
            /\ pending[n].status = "pending" \/ UnderReview(id)

\* A call under way works on the hold and the effect of the request it is about.
OwnHoldInv ==
    /\ call.op = "record_hold" =>
           /\ call.id \in Suspicious
           /\ pending[Len(pending)] = HoldOf(KindOf[call.id], TermOf[call.id], call.id)
    /\ call.op = "run_approved" => call.hold.owner = call.id /\ call.hold.kind = KindOf[call.id]
    /\ call.op = "record_approval" =>
           /\ Len(audit) \in Carried(call.id)
           /\ audit[Len(audit)].action = OnApproval(KindOf[call.id])
           /\ call.before = CertificatesIn(audit) \ {Len(audit)}

\* A doubtful request is carried out by its approval only.
DoubtfulInv ==
    \A id \in Ids :
        /\ Latest(audit, id).status = "rejected" => id \in Suspicious
        /\ id \in Suspicious /\ Latest(audit, id).status \in {"none", "held", "rejected"} =>
              Carried(id) = {} \/ (call.op = "record_approval" /\ call.id = id)
        /\ Latest(audit, id).status = "approved" =>
              /\ Carried(id) # {}
              /\ KindOf[id] = "erasure" => Latest(audit, id).certificate_seq \in Carried(id)

ReviewInv == HeldInv /\ OwnHoldInv /\ DoubtfulInv

\* Held requests keep their holds.
LEMMA HeldStays ==
    ASSUME HeldInv,
           \A id \in Ids : Latest(audit', id).status = "held" => Latest(audit', id) = Latest(audit, id),
           \A n \in DOMAIN pending : n \in DOMAIN pending' /\ pending'[n] = pending[n],
           \A id \in Ids : UnderReview(id) /\ Latest(audit', id).status = "held" => UnderReview(id)'
    PROVE  HeldInv'
BY DEF HeldInv

\* A step that carries out nothing for a doubtful request and reviews none.
LEMMA DoubtfulStays ==
    ASSUME DoubtfulInv, call.op # "record_approval" \/ call' = call,
           \A id \in Ids : \/ Latest(audit', id) = Latest(audit, id)
                           \/ Latest(audit', id).status = "executed"
                           \/ Latest(audit, id).status = "none" /\ Latest(audit', id).status = "held",
           \A id \in Ids : Carried(id)' = Carried(id) \/ (id \notin Suspicious /\ Carried(id) \subseteq Carried(id)')
    PROVE  DoubtfulInv'
<1> SUFFICES ASSUME NEW id \in Ids
             PROVE  /\ Latest(audit', id).status = "rejected" => id \in Suspicious
                    /\ id \in Suspicious /\ Latest(audit', id).status \in {"none", "held", "rejected"} =>
                          Carried(id)' = {} \/ (call'.op = "record_approval" /\ call'.id = id)
                    /\ Latest(audit', id).status = "approved" =>
                          /\ Carried(id)' # {}
                          /\ KindOf[id] = "erasure" => Latest(audit', id).certificate_seq \in Carried(id)'
    BY DEF DoubtfulInv
<1>1. /\ Latest(audit, id).status = "rejected" => id \in Suspicious
      /\ id \in Suspicious /\ Latest(audit, id).status \in {"none", "held", "rejected"} =>
            Carried(id) = {} \/ (call.op = "record_approval" /\ call.id = id)
      /\ Latest(audit, id).status = "approved" =>
            /\ Carried(id) # {}
            /\ KindOf[id] = "erasure" => Latest(audit, id).certificate_seq \in Carried(id)
    BY DEF DoubtfulInv
<1>2. CASE Latest(audit', id) = Latest(audit, id) BY <1>1, <1>2
<1>3. CASE Latest(audit', id).status = "executed" BY <1>3
<1>4. CASE Latest(audit, id).status = "none" /\ Latest(audit', id).status = "held" BY <1>1, <1>4
<1> QED BY <1>2, <1>3, <1>4

\* Between calls, whatever answers nobody and carries out nothing.
LEMMA ReviewBeside ==
    ASSUME IInv, IInv', ReviewInv, Idle, call' = call,
           \/ audit' = audit
           \/ \E e \in NoteType : Log(e)
           \/ \E e \in EffectType : e.behalf = NoId /\ Log(e),
           \A n \in DOMAIN pending : n \in DOMAIN pending' /\ pending'[n] = pending[n]
    PROVE  ReviewInv'
<1>1. \A id \in Ids : Latest(audit', id) = Latest(audit, id) /\ Carried(id)' = Carried(id)
    BY NothingSaid
<1>2. call.op = "idle" BY DEF Idle, NoCall
<1>3. HeldInv' BY <1>1, <1>2, HeldStays DEF ReviewInv, UnderReview
<1>4. OwnHoldInv' BY <1>2 DEF OwnHoldInv
<1>5. DoubtfulInv' BY <1>1, DoubtfulStays DEF ReviewInv
<1> QED BY <1>3, <1>4, <1>5 DEF ReviewInv

\* execute(), of a request that is let through, held, or an access request.
LEMMA ReviewExecute ==
    ASSUME IInv, IInv', ReviewInv, NEW id \in Ids,
           ExecuteRevocation(id) \/ ExecuteHeld(id) \/ ExecuteAccess(id)
    PROVE  ReviewInv'
<1>0. call.op = "idle" /\ Latest(audit, id).status = "none"
    BY KnownIsLatest, StatusTells DEF Idle, NoCall, ExecuteRevocation, ExecuteHeld, ExecuteAccess
<1>a. pending \in Seq(HoldType) BY DEF IInv, TypeOK
<1>1. CASE ExecuteRevocation(id)
    <2> DEFINE e == Effect(Direct(KindOf[id]), TermOf[id], id)
    <2>1. e \in EffectType /\ e.behalf = id
        BY EntryTypes, DSARAssumption DEF Direct, Effects, Effect
    <2>2. /\ Log(e) /\ pending' = pending /\ id \notin Suspicious
          /\ call' = [op |-> "record", id |-> id, before |-> CertificatesIn(audit)]
        BY <1>1 DEF ExecuteRevocation
    <2> HIDE DEF e
    <2>3. \A r \in Ids : /\ Latest(audit', r) = Latest(audit, r)
                         /\ Carried(r) \subseteq Carried(r)' /\ (r # id => Carried(r)' = Carried(r))
        <3>1. \A r \in Ids : ~ IsSummaryOf(e, r) /\ (IsEffectFor(e, r) <=> r = id)
            BY <2>1, EntryKinds
        <3> QED BY <2>2, <3>1, TrailAfter
    <2>4. HeldInv' BY <1>0, <2>2, <2>3, HeldStays DEF ReviewInv, UnderReview
    <2>5. OwnHoldInv' BY <2>2 DEF OwnHoldInv
    <2>6. DoubtfulInv' BY <1>0, <2>2, <2>3, DoubtfulStays DEF ReviewInv
    <2> QED BY <2>4, <2>5, <2>6 DEF ReviewInv
<1>2. CASE ExecuteHeld(id)
    <2> DEFINE h == HoldOf(KindOf[id], TermOf[id], id)
    <2>1. /\ Log(Note("revocation_held")) /\ pending' = Append(pending, h)
          /\ id \in Suspicious /\ call' = [op |-> "record_hold", id |-> id]
        BY <1>2 DEF ExecuteHeld
    <2>2. h \in HoldType BY <2>1, DSARAssumption DEF HoldOf, HoldType
    <2> HIDE DEF h
    <2>3. \A r \in Ids : Latest(audit', r) = Latest(audit, r) /\ Carried(r)' = Carried(r)
        BY <2>1, EntryTypes, NothingSaid
    <2>4. /\ pending'[Len(pending')] = h
          /\ \A n \in DOMAIN pending : n \in DOMAIN pending' /\ pending'[n] = pending[n]
        BY <1>a, <2>1, <2>2
    <2>5. HeldInv' BY <1>0, <2>3, <2>4, HeldStays DEF ReviewInv, UnderReview
    <2>6. OwnHoldInv' BY <2>1, <2>4 DEF OwnHoldInv, h
    <2>7. DoubtfulInv' BY <1>0, <2>3, DoubtfulStays DEF ReviewInv
    <2> QED BY <2>5, <2>6, <2>7 DEF ReviewInv
<1>3. CASE ExecuteAccess(id)
    <2> DEFINE s == Summary("dsar_execute", id, "executed", None, None)
    <2>1. Log(s) /\ pending' = pending /\ call' = [op |-> "export", id |-> id]
        BY <1>3 DEF ExecuteAccess
    <2>2. s.status = "executed" /\ \A r \in Ids : (IsSummaryOf(s, r) <=> id = r) /\ ~ IsEffectFor(s, r)
        BY EntryKinds DEF Summary, RegistryActions
    <2> HIDE DEF s
    <2>3. \A r \in Ids : /\ Carried(r)' = Carried(r)
                         /\ Latest(audit', r) = Latest(audit, r) \/ Latest(audit', r).status = "executed"
        BY <2>1, <2>2, TrailAfter
    <2>4. HeldInv' BY <1>0, <2>1, <2>3, HeldStays DEF ReviewInv, UnderReview
    <2>5. OwnHoldInv' BY <2>1 DEF OwnHoldInv
    <2>6. DoubtfulInv' BY <1>0, <2>3, DoubtfulStays DEF ReviewInv
    <2> QED BY <2>4, <2>5, <2>6 DEF ReviewInv
<1> QED BY <1>1, <1>2, <1>3

\* execute(), its answer.
LEMMA ReviewRecord ==
    ASSUME IInv, IInv', ReviewInv, RecordExecuted \/ RecordHeld \/ ExportAccess
    PROVE  ReviewInv'
<1>a. call' = NoCall /\ pending' = pending
    BY DEF RecordExecuted, RecordHeld, ExportAccess, Register
<1>b. OwnHoldInv' BY <1>a DEF OwnHoldInv, NoCall
<1>c. call.op \in {"record", "record_hold", "export"}
    BY DEF RecordExecuted, RecordHeld, ExportAccess
<1>d. call.id \in Ids BY <1>c DEF IInv, TypeOK, Idle, NoCall
<1>1. CASE RecordExecuted
    <2> DEFINE s == Summary("dsar_execute", call.id, "executed", NewCertificate(audit, call.before), None)
    <2>1. Log(s) BY <1>1 DEF RecordExecuted, Register
    <2>2. s.status = "executed" /\ \A r \in Ids : (IsSummaryOf(s, r) <=> call.id = r) /\ ~ IsEffectFor(s, r)
        BY <1>d, EntryKinds DEF Summary, RegistryActions
    <2> HIDE DEF s
    <2>3. \A r \in Ids : /\ Carried(r)' = Carried(r)
                         /\ Latest(audit', r) = Latest(audit, r) \/ Latest(audit', r).status = "executed"
        BY <2>1, <2>2, TrailAfter
    <2>4. HeldInv' BY <1>a, <1>c, <2>3, HeldStays DEF ReviewInv, UnderReview
    <2>5. DoubtfulInv' BY <1>c, <2>3, DoubtfulStays DEF ReviewInv
    <2> QED BY <1>b, <2>4, <2>5 DEF ReviewInv
<1>2. CASE RecordHeld
    <2> DEFINE id == call.id
               n == NewestHold(pending)
               s == Summary("dsar_execute", id, "held", None, n)
    <2>0. call.op = "record_hold" BY <1>2 DEF RecordHeld
    <2>1. Log(s) BY <1>2 DEF RecordHeld, Register
    <2>2. /\ s.status = "held" /\ s.pending_id = n
          /\ \A r \in Ids : (IsSummaryOf(s, r) <=> id = r) /\ ~ IsEffectFor(s, r)
        BY <1>d, EntryKinds DEF Summary, RegistryActions
    <2>3. n = Len(pending) /\ n \in DOMAIN pending BY <2>0, NewestHoldIsLast
    <2>4. /\ id \in Suspicious /\ pending[n].owner = id /\ pending[n].kind = KindOf[id]
          /\ pending[n].status = "pending"
        BY <2>0, <2>3 DEF ReviewInv, OwnHoldInv, HoldOf
    <2> HIDE DEF s, n
    <2>5. \A r \in Ids : Carried(r)' = Carried(r) /\ Latest(audit', r) = IF r = id THEN s ELSE Latest(audit, r)
        BY <2>1, <2>2, TrailAfter
    <2>6. HeldInv'
        <3> SUFFICES ASSUME NEW r \in Ids, Latest(audit', r).status = "held"
                     PROVE  LET m == Latest(audit', r).pending_id
                            IN  /\ r \in Suspicious
                                /\ m \in DOMAIN pending /\ pending[m].owner = r /\ pending[m].kind = KindOf[r]
                                /\ pending[m].status = "pending"
            BY <1>a DEF HeldInv
        <3>1. CASE r = id BY <2>2, <2>3, <2>4, <2>5, <3>1
        <3>2. CASE r # id
            <4>1. ~ UnderReview(r) BY <2>0 DEF UnderReview
            <4> QED BY <2>5, <3>2, <4>1 DEF ReviewInv, HeldInv
        <3> QED BY <3>1, <3>2
    <2>7. Latest(audit, id).status = "none" BY <2>0 DEF IInv, CallInv
    <2>8. DoubtfulInv' BY <2>0, <2>2, <2>5, <2>7, DoubtfulStays DEF ReviewInv
    <2> QED BY <1>b, <2>6, <2>8 DEF ReviewInv
<1>3. CASE ExportAccess
    <2>1. \A r \in Ids : Latest(audit', r) = Latest(audit, r) /\ Carried(r)' = Carried(r)
        BY <1>3, EntryTypes, NothingSaid DEF ExportAccess
    <2>2. HeldInv' BY <1>a, <1>c, <2>1, HeldStays DEF ReviewInv, UnderReview
    <2>3. DoubtfulInv' BY <1>c, <2>1, DoubtfulStays DEF ReviewInv
    <2> QED BY <1>b, <2>2, <2>3 DEF ReviewInv
<1> QED BY <1>1, <1>2, <1>3

\* approve() and reject() take the hold of their request off the queue: it is there.
LEMMA ReviewDecide ==
    ASSUME IInv, IInv', ReviewInv, NEW id \in Ids, Approve(id) \/ Reject(id)
    PROVE  ReviewInv'
<1> DEFINE n == Latest(audit, id).pending_id
<1>0. call.op = "idle" /\ Latest(audit, id).status = "held" /\ n = Known(id).pending_id
    BY KnownIsLatest DEF Approve, Reject, Idle, NoCall
<1>1. /\ id \in Suspicious /\ n \in DOMAIN pending
      /\ pending[n].owner = id /\ pending[n].kind = KindOf[id] /\ pending[n].status = "pending"
    BY <1>0 DEF ReviewInv, HeldInv, UnderReview
<1>2. StillPending(n) BY <1>1 DEF StillPending
<1> HIDE DEF n
<1>3. PICK status \in {"approved", "rejected"} :
          /\ pending' = [pending EXCEPT ![n].status = status]
          /\ \E e \in NoteType : Log(e)
          /\ call'.id = id
          /\ \/ call'.op = "run_approved" /\ call'.hold = pending[n]
             \/ call'.op = "record_rejection"
    <2>1. CASE Approve(id)
        <3>1. /\ pending' = [pending EXCEPT ![n].status = "approved"]
              /\ Log(Note("revocation_approved"))
              /\ call' = [op |-> "run_approved", id |-> id, hold |-> pending[n],
                          before |-> CertificatesIn(audit)]
            BY <1>0, <1>2, <2>1 DEF Approve
        <3> QED BY <3>1, EntryTypes
    <2>2. CASE Reject(id)
        <3>1. /\ pending' = [pending EXCEPT ![n].status = "rejected"]
              /\ Log(Note("revocation_rejected"))
              /\ call' = [op |-> "record_rejection", id |-> id]
            BY <1>0, <1>2, <2>2 DEF Reject
        <3> QED BY <3>1, EntryTypes
    <2> QED BY <2>1, <2>2
<1>4. \A r \in Ids : Latest(audit', r) = Latest(audit, r) /\ Carried(r)' = Carried(r)
    BY <1>3, NothingSaid
<1>5. /\ DOMAIN pending' = DOMAIN pending
      /\ \A m \in DOMAIN pending : m # n => pending'[m] = pending[m]
      /\ pending'[n].owner = id /\ pending'[n].kind = KindOf[id]
    <2>1. pending[n] \in HoldType BY <1>1 DEF IInv, TypeOK
    <2> DEFINE h == [pending[n] EXCEPT !.status = status]
    <2>2. h.owner = id /\ h.kind = KindOf[id] BY <1>1, <2>1 DEF HoldType
    <2>3. pending' = [pending EXCEPT ![n] = h] BY <1>3
    <2> HIDE DEF h
    <2> QED BY <1>1, <2>2, <2>3
<1>6. HeldInv'
    <2> SUFFICES ASSUME NEW r \in Ids, Latest(audit, r).status = "held"
                 PROVE  LET m == Latest(audit, r).pending_id
                        IN  /\ r \in Suspicious
                            /\ m \in DOMAIN pending' /\ pending'[m].owner = r /\ pending'[m].kind = KindOf[r]
                            /\ pending'[m].status = "pending" \/ UnderReview(r)'
        BY <1>4 DEF HeldInv
    <2>1. CASE r = id
        BY <1>1, <1>3, <1>5, <2>1 DEF UnderReview, n
    <2>2. CASE r # id
        <3> DEFINE m == Latest(audit, r).pending_id
        <3>1. /\ r \in Suspicious /\ m \in DOMAIN pending /\ pending[m].owner = r
              /\ pending[m].kind = KindOf[r] /\ pending[m].status = "pending"
            BY <1>0 DEF ReviewInv, HeldInv, UnderReview
        <3>2. m # n BY <1>1, <2>2, <3>1
        <3> QED BY <1>5, <3>1, <3>2
    <2> QED BY <2>1, <2>2
<1>7. OwnHoldInv' BY <1>1, <1>3 DEF OwnHoldInv
<1>8. DoubtfulInv' BY <1>0, <1>4, DoubtfulStays DEF ReviewInv
<1> QED BY <1>6, <1>7, <1>8 DEF ReviewInv

\* The approved revocation is that of the request under review.
LEMMA ReviewRuns ==
    ASSUME IInv, IInv', ReviewInv, RunApproved
    PROVE  ReviewInv'
<1> DEFINE id == call.id
           e == Effect(OnApproval(call.hold.kind), call.hold.term, call.hold.owner)
<1>0. call.op = "run_approved" /\ id \in Ids /\ call.hold \in HoldType
    BY DEF RunApproved, IInv, TypeOK, Idle, NoCall
<1>1. e \in EffectType /\ e.behalf = id /\ e.action = OnApproval(KindOf[id])
    BY <1>0, EntryTypes DEF HoldType, OnApproval, Effects, Effect, ReviewInv, OwnHoldInv
<1>2. /\ Log(e) /\ pending' = pending
      /\ call' = [op |-> "record_approval", id |-> id, before |-> call.before]
    BY DEF RunApproved
<1> HIDE DEF e
<1>3. /\ audit'[Len(audit')] = e /\ CertificatesIn(audit) = CertificatesIn(audit') \ {Len(audit')}
      /\ \A r \in Ids : /\ Latest(audit', r) = Latest(audit, r)
                        /\ Carried(r)' = Carried(r) \cup (IF r = id THEN {Len(audit')} ELSE {})
    BY <1>1, <1>2, EntryKinds, TrailAfter
<1>4. HeldInv' BY <1>0, <1>2, <1>3, HeldStays DEF ReviewInv, UnderReview
<1>5. OwnHoldInv' BY <1>0, <1>1, <1>2, <1>3 DEF OwnHoldInv, IInv, CallInv
<1>6. DoubtfulInv'
    <2>1. \A r \in Ids : Carried(r) \subseteq Carried(r)' BY <1>3
    <2>2. \A r \in Ids : Carried(r)' = Carried(r) \/ (call'.op = "record_approval" /\ call'.id = r)
        BY <1>2, <1>3
    <2>3. call.op # "record_approval" BY <1>0
    <2> QED BY <1>3, <2>1, <2>2, <2>3 DEF ReviewInv, DoubtfulInv
<1> QED BY <1>4, <1>5, <1>6 DEF ReviewInv

\* The review is recorded.
LEMMA ReviewEnds ==
    ASSUME IInv, IInv', ReviewInv, RecordApproval \/ RecordRejection
    PROVE  ReviewInv'
<1> DEFINE id == call.id
           c == NewCertificate(audit, call.before)
           s == IF call.op = "record_approval"
                THEN Summary("dsar_approve", id, "approved", c, registry[id].pending_id)
                ELSE Summary("dsar_reject", id, "rejected", None, registry[id].pending_id)
<1>0. call.op \in {"record_approval", "record_rejection"} /\ id \in Ids
    BY DEF RecordApproval, RecordRejection, IInv, TypeOK, Idle, NoCall
<1>1. Log(s) /\ pending' = pending /\ call' = NoCall
    BY DEF RecordApproval, RecordRejection, Register
<1>2. /\ call.op = "record_approval" => s.status = "approved" /\ s.certificate_seq = c
      /\ call.op = "record_rejection" => s.status = "rejected"
      /\ \A r \in Ids : (IsSummaryOf(s, r) <=> id = r) /\ ~ IsEffectFor(s, r)
    BY <1>0, EntryKinds DEF Summary, RegistryActions
<1> HIDE DEF s, c
<1>3. \A r \in Ids : Carried(r)' = Carried(r) /\ Latest(audit', r) = IF r = id THEN s ELSE Latest(audit, r)
    <2> SUFFICES ASSUME NEW r \in Ids
                 PROVE  Carried(r)' = Carried(r) /\ Latest(audit', r) = IF r = id THEN s ELSE Latest(audit, r)
        OBVIOUS
    <2>1. (IsSummaryOf(s, r) <=> id = r) /\ ~ IsEffectFor(s, r) BY <1>2
    <2> QED BY <1>1, <2>1, TrailAfter
<1>4. Latest(audit, id).status = "held" BY <1>0 DEF IInv, CallInv
<1>5. HeldInv'
    BY <1>0, <1>1, <1>2, <1>3, HeldStays DEF ReviewInv, UnderReview
<1>6. OwnHoldInv' BY <1>1 DEF OwnHoldInv, NoCall
<1>7. call.op = "record_approval" =>
          Len(audit) \in Carried(id) /\ (KindOf[id] = "erasure" => c = Len(audit))
    <2> SUFFICES ASSUME call.op = "record_approval"
                 PROVE  Len(audit) \in Carried(id) /\ (KindOf[id] = "erasure" => c = Len(audit))
        OBVIOUS
    <2>1. /\ Len(audit) \in Carried(id) /\ audit[Len(audit)].action = OnApproval(KindOf[id])
          /\ call.before = CertificatesIn(audit) \ {Len(audit)}
        BY DEF ReviewInv, OwnHoldInv
    <2>2. KindOf[id] = "erasure" => Len(audit) \in CertificatesIn(audit)
        BY <2>1 DEF Carried, CertificatesIn, OnApproval
    <2>3. CertificatesIn(audit) \in SUBSET Nat /\ \A j \in CertificatesIn(audit) : j <= Len(audit)
        BY DEF IInv, TypeOK, CertificatesIn
    <2>4. Len(audit) \in CertificatesIn(audit) => c = Len(audit)
        BY <2>1, <2>3, NewestIsLast DEF NewCertificate, c
    <2> QED BY <2>1, <2>2, <2>4
<1>8. DoubtfulInv'
    <2> SUFFICES ASSUME NEW r \in Ids
                 PROVE  /\ Latest(audit', r).status = "rejected" => r \in Suspicious
                        /\ r \in Suspicious /\ Latest(audit', r).status \in {"none", "held", "rejected"} =>
                              Carried(r) = {}
                        /\ Latest(audit', r).status = "approved" =>
                              /\ Carried(r) # {}
                              /\ KindOf[r] = "erasure" => Latest(audit', r).certificate_seq \in Carried(r)
        BY <1>3 DEF DoubtfulInv
    <2>1. CASE r # id BY <1>3, <2>1 DEF ReviewInv, DoubtfulInv
    <2>2. CASE r = id /\ call.op = "record_approval"
        BY <1>2, <1>3, <1>7, <2>2
    <2>3. CASE r = id /\ call.op = "record_rejection"
        BY <1>2, <1>3, <1>4, <2>3 DEF ReviewInv, DoubtfulInv, HeldInv
    <2> QED BY <1>0, <2>1, <2>2, <2>3
<1> QED BY <1>5, <1>6, <1>8 DEF ReviewInv

\* A restart while no request is held.
LEMMA ReviewCrash ==
    ASSUME IInv, IInv', ReviewInv, drains, Crash
    PROVE  ReviewInv'
<1>1. /\ audit' = audit /\ call' = NoCall
      /\ \A id \in Ids : Latest(audit, id).status # "held"
    BY DEF Crash
<1>2. call.op # "record_approval"
    BY <1>1 DEF IInv, CallInv, TypeOK, Idle, NoCall
<1>3. HeldInv' BY <1>1 DEF HeldInv
<1>4. OwnHoldInv' BY <1>1 DEF OwnHoldInv, NoCall
<1>5. \A id \in Ids : Carried(id)' = Carried(id) BY <1>1 DEF Carried
<1>6. DoubtfulInv' BY <1>1, <1>2, <1>5, DoubtfulStays DEF ReviewInv
<1> QED BY <1>3, <1>4, <1>6 DEF ReviewInv

\* docs/servicenow_integration.md and dsar.py, approve and reject: as long as the service
\* is restarted only while no request is held, an approved request was carried out and
\* points at its own certificate, and a held or rejected one was not.
THEOREM ReviewsDoWhatTheySay == Spec => []OrderlyReviewsHold
<1>1. Init => ReviewInv
    <2> SUFFICES ASSUME Init PROVE ReviewInv OBVIOUS
    <2>1. audit = <<>> /\ call = NoCall BY DEF Init
    <2>2. \A id \in Ids : Latest(audit, id) = Unanswered /\ Carried(id) = {}
        BY <2>1 DEF Latest, Summaries, Carried
    <2> QED BY <2>1, <2>2 DEF ReviewInv, HeldInv, OwnHoldInv, DoubtfulInv, Unanswered, NoCall
<1>2. IInv /\ (drains => ReviewInv) /\ [Next]_vars => (drains => ReviewInv)'
    <2> SUFFICES ASSUME IInv, drains => ReviewInv, [Next]_vars, drains' PROVE ReviewInv'
        OBVIOUS
    <2>0. IInv' BY EveryStep
    <2>1. drains' = drains
        BY DEF Next, vars, ExecuteRevocation, ExecuteHeld, ExecuteAccess, Approve, Reject, Verify,
               RecordExecuted, RecordHeld, ExportAccess, RunApproved, RecordApproval,
               RecordRejection, Register, Plan, Consult, DirectForget, DirectHold, Crash
    <2>a. drains /\ ReviewInv BY <2>1
    <2>b. pending \in Seq(HoldType) BY DEF IInv, TypeOK
    <2>2. CASE \E id \in Ids : ExecuteRevocation(id) \/ ExecuteHeld(id) \/ ExecuteAccess(id)
        BY <2>0, <2>a, <2>2, ReviewExecute
    <2>3. CASE \E id \in Ids : Approve(id) \/ Reject(id)
        BY <2>0, <2>a, <2>3, ReviewDecide
    <2>4. CASE RecordExecuted \/ RecordHeld \/ ExportAccess
        BY <2>0, <2>a, <2>4, ReviewRecord
    <2>5. CASE RunApproved BY <2>0, <2>a, <2>5, ReviewRuns
    <2>6. CASE RecordApproval \/ RecordRejection BY <2>0, <2>a, <2>6, ReviewEnds
    <2>7. CASE Plan \/ Consult \/ \E id \in Ids : Verify(id)
        BY <2>0, <2>a, <2>7, EntryTypes, ReviewBeside DEF Plan, Consult, Verify, Aside
    <2>8. ASSUME NEW term \in DirectTerms, DirectForget(term) PROVE ReviewInv'
        <3> DEFINE e == Effect("erasure", term, NoId)
        <3>1. e \in EffectType /\ e.behalf = NoId
            BY EntryTypes, DSARAssumption DEF Effects, Effect
        <3>2. Log(e) /\ Idle /\ UNCHANGED <<pending, call>> BY <2>8 DEF DirectForget, Aside
        <3> HIDE DEF e
        <3> QED BY <2>0, <2>a, <3>1, <3>2, ReviewBeside
    <2>9. ASSUME NEW term \in DirectTerms, DirectHold(term) PROVE ReviewInv'
        <3> DEFINE h == HoldOf("erasure", term, NoId)
        <3>1. h \in HoldType BY DSARAssumption DEF HoldOf, HoldType
        <3>2. Log(Note("revocation_held")) /\ Idle /\ pending' = Append(pending, h) /\ call' = call
            BY <2>9 DEF DirectHold, Aside
        <3> HIDE DEF h
        <3>3. \A n \in DOMAIN pending : n \in DOMAIN pending' /\ pending'[n] = pending[n]
            BY <2>b, <3>1, <3>2
        <3> QED BY <2>0, <2>a, <3>2, <3>3, EntryTypes, ReviewBeside
    <2>10. CASE Crash BY <2>0, <2>a, <2>10, ReviewCrash
    <2>11. CASE UNCHANGED vars
        <3>1. UNCHANGED <<audit, pending, call>> BY <2>11 DEF vars
        <3> QED BY <2>a, <3>1 DEF ReviewInv, HeldInv, OwnHoldInv, DoubtfulInv, UnderReview, Carried
    <2> QED BY <2>2, <2>3, <2>4, <2>5, <2>6, <2>7, <2>8, <2>9, <2>10, <2>11 DEF Next
<1>3. IInv /\ [Next]_vars => IInv' BY EveryStep
<1>4. (drains => ReviewInv) => OrderlyReviewsHold
    BY DEF ReviewInv, HeldInv, DoubtfulInv, OrderlyReviewsHold, ApprovedRan, HeldDidNotRun
<1> QED BY <1>1, <1>2, <1>3, <1>4, InitInv, PTL DEF Spec

-----------------------------------------------------------------------------
(* Executions, restarted at any point. *)

\* What keeps a request from being carried out twice, as long as no call for it is
\* interrupted: it is carried out while it is unanswered or through its one hold.
Once(id) ==
    /\ \A j, k \in Carried(id) : j = k
    /\ Latest(audit, id).status = "none" /\ ~ (call.op = "record" /\ call.id = id) =>
           Carried(id) = {}
    /\ \A n \in DOMAIN pending : pending[n].owner = id =>
           /\ Latest(audit, id).status # "none" \/ (call.op = "record_hold" /\ call.id = id)
           /\ \A m \in DOMAIN pending : pending[m].owner = id => m = n
           /\ pending[n].status = "pending" => Carried(id) = {}
    /\ call.op = "run_approved" /\ call.hold.owner = id =>
           /\ Carried(id) = {} /\ Latest(audit, id).status # "none"
           /\ \A n \in DOMAIN pending : pending[n].owner = id => pending[n].status # "pending"

\* A step that carries out nothing for a request, queues nothing for it, and takes no
\* call of its own off its way.
LEMMA OnceStays ==
    ASSUME NEW id \in Ids, Once(id), Carried(id)' = Carried(id),
           Latest(audit', id).status = "none" => Latest(audit, id).status = "none",
           \A n \in DOMAIN pending' : pending'[n].owner = id =>
              /\ n \in DOMAIN pending /\ pending[n].owner = id
              /\ pending'[n].status = "pending" => pending[n].status = "pending",
           Latest(audit', id).status = "none" /\ call.id = id =>
              /\ call.op = "record" => call'.op = "record" /\ call'.id = id
              /\ call.op = "record_hold" => call'.op = "record_hold" /\ call'.id = id,
           call'.op = "run_approved" /\ call'.hold.owner = id => call' = call
    PROVE  Once(id)'
<1>1. \A j, k \in Carried(id)' : j = k BY DEF Once
<1>2. Latest(audit', id).status = "none" /\ ~ (call'.op = "record" /\ call'.id = id) =>
          Carried(id)' = {}
    BY DEF Once
<1>3. ASSUME NEW n \in DOMAIN pending', pending'[n].owner = id
      PROVE  /\ Latest(audit', id).status # "none" \/ (call'.op = "record_hold" /\ call'.id = id)
             /\ \A m \in DOMAIN pending' : pending'[m].owner = id => m = n
             /\ pending'[n].status = "pending" => Carried(id)' = {}
    <2>1. n \in DOMAIN pending /\ pending[n].owner = id BY <1>3
    <2>2. /\ Latest(audit, id).status # "none" \/ (call.op = "record_hold" /\ call.id = id)
          /\ \A m \in DOMAIN pending : pending[m].owner = id => m = n
          /\ pending[n].status = "pending" => Carried(id) = {}
        BY <2>1 DEF Once
    <2> QED BY <1>3, <2>2
<1>4. call'.op = "run_approved" /\ call'.hold.owner = id =>
          /\ Carried(id)' = {} /\ Latest(audit', id).status # "none"
          /\ \A n \in DOMAIN pending' : pending'[n].owner = id => pending'[n].status # "pending"
    BY DEF Once
<1> QED BY <1>1, <1>2, <1>3, <1>4 DEF Once

\* An answered request stays answered.
LEMMA AnsweredStays ==
    ASSUME IInv, IInv', AnswerChange
    PROVE  \A id \in Ids : Latest(audit', id).status = "none" => Latest(audit, id).status = "none"
BY DEF AnswerChange

\* execute() of a request.
LEMMA OnceExecute ==
    ASSUME IInv, IInv', AnswerChange, NEW id \in Ids, Once(id), NEW other \in Ids,
           ExecuteRevocation(other) \/ ExecuteHeld(other) \/ ExecuteAccess(other)
    PROVE  Once(id)'
<1>0. /\ call.op = "idle" /\ Latest(audit, other).status = "none"
      /\ Latest(audit', id).status = "none" => Latest(audit, id).status = "none"
    BY KnownIsLatest, StatusTells, AnsweredStays
       DEF Idle, NoCall, ExecuteRevocation, ExecuteHeld, ExecuteAccess
<1>a. pending \in Seq(HoldType) BY DEF IInv, TypeOK
<1>1. CASE ExecuteRevocation(other)
    <2> DEFINE e == Effect(Direct(KindOf[other]), TermOf[other], other)
    <2>1. e \in EffectType /\ e.behalf = other
        BY EntryTypes, DSARAssumption DEF Direct, Effects, Effect
    <2>2. /\ Log(e) /\ pending' = pending
          /\ call' = [op |-> "record", id |-> other, before |-> CertificatesIn(audit)]
        BY <1>1 DEF ExecuteRevocation
    <2> HIDE DEF e
    <2>3. ~ IsSummaryOf(e, id) /\ (IsEffectFor(e, id) <=> id = other) BY <2>1, EntryKinds
    <2>4. Latest(audit', id) = Latest(audit, id)
          /\ Carried(id)' = Carried(id) \cup (IF id = other THEN {Len(audit')} ELSE {})
        BY <2>2, <2>3, TrailAfter
    <2>5. CASE id # other BY <1>0, <2>2, <2>4, <2>5, OnceStays
    <2>6. CASE id = other
        <3>1. Carried(id) = {} /\ \A n \in DOMAIN pending : pending[n].owner # id
            BY <1>0, <2>6 DEF Once
        <3> QED BY <2>2, <2>4, <2>6, <3>1 DEF Once
    <2> QED BY <2>5, <2>6
<1>2. CASE ExecuteHeld(other)
    <2> DEFINE h == HoldOf(KindOf[other], TermOf[other], other)
    <2>1. /\ Log(Note("revocation_held")) /\ pending' = Append(pending, h)
          /\ other \in Suspicious /\ call' = [op |-> "record_hold", id |-> other]
        BY <1>2 DEF ExecuteHeld
    <2>2. h \in HoldType /\ h.owner = other
        BY <2>1, DSARAssumption DEF HoldOf, HoldType
    <2> HIDE DEF h
    <2>3. Latest(audit', id) = Latest(audit, id) /\ Carried(id)' = Carried(id)
        BY <2>1, EntryTypes, NothingSaid
    <2>4. /\ DOMAIN pending' = DOMAIN pending \cup {Len(pending')}
          /\ pending'[Len(pending')] = h
          /\ \A n \in DOMAIN pending : pending'[n] = pending[n]
        BY <1>a, <2>1, <2>2
    <2>5. CASE id # other
        <3>1. \A n \in DOMAIN pending' : pending'[n].owner = id =>
                 n \in DOMAIN pending /\ pending'[n] = pending[n]
            BY <2>2, <2>4, <2>5
        <3> QED BY <1>0, <2>1, <2>3, <3>1, OnceStays
    <2>6. CASE id = other
        <3>1. Carried(id) = {} /\ \A n \in DOMAIN pending : pending[n].owner # id
            BY <1>0, <2>6 DEF Once
        <3>2. \A n \in DOMAIN pending' : pending'[n].owner = id => n = Len(pending')
            BY <2>4, <3>1
        <3> QED BY <2>1, <2>3, <2>6, <3>1, <3>2 DEF Once
    <2> QED BY <2>5, <2>6
<1>3. CASE ExecuteAccess(other)
    <2> DEFINE s == Summary("dsar_execute", other, "executed", None, None)
    <2>1. Log(s) /\ pending' = pending /\ call' = [op |-> "export", id |-> other]
        BY <1>3 DEF ExecuteAccess
    <2>2. ~ IsEffectFor(s, id) BY EntryKinds DEF RegistryActions
    <2> HIDE DEF s
    <2>3. Carried(id)' = Carried(id) BY <2>1, <2>2, TrailAfter
    <2> QED BY <1>0, <2>1, <2>3, OnceStays
<1> QED BY <1>1, <1>2, <1>3

\* The answer is recorded, and the call is over.
LEMMA OnceRecorded ==
    ASSUME IInv, IInv', AnswerChange, NEW id \in Ids, Once(id),
           \/ RecordExecuted \/ RecordHeld \/ ExportAccess
           \/ RecordApproval \/ RecordRejection
    PROVE  Once(id)'
<1>0. /\ call' = NoCall /\ pending' = pending
      /\ Latest(audit', id).status = "none" => Latest(audit, id).status = "none"
    BY AnsweredStays DEF RecordExecuted, RecordHeld, ExportAccess, RecordApproval,
       RecordRejection, Register
<1>1. PICK e : Log(e) /\ ~ IsEffectFor(e, id) /\ (call.op \in {"record", "record_hold"} /\ call.id = id =>
                                                     IsSummaryOf(e, id) /\ e.status # "none")
    <2>0. call.id \in Ids
        BY DEF IInv, TypeOK, Idle, NoCall, RecordExecuted, RecordHeld, ExportAccess,
               RecordApproval, RecordRejection
    <2>1. CASE ExportAccess
        <3>1. Log(Note("access_export")) /\ call.op = "export" BY <2>1 DEF ExportAccess
        <3>2. ~ IsEffectFor(Note("access_export"), id) BY EntryTypes, EntryKinds
        <3> QED BY <3>1, <3>2
    <2>2. ASSUME NEW action \in RegistryActions, NEW status \in Statuses, NEW c, NEW n,
                 Log(Summary(action, call.id, status, c, n))
          PROVE  \E e : Log(e) /\ ~ IsEffectFor(e, id) /\ (call.op \in {"record", "record_hold"} /\ call.id = id =>
                                                     IsSummaryOf(e, id) /\ e.status # "none")
        <3> DEFINE s == Summary(action, call.id, status, c, n)
        <3>1. ~ IsEffectFor(s, id) /\ (IsSummaryOf(s, id) <=> call.id = id)
            BY <2>0, EntryKinds
        <3>2. s.status = status /\ status # "none" BY DEF Summary, Statuses
        <3>3. Log(s) BY <2>2
        <3> HIDE DEF s
        <3> QED BY <3>1, <3>2, <3>3
    <2>3. "dsar_execute" \in RegistryActions /\ "dsar_approve" \in RegistryActions
          /\ "dsar_reject" \in RegistryActions
        BY DEF RegistryActions
    <2>4. "executed" \in Statuses /\ "held" \in Statuses /\ "approved" \in Statuses /\ "rejected" \in Statuses
        BY DEF Statuses
    <2>5. CASE RecordExecuted BY <2>2, <2>3, <2>4, <2>5 DEF RecordExecuted, Register
    <2>6. CASE RecordHeld BY <2>2, <2>3, <2>4, <2>6 DEF RecordHeld, Register
    <2>7. CASE RecordApproval BY <2>2, <2>3, <2>4, <2>7 DEF RecordApproval, Register
    <2>8. CASE RecordRejection BY <2>2, <2>3, <2>4, <2>8 DEF RecordRejection, Register
    <2> QED BY <2>1, <2>5, <2>6, <2>7, <2>8
<1>2. Carried(id)' = Carried(id) /\ (IsSummaryOf(e, id) => Latest(audit', id) = e)
    BY <1>1, TrailAfter
<1>3. Latest(audit', id).status = "none" /\ call.id = id => call.op \notin {"record", "record_hold"}
    BY <1>1, <1>2
<1>4. call'.op = "idle" BY <1>0 DEF NoCall
<1> QED BY <1>0, <1>2, <1>3, <1>4, OnceStays

\* approve() and reject(): a hold is decided, whoever's it is.
LEMMA OnceDecide ==
    ASSUME IInv, IInv', AnswerChange, NEW id \in Ids, Once(id), NEW other \in Ids,
           Approve(other) \/ Reject(other)
    PROVE  Once(id)'
<1> DEFINE n == Known(other).pending_id
<1>0. call.op = "idle" BY DEF Approve, Reject, Idle, NoCall
<1>1. CASE UNCHANGED <<pending, audit>> /\ call'.op \in {"record_approval", "record_rejection"}
    <2>1. Carried(id)' = Carried(id) BY <1>1 DEF Carried
    <2> QED BY <1>0, <1>1, <2>1, OnceStays
<1>2. CASE StillPending(n)
    <2> HIDE DEF n
    <2>1. PICK status \in {"approved", "rejected"} :
              /\ pending' = [pending EXCEPT ![n].status = status]
              /\ \E e \in NoteType : Log(e)
              /\ \/ call'.op = "run_approved" /\ call'.hold = pending[n]
                 \/ call'.op = "record_rejection"
        <3>1. CASE Approve(other)
            <4>1. /\ pending' = [pending EXCEPT ![n].status = "approved"]
                  /\ Log(Note("revocation_approved"))
                  /\ call' = [op |-> "run_approved", id |-> other, hold |-> pending[n],
                              before |-> CertificatesIn(audit)]
                BY <1>2, <3>1 DEF Approve, n
            <4> QED BY <4>1, EntryTypes
        <3>2. CASE Reject(other)
            <4>1. /\ pending' = [pending EXCEPT ![n].status = "rejected"]
                  /\ Log(Note("revocation_rejected"))
                  /\ call' = [op |-> "record_rejection", id |-> other]
                BY <1>2, <3>2 DEF Reject, n
            <4> QED BY <4>1, EntryTypes
        <3> QED BY <3>1, <3>2
    <2>2. Latest(audit', id) = Latest(audit, id) /\ Carried(id)' = Carried(id)
        BY <2>1, NothingSaid
    <2>3. /\ n \in DOMAIN pending /\ DOMAIN pending' = DOMAIN pending
          /\ pending[n].status = "pending"
          /\ \A m \in DOMAIN pending : /\ pending'[m].owner = pending[m].owner
                                       /\ m # n => pending'[m] = pending[m]
          /\ pending'[n].status # "pending"
        <3>1. n \in DOMAIN pending /\ pending[n] \in HoldType /\ pending[n].status = "pending"
            BY <1>2 DEF StillPending, IInv, TypeOK
        <3> DEFINE h == [pending[n] EXCEPT !.status = status]
        <3>2. h.owner = pending[n].owner /\ h.status # "pending" BY <3>1 DEF HoldType
        <3>3. pending' = [pending EXCEPT ![n] = h] BY <2>1
        <3> HIDE DEF h
        <3> QED BY <3>1, <3>2, <3>3
    <2>4. CASE ~ (call'.op = "run_approved" /\ call'.hold.owner = id)
        BY <1>0, <2>2, <2>3, <2>4, OnceStays
    <2>5. CASE call'.op = "run_approved" /\ call'.hold.owner = id
        <3>1. pending[n].owner = id BY <2>1, <2>5
        <3>2. /\ Latest(audit, id).status # "none" /\ Carried(id) = {}
              /\ \A m \in DOMAIN pending : pending[m].owner = id => m = n
            BY <1>0, <2>3, <3>1 DEF Once
        <3> QED BY <2>2, <2>3, <2>5, <3>2 DEF Once
    <2> QED BY <2>4, <2>5
<1>3. CASE ~ StillPending(n)
    BY <1>1, <1>3 DEF Approve, Reject
<1> QED BY <1>2, <1>3

\* The approved hold is carried out, for the request that owns it.
LEMMA OnceRuns ==
    ASSUME IInv, IInv', AnswerChange, NEW id \in Ids, Once(id), RunApproved
    PROVE  Once(id)'
<1> DEFINE e == Effect(OnApproval(call.hold.kind), call.hold.term, call.hold.owner)
<1>0. call.op = "run_approved" /\ call.hold \in HoldType
    BY DEF RunApproved, IInv, TypeOK, Idle, NoCall
<1>1. e \in EffectType /\ e.behalf = call.hold.owner
    BY <1>0, EntryTypes DEF HoldType, OnApproval, Effects, Effect
<1>2. Log(e) /\ pending' = pending /\ call'.op = "record_approval"
    BY DEF RunApproved
<1> HIDE DEF e
<1>3. ~ IsSummaryOf(e, id) /\ (IsEffectFor(e, id) <=> id = call.hold.owner)
    BY <1>1, EntryKinds
<1>4. /\ Latest(audit', id) = Latest(audit, id)
      /\ Carried(id)' = Carried(id) \cup (IF id = call.hold.owner THEN {Len(audit')} ELSE {})
    BY <1>2, <1>3, TrailAfter
<1>5. CASE id # call.hold.owner BY <1>0, <1>2, <1>4, <1>5, OnceStays
<1>6. CASE id = call.hold.owner
    <2>1. /\ Carried(id) = {} /\ Latest(audit, id).status # "none"
          /\ \A n \in DOMAIN pending : pending[n].owner = id => pending[n].status # "pending"
        BY <1>0, <1>6 DEF Once
    <2> QED BY <1>2, <1>4, <1>6, <2>1 DEF Once
<1> QED BY <1>5, <1>6

\* Between calls: what is no answer, no effect and no hold of a request.
LEMMA OnceBeside ==
    ASSUME IInv, IInv', NEW id \in Ids, Once(id), Idle, call' = call,
           \/ audit' = audit
           \/ \E e \in NoteType : Log(e)
           \/ \E e \in EffectType : e.behalf = NoId /\ Log(e),
           \A n \in DOMAIN pending' : pending'[n].owner = id =>
              n \in DOMAIN pending /\ pending'[n] = pending[n]
    PROVE  Once(id)'
<1>1. Latest(audit', id) = Latest(audit, id) /\ Carried(id)' = Carried(id) BY NothingSaid
<1> QED BY <1>1, OnceStays

\* A call that ends early, by an exception or with the process, is not one for the request.
LEMMA OnceCut ==
    ASSUME IInv, NEW id \in Ids, Once(id), Idle \/ call.id # id, call' = NoCall,
           audit' = audit, pending' = pending \/ pending' = <<>>
    PROVE  Once(id)'
<1>1. Carried(id)' = Carried(id) BY DEF Carried
<1>2. call'.op = "idle" /\ (Idle => call.op = "idle") BY DEF NoCall, Idle
<1> QED BY <1>1, <1>2, OnceStays

\* Every step but a crash in the middle of a call for the request.
LEMMA OnceStep ==
    ASSUME IInv, NEW id \in Ids, Once(id), [Next]_vars, Crash => Idle \/ call.id # id
    PROVE  Once(id)'
<1>0. IInv' /\ AnswerChange BY EveryStep
<1>a. pending \in Seq(HoldType) BY DEF IInv, TypeOK
<1>1. CASE \E other \in Ids : ExecuteRevocation(other) \/ ExecuteHeld(other) \/ ExecuteAccess(other)
    BY <1>0, <1>1, OnceExecute
<1>2. CASE \E other \in Ids : Approve(other) \/ Reject(other) BY <1>0, <1>2, OnceDecide
<1>3. CASE \/ RecordExecuted \/ RecordHeld \/ ExportAccess
           \/ RecordApproval \/ RecordRejection
    BY <1>0, <1>3, OnceRecorded
<1>4. CASE RunApproved BY <1>0, <1>4, OnceRuns
<1>5. CASE Plan \/ Consult \/ \E other \in Ids : Verify(other)
    BY <1>0, <1>5, EntryTypes, OnceBeside DEF Plan, Consult, Verify, Aside
<1>6. ASSUME NEW term \in DirectTerms, DirectForget(term) PROVE Once(id)'
    <2> DEFINE e == Effect("erasure", term, NoId)
    <2>1. e \in EffectType /\ e.behalf = NoId
        BY EntryTypes, DSARAssumption DEF Effects, Effect
    <2>2. Log(e) /\ Idle /\ UNCHANGED <<pending, call>> BY <1>6 DEF DirectForget, Aside
    <2> HIDE DEF e
    <2> QED BY <1>0, <2>1, <2>2, OnceBeside
<1>7. ASSUME NEW term \in DirectTerms, DirectHold(term) PROVE Once(id)'
    <2> DEFINE h == HoldOf("erasure", term, NoId)
    <2>1. h \in HoldType /\ h.owner # id BY DSARAssumption DEF HoldOf, HoldType
    <2>2. Log(Note("revocation_held")) /\ Idle /\ pending' = Append(pending, h) /\ call' = call
        BY <1>7 DEF DirectHold, Aside
    <2> HIDE DEF h
    <2>3. \A n \in DOMAIN pending' : pending'[n].owner = id =>
             n \in DOMAIN pending /\ pending'[n] = pending[n]
        BY <1>a, <2>1, <2>2
    <2> QED BY <1>0, <2>2, <2>3, EntryTypes, OnceBeside
<1>8. CASE Crash BY <1>8, OnceCut DEF Crash
<1>9. CASE UNCHANGED vars
    <2>1. UNCHANGED <<audit, pending, call>> BY <1>9 DEF vars
    <2> QED BY <2>1 DEF Once, Carried
<1> QED BY <1>1, <1>2, <1>3, <1>4, <1>5, <1>6, <1>7, <1>8, <1>9 DEF Next

\* Before the first call nothing was carried out.
LEMMA OnceInit ==
    ASSUME Init, NEW id \in Ids
    PROVE  Once(id)
<1>1. audit = <<>> /\ pending = <<>> /\ call = NoCall BY DEF Init
<1>2. Carried(id) = {} BY <1>1 DEF Carried
<1> QED BY <1>1, <1>2 DEF Once, NoCall

\* An exception that leaves a call between two effects: what was done stays.
LEMMA RaiseKeeps ==
    ASSUME IInv, call' = NoCall, UNCHANGED <<audit, pending, registry, loaded, drains>>
    PROVE  IInv' /\ AnswerChange
<1>1. CallInv' BY DEF CallInv, NoCall
<1>2. TypeOK' BY DEF IInv, TypeOK, Idle
<1>3. ReplayIsTruthful' /\ \A id \in Ids : HasNewest(audit', id)
    BY DEF IInv, ReplayIsTruthful, OwnCertificate, CertificatesIn, Carried
<1> QED BY <1>1, <1>2, <1>3 DEF IInv, AnswerChange

=============================================================================
