--------------------------- MODULE Consolidation ---------------------------
(***************************************************************************)
(* SleepCycle and its review queue over the prototype memory (reflection.py, *)
(* review.py): a dry run proposes reflections, a reviewer's policy decides   *)
(* on them, and what was approved is added to the store. The memory changes  *)
(* between any two of these steps as MemoryStack says.                       *)
(*                                                                         *)
(* All facts of a user are about one candidate. The claim of a proposed      *)
(* reflection names the relations it is about, never a value.                *)
(***************************************************************************)
EXTENDS MemoryStack

CONSTANT MinEvidence    \* min_evidence

VARIABLES
    run,        \* the decisions of the last ConsolidationRun
    items,      \* those in its review queue
    approved,   \* those a reviewer approved
    planned,    \* what was in dispute and what was withdrawn at the plan (ghost)
    made        \* reflections made so far

sleepVars == <<run, items, approved, planned, made>>
allVars == <<vars, sleepVars>>

ASSUME SleepAssumption == MinEvidence \in Nat /\ MinEvidence >= 2

-----------------------------------------------------------------------------
(* SleepCycle.plan() *)

FactScope(f) ==
    [user |-> f.user, client |-> IF f.relation = TargetClient THEN f.object ELSE NoClient]
EventScope(e) == [user |-> e.user, client |-> e.client]

\* _consolidation_exclusion_reason()
Exclusion(m, p, id) ==
    LET f == m.facts[id]
    IN  FirstReason(<<
            When(<<"fact", id>> \in p.ids, "do_not_use"),
            When(f.evidence \cap p.episodes # {}, "deleted_evidence"),
            When(MatchesErased(p, {Claim(f)}), "do_not_use_term"),
            When(Claim(f) \in InjectionClaims, "possible_prompt_injection"),
            When(f.privacy = "sensitive" \/ Claim(f) \in Unsafe, "sensitive_requires_review"),
            When(f.evidence = {}, "missing_provenance") >>)

FactsOf(m, who) == {id \in DOMAIN m.facts : m.facts[id].user \in who}
ActiveFacts(m, who) == {id \in FactsOf(m, who) : Active(m.facts[id])}
SafeFacts(m, p, who) == {id \in ActiveFacts(m, who) : Exclusion(m, p, id) = ""}
RelationsOf(m, ids) == {m.facts[id].relation : id \in ids}

\* A decision that proposes nothing. _stable_id() gives equal decisions one id.
Note(action, reason, scope, evidence, review) ==
    [action |-> action, reason |-> reason, scope |-> scope, relations |-> {},
     evidence |-> evidence, counter |-> {}, review |-> review, mixed |-> FALSE]
Proposal(action, reason, scope, relations, evidence, counter, mixed) ==
    [action |-> action, reason |-> reason, scope |-> scope, relations |-> relations,
     evidence |-> evidence, counter |-> counter, review |-> counter # {}, mixed |-> mixed]
Proposes(d) == d.relations # {}

\* _safe_active_facts(): what is left out, and why.
Rejected(m, p, who) ==
    {Note("no_op", Exclusion(m, p, id), FactScope(m.facts[id]), m.facts[id].evidence,
          Exclusion(m, p, id) \in {"sensitive_requires_review", "possible_prompt_injection"}) :
        id \in ActiveFacts(m, who) \ SafeFacts(m, p, who)}

\* _contradiction_decisions()
Contradictions(m, p, who) ==
    LET safe == SafeFacts(m, p, who)
        kin(id) == {i \in safe : /\ FactScope(m.facts[i]) = FactScope(m.facts[id])
                                 /\ m.facts[i].relation = m.facts[id].relation}
    IN  {Note("flag_conflict", "conflicting_evidence", FactScope(m.facts[id]),
              EvidenceOf(m, kin(id)), TRUE) :
            id \in {i \in safe : \/ Cardinality(ObjectsOf(m, kin(i))) > 1
                                 \/ \E j \in kin(i) : m.facts[j].contested}}

\* The claim that a reflection about these relations makes.
ReflectionClaim(relations) ==
    <<IF Cardinality(relations) = 1 THEN CHOOSE r \in relations : TRUE ELSE "profile", "context">>
\* update_reflection also adds a reflection when it is applied.
ReflectionAction(m, relations) ==
    IF \E id \in DOMAIN m.reflections : Claim(m.reflections[id]) = ReflectionClaim(relations)
    THEN "update_reflection" ELSE "create_reflection"

\* _reflection_decisions(): one per scope, against what is no longer valid in it.
Recurring(m, p, who) ==
    LET safe == SafeFacts(m, p, who)
        within(ids, scope) == {id \in ids : FactScope(m.facts[id]) = scope}
        past == {id \in FactsOf(m, who) : m.facts[id].until # NoTime}
        decision(scope) ==
            LET ids == within(safe, scope)
                evidence == EvidenceOf(m, ids)
            IN  IF Cardinality(evidence) < MinEvidence
                THEN Note("no_op", "insufficient_evidence", scope, evidence, FALSE)
                ELSE Proposal(ReflectionAction(m, RelationsOf(m, ids)), "repeated_evidence", scope,
                              RelationsOf(m, ids), evidence, EvidenceOf(m, within(past, scope)), FALSE)
    IN  {decision(scope) : scope \in {FactScope(m.facts[id]) : id \in safe}}

\* _decay_decisions(): reported only.
Decays(m, who) ==
    {Note("decay", "stale_or_superseded", FactScope(m.facts[id]), m.facts[id].evidence, FALSE) :
        id \in {i \in FactsOf(m, who) : /\ m.facts[i].until # NoTime
                                        /\ m.facts[i].privacy \notin {"deleted", "do_not_use"}}}

EventEvidence(m, ids) == UNION {m.events[id].evidence : id \in ids}

\* _event_decisions(): no look at the policy.
RecurringEvents(m, who) ==
    LET usable == {id \in DOMAIN m.events : /\ m.events[id].user \in who
                                            /\ EventClaims(m.events[id]) \cap InjectionClaims = {}}
        kin(id) == {i \in usable : /\ EventScope(m.events[i]) = EventScope(m.events[id])
                                   /\ m.events[i].type = m.events[id].type
                                   /\ m.events[i].relation = m.events[id].relation}
    IN  {Proposal("create_reflection", "repeated_event_evidence", EventScope(m.events[id]),
                  {m.events[id].relation}, EventEvidence(m, kin(id)), {},
                  m.events[id].client # NoClient) :
            id \in {i \in usable : Cardinality(EventEvidence(m, kin(i))) >= MinEvidence}}

PlanOf(m, p, who) ==
    Rejected(m, p, who) \cup Contradictions(m, p, who) \cup Recurring(m, p, who)
    \cup Decays(m, who) \cup RecurringEvents(m, who)

-----------------------------------------------------------------------------
(* review.py *)

HighRiskReasons == {"sensitive_requires_review", "possible_prompt_injection",
                    "conflicting_evidence", "deleted_evidence", "do_not_use", "do_not_use_term"}

\* classify_review_risk()
Risk(d) ==
    IF d.review \/ d.counter # {} \/ d.reason \in HighRiskReasons THEN "high"
    ELSE IF d.action \in {"decay", "flag_conflict", "no_op"} \/ d.mixed THEN "medium" ELSE "low"

\* _scope_overlaps_conflict(): the same client, or the same candidate.
Overlaps(d, e) == d.scope.user = e.scope.user
\* (Its mutant stands before it.)
InConflictProposals(d) ==
    \E e \in items \ {d} : Proposes(e) /\ Risk(e) = "high" /\ Overlaps(d, e)
InConflict(d) == \E e \in items \ {d} : Risk(e) = "high" /\ Overlaps(d, e)

\* _uses_stale_or_superseded_evidence()
Stale(m, evidence) == \E id \in DOMAIN m.facts :
    m.facts[id].evidence \cap evidence # {} /\ m.facts[id].until # NoTime

\* _approval_blocker(), asked with a controller: what it knows is what is true now.
Unblocked(d) ==
    /\ d.action \in {"create_reflection", "update_reflection"}
    /\ ~ InConflict(d)
    /\ Cardinality(d.evidence) >= 2
    /\ ~ Stale(memory, d.evidence)
    /\ d.evidence \cap policy.episodes = {}
    /\ ~ MatchesErased(policy, {ReflectionClaim(d.relations)})

\* _simulate_item_decision()
Approves(reviewer, d) ==
    /\ reviewer # "reject_all"
    /\ Risk(d) # "high" /\ Unblocked(d)
    /\ reviewer = "approve_low_risk_only" => Risk(d) = "low"

-----------------------------------------------------------------------------
(* The steps. *)

\* (ghost) Users with two values of one relation that are both active.
Disputed(m) ==
    {m.facts[i].user : i \in {j \in DOMAIN m.facts :
        /\ Active(m.facts[j]) /\ m.facts[j].relation # TargetClient
        /\ \E k \in DOMAIN m.facts :
              /\ Active(m.facts[k]) /\ m.facts[k].user = m.facts[j].user
              /\ m.facts[k].relation = m.facts[j].relation
              /\ m.facts[k].object # m.facts[j].object}}
WithdrawnEvidence(m) ==
    EvidenceOf(m, {id \in DOMAIN m.facts : m.facts[id].privacy \in {"deleted", "do_not_use"}})

\* review_queue(): a dry run for one user or for all, and its queue.
ReviewQueue ==
    \E who \in {{user} : user \in Users} \cup {Users}, mode \in {"review_required", "all"} :
        /\ world.plans /\ Commanded
        /\ run' = PlanOf(memory, policy, who)
        /\ items' = {d \in run' : mode = "all" \/ d.review}
        /\ approved' = {}
        /\ planned' = [disputed |-> Disputed(memory), withdrawn |-> WithdrawnEvidence(memory)]
        /\ UNCHANGED <<world, memory, policy, pending, file, born, saves, seen, orderly,
                       withdrawn, made>>

\* simulate_review(): every item is decided anew.
SimulateReview(reviewer) ==
    /\ items # {}
    /\ approved' = {d \in items : Approves(reviewer, d)}
    /\ UNCHANGED <<vars, run, items, planned, made>>

\* apply_approved_review_decisions_to_evaluation_copy(): nothing is checked again.
ReflectionOf(d) ==
    [user |-> d.scope.user, relation |-> ReflectionClaim(d.relations)[1], object |-> "context",
     evidence |-> d.evidence, status |-> "hypothesis"]
ApplyApproved ==
    LET added == SetToSeq({ReflectionOf(d) : d \in {e \in approved : Proposes(e)}})
    IN  /\ added # <<>> /\ Commanded
        /\ memory' = [memory EXCEPT !.reflections =
               [id \in DOMAIN @ \cup (made + 1 .. made + Len(added)) |->
                   IF id > made THEN added[id - made] ELSE @[id]]]
        /\ made' = made + Len(added)
        /\ UNCHANGED <<world, policy, pending, file, born, saves, seen, orderly, withdrawn,
                       run, items, approved, planned>>

NoPlan == [disputed |-> {}, withdrawn |-> {}]

SleepInit ==
    Init /\ run = {} /\ items = {} /\ approved = {} /\ planned = NoPlan /\ made = 0

\* A run and its queue are gone with the process.
SleepCrash ==
    /\ CrashInSave
    /\ run' = {} /\ items' = {} /\ approved' = {} /\ planned' = NoPlan /\ UNCHANGED made

SleepNext ==
    \/ Operation /\ UNCHANGED sleepVars
    \/ SleepCrash
    \/ ReviewQueue
    \/ \E reviewer \in {"approve_safe", "reject_all", "approve_low_risk_only"} :
           SimulateReview(reviewer)
    \/ ApplyApproved

SleepSpec == SleepInit /\ [][SleepNext]_allVars

-----------------------------------------------------------------------------
(* Properties. *)

\* review.py rejects what overlaps an open conflict ("scope_has_review_required_conflict"):
\* no simulated reviewer approves anything about a user whose facts were in dispute
\* at the plan, whichever of them the plan left out, and why.
DisputedNeverApproved == \A d \in approved : d.scope.user \notin planned.disputed

\* docs/core_invariants.md: "SleepCycle ignores deleted, do-not-use and
\* prompt-injection-like evidence."
PlanIgnoresWithdrawn == \A d \in run : Proposes(d) => d.evidence \cap planned.withdrawn = {}
=============================================================================
