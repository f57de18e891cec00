-------------------------- MODULE MemoryRetrieval --------------------------
(***************************************************************************)
(* What the prototype memory answers: the policy gate (policy.py), the      *)
(* scope gate (scope.py) and the two planners of retrieval.py, as operators *)
(* over a memory m, a policy p and a request. Nothing here changes state.   *)
(*                                                                         *)
(* All facts are about one candidate. A claim is <<relation, object>>, the  *)
(* text of a fact; how its words match a term or trip a scan is given by    *)
(* the constants. Scores only order and cut what is selectable, so a        *)
(* selection is the whole of it (top_k is never reached).                   *)
(***************************************************************************)
EXTENDS Integers, Sequences, FiniteSets

CONSTANTS
    TargetClient,   \* the relation whose objects are clients
    TokenHits,      \* per term, the claims whose tokens include the term's
    TextHits,       \* per term, the claims it occurs in as a word or as a part of one
    Paraphrases,    \* per term, the claims an injected semantic matcher finds
    Matcher,        \* is a matcher injected (and again after each load)
    Unsafe,         \* claims an injection or sensitive-content pattern matches
    IncludeVerbatim \* OpenConversationRetrievalPlanner(include_verbatim)

NoClient == "no client"
NoTime == 0         \* invalid_at of a fact that is still valid
AnyPurpose == "any" \* a withdrawal of consent for every purpose

Claim(item) == <<item.relation, item.object>>
\* An event's text also names the client it was attached to.
EventClaims(e) == {Claim(e)} \cup (IF e.client = NoClient THEN {} ELSE {<<TargetClient, e.client>>})

Hits(table, terms, claims) == \E t \in terms : table[t] \cap claims # {}
\* matches_do_not_use_term(): token subsets, then the matcher over the raw texts.
MatchesErased(p, claims) ==
    \/ Hits(TokenHits, p.terms, claims)
    \/ Matcher /\ Hits(Paraphrases, p.texts, claims)
ConsentRevoked(p, claims, purpose) ==
    \E w \in p.consent : Hits(TokenHits, {w[1]}, claims) /\ w[2] \in {AnyPurpose, purpose}

\* The first check that fails, in the order of the code, names the reason.
When(excluded, reason) == IF excluded THEN {reason} ELSE {}
FirstReason(checks) ==
    LET failing == {k \in DOMAIN checks : checks[k] # {}}
    IN  IF failing = {} THEN ""
        ELSE CHOOSE reason \in checks[CHOOSE k \in failing : \A j \in failing : k <= j] : TRUE

Historical(req) == req.as_of # NoTime

FactReason(m, p, id, req) ==
    LET f == m.facts[id] IN FirstReason(<<
        When(<<"fact", id>> \in p.ids, "do_not_use"),
        When(f.privacy = "deleted", "deleted"),
        When(f.privacy = "do_not_use", "do_not_use"),
        When(f.user # req.user, "wrong_user"),
        When(f.privacy = "sensitive" /\ ~ req.sensitive, "sensitive"),
        When(f.evidence \cap p.episodes # {}, "deleted_evidence"),
        When(MatchesErased(p, {Claim(f)}), "do_not_use_term"),
        When(ConsentRevoked(p, {Claim(f)}, req.purpose), "consent_revoked"),
        When(~ Historical(req) /\ f.until # NoTime, "invalidated"),
        When(Historical(req) /\ f.at > req.as_of, "not_yet_valid"),
        When(Historical(req) /\ f.until # NoTime /\ f.until <= req.as_of, "not_valid_as_of_date"),
        When(f.evidence = {}, "missing_provenance") >>)

EventReason(m, p, id, req) ==
    LET e == m.events[id] IN FirstReason(<<
        When(e.user # req.user, "wrong_user"),
        When(e.evidence = {}, "missing_provenance"),
        When(e.evidence \cap p.episodes # {}, "deleted_evidence"),
        When(MatchesErased(p, EventClaims(e)), "do_not_use_term"),
        When(ConsentRevoked(p, EventClaims(e), req.purpose), "consent_revoked"),
        When(EventClaims(e) \cap Unsafe # {}, "possible_prompt_injection"),
        When(Historical(req) /\ e.at > req.as_of, "not_yet_valid") >>)

ReflectionReason(m, p, id, req) ==
    LET r == m.reflections[id] IN FirstReason(<<
        When(~ req.reflections, "reflections_disabled"),
        When(<<"reflection", id>> \in p.ids, "do_not_use"),
        When(r.user # req.user, "wrong_user"),
        When(r.status = "invalidated", "invalidated"),
        When(r.evidence \cap p.episodes # {}, "deleted_evidence"),
        When(MatchesErased(p, {Claim(r)}), "do_not_use_term"),
        When(ConsentRevoked(p, {Claim(r)}, req.purpose), "consent_revoked"),
        When(Cardinality(r.evidence) < 2, "weak_reflection_evidence") >>)

-----------------------------------------------------------------------------
(* RetrievalPlanner: the governed path. *)

\* memory_scope_exclusion_reason(): a query about the candidate and one client.
WrongScope(item, req) ==
    req.client # NoClient /\ item.relation = TargetClient /\ item.object # req.client
Relevant(item, req) == item.relation = req.relation

EligibleFacts(m, p, req) ==
    {id \in DOMAIN m.facts :
        /\ ~ WrongScope(m.facts[id], req) /\ Relevant(m.facts[id], req)
        /\ FactReason(m, p, id, req) = ""}

ObjectsOf(m, ids) == {m.facts[id].object : id \in ids}

\* _lineage_suppress(): a value asserted by two sources outvotes those of one.
SourcesOf(m, ids, object) ==
    UNION {m.facts[id].witnesses \cup {m.facts[id].source} :
              id \in {i \in ids : m.facts[i].object = object}}
Outvoted(m, ids) ==
    LET corroborated == {o \in ObjectsOf(m, ids) : Cardinality(SourcesOf(m, ids, o)) >= 2}
    IN  IF Cardinality(corroborated) # 1 THEN {}
        ELSE {id \in ids : m.facts[id].object \notin corroborated}

\* The facts that stand after lineage mode has dropped the outvoted ones.
Standing(m, p, req) ==
    LET ids == EligibleFacts(m, p, req)
    IN  IF req.lineage THEN ids \ Outvoted(m, ids) ELSE ids

SourceConflict(m, ids) ==
    /\ Cardinality(ObjectsOf(m, ids)) > 1
    /\ \/ Cardinality({m.facts[id].source : id \in ids}) > 1
       \/ \E id \in ids : m.facts[id].contested

TargetClients(m, user) ==
    {m.facts[id].object : id \in {i \in DOMAIN m.facts :
        m.facts[i].user = user /\ m.facts[i].relation = TargetClient}}
AmbiguousIdentity(m, req) ==
    /\ req.client # NoClient /\ req.relation # TargetClient
    /\ Cardinality(TargetClients(m, req.user)) > 1
    /\ req.client \in TargetClients(m, req.user)

\* Something about another client was turned away.
OtherClientSeen(m, req) ==
    /\ req.client # NoClient
    /\ \/ \E id \in DOMAIN m.facts : WrongScope(m.facts[id], req)
       \/ \E id \in DOMAIN m.events : /\ m.events[id].user = req.user
                                      /\ m.events[id].client \notin {NoClient, req.client}

SafetyAbstains(m, p, req, ids) ==
    \/ req.compliance /\ req.user \in m.unresolved
    \/ /\ ids # {}
       /\ \/ \E id \in ids : Claim(m.facts[id]) \in Unsafe
          \/ SourceConflict(m, ids)
          \/ AmbiguousIdentity(m, req)
          \/ OtherClientSeen(m, req)

\* _event_memories_for_request(): only a query about a candidate and a client uses events.
MatchingEvents(m, p, req) ==
    {id \in DOMAIN m.events :
        /\ req.client # NoClient /\ m.events[id].client = req.client
        /\ Relevant(m.events[id], req)
        /\ EventReason(m, p, id, req) = ""}
LatestEvent(m, ids) ==
    CHOOSE id \in ids : \A i \in ids :
        \/ m.events[i].at < m.events[id].at
        \/ m.events[i].at = m.events[id].at /\ id <= i

EligibleReflections(m, p, req) ==
    {id \in DOMAIN m.reflections :
        Relevant(m.reflections[id], req) /\ ReflectionReason(m, p, id, req) = ""}

\* retrieve(): what is selected, as pairs of a kind and an id.
Selected(m, p, req) ==
    LET events == MatchingEvents(m, p, req)
        facts == IF events = {} THEN Standing(m, p, req) ELSE {}
    IN  IF SafetyAbstains(m, p, req, facts) THEN {}
        ELSE IF events # {} THEN {<<"event", LatestEvent(m, events)>>}
        ELSE {<<"fact", id>> : id \in facts}
             \cup {<<"reflection", id>> : id \in EligibleReflections(m, p, req)}

-----------------------------------------------------------------------------
(* OpenConversationRetrievalPlanner: the open-conversation path. *)

HardReasons == {"deleted", "do_not_use", "deleted_evidence", "do_not_use_term", "sensitive",
                "wrong_project"}

\* _collect_candidates(): everything of the user that no hard reason excludes.
Pool(m, p, req) ==
    {<<"fact", id>> : id \in {i \in DOMAIN m.facts :
        m.facts[i].user = req.user /\ FactReason(m, p, i, req) \notin HardReasons}}
    \cup {<<"event", id>> : id \in {i \in DOMAIN m.events :
        m.events[i].user = req.user /\ EventReason(m, p, i, req) \notin HardReasons}}
    \cup {<<"reflection", id>> : id \in {i \in DOMAIN m.reflections :
        m.reflections[i].user = req.user /\ ReflectionReason(m, p, i, req) \notin HardReasons}}
    \cup (IF IncludeVerbatim
          THEN {<<"episode", e>> : e \in {d \in DOMAIN m.episodes : m.episodes[d].user = req.user}}
          ELSE {})
=============================================================================
