---------------------------- MODULE MemoryStack ----------------------------
(***************************************************************************)
(* The prototype memory: MemoryController over an InMemoryStore and a       *)
(* PolicyStore (controller.py, store.py, policy.py, source.py, safety.py,   *)
(* reference.py) with JSONL snapshots (persistence.py). MemoryRetrieval     *)
(* says what is answered from it.                                          *)
(*                                                                         *)
(* memory is the store, policy the policy store, file the snapshot on disk. *)
(* Facts and the events made of them have one number; numbers are never     *)
(* used again. An episode is in the input that it came with.                *)
(***************************************************************************)
EXTENDS MemoryRetrieval, SequencesExt

CONSTANTS
    Users, Terms,
    Worlds,         \* per behaviour: inputs, who revokes what, legal holds, whether
                    \* there are dry runs, bounds
    Contextual,     \* relations whose events belong to the client of the day
    InjectionClaims, \* claims an injection pattern matches; Unsafe has them too
    TermFor,        \* the term a policy command about "that ..." resolves to, per claim
    Requests,       \* the requests whose answers the properties are about
    HoldUntrusted,  \* hold_untrusted_revocations
    SensitiveChannels, \* enforce_channel_sensitivity
    Now,            \* the time on the clock, after that of every input
    MaxFacts        \* bound, of any behaviour

Inputs == UNION {w.inputs : w \in Worlds}
Relations == {c.relation : c \in Inputs}
Objects == {c.object : c \in Inputs}
Evidence == UNION {c.evidence : c \in Inputs}
SourceTypes == {"system_policy", "candidate_statement", "client_statement", "recruiter_note",
                "tool_record", "crm_record", "user_statement", "unknown"}

\* The records of models.py, in the fields that decide something.
Episode == [user : Users, claim : Relations \X Objects]
TemporalFact ==
    [user : Users, relation : Relations, object : Objects, source : SourceTypes, rank : 1 .. 4,
     at : Nat, until : Nat, privacy : {"normal", "sensitive", "deleted", "do_not_use"},
     evidence : SUBSET Evidence, contested : BOOLEAN, by : Nat, witnesses : SUBSET SourceTypes]
MemoryEvent ==
    [user : Users, relation : Relations, object : Objects, at : Nat,
     client : Objects \cup {NoClient}, evidence : SUBSET Evidence,
     type : {"inferred_assumption", "applies_to_client", "expressed_preference"}]
Reflection ==
    [user : Users, relation : Relations \cup {"profile"}, object : {"context"}, evidence : SUBSET Evidence,
     status : {"hypothesis", "accepted", "invalidated"}]
RetrievalRequest ==
    [user : Users, relation : Relations, client : Objects \cup {NoClient}, as_of : Nat,
     sensitive : BOOLEAN, reflections : BOOLEAN, lineage : BOOLEAN, compliance : BOOLEAN,
     purpose : STRING]

ASSUME StackAssumption ==
    /\ InjectionClaims \subseteq Unsafe
    /\ Requests \subseteq RetrievalRequest
    /\ Now \in Nat \ {0} /\ MaxFacts \in Nat
    /\ \A t \in Terms : TokenHits[t] \subseteq TextHits[t]
    /\ \A claim \in DOMAIN TermFor : TermFor[claim] \in Terms
    /\ \A w \in Worlds : /\ w.terms \subseteq Terms
                         /\ w.facts \in Nat /\ w.commands \in Nat /\ w.saves \in Nat
    \* Every extractor names the episode as evidence, and none proposes as "human".
    /\ \A c \in Inputs :
          /\ {"user", "relation", "object", "source", "at", "restricted", "evidence",
           "human", "action", "consent"} \subseteq DOMAIN c
          /\ c.user \in Users /\ c.at \in 1 .. Now
          /\ c.human => c.evidence # {}
          /\ c.action # "store" => c.term \in Terms \cup {"that"}

VARIABLES
    world,
    memory,     \* [facts, events, reflections, quarantined, episodes, unresolved]
    policy,     \* [episodes, ids, terms, texts, consent, holds]
    pending,    \* pending_revocations
    file,       \* the snapshot, NoFile before the first save
    born,       \* facts made so far
    commands, saves,    \* bounded counters
    seen,       \* inputs applied so far (ghost)
    orderly,    \* everything came in the order of its dates (ghost)
    withdrawn   \* facts that a forget or a do-not-use request reached, and the
                \* episodes of those forgotten (ghost)

vars == <<world, memory, policy, pending, file, born, commands, saves, seen, orderly, withdrawn>>

NoFile == <<>>   \* file is NoFile or holds one snapshot
NoFact == 0
Nobody == {}

-----------------------------------------------------------------------------
(* source.py: who says it, and whose word stands. *)

SourceMetadata(source) ==
    CASE source \in {"policy", "system_policy"} -> [type |-> "system_policy", rank |-> 4]
      [] source = "candidate"      -> [type |-> "candidate_statement", rank |-> 3]
      [] source = "client"         -> [type |-> "client_statement", rank |-> 3]
      [] source = "recruiter_note" -> [type |-> "recruiter_note", rank |-> 1]
      [] source = "verified_tool"  -> [type |-> "tool_record", rank |-> 4]
      [] source = "crm"            -> [type |-> "crm_record", rank |-> 2]
      [] source = "tool"           -> [type |-> "tool_record", rank |-> 3]
      [] source \in {"chat", "user"} -> [type |-> "user_statement", rank |-> 2]
      [] OTHER                     -> [type |-> "unknown", rank |-> 2]

Direct == {"candidate_statement", "client_statement", "user_statement"}
\* Facts are about a candidate: only the candidate speaks for the subject.
SubjectDirect(type) == type = "candidate_statement"

\* source_conflict_decision(), the availability override of the controller left out.
Decision(old, type, rank) ==
    IF old.source = type THEN "supersede"
    ELSE IF SubjectDirect(old.source) /\ type \in {"recruiter_note", "tool_record"} THEN "keep_existing"
    ELSE IF SubjectDirect(type) /\ old.source \in {"recruiter_note", "tool_record"} THEN "supersede"
    ELSE IF rank <= 1 /\ old.rank >= 3 THEN "keep_existing"
    ELSE IF \/ old.source = "crm_record" /\ type = "user_statement" /\ old.rank <= 2
            \/ old.rank <= 1 /\ rank >= 3 /\ type \in Direct
    THEN "supersede" ELSE "store_conflict"

-----------------------------------------------------------------------------
(* _store_candidate_as_fact() *)

Active(f) == f.until = NoTime /\ f.privacy \notin {"deleted", "do_not_use"}

\* (Mutants of a definition stand before it; no behaviour of Spec uses them.)
MatchingSameSource(c) ==
    {id \in DOMAIN memory.facts :
        /\ memory.facts[id].user = c.user /\ memory.facts[id].relation = c.relation
        /\ Active(memory.facts[id])
        /\ memory.facts[id].source = SourceMetadata(c.source).type}

\* matching_active_facts()
MatchingActive(c) ==
    {id \in DOMAIN memory.facts :
        /\ memory.facts[id].user = c.user /\ memory.facts[id].relation = c.relation
        /\ Active(memory.facts[id])}

\* The order in which matching_active_facts() hands them to the loop.
Precedes(i, j) ==
    \/ memory.facts[i].at < memory.facts[j].at
    \/ memory.facts[i].at = memory.facts[j].at /\ i < j

Merged(old, c) ==
    LET new == SourceMetadata(c.source)
        stronger == new.rank > old.rank
    IN  [old EXCEPT !.evidence = @ \cup c.evidence, !.witnesses = @ \cup {new.type},
                    !.source = IF stronger THEN new.type ELSE @,
                    !.rank = IF stronger THEN new.rank ELSE @]

Verdict(old, c) ==
    LET new == SourceMetadata(c.source)
    IN  IF old.object = c.object THEN "merge"
        ELSE IF c.at < old.at THEN "came_before"
        ELSE Decision(old, new.type, new.rank)

MeetOpen(old, c) == IF Verdict(old, c) = "merge" THEN Merged(old, c) ELSE old
Meet(old, c) ==
    LET verdict == Verdict(old, c)
    IN  CASE verdict = "merge"          -> Merged(old, c)
          [] verdict = "store_conflict" -> [old EXCEPT !.contested = TRUE]
          [] verdict = "supersede"      -> [old EXCEPT !.until = c.at]
          [] OTHER                      -> old

\* The loop ends with the first fact that the candidate is merged into or dropped for.
Ends(old, c) == Verdict(old, c) \in {"merge", "keep_existing"}
Visited(c) ==
    LET matching == MatchingActive(c)
    IN  {id \in matching : \A i \in matching : Precedes(i, id) => ~ Ends(memory.facts[i], c)}

\* What the loop leaves behind for the new fact, if there is to be one.
Met(c) ==
    LET visited == Visited(c)
        those(verdict) == {id \in visited : Verdict(memory.facts[id], c) = verdict}
        later == {memory.facts[id].at : id \in those("came_before")}
    IN  [facts |-> [id \in DOMAIN memory.facts |->
                       IF id \in visited THEN Meet(memory.facts[id], c) ELSE memory.facts[id]],
         done |-> \E id \in visited : Ends(memory.facts[id], c),
         until |-> IF later = {} THEN NoTime ELSE Min(later),
         contested |-> those("store_conflict") # {},
         superseded |-> those("supersede")]

NewFact(c, met) ==
    [user |-> c.user, relation |-> c.relation, object |-> c.object,
     source |-> SourceMetadata(c.source).type, rank |-> SourceMetadata(c.source).rank,
     at |-> c.at, until |-> met.until,
     privacy |-> IF c.restricted THEN "sensitive" ELSE "normal",
     evidence |-> c.evidence, contested |-> met.contested,
     by |-> NoFact, witnesses |-> {SourceMetadata(c.source).type}]

\* _store_event_for_fact(): the event of a fact, and the client of its day.
NewEvent(c) ==
    [user |-> c.user, relation |-> c.relation, object |-> c.object, at |-> c.at,
     client |-> IF c.relation = TargetClient THEN c.object ELSE NoClient,
     type |-> IF SourceMetadata(c.source).type = "recruiter_note" THEN "inferred_assumption"
              ELSE IF c.relation = TargetClient THEN "applies_to_client" ELSE "expressed_preference",
     evidence |-> c.evidence]

SameDay(e, d) == e.user = d.user /\ e.at = d.at
ClientsOfDay(events, e) == {events[i].client : i \in {j \in DOMAIN events : SameDay(events[j], e)}}
                           \ {NoClient}

\* _synchronize_candidate_client_context()
Synchronized(events, id) ==
    LET e == events[id]
        clients == ClientsOfDay(events, e)
    IN  IF e.client # NoClient
        THEN [i \in DOMAIN events |->
                IF /\ SameDay(events[i], e) /\ events[i].client = NoClient
                   /\ events[i].relation \in Contextual
                THEN [events[i] EXCEPT !.client = e.client] ELSE events[i]]
        ELSE IF e.relation \in Contextual /\ Cardinality(clients) = 1
             THEN [events EXCEPT ![id].client = CHOOSE client \in clients : TRUE]
             ELSE events

With(table, id, item) == [i \in DOMAIN table \cup {id} |-> IF i = id THEN item ELSE table[i]]

\* The memory after the candidate was stored, or absorbed by an old fact.
Stored(m, c) ==
    LET met == Met(c)
        id == born + 1
        linked == [i \in DOMAIN met.facts |->
                      IF i \in met.superseded THEN [met.facts[i] EXCEPT !.by = id] ELSE met.facts[i]]
    IN  IF met.done THEN [m EXCEPT !.facts = met.facts]
        ELSE [m EXCEPT !.facts = With(linked, id, NewFact(c, met)),
                       !.events = Synchronized(With(@, id, NewEvent(c)), id)]

StoreFact(m, c) ==
    /\ born < world.facts
    /\ memory' = Stored(m, c)
    /\ born' = IF Met(c).done THEN born ELSE born + 1
    /\ UNCHANGED <<policy, pending, withdrawn>>

-----------------------------------------------------------------------------
(* Revocations. *)

\* The facts and reflections of a user that a term occurs in.
Reached(table, term, user) ==
    {id \in DOMAIN table : table[id].user = user /\ Claim(table[id]) \in TextHits[term]}

Marked(m, term, user, privacy) ==
    [m EXCEPT !.facts = [id \in DOMAIN @ |->
                  IF id \in Reached(m.facts, term, user)
                  THEN [@[id] EXCEPT !.privacy = privacy] ELSE @[id]],
              !.reflections = [id \in DOMAIN @ |->
                  IF id \in Reached(m.reflections, term, user)
                  THEN [@[id] EXCEPT !.status = "invalidated"] ELSE @[id]]]

\* apply_deletion_term(), mark_memory_do_not_use(), mark_evidence_deleted()
Restricted(p, m, term, user, episodes) ==
    [p EXCEPT !.terms = @ \cup {term}, !.texts = @ \cup {term},
              !.ids = @ \cup {<<"fact", id>> : id \in Reached(m.facts, term, user)}
                        \cup {<<"reflection", id>> : id \in Reached(m.reflections, term, user)},
              !.episodes = @ \cup episodes]

EvidenceOf(m, ids) == UNION {m.facts[id].evidence : id \in ids}

RequestForget(m, term, user) ==
    /\ memory' = Marked(m, term, user, "deleted")
    /\ policy' = Restricted(policy, m, term, user, EvidenceOf(m, Reached(m.facts, term, user)))
    /\ withdrawn' = withdrawn \cup {<<"fact", id>> : id \in Reached(m.facts, term, user)}
                      \cup {<<"episode", e>> : e \in EvidenceOf(m, Reached(m.facts, term, user))}
    /\ UNCHANGED <<pending, born>>

RequestDoNotUse(m, term, user) ==
    /\ memory' = Marked(m, term, user, "do_not_use")
    /\ policy' = Restricted(policy, m, term, user, {})
    \* (a term that is only a part of a word does not reach the event of a fact)
    /\ withdrawn' = withdrawn \cup {<<"fact", id>> : id \in {i \in Reached(m.facts, term, user) :
                                        Claim(m.facts[i]) \in TokenHits[term]}}
    /\ UNCHANGED <<pending, born>>

-----------------------------------------------------------------------------
(* apply_candidate() *)

\* The request a "that ..." command is resolved with: a plain query of the user.
Plain(user, relation) ==
    [user |-> user, relation |-> relation, client |-> NoClient, as_of |-> NoTime,
     sensitive |-> FALSE, reflections |-> TRUE, lineage |-> FALSE, compliance |-> FALSE,
     purpose |-> AnyPurpose]

\* DeterministicReferenceResolver: the terms of all facts the policy does not exclude.
Referents(m, user) ==
    {TermFor[Claim(m.facts[id])] :
        id \in {i \in DOMAIN m.facts :
                  /\ FactReason(m, policy, i, Plain(user, m.facts[i].relation)) = ""
                  /\ Claim(m.facts[i]) \in DOMAIN TermFor}}

\* _policy_term(): an explicit term, or the only thing "that ..." can mean.
Resolved(m, c) ==
    IF c.term # "that" THEN {c.term}
    ELSE IF Cardinality(Referents(m, c.user)) = 1 THEN Referents(m, c.user) ELSE {}

QuarantineReason(c) ==
    IF Claim(c) \in InjectionClaims THEN "possible_prompt_injection"
    ELSE IF (Claim(c) \in Unsafe \/ c.restricted) /\ c.consent # "explicit"
         THEN "sensitive_without_consent"
    ELSE IF SensitiveChannels /\ c.source = "recruiter_note" /\ c.consent # "explicit"
         THEN "sensitive_channel"
    ELSE ""

\* PolicyStore.evaluate_candidate() answers with the recommended action.
Allowed(c) ==
    /\ c.confident /\ (c.evidence # {} \/ c.human)
    /\ c.consent # "none"
    /\ ~ c.restricted \/ c.consent = "explicit"

Trusted == {"chat", "user"}

ApplyFact(m, c) ==
    IF MatchesErased(policy, {Claim(c)}) \/ ~ Allowed(c)
    THEN memory' = m /\ UNCHANGED <<policy, pending, born, withdrawn>>
    ELSE StoreFact(m, c)

ApplyRevocation(m, c) ==
    \/ /\ ~ Allowed(c)
       /\ memory' = m /\ UNCHANGED <<policy, pending, born, withdrawn>>
    \/ /\ Allowed(c) /\ Resolved(m, c) = {}
       /\ memory' = [m EXCEPT !.unresolved = @ \cup {c.user}]
       /\ UNCHANGED <<policy, pending, born, withdrawn>>
    \/ /\ Allowed(c)
       /\ \E term \in Resolved(m, c) :
            IF HoldUntrusted /\ c.source \notin Trusted
            THEN /\ pending' = pending \cup {[action |-> c.action, term |-> term, source |-> c.source]}
                 /\ memory' = m /\ UNCHANGED <<policy, born, withdrawn>>
            ELSE IF c.action = "delete" THEN RequestForget(m, term, c.user)
                                        ELSE RequestDoNotUse(m, term, c.user)

\* add_episode(), then the one candidate that is extracted from it.
WithEpisode(c) ==
    [memory EXCEPT !.episodes = [e \in DOMAIN @ \cup c.evidence |->
        IF e \in c.evidence THEN [user |-> c.user, claim |-> Claim(c)] ELSE @[e]]]

Ingest(c) ==
    /\ c \in world.inputs
    /\ LET m == WithEpisode(c)
       IN  IF c.action # "store" THEN ApplyRevocation(m, c)
           ELSE IF QuarantineReason(c) # ""
           THEN /\ memory' = [m EXCEPT !.quarantined = @ \cup {c}]
                /\ UNCHANGED <<policy, pending, born, withdrawn>>
           ELSE ApplyFact(m, c)
    /\ seen' = seen \cup {c}
    /\ orderly' = (orderly /\ \A d \in seen : d.at <= c.at)
    /\ UNCHANGED <<world, file, commands, saves>>

\* release_candidate(): a reviewer's release, with the override an injection needs.
\* There is no episode any more: the fact is dated when the candidate was made, Now.
Release(c) ==
    LET released == [c EXCEPT !.consent = "explicit", !.at = Now]
    IN  /\ c \in memory.quarantined
        /\ ApplyFact([memory EXCEPT !.quarantined = @ \ {c}], released)
        /\ seen' = seen \cup {released}
        /\ UNCHANGED <<world, file, commands, saves, orderly>>

-----------------------------------------------------------------------------
(* The rest of the surface: at most world.commands calls of it. *)

Commanded == commands < world.commands /\ commands' = commands + 1

Forget(term, user) ==
    Commanded /\ RequestForget(memory, term, user)
    /\ UNCHANGED <<world, file, saves, seen, orderly>>

DoNotUse(term, user) ==
    Commanded /\ RequestDoNotUse(memory, term, user)
    /\ UNCHANGED <<world, file, saves, seen, orderly>>

RevokeConsent(term, purpose) ==
    /\ Commanded
    /\ policy' = [policy EXCEPT !.consent = @ \cup {<<term, purpose>>}]
    /\ UNCHANGED <<world, memory, pending, file, born, saves, seen, orderly, withdrawn>>

\* invalidate_facts() of one fact
Invalidate(id) ==
    /\ Commanded
    /\ id \in DOMAIN memory.facts /\ memory.facts[id].until = NoTime
    /\ memory' = [memory EXCEPT !.facts[id].until = Now]
    /\ orderly' = FALSE
    /\ UNCHANGED <<world, policy, pending, file, born, saves, seen, withdrawn>>

Keeping(table, ids) == [id \in DOMAIN table \cap ids |-> table[id]]

\* InMemoryStore.purge_deleted(); events and candidates are not purged.
PurgeDeleted ==
    /\ Commanded
    /\ memory' = [memory EXCEPT
         !.facts = Keeping(@, {id \in DOMAIN @ :
             @[id].privacy # "deleted" \/ <<"fact", id>> \in policy.holds}),
         !.episodes = Keeping(@, {e \in DOMAIN @ :
             e \notin policy.episodes \/ <<"episode", e>> \in policy.holds}),
         !.reflections = Keeping(@, {id \in DOMAIN @ :
             @[id].status # "invalidated" \/ <<"reflection", id>> \in policy.holds})]
    /\ UNCHANGED <<world, policy, pending, file, born, saves, seen, orderly, withdrawn>>

-----------------------------------------------------------------------------
(* persistence.py *)

\* save_snapshot(purge_deleted=True): the content records that stay.
Purged(m) ==
    [m EXCEPT
        !.episodes = Keeping(@, {e \in DOMAIN @ :
            \/ e \notin policy.episodes /\ ~ MatchesErased(policy, {@[e].claim})
            \/ <<"episode", e>> \in policy.holds}),
        !.facts = Keeping(@, {id \in DOMAIN @ :
            @[id].privacy # "deleted" \/ <<"fact", id>> \in policy.holds}),
        !.events = Keeping(@, {id \in DOMAIN @ :
            \/ ~ MatchesErased(policy, EventClaims(@[id])) /\ @[id].evidence \cap policy.episodes = {}
            \/ <<"event", id>> \in policy.holds}),
        !.reflections = Keeping(@, {id \in DOMAIN @ :
            @[id].status # "invalidated" \/ <<"reflection", id>> \in policy.holds}),
        !.quarantined = {c \in @ : ~ MatchesErased(policy, {Claim(c)})}]

EmptyMemory == [facts |-> <<>>, events |-> <<>>, reflections |-> <<>>, quarantined |-> {},
                episodes |-> <<>>, unresolved |-> Nobody]
EmptyPolicy == [episodes |-> {}, ids |-> {}, terms |-> {}, texts |-> {}, consent |-> {},
                holds |-> {}]

Snapshot(m, p) == [memory |-> m, policy |-> p, withdrawn |-> withdrawn]

Save ==
    /\ saves < world.saves /\ saves' = saves + 1
    /\ \E kept \in {memory, Purged(memory)} : file' = <<Snapshot(kept, policy)>>
    /\ UNCHANGED <<world, memory, policy, pending, born, commands, seen, orderly, withdrawn>>

\* What load_snapshot() makes of the first lines of a snapshot: the policy is the
\* second line, then come episodes, candidates, facts, events, reflections.
\* (What was withdrawn is on the second line; one that is lost with it can come again.)
TornSnapshots(m, p) ==
    LET some(table, n) == Keeping(table, 1 .. n)
        bare == [EmptyMemory EXCEPT !.episodes = m.episodes, !.quarantined = m.quarantined]
    IN  {[Snapshot(EmptyMemory, EmptyPolicy) EXCEPT !.withdrawn = {w \in @ : w[1] = "fact"}],
         Snapshot(EmptyMemory, p)}
        \cup {Snapshot([bare EXCEPT !.facts = some(m.facts, n)], p) : n \in 0 .. born}
        \cup {Snapshot([bare EXCEPT !.facts = m.facts, !.events = some(m.events, n)], p) :
                  n \in 0 .. born}

\* The process stops while a snapshot is written over the one before, at the end of
\* a line (a half line makes load_snapshot raise), and starts again from the rest.
CrashInSave ==
    /\ saves < world.saves /\ saves' = saves + 1
    /\ \E torn \in TornSnapshots(memory, policy) :
          /\ file' = <<torn>>
          /\ memory' = torn.memory /\ policy' = torn.policy /\ withdrawn' = torn.withdrawn
    /\ pending' = {}
    /\ UNCHANGED <<world, born, commands, seen, orderly>>

MergedIds(mine, theirs) ==
    [mine EXCEPT !.episodes = @ \cup theirs.episodes, !.ids = @ \cup theirs.ids,
                 !.holds = @ \cup theirs.holds]

\* merge_from(): four of the sets, not the raw texts and not the consent withdrawals.
MergedPolicy(mine, theirs) ==
    [mine EXCEPT !.episodes = @ \cup theirs.episodes, !.ids = @ \cup theirs.ids,
                 !.terms = @ \cup theirs.terms, !.holds = @ \cup theirs.holds]

\* load_snapshot() into a new controller: what was revoked since is rolled back.
Load ==
    /\ file # NoFile
    /\ memory' = file[1].memory /\ policy' = file[1].policy
    /\ pending' = {} /\ withdrawn' = file[1].withdrawn
    /\ UNCHANGED <<world, file, born, commands, saves, seen, orderly>>

\* The supported repair: load, then merge_from(current policy).
LoadAndMerge ==
    /\ file # NoFile
    /\ memory' = file[1].memory /\ policy' = MergedPolicy(file[1].policy, policy)
    /\ pending' = {} /\ withdrawn' = withdrawn \cup file[1].withdrawn
    /\ UNCHANGED <<world, file, born, commands, saves, seen, orderly>>

Init ==
    /\ world \in Worlds
    /\ memory = EmptyMemory
    /\ policy = [EmptyPolicy EXCEPT !.holds = world.holds]
    /\ pending = {} /\ file = NoFile
    /\ born = 0 /\ commands = 0 /\ saves = 0 /\ seen = {} /\ orderly = TRUE /\ withdrawn = {}

Operation ==
    \/ \E c \in world.inputs : Ingest(c)
    \/ \E c \in memory.quarantined : Release(c)
    \/ \E term \in world.terms, user \in world.users : Forget(term, user) \/ DoNotUse(term, user)
    \/ \E term \in world.terms, purpose \in {AnyPurpose, "marketing"} : RevokeConsent(term, purpose)
    \/ \E id \in 1 .. MaxFacts : Invalidate(id)
    \/ PurgeDeleted \/ Save \/ Load \/ LoadAndMerge

Next == Operation \/ CrashInSave

Spec == Init /\ [][Next]_vars

-----------------------------------------------------------------------------
(* Properties. *)

\* Facts, events and the snapshot keep their shape, and links lead to facts made later.
TypeOK ==
    /\ DOMAIN memory.facts \cup DOMAIN memory.events \subseteq 1 .. born
    /\ \A id \in DOMAIN memory.facts :
          LET f == memory.facts[id]
          IN  f \in TemporalFact /\ (f.by # NoFact => f.by > id /\ f.until # NoTime)
    /\ \A id \in DOMAIN memory.events : memory.events[id] \in MemoryEvent
    /\ \A id \in DOMAIN memory.reflections : memory.reflections[id] \in Reflection
    /\ \A e \in DOMAIN memory.episodes : memory.episodes[e] \in Episode
    /\ \A w \in withdrawn : w[1] = "fact" => w[2] \in 1 .. born
    /\ policy.terms \cup policy.texts \subseteq Terms
    /\ pending = {} \/ HoldUntrusted
    /\ saves \in 0 .. world.saves /\ commands \in 0 .. world.commands /\ born \in 0 .. world.facts

\* docs/core_invariants.md: "Deleted memory is never selected. Do-not-use memory is
\* never selected", neither the fact nor the event made of it, nor a reflection on an
\* episode of a forgotten fact, by either planner, through releases, purges, replays,
\* approvals, snapshots, a crash in a save, and a restore with merge_from. (The verbatim
\* episodes of the open-conversation planner are withheld only with their term, and its
\* pool keeps reflections where they are disabled, which is no hard reason.)
ForgottenNeverSelected ==
    \A req \in Requests :
        LET selected == Selected(memory, policy, req)
            pool == Pool(memory, policy, req)
        IN  \A w \in withdrawn :
                IF w[1] = "fact"
                THEN {w, <<"event", w[2]>>} \cap (selected \cup pool) = {}
                ELSE \A id \in DOMAIN memory.reflections :
                        w[2] \in memory.reflections[id].evidence =>
                            /\ <<"reflection", id>> \notin selected
                            /\ req.reflections => <<"reflection", id>> \notin pool

\* A user's active truth has each value once: "Replaying the same episode sequence must
\* not create duplicate active truth".
OneTruth ==
    \A i, j \in {id \in DOMAIN memory.facts : Active(memory.facts[id])} :
        (/\ memory.facts[i].user = memory.facts[j].user
         /\ Claim(memory.facts[i]) = Claim(memory.facts[j])) => i = j

\* What is answered, by value.
Answers(m, p, req) ==
    {IF s[1] = "fact" THEN m.facts[s[2]].object ELSE m.events[s[2]].object :
        s \in {x \in Selected(m, p, req) : x[1] # "reflection"}}

\* "Source conflicts cause abstention": two values of one relation are never answered
\* together, now or as of a date; for the past as long as everything came in order.
SingleAnswer ==
    \A req \in Requests :
        ~ Historical(req) \/ orderly => Cardinality(Answers(memory, policy, req)) <= 1

\* Two statements of one date never give one relation two values.
Untied ==
    \A c, d \in seen :
        (c.user = d.user /\ c.relation = d.relation /\ c.at = d.at) => c.object = d.object

\* The facts against a statement have each one source only. (A second source that
\* confirms a fact can change who wins against it.)
MetAsBefore(c) ==
    \A id \in MatchingActive(c) :
        memory.facts[id].object # c.object => Cardinality(memory.facts[id].witnesses) = 1

\* A fact was made of the statement, or of another of its value and date.
MadeFact(c) ==
    \E id \in DOMAIN memory.facts :
        LET f == memory.facts[id]
        IN  /\ f.user = c.user /\ Claim(f) = Claim(c) /\ f.at = c.at
            /\ c.evidence \subseteq f.evidence

\* A statement that comes once more, while nothing was withdrawn or invalidated.
Replay(c) ==
    /\ c.action = "store" /\ c \in seen /\ seen' = seen
    /\ commands = 0 /\ saves = 0 /\ withdrawn = {}
    /\ Ingest(c)

=============================================================================
