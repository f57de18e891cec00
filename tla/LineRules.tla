----------------------------- MODULE LineRules -----------------------------
(* The rule-based extractors (src/cognitive_memory/extractor.py): what each of   *)
(* them proposes for the lines of an episode. A line is what the patterns see of *)
(* it: the keyword that opens it, the cues it contains (the words and phrases    *)
(* that are looked for) and the fragments the patterns capture. The distances    *)
(* that some patterns allow between two cues are left out, and so are the fixed  *)
(* scores: no extractor reads them back.                                         *)
EXTENDS Lists

CONSTANT User

\* A line: form (the keyword of a structured line, or "prose"), cues, what a structured
\* line names (subject, relation), the words its last group captures (object), all that
\* follows the first policy keyword (tail) and what is left of it without filler (term),
\* the names that follow "candidate", "client" and "role", a capitalised word (named),
\* a reference ("that client"), and, of a dialogue line, what it says about whom.
BlankLine ==
    [form |-> "prose", cues |-> {}, subject |-> "", relation |-> "", object |-> {},
     tail |-> "", term |-> "", candidate |-> "", client |-> "", role |-> "", company |-> "",
     named |-> "", reference |-> "", says |-> <<>>]

Candidate(action, type, subject, relation, object) ==
    [action |-> action, type |-> type, subject |-> subject, relation |-> relation, object |-> object]

\* _candidate_for_fact: the sensitive wait for consent.
Fact(e, type, subject, relation, object, sensitive) ==
    Candidate(IF sensitive /\ e.consent # "explicit" THEN "ask_consent" ELSE "store",
              type, subject, relation, object)
Semantic(e, subject, relation, object) == Fact(e, "semantic_fact", subject, relation, object, FALSE)
Preference(e, relation, object) == Fact(e, "preference", User, relation, object, FALSE)
Constraint(action, term, reference) == Candidate(action, "constraint", term, reference, {})
Ignored == Candidate("ignore", "episodic_note", "", "", {})

When(condition, candidate) == IF condition THEN <<candidate>> ELSE <<>>

\* A table of rules [when: sets of cues, ...]: the first rule one of whose sets is there.
Fits(rule, cues) == \E w \in rule.when : w \subseteq cues
Rules(table, cues, Result(_)) ==
    LET fitting == {n \in DOMAIN table : Fits(table[n], cues)}
    IN  IF fitting = {} THEN <<>> ELSE <<Result(table[Min(fitting)])>>

-----------------------------------------------------------------------------
(* DeterministicExtractor. *)

Structured(l, e) ==
    Cascade(<<
        When(l.form \in {"FACT", "SENSITIVE"},
             Fact(e, "semantic_fact", l.subject, l.relation, l.object, l.form = "SENSITIVE")),
        When(l.form = "PREFERENCE", Preference(e, l.relation, l.object)),
        When(l.form = "PROCEDURE", Candidate("store", "procedure", "", "", l.object)),
        When(l.form \in {"DELETE", "FORGET", "DO_NOT_USE"},
             Constraint(IF l.form = "DO_NOT_USE" THEN "do_not_use" ELSE "delete", l.tail, ""))>>)

\* The plain keywords, inside a word too ("forgetful").
PlainPolicyCues == {"forget", "delete", "do not use", "forgetful"}
NaturalPolicy(l) ==
    When(l.cues \cap PlainPolicyCues # {} /\ l.tail # "",
         Constraint(IF "do not use" \in l.cues THEN "do_not_use" ELSE "delete", l.tail, ""))
\* "I prefer ..." keeps the speaker's own words.
NaturalPreference(l, e) ==
    When("i prefer" \in l.cues, Preference(e, "preference", l.object))
Natural(l, e) == Cascade(<<NaturalPolicy(l), NaturalPreference(l, e)>>)

\* An episode of lines; one without any result is noted and ignored.
Episode(e, OfLine(_)) ==
    LET found == FlattenSeq([n \in DOMAIN e.lines |-> OfLine(e.lines[n])])
    IN  IF found = <<>> THEN <<Ignored>> ELSE found
Deterministic(e) == Episode(e, LAMBDA l : Cascade(<<Structured(l, e), Natural(l, e)>>))

-----------------------------------------------------------------------------
(* NoisyRuleBasedExtractor. *)

DeleteCues == {"forget", "delete", "remove"}
DoNotUseCues == {"do not use", "do not mention", "do not bring up"}
PolicyCues == DeleteCues \cup DoNotUseCues

\* Three words stand for whatever they are said about; else a company named again, a
\* capitalised word after the verb, or what is left of the line without filler.
PolicyTerm(l) ==
    CASE "salary" \in l.cues -> "salary"
      [] "salary" \notin l.cues /\ "phone" \in l.cues -> "phone"
      [] l.cues \cap {"salary", "phone"} = {} /\ "address" \in l.cues -> "address"
      [] OTHER -> IF {"company", "again"} \subseteq l.cues /\ l.company # "" THEN l.company
                  ELSE IF l.named # "" THEN l.named ELSE l.term

\* A request that names nothing and refers to nothing is noted as unresolved, and ignored.
PolicyRequest(l) ==
    When(l.cues \cap PolicyCues # {},
         LET term == PolicyTerm(l)
             action == IF l.cues \cap DoNotUseCues # {} THEN "do_not_use" ELSE "delete"
         IN  IF term = "" /\ l.reference = "" THEN Constraint("ignore", "", "ambiguous")
             ELSE Constraint(action, term, l.reference))

Hedged(l) == When("hedge" \in l.cues, Ignored)

Switch(e, needed, cues, type, relation, object) ==
    When(needed \subseteq cues, Fact(e, type, User, relation, {object}, FALSE))
\* One line may speak of several projects.
ProjectSwitch(l, e) ==
    Switch(e, {"gymbuddy", "flutter"}, l.cues, "preference", "code_preference", "Flutter_hands_on")
    \o Switch(e, {"psychotest24", "no code"}, l.cues, "preference", "code_preference", "no_code_self")
    \o Switch(e, {"alpha", "python"}, l.cues, "semantic_fact", "tech_stack", "Python")
    \o Switch(e, {"beta", "rust"}, l.cues, "semantic_fact", "tech_stack", "Rust")

\* SENSITIVE_MARKERS, and what each is filed under; "address" only refines a home address.
SensitiveCues == {"migraine", "medical", "diagnosis", "home address", "child", "has a kid", "government id"}
SensitiveTable == <<
    [when |-> {{"migraine"}}, slot |-> "medical_condition", value |-> "migraine"],
    [when |-> {{"home address"}, {"address"}}, slot |-> "home_address", value |-> "mentioned"],
    [when |-> {{"child"}, {"kid"}}, slot |-> "family_status", value |-> "has_child"],
    [when |-> {{"government id"}}, slot |-> "government_id", value |-> "mentioned"],
    [when |-> {{}}, slot |-> "sensitive_note", value |-> "restricted"]>>
Sensitive(l, e) ==
    IF l.cues \cap SensitiveCues = {} THEN <<>>
    ELSE Rules(SensitiveTable, l.cues,
               LAMBDA r : Fact(e, "semantic_fact", User, r.slot, {r.value}, TRUE))

PreferenceTable == <<
    [when |-> {{"remote used to be", "hybrid", "now"}}, slot |-> "work_mode", value |-> "hybrid_if_offer_strong"],
    [when |-> {{"used to be remote"}, {"remote used to be"}, {"remote only"}}, slot |-> "work_mode", value |-> "remote_only"],
    [when |-> {{"hybrid", "fine now"}}, slot |-> "work_mode", value |-> "hybrid_if_offer_strong"],
    [when |-> {{"email is easiest"}}, slot |-> "contact_channel", value |-> "email"],
    [when |-> {{"phone is better now"}}, slot |-> "contact_channel", value |-> "phone"],
    [when |-> {{"mornings are best"}}, slot |-> "meeting_time", value |-> "morning"],
    [when |-> {{"afternoons are better now"}}, slot |-> "meeting_time", value |-> "afternoon"],
    [when |-> {{"concise answers"}}, slot |-> "response_style", value |-> "brief"],
    [when |-> {{"more detail now"}}, slot |-> "response_style", value |-> "detailed"],
    [when |-> {{"i care about flutter"}}, slot |-> "tech_interest", value |-> "Flutter"],
    [when |-> {{"python is my default"}}, slot |-> "tech_stack", value |-> "Python"],
    [when |-> {{"rust is the default now"}}, slot |-> "tech_stack", value |-> "Rust"],
    [when |-> {{"crm notes should be terse"}}, slot |-> "crm_note_style", value |-> "terse"],
    [when |-> {{"coaching notes can be warmer"}}, slot |-> "coaching_note_style", value |-> "warm"]>>
NoisyPreference(l, e) ==
    Rules(PreferenceTable, l.cues, LAMBDA r : Preference(e, r.slot, {r.value}))

\* Facts about a named client or candidate, then about the user.
NoisyFactTable(l) == <<
    [when |-> IF l.client # "" THEN {{"amount", "budget"}} ELSE {}, about |-> l.client, slot |-> "budget", value |-> "amount"],
    [when |-> IF l.candidate # "" THEN {{"stage"}} ELSE {}, about |-> l.candidate, slot |-> "stage", value |-> "stage"],
    [when |-> {{"mara has an offer now"}}, about |-> "candidate_mara", slot |-> "stage", value |-> "offer"],
    [when |-> {{"timezone", "zone"}}, about |-> "user", slot |-> "timezone", value |-> "zone"],
    [when |-> {{"salary", "amount"}}, about |-> "user", slot |-> "salary_target", value |-> "amount"],
    [when |-> {{"phone number is"}}, about |-> "candidate", slot |-> "phone", value |-> "digits"],
    [when |-> {{"globex", "avoid"}, {"globex", "company"}}, about |-> "user", slot |-> "avoid_company", value |-> "Globex"],
    [when |-> {{"recruitco", "agency"}}, about |-> "user", slot |-> "agency", value |-> "RecruitCo"],
    [when |-> {{"competitorx"}}, about |-> "account", slot |-> "competitor", value |-> "CompetitorX"],
    [when |-> {{"acme", "avoid"}, {"acme", "company"}}, about |-> "user", slot |-> "avoid_company", value |-> "Acme"],
    [when |-> {{"sales calls", "hate"}}, about |-> "user", slot |-> "temporary_mood", value |-> "dislikes_sales_calls_today"]>>
NoisyFact(l, e) ==
    Rules(NoisyFactTable(l), l.cues, LAMBDA r : Semantic(e, r.about, r.slot, {r.value}))

NoisyLine(l, e) ==
    Cascade(<<PolicyRequest(l), Hedged(l), ProjectSwitch(l, e), Sensitive(l, e),
              NoisyPreference(l, e), NoisyFact(l, e)>>)

PolicyAskedLate(l, e, noisy) ==
    Cascade(<<Structured(l, e), noisy, PolicyRequest(l), Natural(l, e)>>)
NaturalBeforeNoisy(l, e, noisy) ==
    Cascade(<<PolicyRequest(l), Structured(l, e), Natural(l, e), noisy>>)
\* extract() of both subclasses: a policy request is heard before anything else.
NoisyOrder(l, e, noisy) ==
    Cascade(<<PolicyRequest(l), Structured(l, e), noisy, Natural(l, e)>>)
Noisy(e) == Episode(e, LAMBDA l : NoisyOrder(l, e, NoisyLine(l, e)))

-----------------------------------------------------------------------------
(* RecruitingRuleBasedExtractor. *)

\* Only a named candidate is left alone; what is confidential is the first employer or
\* client named, else the first capitalised word.
RecruitingConstraint(l) ==
    LET employer == IF l.client # "" THEN l.client ELSE IF l.company # "" THEN l.company ELSE l.named
    IN  Cascade(<<
            When("do not contact" \in l.cues /\ l.candidate # "",
                 Constraint("do_not_use", l.candidate, "")),
            When(l.cues \cap {"confidential", "do not share"} # {} /\ employer # "",
                 Constraint("do_not_use", employer, ""))>>)

CandidateTable == <<
    [when |-> {{"salary", "amount"}}, slot |-> "salary_expectation", value |-> "amount"],
    [when |-> {{"notice", "period"}}, slot |-> "notice_period", value |-> "period"],
    [when |-> {{"remote", "only"}}, slot |-> "work_mode", value |-> "remote_only"],
    [when |-> {{"hybrid"}}, slot |-> "work_mode", value |-> "hybrid"],
    [when |-> {{"onsite"}}, slot |-> "work_mode", value |-> "onsite"],
    [when |-> {{"relocation", "open"}}, slot |-> "relocation", value |-> "willing"],
    [when |-> {{"relocation", "not"}}, slot |-> "relocation", value |-> "not_willing"],
    [when |-> {{"offer"}}, slot |-> "competing_offer", value |-> "yes"],
    [when |-> {{"concern", "resolved"}}, slot |-> "objection", value |-> "resolved"],
    [when |-> {{"concern"}}, slot |-> "objection", value |-> "open"],
    [when |-> {{"migraine"}, {"child"}, {"medical"}, {"home address"}}, slot |-> "sensitive_note", value |-> "mentioned"]>>
ClientTable == <<
    [when |-> {{"budget", "amount"}}, slot |-> "budget", value |-> "amount"],
    [when |-> {{"skill"}}, slot |-> "required_skill", value |-> "skill"],
    [when |-> {{"onsite"}}, slot |-> "location_policy", value |-> "onsite"],
    [when |-> {{"hybrid"}}, slot |-> "location_policy", value |-> "hybrid"],
    [when |-> {{"remote"}}, slot |-> "location_policy", value |-> "remote"]>>
RoleTable == <<
    [when |-> {{"skill"}}, slot |-> "required_skill", value |-> "skill"],
    [when |-> {{"senior"}}, slot |-> "seniority", value |-> "senior"],
    [when |-> {{"budget", "amount"}}, slot |-> "budget", value |-> "amount"]>>
AboutNamed(l, e, name, table) ==
    IF name = "" THEN <<>>
    ELSE Rules(table, l.cues,
               LAMBDA r : Fact(e, "semantic_fact", name, r.slot, {r.value}, r.slot = "sensitive_note"))
RecruitingFact(l, e) ==
    Cascade(<<AboutNamed(l, e, l.candidate, CandidateTable),
              AboutNamed(l, e, l.client, ClientTable), AboutNamed(l, e, l.role, RoleTable)>>)

Recruiting(e) ==
    Episode(e, LAMBDA l : NoisyOrder(l, e,
                   Cascade(<<RecruitingConstraint(l), RecruitingFact(l, e), NoisyLine(l, e)>>)))

-----------------------------------------------------------------------------
(* GenericConversationExtractor: one dialogue turn per episode. *)

Pronouns == {"", "you", "it", "that", "this", "there", "here", "what", "how"}
OfGroup(l, group) == {n \in DOMAIN l.says : l.says[n].group = group}
\* What the patterns of one group found, in their order, without the empty and the vague.
Found(l, group) == Kept(l.says, {n \in OfGroup(l, group) : l.says[n].object \notin Pronouns})
UpTo(n, seq) == SubSeq(seq, 1, IF Len(seq) < n THEN Len(seq) ELSE n)
\* An "I am ..." that repeats what an earlier pattern found is no attribute.
OwnFacts(l) ==
    LET own == Found(l, "own")
        Repeats(n) == own[n].relation = "attribute" /\ \E m \in 1..(n - 1) : own[m].object = own[n].object
    IN  Kept(own, {n \in DOMAIN own : ~ Repeats(n)})
\* Where the speaker's own people live or come from, and what is said of people by name.
RelatedFacts(l) == UpTo(2, Found(l, "related"))
NamedFacts(l) == UpTo(3, Found(l, "third"))
\* One summary of what happened, and when (a time is never vague).
EventSummary(l) == UpTo(1, Found(l, "summary"))
EventTime(l) == Kept(l.says, OfGroup(l, "time"))
\* Events are the only facts that are freed of duplicates.
EventFacts(l) ==
    LET all == Found(l, "event") \o EventSummary(l) \o Found(l, "identity") \o EventTime(l)
        Repeats(n) == \E m \in 1..(n - 1) :
                          all[m].relation = all[n].relation /\ all[m].object = all[n].object
    IN  UpTo(6, Kept(all, {n \in DOMAIN all : ~ Repeats(n)}))
DialogueFacts(l) ==
    UpTo(8, OwnFacts(l) \o UpTo(1, Kept(l.says, OfGroup(l, "kin")))
            \o RelatedFacts(l) \o NamedFacts(l) \o EventFacts(l))

Dialogue(l, e) ==
    LET facts == DialogueFacts(l)
    IN  IF "hedge" \in l.cues \/ facts = <<>> THEN <<Ignored>>
        ELSE [n \in DOMAIN facts |->
                 Fact(e, facts[n].type, facts[n].subject, facts[n].relation, {facts[n].object}, FALSE)]
\* A keyword line or a policy request in it makes the whole turn a structured one.
Generic(e) ==
    LET structured == Deterministic(e)
    IN  IF \E n \in DOMAIN structured : structured[n].action # "ignore" THEN structured
        ELSE Dialogue(e.lines[1], e)

=============================================================================
