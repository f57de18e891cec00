------------------------- MODULE MemoryStackProofs -------------------------
(***************************************************************************)
(* What holds of the prototype memory and its sleep cycle for any inputs,    *)
(* terms, worlds and requests, through withdrawals, snapshots, crashes in a  *)
(* save, restores and reviews: types, one truth per value, one answer per    *)
(* question, nothing selected that was withdrawn, and nothing approved about *)
(* who was in dispute.                                                     *)
(*                                                                         *)
(* What is true of the memory must be true of the snapshot as well, because *)
(* a load makes it the memory: the parts of the invariant are predicates of *)
(* tables, stated of both.                                                 *)
(***************************************************************************)
EXTENDS Consolidation, FiniteSetTheorems, WellFoundedInduction, TLAPS

-----------------------------------------------------------------------------
(* The invariant. F, E and R are tables of facts, events and reflections, n   *)
(* is the last number given out, s what was ingested, w what was withdrawn.  *)

Gone == {"deleted", "do_not_use"}

\* Facts have their types, evidence, and numbers that were given out.
FactsShaped(F, n) ==
    /\ DOMAIN F \subseteq 1 .. n
    /\ \A id \in DOMAIN F :
          /\ F[id] \in TemporalFact /\ F[id].evidence # {}
          /\ F[id].by # NoFact => F[id].by > id /\ F[id].until # NoTime
EventsShaped(E, n) ==
    /\ DOMAIN E \subseteq 1 .. n
    /\ \A id \in DOMAIN E :
          E[id] \in MemoryEvent /\ E[id].at \in 1 .. Now /\ E[id].evidence # {}
Shaped(m, n) ==
    /\ DOMAIN m = {"facts", "events", "reflections", "quarantined", "episodes", "unresolved"}
    /\ FactsShaped(m.facts, n) /\ EventsShaped(m.events, n)
    /\ \A id \in DOMAIN m.reflections : m.reflections[id] \in Reflection
    /\ \A e \in DOMAIN m.episodes : m.episodes[e] \in Episode
    /\ m.quarantined \subseteq Inputs
PolicyShaped(p) ==
    /\ DOMAIN p = {"episodes", "ids", "terms", "texts", "consent", "holds"}
    /\ p.terms \cup p.texts \subseteq Terms
WithdrawnShaped(w, n) == \A x \in w : x[1] = "fact" => x[2] \in 1 .. n

\* Two active facts of a user on one relation differ and know of their conflict.
Rivals(F, i, j) == i # j /\ F[i].user = F[j].user /\ F[i].relation = F[j].relation
Separate(F) ==
    \A i, j \in DOMAIN F : Rivals(F, i, j) /\ Active(F[i]) /\ Active(F[j]) =>
        F[i].object # F[j].object /\ F[i].contested /\ F[j].contested

\* As long as statements come in the order of their dates, nothing in the memory is later
\* than what was seen, and two values were either true one after the other or are in
\* conflict.
Dated(F, s) == \A id \in DOMAIN F : \E c \in s : F[id].at <= c.at /\ F[id].until <= c.at
Ended(f, t) == f.until # NoTime /\ f.until <= t
Successive(F) ==
    \A i, j \in DOMAIN F :
        /\ Rivals(F, i, j) /\ F[i].object # F[j].object
        /\ F[i].privacy \notin Gone /\ F[j].privacy \notin Gone
        => \/ Ended(F[i], F[j].at) \/ Ended(F[j], F[i].at)
           \/ F[i].contested /\ F[j].contested
Truth(F, s, o) == Separate(F) /\ (o => Dated(F, s) /\ Successive(F))

\* The event of a fact says what the fact says, on no other evidence.
Kin(E, F) ==
    \A id \in DOMAIN E \cap DOMAIN F :
        Claim(E[id]) = Claim(F[id]) /\ E[id].evidence \subseteq F[id].evidence

\* A policy hides from a memory what was withdrawn.
EventHidden(e, p) == e.evidence \cap p.episodes # {} \/ Hits(TokenHits, p.terms, {Claim(e)})
HidesFacts(w, F, E, p) ==
    \A x \in w : x[1] = "fact" =>
        /\ x[2] \in DOMAIN F => <<"fact", x[2]>> \in p.ids
        /\ x[2] \in DOMAIN E => EventHidden(E[x[2]], p)
HidesEpisodes(w, p) == \A x \in w : x[1] = "fact" \/ x[2] \in p.episodes
HidesReflections(R, p) ==
    \A id \in DOMAIN R : R[id].status = "invalidated" => <<"reflection", id>> \in p.ids
Hides(w, m, p) ==
    /\ HidesFacts(w, m.facts, m.events, p) /\ HidesEpisodes(w, p)
    /\ HidesReflections(m.reflections, p)

Sound(m, p, w, n, s, o) ==
    /\ Shaped(m, n) /\ PolicyShaped(p) /\ WithdrawnShaped(w, n)
    /\ Truth(m.facts, s, o) /\ Kin(m.events, m.facts) /\ Hides(w, m, p)

\* A snapshot t that is merged with the policy p hides what was withdrawn since, w.
Restores(t, m, p, w) ==
    /\ Kin(t.memory.events, m.facts)
    /\ Hides(w \cup t.withdrawn, t.memory, MergedPolicy(t.policy, p))

Bounds ==
    /\ world \in Worlds /\ born \in 0 .. world.facts
    /\ saves \in 0 .. world.saves /\ commands \in 0 .. world.commands
    /\ pending = {} \/ HoldUntrusted
    /\ orderly \in BOOLEAN
    /\ \A c \in seen : c.at \in 1 .. Now
MemoryInv == Sound(memory, policy, withdrawn, born, seen, orderly)
FileInv ==
    file # NoFile =>
        /\ Sound(file[1].memory, file[1].policy, file[1].withdrawn, born, seen, orderly)
        /\ Restores(file[1], memory, policy, withdrawn)
StackInv == Bounds /\ MemoryInv /\ FileInv

\* Decisions are about users and relations there are; a review that holds something about
\* a user in dispute has an item that says so.
DecisionsInv ==
    /\ IsFiniteSet(items) /\ items \subseteq run /\ approved \subseteq items
    /\ \A d \in run : d.scope.user \in Users /\ d.relations \subseteq Relations
                      /\ d.evidence \subseteq Evidence
ReviewInv ==
    \A d \in items : d.scope.user \in planned.disputed =>
        Risk(d) = "high" \/ \E e \in items : Risk(e) = "high" /\ Overlaps(d, e)

\* Reflections have numbers that were given out, those of the snapshot as well.
Numbered(R, n) == DOMAIN R \subseteq 1 .. n
NumbersInv ==
    /\ made \in Nat /\ Numbered(memory.reflections, made)
    /\ file # NoFile => Numbered(file[1].memory.reflections, made)
SleepInv == StackInv /\ NumbersInv /\ DecisionsInv /\ ReviewInv /\ DisputedNeverApproved

-----------------------------------------------------------------------------
(* Numbers, sets and the list of checks. *)

\* A set of numbers has a least one.
LEMMA LeastExists ==
    ASSUME NEW S \in SUBSET Nat, S # {}
    PROVE  \E x \in S : \A y \in S : x <= y
<1> DEFINE Less == OpToRel(<, Nat)
<1>1. \A x, y \in Nat : <<y, x>> \in Less <=> y < x BY DEF OpToRel
<1>2. \A x, y \in Nat : x <= y \/ y < x OBVIOUS
<1>3. IsWellFoundedOn(Less, Nat) BY NatLessThanWellFounded
<1> HIDE DEF Less
<1>4. \E x \in S : \A y \in S : ~ (<<y, x>> \in Less) BY <1>3, WFMin
<1>5. \A x, y \in S : x <= y \/ <<y, x>> \in Less BY <1>1, <1>2
<1> QED BY <1>4, <1>5

LEMMA MinIsLeast ==
    ASSUME NEW S \in SUBSET Nat, S # {}
    PROVE  Min(S) \in S /\ \A y \in S : Min(S) <= y
BY LeastExists DEF Min

\* A finite set has at most one element when no two differ, and two elements make it larger.
LEMMA OneAtMost ==
    ASSUME NEW S, \A x, y \in S : x = y
    PROVE  Cardinality(S) <= 1
<1>1. CASE S = {} BY <1>1, FS_EmptySet
<1>2. CASE S # {}
    <2>1. PICK x : x \in S BY <1>2
    <2>2. S = {x} BY <2>1
    <2> QED BY <2>2, FS_Singleton
<1> QED BY <1>1, <1>2

LEMMA TwoAtLeast ==
    ASSUME NEW S, IsFiniteSet(S), NEW x \in S, NEW y \in S, x # y
    PROVE  Cardinality(S) > 1
<1>1. IsFiniteSet({x, y}) /\ Cardinality({x, y}) = 2
    <2>1. {x, y} = {x} \cup {y} OBVIOUS
    <2>2. IsFiniteSet({x}) /\ Cardinality({x}) = 1 BY FS_Singleton
    <2>3. /\ IsFiniteSet({x} \cup {y})
          /\ Cardinality({x} \cup {y}) = IF y \in {x} THEN Cardinality({x}) ELSE Cardinality({x}) + 1
        BY <2>2, FS_AddElement
    <2> QED BY <2>1, <2>2, <2>3
<1>2. Cardinality({x, y}) <= Cardinality(S) BY FS_Subset
<1>3. Cardinality(S) \in Nat BY FS_CardinalityType
<1> QED BY <1>1, <1>2, <1>3

\* The values of a function on a finite set are finitely many.
LEMMA ValuesFinite ==
    ASSUME NEW f, IsFiniteSet(DOMAIN f)
    PROVE  IsFiniteSet({f[x] : x \in DOMAIN f})
<1> DEFINE T == {f[x] : x \in DOMAIN f}
           g == [x \in DOMAIN f |-> f[x]]
<1>1. g \in Surjection(DOMAIN f, T) BY DEF Surjection
<1> HIDE DEF g
<1> QED BY <1>1, FS_Surjection

\* The reason is that of a check which fails, and comes no later than any that does.
LEMMA FirstIs ==
    ASSUME NEW checks, NEW n \in Nat, DOMAIN checks = 1 .. n,
           NEW k \in 1 .. n, checks[k] # {}
    PROVE  \E j \in 1 .. n : j <= k /\ FirstReason(checks) \in checks[j]
<1> DEFINE failing == {i \in DOMAIN checks : checks[i] # {}}
           first == CHOOSE i \in failing : \A j \in failing : i <= j
<1>1. failing \in SUBSET Nat /\ k \in failing /\ failing \subseteq 1 .. n OBVIOUS
<1>2. first \in failing /\ \A j \in failing : first <= j
    BY <1>1, LeastExists
<1>3. FirstReason(checks) \in checks[first]
    <2>1. checks[first] # {} BY <1>2
    <2> QED BY <1>1, <2>1 DEF FirstReason
<1>4. first \in 1 .. n /\ first <= k BY <1>1, <1>2
<1> QED BY <1>3, <1>4

\* If the reason is the empty one, no check fails; none has the empty one to give.
Named(reasons) == "" \notin reasons
Passes(checks) == FirstReason(checks) = ""

LEMMA AllPass ==
    ASSUME NEW checks, NEW n \in Nat, DOMAIN checks = 1 .. n,
           \A k \in 1 .. n : Named(checks[k]), Passes(checks)
    PROVE  \A k \in 1 .. n : checks[k] = {}
<1>1. SUFFICES ASSUME NEW k \in 1 .. n, checks[k] # {} PROVE FALSE OBVIOUS
<1>2. PICK j \in 1 .. n : FirstReason(checks) \in checks[j] BY <1>1, FirstIs
<1> QED BY <1>2 DEF Named, Passes

LEMMA WhenNamed ==
    ASSUME NEW excluded \in BOOLEAN, NEW reason, reason # ""
    PROVE  Named(When(excluded, reason))
BY DEF When, Named

\* The lists of checks there are, item by item.
LEMMA ListOfTwelve ==
    ASSUME NEW a, NEW b, NEW c, NEW d, NEW e, NEW f, NEW g, NEW h, NEW i, NEW j, NEW k, NEW l
    PROVE  LET C == <<a, b, c, d, e, f, g, h, i, j, k, l>>
           IN  /\ DOMAIN C = 1 .. 12
               /\ C[1] = a /\ C[2] = b /\ C[3] = c /\ C[4] = d /\ C[5] = e /\ C[6] = f
               /\ C[7] = g /\ C[8] = h /\ C[9] = i /\ C[10] = j /\ C[11] = k /\ C[12] = l
               /\ \A n \in 1 .. 12 : C[n] \in {a, b, c, d, e, f, g, h, i, j, k, l}
OBVIOUS

LEMMA ListOfEight ==
    ASSUME NEW a, NEW b, NEW c, NEW d, NEW e, NEW f, NEW g, NEW h
    PROVE  LET C == <<a, b, c, d, e, f, g, h>>
           IN  /\ DOMAIN C = 1 .. 8
               /\ C[1] = a /\ C[2] = b /\ C[3] = c /\ C[4] = d /\ C[5] = e /\ C[6] = f
               /\ C[7] = g /\ C[8] = h
               /\ \A n \in 1 .. 8 : C[n] \in {a, b, c, d, e, f, g, h}
OBVIOUS

LEMMA ListOfSeven ==
    ASSUME NEW a, NEW b, NEW c, NEW d, NEW e, NEW f, NEW g
    PROVE  LET C == <<a, b, c, d, e, f, g>>
           IN  /\ DOMAIN C = 1 .. 7
               /\ C[1] = a /\ C[2] = b /\ C[3] = c /\ C[4] = d /\ C[5] = e /\ C[6] = f
               /\ C[7] = g
               /\ \A n \in 1 .. 7 : C[n] \in {a, b, c, d, e, f, g}
OBVIOUS

LEMMA ListOfSix ==
    ASSUME NEW a, NEW b, NEW c, NEW d, NEW e, NEW f
    PROVE  LET C == <<a, b, c, d, e, f>>
           IN  /\ DOMAIN C = 1 .. 6
               /\ C[1] = a /\ C[2] = b /\ C[3] = c /\ C[4] = d /\ C[5] = e /\ C[6] = f
               /\ \A n \in 1 .. 6 : C[n] \in {a, b, c, d, e, f}
OBVIOUS

LEMMA TwelvePass ==
    ASSUME NEW a, NEW b, NEW c, NEW d, NEW e, NEW f, NEW g, NEW h, NEW i, NEW j, NEW k, NEW l,
           \A x \in {a, b, c, d, e, f, g, h, i, j, k, l} : Named(x),
           Passes(<<a, b, c, d, e, f, g, h, i, j, k, l>>)
    PROVE  \A x \in {a, b, c, d, e, f, g, h, i, j, k, l} : x = {}
<1> DEFINE C == <<a, b, c, d, e, f, g, h, i, j, k, l>>
<1>1. /\ DOMAIN C = 1 .. 12
      /\ C[1] = a /\ C[2] = b /\ C[3] = c /\ C[4] = d /\ C[5] = e /\ C[6] = f
      /\ C[7] = g /\ C[8] = h /\ C[9] = i /\ C[10] = j /\ C[11] = k /\ C[12] = l
      /\ \A n \in 1 .. 12 : C[n] \in {a, b, c, d, e, f, g, h, i, j, k, l}
    BY ListOfTwelve
<1> HIDE DEF C
<1>2. \A n \in 1 .. 12 : Named(C[n]) BY <1>1
<1>3. Passes(C) BY DEF C
<1>4. \A n \in 1 .. 12 : C[n] = {} BY <1>1, <1>2, <1>3, AllPass
<1> QED BY <1>1, <1>4

\* A fact that nothing excludes is the user's, was not withdrawn, and is valid then.
Answerable(f, req) ==
    /\ f.privacy \notin Gone /\ f.user = req.user
    /\ Historical(req) \/ f.until = NoTime
    /\ Historical(req) => ~ f.at > req.as_of
    /\ Historical(req) => f.until = NoTime \/ ~ f.until <= req.as_of

LEMMA FactChecks ==
    ASSUME NEW m, NEW p, NEW id, NEW req, FactReason(m, p, id, req) = ""
    PROVE  Answerable(m.facts[id], req)
<1> DEFINE f == m.facts[id]
           c1 == When(<<"fact", id>> \in p.ids, "do_not_use")
           c2 == When(f.privacy = "deleted", "deleted")
           c3 == When(f.privacy = "do_not_use", "do_not_use")
           c4 == When(f.user # req.user, "wrong_user")
           c5 == When(f.privacy = "sensitive" /\ ~ req.sensitive, "sensitive")
           c6 == When(f.evidence \cap p.episodes # {}, "deleted_evidence")
           c7 == When(MatchesErased(p, {Claim(f)}), "do_not_use_term")
           c8 == When(ConsentRevoked(p, {Claim(f)}, req.purpose), "consent_revoked")
           c9 == When(~ Historical(req) /\ f.until # NoTime, "invalidated")
           c10 == When(Historical(req) /\ f.at > req.as_of, "not_yet_valid")
           c11 == When(Historical(req) /\ f.until # NoTime /\ f.until <= req.as_of,
                       "not_valid_as_of_date")
           c12 == When(f.evidence = {}, "missing_provenance")
<1>1. /\ Named(c1) /\ Named(c2) /\ Named(c3) /\ Named(c4) /\ Named(c5) /\ Named(c6)
      /\ Named(c7) /\ Named(c8) /\ Named(c9) /\ Named(c10) /\ Named(c11) /\ Named(c12)
    BY DEF When, Named
<1>2. Passes(<<c1, c2, c3, c4, c5, c6, c7, c8, c9, c10, c11, c12>>) BY DEF FactReason, Passes
<1>3. /\ c2 = {} => f.privacy # "deleted"
      /\ c3 = {} => f.privacy # "do_not_use"
      /\ c4 = {} => f.user = req.user
      /\ c9 = {} => ~ (~ Historical(req) /\ f.until # NoTime)
      /\ c10 = {} => ~ (Historical(req) /\ f.at > req.as_of)
      /\ c11 = {} => ~ (Historical(req) /\ f.until # NoTime /\ f.until <= req.as_of)
    BY DEF When
<1> HIDE DEF c1, c2, c3, c4, c5, c6, c7, c8, c9, c10, c11, c12
<1>4. \A x \in {c1, c2, c3, c4, c5, c6, c7, c8, c9, c10, c11, c12} : x = {}
    <2>1. \A x \in {c1, c2, c3, c4, c5, c6, c7, c8, c9, c10, c11, c12} : Named(x) BY <1>1
    <2> QED BY <1>2, <2>1, TwelvePass
<1>5. c2 = {} /\ c3 = {} /\ c4 = {} /\ c9 = {} /\ c10 = {} /\ c11 = {} BY <1>4
<1> HIDE DEF f
<1>6. Answerable(f, req) BY <1>3, <1>5 DEF Gone, Answerable
<1> QED BY <1>6 DEF f

\* What the policy names is turned away for a hard reason.
LEMMA FactBlocked ==
    ASSUME NEW m, NEW p, NEW id, NEW req, <<"fact", id>> \in p.ids
    PROVE  FactReason(m, p, id, req) = "do_not_use"
<1> DEFINE f == m.facts[id]
           c1 == When(<<"fact", id>> \in p.ids, "do_not_use")
           c2 == When(f.privacy = "deleted", "deleted")
           c3 == When(f.privacy = "do_not_use", "do_not_use")
           c4 == When(f.user # req.user, "wrong_user")
           c5 == When(f.privacy = "sensitive" /\ ~ req.sensitive, "sensitive")
           c6 == When(f.evidence \cap p.episodes # {}, "deleted_evidence")
           c7 == When(MatchesErased(p, {Claim(f)}), "do_not_use_term")
           c8 == When(ConsentRevoked(p, {Claim(f)}, req.purpose), "consent_revoked")
           c9 == When(~ Historical(req) /\ f.until # NoTime, "invalidated")
           c10 == When(Historical(req) /\ f.at > req.as_of, "not_yet_valid")
           c11 == When(Historical(req) /\ f.until # NoTime /\ f.until <= req.as_of,
                       "not_valid_as_of_date")
           c12 == When(f.evidence = {}, "missing_provenance")
           C == <<c1, c2, c3, c4, c5, c6, c7, c8, c9, c10, c11, c12>>
<1>1. c1 = {"do_not_use"} BY DEF When
<1>2. FactReason(m, p, id, req) = FirstReason(C) BY DEF FactReason
<1> HIDE DEF c1, c2, c3, c4, c5, c6, c7, c8, c9, c10, c11, c12
<1>3. DOMAIN C = 1 .. 12 /\ C[1] = c1 BY ListOfTwelve
<1> HIDE DEF C
<1>4. \E j \in 1 .. 12 : j <= 1 /\ FirstReason(C) \in C[j]
    <2>1. C[1] # {} /\ 12 \in Nat /\ 1 \in 1 .. 12 /\ DOMAIN C = 1 .. 12 BY <1>1, <1>3
    <2> QED BY <2>1, FirstIs
<1>5. FirstReason(C) \in c1 BY <1>3, <1>4
<1> QED BY <1>1, <1>2, <1>5

LEMMA EventBlocked ==
    ASSUME NEW m, NEW p, NEW id, NEW req,
           EventHidden(m.events[id], p), m.events[id].evidence # {}
    PROVE  /\ EventReason(m, p, id, req) # ""
           /\ m.events[id].user = req.user => EventReason(m, p, id, req) \in HardReasons
<1> DEFINE e == m.events[id]
           c1 == When(e.user # req.user, "wrong_user")
           c2 == When(e.evidence = {}, "missing_provenance")
           c3 == When(e.evidence \cap p.episodes # {}, "deleted_evidence")
           c4 == When(MatchesErased(p, EventClaims(e)), "do_not_use_term")
           c5 == When(ConsentRevoked(p, EventClaims(e), req.purpose), "consent_revoked")
           c6 == When(EventClaims(e) \cap Unsafe # {}, "possible_prompt_injection")
           c7 == When(Historical(req) /\ e.at > req.as_of, "not_yet_valid")
           C == <<c1, c2, c3, c4, c5, c6, c7>>
<1>1. e.evidence \cap p.episodes # {} \/ MatchesErased(p, EventClaims(e))
    BY DEF EventHidden, MatchesErased, Hits, EventClaims
<1>2. /\ c1 \subseteq {"wrong_user"} /\ c2 = {}
      /\ c3 \subseteq {"deleted_evidence"} /\ c4 \subseteq {"do_not_use_term"}
      /\ e.user = req.user => c1 = {}
      /\ c3 # {} \/ c4 # {}
    <2> HIDE DEF e
    <2>1. e.evidence # {} BY DEF e
    <2> QED BY <1>1, <2>1 DEF When
<1>3. EventReason(m, p, id, req) = FirstReason(C) BY DEF EventReason
<1> HIDE DEF c1, c2, c3, c4, c5, c6, c7
<1>4. DOMAIN C = 1 .. 7 /\ C[1] = c1 /\ C[2] = c2 /\ C[3] = c3 /\ C[4] = c4 BY ListOfSeven
<1> HIDE DEF C, e
<1>5. \E j \in 1 .. 7 : j <= 4 /\ FirstReason(C) \in C[j]
    <2>1. CASE c3 # {}
        <3>1. C[3] # {} /\ 7 \in Nat /\ 3 \in 1 .. 7 /\ DOMAIN C = 1 .. 7 BY <2>1, <1>4
        <3>2. \E j \in 1 .. 7 : j <= 3 /\ FirstReason(C) \in C[j] BY <3>1, FirstIs
        <3> QED BY <3>2
    <2>2. CASE c4 # {}
        <3>1. C[4] # {} /\ 7 \in Nat /\ 4 \in 1 .. 7 /\ DOMAIN C = 1 .. 7 BY <2>2, <1>4
        <3> QED BY <3>1, FirstIs
    <2> QED BY <1>2, <2>1, <2>2
<1>6. FirstReason(C) \in c1 \cup c2 \cup c3 \cup c4 BY <1>4, <1>5
<1>7. /\ FirstReason(C) # ""
      /\ e.user = req.user => FirstReason(C) \in HardReasons
    BY <1>2, <1>6 DEF HardReasons
<1> QED BY <1>3, <1>7 DEF e

LEMMA ReflectionBlocked ==
    ASSUME NEW m, NEW p, NEW id, NEW req,
           m.reflections[id].evidence \cap p.episodes # {},
           m.reflections[id].status = "invalidated" => <<"reflection", id>> \in p.ids
    PROVE  /\ ReflectionReason(m, p, id, req) # ""
           /\ m.reflections[id].user = req.user /\ req.reflections =>
                ReflectionReason(m, p, id, req) \in HardReasons
<1> DEFINE r == m.reflections[id]
           c1 == When(~ req.reflections, "reflections_disabled")
           c2 == When(<<"reflection", id>> \in p.ids, "do_not_use")
           c3 == When(r.user # req.user, "wrong_user")
           c4 == When(r.status = "invalidated", "invalidated")
           c5 == When(r.evidence \cap p.episodes # {}, "deleted_evidence")
           c6 == When(MatchesErased(p, {Claim(r)}), "do_not_use_term")
           c7 == When(ConsentRevoked(p, {Claim(r)}, req.purpose), "consent_revoked")
           c8 == When(Cardinality(r.evidence) < 2, "weak_reflection_evidence")
           C == <<c1, c2, c3, c4, c5, c6, c7, c8>>
<1>1. /\ c1 \subseteq {"reflections_disabled"} /\ c2 \subseteq {"do_not_use"}
      /\ c3 \subseteq {"wrong_user"} /\ c4 \subseteq {"invalidated"}
      /\ c5 = {"deleted_evidence"}
      /\ req.reflections => c1 = {}
      /\ r.user = req.user => c3 = {}
      /\ c4 = {} \/ c2 = {"do_not_use"}
    <2> HIDE DEF r
    <2>1. r.evidence \cap p.episodes # {} /\ (r.status = "invalidated" => <<"reflection", id>> \in p.ids)
        BY DEF r
    <2> QED BY <2>1 DEF When
<1>2. ReflectionReason(m, p, id, req) = FirstReason(C) BY DEF ReflectionReason
<1> HIDE DEF c1, c2, c3, c4, c5, c6, c7, c8
<1>3. /\ DOMAIN C = 1 .. 8
      /\ C[1] = c1 /\ C[2] = c2 /\ C[3] = c3 /\ C[4] = c4 /\ C[5] = c5
    BY ListOfEight
<1> HIDE DEF C, r
<1>4. PICK j \in 1 .. 8 : j <= 5 /\ FirstReason(C) \in C[j]
    <2>1. C[5] # {} /\ 8 \in Nat /\ 5 \in 1 .. 8 /\ DOMAIN C = 1 .. 8 BY <1>1, <1>3
    <2> QED BY <2>1, FirstIs
<1>5. FirstReason(C) \in c1 \cup c2 \cup c3 \cup c4 \cup c5 BY <1>3, <1>4
<1>6. FirstReason(C) # "" BY <1>1, <1>5
<1>7. r.user = req.user /\ req.reflections => FirstReason(C) \in {"do_not_use", "deleted_evidence"}
    <2>1. SUFFICES ASSUME r.user = req.user, req.reflections
          PROVE  FirstReason(C) \in {"do_not_use", "deleted_evidence"}
        OBVIOUS
    <2>2. c1 = {} /\ c3 = {} BY <1>1, <2>1
    <2>3. CASE c4 = {} BY <1>1, <1>5, <2>2, <2>3
    <2>4. CASE c2 = {"do_not_use"}
        <3>1. C[2] # {} /\ 8 \in Nat /\ 2 \in 1 .. 8 /\ DOMAIN C = 1 .. 8 BY <2>4, <1>3
        <3>2. \E i \in 1 .. 8 : i <= 2 /\ FirstReason(C) \in C[i] BY <3>1, FirstIs
        <3>3. FirstReason(C) \in c1 \cup c2 BY <3>2, <1>3
        <3> QED BY <3>3, <2>2, <2>4
    <2> QED BY <1>1, <2>3, <2>4
<1> QED BY <1>2, <1>6, <1>7 DEF HardReasons, r

-----------------------------------------------------------------------------
(* What the invariant says of answers. *)

\* The latest event is one of those it is chosen from.
LEMMA LatestExists ==
    ASSUME NEW m, NEW n \in Nat, EventsShaped(m.events, n),
           NEW ids \in SUBSET DOMAIN m.events, ids # {}
    PROVE  LatestEvent(m, ids) \in ids
<1>1. Now \in Nat BY StackAssumption
<1>2. /\ \A i \in ids : i \in Nat
      /\ \A i \in ids : m.events[i].at \in Nat /\ m.events[i].at <= Now
    BY <1>1 DEF EventsShaped
<1> DEFINE at(i) == m.events[i].at
           gaps == {g \in 0 .. Now : \E i \in ids : g = Now - at(i)}
<1>3. gaps \in SUBSET Nat /\ gaps # {}
    <2>1. PICK i \in ids : TRUE OBVIOUS
    <2>2. Now - at(i) \in 0 .. Now BY <1>1, <1>2
    <2> QED BY <1>1, <2>2
<1>4. PICK g \in gaps : \A h \in gaps : g <= h BY <1>3, LeastExists
<1>5. PICK k \in ids : g = Now - at(k) BY <1>4
<1>6. \A i \in ids : at(i) <= at(k)
    <2>1. SUFFICES ASSUME NEW i \in ids PROVE at(i) <= at(k) OBVIOUS
    <2>2. Now - at(i) \in gaps BY <1>1, <1>2
    <2>3. Now - at(k) <= Now - at(i) BY <2>2, <1>4, <1>5
    <2> QED BY <2>3, <1>1, <1>2
<1> DEFINE latest == {i \in ids : at(i) = at(k)}
<1>7. latest \in SUBSET Nat /\ latest # {} BY <1>2, <1>5
<1>8. PICK l \in latest : \A j \in latest : l <= j BY <1>7, LeastExists
<1>9. \A i \in ids : at(i) < at(l) \/ (at(i) = at(l) /\ l <= i)
    BY <1>2, <1>5, <1>6, <1>8
<1> QED BY <1>8, <1>9 DEF LatestEvent

\* What is selected is in the memory, and nothing excludes it.
Unexcluded(m, p, req) ==
    {<<"fact", id>> : id \in {i \in DOMAIN m.facts : FactReason(m, p, i, req) = ""}}
    \cup {<<"event", id>> : id \in {i \in DOMAIN m.events : EventReason(m, p, i, req) = ""}}
    \cup {<<"reflection", id>> :
             id \in {i \in DOMAIN m.reflections : ReflectionReason(m, p, i, req) = ""}}

LEMMA SelectedIs ==
    ASSUME NEW m, NEW n \in Nat, Shaped(m, n), NEW p, NEW req
    PROVE  Selected(m, p, req) \subseteq Unexcluded(m, p, req)
<1> SUFFICES ASSUME NEW x \in Selected(m, p, req) PROVE x \in Unexcluded(m, p, req)
    OBVIOUS
<1> DEFINE events == MatchingEvents(m, p, req)
<1>1. CASE events # {} /\ x = <<"event", LatestEvent(m, events)>>
    <2>1. LatestEvent(m, events) \in events
        <3>1. events \in SUBSET DOMAIN m.events BY DEF MatchingEvents
        <3> QED BY <3>1, <1>1, LatestExists DEF Shaped
    <2> QED BY <1>1, <2>1 DEF MatchingEvents, Unexcluded
<1>2. CASE x \in {<<"fact", id>> : id \in Standing(m, p, req)}
    BY <1>2 DEF Standing, EligibleFacts, Unexcluded
<1>3. CASE x \in {<<"reflection", id>> : id \in EligibleReflections(m, p, req)}
    BY <1>3 DEF EligibleReflections, Unexcluded
<1> QED BY <1>1, <1>2, <1>3 DEF Selected

\* Two facts that may be answered together and differ know of their conflict.
LEMMA AnsweredTogether ==
    ASSUME NEW m, NEW n, NEW p, NEW req \in Requests, NEW s, NEW o \in BOOLEAN,
           FactsShaped(m.facts, n), Truth(m.facts, s, o), Historical(req) => o,
           NEW i \in EligibleFacts(m, p, req), NEW j \in EligibleFacts(m, p, req),
           m.facts[i].object # m.facts[j].object
    PROVE  m.facts[i].contested
<1> DEFINE f == m.facts[i]
           g == m.facts[j]
<1>1. /\ i \in DOMAIN m.facts /\ f.relation = req.relation
      /\ j \in DOMAIN m.facts /\ g.relation = req.relation
    BY DEF EligibleFacts, Relevant
<1>2. Answerable(f, req) /\ Answerable(g, req)
    <2>1. FactReason(m, p, i, req) = "" BY DEF EligibleFacts
    <2>2. FactReason(m, p, j, req) = "" BY DEF EligibleFacts
    <2>3. Answerable(f, req) BY <2>1, FactChecks
    <2>4. Answerable(g, req) BY <2>2, FactChecks
    <2> QED BY <2>3, <2>4
<1>4. Rivals(m.facts, i, j) BY <1>1, <1>2 DEF Rivals, Answerable
<1>5. CASE ~ Historical(req)
    <2>1. Active(f) /\ Active(g)
        <3> HIDE DEF f, g
        <3> QED BY <1>2, <1>5 DEF Active, Gone, Answerable
    <2> QED BY <1>1, <1>4, <2>1 DEF Truth, Separate
<1>6. CASE Historical(req)
    <2>1. req.as_of \in Nat BY StackAssumption DEF RetrievalRequest
    <2>2. f.at \in Nat /\ f.until \in Nat /\ g.at \in Nat /\ g.until \in Nat
        BY <1>1 DEF FactsShaped, TemporalFact
    <2>3. ~ Ended(f, g.at) /\ ~ Ended(g, f.at)
        <3> HIDE DEF f, g
        <3> QED BY <1>2, <1>6, <2>1, <2>2 DEF Ended, Answerable
    <2>4. Successive(m.facts) BY <1>6 DEF Truth
    <2> QED BY <1>1, <1>2, <1>4, <2>3, <2>4 DEF Successive, Answerable
<1> QED BY <1>5, <1>6

LEMMA SingleAnswerHolds == StackInv => SingleAnswer
<1> SUFFICES ASSUME StackInv, NEW req \in Requests, ~ Historical(req) \/ orderly
    PROVE  Cardinality(Answers(memory, policy, req)) <= 1
    BY DEF SingleAnswer
<1> DEFINE m == memory
           events == MatchingEvents(m, policy, req)
           facts == IF events = {} THEN Standing(m, policy, req) ELSE {}
           A == Answers(m, policy, req)
<1>1. born \in Nat /\ FactsShaped(m.facts, born) /\ Truth(m.facts, seen, orderly)
    BY StackAssumption DEF StackInv, Bounds, MemoryInv, Sound, Shaped
<1>2. SUFFICES ASSUME NEW a \in A, NEW b \in A, a # b PROVE FALSE BY OneAtMost
<1>3. ~ SafetyAbstains(m, policy, req, facts)
    <2>1. SafetyAbstains(m, policy, req, facts) => Selected(m, policy, req) = {} BY DEF Selected
    <2> QED BY <1>2, <2>1 DEF Answers
<1>4. CASE events # {}
    <2>1. Selected(m, policy, req) = {<<"event", LatestEvent(m, events)>>}
        BY <1>3, <1>4 DEF Selected
    <2> QED BY <1>2, <2>1 DEF Answers
<1>5. CASE events = {}
    <2>1. Selected(m, policy, req) =
             {<<"fact", id>> : id \in facts}
             \cup {<<"reflection", id>> : id \in EligibleReflections(m, policy, req)}
        BY <1>3, <1>5 DEF Selected
    <2>2. A = ObjectsOf(m, facts)
        <3>1. {x \in Selected(m, policy, req) : x[1] # "reflection"} = {<<"fact", id>> : id \in facts}
            <4> HIDE DEF facts
            <4> QED BY <2>1
        <3> DEFINE value(x) == IF x[1] = "fact" THEN m.facts[x[2]].object ELSE m.events[x[2]].object
        <3>2. A = {value(x) : x \in {<<"fact", id>> : id \in facts}} BY <3>1 DEF Answers
        <3>3. \A id : value(<<"fact", id>>) = m.facts[id].object OBVIOUS
        <3> HIDE DEF facts, value, A
        <3> QED BY <3>2, <3>3 DEF ObjectsOf
    <2>3. PICK i \in facts, j \in facts : m.facts[i].object = a /\ m.facts[j].object = b
        BY <1>2, <2>2 DEF ObjectsOf
    <2>4. facts \subseteq EligibleFacts(m, policy, req) BY <1>5 DEF Standing
    <2>5. m.facts[i].contested
        <3>1. /\ FactsShaped(m.facts, born) /\ Truth(m.facts, seen, orderly) /\ orderly \in BOOLEAN
              /\ Historical(req) => orderly
              /\ i \in EligibleFacts(m, policy, req) /\ j \in EligibleFacts(m, policy, req)
              /\ m.facts[i].object # m.facts[j].object
            BY <1>1, <1>2, <2>3, <2>4 DEF StackInv, Bounds
        <3> QED BY <3>1, AnsweredTogether
    <2>6. Cardinality(ObjectsOf(m, facts)) > 1
        <3>1. facts \subseteq 1 .. born BY <1>1, <2>4 DEF EligibleFacts, FactsShaped
        <3>2. IsFiniteSet(1 .. born) BY <1>1, FS_Interval
        <3>3. IsFiniteSet(facts) BY <3>1, <3>2, FS_Subset
        <3> DEFINE g == [id \in facts |-> m.facts[id].object]
        <3>4. IsFiniteSet({g[id] : id \in DOMAIN g}) BY <3>3, ValuesFinite
        <3>5. {g[id] : id \in DOMAIN g} = ObjectsOf(m, facts) BY DEF ObjectsOf
        <3> QED BY <1>2, <2>2, <3>4, <3>5, TwoAtLeast
    <2>7. SourceConflict(m, facts) BY <2>3, <2>5, <2>6 DEF SourceConflict
    <2> QED BY <1>3, <2>3, <2>7 DEF SafetyAbstains
<1> QED BY <1>4, <1>5

LEMMA OneTruthHolds == StackInv => OneTruth
BY DEF StackInv, MemoryInv, Sound, Truth, Separate, Rivals, OneTruth, Claim

LEMMA TypesHold == StackInv => TypeOK
<1> SUFFICES ASSUME StackInv PROVE TypeOK OBVIOUS
<1>1. Shaped(memory, born) /\ PolicyShaped(policy) /\ WithdrawnShaped(withdrawn, born) /\ Bounds
    BY DEF StackInv, MemoryInv, Sound
<1>2. /\ DOMAIN memory.facts \cup DOMAIN memory.events \subseteq 1 .. born
      /\ \A id \in DOMAIN memory.facts :
            /\ memory.facts[id] \in TemporalFact
            /\ memory.facts[id].by # NoFact =>
                  memory.facts[id].by > id /\ memory.facts[id].until # NoTime
      /\ \A id \in DOMAIN memory.events : memory.events[id] \in MemoryEvent
      /\ \A id \in DOMAIN memory.reflections : memory.reflections[id] \in Reflection
      /\ \A e \in DOMAIN memory.episodes : memory.episodes[e] \in Episode
    BY <1>1 DEF Shaped, FactsShaped, EventsShaped
<1>3. /\ \A w \in withdrawn : w[1] = "fact" => w[2] \in 1 .. born
      /\ policy.terms \cup policy.texts \subseteq Terms
      /\ pending = {} \/ HoldUntrusted
      /\ saves \in 0 .. world.saves /\ commands \in 0 .. world.commands
      /\ born \in 0 .. world.facts
    BY <1>1 DEF WithdrawnShaped, PolicyShaped, Bounds
<1> QED BY <1>2, <1>3 DEF TypeOK

\* What was withdrawn and is in the memory is not in the pool of either planner.
LEMMA HiddenFact ==
    ASSUME NEW m, NEW n \in Nat, Shaped(m, n), NEW p, NEW req,
           NEW w, w[1] = "fact",
           w[2] \in DOMAIN m.facts => <<"fact", w[2]>> \in p.ids,
           w[2] \in DOMAIN m.events => EventHidden(m.events[w[2]], p)
    PROVE  /\ w \notin Selected(m, p, req) /\ w \notin Pool(m, p, req)
           /\ <<"event", w[2]>> \notin Selected(m, p, req)
           /\ <<"event", w[2]>> \notin Pool(m, p, req)
<1>1. \A id \in DOMAIN m.facts : w = <<"fact", id>> => FactReason(m, p, id, req) = "do_not_use"
    <2>1. SUFFICES ASSUME NEW id \in DOMAIN m.facts, w = <<"fact", id>>
          PROVE  FactReason(m, p, id, req) = "do_not_use"
        OBVIOUS
    <2>2. w[2] = id BY <2>1
    <2>3. <<"fact", id>> \in p.ids BY <2>2
    <2> QED BY <2>3, FactBlocked
<1>2. \A id \in DOMAIN m.events : w[2] = id =>
          /\ EventReason(m, p, id, req) # ""
          /\ m.events[id].user = req.user => EventReason(m, p, id, req) \in HardReasons
    BY EventBlocked DEF Shaped, EventsShaped
<1>3. \A x : x[1] = "fact" =>
         /\ \A id : x # <<"event", id>> /\ x # <<"reflection", id>> /\ x # <<"episode", id>>
    OBVIOUS
<1>4. w \notin Selected(m, p, req)
    <2>1. SUFFICES ASSUME w \in Selected(m, p, req) PROVE FALSE OBVIOUS
    <2>2. w \in Unexcluded(m, p, req) BY <2>1, SelectedIs
    <2>3. PICK id \in DOMAIN m.facts : w = <<"fact", id>> /\ FactReason(m, p, id, req) = ""
        BY <2>2, <1>3 DEF Unexcluded
    <2> QED BY <1>1, <2>3
<1>5. <<"event", w[2]>> \notin Selected(m, p, req)
    <2>1. SUFFICES ASSUME <<"event", w[2]>> \in Selected(m, p, req) PROVE FALSE OBVIOUS
    <2>2. <<"event", w[2]>> \in Unexcluded(m, p, req) BY <2>1, SelectedIs
    <2>3. PICK id \in DOMAIN m.events :
             <<"event", w[2]>> = <<"event", id>> /\ EventReason(m, p, id, req) = ""
        BY <2>2 DEF Unexcluded
    <2> QED BY <1>2, <2>3
<1>6. w \notin Pool(m, p, req)
    <2>1. SUFFICES ASSUME w \in Pool(m, p, req) PROVE FALSE OBVIOUS
    <2>2. PICK id \in DOMAIN m.facts :
             w = <<"fact", id>> /\ FactReason(m, p, id, req) \notin HardReasons
        BY <2>1, <1>3 DEF Pool
    <2> QED BY <1>1, <2>2 DEF HardReasons
<1>7. <<"event", w[2]>> \notin Pool(m, p, req)
    <2>1. SUFFICES ASSUME <<"event", w[2]>> \in Pool(m, p, req) PROVE FALSE OBVIOUS
    <2>2. PICK id \in DOMAIN m.events :
             /\ <<"event", w[2]>> = <<"event", id>>
             /\ m.events[id].user = req.user /\ EventReason(m, p, id, req) \notin HardReasons
        BY <2>1 DEF Pool
    <2> QED BY <1>2, <2>2
<1> QED BY <1>4, <1>5, <1>6, <1>7

LEMMA HiddenReflection ==
    ASSUME NEW m, NEW n \in Nat, Shaped(m, n), NEW p, NEW req, HidesReflections(m.reflections, p),
           NEW id \in DOMAIN m.reflections, m.reflections[id].evidence \cap p.episodes # {}
    PROVE  /\ <<"reflection", id>> \notin Selected(m, p, req)
           /\ req.reflections => <<"reflection", id>> \notin Pool(m, p, req)
<1>1. /\ ReflectionReason(m, p, id, req) # ""
      /\ m.reflections[id].user = req.user /\ req.reflections =>
            ReflectionReason(m, p, id, req) \in HardReasons
    BY ReflectionBlocked DEF HidesReflections
<1>2. <<"reflection", id>> \notin Selected(m, p, req)
    <2>1. SUFFICES ASSUME <<"reflection", id>> \in Selected(m, p, req) PROVE FALSE OBVIOUS
    <2>2. PICK i \in DOMAIN m.reflections :
             <<"reflection", id>> = <<"reflection", i>> /\ ReflectionReason(m, p, i, req) = ""
        BY <2>1, SelectedIs DEF Unexcluded
    <2> QED BY <1>1, <2>2
<1>3. ASSUME req.reflections PROVE <<"reflection", id>> \notin Pool(m, p, req)
    <2>1. SUFFICES ASSUME <<"reflection", id>> \in Pool(m, p, req) PROVE FALSE OBVIOUS
    <2>2. PICK i \in DOMAIN m.reflections :
             /\ <<"reflection", id>> = <<"reflection", i>> /\ m.reflections[i].user = req.user
             /\ ReflectionReason(m, p, i, req) \notin HardReasons
        BY <2>1 DEF Pool
    <2> QED BY <1>1, <1>3, <2>2
<1> QED BY <1>2, <1>3

LEMMA ForgottenHidden == StackInv => ForgottenNeverSelected
<1> SUFFICES ASSUME StackInv, NEW req \in Requests, NEW w \in withdrawn
    PROVE  LET selected == Selected(memory, policy, req)
               pool == Pool(memory, policy, req)
           IN  IF w[1] = "fact"
               THEN {w, <<"event", w[2]>>} \cap (selected \cup pool) = {}
               ELSE \A id \in DOMAIN memory.reflections :
                       w[2] \in memory.reflections[id].evidence =>
                           /\ <<"reflection", id>> \notin selected
                           /\ req.reflections => <<"reflection", id>> \notin pool
    BY DEF ForgottenNeverSelected
<1>1. born \in Nat /\ Shaped(memory, born) /\ Hides(withdrawn, memory, policy)
    BY StackAssumption DEF StackInv, Bounds, MemoryInv, Sound
<1>2. CASE w[1] = "fact"
    <2>1. /\ w[2] \in DOMAIN memory.facts => <<"fact", w[2]>> \in policy.ids
          /\ w[2] \in DOMAIN memory.events => EventHidden(memory.events[w[2]], policy)
        BY <1>1, <1>2 DEF Hides, HidesFacts
    <2>2. /\ w \notin Selected(memory, policy, req) /\ w \notin Pool(memory, policy, req)
          /\ <<"event", w[2]>> \notin Selected(memory, policy, req)
          /\ <<"event", w[2]>> \notin Pool(memory, policy, req)
        BY <1>1, <1>2, <2>1, HiddenFact
    <2> QED BY <1>2, <2>2
<1>3. CASE w[1] # "fact"
    <2>1. w[2] \in policy.episodes BY <1>1, <1>3 DEF Hides, HidesEpisodes
    <2>2. HidesReflections(memory.reflections, policy) BY <1>1 DEF Hides
    <2>3. \A id \in DOMAIN memory.reflections :
              w[2] \in memory.reflections[id].evidence =>
                  /\ <<"reflection", id>> \notin Selected(memory, policy, req)
                  /\ req.reflections => <<"reflection", id>> \notin Pool(memory, policy, req)
        BY <1>1, <2>1, <2>2, HiddenReflection
    <2> QED BY <1>3, <2>3
<1> QED BY <1>2, <1>3

-----------------------------------------------------------------------------
(* How the parts of the invariant carry over. *)

\* What held of the memory holds when numbers were given out and statements came since.
LEMMA SoundLater ==
    ASSUME NEW m, NEW p, NEW w, NEW n \in Nat, NEW k \in Nat, n <= k,
           NEW s, NEW t, s \subseteq t, NEW o \in BOOLEAN, NEW q \in BOOLEAN, q => o,
           Sound(m, p, w, n, s, o)
    PROVE  Sound(m, p, w, k, t, q)
<1>1. 1 .. n \subseteq 1 .. k OBVIOUS
<1>2. FactsShaped(m.facts, k) /\ EventsShaped(m.events, k)
    BY <1>1 DEF Sound, Shaped, FactsShaped, EventsShaped
<1>3. WithdrawnShaped(w, k) BY <1>1 DEF Sound, WithdrawnShaped
<1>4. Truth(m.facts, t, q) BY DEF Sound, Truth, Dated
<1> QED BY <1>2, <1>3, <1>4 DEF Sound, Shaped

PartOf(S, T) == DOMAIN S \subseteq DOMAIN T /\ \A id \in DOMAIN S : S[id] = T[id]
MemoryPart(l, m) ==
    /\ DOMAIN l = {"facts", "events", "reflections", "quarantined", "episodes", "unresolved"}
    /\ PartOf(l.facts, m.facts) /\ PartOf(l.events, m.events)
    /\ PartOf(l.reflections, m.reflections) /\ PartOf(l.episodes, m.episodes)
    /\ l.quarantined \subseteq m.quarantined
PolicyGrows(p, q) ==
    p.episodes \subseteq q.episodes /\ p.ids \subseteq q.ids /\ p.terms \subseteq q.terms

LEMMA HidesGrows ==
    ASSUME NEW w, NEW m, NEW p, NEW q, PolicyGrows(p, q), Hides(w, m, p)
    PROVE  Hides(w, m, q)
<1>1. \A e : EventHidden(e, p) => EventHidden(e, q)
    BY DEF PolicyGrows, EventHidden, Hits
<1>2. HidesFacts(w, m.facts, m.events, q)
    BY <1>1 DEF Hides, HidesFacts, PolicyGrows
<1>3. HidesEpisodes(w, q) /\ HidesReflections(m.reflections, q)
    BY DEF Hides, HidesEpisodes, HidesReflections, PolicyGrows
<1> QED BY <1>2, <1>3 DEF Hides

LEMMA HidesPart ==
    ASSUME NEW w, NEW l, NEW m, NEW p, MemoryPart(l, m), Hides(w, m, p)
    PROVE  Hides(w, l, p)
<1>1. HidesFacts(w, l.facts, l.events, p)
    BY DEF Hides, HidesFacts, MemoryPart, PartOf
<1>2. HidesReflections(l.reflections, p)
    BY DEF Hides, HidesReflections, MemoryPart, PartOf
<1> QED BY <1>1, <1>2 DEF Hides

\* A part of a sound memory is sound, and its events are still those of the facts.
LEMMA PartSound ==
    ASSUME NEW l, NEW m, MemoryPart(l, m), NEW p, NEW w, NEW n, NEW s, NEW o \in BOOLEAN,
           Sound(m, p, w, n, s, o)
    PROVE  Sound(l, p, w, n, s, o) /\ Kin(l.events, m.facts)
<1>1. FactsShaped(l.facts, n)
    BY DEF Sound, Shaped, FactsShaped, MemoryPart, PartOf
<1>2. EventsShaped(l.events, n)
    BY DEF Sound, Shaped, EventsShaped, MemoryPart, PartOf
<1>3. Shaped(l, n)
    BY <1>1, <1>2 DEF Sound, Shaped, MemoryPart, PartOf
<1>4. Separate(l.facts)
    BY DEF Sound, Truth, Separate, Rivals, MemoryPart, PartOf
<1>5. o => Dated(l.facts, s)
    BY DEF Sound, Truth, Dated, MemoryPart, PartOf
<1>6. o => Successive(l.facts)
    BY DEF Sound, Truth, Successive, Rivals, MemoryPart, PartOf
<1>7. Kin(l.events, l.facts) /\ Kin(l.events, m.facts)
    BY DEF Sound, Kin, MemoryPart, PartOf
<1>8. Hides(w, l, p) BY HidesPart DEF Sound
<1> QED BY <1>3, <1>4, <1>5, <1>6, <1>7, <1>8 DEF Sound, Truth

LEMMA MergedIs ==
    ASSUME NEW p, NEW q, PolicyShaped(p), PolicyShaped(q)
    PROVE  /\ PolicyShaped(MergedPolicy(p, q))
           /\ PolicyGrows(p, MergedPolicy(p, q)) /\ PolicyGrows(q, MergedPolicy(p, q))
           /\ MergedPolicy(p, q).episodes = p.episodes \cup q.episodes
           /\ MergedPolicy(p, q).ids = p.ids \cup q.ids
           /\ MergedPolicy(p, q).terms = p.terms \cup q.terms
<1> DEFINE r == MergedPolicy(p, q)
<1>1. /\ DOMAIN r = DOMAIN p
      /\ r.episodes = p.episodes \cup q.episodes /\ r.ids = p.ids \cup q.ids
      /\ r.terms = p.terms \cup q.terms /\ r.texts = p.texts
    BY DEF PolicyShaped, MergedPolicy
<1>2. PolicyShaped(r)
    <2> HIDE DEF r
    <2> QED BY <1>1 DEF PolicyShaped
<1>3. PolicyGrows(p, r) /\ PolicyGrows(q, r)
    <2> HIDE DEF r
    <2> QED BY <1>1 DEF PolicyGrows
<1> QED BY <1>1, <1>2, <1>3

\* A snapshot of a part of the memory restores it.
LEMMA PartRestores ==
    ASSUME NEW t, NEW m, MemoryPart(t.memory, m), NEW p, t.policy = p, NEW w, t.withdrawn = w,
           NEW n, NEW s, NEW o \in BOOLEAN, Sound(m, p, w, n, s, o)
    PROVE  Sound(t.memory, t.policy, t.withdrawn, n, s, o) /\ Restores(t, m, p, w)
<1>1. Sound(t.memory, p, w, n, s, o) /\ Kin(t.memory.events, m.facts) BY PartSound
<1>2. Hides(w, t.memory, p) BY <1>1 DEF Sound
<1>3. PolicyGrows(p, MergedPolicy(p, p)) BY MergedIs DEF Sound
<1>4. Hides(w, t.memory, MergedPolicy(p, p)) BY <1>2, <1>3, HidesGrows
<1>5. w \cup t.withdrawn = w OBVIOUS
<1> QED BY <1>1, <1>4, <1>5 DEF Restores

\* A snapshot that was loaded restores itself.
LEMMA LoadedRestores ==
    ASSUME NEW t, NEW n, NEW s, NEW o \in BOOLEAN,
           Sound(t.memory, t.policy, t.withdrawn, n, s, o)
    PROVE  Restores(t, t.memory, t.policy, t.withdrawn)
<1>1. Hides(t.withdrawn, t.memory, t.policy) /\ Kin(t.memory.events, t.memory.facts)
      /\ PolicyShaped(t.policy)
    BY DEF Sound
<1>2. PolicyGrows(t.policy, MergedPolicy(t.policy, t.policy)) BY <1>1, MergedIs
<1>3. Hides(t.withdrawn, t.memory, MergedPolicy(t.policy, t.policy)) BY <1>1, <1>2, HidesGrows
<1>4. t.withdrawn \cup t.withdrawn = t.withdrawn OBVIOUS
<1> QED BY <1>1, <1>3, <1>4 DEF Restores

\* A restore with merge_from() is sound, and so is the next one.
LEMMA MergedSound ==
    ASSUME NEW t, NEW m, NEW p, NEW w, NEW n, NEW s, NEW o \in BOOLEAN,
           Sound(m, p, w, n, s, o), Sound(t.memory, t.policy, t.withdrawn, n, s, o),
           Restores(t, m, p, w)
    PROVE  /\ Sound(t.memory, MergedPolicy(t.policy, p), w \cup t.withdrawn, n, s, o)
           /\ Restores(t, t.memory, MergedPolicy(t.policy, p), w \cup t.withdrawn)
<1> DEFINE q == MergedPolicy(t.policy, p)
           v == w \cup t.withdrawn
<1>1. PolicyShaped(q) BY MergedIs DEF Sound
<1>2. WithdrawnShaped(v, n) BY DEF Sound, WithdrawnShaped
<1>3. Hides(v, t.memory, q) BY DEF Restores
<1>4. PolicyGrows(q, MergedPolicy(t.policy, q)) BY <1>1, MergedIs DEF Sound
<1>5. Hides(v \cup t.withdrawn, t.memory, MergedPolicy(t.policy, q))
    <2>1. v \cup t.withdrawn = v OBVIOUS
    <2> HIDE DEF v, q
    <2> QED BY <1>3, <1>4, <2>1, HidesGrows
<1> HIDE DEF v, q
<1>6. Sound(t.memory, q, v, n, s, o) BY <1>1, <1>2, <1>3 DEF Sound
<1>7. Restores(t, t.memory, q, v) BY <1>5 DEF Restores, Sound
<1> QED BY <1>6, <1>7 DEF q, v

-----------------------------------------------------------------------------
(* Revocations. *)

\* What a revocation makes withdrawn: a fact it reaches, whose evidence it deletes or
\* whose words it names, or an episode that it deletes.
NewlyWithdrawn(x, m, term, user, episodes) ==
    \/ \E id \in Reached(m.facts, term, user) :
          /\ x = <<"fact", id>>
          /\ m.facts[id].evidence \subseteq episodes \/ Claim(m.facts[id]) \in TokenHits[term]
    \/ \E e \in episodes : x = <<"episode", e>>

LEMMA RestrictedIs ==
    ASSUME NEW p, PolicyShaped(p), NEW m, NEW term \in Terms, NEW user, NEW episodes
    PROVE  LET q == Restricted(p, m, term, user, episodes)
           IN  /\ PolicyShaped(q) /\ PolicyGrows(p, q)
               /\ episodes \subseteq q.episodes /\ term \in q.terms
               /\ \A id \in Reached(m.facts, term, user) : <<"fact", id>> \in q.ids
               /\ \A id \in Reached(m.reflections, term, user) : <<"reflection", id>> \in q.ids
<1> DEFINE q == Restricted(p, m, term, user, episodes)
<1>1. /\ DOMAIN q = DOMAIN p
      /\ q.terms = p.terms \cup {term} /\ q.texts = p.texts \cup {term}
      /\ q.ids = p.ids \cup {<<"fact", id>> : id \in Reached(m.facts, term, user)}
                       \cup {<<"reflection", id>> : id \in Reached(m.reflections, term, user)}
      /\ q.episodes = p.episodes \cup episodes
    BY DEF Restricted, PolicyShaped
<1> HIDE DEF q
<1>2. PolicyShaped(q) BY <1>1 DEF PolicyShaped
<1>3. PolicyGrows(p, q) BY <1>1 DEF PolicyGrows
<1>4. \A id \in Reached(m.facts, term, user) : <<"fact", id>> \in q.ids BY <1>1
<1>5. \A id \in Reached(m.reflections, term, user) : <<"reflection", id>> \in q.ids BY <1>1
<1> QED BY <1>1, <1>2, <1>3, <1>4, <1>5 DEF q

\* What is withdrawn is hidden at once, in the memory and in any snapshot with its events.
LEMMA WithdrawnHidden ==
    ASSUME NEW m, NEW term \in Terms, NEW user, NEW episodes, NEW F, NEW E, NEW k,
           Kin(E, m.facts), EventsShaped(E, k), NEW q, NEW w, NEW v,
           HidesFacts(w, F, E, q), HidesEpisodes(w, q),
           episodes \subseteq q.episodes, term \in q.terms,
           \A id \in Reached(m.facts, term, user) : <<"fact", id>> \in q.ids,
           \A x \in v : x \in w \/ NewlyWithdrawn(x, m, term, user, episodes)
    PROVE  HidesFacts(v, F, E, q) /\ HidesEpisodes(v, q)
<1>1. ASSUME NEW x \in v, x[1] = "fact"
      PROVE  /\ x[2] \in DOMAIN F => <<"fact", x[2]>> \in q.ids
             /\ x[2] \in DOMAIN E => EventHidden(E[x[2]], q)
    <2>1. CASE x \in w BY <1>1, <2>1 DEF HidesFacts
    <2>2. CASE NewlyWithdrawn(x, m, term, user, episodes)
        <3>1. PICK id \in Reached(m.facts, term, user) :
                 /\ x = <<"fact", id>>
                 /\ m.facts[id].evidence \subseteq episodes \/ Claim(m.facts[id]) \in TokenHits[term]
            BY <1>1, <2>2 DEF NewlyWithdrawn
        <3>2. x[2] = id /\ id \in DOMAIN m.facts BY <3>1 DEF Reached
        <3>3. ASSUME id \in DOMAIN E PROVE EventHidden(E[id], q)
            <4>1. /\ Claim(E[id]) = Claim(m.facts[id]) /\ E[id].evidence \subseteq m.facts[id].evidence
                  /\ E[id].evidence # {}
                BY <3>2, <3>3 DEF Kin, EventsShaped
            <4>2. CASE m.facts[id].evidence \subseteq episodes
                BY <4>1, <4>2 DEF EventHidden
            <4>3. CASE Claim(m.facts[id]) \in TokenHits[term]
                BY <4>1, <4>3 DEF EventHidden, Hits
            <4> QED BY <3>1, <4>2, <4>3
        <3> QED BY <3>1, <3>2, <3>3
    <2> QED BY <2>1, <2>2
<1>2. ASSUME NEW x \in v PROVE x[1] = "fact" \/ x[2] \in q.episodes
    <2>1. CASE x \in w BY <2>1 DEF HidesEpisodes
    <2>2. CASE NewlyWithdrawn(x, m, term, user, episodes) BY <2>2 DEF NewlyWithdrawn
    <2> QED BY <2>1, <2>2
<1> QED BY <1>1, <1>2 DEF HidesFacts, HidesEpisodes

\* A mark changes the privacy of facts and the status of reflections, nothing else.
LEMMA MarkedIs ==
    ASSUME NEW m, NEW n, Shaped(m, n), NEW term, NEW user, NEW privacy \in Gone
    PROVE  LET l == Marked(m, term, user, privacy)
           IN  /\ Shaped(l, n)
               /\ DOMAIN l.facts = DOMAIN m.facts /\ l.events = m.events
               /\ \A id \in DOMAIN m.facts :
                     /\ l.facts[id].privacy \in {privacy, m.facts[id].privacy}
                     /\ l.facts[id].user = m.facts[id].user
                     /\ l.facts[id].relation = m.facts[id].relation
                     /\ l.facts[id].object = m.facts[id].object
                     /\ l.facts[id].at = m.facts[id].at /\ l.facts[id].until = m.facts[id].until
                     /\ l.facts[id].evidence = m.facts[id].evidence
                     /\ l.facts[id].contested = m.facts[id].contested
               /\ DOMAIN l.reflections = DOMAIN m.reflections
               /\ \A id \in DOMAIN m.reflections :
                     l.reflections[id].status = "invalidated" =>
                        \/ id \in Reached(m.reflections, term, user)
                        \/ m.reflections[id].status = "invalidated"
<1> DEFINE l == Marked(m, term, user, privacy)
           F == m.facts
           R == m.reflections
           marked(f) == [f EXCEPT !.privacy = privacy]
           void(r) == [r EXCEPT !.status = "invalidated"]
<1>1. /\ DOMAIN l = DOMAIN m
      /\ l.facts = [id \in DOMAIN F |-> IF id \in Reached(F, term, user) THEN marked(F[id]) ELSE F[id]]
      /\ l.reflections = [id \in DOMAIN R |-> IF id \in Reached(R, term, user) THEN void(R[id]) ELSE R[id]]
      /\ l.events = m.events /\ l.episodes = m.episodes /\ l.quarantined = m.quarantined
    BY DEF Marked, Shaped
<1>2. ASSUME NEW f \in TemporalFact
      PROVE  /\ marked(f) \in TemporalFact /\ marked(f).privacy = privacy
             /\ marked(f).user = f.user /\ marked(f).relation = f.relation
             /\ marked(f).object = f.object /\ marked(f).at = f.at /\ marked(f).until = f.until
             /\ marked(f).evidence = f.evidence /\ marked(f).contested = f.contested
             /\ marked(f).by = f.by
    BY DEF TemporalFact, Gone
<1>3. ASSUME NEW r \in Reflection PROVE void(r) \in Reflection
    BY DEF Reflection
<1>4. \A id \in DOMAIN F : F[id] \in TemporalFact BY DEF Shaped, FactsShaped
<1>5. \A id \in DOMAIN R : R[id] \in Reflection BY DEF Shaped
<1> HIDE DEF l, marked, void
<1>6. /\ DOMAIN l.facts = DOMAIN F
      /\ \A id \in DOMAIN F :
            /\ l.facts[id].privacy \in {privacy, F[id].privacy}
            /\ l.facts[id].user = F[id].user /\ l.facts[id].relation = F[id].relation
            /\ l.facts[id].object = F[id].object
            /\ l.facts[id].at = F[id].at /\ l.facts[id].until = F[id].until
            /\ l.facts[id].evidence = F[id].evidence
            /\ l.facts[id].contested = F[id].contested
            /\ l.facts[id].by = F[id].by
            /\ l.facts[id] \in TemporalFact
    BY <1>1, <1>2, <1>4
<1>7. FactsShaped(l.facts, n)
    <2>1. FactsShaped(F, n) BY DEF Shaped
    <2> QED BY <2>1, <1>6 DEF FactsShaped
<1>8. /\ DOMAIN l.reflections = DOMAIN R
      /\ \A id \in DOMAIN R :
            /\ l.reflections[id] \in Reflection
            /\ l.reflections[id].status = "invalidated" =>
                  id \in Reached(R, term, user) \/ R[id].status = "invalidated"
    BY <1>1, <1>3, <1>5
<1>9. Shaped(l, n) BY <1>1, <1>7, <1>8 DEF Shaped
<1> QED BY <1>1, <1>6, <1>8, <1>9 DEF l

LEMMA MarkSound ==
    ASSUME NEW m, NEW p, NEW w, NEW n, NEW s, NEW o \in BOOLEAN, Sound(m, p, w, n, s, o),
           NEW term \in Terms, NEW user, NEW privacy \in Gone, NEW episodes, NEW v,
           \A x \in v : x \in w \/ NewlyWithdrawn(x, m, term, user, episodes)
    PROVE  Sound(Marked(m, term, user, privacy), Restricted(p, m, term, user, episodes), v, n, s, o)
<1> DEFINE l == Marked(m, term, user, privacy)
           q == Restricted(p, m, term, user, episodes)
<1>1. /\ Shaped(m, n) /\ PolicyShaped(p) /\ WithdrawnShaped(w, n) /\ Truth(m.facts, s, o)
      /\ Kin(m.events, m.facts) /\ Hides(w, m, p)
    BY DEF Sound
<1>2. /\ Shaped(l, n)
      /\ DOMAIN l.facts = DOMAIN m.facts /\ l.events = m.events
      /\ \A id \in DOMAIN m.facts :
            /\ l.facts[id].privacy \in {privacy, m.facts[id].privacy}
            /\ l.facts[id].user = m.facts[id].user
            /\ l.facts[id].relation = m.facts[id].relation
            /\ l.facts[id].object = m.facts[id].object
            /\ l.facts[id].at = m.facts[id].at /\ l.facts[id].until = m.facts[id].until
            /\ l.facts[id].evidence = m.facts[id].evidence
            /\ l.facts[id].contested = m.facts[id].contested
      /\ DOMAIN l.reflections = DOMAIN m.reflections
      /\ \A id \in DOMAIN m.reflections :
            l.reflections[id].status = "invalidated" =>
               \/ id \in Reached(m.reflections, term, user)
               \/ m.reflections[id].status = "invalidated"
    BY <1>1, MarkedIs
<1>3. /\ PolicyShaped(q) /\ PolicyGrows(p, q)
      /\ episodes \subseteq q.episodes /\ term \in q.terms
      /\ \A id \in Reached(m.facts, term, user) : <<"fact", id>> \in q.ids
      /\ \A id \in Reached(m.reflections, term, user) : <<"reflection", id>> \in q.ids
    BY <1>1, RestrictedIs
<1> HIDE DEF l, q
<1>4. WithdrawnShaped(v, n)
    <2>1. SUFFICES ASSUME NEW x \in v, x[1] = "fact" PROVE x[2] \in 1 .. n BY DEF WithdrawnShaped
    <2>2. CASE x \in w BY <1>1, <2>1, <2>2 DEF WithdrawnShaped
    <2>3. CASE NewlyWithdrawn(x, m, term, user, episodes)
        <3>1. x[2] \in DOMAIN m.facts BY <2>1, <2>3 DEF NewlyWithdrawn, Reached
        <3> QED BY <1>1, <3>1 DEF Shaped, FactsShaped
    <2> QED BY <2>2, <2>3
<1>5. Truth(l.facts, s, o)
    <2>1. \A id \in DOMAIN m.facts :
             l.facts[id].privacy \notin Gone => l.facts[id].privacy = m.facts[id].privacy
        BY <1>2
    <2>2. \A id \in DOMAIN m.facts : Active(l.facts[id]) => Active(m.facts[id])
        BY <1>2, <2>1 DEF Active, Gone
    <2>3. \A i, j \in DOMAIN m.facts : Rivals(l.facts, i, j) => Rivals(m.facts, i, j)
        BY <1>2 DEF Rivals
    <2>4. Separate(l.facts) BY <1>1, <1>2, <2>2, <2>3 DEF Truth, Separate
    <2>5. o => Dated(l.facts, s) BY <1>1, <1>2 DEF Truth, Dated
    <2>6. ASSUME o PROVE Successive(l.facts)
        <3>1. Successive(m.facts) BY <1>1, <2>6 DEF Truth
        <3>2. \A i, j \in DOMAIN m.facts :
                 Ended(l.facts[i], l.facts[j].at) <=> Ended(m.facts[i], m.facts[j].at)
            BY <1>2 DEF Ended
        <3>3. SUFFICES ASSUME NEW i \in DOMAIN m.facts, NEW j \in DOMAIN m.facts,
                              Rivals(l.facts, i, j), l.facts[i].object # l.facts[j].object,
                              l.facts[i].privacy \notin Gone, l.facts[j].privacy \notin Gone
              PROVE  \/ Ended(l.facts[i], l.facts[j].at) \/ Ended(l.facts[j], l.facts[i].at)
                     \/ l.facts[i].contested /\ l.facts[j].contested
            BY <1>2 DEF Successive
        <3>4. /\ Rivals(m.facts, i, j) /\ m.facts[i].object # m.facts[j].object
              /\ m.facts[i].privacy \notin Gone /\ m.facts[j].privacy \notin Gone
            BY <1>2, <2>1, <2>3, <3>3
        <3>5. \/ Ended(m.facts[i], m.facts[j].at) \/ Ended(m.facts[j], m.facts[i].at)
              \/ m.facts[i].contested /\ m.facts[j].contested
            BY <3>1, <3>4 DEF Successive
        <3> QED BY <1>2, <3>2, <3>5
    <2> QED BY <2>4, <2>5, <2>6 DEF Truth
<1>6. Kin(l.events, l.facts) BY <1>1, <1>2 DEF Kin, Claim
<1>7. Hides(v, l, q)
    <2>1. Hides(w, m, q) BY <1>1, <1>3, HidesGrows
    <2>2. EventsShaped(m.events, n) BY <1>1 DEF Shaped
    <2>3. HidesFacts(v, m.facts, m.events, q) /\ HidesEpisodes(v, q)
        BY <1>1, <1>3, <2>1, <2>2, WithdrawnHidden DEF Hides
    <2>4. HidesFacts(v, l.facts, l.events, q) BY <1>2, <2>3 DEF HidesFacts
    <2>5. HidesReflections(l.reflections, q)
        BY <1>2, <1>3, <2>1 DEF Hides, HidesReflections
    <2> QED BY <2>3, <2>4, <2>5 DEF Hides
<1>8. Sound(l, q, v, n, s, o) BY <1>2, <1>3, <1>4, <1>5, <1>6, <1>7 DEF Sound
<1> QED BY <1>8 DEF l, q

LEMMA MarkRestores ==
    ASSUME NEW m, NEW p, NEW w, NEW n, NEW s, NEW o \in BOOLEAN, Sound(m, p, w, n, s, o),
           NEW term \in Terms, NEW user, NEW privacy \in Gone, NEW episodes, NEW v,
           \A x \in v : x \in w \/ NewlyWithdrawn(x, m, term, user, episodes),
           NEW t, Sound(t.memory, t.policy, t.withdrawn, n, s, o), Restores(t, m, p, w)
    PROVE  Restores(t, Marked(m, term, user, privacy),
                    Restricted(p, m, term, user, episodes), v)
<1> DEFINE l == Marked(m, term, user, privacy)
           q == Restricted(p, m, term, user, episodes)
           r == MergedPolicy(t.policy, p)
           k == MergedPolicy(t.policy, q)
<1>1. Shaped(m, n) /\ PolicyShaped(p) BY DEF Sound
<1>2. /\ DOMAIN l.facts = DOMAIN m.facts
      /\ \A id \in DOMAIN m.facts :
            /\ l.facts[id].relation = m.facts[id].relation
            /\ l.facts[id].object = m.facts[id].object
            /\ l.facts[id].evidence = m.facts[id].evidence
    BY <1>1, MarkedIs
<1>3. /\ PolicyShaped(q) /\ PolicyGrows(p, q)
      /\ episodes \subseteq q.episodes /\ term \in q.terms
      /\ \A id \in Reached(m.facts, term, user) : <<"fact", id>> \in q.ids
    BY <1>1, RestrictedIs
<1>4. PolicyShaped(t.policy) /\ EventsShaped(t.memory.events, n) BY DEF Sound, Shaped
<1> HIDE DEF l, q
<1>5. PolicyGrows(r, k) /\ PolicyGrows(q, k)
    <2>1. /\ r.episodes = t.policy.episodes \cup p.episodes /\ r.ids = t.policy.ids \cup p.ids
          /\ r.terms = t.policy.terms \cup p.terms
        BY <1>1, <1>4, MergedIs
    <2>2. /\ k.episodes = t.policy.episodes \cup q.episodes /\ k.ids = t.policy.ids \cup q.ids
          /\ k.terms = t.policy.terms \cup q.terms /\ PolicyGrows(q, k)
        BY <1>3, <1>4, MergedIs
    <2> HIDE DEF r, k
    <2> QED BY <1>3, <2>1, <2>2 DEF PolicyGrows
<1>6. Kin(t.memory.events, m.facts) /\ Hides(w \cup t.withdrawn, t.memory, r) BY DEF Restores
<1> HIDE DEF r, k
<1>7. Kin(t.memory.events, l.facts) BY <1>2, <1>6 DEF Kin, Claim
<1>8. Hides(w \cup t.withdrawn, t.memory, k) BY <1>5, <1>6, HidesGrows
<1>9. /\ HidesFacts(v \cup t.withdrawn, t.memory.facts, t.memory.events, k)
      /\ HidesEpisodes(v \cup t.withdrawn, k)
    <2>1. /\ HidesFacts(w \cup t.withdrawn, t.memory.facts, t.memory.events, k)
          /\ HidesEpisodes(w \cup t.withdrawn, k)
        BY <1>8 DEF Hides
    <2>2. /\ episodes \subseteq k.episodes /\ term \in k.terms
          /\ \A id \in Reached(m.facts, term, user) : <<"fact", id>> \in k.ids
        BY <1>3, <1>5 DEF PolicyGrows
    <2>3. \A x \in v \cup t.withdrawn :
             x \in w \cup t.withdrawn \/ NewlyWithdrawn(x, m, term, user, episodes)
        OBVIOUS
    <2> DEFINE gone == v \cup t.withdrawn
               before == w \cup t.withdrawn
               F == t.memory.facts
               E == t.memory.events
    <2>4. /\ HidesFacts(before, F, E, k) /\ HidesEpisodes(before, k)
          /\ Kin(E, m.facts) /\ EventsShaped(E, n)
          /\ \A x \in gone : x \in before \/ NewlyWithdrawn(x, m, term, user, episodes)
        BY <1>4, <1>6, <2>1, <2>3
    <2> HIDE DEF gone, before, F, E
    <2>5. HidesFacts(gone, F, E, k) /\ HidesEpisodes(gone, k)
        BY <2>2, <2>4, WithdrawnHidden
    <2> QED BY <2>5 DEF gone, F, E
<1>10. Hides(v \cup t.withdrawn, t.memory, k) BY <1>8, <1>9 DEF Hides
<1> QED BY <1>7, <1>10 DEF Restores, l, q, k

-----------------------------------------------------------------------------
(* Storing a statement. *)

\* A statement that may be stored.
Statement(c) ==
    /\ c.user \in Users /\ c.relation \in Relations /\ c.object \in Objects
    /\ c.evidence \in SUBSET Evidence /\ c.evidence # {} /\ c.at \in 1 .. Now

LEMMA SourceKnown ==
    ASSUME NEW source
    PROVE  SourceMetadata(source).type \in SourceTypes /\ SourceMetadata(source).rank \in 1 .. 4
BY DEF SourceMetadata, SourceTypes

LEMMA VerdictKnown ==
    ASSUME NEW f, NEW c
    PROVE  Verdict(f, c) \in {"merge", "came_before", "supersede", "keep_existing", "store_conflict"}
<1>1. \A type, rank : Decision(f, type, rank) \in {"supersede", "keep_existing", "store_conflict"}
    BY DEF Decision
<1> QED BY <1>1 DEF Verdict

\* A fact that meets a statement stays about the same; it may gain evidence, sources and
\* the mark of a conflict, and lose its validity to a later statement.
Kept(f, g) ==
    /\ g.user = f.user /\ g.relation = f.relation /\ g.object = f.object
    /\ g.at = f.at /\ g.privacy = f.privacy
    /\ f.evidence \subseteq g.evidence /\ (f.contested => g.contested)

LEMMA MergedKept ==
    ASSUME NEW f \in TemporalFact, NEW c, Statement(c)
    PROVE  /\ Merged(f, c) \in TemporalFact /\ Kept(f, Merged(f, c))
           /\ Merged(f, c).until = f.until /\ Merged(f, c).by = f.by
<1> DEFINE new == SourceMetadata(c.source)
           source == IF new.rank > f.rank THEN new.type ELSE f.source
           rank == IF new.rank > f.rank THEN new.rank ELSE f.rank
<1>1. source \in SourceTypes /\ rank \in 1 .. 4
    BY SourceKnown DEF TemporalFact
<1>2. Merged(f, c) = [f EXCEPT !.evidence = @ \cup c.evidence, !.witnesses = @ \cup {new.type},
                              !.source = source, !.rank = rank]
    BY DEF Merged
<1>3. new.type \in SourceTypes BY SourceKnown
<1>4. c.evidence \in SUBSET Evidence BY DEF Statement
<1> HIDE DEF new, source, rank
<1>5. Merged(f, c) =
        [user |-> f.user, relation |-> f.relation, object |-> f.object, source |-> source,
         rank |-> rank, at |-> f.at, until |-> f.until, privacy |-> f.privacy,
         evidence |-> f.evidence \cup c.evidence, contested |-> f.contested, by |-> f.by,
         witnesses |-> f.witnesses \cup {new.type}]
    BY <1>2 DEF TemporalFact
<1>6. Merged(f, c) \in TemporalFact BY <1>1, <1>3, <1>4, <1>5 DEF TemporalFact
<1>7. Kept(f, Merged(f, c)) BY <1>5 DEF Kept
<1> QED BY <1>5, <1>6, <1>7

LEMMA MeetIs ==
    ASSUME NEW f \in TemporalFact, NEW c, Statement(c)
    PROVE  /\ Meet(f, c) \in TemporalFact /\ Kept(f, Meet(f, c)) /\ Meet(f, c).by = f.by
           /\ Verdict(f, c) = "store_conflict" => Meet(f, c).contested
           /\ Meet(f, c).until = IF Verdict(f, c) = "supersede" THEN c.at ELSE f.until
<1>1. c.at \in Nat BY StackAssumption DEF Statement
<1>2. CASE Verdict(f, c) = "merge"
    <2>1. Meet(f, c) = Merged(f, c) BY <1>2 DEF Meet
    <2> QED BY <1>2, <2>1, MergedKept
<1>3. CASE Verdict(f, c) = "store_conflict"
    <2>1. Meet(f, c) = [f EXCEPT !.contested = TRUE] BY <1>3 DEF Meet
    <2> QED BY <1>3, <2>1 DEF TemporalFact, Kept
<1>4. CASE Verdict(f, c) = "supersede"
    <2>1. Meet(f, c) = [f EXCEPT !.until = c.at] BY <1>4 DEF Meet
    <2> QED BY <1>1, <1>4, <2>1 DEF TemporalFact, Kept
<1>5. CASE Verdict(f, c) \in {"came_before", "keep_existing"}
    <2>1. Meet(f, c) = f BY <1>5 DEF Meet
    <2> QED BY <1>5, <2>1 DEF Kept
<1> QED BY <1>2, <1>3, <1>4, <1>5, VerdictKnown

\* A loop that did not end has visited every fact it is about.
LEMMA AllVisited ==
    ASSUME NEW n, FactsShaped(memory.facts, n), NEW c,
           \A id \in Visited(c) : ~ Ends(memory.facts[id], c)
    PROVE  \A id \in MatchingActive(c) : id \in Visited(c) /\ ~ Ends(memory.facts[id], c)
<1> DEFINE F == memory.facts
           enders == {id \in MatchingActive(c) : Ends(F[id], c)}
<1>1. \A id \in MatchingActive(c) : id \in Nat /\ F[id].at \in Nat
    BY DEF MatchingActive, FactsShaped, TemporalFact
<1>2. enders = {}
    <2>1. SUFFICES ASSUME enders # {} PROVE FALSE OBVIOUS
    <2> DEFINE dates == {F[id].at : id \in enders}
    <2>2. dates \in SUBSET Nat /\ dates # {} BY <1>1, <2>1
    <2>3. PICK d \in dates : \A e \in dates : d <= e BY <2>2, LeastExists
    <2> DEFINE first == {id \in enders : F[id].at = d}
    <2>4. first \in SUBSET Nat /\ first # {} BY <1>1, <2>3
    <2>5. PICK k \in first : \A i \in first : k <= i BY <2>4, LeastExists
    <2>6. ASSUME NEW i \in enders PROVE ~ Precedes(i, k)
        <3>1. F[i].at \in Nat /\ F[k].at = d /\ d <= F[i].at /\ i \in Nat /\ k \in Nat /\ d \in Nat
            BY <1>1, <2>3, <2>5
        <3>2. F[i].at = d => k <= i BY <2>5
        <3> QED BY <3>1, <3>2 DEF Precedes
    <2>7. k \in Visited(c) /\ Ends(F[k], c) BY <2>6 DEF Visited
    <2> QED BY <2>7
<1> QED BY <1>2 DEF Visited

\* How the facts F, numbered up to n, go over to G when the statement c is stored: old
\* facts are kept, and there may be a new one, number n + 1. It is in force beside an old
\* one only with a different value and both in conflict, and it is over from the start
\* only if something later was known.
Beside(F, G, c, i, g) ==
    /\ F[i].object # c.object
    /\ \/ g.until # NoTime
       \/ G[i].until = c.at
       \/ G[i].contested /\ g.contested
KeptOrSuperseded(F, G, c, n, id) ==
    /\ G[id] \in TemporalFact /\ Kept(F[id], G[id])
    /\ \/ G[id].until = F[id].until
       \/ Active(F[id]) /\ G[id].until = c.at
    /\ \/ G[id].by = F[id].by
       \/ G[id].by = n + 1 /\ G[id].until = c.at
NewOne(F, G, c, g) ==
    /\ g \in TemporalFact /\ g.user = c.user /\ g.relation = c.relation /\ g.object = c.object
    /\ g.at = c.at /\ g.evidence = c.evidence /\ g.by = NoFact
    /\ g.until = NoTime \/ \E i \in DOMAIN F : c.at < F[i].at
    /\ \A i \in DOMAIN F :
          F[i].user = c.user /\ F[i].relation = c.relation /\ Active(F[i]) => Beside(F, G, c, i, g)
Advances(F, G, c, n, done) ==
    /\ DOMAIN G = IF done THEN DOMAIN F ELSE DOMAIN F \cup {n + 1}
    /\ \A id \in DOMAIN F : KeptOrSuperseded(F, G, c, n, id)
    /\ ~ done => NewOne(F, G, c, G[n + 1])

LEMMA NewFactIs ==
    ASSUME NEW c, Statement(c), NEW met, met.until \in Nat, met.contested \in BOOLEAN
    PROVE  LET g == NewFact(c, met)
           IN  /\ g \in TemporalFact /\ g.user = c.user /\ g.relation = c.relation
               /\ g.object = c.object /\ g.at = c.at /\ g.evidence = c.evidence
               /\ g.by = NoFact /\ g.until = met.until /\ g.contested = met.contested
<1> DEFINE new == SourceMetadata(c.source)
           privacy == IF c.restricted THEN "sensitive" ELSE "normal"
<1>1. new.type \in SourceTypes /\ new.rank \in 1 .. 4 BY SourceKnown
<1>2. privacy \in {"normal", "sensitive", "deleted", "do_not_use"} OBVIOUS
<1>3. NewFact(c, met) =
        [user |-> c.user, relation |-> c.relation, object |-> c.object,
         source |-> new.type, rank |-> new.rank, at |-> c.at, until |-> met.until,
         privacy |-> privacy, evidence |-> c.evidence, contested |-> met.contested,
         by |-> NoFact, witnesses |-> {new.type}]
    BY DEF NewFact
<1>4. c.at \in Nat BY StackAssumption DEF Statement
<1> HIDE DEF new, privacy
<1>5. NewFact(c, met) \in TemporalFact
    BY <1>1, <1>2, <1>3, <1>4 DEF Statement, TemporalFact, NoFact
<1> QED BY <1>3, <1>5

LEMMA MetIs ==
    ASSUME NEW n \in Nat, FactsShaped(memory.facts, n), NEW c, Statement(c)
    PROVE  LET F == memory.facts
               met == Met(c)
           IN  /\ DOMAIN met.facts = DOMAIN F
               /\ \A id \in DOMAIN F :
                     /\ met.facts[id] \in TemporalFact /\ Kept(F[id], met.facts[id])
                     /\ met.facts[id].by = F[id].by
                     /\ \/ met.facts[id].until = F[id].until
                        \/ Active(F[id]) /\ met.facts[id].until = c.at
                     /\ id \in met.superseded => met.facts[id].until = c.at
               /\ met.contested \in BOOLEAN /\ met.until \in Nat
               /\ met.until = NoTime \/ \E i \in DOMAIN F : c.at < F[i].at
               /\ ~ met.done =>
                     \A id \in DOMAIN F :
                        F[id].user = c.user /\ F[id].relation = c.relation /\ Active(F[id]) =>
                            /\ F[id].object # c.object
                            /\ \/ met.until # NoTime
                               \/ met.facts[id].until = c.at
                               \/ met.facts[id].contested /\ met.contested
<1> DEFINE F == memory.facts
           met == Met(c)
           visited == Visited(c)
           those(verdict) == {id \in visited : Verdict(F[id], c) = verdict}
           later == {F[id].at : id \in those("came_before")}
<1>1. /\ met.facts = [id \in DOMAIN F |-> IF id \in visited THEN Meet(F[id], c) ELSE F[id]]
      /\ met.done = \E id \in visited : Ends(F[id], c)
      /\ met.until = IF later = {} THEN NoTime ELSE Min(later)
      /\ met.contested = (those("store_conflict") # {})
      /\ met.superseded = those("supersede")
    BY DEF Met
<1>2. /\ visited \subseteq MatchingActive(c)
      /\ \A id \in MatchingActive(c) : id \in DOMAIN F /\ Active(F[id])
    BY DEF Visited, MatchingActive
<1>3. c.at \in Nat /\ \A id \in DOMAIN F : F[id] \in TemporalFact /\ F[id].at \in Nat
    BY StackAssumption DEF Statement, FactsShaped, TemporalFact
<1> HIDE DEF met, visited
<1>4. ASSUME NEW id \in DOMAIN F
      PROVE  /\ met.facts[id] \in TemporalFact /\ Kept(F[id], met.facts[id])
             /\ met.facts[id].by = F[id].by
             /\ \/ met.facts[id].until = F[id].until
                \/ Active(F[id]) /\ met.facts[id].until = c.at
             /\ id \in those("supersede") => met.facts[id].until = c.at
             /\ id \in those("store_conflict") => met.facts[id].contested
    <2>1. CASE id \in visited
        <3>1. met.facts[id] = Meet(F[id], c) BY <1>1, <2>1
        <3>2. /\ Meet(F[id], c) \in TemporalFact /\ Kept(F[id], Meet(F[id], c))
              /\ Meet(F[id], c).by = F[id].by
              /\ Verdict(F[id], c) = "store_conflict" => Meet(F[id], c).contested
              /\ Meet(F[id], c).until = IF Verdict(F[id], c) = "supersede" THEN c.at ELSE F[id].until
            BY <1>3, MeetIs
        <3> QED BY <1>2, <2>1, <3>1, <3>2
    <2>2. CASE id \notin visited
        <3>1. met.facts[id] = F[id] BY <1>1, <2>2
        <3>2. Kept(F[id], F[id]) BY DEF Kept
        <3> QED BY <1>3, <2>2, <3>1, <3>2
    <2> QED BY <2>1, <2>2
<1>5. later \in SUBSET Nat /\ \A t \in later : \E id \in DOMAIN F : t = F[id].at /\ c.at < t
    <2>1. \A id \in those("came_before") : id \in DOMAIN F /\ c.at < F[id].at
        <3>1. \A id \in those("came_before") : Verdict(F[id], c) = "came_before" /\ id \in DOMAIN F
            BY <1>2
        <3>2. \A f : Verdict(f, c) = "came_before" => c.at < f.at
            <4>1. \A f, type, rank : Decision(f, type, rank) # "came_before" BY DEF Decision
            <4> QED BY <4>1 DEF Verdict
        <3> QED BY <3>1, <3>2
    <2> QED BY <1>3, <2>1
<1>6. /\ met.until \in Nat
      /\ met.until = NoTime \/ \E i \in DOMAIN F : c.at < F[i].at
      /\ later # {} => met.until # NoTime
    <2>1. CASE later = {} BY <1>1, <2>1 DEF NoTime
    <2>2. CASE later # {}
        <3>1. met.until \in later BY <1>1, <1>5, <2>2, MinIsLeast
        <3>2. PICK id \in DOMAIN F : met.until = F[id].at /\ c.at < met.until BY <1>5, <3>1
        <3> QED BY <1>3, <3>2 DEF NoTime
    <2> QED BY <2>1, <2>2
<1>7. ASSUME ~ met.done, NEW id \in DOMAIN F,
             F[id].user = c.user, F[id].relation = c.relation, Active(F[id])
      PROVE  /\ F[id].object # c.object
             /\ \/ met.until # NoTime
                \/ met.facts[id].until = c.at
                \/ met.facts[id].contested /\ met.contested
    <2>1. \A i \in visited : ~ Ends(F[i], c) BY <1>1, <1>7
    <2>2. id \in MatchingActive(c) BY <1>7 DEF MatchingActive
    <2>3. id \in visited /\ ~ Ends(F[id], c) BY <2>1, <2>2, AllVisited DEF visited
    <2>4. Verdict(F[id], c) \in {"came_before", "supersede", "store_conflict"}
        BY <2>3, VerdictKnown DEF Ends
    <2>5. F[id].object # c.object BY <2>4 DEF Verdict
    <2>6. id \in those("came_before") \/ id \in those("supersede") \/ id \in those("store_conflict")
        BY <2>3, <2>4
    <2>7. id \in those("came_before") => later # {} OBVIOUS
    <2> QED BY <1>1, <1>4, <1>6, <2>5, <2>6, <2>7
<1> HIDE DEF later, those
<1>8. met.contested \in BOOLEAN BY <1>1
<1>9. DOMAIN met.facts = DOMAIN F BY <1>1
<1> QED BY <1>1, <1>4, <1>6, <1>7, <1>8, <1>9 DEF met

\* The new event says what the statement says; the client of its day is all that changes
\* in the others.
LEMMA NewEventIs ==
    ASSUME NEW c, Statement(c)
    PROVE  LET e == NewEvent(c)
           IN  /\ e \in MemoryEvent /\ e.at \in 1 .. Now /\ e.evidence = c.evidence
               /\ e.relation = c.relation /\ e.object = c.object
<1> DEFINE client == IF c.relation = TargetClient THEN c.object ELSE NoClient
           type == IF SourceMetadata(c.source).type = "recruiter_note" THEN "inferred_assumption"
                   ELSE IF c.relation = TargetClient THEN "applies_to_client"
                   ELSE "expressed_preference"
<1>1. client \in Objects \cup {NoClient} BY DEF Statement
<1>2. type \in {"inferred_assumption", "applies_to_client", "expressed_preference"} OBVIOUS
<1>3. NewEvent(c) =
        [user |-> c.user, relation |-> c.relation, object |-> c.object, at |-> c.at,
         client |-> client, type |-> type, evidence |-> c.evidence]
    BY DEF NewEvent
<1>4. c.at \in Nat BY StackAssumption DEF Statement
<1> HIDE DEF client, type
<1>5. NewEvent(c) \in MemoryEvent BY <1>1, <1>2, <1>3, <1>4 DEF Statement, MemoryEvent
<1> QED BY <1>3, <1>5 DEF Statement

SameEvent(e, f) ==
    /\ f.relation = e.relation /\ f.object = e.object /\ f.at = e.at /\ f.evidence = e.evidence

LEMMA ClientSet ==
    ASSUME NEW e \in MemoryEvent, NEW client \in Objects \cup {NoClient}
    PROVE  LET f == [e EXCEPT !.client = client] IN f \in MemoryEvent /\ SameEvent(e, f)
BY DEF MemoryEvent, SameEvent

LEMMA SynchronizedIs ==
    ASSUME NEW E, \A i \in DOMAIN E : E[i] \in MemoryEvent, NEW id \in DOMAIN E
    PROVE  LET S == Synchronized(E, id)
           IN  DOMAIN S = DOMAIN E /\ \A i \in DOMAIN E : S[i] \in MemoryEvent /\ SameEvent(E[i], S[i])
<1> DEFINE e == E[id]
           S == Synchronized(E, id)
           clients == ClientsOfDay(E, e)
           to(i, client) == [E[i] EXCEPT !.client = client]
<1>1. e.client \in Objects \cup {NoClient} /\ clients \subseteq Objects \cup {NoClient}
    BY DEF MemoryEvent, ClientsOfDay
<1>2. ASSUME NEW i \in DOMAIN E PROVE SameEvent(E[i], E[i]) BY DEF SameEvent
<1>3. ASSUME NEW i \in DOMAIN E, NEW client \in Objects \cup {NoClient}
      PROVE  to(i, client) \in MemoryEvent /\ SameEvent(E[i], to(i, client))
    BY ClientSet
<1> DEFINE near(i) == SameDay(E[i], e) /\ E[i].client = NoClient /\ E[i].relation \in Contextual
           single == e.relation \in Contextual /\ Cardinality(clients) = 1
           one == CHOOSE client \in clients : TRUE
<1>4. S = IF e.client # NoClient
          THEN [i \in DOMAIN E |-> IF near(i) THEN to(i, e.client) ELSE E[i]]
          ELSE IF single THEN [E EXCEPT ![id] = to(id, one)] ELSE E
    BY DEF Synchronized
<1>5. single => one \in clients
    <2>1. Cardinality({}) = 0 BY FS_EmptySet
    <2> QED BY <2>1
<1> HIDE DEF S, to, near, single, one, clients
<1>6. CASE e.client # NoClient
    <2>1. S = [i \in DOMAIN E |-> IF near(i) THEN to(i, e.client) ELSE E[i]] BY <1>4, <1>6
    <2> QED BY <1>1, <1>2, <1>3, <2>1 DEF S
<1>7. CASE e.client = NoClient /\ single
    <2>1. S = [E EXCEPT ![id] = to(id, one)] BY <1>4, <1>7
    <2>2. \A i \in DOMAIN E : S[i] = IF i = id THEN to(id, one) ELSE E[i] BY <2>1
    <2>3. DOMAIN S = DOMAIN E BY <2>1
    <2> QED BY <1>1, <1>2, <1>3, <1>5, <1>7, <2>2, <2>3 DEF S
<1>8. CASE e.client = NoClient /\ ~ single
    <2>1. S = E BY <1>4, <1>8
    <2> QED BY <1>2, <2>1 DEF S
<1> QED BY <1>6, <1>7, <1>8

\* Storing a statement adds at most one fact and its event, and advances the others.
LEMMA StoredIs ==
    ASSUME NEW n, n = born, n \in Nat, NEW m, Shaped(m, n), m.facts = memory.facts,
           NEW c, Statement(c)
    PROVE  LET l == Stored(m, c)
               done == Met(c).done
           IN  /\ DOMAIN l = DOMAIN m /\ l.reflections = m.reflections
               /\ l.episodes = m.episodes /\ l.quarantined = m.quarantined
               /\ Advances(m.facts, l.facts, c, n, done)
               /\ done => l.events = m.events
               /\ ~ done =>
                     /\ DOMAIN l.events = DOMAIN m.events \cup {n + 1}
                     /\ \A i \in DOMAIN m.events :
                           l.events[i] \in MemoryEvent /\ SameEvent(m.events[i], l.events[i])
                     /\ l.events[n + 1] \in MemoryEvent /\ l.events[n + 1].at \in 1 .. Now
                     /\ l.events[n + 1].relation = c.relation
                     /\ l.events[n + 1].object = c.object
                     /\ l.events[n + 1].evidence = c.evidence
<1> DEFINE F == m.facts
           met == Met(c)
           id == n + 1
           linked == [i \in DOMAIN met.facts |->
                         IF i \in met.superseded THEN [met.facts[i] EXCEPT !.by = id] ELSE met.facts[i]]
           l == Stored(m, c)
           G == l.facts
<1>1. FactsShaped(F, n) BY DEF Shaped
<1>2. /\ DOMAIN met.facts = DOMAIN F
      /\ \A i \in DOMAIN F :
            /\ met.facts[i] \in TemporalFact /\ Kept(F[i], met.facts[i])
            /\ met.facts[i].by = F[i].by
            /\ \/ met.facts[i].until = F[i].until
               \/ Active(F[i]) /\ met.facts[i].until = c.at
            /\ i \in met.superseded => met.facts[i].until = c.at
      /\ met.contested \in BOOLEAN /\ met.until \in Nat
      /\ met.until = NoTime \/ \E i \in DOMAIN F : c.at < F[i].at
      /\ ~ met.done =>
            \A i \in DOMAIN F :
               F[i].user = c.user /\ F[i].relation = c.relation /\ Active(F[i]) =>
                   /\ F[i].object # c.object
                   /\ \/ met.until # NoTime
                      \/ met.facts[i].until = c.at
                      \/ met.facts[i].contested /\ met.contested
    BY <1>1, MetIs
<1>3. /\ DOMAIN l = DOMAIN m /\ l.reflections = m.reflections
      /\ l.episodes = m.episodes /\ l.quarantined = m.quarantined
      /\ l.facts = IF met.done THEN met.facts ELSE With(linked, id, NewFact(c, met))
      /\ l.events = IF met.done THEN m.events
                    ELSE Synchronized(With(m.events, id, NewEvent(c)), id)
    BY DEF Stored, Shaped
<1>4. id \notin DOMAIN F /\ id \notin DOMAIN m.events
    BY DEF Shaped, FactsShaped, EventsShaped
<1> HIDE DEF met, l
<1>5. ASSUME NEW f \in TemporalFact
      PROVE  LET g == [f EXCEPT !.by = id]
             IN  /\ g \in TemporalFact /\ g.by = id /\ g.until = f.until /\ g.contested = f.contested
                 /\ g.user = f.user /\ g.relation = f.relation /\ g.object = f.object
                 /\ g.at = f.at /\ g.privacy = f.privacy /\ g.evidence = f.evidence
    BY DEF TemporalFact
<1>6. CASE met.done
    <2>1. G = met.facts /\ l.events = m.events BY <1>3, <1>6
    <2>2. \A i \in DOMAIN F : KeptOrSuperseded(F, G, c, n, i)
        BY <1>2, <2>1 DEF KeptOrSuperseded
    <2>3. Advances(F, G, c, n, met.done) BY <1>2, <1>6, <2>1, <2>2 DEF Advances
    <2> QED BY <1>3, <1>6, <2>1, <2>3 DEF met, l
<1>7. CASE ~ met.done
    <2>1. G = With(linked, id, NewFact(c, met)) BY <1>3, <1>7
    <2>2. /\ DOMAIN G = DOMAIN F \cup {id} /\ G[id] = NewFact(c, met)
          /\ \A i \in DOMAIN F : G[i] = IF i \in met.superseded
                                        THEN [met.facts[i] EXCEPT !.by = id] ELSE met.facts[i]
        BY <1>2, <1>4, <2>1 DEF With
    <2>3. ASSUME NEW i \in DOMAIN F PROVE KeptOrSuperseded(F, G, c, n, i)
        <3>1. CASE i \in met.superseded
            <4>1. G[i] = [met.facts[i] EXCEPT !.by = id] BY <2>2, <3>1
            <4>2. /\ G[i] \in TemporalFact /\ G[i].by = id /\ G[i].until = met.facts[i].until
                  /\ G[i].contested = met.facts[i].contested
                  /\ G[i].user = met.facts[i].user /\ G[i].relation = met.facts[i].relation
                  /\ G[i].object = met.facts[i].object /\ G[i].at = met.facts[i].at
                  /\ G[i].privacy = met.facts[i].privacy /\ G[i].evidence = met.facts[i].evidence
                BY <1>2, <1>5, <4>1
            <4>3. Kept(F[i], G[i]) BY <1>2, <4>2 DEF Kept
            <4> QED BY <1>2, <3>1, <4>2, <4>3 DEF KeptOrSuperseded
        <3>2. CASE i \notin met.superseded
            <4>1. G[i] = met.facts[i] BY <2>2, <3>2
            <4> QED BY <1>2, <4>1 DEF KeptOrSuperseded
        <3> QED BY <3>1, <3>2
    <2>4. NewOne(F, G, c, G[id])
        <3>1. /\ G[id] \in TemporalFact /\ G[id].user = c.user /\ G[id].relation = c.relation
              /\ G[id].object = c.object /\ G[id].at = c.at /\ G[id].evidence = c.evidence
              /\ G[id].by = NoFact /\ G[id].until = met.until /\ G[id].contested = met.contested
            BY <1>2, <2>2, NewFactIs
        <3>2. ASSUME NEW i \in DOMAIN F, F[i].user = c.user, F[i].relation = c.relation, Active(F[i])
              PROVE  Beside(F, G, c, i, G[id])
            <4>1. /\ F[i].object # c.object
                  /\ \/ met.until # NoTime
                     \/ met.facts[i].until = c.at
                     \/ met.facts[i].contested /\ met.contested
                BY <1>2, <1>7, <3>2
            <4>2. G[i].until = met.facts[i].until /\ G[i].contested = met.facts[i].contested
                <5> DEFINE f == met.facts[i]
                <5>1. f \in TemporalFact BY <1>2
                <5>2. LET g == [f EXCEPT !.by = id] IN g.until = f.until /\ g.contested = f.contested
                    BY <1>5, <5>1
                <5>3. G[i] = IF i \in met.superseded THEN [f EXCEPT !.by = id] ELSE f BY <2>2
                <5> HIDE DEF f, G
                <5>4. G[i].until = f.until /\ G[i].contested = f.contested BY <5>2, <5>3
                <5> QED BY <5>4 DEF f, G
            <4> QED BY <3>1, <4>1, <4>2 DEF Beside
        <3> QED BY <1>2, <3>1, <3>2 DEF NewOne
    <2>5. Advances(F, G, c, n, met.done) BY <1>7, <2>2, <2>3, <2>4 DEF Advances
    <2> DEFINE E == With(m.events, id, NewEvent(c))
    <2>6. /\ NewEvent(c) \in MemoryEvent /\ NewEvent(c).at \in 1 .. Now
          /\ NewEvent(c).evidence = c.evidence
          /\ NewEvent(c).relation = c.relation /\ NewEvent(c).object = c.object
        BY NewEventIs
    <2>7. \A i \in DOMAIN m.events : m.events[i] \in MemoryEvent BY DEF Shaped, EventsShaped
    <2>8. /\ DOMAIN E = DOMAIN m.events \cup {id} /\ E[id] = NewEvent(c)
          /\ \A i \in DOMAIN m.events : E[i] = m.events[i]
        BY <1>4 DEF With
    <2>9. l.events = Synchronized(E, id) BY <1>3, <1>7
    <2> HIDE DEF E
    <2>10. /\ DOMAIN l.events = DOMAIN E
           /\ \A i \in DOMAIN E : l.events[i] \in MemoryEvent /\ SameEvent(E[i], l.events[i])
        <3>1. id \in DOMAIN E /\ \A i \in DOMAIN E : E[i] \in MemoryEvent BY <2>6, <2>7, <2>8
        <3> QED BY <2>9, <3>1, SynchronizedIs
    <2>11. /\ DOMAIN l.events = DOMAIN m.events \cup {id}
           /\ \A i \in DOMAIN m.events :
                 l.events[i] \in MemoryEvent /\ SameEvent(m.events[i], l.events[i])
        BY <2>8, <2>10
    <2>12. /\ l.events[id] \in MemoryEvent /\ l.events[id].at \in 1 .. Now
           /\ l.events[id].relation = c.relation /\ l.events[id].object = c.object
           /\ l.events[id].evidence = c.evidence
        BY <2>6, <2>8, <2>10 DEF SameEvent
    <2> QED BY <1>3, <1>7, <2>5, <2>11, <2>12 DEF met, l
<1> QED BY <1>6, <1>7

LEMMA AdvancesShaped ==
    ASSUME NEW n \in Nat, NEW F, NEW G, NEW c, Statement(c), NEW done \in BOOLEAN,
           FactsShaped(F, n), Advances(F, G, c, n, done)
    PROVE  FactsShaped(G, IF done THEN n ELSE n + 1)
<1> DEFINE k == IF done THEN n ELSE n + 1
<1>1. k \in Nat /\ n <= k OBVIOUS
<1>2. DOMAIN G \subseteq 1 .. k BY DEF FactsShaped, Advances
<1>3. c.at # NoTime BY StackAssumption DEF Statement, NoTime
<1>4. ASSUME NEW id \in DOMAIN F
      PROVE  /\ G[id] \in TemporalFact /\ G[id].evidence # {}
             /\ G[id].by # NoFact => G[id].by > id /\ G[id].until # NoTime
    <2>1. KeptOrSuperseded(F, G, c, n, id) BY DEF Advances
    <2>2. F[id].evidence # {} /\ (F[id].by # NoFact => F[id].by > id /\ F[id].until # NoTime)
          /\ id \in 1 .. n
        BY DEF FactsShaped
    <2>3. G[id].evidence # {} BY <2>1, <2>2 DEF KeptOrSuperseded, Kept
    <2>4. CASE G[id].by = F[id].by
        <3>1. G[id].until = F[id].until \/ G[id].until # NoTime BY <1>3, <2>1 DEF KeptOrSuperseded
        <3> QED BY <2>1, <2>2, <2>3, <2>4, <3>1 DEF KeptOrSuperseded
    <2>5. CASE G[id].by = n + 1 /\ G[id].until = c.at
        BY <1>3, <2>1, <2>2, <2>3, <2>5 DEF KeptOrSuperseded
    <2> QED BY <2>1, <2>4, <2>5 DEF KeptOrSuperseded
<1>5. ASSUME ~ done
      PROVE  /\ G[n + 1] \in TemporalFact /\ G[n + 1].evidence # {} /\ G[n + 1].by = NoFact
    BY <1>5 DEF Advances, NewOne, Statement
<1>6. \A id \in DOMAIN G : id \in DOMAIN F \/ (~ done /\ id = n + 1) BY DEF Advances
<1> QED BY <1>2, <1>4, <1>5, <1>6 DEF FactsShaped

\* Two facts that are both kept stay apart as they were.
LEMMA AdvancesTruth ==
    ASSUME NEW n \in Nat, NEW F, NEW G, NEW c, Statement(c), NEW done \in BOOLEAN,
           FactsShaped(F, n), Advances(F, G, c, n, done),
           NEW s, NEW t, s \subseteq t, NEW d \in t, d.at = c.at, \A e \in s : e.at \in Nat,
           NEW o \in BOOLEAN, NEW q \in BOOLEAN, q => o /\ \A e \in s : e.at <= c.at,
           Truth(F, s, o)
    PROVE  Truth(G, t, q)
<1>1. c.at \in Nat /\ c.at # NoTime BY StackAssumption DEF Statement, NoTime
<1>2. \A id \in DOMAIN F :
         /\ KeptOrSuperseded(F, G, c, n, id)
         /\ id # n + 1 /\ F[id].at \in Nat /\ F[id].until \in Nat
    BY DEF Advances, FactsShaped, TemporalFact
<1>3. /\ DOMAIN G = IF done THEN DOMAIN F ELSE DOMAIN F \cup {n + 1}
      /\ ~ done => NewOne(F, G, c, G[n + 1])
    BY DEF Advances
<1>4. \A id \in DOMAIN F : Active(G[id]) => Active(F[id]) /\ G[id].until # c.at
    BY <1>1, <1>2 DEF KeptOrSuperseded, Kept, Active
<1>5. \A i, j \in DOMAIN F : Rivals(G, i, j) => Rivals(F, i, j)
    BY <1>2 DEF KeptOrSuperseded, Kept, Rivals
<1>6. \A i, j \in DOMAIN F : Rivals(F, i, j) /\ Active(F[i]) /\ Active(F[j]) =>
          F[i].object # F[j].object /\ F[i].contested /\ F[j].contested
    BY DEF Truth, Separate
<1> DEFINE Apart(i, j) ==
        Rivals(G, i, j) /\ Active(G[i]) /\ Active(G[j]) =>
            G[i].object # G[j].object /\ G[i].contested /\ G[j].contested
<1>7. \A i, j : Apart(i, j) => Apart(j, i) BY DEF Rivals
<1>8. ASSUME NEW i \in DOMAIN F, NEW j \in DOMAIN F PROVE Apart(i, j)
    BY <1>2, <1>4, <1>5, <1>6 DEF KeptOrSuperseded, Kept
<1>9. ASSUME ~ done, NEW i \in DOMAIN F PROVE Apart(i, n + 1)
    <2>1. SUFFICES ASSUME Rivals(G, i, n + 1), Active(G[i]), Active(G[n + 1])
          PROVE  G[i].object # G[n + 1].object /\ G[i].contested /\ G[n + 1].contested
        OBVIOUS
    <2>2. NewOne(F, G, c, G[n + 1]) BY <1>3, <1>9
    <2>3. F[i].user = c.user /\ F[i].relation = c.relation
        BY <1>2, <2>1, <2>2 DEF NewOne, Rivals, KeptOrSuperseded, Kept
    <2>4. Beside(F, G, c, i, G[n + 1]) BY <1>4, <2>1, <2>2, <2>3 DEF NewOne
    <2>5. G[n + 1].until = NoTime BY <2>1 DEF Active
    <2>6. F[i].object # c.object /\ G[i].contested /\ G[n + 1].contested
        BY <1>4, <2>1, <2>4, <2>5 DEF Beside
    <2> QED BY <1>2, <2>2, <2>6 DEF NewOne, KeptOrSuperseded, Kept
<1>10. Separate(G)
    <2>1. SUFFICES ASSUME NEW i \in DOMAIN G, NEW j \in DOMAIN G, i # j PROVE Apart(i, j)
        BY DEF Separate, Rivals
    <2>2. \/ i \in DOMAIN F /\ j \in DOMAIN F
          \/ ~ done /\ i \in DOMAIN F /\ j = n + 1
          \/ ~ done /\ j \in DOMAIN F /\ i = n + 1
        BY <1>3, <2>1
    <2> HIDE DEF Apart
    <2> QED BY <1>7, <1>8, <1>9, <2>2
<1>11. ASSUME q PROVE Dated(G, t) /\ Successive(G)
    <2>1. Dated(F, s) /\ Successive(F) /\ \A e \in s : e.at <= c.at
        BY <1>11 DEF Truth
    <2>2. \A id \in DOMAIN F : F[id].at <= c.at /\ F[id].until <= c.at
        <3>1. SUFFICES ASSUME NEW id \in DOMAIN F PROVE F[id].at <= c.at /\ F[id].until <= c.at
            OBVIOUS
        <3>2. PICK e \in s : F[id].at <= e.at /\ F[id].until <= e.at BY <2>1 DEF Dated
        <3>3. e.at <= c.at /\ e.at \in Nat BY <2>1
        <3> QED BY <1>1, <1>2, <3>2, <3>3
    <2>3. ~ done => G[n + 1].until = NoTime /\ G[n + 1].at = c.at
        <3>1. ~ \E i \in DOMAIN F : c.at < F[i].at BY <1>1, <1>2, <2>2
        <3> QED BY <1>3, <3>1 DEF NewOne
    <2>4. \A id \in DOMAIN G : G[id].at <= d.at /\ G[id].until <= d.at
        <3>1. \A id \in DOMAIN F : G[id].at <= d.at /\ G[id].until <= d.at
            BY <1>1, <1>2, <2>2 DEF KeptOrSuperseded, Kept
        <3> QED BY <1>1, <1>3, <2>3, <3>1 DEF NoTime
    <2>5. Dated(G, t) BY <2>4 DEF Dated
    <2> DEFINE InTurn(i, j) ==
            Rivals(G, i, j) /\ G[i].object # G[j].object
            /\ G[i].privacy \notin Gone /\ G[j].privacy \notin Gone
            => \/ Ended(G[i], G[j].at) \/ Ended(G[j], G[i].at)
               \/ G[i].contested /\ G[j].contested
    <2>6. \A i, j : InTurn(i, j) => InTurn(j, i) BY DEF Rivals
    <2>7. ASSUME NEW i \in DOMAIN F, NEW j \in DOMAIN F PROVE InTurn(i, j)
        <3>1. SUFFICES ASSUME Rivals(G, i, j), G[i].object # G[j].object,
                              G[i].privacy \notin Gone, G[j].privacy \notin Gone
              PROVE  \/ Ended(G[i], G[j].at) \/ Ended(G[j], G[i].at)
                     \/ G[i].contested /\ G[j].contested
            OBVIOUS
        <3>2. \A id \in {i, j} :
                 /\ G[id].privacy = F[id].privacy /\ G[id].object = F[id].object
                 /\ G[id].at = F[id].at /\ (F[id].contested => G[id].contested)
                 /\ F[id].until # NoTime => G[id].until = F[id].until
            BY <1>2 DEF KeptOrSuperseded, Kept, Active
        <3>3. \/ Ended(F[i], F[j].at) \/ Ended(F[j], F[i].at)
              \/ F[i].contested /\ F[j].contested
            BY <1>5, <2>1, <3>1, <3>2 DEF Successive
        <3> QED BY <3>2, <3>3 DEF Ended
    <2>8. ASSUME ~ done, NEW i \in DOMAIN F PROVE InTurn(i, n + 1)
        <3>1. SUFFICES ASSUME Rivals(G, i, n + 1), G[i].privacy \notin Gone
              PROVE  Ended(G[i], G[n + 1].at) \/ (G[i].contested /\ G[n + 1].contested)
            OBVIOUS
        <3>2. NewOne(F, G, c, G[n + 1]) BY <1>3, <2>8
        <3>3. /\ F[i].user = c.user /\ F[i].relation = c.relation /\ F[i].privacy \notin Gone
              /\ G[i].until = F[i].until \/ G[i].until = c.at
            BY <1>2, <3>1, <3>2 DEF NewOne, Rivals, KeptOrSuperseded, Kept
        <3>4. CASE F[i].until # NoTime
            <4>1. G[i].until # NoTime /\ G[i].until <= c.at BY <1>1, <2>2, <3>3, <3>4
            <4> QED BY <2>3, <2>8, <4>1 DEF Ended
        <3>5. CASE F[i].until = NoTime
            <4>1. Active(F[i]) BY <3>3, <3>5 DEF Active, Gone
            <4>2. Beside(F, G, c, i, G[n + 1]) BY <3>2, <3>3, <4>1 DEF NewOne
            <4>3. G[i].until = c.at \/ (G[i].contested /\ G[n + 1].contested)
                BY <2>3, <2>8, <4>2 DEF Beside
            <4> QED BY <1>1, <2>3, <2>8, <4>3 DEF Ended
        <3> QED BY <3>4, <3>5
    <2>9. Successive(G)
        <3>1. SUFFICES ASSUME NEW i \in DOMAIN G, NEW j \in DOMAIN G, i # j PROVE InTurn(i, j)
            BY DEF Successive, Rivals
        <3>2. \/ i \in DOMAIN F /\ j \in DOMAIN F
              \/ ~ done /\ i \in DOMAIN F /\ j = n + 1
              \/ ~ done /\ j \in DOMAIN F /\ i = n + 1
            BY <1>3, <3>1
        <3> HIDE DEF InTurn
        <3> QED BY <2>6, <2>7, <2>8, <3>2
    <2> QED BY <2>5, <2>9
<1> QED BY <1>10, <1>11 DEF Truth

LEMMA StoreSound ==
    ASSUME NEW n, n = born, n \in Nat, NEW m, m.facts = memory.facts, NEW c, Statement(c),
           NEW p, NEW w, NEW s, NEW t, s \subseteq t, NEW d \in t, d.at = c.at,
           \A e \in s : e.at \in Nat,
           NEW o \in BOOLEAN, NEW q \in BOOLEAN, q => o /\ \A e \in s : e.at <= c.at,
           Sound(m, p, w, n, s, o)
    PROVE  LET l == Stored(m, c)
               k == IF Met(c).done THEN n ELSE n + 1
           IN  /\ Sound(l, p, w, k, t, q)
               /\ \A E : EventsShaped(E, n) /\ Kin(E, m.facts) => Kin(E, l.facts)
<1> DEFINE F == m.facts
           l == Stored(m, c)
           done == Met(c).done
           k == IF done THEN n ELSE n + 1
<1>1. /\ Shaped(m, n) /\ PolicyShaped(p) /\ WithdrawnShaped(w, n) /\ Truth(F, s, o)
      /\ Kin(m.events, F) /\ Hides(w, m, p) /\ FactsShaped(F, n) /\ EventsShaped(m.events, n)
    BY DEF Sound, Shaped
<1>2. /\ DOMAIN l = DOMAIN m /\ l.reflections = m.reflections
      /\ l.episodes = m.episodes /\ l.quarantined = m.quarantined
      /\ Advances(F, l.facts, c, n, done)
      /\ done => l.events = m.events
      /\ ~ done =>
            /\ DOMAIN l.events = DOMAIN m.events \cup {n + 1}
            /\ \A i \in DOMAIN m.events :
                  l.events[i] \in MemoryEvent /\ SameEvent(m.events[i], l.events[i])
            /\ l.events[n + 1] \in MemoryEvent /\ l.events[n + 1].at \in 1 .. Now
            /\ l.events[n + 1].relation = c.relation
            /\ l.events[n + 1].object = c.object
            /\ l.events[n + 1].evidence = c.evidence
    BY <1>1, StoredIs
<1>3. done \in BOOLEAN BY DEF Met
<1> HIDE DEF l, done, F
<1>4. k \in Nat /\ n <= k /\ 1 .. n \subseteq 1 .. k /\ (~ done => n + 1 \in 1 .. k) OBVIOUS
<1>5. FactsShaped(l.facts, k) BY <1>1, <1>2, <1>3, AdvancesShaped
<1>6. Truth(l.facts, t, q) BY <1>1, <1>2, <1>3, AdvancesTruth
<1>7. EventsShaped(l.events, k)
    <2>1. CASE done BY <1>1, <1>2, <1>4, <2>1 DEF EventsShaped
    <2>2. CASE ~ done
        <3>1. \A i \in DOMAIN m.events : l.events[i].at \in 1 .. Now /\ l.events[i].evidence # {}
            BY <1>1, <1>2, <2>2 DEF EventsShaped, SameEvent
        <3>2. DOMAIN l.events \subseteq 1 .. k BY <1>1, <1>2, <1>4, <2>2 DEF EventsShaped
        <3>3. l.events[n + 1].evidence # {} BY <1>2, <2>2 DEF Statement
        <3> QED BY <1>2, <2>2, <3>1, <3>2, <3>3 DEF EventsShaped
    <2> QED BY <2>1, <2>2
<1>8. Shaped(l, k) BY <1>1, <1>2, <1>5, <1>7 DEF Shaped
<1>9. WithdrawnShaped(w, k) BY <1>1, <1>4 DEF WithdrawnShaped
<1>10. \A id \in DOMAIN F : Kept(F[id], l.facts[id]) BY <1>2 DEF Advances, KeptOrSuperseded
<1>11. DOMAIN l.facts = IF done THEN DOMAIN F ELSE DOMAIN F \cup {n + 1} BY <1>2 DEF Advances
<1>12. n + 1 \notin 1 .. n OBVIOUS
<1>13. ASSUME NEW E, EventsShaped(E, n), Kin(E, F) PROVE Kin(E, l.facts)
    <2>1. n + 1 \notin DOMAIN E BY <1>12, <1>13 DEF EventsShaped
    <2> QED BY <1>10, <1>11, <1>13, <2>1 DEF Kin, Kept, Claim
<1>14. Kin(l.events, l.facts)
    <2>1. CASE done
        BY <1>1, <1>2, <1>13, <2>1
    <2>2. CASE ~ done
        <3>1. Kin(m.events, l.facts) BY <1>1, <1>13
        <3>2. NewOne(F, l.facts, c, l.facts[n + 1]) BY <1>2, <2>2 DEF Advances
        <3>3. n + 1 \notin DOMAIN F /\ n + 1 \notin DOMAIN m.events
            BY <1>1, <1>12 DEF FactsShaped, EventsShaped
        <3>4. \A id \in DOMAIN m.events :
                 Claim(l.events[id]) = Claim(m.events[id]) /\ l.events[id].evidence = m.events[id].evidence
            BY <1>2, <2>2 DEF SameEvent, Claim
        <3>5. /\ Claim(l.events[n + 1]) = Claim(l.facts[n + 1])
              /\ l.events[n + 1].evidence = l.facts[n + 1].evidence
            BY <1>2, <2>2, <3>2 DEF NewOne, Claim
        <3> QED BY <1>2, <2>2, <3>1, <3>4, <3>5 DEF Kin
    <2> QED BY <1>3, <2>1, <2>2
<1>15. Hides(w, l, p)
    <2>1. HidesFacts(w, m.facts, m.events, p) BY <1>1 DEF Hides
    <2>2. \A x \in w : x[1] = "fact" => x[2] # n + 1 BY <1>1, <1>12 DEF WithdrawnShaped
    <2>3. \A id \in DOMAIN m.events : EventHidden(m.events[id], p) => EventHidden(l.events[id], p)
        <3>1. CASE done BY <1>2, <3>1
        <3>2. CASE ~ done BY <1>2, <3>2 DEF SameEvent, EventHidden, Claim
        <3> QED BY <1>3, <3>1, <3>2
    <2>4. \A id : id # n + 1 => (id \in DOMAIN l.events => id \in DOMAIN m.events)
                              /\ (id \in DOMAIN l.facts => id \in DOMAIN F)
        BY <1>2, <1>3, <1>11
    <2>5. HidesFacts(w, l.facts, l.events, p)
        BY <2>1, <2>2, <2>3, <2>4 DEF HidesFacts, F
    <2> QED BY <1>1, <1>2, <2>5 DEF Hides
<1>16. Sound(l, p, w, k, t, q) BY <1>1, <1>6, <1>8, <1>9, <1>14, <1>15 DEF Sound
<1> QED BY <1>13, <1>16 DEF l, k, done, F

-----------------------------------------------------------------------------
(* The steps. *)

LEMMA InputsKnown ==
    ASSUME NEW c \in Inputs
    PROVE  /\ c.user \in Users /\ c.relation \in Relations /\ c.object \in Objects
           /\ c.evidence \in SUBSET Evidence /\ c.at \in 1 .. Now
           /\ c.human => c.evidence # {}
           /\ c.action # "store" => c.term \in Terms \cup {"that"}
BY StackAssumption DEF Relations, Objects, Evidence

LEMMA WorldKnown ==
    ASSUME world \in Worlds
    PROVE  /\ world.inputs \subseteq Inputs /\ world.terms \subseteq Terms
           /\ world.facts \in Nat /\ world.commands \in Nat /\ world.saves \in Nat
BY StackAssumption DEF Inputs

\* A memory with the same facts, events and reflections.
Alike(l, m) ==
    /\ DOMAIN l = {"facts", "events", "reflections", "quarantined", "episodes", "unresolved"}
    /\ l.facts = m.facts /\ l.events = m.events /\ l.reflections = m.reflections
    /\ \A e \in DOMAIN l.episodes : l.episodes[e] \in Episode
    /\ l.quarantined \subseteq Inputs

LEMMA AlikeSound ==
    ASSUME NEW l, NEW m, Alike(l, m), NEW p, NEW w, NEW n, NEW s, NEW o, Sound(m, p, w, n, s, o)
    PROVE  Sound(l, p, w, n, s, o)
<1>1. Shaped(l, n) BY DEF Sound, Shaped, Alike
<1>2. Hides(w, l, p) BY DEF Sound, Hides, Alike
<1>3. Truth(l.facts, s, o) /\ Kin(l.events, l.facts) BY DEF Sound, Alike
<1> QED BY <1>1, <1>2, <1>3 DEF Sound

LEMMA RestoresAlike ==
    ASSUME NEW t, NEW m, NEW l, l.facts = m.facts, NEW p, NEW w, Restores(t, m, p, w)
    PROVE  Restores(t, l, p, w)
BY DEF Restores

LEMMA WithEpisodeIs ==
    ASSUME StackInv, NEW c \in Inputs
    PROVE  Alike(WithEpisode(c), memory) /\ WithEpisode(c).quarantined = memory.quarantined
<1>1. Shaped(memory, born) BY DEF StackInv, MemoryInv, Sound
<1> DEFINE m == WithEpisode(c)
           new == [user |-> c.user, claim |-> Claim(c)]
<1>2. /\ DOMAIN m = DOMAIN memory
      /\ m.facts = memory.facts /\ m.events = memory.events /\ m.reflections = memory.reflections
      /\ m.quarantined = memory.quarantined
      /\ m.episodes = [e \in DOMAIN memory.episodes \cup c.evidence |->
                          IF e \in c.evidence THEN new ELSE memory.episodes[e]]
    BY <1>1 DEF WithEpisode, Shaped
<1>3. new \in Episode BY InputsKnown DEF Episode, Claim
<1> HIDE DEF m, new
<1>4. \A e \in DOMAIN m.episodes : m.episodes[e] \in Episode BY <1>1, <1>2, <1>3 DEF Shaped
<1>5. Alike(m, memory) BY <1>1, <1>2, <1>4 DEF Alike, Shaped
<1> QED BY <1>2, <1>5 DEF m

\* The snapshot stays sound while time goes on, if it still restores the memory.
LEMMA FileLater ==
    ASSUME StackInv, born' \in Nat, born <= born', seen \subseteq seen',
           orderly' \in BOOLEAN, orderly' => orderly, file' = file,
           file # NoFile => Restores(file[1], memory', policy', withdrawn')
    PROVE  FileInv'
<1>1. born \in Nat /\ orderly \in BOOLEAN BY WorldKnown DEF StackInv, Bounds
<1> DEFINE t == file[1]
<1>2. ASSUME file # NoFile
      PROVE  Sound(t.memory, t.policy, t.withdrawn, born', seen', orderly')
    <2>1. Sound(t.memory, t.policy, t.withdrawn, born, seen, orderly)
        BY <1>2 DEF StackInv, FileInv
    <2> HIDE DEF t
    <2> QED BY <1>1, <2>1, SoundLater
<1> QED BY <1>2 DEF FileInv

\* A step that leaves the facts, events and reflections as they are, and the policy.
LEMMA SameStep ==
    ASSUME StackInv, Alike(memory', memory), policy' = policy, withdrawn' = withdrawn,
           born' = born, seen \subseteq seen', orderly' \in BOOLEAN, orderly' => orderly,
           file' = file
    PROVE  MemoryInv' /\ FileInv'
<1>1. born \in Nat /\ orderly \in BOOLEAN BY WorldKnown DEF StackInv, Bounds
<1>2. Sound(memory', policy, withdrawn, born, seen, orderly)
    BY AlikeSound DEF StackInv, MemoryInv
<1>3. Sound(memory', policy, withdrawn, born, seen', orderly') BY <1>1, <1>2, SoundLater
<1>4. MemoryInv' BY <1>3 DEF MemoryInv
<1>5. file # NoFile => Restores(file[1], memory', policy', withdrawn')
    BY RestoresAlike DEF StackInv, FileInv, Alike
<1>6. FileInv' BY <1>1, <1>5, FileLater
<1> QED BY <1>4, <1>6

LEMMA StoreStep ==
    ASSUME StackInv, NEW m, Alike(m, memory), NEW c, Statement(c), StoreFact(m, c),
           seen \subseteq seen', NEW d \in seen', d.at = c.at,
           orderly' \in BOOLEAN, orderly' => orderly /\ \A e \in seen : e.at <= c.at,
           file' = file
    PROVE  MemoryInv' /\ FileInv' /\ born' \in 0 .. world.facts
<1>1. /\ born \in Nat /\ world.facts \in Nat /\ orderly \in BOOLEAN
      /\ \A e \in seen : e.at \in Nat
    BY WorldKnown, StackAssumption DEF StackInv, Bounds
<1>2. Sound(m, policy, withdrawn, born, seen, orderly)
    BY AlikeSound DEF StackInv, MemoryInv
<1>3. m.facts = memory.facts BY DEF Alike
<1> DEFINE l == Stored(m, c)
           k == IF Met(c).done THEN born ELSE born + 1
           s == seen'
           q == orderly'
<1>4. memory' = l /\ born' = k /\ policy' = policy /\ withdrawn' = withdrawn /\ born < world.facts
    BY DEF StoreFact
<1>5. /\ Sound(l, policy, withdrawn, k, s, q)
      /\ \A E : EventsShaped(E, born) /\ Kin(E, m.facts) => Kin(E, l.facts)
    <2>1. seen \subseteq s /\ d \in s /\ q \in BOOLEAN
          /\ (q => orderly /\ \A e \in seen : e.at <= c.at)
        OBVIOUS
    <2> HIDE DEF s, q
    <2> QED BY <1>1, <1>2, <1>3, <2>1, StoreSound
<1>6. k \in Nat /\ born <= k /\ k \in 0 .. world.facts BY <1>1, <1>4
<1> HIDE DEF l, k
<1>7. MemoryInv' BY <1>4, <1>5 DEF MemoryInv
<1>8. ASSUME file # NoFile PROVE Restores(file[1], memory', policy', withdrawn')
    <2>1. Restores(file[1], memory, policy, withdrawn) /\ EventsShaped(file[1].memory.events, born)
        BY <1>8 DEF StackInv, FileInv, Sound, Shaped
    <2>2. Kin(file[1].memory.events, l.facts) BY <1>3, <1>5, <2>1 DEF Restores
    <2> QED BY <1>4, <2>1, <2>2 DEF Restores
<1>9. FileInv' BY <1>1, <1>4, <1>6, <1>8, FileLater
<1> QED BY <1>4, <1>6, <1>7, <1>9

LEMMA RevokeStep ==
    ASSUME StackInv, NEW m, Alike(m, memory), NEW term \in Terms, NEW user,
           RequestForget(m, term, user) \/ RequestDoNotUse(m, term, user),
           seen \subseteq seen', orderly' \in BOOLEAN, orderly' => orderly, file' = file
    PROVE  MemoryInv' /\ FileInv'
<1>1. born \in Nat /\ orderly \in BOOLEAN /\ born' = born
    BY WorldKnown DEF StackInv, Bounds, RequestForget, RequestDoNotUse
<1>2. Sound(m, policy, withdrawn, born, seen, orderly)
    BY AlikeSound DEF StackInv, MemoryInv
<1> DEFINE Revokes(privacy, episodes) ==
         /\ memory' = Marked(m, term, user, privacy)
         /\ policy' = Restricted(policy, m, term, user, episodes)
         /\ \A x \in withdrawn' : x \in withdrawn \/ NewlyWithdrawn(x, m, term, user, episodes)
<1>3. \E privacy \in Gone : \E episodes : Revokes(privacy, episodes)
    <2>1. CASE RequestForget(m, term, user)
        <3> DEFINE reached == Reached(m.facts, term, user)
                   episodes == EvidenceOf(m, reached)
        <3>1. \A id \in reached : m.facts[id].evidence \subseteq episodes BY DEF EvidenceOf
        <3>2. \A x \in withdrawn' : \/ x \in withdrawn
                                    \/ \E id \in reached : x = <<"fact", id>>
                                    \/ \E e \in episodes : x = <<"episode", e>>
            BY <2>1 DEF RequestForget
        <3>3. \A x \in withdrawn' : x \in withdrawn \/ NewlyWithdrawn(x, m, term, user, episodes)
            <4> HIDE DEF episodes
            <4> QED BY <3>1, <3>2 DEF NewlyWithdrawn
        <3>4. memory' = Marked(m, term, user, "deleted")
              /\ policy' = Restricted(policy, m, term, user, episodes)
            BY <2>1 DEF RequestForget
        <3> HIDE DEF episodes
        <3> QED BY <3>3, <3>4 DEF Gone
    <2>2. CASE RequestDoNotUse(m, term, user)
        <3>1. \A x \in withdrawn' : x \in withdrawn \/ NewlyWithdrawn(x, m, term, user, {})
            BY <2>2 DEF RequestDoNotUse, NewlyWithdrawn
        <3>2. memory' = Marked(m, term, user, "do_not_use")
              /\ policy' = Restricted(policy, m, term, user, {})
            BY <2>2 DEF RequestDoNotUse
        <3> QED BY <3>1, <3>2 DEF Gone
    <2> QED BY <2>1, <2>2
<1>4. PICK privacy \in Gone : \E episodes : Revokes(privacy, episodes) BY <1>3
<1>5. PICK episodes : Revokes(privacy, episodes) BY <1>4
<1> DEFINE v == withdrawn'
<1>6. \A x \in v : x \in withdrawn \/ NewlyWithdrawn(x, m, term, user, episodes) BY <1>5
<1> HIDE DEF v
<1>7. Sound(Marked(m, term, user, privacy), Restricted(policy, m, term, user, episodes), v,
            born, seen, orderly)
    BY <1>1, <1>2, <1>6, MarkSound
<1>8. Sound(memory', policy', v, born, seen', orderly') BY <1>1, <1>7, <1>5, SoundLater
<1>9. MemoryInv' BY <1>1, <1>8 DEF MemoryInv, v
<1>10. ASSUME file # NoFile PROVE Restores(file[1], memory', policy', withdrawn')
    <2>1. /\ Sound(file[1].memory, file[1].policy, file[1].withdrawn, born, seen, orderly)
          /\ Restores(file[1], m, policy, withdrawn)
        BY <1>10, RestoresAlike DEF StackInv, FileInv, Alike
    <2> DEFINE t == file[1]
    <2> HIDE DEF t
    <2>2. Restores(t, Marked(m, term, user, privacy), Restricted(policy, m, term, user, episodes), v)
        BY <1>1, <1>2, <1>6, <2>1, MarkRestores DEF t
    <2> QED BY <1>5, <2>2 DEF t, v
<1>11. FileInv' BY <1>1, <1>10, FileLater
<1> QED BY <1>9, <1>11

\* apply_candidate() for a statement: nothing is stored, or StoreFact().
LEMMA ApplyFactStep ==
    ASSUME StackInv, NEW m, Alike(m, memory), NEW c,
           c.user \in Users, c.relation \in Relations, c.object \in Objects,
           c.evidence \in SUBSET Evidence, c.at \in 1 .. Now, c.human => c.evidence # {},
           ApplyFact(m, c), c \in seen', seen \subseteq seen',
           orderly' \in BOOLEAN, orderly' => orderly /\ \A e \in seen : e.at <= c.at,
           file' = file
    PROVE  /\ MemoryInv' /\ FileInv'
           /\ born' \in 0 .. world.facts /\ pending' = pending
<1>1. CASE StoreFact(m, c) /\ Allowed(c)
    <2>1. Statement(c) BY <1>1 DEF Allowed, Statement
    <2>2. MemoryInv' /\ FileInv' /\ born' \in 0 .. world.facts BY <1>1, <2>1, StoreStep
    <2> QED BY <1>1, <2>2 DEF StoreFact
<1>2. CASE memory' = m /\ UNCHANGED <<policy, pending, born, withdrawn>>
    <2>1. MemoryInv' /\ FileInv' BY <1>2, SameStep
    <2> QED BY <1>2, <2>1 DEF StackInv, Bounds
<1> QED BY <1>1, <1>2 DEF ApplyFact

LEMMA IngestStep ==
    ASSUME StackInv, NEW c \in world.inputs, Ingest(c)
    PROVE  StackInv'
<1> DEFINE m == WithEpisode(c)
<1>1. c \in Inputs /\ Bounds BY WorldKnown DEF StackInv, Bounds
<1>2. /\ c.user \in Users /\ c.relation \in Relations /\ c.object \in Objects
      /\ c.evidence \in SUBSET Evidence /\ c.at \in 1 .. Now
      /\ c.human => c.evidence # {}
      /\ c.action # "store" => c.term \in Terms \cup {"that"}
    BY <1>1, InputsKnown
<1>3. Alike(m, memory) /\ m.quarantined = memory.quarantined BY <1>1, WithEpisodeIs
<1> HIDE DEF m
<1>4. /\ seen' = seen \cup {c} /\ orderly' = (orderly /\ \A d \in seen : d.at <= c.at)
      /\ world' = world /\ file' = file /\ commands' = commands /\ saves' = saves
      /\ \/ c.action # "store" /\ ApplyRevocation(m, c)
         \/ /\ memory' = [m EXCEPT !.quarantined = @ \cup {c}]
            /\ UNCHANGED <<policy, pending, born, withdrawn>>
         \/ ApplyFact(m, c)
    BY DEF Ingest, m
<1>5. /\ seen \subseteq seen' /\ c \in seen'
      /\ orderly' \in BOOLEAN /\ (orderly' => orderly /\ \A d \in seen : d.at <= c.at)
    BY <1>4
<1>6. ASSUME MemoryInv', FileInv', born' \in 0 .. world.facts, pending' = {} \/ HoldUntrusted
      PROVE  StackInv'
    BY <1>1, <1>2, <1>4, <1>5, <1>6 DEF StackInv, Bounds
<1>7. ASSUME NEW l, memory' = l, Alike(l, memory), UNCHANGED <<policy, born, withdrawn>>,
             pending' = pending \/ HoldUntrusted
      PROVE  StackInv'
    <2>1. MemoryInv' /\ FileInv' BY <1>4, <1>5, <1>7, SameStep
    <2> QED BY <1>1, <1>6, <1>7, <2>1 DEF Bounds
<1>8. CASE memory' = [m EXCEPT !.quarantined = @ \cup {c}]
           /\ UNCHANGED <<policy, pending, born, withdrawn>>
    <2>1. Alike([m EXCEPT !.quarantined = @ \cup {c}], memory) BY <1>1, <1>3 DEF Alike
    <2> QED BY <1>7, <1>8, <2>1
<1>9. CASE ApplyFact(m, c)
    <2>1. MemoryInv' /\ FileInv' /\ born' \in 0 .. world.facts /\ pending' = pending
        BY <1>2, <1>3, <1>4, <1>5, <1>9, ApplyFactStep
    <2> QED BY <1>1, <1>6, <2>1 DEF Bounds
<1>10. CASE c.action # "store" /\ ApplyRevocation(m, c)
    <2>1. CASE memory' = m /\ UNCHANGED <<policy, pending, born, withdrawn>>
        BY <1>3, <1>7, <2>1
    <2>2. CASE /\ memory' = [m EXCEPT !.unresolved = @ \cup {c.user}]
               /\ UNCHANGED <<policy, pending, born, withdrawn>>
        <3>1. Alike([m EXCEPT !.unresolved = @ \cup {c.user}], memory) BY <1>3 DEF Alike
        <3> QED BY <1>7, <2>2, <3>1
    <2>3. CASE HoldUntrusted /\ memory' = m /\ UNCHANGED <<policy, born, withdrawn>>
        BY <1>3, <1>7, <2>3
    <2>4. CASE \E term \in Resolved(m, c) : RequestForget(m, term, c.user) \/ RequestDoNotUse(m, term, c.user)
        <3>1. PICK term \in Resolved(m, c) :
                  RequestForget(m, term, c.user) \/ RequestDoNotUse(m, term, c.user)
            BY <2>4
        <3>2. term \in Terms
            <4>1. Referents(m, c.user) \subseteq Terms BY StackAssumption DEF Referents
            <4> QED BY <1>2, <1>10, <4>1 DEF Resolved
        <3>3. MemoryInv' /\ FileInv' BY <1>3, <1>4, <1>5, <3>1, <3>2, RevokeStep
        <3>4. pending' = pending /\ born' = born BY <3>1 DEF RequestForget, RequestDoNotUse
        <3> QED BY <1>1, <1>6, <3>3, <3>4 DEF Bounds
    <2> QED BY <1>10, <2>1, <2>2, <2>3, <2>4 DEF ApplyRevocation
<1> QED BY <1>4, <1>8, <1>9, <1>10

LEMMA ReleaseStep ==
    ASSUME StackInv, NEW c \in memory.quarantined, Release(c)
    PROVE  StackInv'
<1> DEFINE m == [memory EXCEPT !.quarantined = @ \ {c}]
           d == [c EXCEPT !.consent = "explicit", !.at = Now]
<1>1. /\ Bounds /\ c \in Inputs
      /\ DOMAIN memory = {"facts", "events", "reflections", "quarantined", "episodes", "unresolved"}
      /\ memory.quarantined \subseteq Inputs
      /\ \A e \in DOMAIN memory.episodes : memory.episodes[e] \in Episode
    BY DEF StackInv, MemoryInv, Sound, Shaped
<1>2. /\ c.user \in Users /\ c.relation \in Relations /\ c.object \in Objects
      /\ c.evidence \in SUBSET Evidence
      /\ c.human => c.evidence # {}
    BY <1>1, InputsKnown
<1>3. {"user", "relation", "object", "evidence", "human", "at"} \subseteq DOMAIN c
    BY <1>1, StackAssumption
<1>4. /\ d.user = c.user /\ d.relation = c.relation /\ d.object = c.object
      /\ d.evidence = c.evidence /\ d.human = c.human /\ d.at = Now
    BY <1>3
<1>5. Now \in 1 .. Now /\ Now \in Nat BY StackAssumption
<1>6. Alike(m, memory) BY <1>1 DEF Alike
<1>7. /\ ApplyFact(m, d) /\ seen' = seen \cup {d} /\ world' = world /\ file' = file
      /\ commands' = commands /\ saves' = saves /\ orderly' = orderly
    BY DEF Release
<1>8. \A e \in seen : e.at <= Now BY <1>1, <1>5 DEF Bounds
<1> HIDE DEF m, d
<1>9. /\ MemoryInv' /\ FileInv' /\ born' \in 0 .. world.facts /\ pending' = pending
    <2>1. /\ d.user \in Users /\ d.relation \in Relations /\ d.object \in Objects
          /\ d.evidence \in SUBSET Evidence /\ d.at \in 1 .. Now /\ (d.human => d.evidence # {})
        BY <1>2, <1>4, <1>5
    <2>2. /\ d \in seen' /\ seen \subseteq seen' /\ orderly' \in BOOLEAN
          /\ (orderly' => orderly /\ \A e \in seen : e.at <= d.at)
        BY <1>1, <1>4, <1>7, <1>8 DEF Bounds
    <2> QED BY <1>6, <1>7, <2>1, <2>2, ApplyFactStep
<1> QED BY <1>1, <1>4, <1>5, <1>7, <1>9 DEF StackInv, Bounds

LEMMA CommandStep ==
    ASSUME StackInv, NEW term \in world.terms, NEW user, Forget(term, user) \/ DoNotUse(term, user)
    PROVE  StackInv'
<1>1. Bounds /\ term \in Terms /\ world.commands \in Nat BY WorldKnown DEF StackInv, Bounds
<1>2. /\ RequestForget(memory, term, user) \/ RequestDoNotUse(memory, term, user)
      /\ UNCHANGED <<world, file, saves, seen, orderly, pending, born>>
      /\ commands < world.commands /\ commands' = commands + 1
    BY DEF Forget, DoNotUse, Commanded, RequestForget, RequestDoNotUse
<1>3. Alike(memory, memory) BY DEF StackInv, MemoryInv, Sound, Shaped, Alike
<1>4. MemoryInv' /\ FileInv' BY <1>1, <1>2, <1>3, RevokeStep DEF Bounds
<1> QED BY <1>1, <1>2, <1>4 DEF StackInv, Bounds

\* A withdrawal of consent hides more, and nothing is withdrawn.
LEMMA RevokeConsentStep ==
    ASSUME StackInv, NEW term, NEW purpose, RevokeConsent(term, purpose)
    PROVE  StackInv'
<1> DEFINE q == [policy EXCEPT !.consent = @ \cup {<<term, purpose>>}]
<1>1. /\ Bounds /\ MemoryInv /\ FileInv /\ PolicyShaped(policy) /\ world.commands \in Nat
      /\ born \in Nat
    BY WorldKnown DEF StackInv, Bounds, MemoryInv, Sound
<1>2. /\ policy' = q /\ UNCHANGED <<world, memory, pending, file, born, saves, seen, orderly, withdrawn>>
      /\ commands < world.commands /\ commands' = commands + 1
    BY DEF RevokeConsent, Commanded
<1>3. /\ DOMAIN q = DOMAIN policy /\ q.episodes = policy.episodes /\ q.ids = policy.ids
      /\ q.terms = policy.terms /\ q.texts = policy.texts
    BY <1>1 DEF PolicyShaped
<1> HIDE DEF q
<1>4. PolicyShaped(q) /\ PolicyGrows(policy, q) BY <1>1, <1>3 DEF PolicyShaped, PolicyGrows
<1>5. Hides(withdrawn, memory, q) BY <1>1, <1>4, HidesGrows DEF MemoryInv, Sound
<1>6. MemoryInv' BY <1>1, <1>2, <1>4, <1>5 DEF MemoryInv, Sound
<1>7. ASSUME file # NoFile PROVE Restores(file[1], memory, q, withdrawn)
    <2> DEFINE t == file[1]
               r == MergedPolicy(t.policy, policy)
               k == MergedPolicy(t.policy, q)
    <2>1. PolicyShaped(t.policy) /\ Restores(t, memory, policy, withdrawn)
        BY <1>1, <1>7 DEF FileInv, Sound
    <2>2. /\ r.episodes = t.policy.episodes \cup policy.episodes
          /\ r.ids = t.policy.ids \cup policy.ids /\ r.terms = t.policy.terms \cup policy.terms
        BY <1>1, <2>1, MergedIs
    <2>3. /\ k.episodes = t.policy.episodes \cup q.episodes
          /\ k.ids = t.policy.ids \cup q.ids /\ k.terms = t.policy.terms \cup q.terms
        BY <1>4, <2>1, MergedIs
    <2> HIDE DEF t
    <2>4. Hides(withdrawn \cup t.withdrawn, t.memory, r) BY <2>1 DEF Restores
    <2> HIDE DEF r, k
    <2>5. PolicyGrows(r, k) BY <1>3, <2>2, <2>3 DEF PolicyGrows
    <2>6. Hides(withdrawn \cup t.withdrawn, t.memory, k) BY <2>4, <2>5, HidesGrows
    <2> QED BY <2>1, <2>6 DEF Restores, t, k
<1>8. FileInv' BY <1>1, <1>2, <1>7 DEF FileInv
<1> QED BY <1>1, <1>2, <1>6, <1>8 DEF StackInv, Bounds

\* An invalidation ends a fact; the order of dates is given up.
LEMMA InvalidateStep ==
    ASSUME StackInv, NEW id, Invalidate(id)
    PROVE  StackInv'
<1> DEFINE F == memory.facts
           g == [F[id] EXCEPT !.until = Now]
           l == [memory EXCEPT !.facts[id].until = Now]
           G == l.facts
<1>1. /\ Bounds /\ MemoryInv /\ FileInv /\ Shaped(memory, born) /\ FactsShaped(F, born)
      /\ world.commands \in Nat /\ born \in Nat
    BY WorldKnown DEF StackInv, Bounds, MemoryInv, Sound, Shaped
<1>2. /\ id \in DOMAIN F /\ memory' = l /\ orderly' = FALSE
      /\ UNCHANGED <<world, policy, pending, file, born, saves, seen, withdrawn>>
      /\ commands < world.commands /\ commands' = commands + 1
    BY DEF Invalidate, Commanded
<1>3. /\ DOMAIN l = DOMAIN memory /\ G = [F EXCEPT ![id] = g] /\ l.events = memory.events
      /\ l.reflections = memory.reflections /\ l.episodes = memory.episodes
      /\ l.quarantined = memory.quarantined
    BY <1>1 DEF Shaped
<1>4. Now \in Nat /\ Now # NoTime BY StackAssumption DEF NoTime
<1>5. F[id] \in TemporalFact BY <1>1, <1>2 DEF FactsShaped
<1>6. /\ g \in TemporalFact /\ Kept(F[id], g) /\ g.by = F[id].by /\ g.until = Now
      /\ g.evidence = F[id].evidence
    BY <1>4, <1>5 DEF TemporalFact, Kept
<1>7. \A i \in DOMAIN F : G[i] = IF i = id THEN g ELSE F[i]
    BY <1>2, <1>3
<1>8. DOMAIN G = DOMAIN F BY <1>3
<1> HIDE DEF g, l
<1>9. /\ \A i \in DOMAIN F : /\ G[i] \in TemporalFact /\ Kept(F[i], G[i]) /\ G[i].by = F[i].by
                             /\ G[i].until \in {F[i].until, Now} /\ G[i].evidence = F[i].evidence
    BY <1>1, <1>6, <1>7 DEF FactsShaped, Kept
<1>10. FactsShaped(G, born) BY <1>1, <1>4, <1>8, <1>9 DEF FactsShaped
<1>11. Separate(G)
    <2>1. \A i \in DOMAIN F : Active(G[i]) => Active(F[i])
        BY <1>4, <1>9 DEF Kept, Active
    <2>2. \A i, j \in DOMAIN F : Rivals(G, i, j) => Rivals(F, i, j) BY <1>9 DEF Kept, Rivals
    <2>3. Separate(F) BY <1>1 DEF MemoryInv, Sound, Truth
    <2> QED BY <1>8, <1>9, <2>1, <2>2, <2>3 DEF Separate, Kept
<1>12. \A E : Kin(E, F) => Kin(E, G)
    BY <1>8, <1>9 DEF Kin, Kept, Claim
<1>13. Shaped(l, born) BY <1>1, <1>3, <1>10 DEF Shaped
<1>14. Hides(withdrawn, l, policy)
    BY <1>1, <1>3, <1>8 DEF MemoryInv, Sound, Hides, HidesFacts
<1>15. Sound(l, policy, withdrawn, born, seen, FALSE)
    BY <1>1, <1>3, <1>11, <1>12, <1>13, <1>14 DEF MemoryInv, Sound, Truth
<1>16. MemoryInv' BY <1>2, <1>15 DEF MemoryInv
<1>17. ASSUME file # NoFile PROVE Restores(file[1], memory', policy', withdrawn')
    BY <1>1, <1>2, <1>12, <1>17 DEF FileInv, Restores
<1>18. orderly' \in BOOLEAN /\ (orderly' => orderly)
    <2>1. orderly' = FALSE BY <1>2
    <2> QED BY <2>1, Zenon
<1>19. born' = born /\ seen' = seen /\ file' = file BY <1>2
<1>20. FileInv' BY <1>1, <1>17, <1>18, <1>19, FileLater
<1>21. /\ UNCHANGED <<world, pending, born, saves, seen>>
       /\ commands < world.commands /\ commands' = commands + 1
    BY <1>2
<1>22. Bounds' BY <1>1, <1>18, <1>21 DEF Bounds
<1> QED BY <1>16, <1>20, <1>22 DEF StackInv

\* The parts of a memory that a purge and a snapshot keep.
LEMMA KeepingIs ==
    ASSUME NEW table, NEW ids
    PROVE  PartOf(Keeping(table, ids), table)
BY DEF PartOf, Keeping

LEMMA PurgeStep ==
    ASSUME StackInv, PurgeDeleted
    PROVE  StackInv'
<1>1. /\ Bounds /\ MemoryInv /\ FileInv /\ Shaped(memory, born)
      /\ world.commands \in Nat /\ born \in Nat /\ orderly \in BOOLEAN
    BY WorldKnown DEF StackInv, Bounds, MemoryInv, Sound
<1>2. /\ UNCHANGED <<world, policy, pending, file, born, saves, seen, orderly, withdrawn>>
      /\ commands < world.commands /\ commands' = commands + 1
    BY DEF PurgeDeleted, Commanded
<1>3. MemoryPart(memory', memory)
    <2>1. PICK facts, episodes, reflections :
             memory' = [memory EXCEPT !.facts = Keeping(@, facts), !.episodes = Keeping(@, episodes),
                                      !.reflections = Keeping(@, reflections)]
        BY DEF PurgeDeleted
    <2>2. \A table : PartOf(table, table) BY DEF PartOf
    <2> DEFINE l == memory'
    <2>3. /\ DOMAIN l = DOMAIN memory
          /\ l.facts = Keeping(memory.facts, facts) /\ l.episodes = Keeping(memory.episodes, episodes)
          /\ l.reflections = Keeping(memory.reflections, reflections)
          /\ l.events = memory.events /\ l.quarantined = memory.quarantined
        BY <1>1, <2>1 DEF Shaped
    <2> HIDE DEF l
    <2>4. MemoryPart(l, memory) BY <1>1, <2>2, <2>3, KeepingIs DEF MemoryPart, Shaped
    <2> QED BY <2>4 DEF l
<1>4. Sound(memory', policy, withdrawn, born, seen, orderly) BY <1>1, <1>3, PartSound DEF MemoryInv
<1>5. MemoryInv' BY <1>2, <1>4 DEF MemoryInv
<1>6. ASSUME file # NoFile PROVE Restores(file[1], memory', policy', withdrawn')
    <2>1. Restores(file[1], memory, policy, withdrawn) BY <1>1, <1>6 DEF FileInv
    <2>2. Kin(file[1].memory.events, memory'.facts)
        BY <1>3, <2>1 DEF Restores, Kin, MemoryPart, PartOf
    <2> QED BY <1>2, <2>1, <2>2 DEF Restores
<1>7. FileInv' BY <1>1, <1>2, <1>6, FileLater
<1> QED BY <1>1, <1>2, <1>5, <1>7 DEF StackInv, Bounds


-----------------------------------------------------------------------------
(* Snapshots. *)

LEMMA NothingIn == DOMAIN <<>> = {} OBVIOUS

LEMMA PartOfItself == \A table : PartOf(table, table) BY DEF PartOf

\* What a purge keeps in a snapshot is a part of the memory.
LEMMA PurgedPart ==
    ASSUME StackInv
    PROVE  MemoryPart(memory, memory) /\ MemoryPart(Purged(memory), memory)
<1>1. Shaped(memory, born) BY DEF StackInv, MemoryInv, Sound
<1>2. MemoryPart(memory, memory) BY <1>1, PartOfItself DEF MemoryPart, Shaped
<1> DEFINE l == Purged(memory)
<1>3. /\ DOMAIN l = DOMAIN memory
      /\ \E ids : l.episodes = Keeping(memory.episodes, ids)
      /\ \E ids : l.facts = Keeping(memory.facts, ids)
      /\ \E ids : l.events = Keeping(memory.events, ids)
      /\ \E ids : l.reflections = Keeping(memory.reflections, ids)
      /\ l.quarantined \subseteq memory.quarantined
    BY <1>1 DEF Purged, Shaped
<1> HIDE DEF l
<1>4. MemoryPart(l, memory) BY <1>1, <1>3, KeepingIs DEF MemoryPart, Shaped
<1> QED BY <1>2, <1>4 DEF l

LEMMA SaveStep ==
    ASSUME StackInv, Save
    PROVE  StackInv'
<1>1. /\ Bounds /\ MemoryInv /\ world.saves \in Nat /\ orderly \in BOOLEAN
      /\ MemoryPart(memory, memory) /\ MemoryPart(Purged(memory), memory)
    BY WorldKnown, PurgedPart DEF StackInv, Bounds
<1>2. /\ UNCHANGED <<world, memory, policy, pending, born, commands, seen, orderly, withdrawn>>
      /\ saves < world.saves /\ saves' = saves + 1
    BY DEF Save
<1>3. PICK kept \in {memory, Purged(memory)} : file' = <<Snapshot(kept, policy)>> BY DEF Save
<1> DEFINE t == Snapshot(kept, policy)
<1>4. t.memory = kept /\ t.policy = policy /\ t.withdrawn = withdrawn BY DEF Snapshot
<1>5. file'[1] = t BY <1>3
<1> HIDE DEF t
<1>6. MemoryPart(t.memory, memory) BY <1>1, <1>3, <1>4
<1>7. /\ Sound(t.memory, t.policy, t.withdrawn, born, seen, orderly)
      /\ Restores(t, memory, policy, withdrawn)
    BY <1>1, <1>4, <1>6, PartRestores DEF MemoryInv
<1>8. FileInv' BY <1>2, <1>5, <1>7 DEF FileInv
<1>9. MemoryInv' BY <1>1, <1>2 DEF MemoryInv
<1>10. Bounds' BY <1>1, <1>2 DEF Bounds
<1> QED BY <1>8, <1>9, <1>10 DEF StackInv

\* A load takes the snapshot for the memory, with or without the policy since.
LEMMA LoadStep ==
    ASSUME StackInv, Load \/ LoadAndMerge
    PROVE  StackInv'
<1> DEFINE t == file[1]
           mine == MergedPolicy(t.policy, policy)
           v == withdrawn \cup t.withdrawn
<1>1. /\ Bounds /\ MemoryInv /\ orderly \in BOOLEAN
      /\ Sound(t.memory, t.policy, t.withdrawn, born, seen, orderly)
      /\ Restores(t, memory, policy, withdrawn)
    BY DEF StackInv, Bounds, FileInv, Load, LoadAndMerge
<1>2. /\ UNCHANGED <<world, file, born, commands, saves, seen, orderly>>
      /\ pending' = {} /\ memory' = t.memory
      /\ \/ policy' = t.policy /\ withdrawn' = t.withdrawn
         \/ policy' = mine /\ withdrawn' = v
    BY DEF Load, LoadAndMerge
<1> HIDE DEF t
<1>3. Restores(t, t.memory, t.policy, t.withdrawn) BY <1>1, LoadedRestores
<1>4. /\ Sound(t.memory, mine, v, born, seen, orderly)
      /\ Restores(t, t.memory, mine, v)
    BY <1>1, MergedSound DEF MemoryInv
<1> HIDE DEF mine, v
<1>5. MemoryInv' BY <1>1, <1>2, <1>4 DEF MemoryInv
<1>6. Sound(t.memory, t.policy, t.withdrawn, born', seen', orderly')
      /\ Restores(t, memory', policy', withdrawn')
    BY <1>1, <1>2, <1>3, <1>4
<1>7. FileInv' BY <1>2, <1>6 DEF FileInv, t
<1>8. Bounds' BY <1>1, <1>2 DEF Bounds
<1> QED BY <1>5, <1>7, <1>8 DEF StackInv

\* An empty memory is sound under any policy, and hides the facts withdrawn from it.
LEMMA EmptySound ==
    ASSUME NEW p, PolicyShaped(p), NEW w, NEW n, WithdrawnShaped(w, n),
           \A x \in w : x[1] = "fact", NEW s, NEW o
    PROVE  Sound(EmptyMemory, p, w, n, s, o)
<1>1. /\ EmptyMemory.facts = <<>> /\ EmptyMemory.events = <<>> /\ EmptyMemory.reflections = <<>>
      /\ EmptyMemory.episodes = <<>> /\ EmptyMemory.quarantined = {}
      /\ DOMAIN EmptyMemory = {"facts", "events", "reflections", "quarantined", "episodes",
                               "unresolved"}
    BY DEF EmptyMemory
<1>2. Shaped(EmptyMemory, n) BY <1>1, NothingIn DEF Shaped, FactsShaped, EventsShaped
<1>3. Truth(EmptyMemory.facts, s, o)
    BY <1>1, NothingIn DEF Truth, Separate, Dated, Successive
<1>4. Kin(EmptyMemory.events, EmptyMemory.facts) BY <1>1, NothingIn DEF Kin
<1>5. Hides(w, EmptyMemory, p)
    BY <1>1, NothingIn DEF Hides, HidesFacts, HidesEpisodes, HidesReflections
<1> QED BY <1>2, <1>3, <1>4, <1>5 DEF Sound

\* The lines that a crash in a save leaves behind.
LEMMA TornSound ==
    ASSUME StackInv, NEW torn \in TornSnapshots(memory, policy)
    PROVE  Sound(torn.memory, torn.policy, torn.withdrawn, born, seen, orderly)
<1>1. /\ MemoryInv /\ Shaped(memory, born) /\ orderly \in BOOLEAN
      /\ WithdrawnShaped(withdrawn, born)
    BY DEF StackInv, Bounds, MemoryInv, Sound
<1> DEFINE some(table, n) == Keeping(table, 1 .. n)
           bare == [EmptyMemory EXCEPT !.episodes = memory.episodes,
                                       !.quarantined = memory.quarantined]
           nothing == [Snapshot(EmptyMemory, EmptyPolicy) EXCEPT
                          !.withdrawn = {w \in @ : w[1] = "fact"}]
           half(n) == [bare EXCEPT !.facts = some(memory.facts, n)]
           most(n) == [bare EXCEPT !.facts = memory.facts, !.events = some(memory.events, n)]
<1>2. CASE torn = nothing
    <2>1. /\ torn.memory = EmptyMemory /\ torn.policy = EmptyPolicy
          /\ torn.withdrawn = {w \in withdrawn : w[1] = "fact"}
        BY <1>2 DEF Snapshot
    <2>2. PolicyShaped(EmptyPolicy) BY DEF PolicyShaped, EmptyPolicy
    <2>3. WithdrawnShaped(torn.withdrawn, born) BY <1>1, <2>1 DEF WithdrawnShaped
    <2>4. \A x \in torn.withdrawn : x[1] = "fact" BY <2>1
    <2> QED BY <2>1, <2>2, <2>3, <2>4, EmptySound
<1>3. ASSUME NEW l, MemoryPart(l, memory), torn = Snapshot(l, policy)
      PROVE  Sound(torn.memory, torn.policy, torn.withdrawn, born, seen, orderly)
    <2>1. torn.memory = l /\ torn.policy = policy /\ torn.withdrawn = withdrawn
        BY <1>3 DEF Snapshot
    <2> QED BY <1>1, <1>3, <2>1, PartSound DEF MemoryInv
<1>4. /\ DOMAIN bare = {"facts", "events", "reflections", "quarantined", "episodes", "unresolved"}
      /\ bare.facts = <<>> /\ bare.events = <<>> /\ bare.reflections = <<>>
      /\ bare.episodes = memory.episodes /\ bare.quarantined = memory.quarantined
    BY DEF EmptyMemory
<1>5. \A table : PartOf(<<>>, table) BY NothingIn DEF PartOf
<1>6. MemoryPart(EmptyMemory, memory) BY <1>5, NothingIn DEF MemoryPart, EmptyMemory
<1>7. ASSUME NEW n PROVE MemoryPart(half(n), memory)
    <2> DEFINE l == half(n)
    <2> HIDE DEF bare
    <2>1. /\ DOMAIN l = DOMAIN bare /\ l.facts = Keeping(memory.facts, 1 .. n)
          /\ l.events = bare.events /\ l.reflections = bare.reflections
          /\ l.episodes = bare.episodes /\ l.quarantined = bare.quarantined
        BY <1>4
    <2> HIDE DEF l
    <2>2. MemoryPart(l, memory) BY <1>4, <1>5, <2>1, KeepingIs, PartOfItself DEF MemoryPart
    <2> QED BY <2>2 DEF l
<1>8. ASSUME NEW n PROVE MemoryPart(most(n), memory)
    <2> DEFINE l == most(n)
    <2> HIDE DEF bare
    <2>1. /\ DOMAIN l = DOMAIN bare /\ l.facts = memory.facts
          /\ l.events = Keeping(memory.events, 1 .. n) /\ l.reflections = bare.reflections
          /\ l.episodes = bare.episodes /\ l.quarantined = bare.quarantined
        BY <1>4
    <2> HIDE DEF l
    <2>2. MemoryPart(l, memory) BY <1>4, <1>5, <2>1, KeepingIs, PartOfItself DEF MemoryPart
    <2> QED BY <2>2 DEF l
<1>9. \/ torn = nothing \/ torn = Snapshot(EmptyMemory, policy)
      \/ \E n \in 0 .. born : torn = Snapshot(half(n), policy)
      \/ \E n \in 0 .. born : torn = Snapshot(most(n), policy)
    BY DEF TornSnapshots
<1> HIDE DEF nothing, half, most
<1> QED BY <1>2, <1>3, <1>6, <1>7, <1>8, <1>9

LEMMA CrashStep ==
    ASSUME StackInv, CrashInSave
    PROVE  StackInv'
<1>1. /\ Bounds /\ world.saves \in Nat /\ orderly \in BOOLEAN
    BY WorldKnown DEF StackInv, Bounds
<1>2. /\ UNCHANGED <<world, born, commands, seen, orderly>> /\ pending' = {}
      /\ saves < world.saves /\ saves' = saves + 1
    BY DEF CrashInSave
<1>3. PICK torn \in TornSnapshots(memory, policy) :
         /\ file' = <<torn>>
         /\ memory' = torn.memory /\ policy' = torn.policy /\ withdrawn' = torn.withdrawn
    BY DEF CrashInSave
<1>4. Sound(torn.memory, torn.policy, torn.withdrawn, born, seen, orderly) BY TornSound
<1>5. Restores(torn, torn.memory, torn.policy, torn.withdrawn) BY <1>1, <1>4, LoadedRestores
<1>6. file'[1] = torn BY <1>3
<1>7. MemoryInv' BY <1>2, <1>3, <1>4 DEF MemoryInv
<1>8. FileInv' BY <1>2, <1>3, <1>4, <1>5, <1>6 DEF FileInv
<1>9. Bounds' BY <1>1, <1>2 DEF Bounds
<1> QED BY <1>7, <1>8, <1>9 DEF StackInv

LEMMA StartSound == Init => StackInv
<1> SUFFICES ASSUME Init PROVE StackInv OBVIOUS
<1>1. /\ world \in Worlds /\ memory = EmptyMemory /\ pending = {} /\ file = NoFile
      /\ born = 0 /\ commands = 0 /\ saves = 0 /\ seen = {} /\ orderly = TRUE /\ withdrawn = {}
    BY DEF Init
<1>2. PolicyShaped(policy) BY DEF Init, PolicyShaped, EmptyPolicy
<1>3. WithdrawnShaped(withdrawn, born) /\ \A x \in withdrawn : x[1] = "fact"
    BY <1>1 DEF WithdrawnShaped
<1>4. MemoryInv BY <1>1, <1>2, <1>3, EmptySound DEF MemoryInv
<1>5. orderly \in BOOLEAN
    <2>1. orderly = TRUE BY <1>1
    <2> QED BY <2>1, Zenon
<1>6. Bounds BY <1>1, <1>5, WorldKnown DEF Bounds
<1> QED BY <1>1, <1>4, <1>6 DEF StackInv, FileInv

-----------------------------------------------------------------------------
(* All operations. *)

LEMMA StutterStep ==
    ASSUME StackInv, UNCHANGED vars
    PROVE  StackInv'
<1>1. Bounds /\ MemoryInv /\ FileInv BY DEF StackInv
<1>2. /\ world' = world /\ memory' = memory /\ policy' = policy /\ pending' = pending
      /\ file' = file /\ born' = born /\ commands' = commands /\ saves' = saves /\ seen' = seen
      /\ orderly' = orderly /\ withdrawn' = withdrawn
    BY DEF vars
<1>3. MemoryInv' BY <1>1, <1>2 DEF MemoryInv
<1>4. FileInv' BY <1>1, <1>2 DEF FileInv
<1>5. Bounds' BY <1>1, <1>2 DEF Bounds
<1> QED BY <1>3, <1>4, <1>5 DEF StackInv

LEMMA OperationStep ==
    ASSUME StackInv, Operation
    PROVE  StackInv'
<1>1. CASE \E c \in world.inputs : Ingest(c) BY <1>1, IngestStep
<1>2. CASE \E c \in memory.quarantined : Release(c) BY <1>2, ReleaseStep
<1>3. CASE \E term \in world.terms, user \in world.users : Forget(term, user) \/ DoNotUse(term, user)
    BY <1>3, CommandStep
<1>4. CASE \E term \in world.terms, purpose \in {AnyPurpose, "marketing"} : RevokeConsent(term, purpose)
    BY <1>4, RevokeConsentStep
<1>5. CASE \E id \in 1 .. MaxFacts : Invalidate(id) BY <1>5, InvalidateStep
<1>6. CASE PurgeDeleted BY <1>6, PurgeStep
<1>7. CASE Save BY <1>7, SaveStep
<1>8. CASE Load \/ LoadAndMerge BY <1>8, LoadStep
<1> QED BY <1>1, <1>2, <1>3, <1>4, <1>5, <1>6, <1>7, <1>8 DEF Operation

\* No operation on the memory adds a reflection.
LEMMA MarkedReflections ==
    ASSUME NEW m, NEW n, Shaped(m, n), NEW term, NEW user, NEW privacy \in Gone
    PROVE  DOMAIN Marked(m, term, user, privacy).reflections = DOMAIN m.reflections
BY MarkedIs

LEMMA StoredReflections ==
    ASSUME NEW n, NEW m, Shaped(m, n), NEW c
    PROVE  Stored(m, c).reflections = m.reflections
<1>1. DOMAIN m = {"facts", "events", "reflections", "quarantined", "episodes", "unresolved"}
    BY DEF Shaped
<1>2. \A F : [m EXCEPT !.facts = F].reflections = m.reflections BY <1>1
<1>3. \A F, E : [m EXCEPT !.facts = F, !.events = E].reflections = m.reflections BY <1>1
<1> QED BY <1>2, <1>3 DEF Stored

LEMMA AppliedReflections ==
    ASSUME NEW n, NEW m, Shaped(m, n), NEW c, ApplyFact(m, c) \/ ApplyRevocation(m, c)
    PROVE  DOMAIN memory'.reflections = DOMAIN m.reflections
<1>1. DOMAIN m = {"facts", "events", "reflections", "quarantined", "episodes", "unresolved"}
    BY DEF Shaped
<1>2. CASE memory' = m BY <1>2
<1>3. CASE memory' = Stored(m, c) BY <1>3, StoredReflections
<1>4. CASE memory' = [m EXCEPT !.unresolved = @ \cup {c.user}] BY <1>1, <1>4
<1>5. CASE \E term, user : \E privacy \in Gone : memory' = Marked(m, term, user, privacy)
    BY <1>5, MarkedReflections
<1>6. ASSUME NEW term, NEW user, RequestForget(m, term, user) \/ RequestDoNotUse(m, term, user)
      PROVE  \E privacy \in Gone : memory' = Marked(m, term, user, privacy)
    BY <1>6 DEF RequestForget, RequestDoNotUse, Gone
<1>7. CASE ApplyFact(m, c) BY <1>2, <1>3, <1>7 DEF ApplyFact, StoreFact
<1>8. CASE ApplyRevocation(m, c)
    <2>1. \/ memory' = m \/ memory' = [m EXCEPT !.unresolved = @ \cup {c.user}]
          \/ \E term : RequestForget(m, term, c.user) \/ RequestDoNotUse(m, term, c.user)
        BY <1>8 DEF ApplyRevocation
    <2> QED BY <1>2, <1>4, <1>5, <1>6, <2>1
<1> QED BY <1>7, <1>8

LEMMA NumbersStep ==
    ASSUME StackInv, NumbersInv, Operation \/ CrashInSave, made' = made
    PROVE  NumbersInv'
<1>1. /\ Shaped(memory, born)
      /\ DOMAIN memory = {"facts", "events", "reflections", "quarantined", "episodes", "unresolved"}
    BY DEF StackInv, MemoryInv, Sound, Shaped
<1>2. ASSUME DOMAIN memory'.reflections \subseteq DOMAIN memory.reflections, file' = file
      PROVE  NumbersInv'
    BY <1>2 DEF NumbersInv, Numbered
<1>3. ASSUME NEW c \in world.inputs, Ingest(c) PROVE NumbersInv'
    <2> DEFINE m == WithEpisode(c)
    <2>1. Alike(m, memory)
        BY <1>3, WorldKnown, WithEpisodeIs DEF StackInv, Bounds
    <2>2. Shaped(m, born) /\ m.reflections = memory.reflections BY <1>1, <2>1 DEF Shaped, Alike
    <2> HIDE DEF m
    <2>3. \/ ApplyFact(m, c) \/ ApplyRevocation(m, c)
          \/ memory' = [m EXCEPT !.quarantined = @ \cup {c}]
        BY <1>3 DEF Ingest, m
    <2>4. CASE memory' = [m EXCEPT !.quarantined = @ \cup {c}]
        <3>1. memory'.reflections = m.reflections BY <2>2, <2>4 DEF Shaped
        <3> QED BY <1>2, <1>3, <2>2, <3>1 DEF Ingest
    <2>5. CASE ApplyFact(m, c) \/ ApplyRevocation(m, c)
        <3>1. DOMAIN memory'.reflections = DOMAIN m.reflections BY <2>2, <2>5, AppliedReflections
        <3> QED BY <1>2, <1>3, <2>2, <3>1 DEF Ingest
    <2> QED BY <2>3, <2>4, <2>5
<1>4. ASSUME NEW c \in memory.quarantined, Release(c) PROVE NumbersInv'
    <2> DEFINE m == [memory EXCEPT !.quarantined = @ \ {c}]
               d == [c EXCEPT !.consent = "explicit", !.at = Now]
    <2>1. Shaped(m, born) /\ m.reflections = memory.reflections
        <3>1. /\ DOMAIN m = DOMAIN memory /\ m.facts = memory.facts /\ m.events = memory.events
              /\ m.reflections = memory.reflections /\ m.episodes = memory.episodes
              /\ m.quarantined \subseteq memory.quarantined
            BY <1>1
        <3> HIDE DEF m
        <3> QED BY <1>1, <3>1 DEF Shaped
    <2>2. ApplyFact(m, d) /\ file' = file BY <1>4 DEF Release
    <2> HIDE DEF m, d
    <2>3. DOMAIN memory'.reflections = DOMAIN m.reflections BY <2>1, <2>2, AppliedReflections
    <2> QED BY <1>2, <2>1, <2>2, <2>3
<1>5. ASSUME NEW term, NEW user, Forget(term, user) \/ DoNotUse(term, user) PROVE NumbersInv'
    <2>1. \E privacy \in Gone : memory' = Marked(memory, term, user, privacy)
        BY <1>5 DEF Forget, DoNotUse, RequestForget, RequestDoNotUse, Gone
    <2>2. file' = file BY <1>5 DEF Forget, DoNotUse
    <2> QED BY <1>1, <1>2, <2>1, <2>2, MarkedReflections
<1>6. ASSUME NEW term, NEW purpose, RevokeConsent(term, purpose) PROVE NumbersInv'
    BY <1>2, <1>6 DEF RevokeConsent
<1>7. ASSUME NEW id, Invalidate(id) PROVE NumbersInv'
    <2>1. memory' = [memory EXCEPT !.facts[id].until = Now] /\ file' = file BY <1>7 DEF Invalidate
    <2>2. memory'.reflections = memory.reflections BY <1>1, <2>1
    <2> QED BY <1>2, <2>1, <2>2
<1>8. CASE PurgeDeleted
    <2>1. PICK facts, episodes, reflections :
             memory' = [memory EXCEPT !.facts = Keeping(@, facts), !.episodes = Keeping(@, episodes),
                                      !.reflections = Keeping(@, reflections)]
        BY <1>8 DEF PurgeDeleted
    <2>2. memory'.reflections = Keeping(memory.reflections, reflections) BY <1>1, <2>1
    <2>3. file' = file BY <1>8 DEF PurgeDeleted
    <2> QED BY <1>2, <2>2, <2>3, KeepingIs DEF PartOf
<1>9. CASE Save
    <2>1. PICK kept \in {memory, Purged(memory)} : file' = <<Snapshot(kept, policy)>>
        BY <1>9 DEF Save
    <2>2. DOMAIN kept.reflections \subseteq DOMAIN memory.reflections
        BY <2>1, PurgedPart DEF MemoryPart, PartOf
    <2>3. file'[1].memory = kept BY <2>1 DEF Snapshot
    <2>4. memory' = memory BY <1>9 DEF Save
    <2> QED BY <2>2, <2>3, <2>4 DEF NumbersInv, Numbered
<1>10. CASE Load \/ LoadAndMerge
    BY <1>10 DEF Load, LoadAndMerge, NumbersInv
<1>11. CASE CrashInSave
    <2>1. PICK torn \in TornSnapshots(memory, policy) : file' = <<torn>> /\ memory' = torn.memory
        BY <1>11 DEF CrashInSave
    <2> DEFINE bare == [EmptyMemory EXCEPT !.episodes = memory.episodes,
                                           !.quarantined = memory.quarantined]
               nothing == [Snapshot(EmptyMemory, EmptyPolicy) EXCEPT
                              !.withdrawn = {w \in @ : w[1] = "fact"}]
               half(n) == [bare EXCEPT !.facts = Keeping(memory.facts, 1 .. n)]
               most(n) == [bare EXCEPT !.facts = memory.facts,
                                       !.events = Keeping(memory.events, 1 .. n)]
    <2>2. \/ torn = nothing \/ torn = Snapshot(EmptyMemory, policy)
          \/ \E n \in 0 .. born : torn = Snapshot(half(n), policy)
          \/ \E n \in 0 .. born : torn = Snapshot(most(n), policy)
        BY <2>1 DEF TornSnapshots
    <2>3. EmptyMemory.reflections = <<>> /\ nothing.memory = EmptyMemory
        BY DEF EmptyMemory, Snapshot
    <2>4. \A l : Snapshot(l, policy).memory = l BY DEF Snapshot
    <2>5. /\ bare.reflections = <<>>
          /\ DOMAIN bare = {"facts", "events", "reflections", "quarantined", "episodes",
                            "unresolved"}
        BY DEF EmptyMemory
    <2> HIDE DEF bare
    <2>6. \A n : half(n).reflections = <<>> /\ most(n).reflections = <<>> BY <2>5
    <2> HIDE DEF half, most, nothing
    <2>7. torn.memory.reflections = <<>> BY <2>2, <2>3, <2>4, <2>6
    <2>8. file'[1] = torn BY <2>1
    <2> QED BY <2>1, <2>7, <2>8, NothingIn DEF NumbersInv, Numbered
<1> QED BY <1>3, <1>4, <1>5, <1>6, <1>7, <1>8, <1>9, <1>10, <1>11 DEF Operation

-----------------------------------------------------------------------------
(* The sleep cycle: the plan. *)

LEMMA SixFail ==
    ASSUME NEW a, NEW b, NEW c, NEW d, NEW e, NEW f, NEW T,
           \A x \in {a, b, c, d, e, f} : x \subseteq T, ~ Passes(<<a, b, c, d, e, f>>)
    PROVE  FirstReason(<<a, b, c, d, e, f>>) \in T
<1> DEFINE C == <<a, b, c, d, e, f>>
<1>1. DOMAIN C = 1 .. 6 /\ \A n \in 1 .. 6 : C[n] \in {a, b, c, d, e, f} BY ListOfSix
<1> HIDE DEF C
<1>2. \A n \in 1 .. 6 : C[n] \subseteq T BY <1>1
<1>3. \E n \in 1 .. 6 : C[n] # {}
    <2>1. ~ Passes(C) BY DEF C
    <2> QED BY <1>1, <2>1 DEF Passes, FirstReason
<1>4. PICK n \in 1 .. 6 : C[n] # {} BY <1>3
<1>5. 6 \in Nat /\ n \in 1 .. 6 /\ C[n] # {} /\ DOMAIN C = 1 .. 6 BY <1>1, <1>4
<1>6. \E j \in 1 .. 6 : j <= n /\ FirstReason(C) \in C[j] BY <1>5, FirstIs
<1>7. FirstReason(C) \in T BY <1>2, <1>6
<1> QED BY <1>7 DEF C

\* The reason for which a fact with evidence is left out of a plan is a high risk.
LEMMA ExcludedIsHighRisk ==
    ASSUME NEW m, NEW p, NEW id, m.facts[id].evidence # {}, Exclusion(m, p, id) # ""
    PROVE  Exclusion(m, p, id) \in HighRiskReasons
<1> DEFINE f == m.facts[id]
           c1 == When(<<"fact", id>> \in p.ids, "do_not_use")
           c2 == When(f.evidence \cap p.episodes # {}, "deleted_evidence")
           c3 == When(MatchesErased(p, {Claim(f)}), "do_not_use_term")
           c4 == When(Claim(f) \in InjectionClaims, "possible_prompt_injection")
           c5 == When(f.privacy = "sensitive" \/ Claim(f) \in Unsafe, "sensitive_requires_review")
           c6 == When(f.evidence = {}, "missing_provenance")
           C == <<c1, c2, c3, c4, c5, c6>>
<1>1. /\ c1 \subseteq HighRiskReasons /\ c2 \subseteq HighRiskReasons /\ c3 \subseteq HighRiskReasons
      /\ c4 \subseteq HighRiskReasons /\ c5 \subseteq HighRiskReasons /\ c6 = {}
    <2> HIDE DEF f
    <2>1. f.evidence # {} BY DEF f
    <2> QED BY <2>1 DEF When, HighRiskReasons
<1>2. Exclusion(m, p, id) = FirstReason(C) BY DEF Exclusion
<1>3. ~ Passes(C) BY <1>2 DEF Passes
<1> HIDE DEF c1, c2, c3, c4, c5, c6
<1>4. \A x \in {c1, c2, c3, c4, c5, c6} : x \subseteq HighRiskReasons BY <1>1
<1>5. FirstReason(C) \in HighRiskReasons BY <1>3, <1>4, SixFail
<1> QED BY <1>2, <1>5

\* What a decision is about: users that were asked for, relations and episodes there are.
About(d, who) ==
    d.scope.user \in who /\ d.relations \subseteq Relations /\ d.evidence \subseteq Evidence

LEMMA NoteAbout ==
    ASSUME NEW who, NEW scope, scope.user \in who, NEW evidence, evidence \subseteq Evidence,
           NEW action, NEW reason, NEW review
    PROVE  About(Note(action, reason, scope, evidence, review), who)
BY DEF Note, About

LEMMA ProposalAbout ==
    ASSUME NEW who, NEW scope, scope.user \in who, NEW evidence, evidence \subseteq Evidence,
           NEW relations, relations \subseteq Relations,
           NEW action, NEW reason, NEW counter, NEW mixed
    PROVE  About(Proposal(action, reason, scope, relations, evidence, counter, mixed), who)
BY DEF Proposal, About

LEMMA ScopesAre ==
    ASSUME NEW f, NEW e
    PROVE  FactScope(f).user = f.user /\ EventScope(e).user = e.user
BY DEF FactScope, EventScope

LEMMA FactsKnown ==
    ASSUME NEW m, NEW n, Shaped(m, n)
    PROVE  /\ \A id \in DOMAIN m.facts :
                 /\ m.facts[id].evidence \subseteq Evidence /\ m.facts[id].evidence # {}
                 /\ m.facts[id].relation \in Relations
           /\ \A id \in DOMAIN m.events :
                 m.events[id].evidence \subseteq Evidence /\ m.events[id].relation \in Relations
BY DEF Shaped, FactsShaped, EventsShaped, TemporalFact, MemoryEvent

LEMMA PlanAbout ==
    ASSUME NEW m, NEW n, Shaped(m, n), NEW p, NEW who
    PROVE  \A d \in PlanOf(m, p, who) : About(d, who)
<1>1. /\ FactsOf(m, who) \subseteq DOMAIN m.facts
      /\ \A id \in FactsOf(m, who) : m.facts[id].user \in who
      /\ ActiveFacts(m, who) \subseteq FactsOf(m, who)
      /\ SafeFacts(m, p, who) \subseteq ActiveFacts(m, who)
    BY DEF FactsOf, ActiveFacts, SafeFacts
<1>2. \A ids : ids \subseteq DOMAIN m.facts =>
          EvidenceOf(m, ids) \subseteq Evidence /\ RelationsOf(m, ids) \subseteq Relations
    BY FactsKnown DEF EvidenceOf, RelationsOf
<1>3. ASSUME NEW id \in FactsOf(m, who)
      PROVE  FactScope(m.facts[id]).user \in who /\ m.facts[id].evidence \subseteq Evidence
    BY <1>1, ScopesAre, FactsKnown
<1>4. ASSUME NEW d \in Rejected(m, p, who) PROVE About(d, who)
    <2>1. PICK id \in FactsOf(m, who) :
             \E reason, review : d = Note("no_op", reason, FactScope(m.facts[id]),
                                          m.facts[id].evidence, review)
        BY <1>1, <1>4 DEF Rejected
    <2> QED BY <1>3, <2>1, NoteAbout
<1>5. ASSUME NEW d \in Contradictions(m, p, who) PROVE About(d, who)
    <2> DEFINE kin(id) == {i \in SafeFacts(m, p, who) :
                              /\ FactScope(m.facts[i]) = FactScope(m.facts[id])
                              /\ m.facts[i].relation = m.facts[id].relation}
    <2>1. PICK id \in FactsOf(m, who) :
             d = Note("flag_conflict", "conflicting_evidence", FactScope(m.facts[id]),
                      EvidenceOf(m, kin(id)), TRUE)
        BY <1>1, <1>5 DEF Contradictions
    <2>2. EvidenceOf(m, kin(id)) \subseteq Evidence BY <1>1, <1>2
    <2> HIDE DEF kin
    <2> QED BY <1>3, <2>1, <2>2, NoteAbout
<1>6. ASSUME NEW d \in Recurring(m, p, who) PROVE About(d, who)
    <2> DEFINE those(scope) == {i \in SafeFacts(m, p, who) : FactScope(m.facts[i]) = scope}
    <2>1. PICK id \in FactsOf(m, who) : LET scope == FactScope(m.facts[id]) IN
             \/ d = Note("no_op", "insufficient_evidence", scope, EvidenceOf(m, those(scope)), FALSE)
             \/ \E action, counter :
                   d = Proposal(action, "repeated_evidence", scope, RelationsOf(m, those(scope)),
                                EvidenceOf(m, those(scope)), counter, FALSE)
        BY <1>1, <1>6 DEF Recurring
    <2> DEFINE scope == FactScope(m.facts[id])
               evidence == EvidenceOf(m, those(scope))
               relations == RelationsOf(m, those(scope))
    <2>2. evidence \subseteq Evidence /\ relations \subseteq Relations
        <3>1. those(scope) \subseteq DOMAIN m.facts BY <1>1
        <3> HIDE DEF those
        <3> QED BY <1>2, <3>1
    <2>3. scope.user \in who BY <1>3
    <2>4. \/ d = Note("no_op", "insufficient_evidence", scope, evidence, FALSE)
          \/ \E action, counter :
                d = Proposal(action, "repeated_evidence", scope, relations, evidence, counter, FALSE)
        BY <2>1
    <2> HIDE DEF scope, evidence, relations
    <2>5. CASE d = Note("no_op", "insufficient_evidence", scope, evidence, FALSE)
        BY <2>2, <2>3, <2>5, NoteAbout
    <2>6. ASSUME NEW action, NEW counter,
                 d = Proposal(action, "repeated_evidence", scope, relations, evidence, counter, FALSE)
          PROVE  About(d, who)
        BY <2>2, <2>3, <2>6, ProposalAbout
    <2> QED BY <2>4, <2>5, <2>6
<1>7. ASSUME NEW d \in Decays(m, who) PROVE About(d, who)
    <2>1. PICK id \in FactsOf(m, who) :
             d = Note("decay", "stale_or_superseded", FactScope(m.facts[id]),
                      m.facts[id].evidence, FALSE)
        BY <1>7 DEF Decays
    <2> QED BY <1>3, <2>1, NoteAbout
<1>8. ASSUME NEW d \in RecurringEvents(m, who) PROVE About(d, who)
    <2> DEFINE usable == {id \in DOMAIN m.events :
                             /\ m.events[id].user \in who
                             /\ EventClaims(m.events[id]) \cap InjectionClaims = {}}
               kin(id) == {i \in usable : /\ EventScope(m.events[i]) = EventScope(m.events[id])
                                          /\ m.events[i].type = m.events[id].type
                                          /\ m.events[i].relation = m.events[id].relation}
    <2>1. PICK id \in usable : \E mixed :
             d = Proposal("create_reflection", "repeated_event_evidence", EventScope(m.events[id]),
                          {m.events[id].relation}, EventEvidence(m, kin(id)), {}, mixed)
        BY <1>8 DEF RecurringEvents
    <2> DEFINE scope == EventScope(m.events[id])
               evidence == EventEvidence(m, kin(id))
               relations == {m.events[id].relation}
    <2>2. id \in DOMAIN m.events /\ m.events[id].user \in who /\ kin(id) \subseteq DOMAIN m.events
        OBVIOUS
    <2> HIDE DEF usable, kin
    <2>3. evidence \subseteq Evidence /\ relations \subseteq Relations
        BY <2>2, FactsKnown DEF EventEvidence
    <2>4. scope.user \in who BY <2>2, ScopesAre
    <2>5. \E mixed : d = Proposal("create_reflection", "repeated_event_evidence", scope,
                                  relations, evidence, {}, mixed)
        BY <2>1
    <2> HIDE DEF scope, evidence, relations
    <2> QED BY <2>3, <2>4, <2>5, ProposalAbout
<1> QED BY <1>4, <1>5, <1>6, <1>7, <1>8 DEF PlanOf

LEMMA PlanFinite ==
    ASSUME NEW m, NEW n \in Nat, Shaped(m, n), NEW p, NEW who
    PROVE  IsFiniteSet(PlanOf(m, p, who)) /\ IsFiniteSet(DOMAIN m.facts)
<1>1. IsFiniteSet(DOMAIN m.facts) /\ IsFiniteSet(DOMAIN m.events)
    <2>1. IsFiniteSet(1 .. n) BY FS_Interval
    <2> QED BY <2>1, FS_Subset DEF Shaped, FactsShaped, EventsShaped
<1>2. \A S : S \subseteq DOMAIN m.facts \/ S \subseteq DOMAIN m.events => IsFiniteSet(S)
    BY <1>1, FS_Subset
<1> DEFINE safe == SafeFacts(m, p, who)
<1>3. IsFiniteSet(Rejected(m, p, who))
    <2> DEFINE S == ActiveFacts(m, who) \ safe
               g == [id \in S |->
                       Note("no_op", Exclusion(m, p, id), FactScope(m.facts[id]), m.facts[id].evidence,
                            Exclusion(m, p, id) \in {"sensitive_requires_review",
                                                     "possible_prompt_injection"})]
    <2>1. IsFiniteSet(S) BY <1>2 DEF ActiveFacts, FactsOf
    <2>2. Rejected(m, p, who) = {g[x] : x \in DOMAIN g} BY DEF Rejected
    <2>3. DOMAIN g = S OBVIOUS
    <2> HIDE DEF g
    <2> QED BY <2>1, <2>2, <2>3, ValuesFinite
<1>4. IsFiniteSet(Contradictions(m, p, who))
    <2> DEFINE kin(id) == {i \in safe : /\ FactScope(m.facts[i]) = FactScope(m.facts[id])
                                        /\ m.facts[i].relation = m.facts[id].relation}
               S == {i \in safe : \/ Cardinality(ObjectsOf(m, kin(i))) > 1
                                  \/ \E j \in kin(i) : m.facts[j].contested}
               g == [id \in S |-> Note("flag_conflict", "conflicting_evidence",
                                       FactScope(m.facts[id]), EvidenceOf(m, kin(id)), TRUE)]
    <2>1. IsFiniteSet(S) BY <1>2 DEF SafeFacts, ActiveFacts, FactsOf
    <2>2. Contradictions(m, p, who) = {g[x] : x \in DOMAIN g} BY DEF Contradictions
    <2>3. DOMAIN g = S OBVIOUS
    <2> HIDE DEF g
    <2> QED BY <2>1, <2>2, <2>3, ValuesFinite
<1>5. IsFiniteSet(Recurring(m, p, who))
    <2> DEFINE within(ids, scope) == {id \in ids : FactScope(m.facts[id]) = scope}
               past == {id \in FactsOf(m, who) : m.facts[id].until # NoTime}
               decision(scope) ==
                   LET ids == within(safe, scope)
                       evidence == EvidenceOf(m, ids)
                   IN  IF Cardinality(evidence) < MinEvidence
                       THEN Note("no_op", "insufficient_evidence", scope, evidence, FALSE)
                       ELSE Proposal(ReflectionAction(m, RelationsOf(m, ids)), "repeated_evidence",
                                     scope, RelationsOf(m, ids), evidence,
                                     EvidenceOf(m, within(past, scope)), FALSE)
               g == [id \in safe |-> decision(FactScope(m.facts[id]))]
    <2>1. IsFiniteSet(safe) BY <1>2 DEF SafeFacts, ActiveFacts, FactsOf
    <2>2. Recurring(m, p, who) = {decision(scope) : scope \in {FactScope(m.facts[id]) : id \in safe}}
        BY DEF Recurring
    <2> HIDE DEF decision, safe
    <2>3. Recurring(m, p, who) = {g[x] : x \in DOMAIN g} BY <2>2
    <2>4. DOMAIN g = safe OBVIOUS
    <2> HIDE DEF g
    <2> QED BY <2>1, <2>3, <2>4, ValuesFinite
<1>6. IsFiniteSet(Decays(m, who))
    <2> DEFINE S == {i \in FactsOf(m, who) : /\ m.facts[i].until # NoTime
                                             /\ m.facts[i].privacy \notin {"deleted", "do_not_use"}}
               g == [id \in S |-> Note("decay", "stale_or_superseded", FactScope(m.facts[id]),
                                       m.facts[id].evidence, FALSE)]
    <2>1. IsFiniteSet(S) BY <1>2 DEF FactsOf
    <2>2. Decays(m, who) = {g[x] : x \in DOMAIN g} BY DEF Decays
    <2>3. DOMAIN g = S OBVIOUS
    <2> HIDE DEF g
    <2> QED BY <2>1, <2>2, <2>3, ValuesFinite
<1>7. IsFiniteSet(RecurringEvents(m, who))
    <2> DEFINE usable == {id \in DOMAIN m.events :
                             /\ m.events[id].user \in who
                             /\ EventClaims(m.events[id]) \cap InjectionClaims = {}}
               kin(id) == {i \in usable : /\ EventScope(m.events[i]) = EventScope(m.events[id])
                                          /\ m.events[i].type = m.events[id].type
                                          /\ m.events[i].relation = m.events[id].relation}
               S == {i \in usable : Cardinality(EventEvidence(m, kin(i))) >= MinEvidence}
               g == [id \in S |->
                       Proposal("create_reflection", "repeated_event_evidence",
                                EventScope(m.events[id]), {m.events[id].relation},
                                EventEvidence(m, kin(id)), {}, m.events[id].client # NoClient)]
    <2>1. IsFiniteSet(S) BY <1>2
    <2>2. RecurringEvents(m, who) = {g[x] : x \in DOMAIN g} BY DEF RecurringEvents
    <2>3. DOMAIN g = S OBVIOUS
    <2> HIDE DEF g, S
    <2> QED BY <2>1, <2>2, <2>3, ValuesFinite
<1> QED BY <1>1, <1>3, <1>4, <1>5, <1>6, <1>7, FS_Union DEF PlanOf

-----------------------------------------------------------------------------
(* The sleep cycle: the review. *)

\* What is in dispute is in a plan as a high risk, if its user is planned for.
LEMMA DisputeIsPlanned ==
    ASSUME NEW m, NEW n \in Nat, Shaped(m, n), NEW p, NEW who, NEW user \in who,
           user \in Disputed(m)
    PROVE  \E d \in PlanOf(m, p, who) : Risk(d) = "high" /\ d.scope.user = user
<1> DEFINE F == m.facts
           safe == SafeFacts(m, p, who)
<1>1. PICK j \in DOMAIN F : \E k \in DOMAIN F :
         /\ F[j].user = user /\ Active(F[j]) /\ Active(F[k]) /\ F[k].user = user
         /\ F[j].relation # TargetClient
         /\ F[k].relation = F[j].relation /\ F[k].object # F[j].object
    BY DEF Disputed
<1>2. PICK k \in DOMAIN F :
         /\ F[j].user = user /\ Active(F[j]) /\ Active(F[k]) /\ F[k].user = user
         /\ F[j].relation # TargetClient
         /\ F[k].relation = F[j].relation /\ F[k].object # F[j].object
    BY <1>1
<1>3. j \in ActiveFacts(m, who) /\ k \in ActiveFacts(m, who)
    BY <1>2 DEF ActiveFacts, FactsOf
<1>4. FactScope(F[j]).user = user /\ FactScope(F[k]) = FactScope(F[j])
    BY <1>2 DEF FactScope
<1>5. ASSUME NEW i \in {j, k}, i \notin safe
      PROVE  \E d \in PlanOf(m, p, who) : Risk(d) = "high" /\ d.scope.user = user
    <2> DEFINE reason == Exclusion(m, p, i)
               review == reason \in {"sensitive_requires_review", "possible_prompt_injection"}
               d == Note("no_op", reason, FactScope(F[i]), F[i].evidence, review)
    <2>1. reason # "" BY <1>3, <1>5 DEF SafeFacts
    <2>2. F[i].evidence # {} BY FactsKnown
    <2>3. reason \in HighRiskReasons BY <2>1, <2>2, ExcludedIsHighRisk
    <2>4. d \in PlanOf(m, p, who) BY <1>3, <1>5 DEF PlanOf, Rejected
    <2>5. FactScope(F[i]).user = user BY <1>4
    <2> HIDE DEF reason, review
    <2>6. d.reason = reason /\ d.scope = FactScope(F[i]) BY DEF Note
    <2> HIDE DEF d
    <2>7. Risk(d) = "high" BY <2>3, <2>6 DEF Risk
    <2> QED BY <2>4, <2>5, <2>6, <2>7
<1>6. CASE j \in safe /\ k \in safe
    <2> DEFINE kin(id) == {i \in safe : /\ FactScope(F[i]) = FactScope(F[id])
                                        /\ F[i].relation = F[id].relation}
               objects == ObjectsOf(m, kin(j))
               d == Note("flag_conflict", "conflicting_evidence", FactScope(F[j]),
                         EvidenceOf(m, kin(j)), TRUE)
    <2>1. j \in kin(j) /\ k \in kin(j) BY <1>2, <1>4, <1>6
    <2>2. F[j].object \in objects /\ F[k].object \in objects /\ F[j].object # F[k].object
        BY <1>2, <2>1 DEF ObjectsOf
    <2>3. IsFiniteSet(objects)
        <3> DEFINE g == [id \in kin(j) |-> F[id].object]
        <3>1. kin(j) \subseteq DOMAIN F BY DEF SafeFacts, ActiveFacts, FactsOf
        <3>2. IsFiniteSet(kin(j)) BY <3>1, PlanFinite, FS_Subset
        <3>3. objects = {g[x] : x \in DOMAIN g} /\ DOMAIN g = kin(j) BY DEF ObjectsOf
        <3> HIDE DEF g, kin
        <3> QED BY <3>2, <3>3, ValuesFinite
    <2>4. Cardinality(objects) > 1
        <3> HIDE DEF objects
        <3> QED BY <2>2, <2>3, TwoAtLeast
    <2>5. d \in PlanOf(m, p, who) BY <1>6, <2>4 DEF PlanOf, Contradictions
    <2> HIDE DEF kin
    <2>6. d.reason = "conflicting_evidence" /\ d.scope = FactScope(F[j]) BY DEF Note
    <2> HIDE DEF d
    <2>7. Risk(d) = "high" BY <2>6 DEF Risk, HighRiskReasons
    <2> QED BY <1>4, <2>5, <2>6, <2>7
<1> QED BY <1>5, <1>6

LEMMA ReviewQueueStep ==
    ASSUME SleepInv, ReviewQueue
    PROVE  SleepInv'
<1>1. /\ StackInv /\ NumbersInv /\ Bounds /\ MemoryInv /\ FileInv /\ Shaped(memory, born)
      /\ born \in Nat /\ world.commands \in Nat
    BY WorldKnown DEF SleepInv, StackInv, Bounds, MemoryInv, Sound
<1>2. PICK who \in {{user} : user \in Users} \cup {Users}, mode \in {"review_required", "all"} :
         /\ run' = PlanOf(memory, policy, who)
         /\ items' = {d \in run' : mode = "all" \/ d.review}
         /\ approved' = {}
         /\ planned' = [disputed |-> Disputed(memory), withdrawn |-> WithdrawnEvidence(memory)]
    BY DEF ReviewQueue
<1>3. /\ UNCHANGED <<world, memory, policy, pending, file, born, saves, seen, orderly, withdrawn,
                     made>>
      /\ commands < world.commands /\ commands' = commands + 1
    BY DEF ReviewQueue, Commanded
<1> DEFINE plan == PlanOf(memory, policy, who)
<1>4. /\ IsFiniteSet(plan) /\ \A d \in plan : About(d, who) BY <1>1, PlanFinite, PlanAbout
<1>5. StackInv'
    <2>1. MemoryInv' BY <1>1, <1>3 DEF MemoryInv
    <2>2. FileInv' BY <1>1, <1>3 DEF FileInv
    <2>3. Bounds' BY <1>1, <1>3 DEF Bounds
    <2> QED BY <2>1, <2>2, <2>3 DEF StackInv
<1>6. NumbersInv' BY <1>1, <1>3 DEF NumbersInv
<1>7. who \subseteq Users BY <1>2
<1>8. DecisionsInv'
    <2>1. IsFiniteSet(items') BY <1>2, <1>4, FS_Subset
    <2> HIDE DEF plan
    <2>2. \A d \in run' : d.scope.user \in Users /\ d.relations \subseteq Relations
                          /\ d.evidence \subseteq Evidence
        BY <1>2, <1>4, <1>7 DEF About, plan
    <2> QED BY <1>2, <2>1, <2>2 DEF DecisionsInv
<1>9. ASSUME NEW d \in items', d.scope.user \in Disputed(memory)
      PROVE  Risk(d) = "high" \/ \E e \in items' : Risk(e) = "high" /\ Overlaps(d, e)
    <2>1. CASE d.review BY <2>1 DEF Risk
    <2>2. CASE mode = "all"
        <3>1. d \in plan /\ items' = plan BY <1>2, <2>2
        <3>2. d.scope.user \in who BY <1>4, <3>1 DEF About
        <3> DEFINE user == d.scope.user
        <3>3. \E e \in plan : Risk(e) = "high" /\ e.scope.user = user
            <4>1. user \in who /\ user \in Disputed(memory) BY <1>9, <3>2
            <4> HIDE DEF user
            <4> QED BY <1>1, <4>1, DisputeIsPlanned
        <3> QED BY <3>1, <3>3 DEF Overlaps
    <2> QED BY <1>2, <2>1, <2>2
<1>10. ReviewInv' BY <1>2, <1>9 DEF ReviewInv
<1>11. DisputedNeverApproved' BY <1>2 DEF DisputedNeverApproved
<1> QED BY <1>5, <1>6, <1>8, <1>10, <1>11 DEF SleepInv

\* A reviewer's policy blocks what is a high risk, and what a high risk overlaps.
LEMMA ReviewStep ==
    ASSUME SleepInv, NEW reviewer, SimulateReview(reviewer)
    PROVE  SleepInv'
<1>1. /\ StackInv /\ NumbersInv /\ DecisionsInv /\ ReviewInv
    BY DEF SleepInv
<1>2. /\ approved' = {d \in items : Approves(reviewer, d)}
      /\ UNCHANGED vars /\ run' = run /\ items' = items /\ planned' = planned /\ made' = made
    BY DEF SimulateReview
<1>3. StackInv' BY <1>1, <1>2, StutterStep
<1>4. NumbersInv' BY <1>1, <1>2 DEF NumbersInv, vars
<1>5. DecisionsInv' BY <1>1, <1>2 DEF DecisionsInv
<1>6. ReviewInv' BY <1>1, <1>2 DEF ReviewInv
<1>7. ASSUME NEW d \in items, Approves(reviewer, d), d.scope.user \in planned.disputed
      PROVE  FALSE
    <2>1. Risk(d) # "high" /\ ~ InConflict(d) BY <1>7 DEF Approves, Unblocked
    <2>2. PICK e \in items : Risk(e) = "high" /\ Overlaps(d, e) BY <1>1, <1>7, <2>1 DEF ReviewInv
    <2>3. e # d BY <2>1, <2>2
    <2> QED BY <2>1, <2>2, <2>3 DEF InConflict
<1>8. DisputedNeverApproved' BY <1>2, <1>7 DEF DisputedNeverApproved
<1> QED BY <1>3, <1>4, <1>5, <1>6, <1>8 DEF SleepInv

\* A set as a list: its members, each at a number.
LEMMA ListedIs ==
    ASSUME NEW S, IsFiniteSet(S)
    PROVE  LET s == SetToSeq(S)
           IN  Len(s) \in Nat /\ DOMAIN s = 1 .. Len(s) /\ \A i \in DOMAIN s : s[i] \in S
<1> DEFINE n == Cardinality(S)
           s == SetToSeq(S)
<1>1. n \in Nat /\ ExistsBijection(1 .. n, S) BY FS_CardinalityType
<1>2. \E f \in [1 .. n -> S] : IsInjective(f)
    BY <1>1 DEF ExistsBijection, Bijection, Injection, IsInjective
<1>3. s \in [1 .. n -> S] BY <1>2 DEF SetToSeq
<1> HIDE DEF n, s
<1>4. s \in Seq(S) BY <1>1, <1>3
<1>5. Len(s) \in Nat /\ DOMAIN s = 1 .. Len(s) BY <1>4
<1> QED BY <1>3, <1>5 DEF s

\* The reflection of an approved decision names users, relations and episodes there are.
LEMMA ReflectionIs ==
    ASSUME NEW d, About(d, Users), Proposes(d)
    PROVE  ReflectionOf(d) \in Reflection /\ ReflectionOf(d).status # "invalidated"
<1> DEFINE r == ReflectionClaim(d.relations)[1]
<1>1. d.relations # {} /\ d.relations \subseteq Relations BY DEF About, Proposes
<1>2. r \in Relations \cup {"profile"} BY <1>1 DEF ReflectionClaim
<1> HIDE DEF r
<1>3. ReflectionOf(d) = [user |-> d.scope.user, relation |-> r, object |-> "context",
                         evidence |-> d.evidence, status |-> "hypothesis"]
    BY DEF ReflectionOf, r
<1>4. d.scope.user \in Users /\ d.evidence \in SUBSET Evidence BY DEF About
<1>5. ReflectionOf(d) \in Reflection BY <1>2, <1>3, <1>4 DEF Reflection
<1>6. ReflectionOf(d).status = "hypothesis" BY <1>3
<1> QED BY <1>5, <1>6

\* What was approved is added under new numbers, and nothing else changes.
LEMMA ApplyStep ==
    ASSUME SleepInv, ApplyApproved
    PROVE  SleepInv'
<1> DEFINE S == {ReflectionOf(d) : d \in {e \in approved : Proposes(e)}}
           added == SetToSeq(S)
           R == memory.reflections
           r == [id \in DOMAIN R \cup (made + 1 .. made + Len(added)) |->
                    IF id > made THEN added[id - made] ELSE R[id]]
           l == [memory EXCEPT !.reflections = r]
<1>1. /\ StackInv /\ NumbersInv /\ DecisionsInv /\ ReviewInv /\ DisputedNeverApproved
      /\ Bounds /\ MemoryInv /\ FileInv /\ Shaped(memory, born)
      /\ world.commands \in Nat /\ made \in Nat
    BY WorldKnown DEF SleepInv, NumbersInv, StackInv, Bounds, MemoryInv, Sound
<1>2. /\ commands < world.commands /\ commands' = commands + 1 /\ memory' = l
      /\ made' = made + Len(added)
      /\ UNCHANGED <<world, policy, pending, file, born, saves, seen, orderly, withdrawn,
                     run, items, approved, planned>>
    BY DEF ApplyApproved, Commanded
<1>3. IsFiniteSet(S)
    <2> DEFINE P == {e \in approved : Proposes(e)}
               g == [d \in P |-> ReflectionOf(d)]
    <2>1. IsFiniteSet(P) BY <1>1, FS_Subset DEF DecisionsInv
    <2>2. S = {g[x] : x \in DOMAIN g} /\ DOMAIN g = P OBVIOUS
    <2> HIDE DEF g, S
    <2> QED BY <2>1, <2>2, ValuesFinite
<1>4. \A x \in S : x \in Reflection /\ x.status # "invalidated"
    <2>1. \A d \in approved : About(d, Users) BY <1>1 DEF DecisionsInv, About
    <2> QED BY <2>1, ReflectionIs
<1> HIDE DEF S
<1>5. Len(added) \in Nat /\ DOMAIN added = 1 .. Len(added) /\ \A i \in DOMAIN added : added[i] \in S
    BY <1>3, ListedIs
<1> HIDE DEF added
<1>6. /\ DOMAIN R \subseteq 1 .. made
      /\ \A id \in DOMAIN R : R[id] \in Reflection
    BY <1>1 DEF NumbersInv, Numbered, Shaped
<1> HIDE DEF R
<1>7. /\ \A id \in DOMAIN R : id \in DOMAIN r /\ r[id] = R[id]
      /\ \A id \in DOMAIN r : id \in DOMAIN R \/ r[id] \in S
      /\ DOMAIN r \subseteq 1 .. made + Len(added)
    BY <1>1, <1>5, <1>6
<1> HIDE DEF r
<1>8. /\ DOMAIN l = DOMAIN memory /\ l.reflections = r /\ l.facts = memory.facts
      /\ l.events = memory.events /\ l.episodes = memory.episodes
      /\ l.quarantined = memory.quarantined
    BY <1>1 DEF Shaped
<1> HIDE DEF l
<1>9. Shaped(l, born)
    <2>1. \A id \in DOMAIN r : r[id] \in Reflection BY <1>4, <1>6, <1>7
    <2> QED BY <1>1, <1>8, <2>1 DEF Shaped
<1>10. Hides(withdrawn, l, policy)
    <2>1. Hides(withdrawn, memory, policy) BY <1>1 DEF MemoryInv, Sound
    <2>2. HidesReflections(r, policy)
        BY <1>4, <1>7, <2>1 DEF Hides, HidesReflections, R
    <2> QED BY <1>8, <2>1, <2>2 DEF Hides
<1>11. Sound(l, policy, withdrawn, born, seen, orderly)
    BY <1>1, <1>8, <1>9, <1>10 DEF MemoryInv, Sound
<1>12. MemoryInv' BY <1>2, <1>11 DEF MemoryInv
<1>13. FileInv'
    <2>1. ASSUME file # NoFile PROVE Restores(file[1], l, policy, withdrawn)
        BY <1>1, <1>8, <2>1, RestoresAlike DEF FileInv
    <2> QED BY <1>1, <1>2, <2>1 DEF FileInv
<1>14. Bounds' BY <1>1, <1>2 DEF Bounds
<1>15. StackInv' BY <1>12, <1>13, <1>14 DEF StackInv
<1>16. NumbersInv'
    <2>1. made' \in Nat /\ made <= made' /\ DOMAIN r \subseteq 1 .. made' BY <1>1, <1>2, <1>5, <1>7
    <2>2. 1 .. made \subseteq 1 .. made' BY <1>1, <2>1
    <2> QED BY <1>1, <1>2, <1>8, <2>1, <2>2 DEF NumbersInv, Numbered
<1>17. DecisionsInv' /\ ReviewInv' /\ DisputedNeverApproved'
    BY <1>1, <1>2 DEF DecisionsInv, ReviewInv, DisputedNeverApproved
<1> QED BY <1>15, <1>16, <1>17 DEF SleepInv

-----------------------------------------------------------------------------
(* The theorems. *)

LEMMA SleepStarts == SleepInit => SleepInv
<1> SUFFICES ASSUME SleepInit PROVE SleepInv OBVIOUS
<1>1. Init /\ run = {} /\ items = {} /\ approved = {} /\ planned = NoPlan /\ made = 0
    BY DEF SleepInit
<1>2. StackInv BY <1>1, StartSound
<1>3. NumbersInv
    <2>1. memory.reflections = <<>> /\ file = NoFile BY <1>1 DEF Init, EmptyMemory
    <2> QED BY <1>1, <2>1, NothingIn DEF NumbersInv, Numbered
<1>4. IsFiniteSet(items) BY <1>1, FS_EmptySet
<1>5. DecisionsInv /\ ReviewInv /\ DisputedNeverApproved
    BY <1>1, <1>4 DEF DecisionsInv, ReviewInv, DisputedNeverApproved
<1> QED BY <1>2, <1>3, <1>5 DEF SleepInv

LEMMA SleepSteps == SleepInv /\ [SleepNext]_allVars => SleepInv'
<1> SUFFICES ASSUME SleepInv, [SleepNext]_allVars PROVE SleepInv' OBVIOUS
<1>1. StackInv /\ NumbersInv /\ DecisionsInv /\ ReviewInv /\ DisputedNeverApproved
    BY DEF SleepInv
<1>2. ASSUME UNCHANGED <<run, items, approved, planned>>
      PROVE  DecisionsInv' /\ ReviewInv' /\ DisputedNeverApproved'
    BY <1>1, <1>2 DEF DecisionsInv, ReviewInv, DisputedNeverApproved
<1>3. CASE Operation /\ UNCHANGED sleepVars
    <2>1. UNCHANGED <<run, items, approved, planned>> /\ made' = made BY <1>3 DEF sleepVars
    <2>2. StackInv' /\ NumbersInv' BY <1>1, <1>3, <2>1, OperationStep, NumbersStep
    <2> QED BY <1>2, <2>1, <2>2 DEF SleepInv
<1>4. CASE SleepCrash
    <2>1. /\ CrashInSave /\ run' = {} /\ items' = {} /\ approved' = {} /\ made' = made
        BY <1>4 DEF SleepCrash
    <2>2. StackInv' /\ NumbersInv' BY <1>1, <2>1, CrashStep, NumbersStep
    <2>3. IsFiniteSet(items') BY <2>1, FS_EmptySet
    <2>4. DecisionsInv' /\ ReviewInv' /\ DisputedNeverApproved'
        BY <2>1, <2>3 DEF DecisionsInv, ReviewInv, DisputedNeverApproved
    <2> QED BY <2>2, <2>4 DEF SleepInv
<1>5. CASE ReviewQueue BY <1>5, ReviewQueueStep
<1>6. CASE \E reviewer \in {"approve_safe", "reject_all", "approve_low_risk_only"} :
              SimulateReview(reviewer)
    BY <1>6, ReviewStep
<1>7. CASE ApplyApproved BY <1>7, ApplyStep
<1>8. CASE UNCHANGED allVars
    <2>1. UNCHANGED vars /\ UNCHANGED <<run, items, approved, planned>> /\ made' = made
        BY <1>8 DEF allVars, sleepVars
    <2>2. StackInv' BY <1>1, <2>1, StutterStep
    <2>3. NumbersInv' BY <1>1, <2>1 DEF NumbersInv, vars
    <2> QED BY <1>2, <2>1, <2>2, <2>3 DEF SleepInv
<1> QED BY <1>3, <1>4, <1>5, <1>6, <1>7, <1>8 DEF SleepNext

\* Through any inputs, withdrawals, snapshots, crashes in a save, restores and reviews
\* the memory, the policy and the snapshot on disk (controller.py, policy.py,
\* persistence.py, review.py) stay as SleepInv says.
THEOREM SleepInvariant == SleepSpec => []SleepInv
<1>1. SleepInit => SleepInv BY SleepStarts
<1>2. SleepInv /\ [SleepNext]_allVars => SleepInv' BY SleepSteps
<1> QED BY <1>1, <1>2, PTL DEF SleepSpec

\* The store keeps its types: numbers are not reused, a superseded fact is linked to a
\* later one and no longer valid, the policy's terms are terms (models.py, store.py).
THEOREM StackTypes == SleepSpec => []TypeOK
<1>1. SleepInv => TypeOK BY TypesHold DEF SleepInv
<1> QED BY <1>1, SleepInvariant, PTL

\* "Deleted memory is never selected. Do-not-use memory is never selected": what a forget
\* or a do-not-use request reached stays out of the answers of both planners, through
\* snapshots, torn saves and restores with merge_from() (planner.py, policy.py).
THEOREM StackForgets == SleepSpec => []ForgottenNeverSelected
<1>1. SleepInv => ForgottenNeverSelected BY ForgottenHidden DEF SleepInv
<1> QED BY <1>1, SleepInvariant, PTL

\* No two active facts of a user say the same: _store_candidate_as_fact() merges a value
\* that is there into its fact, whatever was replayed or released (controller.py).
THEOREM StackOneTruth == SleepSpec => []OneTruth
<1>1. SleepInv => OneTruth BY OneTruthHolds DEF SleepInv
<1> QED BY <1>1, SleepInvariant, PTL

\* "Source conflicts cause abstention": no two values of one relation are answered together,
\* and none for a past date as long as statements came in the order of their dates
\* (controller.py, planner.py).
THEOREM StackSingleAnswer == SleepSpec => []SingleAnswer
<1>1. SleepInv => SingleAnswer BY SingleAnswerHolds DEF SleepInv
<1> QED BY <1>1, SleepInvariant, PTL

\* No simulated reviewer approves anything about a user whose facts were in dispute at the
\* plan, because the dispute is in the queue as a high risk (reflection.py, review.py).
THEOREM StackDisputes == SleepSpec => []DisputedNeverApproved
<1>1. SleepInv => DisputedNeverApproved BY DEF SleepInv
<1> QED BY <1>1, SleepInvariant, PTL
=============================================================================
