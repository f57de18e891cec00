------------------------ MODULE GovernedRecallProofs ------------------------
(***************************************************************************)
(* What holds of recall for any number of records, any similarity scores,    *)
(* any profiles and any queries: what it answers from is the latest word of  *)
(* its source, never what somebody trusted clearly less has planted, never   *)
(* nothing where everybody agrees, and within the view it was asked through. *)
(*                                                                         *)
(* First the sorts: that a sort by several keys has a first element at all,  *)
(* and that this one is what the code takes. Then the records, as steps      *)
(* leave them. The properties follow from the two.                          *)
(***************************************************************************)
EXTENDS Trajectories, FiniteSetTheorems, SequenceTheorems, WellFoundedInduction, TLAPS

-----------------------------------------------------------------------------
(* Sorting. *)

\* A finite set in which any two elements are ordered has a first one.
Orders(R, S) ==
    /\ \A i, j \in S : i = j \/ <<i, j>> \in R \/ <<j, i>> \in R
    /\ \A i, j, k \in S : <<i, j>> \in R /\ <<j, k>> \in R => <<i, k>> \in R

LEMMA OrderHasFirst ==
    ASSUME NEW S, IsFiniteSet(S), S # {}, NEW R, Orders(R, S)
    PROVE  \E i \in S : \A j \in S \ {i} : <<i, j>> \in R
<1> DEFINE HasFirst(T) == \E i \in T : \A j \in T \ {i} : <<i, j>> \in R
           Bad == {T \in FiniteSubsetsOf(S) : T # {} /\ ~ HasFirst(T)}
<1>1. SUFFICES ASSUME ~ HasFirst(S) PROVE FALSE OBVIOUS
<1>2. S \in Bad BY <1>1 DEF FiniteSubsetsOf
<1>3. PICK T \in Bad : \A U \in Bad : ~ (<<U, T>> \in StrictSubsetOrdering(S))
    <2>1. IsWellFoundedOn(StrictSubsetOrdering(S), FiniteSubsetsOf(S))
        BY FS_StrictSubsetOrderingWellFounded
    <2>2. Bad \subseteq FiniteSubsetsOf(S) OBVIOUS
    <2> HIDE DEF Bad
    <2> QED BY <1>2, <2>1, <2>2, WFMin
<1>4. T \subseteq S /\ IsFiniteSet(T) /\ T # {} /\ ~ HasFirst(T) BY DEF FiniteSubsetsOf
<1>5. PICK x \in T : TRUE BY <1>4
<1> DEFINE U == T \ {x}
<1>6. U \subseteq T /\ U # T /\ IsFiniteSet(U) BY <1>4, FS_RemoveElement
<1>7. U # {}
    <2>1. SUFFICES ASSUME U = {} PROVE HasFirst(T) BY <1>4
    <2>2. T = {x} BY <2>1
    <2> QED BY <2>2
<1>8. HasFirst(U)
    <2>1. <<U, T>> \in StrictSubsetOrdering(S) BY <1>4, <1>6 DEF StrictSubsetOrdering
    <2>2. U \in FiniteSubsetsOf(S) BY <1>4, <1>6 DEF FiniteSubsetsOf
    <2> QED BY <1>3, <1>7, <2>1, <2>2
<1>9. PICK u \in U : \A j \in U \ {u} : <<u, j>> \in R BY <1>8
<1>10. u # x /\ u \in T /\ u \in S /\ x \in S BY <1>4, <1>9
<1>11. CASE <<u, x>> \in R
    <2>1. \A j \in T \ {u} : <<u, j>> \in R BY <1>9, <1>11
    <2> QED BY <1>4, <1>10, <2>1
<1>12. CASE <<x, u>> \in R
    <2>1. ASSUME NEW j \in T \ {x} PROVE <<x, j>> \in R
        <3>1. CASE j = u BY <1>12, <3>1
        <3>2. CASE j # u
            <4>1. <<u, j>> \in R /\ j \in S BY <1>4, <1>9, <2>1, <3>2
            <4> QED BY <1>10, <1>12, <4>1 DEF Orders
        <3> QED BY <3>1, <3>2
    <2> QED BY <1>4, <2>1
<1> QED BY <1>10, <1>11, <1>12 DEF Orders

\* Four keys: the first that differs decides.
FourKeys == Int \X Int \X Int \X Int

LEMMA BeforeFour ==
    \A a, b \in FourKeys :
        Before(a, b) <=>
            \/ a[1] > b[1]
            \/ a[1] = b[1] /\ a[2] > b[2]
            \/ a[1] = b[1] /\ a[2] = b[2] /\ a[3] > b[3]
            \/ a[1] = b[1] /\ a[2] = b[2] /\ a[3] = b[3] /\ a[4] > b[4]
<1> SUFFICES ASSUME NEW a \in FourKeys, NEW b \in FourKeys
             PROVE  Before(a, b) <=>
                        \/ a[1] > b[1]
                        \/ a[1] = b[1] /\ a[2] > b[2]
                        \/ a[1] = b[1] /\ a[2] = b[2] /\ a[3] > b[3]
                        \/ a[1] = b[1] /\ a[2] = b[2] /\ a[3] = b[3] /\ a[4] > b[4]
    OBVIOUS
<1> DEFINE at(k) == a[k] > b[k] /\ \A j \in 1 .. k - 1 : a[j] = b[j]
<1>1. DOMAIN a = 1 .. 4 BY DEF FourKeys
<1>2. Before(a, b) <=> at(1) \/ at(2) \/ at(3) \/ at(4)
    <2>1. \A k \in 1 .. 4 : k = 1 \/ k = 2 \/ k = 3 \/ k = 4 OBVIOUS
    <2>2. 1 \in 1 .. 4 /\ 2 \in 1 .. 4 /\ 3 \in 1 .. 4 /\ 4 \in 1 .. 4 OBVIOUS
    <2>3. Before(a, b) <=> \E k \in 1 .. 4 : at(k) BY <1>1 DEF Before
    <2> HIDE DEF at
    <2> QED BY <2>1, <2>2, <2>3, Zenon
<1>3. at(1) <=> a[1] > b[1] OBVIOUS
<1>4. at(2) <=> a[1] = b[1] /\ a[2] > b[2]
    <2>1. \A j \in 1 .. 1 : j = 1 OBVIOUS
    <2> QED BY <2>1
<1>5. at(3) <=> a[1] = b[1] /\ a[2] = b[2] /\ a[3] > b[3]
    <2>1. \A j \in 1 .. 2 : j = 1 \/ j = 2 OBVIOUS
    <2> QED BY <2>1
<1>6. at(4) <=> a[1] = b[1] /\ a[2] = b[2] /\ a[3] = b[3] /\ a[4] > b[4]
    <2>1. \A j \in 1 .. 3 : j = 1 \/ j = 2 \/ j = 3 OBVIOUS
    <2> QED BY <2>1
<1> HIDE DEF at
<1> QED BY <1>2, <1>3, <1>4, <1>5, <1>6

\* Records sorted by three keys and their age: one comes first.
LEMMA SortHasFirst ==
    ASSUME NEW ids \in SUBSET Nat, IsFiniteSet(ids), ids # {},
           NEW a \in [ids -> Int], NEW b \in [ids -> Int], NEW c \in [ids -> Int]
    PROVE  \E i \in ids : \A j \in ids \ {i} :
               Before(<<a[i], b[i], c[i], -i>>, <<a[j], b[j], c[j], -j>>)
<1> DEFINE Lex(i, j) ==
               \/ a[i] > a[j]
               \/ a[i] = a[j] /\ b[i] > b[j]
               \/ a[i] = a[j] /\ b[i] = b[j] /\ c[i] > c[j]
               \/ a[i] = a[j] /\ b[i] = b[j] /\ c[i] = c[j] /\ -i > -j
           R == {p \in ids \X ids : Lex(p[1], p[2])}
<1>1. \A i, j \in ids : <<i, j>> \in R <=> Lex(i, j) OBVIOUS
<1>2. \A i \in ids : a[i] \in Int /\ b[i] \in Int /\ c[i] \in Int /\ i \in Int OBVIOUS
<1>3. \A i, j \in ids : i = j \/ Lex(i, j) \/ Lex(j, i) BY <1>2
<1>4. \A i, j, k \in ids : Lex(i, j) /\ Lex(j, k) => Lex(i, k) BY <1>2
<1> HIDE DEF Lex, R
<1>5. PICK i \in ids : \A j \in ids \ {i} : <<i, j>> \in R
    <2>1. \A i, j \in ids : i = j \/ <<i, j>> \in R \/ <<j, i>> \in R BY <1>1, <1>3
    <2>2. \A i, j, k \in ids : <<i, j>> \in R /\ <<j, k>> \in R => <<i, k>> \in R BY <1>1, <1>4
    <2>3. Orders(R, ids) BY <2>1, <2>2 DEF Orders
    <2> QED BY <2>3, OrderHasFirst
<1>6. ASSUME NEW j \in ids \ {i}
      PROVE  Before(<<a[i], b[i], c[i], -i>>, <<a[j], b[j], c[j], -j>>)
    <2>1. Lex(i, j) BY <1>1, <1>5
    <2>2. <<a[i], b[i], c[i], -i>> \in FourKeys /\ <<a[j], b[j], c[j], -j>> \in FourKeys
        BY <1>2 DEF FourKeys
    <2> QED BY <2>1, <2>2, BeforeFour DEF Lex, FourKeys
<1> QED BY <1>6

-----------------------------------------------------------------------------
(* The records that a sort is about: numbered, with comparable keys. *)

Sortable(q, ids) ==
    /\ ids \subseteq Nat /\ IsFiniteSet(ids) /\ ids # {}
    /\ \A i \in ids : ScoreOf(q, i) \in Int /\ records[i].trust \in Int /\ records[i].at \in Int

\* TopOf is the most similar.
LEMMA TopIsBest ==
    ASSUME NEW q, NEW ids, Sortable(q, ids)
    PROVE  /\ TopOf(q, ids) \in ids
           /\ \A j \in ids : ScoreOf(q, TopOf(q, ids)) >= ScoreOf(q, j)
<1> DEFINE a == [i \in ids |-> ScoreOf(q, i)]
           b == [i \in ids |-> records[i].trust]
           c == [i \in ids |-> records[i].at]
           t == TopOf(q, ids)
<1>1. a \in [ids -> Int] /\ b \in [ids -> Int] /\ c \in [ids -> Int] BY DEF Sortable
<1>2. PICK i \in ids : \A j \in ids \ {i} :
          Before(<<a[i], b[i], c[i], -i>>, <<a[j], b[j], c[j], -j>>)
    <2> HIDE DEF a, b, c
    <2> QED BY <1>1, SortHasFirst DEF Sortable
<1>3. \A j \in ids \ {i} :
          Before(<<ScoreOf(q, i), records[i].trust, records[i].at, -i>>,
                 <<ScoreOf(q, j), records[j].trust, records[j].at, -j>>)
    BY <1>2
<1>4. /\ t \in ids
      /\ \A j \in ids \ {t} :
            Before(<<ScoreOf(q, t), records[t].trust, records[t].at, -t>>,
                   <<ScoreOf(q, j), records[j].trust, records[j].at, -j>>)
    BY <1>3 DEF TopOf, First
<1> HIDE DEF t
<1>5. ASSUME NEW j \in ids
      PROVE  ScoreOf(q, t) >= ScoreOf(q, j)
    <2>1. t \in ids /\ j \in ids /\ t \in Nat /\ j \in Nat BY <1>4, <1>5 DEF Sortable
    <2>2. /\ <<ScoreOf(q, t), records[t].trust, records[t].at, -t>> \in FourKeys
          /\ <<ScoreOf(q, j), records[j].trust, records[j].at, -j>> \in FourKeys
        BY <2>1 DEF Sortable, FourKeys
    <2>3. CASE j = t BY <2>1, <2>3 DEF Sortable
    <2>4. CASE j # t
        <3>1. Before(<<ScoreOf(q, t), records[t].trust, records[t].at, -t>>,
                     <<ScoreOf(q, j), records[j].trust, records[j].at, -j>>)
            BY <1>4, <2>4
        <3> QED BY <2>1, <2>2, <3>1, BeforeFour DEF FourKeys, Sortable
    <2> QED BY <2>3, <2>4
<1> QED BY <1>4, <1>5 DEF t

\* LatestOf is the latest.
LEMMA LatestIsLast ==
    ASSUME NEW q, NEW ids, Sortable(q, ids)
    PROVE  /\ LatestOf(q, ids) \in ids
           /\ \A j \in ids : records[LatestOf(q, ids)].at >= records[j].at
<1> DEFINE a == [i \in ids |-> records[i].at]
           b == [i \in ids |-> ScoreOf(q, i)]
           c == [i \in ids |-> records[i].trust]
           t == LatestOf(q, ids)
<1>1. a \in [ids -> Int] /\ b \in [ids -> Int] /\ c \in [ids -> Int] BY DEF Sortable
<1>2. PICK i \in ids : \A j \in ids \ {i} :
          Before(<<a[i], b[i], c[i], -i>>, <<a[j], b[j], c[j], -j>>)
    <2> HIDE DEF a, b, c
    <2> QED BY <1>1, SortHasFirst DEF Sortable
<1>3. \A j \in ids \ {i} :
          Before(<<records[i].at, ScoreOf(q, i), records[i].trust, -i>>,
                 <<records[j].at, ScoreOf(q, j), records[j].trust, -j>>)
    BY <1>2
<1>4. /\ t \in ids
      /\ \A j \in ids \ {t} :
            Before(<<records[t].at, ScoreOf(q, t), records[t].trust, -t>>,
                   <<records[j].at, ScoreOf(q, j), records[j].trust, -j>>)
    BY <1>3 DEF LatestOf, First
<1> HIDE DEF t
<1>5. ASSUME NEW j \in ids
      PROVE  records[t].at >= records[j].at
    <2>1. t \in ids /\ j \in ids /\ t \in Nat /\ j \in Nat BY <1>4, <1>5 DEF Sortable
    <2>2. /\ <<records[t].at, ScoreOf(q, t), records[t].trust, -t>> \in FourKeys
          /\ <<records[j].at, ScoreOf(q, j), records[j].trust, -j>> \in FourKeys
        BY <2>1 DEF Sortable, FourKeys
    <2>3. CASE j = t BY <2>1, <2>3 DEF Sortable
    <2>4. CASE j # t
        <3>1. Before(<<records[t].at, ScoreOf(q, t), records[t].trust, -t>>,
                     <<records[j].at, ScoreOf(q, j), records[j].trust, -j>>)
            BY <1>4, <2>4
        <3> QED BY <2>1, <2>2, <3>1, BeforeFour DEF FourKeys, Sortable
    <2> QED BY <2>3, <2>4
<1> QED BY <1>4, <1>5 DEF t

\* MostTrusted has the most trust, and is the latest of those who have as much.
LEMMA MostTrustedIsBest ==
    ASSUME NEW q, NEW ids, Sortable(q, ids)
    PROVE  LET t == MostTrusted(q, ids)
           IN  /\ t \in ids
               /\ \A j \in ids :
                     \/ records[t].trust > records[j].trust
                     \/ records[t].trust = records[j].trust /\ records[t].at >= records[j].at
<1> DEFINE a == [i \in ids |-> records[i].trust]
           b == [i \in ids |-> records[i].at]
           c == [i \in ids |-> ScoreOf(q, i)]
           t == MostTrusted(q, ids)
<1>1. a \in [ids -> Int] /\ b \in [ids -> Int] /\ c \in [ids -> Int] BY DEF Sortable
<1>2. PICK i \in ids : \A j \in ids \ {i} :
          Before(<<a[i], b[i], c[i], -i>>, <<a[j], b[j], c[j], -j>>)
    <2> HIDE DEF a, b, c
    <2> QED BY <1>1, SortHasFirst DEF Sortable
<1>3. \A j \in ids \ {i} :
          Before(<<records[i].trust, records[i].at, ScoreOf(q, i), -i>>,
                 <<records[j].trust, records[j].at, ScoreOf(q, j), -j>>)
    BY <1>2
<1>4. /\ t \in ids
      /\ \A j \in ids \ {t} :
            Before(<<records[t].trust, records[t].at, ScoreOf(q, t), -t>>,
                   <<records[j].trust, records[j].at, ScoreOf(q, j), -j>>)
    BY <1>3 DEF MostTrusted, First
<1> HIDE DEF t
<1>5. ASSUME NEW j \in ids
      PROVE  \/ records[t].trust > records[j].trust
             \/ records[t].trust = records[j].trust /\ records[t].at >= records[j].at
    <2>1. t \in ids /\ j \in ids /\ t \in Nat /\ j \in Nat BY <1>4, <1>5 DEF Sortable
    <2>2. /\ <<records[t].trust, records[t].at, ScoreOf(q, t), -t>> \in FourKeys
          /\ <<records[j].trust, records[j].at, ScoreOf(q, j), -j>> \in FourKeys
        BY <2>1 DEF Sortable, FourKeys
    <2>3. CASE j = t BY <2>1, <2>3 DEF Sortable
    <2>4. CASE j # t
        <3>1. Before(<<records[t].trust, records[t].at, ScoreOf(q, t), -t>>,
                     <<records[j].trust, records[j].at, ScoreOf(q, j), -j>>)
            BY <1>4, <2>4
        <3> QED BY <2>1, <2>2, <3>1, BeforeFour DEF FourKeys, Sortable
    <2> QED BY <2>3, <2>4
<1> QED BY <1>4, <1>5 DEF t

-----------------------------------------------------------------------------
(* The records, after any steps. *)

Fields == {"tenant", "subject", "relation", "object", "text", "source", "trust", "at", "held",
           "risk", "allowed", "consented", "witnesses", "old"}
\* A text whose similarity to the queries is a number, and a turn with such a text.
Scorable(text) == \A q \in Queries : Score[q.about][text] \in Nat
Fit(c) == c.trust \in 0 .. 100 /\ Scorable(c.text)

\* TypeOK, and what it leaves open: records carry their fields, a text that can be compared
\* with the queries and a time that was counted.
RecordsInv ==
    /\ clock \in Nat
    /\ "status" \in DOMAIN view
    /\ \A id \in DOMAIN records :
          /\ DOMAIN records[id] = Fields
          /\ records[id].at \in Nat
          /\ Scorable(records[id].text)
RecallInv == TypeOK /\ RecordsInv

\* The parts of it that speak of the records.
Sound(rs, n) ==
    /\ DOMAIN rs \subseteq 1 .. n
    /\ \A id \in DOMAIN rs :
          /\ DOMAIN rs[id] = Fields
          /\ rs[id].at \in Nat
          /\ Scorable(rs[id].text)
          /\ rs[id].trust \in 0 .. 100
          /\ rs[id].source \in rs[id].witnesses
Timely(rs, now) ==
    /\ \A id \in DOMAIN rs : rs[id].at <= now
    /\ \A i, j \in DOMAIN rs : i < j => rs[i].at < rs[j].at
Rest ==
    /\ policy \in Policies
    /\ written \in 0 .. MaxWrites
    /\ \A rev \in revoked : rev.kind \in {"erased", "restricted", "consent"}
    /\ view.status \in {"none", "valid", "revoked", "expired", "unknown"}
    /\ "status" \in DOMAIN view
    /\ commands \in 0 .. MaxCommands
    /\ clock \in Nat

LEMMA PartsOfRecallInv ==
    RecallInv <=> Rest /\ Sound(records, written) /\ (orderly => Timely(records, clock))
BY DEF RecallInv, TypeOK, RecordsInv, Rest, Sound, Timely

LEMMA RecallInvAfter ==
    Rest' /\ Sound(records', written') /\ (orderly' => Timely(records', clock')) => RecallInv'
BY DEF RecallInv, TypeOK, RecordsInv, Rest, Sound, Timely

LEMMA InputsAreFit == ASSUME NEW c \in Inputs PROVE Fit(c)
BY RecallAssumption DEF Fit, Scorable

LEMMA TrustIsPercent ==
    ASSUME NEW p \in Policies, NEW c, c.trust \in 0 .. 100
    PROVE  TrustIn(p, c.source, c.trust) \in 0 .. 100
BY RecallAssumption DEF TrustIn

\* Some of the records, each as it was but for a mark or a witness more.
Touched(new, old) ==
    /\ DOMAIN new \subseteq DOMAIN old
    /\ \A id \in DOMAIN new :
          /\ DOMAIN new[id] = Fields
          /\ new[id].at = old[id].at /\ new[id].text = old[id].text
          /\ new[id].trust = old[id].trust /\ new[id].source = old[id].source
          /\ old[id].witnesses \subseteq new[id].witnesses

LEMMA TouchedIsSound ==
    ASSUME NEW new, NEW old, NEW n, NEW now, NEW later,
           Sound(old, n), Touched(new, old), now \in Nat, later \in Nat, later >= now
    PROVE  /\ Sound(new, n)
           /\ Timely(old, now) => Timely(new, later)
<1>1. Sound(new, n) BY DEF Sound, Touched
<1>2. ASSUME Timely(old, now) PROVE Timely(new, later)
    <2>1. \A id \in DOMAIN new : id \in DOMAIN old /\ new[id].at = old[id].at /\ new[id].at \in Nat
        BY <1>1 DEF Sound, Touched
    <2>2. \A id \in DOMAIN new : new[id].at <= later BY <1>2, <2>1 DEF Timely
    <2>3. \A i, j \in DOMAIN new : i < j => new[i].at < new[j].at BY <1>2, <2>1 DEF Timely
    <2> QED BY <2>2, <2>3 DEF Timely
<1> QED BY <1>1, <1>2

LEMMA SomeAreTouched ==
    ASSUME NEW ids, Sound(records, written)
    PROVE  Touched(Only(ids), records)
BY DEF Touched, Only, Sound

LEMMA RecallInit == Init => RecallInv
<1> SUFFICES ASSUME Init PROVE RecallInv OBVIOUS
<1>1. DOMAIN records = {} BY DEF Init
<1>2. Rest BY RecallAssumption DEF Init, Rest, NoView
<1>3. Sound(records, written) /\ Timely(records, clock) BY <1>1 DEF Sound, Timely
<1> QED BY <1>2, <1>3, PartsOfRecallInv

\* A record more: its number and its time are after all others.
LEMMA AddedIsSound ==
    ASSUME NEW c, Fit(c), RecallInv
    PROVE  LET rs == Adding(written + 1, NewRecord(c))
           IN  /\ Sound(rs, written + 1)
               /\ orderly => Timely(rs, clock + 1)
<1> DEFINE r == NewRecord(c)
           rs == Adding(written + 1, r)
<1>0. /\ Rest /\ Sound(records, written) /\ (orderly => Timely(records, clock))
      /\ written \in Nat /\ clock \in Nat
    BY PartsOfRecallInv, RecallAssumption DEF Rest
<1>1. /\ DOMAIN r = Fields /\ r.at = clock + 1 /\ Scorable(r.text)
      /\ r.trust \in 0 .. 100 /\ r.source \in r.witnesses
    BY <1>0, TrustIsPercent DEF NewRecord, Fields, Fit, Rest
<1> HIDE DEF r
<1>2. /\ DOMAIN rs = DOMAIN records \cup {written + 1}
      /\ rs[written + 1] = r
      /\ \A id \in DOMAIN records : id # written + 1 /\ id \in 1 .. written /\ rs[id] = records[id]
    BY <1>0 DEF Adding, Sound
<1> HIDE DEF rs
<1>3. Sound(rs, written + 1)
    <2>1. DOMAIN rs \subseteq 1 .. written + 1 BY <1>0, <1>2
    <2>2. ASSUME NEW id \in DOMAIN rs
          PROVE  /\ DOMAIN rs[id] = Fields /\ rs[id].at \in Nat /\ Scorable(rs[id].text)
                 /\ rs[id].trust \in 0 .. 100 /\ rs[id].source \in rs[id].witnesses
        <3>1. CASE id = written + 1 BY <1>0, <1>1, <1>2, <3>1
        <3>2. CASE id \in DOMAIN records BY <1>0, <1>2, <3>2 DEF Sound
        <3> QED BY <1>2, <3>1, <3>2
    <2> QED BY <2>1, <2>2 DEF Sound
<1>4. ASSUME orderly PROVE Timely(rs, clock + 1)
    <2>1. \A id \in DOMAIN records : records[id].at \in Nat /\ records[id].at <= clock
        BY <1>0, <1>4 DEF Sound, Timely
    <2>2. \A id \in DOMAIN rs : rs[id].at <= clock + 1 BY <1>0, <1>1, <1>2, <2>1
    <2>3. ASSUME NEW i \in DOMAIN rs, NEW j \in DOMAIN rs, i < j PROVE rs[i].at < rs[j].at
        <3>1. i # written + 1 /\ i \in DOMAIN records BY <1>0, <1>2, <2>3
        <3>2. CASE j = written + 1 BY <1>0, <1>1, <1>2, <2>1, <3>1, <3>2
        <3>3. CASE j \in DOMAIN records BY <1>0, <1>2, <1>4, <2>3, <3>1, <3>3 DEF Timely
        <3> QED BY <1>2, <3>2, <3>3
    <2> QED BY <2>2, <2>3 DEF Timely
<1> QED BY <1>3, <1>4 DEF rs, r

LEMMA RememberKeeps ==
    ASSUME RecallInv, NEW c, Fit(c), Remember(c)
    PROVE  RecallInv'
<1>1. /\ Rest /\ Sound(records, written) /\ (orderly => Timely(records, clock))
      /\ written \in Nat /\ clock \in Nat
    BY PartsOfRecallInv, RecallAssumption DEF Rest
<1>2. written < MaxWrites /\ written' = written + 1 /\ clock' = clock + 1 /\ orderly' = orderly
    BY DEF Remember
<1>3. Rest' BY <1>1, <1>2, RecallAssumption DEF Remember, Rest
<1>4. CASE records' = Adding(written + 1, NewRecord(c))
    <2>1. Sound(records', written') /\ (orderly' => Timely(records', clock'))
        BY <1>2, <1>4, AddedIsSound
    <2> QED BY <1>3, <2>1, RecallInvAfter
<1>5. CASE records' = records \/ records' = Merged(c)
    <2>1. Touched(records, records) BY <1>1 DEF Touched, Sound
    <2>2. Touched(records', records)
        <3>1. CASE records' = records BY <2>1, <3>1
        <3>2. CASE records' = Merged(c) /\ ~ Durable
            <4>1. PICK k : records' = [records EXCEPT ![k].witnesses = @ \cup {c.source}]
                BY <3>2 DEF Merged
            <4> QED BY <1>1, <4>1 DEF Touched, Sound, Fields
        <3>3. CASE records' = Merged(c) /\ Durable BY <2>1, <3>3 DEF Merged
        <3> QED BY <1>5, <3>1, <3>2, <3>3
    <2>3. Sound(records', written) BY <1>1, <2>2, TouchedIsSound
    <2>4. orderly' => Timely(records', clock') BY <1>1, <1>2, <2>2, TouchedIsSound
    <2>5. Sound(records', written') BY <1>1, <1>2, <2>3 DEF Sound
    <2> QED BY <1>3, <2>4, <2>5, RecallInvAfter
<1> QED BY <1>4, <1>5 DEF Remember

\* What leaves the records, or some of them, as they were, and the time no earlier.
LEMMA TouchingKeeps ==
    ASSUME RecallInv, Rest', Touched(records', records), written' = written,
           clock' >= clock, orderly' => orderly
    PROVE  RecallInv'
<1>1. /\ Sound(records, written) /\ (orderly => Timely(records, clock))
      /\ clock \in Nat /\ clock' \in Nat
    BY PartsOfRecallInv DEF Rest
<1>2. Sound(records', written') /\ (orderly' => Timely(records', clock')) BY <1>1, TouchedIsSound
<1> QED BY <1>2, RecallInvAfter

\* A revocation of its own, or one that a turn brings, which takes its time.
LEMMA RevokeKeeps ==
    ASSUME RecallInv, NEW rev, rev.kind \in {"erased", "restricted", "consent"}, Revoke(rev),
           clock' \in {clock, clock + 1}
    PROVE  RecallInv'
<1>1. Rest /\ Sound(records, written) /\ clock \in Nat /\ commands \in Nat
    BY PartsOfRecallInv, RecallAssumption DEF Rest
<1>2. Touched(records, records) BY <1>1 DEF Touched, Sound
<1>3. Touched(records', records) BY <1>1, <1>2, SomeAreTouched DEF Revoke
<1>4. view'.status \in {"none", "valid", "revoked", "expired", "unknown"} /\ "status" \in DOMAIN view'
    BY <1>1 DEF Revoke, Revoking, Rest
<1>5. clock' \in Nat /\ clock' >= clock BY <1>1
<1>6. Rest' BY <1>1, <1>4, <1>5, RecallAssumption DEF Revoke, Rest
<1> QED BY <1>3, <1>5, <1>6, TouchingKeeps DEF Revoke

LEMMA RecallNext == RecallInv /\ [Next]_vars => RecallInv'
<1> SUFFICES ASSUME RecallInv, [Next]_vars PROVE RecallInv' OBVIOUS
<1>0. Rest /\ Sound(records, written) /\ written \in Nat /\ clock \in Nat /\ commands \in Nat
    BY PartsOfRecallInv, RecallAssumption DEF Rest
<1>same. Touched(records, records) BY <1>0 DEF Touched, Sound
<1>1. ASSUME NEW c \in Inputs, Remember(c) PROVE RecallInv'
    BY <1>1, InputsAreFit, RememberKeeps
<1>2. ASSUME NEW id \in 1 .. MaxWrites, ReleaseQuarantined(id) PROVE RecallInv'
    <2>1. Touched(records', records)
        BY <1>0, <1>2 DEF ReleaseQuarantined, Touched, Sound, Fields
    <2>2. Rest' BY <1>0, <1>2, RecallAssumption DEF ReleaseQuarantined, Rest
    <2> QED BY <1>0, <1>2, <2>1, <2>2, TouchingKeeps DEF ReleaseQuarantined
<1>3. ASSUME NEW rev \in Revocations, RevokeNow(rev) PROVE RecallInv'
    BY <1>3, RevokeKeeps, RecallAssumption DEF RevokeNow
<1>4. ASSUME NEW p \in Policies, SetPolicy(p) PROVE RecallInv'
    <2>1. view'.status \in {"none", "valid", "revoked", "expired", "unknown"} /\ "status" \in DOMAIN view'
        BY <1>0, <1>4 DEF SetPolicy, Rest
    <2>2. Rest' BY <1>0, <1>4, <2>1, RecallAssumption DEF SetPolicy, Rest
    <2> QED BY <1>0, <1>4, <1>same, <2>2, TouchingKeeps DEF SetPolicy
<1>5. ASSUME NEW v \in Views, IssueView(v) PROVE RecallInv'
    <2>1. Rest' BY <1>0, <1>5 DEF IssueView, Rest
    <2> QED BY <1>0, <1>5, <1>same, <2>1, TouchingKeeps DEF IssueView
<1>6. ASSUME ViewExpires PROVE RecallInv'
    <2>1. view'.status = "expired" /\ "status" \in DOMAIN view' BY <1>0, <1>6 DEF ViewExpires, Rest
    <2>2. Rest' BY <1>0, <1>6, <2>1 DEF ViewExpires, Rest
    <2> QED BY <1>0, <1>6, <1>same, <2>2, TouchingKeeps DEF ViewExpires
<1>7. ASSUME Age PROVE RecallInv'
    <2>1. Touched(records', records) BY <1>0, <1>7 DEF Age, Touched, Sound, Fields
    <2>2. Rest' BY <1>0, <1>7, RecallAssumption DEF Age, Rest
    <2> QED BY <1>0, <1>7, <2>1, <2>2, TouchingKeeps DEF Age
<1>8. ASSUME CleanupExpired PROVE RecallInv'
    <2>1. Touched(records', records) BY <1>0, <1>8, SomeAreTouched DEF CleanupExpired
    <2>2. Rest' BY <1>0, <1>8 DEF CleanupExpired, Rest
    <2> QED BY <1>0, <1>8, <2>1, <2>2, TouchingKeeps DEF CleanupExpired
<1>9. ASSUME Restart PROVE RecallInv'
    <2>6. view'.status \in {"none", "unknown"} /\ "status" \in DOMAIN view'
        BY <1>0, <1>9 DEF Restart, Rest, NoView
    <2>1. Rest' BY <1>0, <1>9, <2>6, RecallAssumption DEF Restart, Rest
    <2>2. /\ written' = written /\ clock' = 0
          /\ records' = records \/ records' = <<>>
          /\ orderly' => records' = <<>>
        BY <1>9 DEF Restart
    <2>3. records' = <<>> => DOMAIN records' = {} OBVIOUS
    <2>4. Sound(records', written') BY <1>0, <2>2, <2>3 DEF Sound
    <2>5. orderly' => Timely(records', clock') BY <2>2, <2>3 DEF Timely
    <2> QED BY <2>1, <2>4, <2>5, RecallInvAfter
<1>10. ASSUME UNCHANGED vars PROVE RecallInv'
    <2>1. Rest' BY <1>0, <1>10 DEF vars, Rest
    <2> QED BY <1>0, <1>10, <1>same, <2>1, TouchingKeeps DEF vars
<1> QED BY <1>1, <1>2, <1>3, <1>4, <1>5, <1>6, <1>7, <1>8, <1>9, <1>10 DEF Next

\* TypeOK: records are numbered as they came, a fact merged from several sources keeps its
\* own among its witnesses, and as long as no process started over stored records their
\* times are in the same order.
THEOREM RecallTypeCorrect == Spec => []TypeOK
<1>1. RecallInv => TypeOK BY DEF RecallInv
<1> QED BY RecallInit, RecallNext, <1>1, PTL DEF Spec

-----------------------------------------------------------------------------
(* Recall. *)

\* A query whose similarities are numbers: those of Queries, bound to a purpose or not.
Scored(q) == \E p \in Queries : q.about = p.about

LEMMA QueriesAreScored ==
    ASSUME NEW q \in Queries
    PROVE  Scored(q)
BY DEF Scored

LEMMA SomeAreSortable ==
    ASSUME RecallInv, NEW q, Scored(q), NEW ids \in SUBSET DOMAIN records, ids # {}
    PROVE  Sortable(q, ids) /\ ids \subseteq 1 .. written
<1>1. Rest /\ Sound(records, written) BY PartsOfRecallInv
<1>2. written \in Nat BY <1>1, RecallAssumption DEF Rest
<1>3. DOMAIN records \subseteq 1 .. written /\ ids \subseteq 1 .. written BY <1>1 DEF Sound
<1>4. IsFiniteSet(ids) BY <1>2, <1>3, FS_Interval, FS_Subset
<1>5. ASSUME NEW i \in ids
      PROVE  ScoreOf(q, i) \in Int /\ records[i].trust \in Int /\ records[i].at \in Int
    <2>1. records[i].trust \in 0 .. 100 /\ records[i].at \in Nat /\ Scorable(records[i].text)
        BY <1>1, <1>5 DEF Sound
    <2>2. ScoreOf(q, i) \in Nat BY <2>1 DEF Scorable, Scored, ScoreOf
    <2> QED BY <2>1, <2>2
<1> QED BY <1>2, <1>3, <1>4, <1>5 DEF Sortable

LEMMA KeptAreRecords ==
    ASSUME NEW q
    PROVE  Kept(q) \subseteq DOMAIN records
BY DEF Kept

\* The records that compete with the top one.
Group(ids, top) ==
    {id \in ids : /\ records[id].subject = records[top].subject
                  /\ records[id].relation = records[top].relation}

\* A finite set with one value at most; and what has two values does not count as one.
LEMMA OneValue ==
    ASSUME NEW ids, IsFiniteSet(ids)
    PROVE  /\ Cardinality(ValuesOf(ids)) <= 1 =>
                 \A i, j \in ids : records[i].object = records[j].object
           /\ Cardinality(SourcesOf(ids)) = 1 =>
                 \A i, j \in ids : records[i].source = records[j].source
           /\ ids # {} /\ (\A i, j \in ids : records[i].object = records[j].object) =>
                 Cardinality(ValuesOf(ids)) = 1
<1> DEFINE objects == [i \in ids |-> records[i].object]
           sources == [i \in ids |-> records[i].source]
<1>1. IsFiniteSet(ValuesOf(ids))
    <2>1. objects \in Surjection(ids, ValuesOf(ids)) BY DEF Surjection, ValuesOf
    <2> QED BY <2>1, FS_Surjection
<1>2. IsFiniteSet(SourcesOf(ids))
    <2>1. sources \in Surjection(ids, SourcesOf(ids)) BY DEF Surjection, SourcesOf
    <2> QED BY <2>1, FS_Surjection
<1>3. \A i \in ids : records[i].object \in ValuesOf(ids) /\ records[i].source \in SourcesOf(ids)
    BY DEF ValuesOf, SourcesOf
<1>4. ASSUME Cardinality(ValuesOf(ids)) <= 1, NEW i \in ids, NEW j \in ids
      PROVE  records[i].object = records[j].object
    <2>1. Cardinality(ValuesOf(ids)) \in Nat /\ Cardinality(ValuesOf(ids)) # 0
        BY <1>1, <1>3, <1>4, FS_EmptySet, FS_CardinalityType
    <2>2. Cardinality(ValuesOf(ids)) = 1 BY <1>4, <2>1
    <2>3. PICK x : ValuesOf(ids) = {x} BY <1>1, <2>2, FS_Singleton
    <2> QED BY <1>3, <1>4, <2>3
<1>5. ASSUME Cardinality(SourcesOf(ids)) = 1, NEW i \in ids, NEW j \in ids
      PROVE  records[i].source = records[j].source
    <2>1. PICK x : SourcesOf(ids) = {x} BY <1>2, <1>5, FS_Singleton
    <2> QED BY <1>3, <1>5, <2>1
<1>6. ASSUME ids # {}, \A i, j \in ids : records[i].object = records[j].object
      PROVE  Cardinality(ValuesOf(ids)) = 1
    <2>1. PICK i \in ids : TRUE BY <1>6
    <2>2. ValuesOf(ids) = {records[i].object} BY <1>6 DEF ValuesOf
    <2> QED BY <2>2, FS_Singleton
<1> QED BY <1>4, <1>5, <1>6

\* Where recall answers: from a record that may be served, of the group of the best match,
\* chosen in one of four ways, and outranked by none.
AsTheOnlyValue(q, d, top, group) ==
    d = top /\ \A i, j \in group : records[i].object = records[j].object
AsCorroborated(q, d, top, group) ==
    policy.lineage /\ d = LatestOf(q, {id \in group : records[id].object \in Corroborated(group)})
AsTheLatest(q, d, top, group) ==
    d = LatestOf(q, group) /\ \A i, j \in group : records[i].source = records[j].source
AsTheMostTrusted(q, d, top, group) == d = MostTrusted(q, group)

LEMMA AnswerIsChosen ==
    ASSUME RecallInv, NEW q, Scored(q), Answering(q) # NoRecord
    PROVE  LET d == Answering(q)
               ids == Kept(q)
               top == TopOf(q, ids)
               group == Group(ids, top)
           IN  /\ top \in group /\ group \subseteq ids /\ d \in group
               /\ ScoreOf(q, top) >= policy.floor
               /\ ~ Outranked(q, ids, d)
               /\ \/ AsTheOnlyValue(q, d, top, group)
                  \/ AsCorroborated(q, d, top, group)
                  \/ AsTheLatest(q, d, top, group)
                  \/ AsTheMostTrusted(q, d, top, group)
<1> DEFINE d == Answering(q)
           ids == Kept(q)
           top == TopOf(q, ids)
           group == Group(ids, top)
           agreed == {id \in group : records[id].object \in Corroborated(group)}
<1>1. /\ ids # {} /\ ~ (ScoreOf(q, top) < policy.floor) /\ ~ Outranked(q, ids, d)
      /\ d = Resolved(q, ids, top) /\ d # NoRecord
    BY DEF Answering
<1>2. Sortable(q, ids) BY <1>1, KeptAreRecords, SomeAreSortable
<1>3. top \in ids BY <1>2, TopIsBest
<1>4. top \in group /\ group \subseteq ids /\ group # {} BY <1>3 DEF Group
<1>5. Sortable(q, group) /\ IsFiniteSet(group)
    <2>1. group \in SUBSET DOMAIN records BY <1>4, KeptAreRecords
    <2> QED BY <1>4, <2>1, SomeAreSortable DEF Sortable
<1>6. ScoreOf(q, top) >= policy.floor
    <2>1. ScoreOf(q, top) \in Int BY <1>2, <1>3 DEF Sortable
    <2>2. policy.floor \in Nat BY PartsOfRecallInv, RecallAssumption DEF Rest
    <2> QED BY <1>1, <2>1, <2>2
<1>7. Resolved(q, ids, top) =
          IF Cardinality(ValuesOf(group)) <= 1 THEN top
          ELSE IF policy.lineage /\ Cardinality(Corroborated(group)) = 1 THEN LatestOf(q, agreed)
          ELSE IF Cardinality(SourcesOf(group)) = 1 THEN LatestOf(q, group)
          ELSE IF records[MostTrusted(q, group)].trust
                  - records[MostTrusted(q, {id \in group : records[id].source
                                              # records[MostTrusted(q, group)].source})].trust
                  >= policy.margin
          THEN MostTrusted(q, group) ELSE NoRecord
    BY DEF Resolved, Group
<1>8. agreed # {} \/ Cardinality(Corroborated(group)) # 1
    <2> SUFFICES ASSUME Cardinality(Corroborated(group)) = 1 PROVE agreed # {} OBVIOUS
    <2>1. Corroborated(group) \subseteq ValuesOf(group) BY DEF Corroborated
    <2>2. IsFiniteSet(ValuesOf(group))
        <3>1. [i \in group |-> records[i].object] \in Surjection(group, ValuesOf(group))
            BY DEF Surjection, ValuesOf
        <3> QED BY <1>5, <3>1, FS_Surjection
    <2>3. Corroborated(group) # {} BY <2>1, <2>2, FS_Subset, FS_EmptySet
    <2>4. PICK v \in Corroborated(group) : TRUE BY <2>3
    <2>5. PICK i \in group : v = records[i].object BY <2>1, <2>4 DEF ValuesOf
    <2> QED BY <2>4, <2>5
<1>9. agreed # {} => Sortable(q, agreed)
    <2>1. agreed \in SUBSET DOMAIN records BY <1>4, KeptAreRecords
    <2> QED BY <2>1, SomeAreSortable
<1> HIDE DEF d, ids, top, group, agreed
<1>10. CASE Cardinality(ValuesOf(group)) <= 1
    <2>1. d = top BY <1>1, <1>7, <1>10
    <2>2. AsTheOnlyValue(q, d, top, group) BY <1>5, <1>10, <2>1, OneValue DEF AsTheOnlyValue
    <2> QED BY <1>1, <1>4, <1>6, <2>1, <2>2 DEF d, ids, top, group
<1>11. CASE /\ ~ (Cardinality(ValuesOf(group)) <= 1)
            /\ policy.lineage /\ Cardinality(Corroborated(group)) = 1
    <2>1. d = LatestOf(q, agreed) BY <1>1, <1>7, <1>11
    <2>2. d \in agreed BY <1>8, <1>9, <1>11, <2>1, LatestIsLast
    <2>3. d \in group BY <2>2 DEF agreed
    <2>4. AsCorroborated(q, d, top, group) BY <1>11, <2>1 DEF AsCorroborated, agreed
    <2> QED BY <1>1, <1>4, <1>6, <2>3, <2>4 DEF d, ids, top, group
<1>12. CASE /\ ~ (Cardinality(ValuesOf(group)) <= 1)
            /\ ~ (policy.lineage /\ Cardinality(Corroborated(group)) = 1)
            /\ Cardinality(SourcesOf(group)) = 1
    <2>1. d = LatestOf(q, group) BY <1>1, <1>7, <1>12
    <2>2. d \in group BY <1>5, <2>1, LatestIsLast
    <2>3. AsTheLatest(q, d, top, group) BY <1>5, <1>12, <2>1, OneValue DEF AsTheLatest
    <2> QED BY <1>1, <1>4, <1>6, <2>2, <2>3 DEF d, ids, top, group
<1>13. CASE /\ ~ (Cardinality(ValuesOf(group)) <= 1)
            /\ ~ (policy.lineage /\ Cardinality(Corroborated(group)) = 1)
            /\ Cardinality(SourcesOf(group)) # 1
    <2>1. d = MostTrusted(q, group) BY <1>1, <1>7, <1>13
    <2>2. d \in group BY <1>5, <2>1, MostTrustedIsBest
    <2> QED BY <1>1, <1>4, <1>6, <2>1, <2>2 DEF d, ids, top, group, AsTheMostTrusted
<1> QED BY <1>10, <1>11, <1>12, <1>13

\* While times are in the order of the numbers, a later record has a later time.
LEMMA LaterIsLater ==
    ASSUME RecallInv, orderly, NEW i \in DOMAIN records, NEW j \in DOMAIN records
    PROVE  /\ i \in Nat /\ j \in Nat /\ records[i].at \in Nat /\ records[j].at \in Nat
           /\ records[i].at >= records[j].at => i >= j
<1>1. Sound(records, written) /\ Timely(records, clock) BY PartsOfRecallInv
<1>2. i \in Nat /\ j \in Nat /\ records[i].at \in Nat /\ records[j].at \in Nat
    BY <1>1 DEF Sound
<1>3. i < j => records[i].at < records[j].at BY <1>1 DEF Timely
<1> QED BY <1>2, <1>3

LEMMA LatestHolds == RecallInv => LatestWins
<1> SUFFICES ASSUME RecallInv, NEW q \in Queries, Stale(q), ~ policy.lineage, orderly
             PROVE  FALSE
    BY DEF LatestWins
<1> DEFINE d == Answering(q)
           ids == Kept(q)
           top == TopOf(q, ids)
           group == Group(ids, top)
<1>1. PICK e \in ids :
          /\ e > d /\ records[e].object # records[d].object
          /\ records[e].subject = records[d].subject /\ records[e].relation = records[d].relation
          /\ records[e].source = records[d].source /\ records[e].trust = records[d].trust
    BY DEF Stale
<1>2. d # NoRecord /\ Scored(q) BY QueriesAreScored DEF Stale
<1>3. /\ top \in group /\ group \subseteq ids /\ d \in group
      /\ \/ AsTheOnlyValue(q, d, top, group)
         \/ AsCorroborated(q, d, top, group)
         \/ AsTheLatest(q, d, top, group)
         \/ AsTheMostTrusted(q, d, top, group)
    BY <1>2, AnswerIsChosen
<1>4. e \in group BY <1>1, <1>3 DEF Group
<1>5. group \subseteq DOMAIN records BY <1>3, KeptAreRecords
<1>6. Sortable(q, group) BY <1>2, <1>3, <1>5, SomeAreSortable
<1> HIDE DEF d, ids, top, group
<1>7. ~ (records[d].at >= records[e].at)
    <2>1. d \in DOMAIN records /\ e \in DOMAIN records BY <1>3, <1>4, <1>5
    <2> QED BY <1>1, <2>1, LaterIsLater
<1>8. ~ AsTheOnlyValue(q, d, top, group) BY <1>1, <1>3, <1>4 DEF AsTheOnlyValue
<1>9. ~ AsCorroborated(q, d, top, group) BY DEF AsCorroborated
<1>10. ~ AsTheLatest(q, d, top, group) BY <1>4, <1>6, <1>7, LatestIsLast DEF AsTheLatest
<1>11. ~ AsTheMostTrusted(q, d, top, group)
    <2>1. records[d].trust \in Int /\ records[e].trust \in Int BY <1>3, <1>4, <1>6 DEF Sortable
    <2> QED BY <1>1, <1>4, <1>6, <1>7, <2>1, MostTrustedIsBest DEF AsTheMostTrusted
<1> QED BY <1>3, <1>8, <1>9, <1>10, <1>11

\* LatestWins, for any number of turns: recall answers from no record that its own source
\* has since contradicted with the same trust, unless witnesses decide or the process was
\* started again over stored records.
THEOREM RecallServesTheLatest == Spec => []LatestWins
BY RecallInit, RecallNext, LatestHolds, PTL DEF Spec

LEMMA AgreementHolds == RecallInv => AgreementAnswers
<1> SUFFICES ASSUME RecallInv, NEW q \in Queries,
                    Cardinality(ValuesOf(Kept(q))) = 1,
                    \E id \in Kept(q) : ScoreOf(q, id) >= policy.floor,
                    \A i, j \in Kept(q) : records[j].trust - records[i].trust < policy.margin
             PROVE  Answering(q) # NoRecord
    BY DEF AgreementAnswers
<1> DEFINE ids == Kept(q)
           top == TopOf(q, ids)
           group == Group(ids, top)
<1>1. PICK id \in ids : ScoreOf(q, id) >= policy.floor OBVIOUS
<1>2. ids \subseteq DOMAIN records /\ ids # {} BY <1>1, KeptAreRecords
<1>3. Sortable(q, ids) /\ ids \subseteq 1 .. written
    BY <1>2, QueriesAreScored, SomeAreSortable
<1>4. top \in ids /\ ScoreOf(q, top) >= ScoreOf(q, id) BY <1>3, TopIsBest
<1>5. policy.floor \in Nat /\ policy.margin \in Nat
    BY PartsOfRecallInv, RecallAssumption DEF Rest
<1>6. ~ (ScoreOf(q, top) < policy.floor)
    <2>1. ScoreOf(q, top) \in Int /\ ScoreOf(q, id) \in Int BY <1>3, <1>4 DEF Sortable
    <2> QED BY <1>1, <1>4, <1>5, <2>1
<1>7. Cardinality(ValuesOf(group)) <= 1
    <2>1. IsFiniteSet(ids) BY <1>3 DEF Sortable
    <2>2. \A i, j \in ids : records[i].object = records[j].object BY <2>1, OneValue
    <2>3. group \subseteq ids /\ top \in group BY <1>4 DEF Group
    <2>4. IsFiniteSet(group) BY <2>1, <2>3, FS_Subset
    <2>5. Cardinality(ValuesOf(group)) = 1 BY <2>2, <2>3, <2>4, OneValue
    <2> QED BY <2>5
<1>8. Resolved(q, ids, top) = top BY <1>7 DEF Resolved, Group
<1>9. ~ Outranked(q, ids, top)
    <2> SUFFICES ASSUME NEW other \in ids, records[other].trust - records[top].trust >= policy.margin
                 PROVE  FALSE
        BY DEF Outranked
    <2>1. records[other].trust \in Int /\ records[top].trust \in Int BY <1>3, <1>4 DEF Sortable
    <2>2. records[other].trust - records[top].trust < policy.margin BY <1>4
    <2> QED BY <1>5, <2>1, <2>2
<1>10. top # NoRecord
    <2>1. written \in Nat BY PartsOfRecallInv, RecallAssumption DEF Rest
    <2> QED BY <1>3, <1>4, <2>1 DEF NoRecord
<1>11. Answering(q) = top
    <2> HIDE DEF top
    <2> QED BY <1>2, <1>6, <1>8, <1>9, <1>10 DEF Answering, top
<1> QED BY <1>10, <1>11

\* AgreementAnswers, for any number of turns: the rules that make recall abstain never
\* silence records that all say the same and are trusted about the same.
THEOREM RecallAnswersAgreement == Spec => []AgreementAnswers
BY RecallInit, RecallNext, AgreementHolds, PTL DEF Spec

\* Who is honest has one trust.
LEMMA OneTrust ==
    ASSUME NEW ids, IsFiniteSet(ids), Cardinality({records[h].trust : h \in ids}) = 1,
           NEW i \in ids, NEW j \in ids
    PROVE  records[i].trust = records[j].trust
<1> DEFINE trusts == {records[h].trust : h \in ids}
<1>1. [h \in ids |-> records[h].trust] \in Surjection(ids, trusts) BY DEF Surjection
<1>2. IsFiniteSet(trusts) BY <1>1, FS_Surjection
<1>3. PICK x : trusts = {x} BY <1>2, FS_Singleton
<1> QED BY <1>3

LEMMA NoSilentErrorHolds == RecallInv => NoSilentError
<1> DEFINE LastOf(honest) == {records[id].object : id \in {h \in honest : \A i \in honest : i <= h}}
<1> SUFFICES ASSUME RecallInv, NEW q \in Queries,
                    \E h \in HonestIn(q) : ScoreOf(q, h) >= policy.floor,
                    ClearlyLessTrusted(q), orderly,
                    Cardinality({records[h].trust : h \in HonestIn(q)}) = 1,
                    policy.lineage => Cardinality(ValuesOf(HonestIn(q))) = 1
             PROVE  Outcome(Answering(q), LastOf(HonestIn(q))) # "silent_error"
    BY DEF NoSilentError
<1> DEFINE d == Answering(q)
           ids == Kept(q)
           top == TopOf(q, ids)
           group == Group(ids, top)
           honest == HonestIn(q)
<1>1. CASE d = NoRecord
    BY <1>1 DEF Outcome, Classified, ValueOf
<1>2. CASE d # NoRecord
    <2>1. Scored(q) BY QueriesAreScored
    <2>2. /\ top \in group /\ group \subseteq ids /\ d \in group
          /\ ~ Outranked(q, ids, d)
          /\ \/ AsTheOnlyValue(q, d, top, group)
             \/ AsCorroborated(q, d, top, group)
             \/ AsTheLatest(q, d, top, group)
             \/ AsTheMostTrusted(q, d, top, group)
        BY <1>2, <2>1, AnswerIsChosen
    <2>3. PICK h \in honest : ScoreOf(q, h) >= policy.floor OBVIOUS
    <2>4. /\ honest \subseteq ids /\ ids \subseteq DOMAIN records
          /\ \A i \in honest : /\ records[i].source = Honest /\ records[i].relation = q.about
                                /\ records[i].subject = q.subject
        BY KeptAreRecords DEF HonestIn
    \* What is not the honest source's is outranked by it.
    <2>5. d \in honest
        <3> SUFFICES ASSUME d \notin honest PROVE Outranked(q, ids, d) BY <2>2
        <3>1. /\ records[d].source # Honest /\ records[d].subject = q.subject
              /\ records[h].trust - records[d].trust >= policy.margin
            BY <2>2, <2>3 DEF ClearlyLessTrusted
        <3>2. h \in ids \ {d} /\ records[h].source = Honest /\ records[h].subject = q.subject
            BY <2>3, <2>4
        <3> QED BY <2>3, <3>1, <3>2 DEF Outranked
    <2>6. honest \subseteq group BY <2>2, <2>4, <2>5 DEF Group
    <2>7. Sortable(q, group) /\ Sortable(q, honest)
        <3>1. group \in SUBSET DOMAIN records /\ honest \in SUBSET DOMAIN records BY <2>2, <2>4
        <3> QED BY <2>1, <2>2, <2>5, <3>1, SomeAreSortable
    <2> DEFINE m == LatestOf(q, honest)
    <2>8. m \in honest /\ \A i \in honest : records[m].at >= records[i].at
        BY <2>7, LatestIsLast
    <2>9. \A i, j \in honest :
              /\ i \in Nat /\ j \in Nat /\ records[i].trust \in Int
              /\ records[i].at >= records[j].at => i >= j
        BY <2>4, <2>7, LaterIsLater DEF Sortable
    <2> HIDE DEF d, ids, top, group, honest, m
    <2>10. records[m].object \in LastOf(honest) BY <2>8, <2>9
    <2>11. records[d].object = records[m].object \/ \A i \in honest : records[d].at >= records[i].at
        <3>1. CASE AsTheOnlyValue(q, d, top, group) BY <2>2, <2>6, <2>8, <3>1 DEF AsTheOnlyValue
        <3>2. CASE AsCorroborated(q, d, top, group)
            <4>1. Cardinality(ValuesOf(honest)) <= 1 BY <3>2 DEF AsCorroborated, honest
            <4>2. IsFiniteSet(honest) BY <2>7 DEF Sortable
            <4> QED BY <2>5, <2>8, <4>1, <4>2, OneValue
        <3>3. CASE AsTheLatest(q, d, top, group)
            BY <2>6, <2>7, <3>3, LatestIsLast DEF AsTheLatest
        <3>4. CASE AsTheMostTrusted(q, d, top, group)
            <4>1. IsFiniteSet(honest) BY <2>7 DEF Sortable
            <4>2. \A i \in honest : records[d].trust = records[i].trust
                BY <2>5, <4>1, OneTrust DEF honest
            <4>3. \A i \in honest :
                      \/ records[d].trust > records[i].trust
                      \/ records[d].trust = records[i].trust /\ records[d].at >= records[i].at
                BY <2>6, <2>7, <3>4, MostTrustedIsBest DEF AsTheMostTrusted
            <4> QED BY <2>5, <2>9, <4>2, <4>3
        <3> QED BY <2>2, <3>1, <3>2, <3>3, <3>4
    <2>12. records[d].object \in LastOf(honest)
        <3>1. CASE records[d].object = records[m].object BY <2>10, <3>1
        <3>2. CASE \A i \in honest : records[d].at >= records[i].at BY <2>5, <2>9, <3>2
        <3> QED BY <2>11, <3>1, <3>2
    <2> HIDE DEF LastOf
    <2>13. Outcome(d, LastOf(honest)) # "silent_error"
        BY <1>2, <2>12 DEF Outcome, Classified, ValueOf
    <2> QED BY <2>13 DEF d, honest
<1> QED BY <1>1, <1>2

\* NoSilentError, for any number of turns, any similarities and any amount of poison: what
\* clearly less trusted sources store never makes an agent act on anything but the honest
\* source's last word.
THEOREM NothingPlantedIsServed == Spec => []NoSilentError
BY RecallInit, RecallNext, NoSilentErrorHolds, PTL DEF Spec

LEMMA ViewHolds == RecallInv => ViewBinds
<1> SUFFICES ASSUME RecallInv, NEW q \in Queries, Known, AnsweringVia(q) # NoRecord
             PROVE  LET id == AnsweringVia(q)
                    IN  /\ records[id].tenant = view.tenant
                        /\ view.subject = Anyone \/ records[id].subject \in {Anyone, view.subject}
                        /\ view.purpose # NoPurpose => ~ PurposeBlocks(records[id], view.purpose)
                        /\ StillValid(id, q.tenant, Anyone) \/ Expired(records[id])
                        /\ \/ HandedOut(id, q.tenant, q.subject, view.purpose)
                           \/ Expired(records[id])
    BY DEF ViewBinds, WithinView
<1> DEFINE id == AnsweringVia(q)
           p == Bound(q).purpose
<1>1. Fits(q) /\ id = Answering(Bound(q)) /\ Answering(Bound(q)) # NoRecord BY DEF AnsweringVia
<1>2. /\ Bound(q).about = q.about /\ Bound(q).tenant = q.tenant /\ Bound(q).subject = q.subject
      /\ p = IF q.purpose = NoPurpose THEN view.purpose ELSE q.purpose
    BY RecallAssumption DEF Bound
<1>3. Scored(Bound(q)) BY <1>2, QueriesAreScored DEF Scored
<1>4. id \in Kept(Bound(q))
    <2>1. Answering(Bound(q)) \in Group(Kept(Bound(q)), TopOf(Bound(q), Kept(Bound(q))))
        BY <1>1, <1>3, AnswerIsChosen
    <2> QED BY <1>1, <2>1 DEF Group
<1> HIDE DEF id, p
<1>5. /\ id \in DOMAIN records /\ records[id].tenant = q.tenant
      /\ Permitted(records[id], q.tenant, q.subject, p)
    BY <1>2, <1>4 DEF Kept, p
<1>6. /\ ~ records[id].held /\ ~ Blocked(records[id], p) /\ ~ PurposeBlocks(records[id], p)
      /\ records[id].subject \in {Anyone, q.subject} /\ records[id].risk # "injection"
    BY <1>5 DEF Permitted
<1>7. /\ view.tenant = q.tenant
      /\ view.subject = Anyone \/ q.subject \in {Anyone, view.subject}
      /\ view.purpose = NoPurpose \/ p = view.purpose
    BY <1>1, <1>2 DEF Fits
\* A record that no purpose is asked of is blocked by fewer revocations and by no rule.
<1>8. ~ Blocked(records[id], NoPurpose) /\ ~ PurposeBlocks(records[id], NoPurpose)
    BY <1>6 DEF Blocked, PurposeBlocks
<1>9. ~ Blocked(records[id], view.purpose) /\ ~ PurposeBlocks(records[id], view.purpose)
    BY <1>6, <1>7, <1>8
<1>10. ~ Expired(records[id]) =>
           StillValid(id, q.tenant, Anyone) /\ HandedOut(id, q.tenant, q.subject, view.purpose)
    BY <1>5, <1>6, <1>8, <1>9 DEF StillValid, HandedOut, Permitted
<1> QED BY <1>5, <1>6, <1>7, <1>9, <1>10 DEF id

\* ViewBinds, for any views and any number of turns: as long as the process knows its handle,
\* what is recalled through a view stays within its tenant, its subject and its purpose, and
\* passes the check before acting.
THEOREM ViewsAreBinding == Spec => []ViewBinds
BY RecallInit, RecallNext, ViewHolds, PTL DEF Spec

-----------------------------------------------------------------------------
(* The benchmark: whatever its stories tell. *)

\* A step of a story: a question, or a turn that comes with a trust.
Step(step) ==
    \/ step.kind = "query"
    \/ step.kind \in {"fact", "attack", "erasure", "revocation"} /\ step.trust \in 0 .. 100
Scripted(steps) == \E S : steps \in Seq(S) /\ \A step \in S : Step(step)

LEMMA ToldIsStep ==
    ASSUME NEW relation, NEW object, NEW text, NEW source, NEW trust \in 0 .. 100
    PROVE  LET turn == Told(relation, object, text, source, trust)
           IN  /\ Step(turn) /\ Step(Attack(turn)) /\ Step([turn EXCEPT !.subject = "alex_2"])
               /\ Step([turn EXCEPT !.allowed = {"scheduling"}])
               /\ Step(Attack([turn EXCEPT !.risk = "injection"]))
<1> DEFINE turn == Told(relation, object, text, source, trust)
<1>1. Step(turn) BY DEF Told, Step
<1>2. Step(Attack(turn)) BY DEF Told, Attack, Step
<1>3. Step([turn EXCEPT !.subject = "alex_2"]) BY DEF Told, Step
<1>4. Step([turn EXCEPT !.allowed = {"scheduling"}]) BY DEF Told, Step
<1>5. Step(Attack([turn EXCEPT !.risk = "injection"])) BY DEF Told, Attack, Step
<1> QED BY <1>1, <1>2, <1>3, <1>4, <1>5

LEMMA PlaceIsStep ==
    ASSUME NEW object, NEW source, NEW trust \in 0 .. 100
    PROVE  LET turn == Place(object, source, trust)
           IN  /\ Step(turn) /\ Step(Attack(turn)) /\ Step([turn EXCEPT !.subject = "alex_2"])
               /\ Step([turn EXCEPT !.allowed = {"scheduling"}])
               /\ Step(Attack([turn EXCEPT !.risk = "injection"]))
BY ToldIsStep DEF Place

LEMMA RequestIsStep ==
    ASSUME NEW kind \in {"erasure", "revocation"}, NEW term, NEW text
    PROVE  Step(Request(kind, term, text))
BY DEF Request, Told, Step

LEMMA QuestionIsStep ==
    ASSUME NEW about, NEW expected, NEW class, NEW purpose
    PROVE  /\ Step(Asked(about, expected, class)) /\ Step(WhereIs(expected, class))
           /\ Step(For(purpose, WhereIs(expected, class)))
BY DEF Step, Asked, WhereIs, For

LEMMA ScriptedFrom ==
    ASSUME NEW S, NEW steps \in Seq(S), \A step \in S : Step(step)
    PROVE  Scripted(steps)
BY DEF Scripted

LEMMA Script2 ==
    ASSUME NEW a, NEW b, Step(a), Step(b)
    PROVE  Scripted(<<a, b>>)
<1> DEFINE S == {a, b}
           steps == <<a, b>>
<1>1. steps \in Seq(S) /\ \A step \in S : Step(step) OBVIOUS
<1> HIDE DEF S, steps
<1>2. Scripted(steps) BY <1>1, ScriptedFrom
<1> QED BY <1>2 DEF steps

LEMMA Script3 ==
    ASSUME NEW a, NEW b, NEW c, Step(a), Step(b), Step(c)
    PROVE  Scripted(<<a, b, c>>)
<1> DEFINE S == {a, b, c}
           steps == <<a, b, c>>
<1>1. steps \in Seq(S) /\ \A step \in S : Step(step) OBVIOUS
<1> HIDE DEF S, steps
<1>2. Scripted(steps) BY <1>1, ScriptedFrom
<1> QED BY <1>2 DEF steps

LEMMA ScriptJoined ==
    ASSUME NEW s, NEW t, Scripted(s), Scripted(t)
    PROVE  Scripted(s \o t)
<1>1. PICK S : s \in Seq(S) /\ \A step \in S : Step(step) BY DEF Scripted
<1>2. PICK T : t \in Seq(T) /\ \A step \in T : Step(step) BY DEF Scripted
<1>3. s \in Seq(S \cup T) /\ t \in Seq(S \cup T) BY <1>1, <1>2
<1>4. s \o t \in Seq(S \cup T) BY <1>3
<1> QED BY <1>1, <1>2, <1>4 DEF Scripted

LEMMA Script4 ==
    ASSUME NEW a, NEW b, NEW c, NEW d, Step(a), Step(b), Step(c), Step(d)
    PROVE  Scripted(<<a, b, c, d>>)
<1> DEFINE S == {a, b, c, d}
           steps == <<a, b, c, d>>
<1>1. steps \in Seq(S) /\ \A step \in S : Step(step) OBVIOUS
<1> HIDE DEF S, steps
<1>2. Scripted(steps) BY <1>1, ScriptedFrom
<1> QED BY <1>2 DEF steps

LEMMA Script5 ==
    ASSUME NEW a, NEW b, NEW c, NEW d, NEW e, Step(a), Step(b), Step(c), Step(d), Step(e)
    PROVE  Scripted(<<a, b, c, d, e>>)
<1> DEFINE S == {a, b, c, d, e}
           steps == <<a, b, c, d, e>>
<1>1. steps \in Seq(S) /\ \A step \in S : Step(step) OBVIOUS
<1> HIDE DEF S, steps
<1>2. Scripted(steps) BY <1>1, ScriptedFrom
<1> QED BY <1>2 DEF steps

LEMMA Script6 ==
    ASSUME NEW a, NEW b, NEW c, NEW d, NEW e, NEW f,
           Step(a), Step(b), Step(c), Step(d), Step(e), Step(f)
    PROVE  Scripted(<<a, b, c, d, e, f>>)
<1> DEFINE S == {a, b, c, d, e, f}
           steps == <<a, b, c, d, e, f>>
<1>1. steps \in Seq(S) /\ \A step \in S : Step(step) OBVIOUS
<1> HIDE DEF S, steps
<1>2. Scripted(steps) BY <1>1, ScriptedFrom
<1> QED BY <1>2 DEF steps

LEMMA TwiceIsScripted ==
    ASSUME NEW expected, NEW class
    PROVE  Scripted(Twice(WhereIs(expected, class)))
<1>1. Step(WhereIs(expected, class)) BY QuestionIsStep
<1> QED BY <1>1, Script2 DEF Twice

LEMMA StoriesAreScripted ==
    ASSUME NEW s \in Stories
    PROVE  Scripted(s.steps)
<1>0. \A trust \in {50, 90, 80, 95, 96, 100} : trust \in 0 .. 100 OBVIOUS
<1>user. Step(Place("berlin", "user", 96))
    <2>1. 96 \in 0 .. 100 OBVIOUS
    <2> QED BY <2>1, PlaceIsStep, Zenon
<1>1. Scripted(Benign.steps)
    BY <1>0, PlaceIsStep, QuestionIsStep, Script3 DEF Benign
<1>2. \A trust \in {50, 90} : Scripted(Poisoning(trust).steps)
    <2> TAKE trust \in {50, 90}
    <2>1. Scripted(<<Place("berlin", "user", 96), Attack(Place("paris", "external_tool", trust))>>)
        <3>1. Step(Place("berlin", "user", 96)) BY <1>user
        <3>2. trust \in 0 .. 100 OBVIOUS
        <3>3. Step(Attack(Place("paris", "external_tool", trust))) BY <3>2, PlaceIsStep
        <3> QED BY <3>1, <3>3, Script2
    <2> QED BY <2>1, TwiceIsScripted, ScriptJoined DEF Poisoning
<1>3. Scripted(InjectionAttack.steps)
    <2>1. Scripted(<<Place("berlin", "user", 96),
                     Attack([Place("paris", "external_tool", 80) EXCEPT !.risk = "injection"])>>)
        BY <1>0, PlaceIsStep, Script2
    <2> QED BY <2>1, TwiceIsScripted, ScriptJoined DEF InjectionAttack
<1>4. Scripted(Erasure.steps)
    BY <1>0, ToldIsStep, PlaceIsStep, RequestIsStep, QuestionIsStep, Script5 DEF Erasure
<1>5. Scripted(ScopeMixup.steps)
    BY <1>0, PlaceIsStep, QuestionIsStep, Script3 DEF ScopeMixup
<1>6. \A trust \in {50, 90} : Scripted(Trigger(trust).steps)
    <2> TAKE trust \in {50, 90}
    <2> DEFINE trap == Attack(Told("location", "paris", "alex location paris trigger",
                                   "external_tool", trust))
               lure == Asked("alex location trigger", {"berlin"}, "trigger")
    <2>1. trust \in 0 .. 100 OBVIOUS
    <2>2. Step(trap) BY <2>1, ToldIsStep
    <2>3. Step(Place("berlin", "user", 96)) BY <1>user
    <2>4. Step(WhereIs({"berlin"}, "benign")) /\ Step(lure) BY QuestionIsStep
    <2> HIDE DEF trap, lure
    <2>5. Scripted(<<trap, Place("berlin", "user", 96), WhereIs({"berlin"}, "benign"), lure>>)
        BY <2>2, <2>3, <2>4, Script4
    <2> QED BY <2>5 DEF Trigger, trap, lure
<1>7. Scripted(SameChannel.steps)
    <2>1. Scripted(<<Place("berlin", "user", 96), Attack(Place("paris", "user", 96))>>)
        BY <1>0, PlaceIsStep, Script2
    <2> QED BY <2>1, TwiceIsScripted, ScriptJoined DEF SameChannel
<1>8. Scripted(Corroboration.steps)
    <2>1. Scripted(<<Place("berlin", "user", 96), Place("berlin", "crm", 96),
                     Attack(Place("paris", "user", 96))>>)
        BY <1>0, PlaceIsStep, Script3
    <2> QED BY <2>1, TwiceIsScripted, ScriptJoined DEF Corroboration
<1>9. Scripted(PurposeMismatch.steps)
    BY <1>0, PlaceIsStep, QuestionIsStep, Script3 DEF PurposeMismatch, ForScheduling
<1>10. Scripted(PurposeTransition.steps)
    BY <1>0, PlaceIsStep, QuestionIsStep, Script3 DEF PurposeTransition, ForScheduling
<1>11. Scripted(PolicyDrift.steps)
    BY <1>0, ToldIsStep, PlaceIsStep, RequestIsStep, QuestionIsStep, Script6 DEF PolicyDrift
<1>12. CASE s \in {Benign, InjectionAttack, Erasure, ScopeMixup, SameChannel, Corroboration,
                   PurposeMismatch, PurposeTransition, PolicyDrift}
    BY <1>1, <1>3, <1>4, <1>5, <1>7, <1>8, <1>9, <1>10, <1>11, <1>12
<1>13. CASE \E trust \in {50, 90} : s = Poisoning(trust) \/ s = Trigger(trust)
    BY <1>2, <1>6, <1>13
<1> QED BY <1>12, <1>13 DEF Stories

\* What is still to come is of a story.
Steps == UNION {{s.steps[n] : n \in DOMAIN s.steps} : s \in Stories}

LEMMA StepsAreSteps ==
    /\ \A step \in Steps : Step(step)
    /\ \A s \in Stories : s.steps \in Seq(Steps)
<1>1. ASSUME NEW step \in Steps PROVE Step(step)
    <2>1. PICK s \in Stories : \E n \in DOMAIN s.steps : step = s.steps[n] BY DEF Steps
    <2>2. PICK n \in DOMAIN s.steps : step = s.steps[n] BY <2>1
    <2>3. PICK S : s.steps \in Seq(S) /\ \A x \in S : Step(x) BY StoriesAreScripted DEF Scripted
    <2>4. s.steps[n] \in S BY <2>3
    <2> QED BY <2>2, <2>3, <2>4
<1>2. ASSUME NEW s \in Stories PROVE s.steps \in Seq(Steps)
    <2>1. \A n \in DOMAIN s.steps : s.steps[n] \in Steps BY DEF Steps
    <2>2. PICK S : s.steps \in Seq(S) BY StoriesAreScripted DEF Scripted
    <2> DEFINE steps == s.steps
    <2>3. Len(steps) \in Nat /\ DOMAIN steps = 1 .. Len(steps) /\ steps = [n \in 1 .. Len(steps) |-> steps[n]]
        BY <2>2
    <2> HIDE DEF steps
    <2>4. steps \in Seq(Steps) BY <2>1, <2>3 DEF steps
    <2> QED BY <2>4 DEF steps
<1> QED BY <1>1, <1>2

LEMMA StepsAreFit ==
    ASSUME NEW step \in Steps, step.kind # "query"
    PROVE  Fit(step) /\ step.kind \in {"fact", "attack", "erasure", "revocation"}
<1>1. step.kind \in {"fact", "attack", "erasure", "revocation"} /\ step.trust \in 0 .. 100
    BY StepsAreSteps DEF Step
<1>2. PICK s \in Stories : \E n \in DOMAIN s.steps : step = s.steps[n] BY DEF Steps
<1>3. Scorable(step.text) BY <1>2, StoryAssumption DEF Scorable
<1> QED BY <1>1, <1>3 DEF Fit

TrajectoryInv == RecallInv /\ rest \in Seq(Steps)

LEMMA TrajectoryInvInit == TrajectoryInit => TrajectoryInv
<1> SUFFICES ASSUME TrajectoryInit PROVE TrajectoryInv OBVIOUS
<1>1. RecallInv BY RecallInit DEF TrajectoryInit
<1>2. rest \in Seq(Steps)
    <2>1. CASE story \in Stories BY <2>1, StepsAreSteps DEF TrajectoryInit
    <2>2. CASE story = FreePlay
        <3>1. rest = <<>> BY <2>2 DEF TrajectoryInit, FreePlay
        <3> QED BY <3>1
    <2> QED BY <2>1, <2>2 DEF TrajectoryInit
<1> QED BY <1>1, <1>2 DEF TrajectoryInv

LEMMA TrajectoryInvNext == TrajectoryInv /\ [TrajectoryNext]_<<vars, storyVars>> => TrajectoryInv'
<1> SUFFICES ASSUME TrajectoryInv, [TrajectoryNext]_<<vars, storyVars>> PROVE TrajectoryInv' OBVIOUS
<1>0. RecallInv /\ rest \in Seq(Steps) BY DEF TrajectoryInv
<1>1. ASSUME [Next]_vars, UNCHANGED storyVars PROVE TrajectoryInv'
    <2>1. RecallInv' BY <1>0, <1>1, RecallNext
    <2>2. rest' = rest BY <1>1 DEF storyVars
    <2> QED BY <1>0, <2>1, <2>2 DEF TrajectoryInv
<1>2. ASSUME TellTurn PROVE TrajectoryInv'
    <2> DEFINE turn == Head(rest)
    <2>1. rest # <<>> /\ turn.kind # "query" /\ Ingest(turn) /\ rest' = Tail(rest)
        BY <1>2 DEF TellTurn
    <2>2. turn \in Steps /\ Tail(rest) \in Seq(Steps) BY <1>0, <2>1
    <2> HIDE DEF turn
    <2>3. Fit(turn) /\ turn.kind \in {"fact", "attack", "erasure", "revocation"}
        BY <2>1, <2>2, StepsAreFit
    <2>4. RecallInv'
        <3>1. CASE Remember(turn) BY <1>0, <2>3, <3>1, RememberKeeps
        <3>2. ASSUME NEW rev, rev.kind \in {"erased", "consent"}, Revoke(rev), clock' = clock + 1
              PROVE  RecallInv'
            BY <1>0, <3>2, RevokeKeeps
        <3>3. CASE turn.kind = "erasure"
            <4> DEFINE rev == [kind |-> "erased", tenant |-> turn.tenant, term |-> turn.object,
                               purpose |-> ""]
            <4>1. Revoke(rev) /\ clock' = clock + 1 BY <2>1, <3>3 DEF Ingest
            <4>2. rev.kind = "erased" OBVIOUS
            <4> HIDE DEF rev
            <4> QED BY <3>2, <4>1, <4>2
        <3>4. CASE turn.kind = "revocation"
            <4> DEFINE rev == [kind |-> "consent", tenant |-> turn.tenant, term |-> turn.object,
                               purpose |-> ""]
            <4>1. Revoke(rev) /\ clock' = clock + 1 BY <2>1, <3>4 DEF Ingest
            <4>2. rev.kind = "consent" OBVIOUS
            <4> HIDE DEF rev
            <4> QED BY <3>2, <4>1, <4>2
        <3>5. CASE turn.kind \in {"fact", "attack"} BY <2>1, <3>1, <3>5 DEF Ingest
        <3> QED BY <2>3, <3>3, <3>4, <3>5
    <2> QED BY <2>1, <2>2, <2>4 DEF TrajectoryInv
<1>3. ASSUME AskTurn PROVE TrajectoryInv'
    <2>1. UNCHANGED vars /\ rest # <<>> /\ rest' = Tail(rest) BY <1>3 DEF AskTurn
    <2>2. RecallInv' BY <1>0, <2>1, RecallNext
    <2>3. Tail(rest) \in Seq(Steps) BY <1>0, <2>1
    <2> QED BY <2>1, <2>2, <2>3 DEF TrajectoryInv
<1> QED BY <1>1, <1>2, <1>3 DEF TrajectoryNext

\* Free play or any story of the benchmark, told and asked by an agent that may err, turns
\* of all kinds and the erasures and withdrawals they bring included: the governed arm keeps
\* all that is proved of recall above.
THEOREM GovernedArmKeepsItsPromises ==
    TrajectorySpec => [](TypeOK /\ LatestWins /\ AgreementAnswers /\ NoSilentError /\ ViewBinds)
<1>1. TrajectoryInv => TypeOK /\ LatestWins /\ AgreementAnswers /\ NoSilentError /\ ViewBinds
    BY LatestHolds, AgreementHolds, NoSilentErrorHolds, ViewHolds DEF TrajectoryInv, RecallInv
<1> QED BY TrajectoryInvInit, TrajectoryInvNext, <1>1, PTL DEF TrajectorySpec

=============================================================================
