-------------------------- MODULE ExtractionProofs --------------------------
(***************************************************************************)
(* What holds of LLM runs for conversations, budgets and models of any number *)
(* and size, over a cache that earlier runs left whole, torn or not at all:   *)
(* a run never makes more calls than its budget allows, and a cached reply is *)
(* only ever taken for the model and, dates apart, the turn it was made for.  *)
(* And what the rule-based extractors make of episodes of any lines: a        *)
(* request to forget is heard, and what is sensitive is not stored without    *)
(* consent.                                                                   *)
(***************************************************************************)
EXTENDS Extraction, Integers, FiniteSetTheorems, WellFoundedInduction, TLAPS

-----------------------------------------------------------------------------
(* Lists of any length. *)

\* A set of numbers has a least one.
LEMMA LeastOne ==
    ASSUME NEW S \in SUBSET Nat, S # {}
    PROVE  \E n \in S : \A k \in S : n <= k
<1> DEFINE Less == OpToRel(<, Nat)
<1>1. \A n, k \in S : n <= k \/ k < n OBVIOUS
<1>2. \A n, k \in S : k < n => <<k, n>> \in Less BY DEF OpToRel
<1>3. \E n \in S : \A k \in S : ~ (<<k, n>> \in Less) BY NatLessThanWellFounded, WFMin
<1> HIDE DEF Less
<1> QED BY <1>1, <1>2, <1>3, Zenon

LEMMA MinIsLeast ==
    ASSUME NEW S \in SUBSET Nat, S # {}
    PROVE  Min(S) \in S /\ \A k \in S : Min(S) <= k
BY LeastOne DEF Min

\* Induction along a list: a set of numbers stands for the property.
LEMMA StepByStep ==
    ASSUME NEW n \in Nat, NEW S, 0 \in S, \A i \in 0 .. n - 1 : i \in S => i + 1 \in S
    PROVE  0 .. n \subseteq S
<1> SUFFICES ASSUME (0 .. n) \ S # {} PROVE FALSE OBVIOUS
<1> DEFINE T == (0 .. n) \ S
<1>0. T \in SUBSET Nat /\ T # {} OBVIOUS
<1> HIDE DEF T
<1>1. PICK k \in T : \A j \in T : k <= j BY <1>0, LeastOne
<1> USE DEF T
<1>2. k # 0 BY <1>1
<1>3. k - 1 \in 0 .. n - 1 /\ k - 1 \in 0 .. n /\ (k - 1) + 1 = k BY <1>1, <1>2
<1>4. k - 1 \in S BY <1>1, <1>3
<1> QED BY <1>1, <1>3, <1>4

\* Recursion along a list: what is made of it, element after element.
Along(F, n, base, step) ==
    F[0] = base /\ \A i \in 1 .. n : F[i] = step[<<i, F[i - 1]>>]

LEMMA RecursionAlong ==
    ASSUME NEW n \in Nat, NEW V, NEW base \in V, NEW step \in [(1 .. n) \X V -> V]
    PROVE  \E F \in [0 .. n -> V] : Along(F, n, base, step)
<1> DEFINE S == {m \in 0 .. n : \E F \in [0 .. m -> V] : Along(F, m, base, step)}
<1>1. 0 \in S
    <2> DEFINE F == [i \in 0 .. 0 |-> base]
    <2>1. F \in [0 .. 0 -> V] /\ Along(F, 0, base, step) BY DEF Along
    <2> QED BY <2>1
<1>2. ASSUME NEW m \in 0 .. n - 1, m \in S PROVE m + 1 \in S
    <2>1. PICK F \in [0 .. m -> V] : Along(F, m, base, step) BY <1>2
    <2> DEFINE G == [i \in 0 .. m + 1 |-> IF i = m + 1 THEN step[<<i, F[m]>>] ELSE F[i]]
    <2>2. m \in Nat /\ m + 1 \in 1 .. n /\ F[m] \in V BY <1>2
    <2>3. G \in [0 .. m + 1 -> V] BY <2>1, <2>2
    <2>4. /\ G[m + 1] = step[<<m + 1, F[m]>>]
          /\ \A i \in 0 .. m : G[i] = F[i]
        BY <2>2
    <2> HIDE DEF G
    <2>5. G[0] = base BY <2>1, <2>2, <2>4 DEF Along
    <2>6. \A i \in 1 .. m : G[i] = step[<<i, G[i - 1]>>]
        <3> SUFFICES ASSUME NEW i \in 1 .. m PROVE G[i] = step[<<i, G[i - 1]>>] OBVIOUS
        <3>1. i \in 0 .. m /\ i - 1 \in 0 .. m BY <2>2
        <3> QED BY <2>1, <2>4, <3>1 DEF Along
    <2>7. G[m + 1] = step[<<m + 1, G[(m + 1) - 1]>>]
        <3>1. m \in 0 .. m /\ (m + 1) - 1 = m BY <2>2
        <3> QED BY <2>4, <3>1
    <2>8. \A i \in 1 .. m + 1 : i \in 1 .. m \/ i = m + 1 BY <2>2
    <2>9. Along(G, m + 1, base, step) BY <2>5, <2>6, <2>7, <2>8, Zenon DEF Along
    <2> QED BY <1>2, <2>2, <2>3, <2>9
<1>3. 0 .. n \subseteq S
    <2> HIDE DEF S
    <2> QED BY <1>1, <1>2, StepByStep
<1> QED BY <1>3

\* FlattenSeq: where the elements of each list are found.
LEMMA Flattened ==
    ASSUME NEW X, NEW seqs \in Seq(Seq(X))
    PROVE  \E F \in [0 .. Len(seqs) -> Seq(X)] :
              /\ F[0] = <<>> /\ F[Len(seqs)] = FlattenSeq(seqs)
              /\ \A i \in 1 .. Len(seqs) : F[i] = F[i - 1] \o seqs[i]
<1> DEFINE n == Len(seqs)
           step == [p \in (1 .. n) \X Seq(X) |-> p[2] \o seqs[p[1]]]
<1>1. n \in Nat /\ \A i \in 1 .. n : seqs[i] \in Seq(X) OBVIOUS
<1>2. \A i \in 1 .. n, s \in Seq(X) : s \o seqs[i] \in Seq(X) /\ step[<<i, s>>] = s \o seqs[i]
    <2> SUFFICES ASSUME NEW i \in 1 .. n, NEW s \in Seq(X)
                 PROVE  s \o seqs[i] \in Seq(X) /\ step[<<i, s>>] = s \o seqs[i]
        OBVIOUS
    <2>1. <<i, s>> \in (1 .. n) \X Seq(X) /\ <<i, s>>[1] = i /\ <<i, s>>[2] = s OBVIOUS
    <2>2. step[<<i, s>>] = s \o seqs[i] BY <2>1
    <2>3. seqs[i] \in Seq(X) BY <1>1
    <2>4. s \o seqs[i] \in Seq(X) BY <2>3
    <2> QED BY <2>2, <2>4
<1>3. step \in [(1 .. n) \X Seq(X) -> Seq(X)]
    <2>1. \A p \in (1 .. n) \X Seq(X) : p[2] \o seqs[p[1]] \in Seq(X) BY <1>1
    <2> QED BY <2>1
<1> HIDE DEF step
<1>4. PICK F \in [0 .. n -> Seq(X)] : Along(F, n, <<>>, step)
    <2>1. <<>> \in Seq(X) OBVIOUS
    <2> HIDE DEF n
    <2> QED BY <1>1, <1>3, <2>1, RecursionAlong
<1>5. F[0] = <<>> /\ \A i \in 1 .. n : F[i - 1] \in Seq(X) /\ F[i] = F[i - 1] \o seqs[i]
    <2>1. \A i \in 1 .. n : i - 1 \in 0 .. n BY <1>1
    <2> QED BY <1>2, <1>4, <2>1 DEF Along
<1>6. CASE n = 0
    <2>1. seqs = <<>> BY <1>6
    <2>2. FlattenSeq(seqs) = <<>> BY <2>1 DEF FlattenSeq
    <2> QED BY <1>5, <1>6, <2>2
<1>7. CASE n # 0
    <2> DEFINE Flat(f) == [i \in 1 .. n |-> IF i = 1 THEN seqs[i] ELSE f[i - 1] \o seqs[i]]
               g == [i \in 1 .. n |-> F[i]]
               flatten == CHOOSE f : f = Flat(f)
    <2>1. \A i \in 1 .. n : g[i] = IF i = 1 THEN seqs[i] ELSE g[i - 1] \o seqs[i]
        <3> SUFFICES ASSUME NEW i \in 1 .. n
                     PROVE  g[i] = IF i = 1 THEN seqs[i] ELSE g[i - 1] \o seqs[i]
            OBVIOUS
        <3>1. CASE i = 1
            <4>1. F[i] = F[i - 1] \o seqs[i] BY <1>5
            <4>4. i - 1 = 0 BY <3>1
            <4>3. F[1] = <<>> \o seqs[1] BY <1>5, <3>1, <4>1, <4>4
            <4>2. <<>> \o seqs[1] = seqs[1] BY <1>1, <3>1
            <4> QED BY <3>1, <4>2, <4>3
        <3>2. CASE i # 1
            <4>1. i - 1 \in 1 .. n BY <1>1, <3>2
            <4> QED BY <1>5, <3>2, <4>1
        <3> QED BY <3>1, <3>2
    <2>2. g = Flat(g) BY <2>1
    <2>3. flatten = Flat(flatten) BY <2>2
    <2> HIDE DEF g
    <2>4. FlattenSeq(seqs) = flatten[n] BY <1>7 DEF FlattenSeq
    <2> HIDE DEF flatten
    <2>5. \A i \in 1 .. n : flatten[i] = IF i = 1 THEN seqs[i] ELSE flatten[i - 1] \o seqs[i] BY <2>3
    <2> HIDE DEF Flat
    <2> DEFINE S == {i \in 0 .. n : i = 0 \/ flatten[i] = F[i]}
    <2>6. ASSUME NEW i \in 0 .. n - 1, i \in S PROVE i + 1 \in S
        <3>1. i + 1 \in 1 .. n /\ (i + 1) - 1 = i BY <1>1, <2>6
        <3>2. F[i + 1] = F[i] \o seqs[i + 1] BY <1>5, <3>1
        <3>3. CASE i = 0
            <4>1. flatten[i + 1] = seqs[i + 1] BY <2>5, <3>1, <3>3
            <4>2. F[i + 1] = <<>> \o seqs[i + 1] BY <1>5, <3>2, <3>3
            <4>3. <<>> \o seqs[i + 1] = seqs[i + 1] BY <1>1, <3>1
            <4>4. i + 1 \in 0 .. n /\ flatten[i + 1] = F[i + 1] BY <3>1, <4>1, <4>2, <4>3
            <4> QED BY <4>4
        <3>4. CASE i # 0
            <4>1. i + 1 # 1 BY <3>1, <3>4
            <4>2. flatten[i + 1] = flatten[i] \o seqs[i + 1] BY <2>5, <3>1, <4>1
            <4>3. flatten[i] = F[i] BY <2>6, <3>4
            <4>4. i + 1 \in 0 .. n /\ flatten[i + 1] = F[i + 1] BY <3>1, <3>2, <4>2, <4>3
            <4> QED BY <4>4
        <3> QED BY <3>3, <3>4
    <2>7. 0 \in S BY <1>1
    <2>8. 0 .. n \subseteq S
        <3> HIDE DEF S
        <3> QED BY <1>1, <2>6, <2>7, StepByStep
    <2>9. flatten[n] = F[n] BY <1>1, <1>7, <2>8
    <2> QED BY <1>5, <2>4, <2>9
<1> QED BY <1>6, <1>7

-----------------------------------------------------------------------------
(* Turns and their keys. *)

LEMMA TurnsOfConversations ==
    ASSUME NEW c \in Conversations
    PROVE  /\ Len(c) \in Nat \ {0} /\ DOMAIN c = 1..Len(c)
           /\ \A n \in 1..Len(c) : c[n] \in Turns
<1>1. c \in Seq(Turns) /\ c # <<>> BY ExtractionAssumption
<1> QED BY <1>1

\* The key of a turn is that of no other model, and of no other turn of the dataset than
\* those it differs from in its timestamp alone.
LEMMA KeysAreUnique ==
    ASSUME NEW m, NEW n, NEW s, NEW t, Key(m, s) = Key(n, t)
    PROVE  m = n /\ SourceTurn(s) = [SourceTurn(t) EXCEPT !.timestamp = SourceTurn(s).timestamp]
<1>1. /\ m = n /\ s.speaker = t.speaker /\ s.session = t.session
      /\ s.dia_id = t.dia_id /\ s.words = t.words
    BY DEF Key
<1> QED BY <1>1 DEF SourceTurn

\* What is stored from a reply shares a word with the turn: the item that shares none is
\* rejected, for this reason or an earlier one.
LEMMA StoredIsSaid ==
    ASSUME NEW item, NEW t, MemoryOf(item, t).action = "store"
    PROVE  MemoryOf(item, t).object \cap t.words # {}
<1> DEFINE found == Rejections(item, t)
           met == {n \in DOMAIN found : found[n].if}
<1>1. Rejection(item, t) = ""
    BY DEF MemoryOf, Ignored, Candidate
<1>2. MemoryOf(item, t).object = item.object
    BY <1>1 DEF MemoryOf, Fact, Candidate
<1>3. SUFFICES ASSUME item.object \cap t.words = {} PROVE FALSE
    BY <1>2
<1>4. DOMAIN found = 1..11 BY DEF Rejections
<1>5. \A n \in 1..11 : found[n].reason # ""
    <2>1. /\ found[1].reason # "" /\ found[2].reason # "" /\ found[3].reason # ""
          /\ found[4].reason # "" /\ found[5].reason # "" /\ found[6].reason # ""
          /\ found[7].reason # "" /\ found[8].reason # "" /\ found[9].reason # ""
          /\ found[10].reason # "" /\ found[11].reason # ""
        BY DEF Rejections
    <2>2. \A n \in 1..11 : n = 1 \/ n = 2 \/ n = 3 \/ n = 4 \/ n = 5 \/ n = 6 \/ n = 7
                             \/ n = 8 \/ n = 9 \/ n = 10 \/ n = 11
        OBVIOUS
    <2> HIDE DEF found
    <2> QED BY <2>1, <2>2, Zenon
<1>6. found[10].if BY <1>3 DEF Rejections
<1>7. met \subseteq 1..11 /\ met # {} BY <1>4, <1>6
<1>8. Rejection(item, t) = found[Min(met)].reason
    BY <1>7 DEF Rejection
<1> HIDE DEF found, met
<1>9. Min(met) \in met
    <2>1. met \in SUBSET Nat BY <1>7
    <2> QED BY <1>7, <2>1, MinIsLeast
<1> QED BY <1>1, <1>5, <1>7, <1>8, <1>9

-----------------------------------------------------------------------------
(* The cache, the run and what it proposed. *)

\* A whole file holds the reply of a model to a turn, and its name is the key of the two.
FilesInv ==
    /\ DOMAIN files = Keys
    /\ \A k \in Keys :
          files[k].state = "whole" =>
              \E t \in Turns : files[k].sent = SourceTurn(t) /\ k = Key(files[k].model, t)

RunInv ==
    run.step # "idle" =>
        /\ run.model \in Models
        /\ run.turns \in Conversations
        /\ run.at \in 1..Len(run.turns)
        /\ run.cap \in Caps \cup {NoCap}
        /\ run.calls \in Nat
        /\ run.step \in {"turn", "writing"}

OwnInv == FilesInv /\ RunInv /\ RepliesAreTheirOwn

LEMMA KeysOfTurns ==
    ASSUME RunInv, run.step # "idle"
    PROVE  Turn \in Turns /\ Key(run.model, Turn) \in Keys
<1>1. Turn \in Turns BY TurnsOfConversations DEF RunInv, Turn
<1> QED BY <1>1 DEF RunInv, Keys

\* A reply that is read: what is proposed is about the turn it was asked for, its date apart.
LEMMA DigestIsOwn ==
    ASSUME RunInv, run.step # "idle", RepliesAreTheirOwn, NEW reply, NEW sent,
           sent = [SourceTurn(Turn) EXCEPT !.timestamp = sent.timestamp],
           Digest(reply, run.model, sent)
    PROVE  RunInv' /\ RepliesAreTheirOwn'
<1>1. CASE Readable(reply)
    <2>1. /\ proposed' = proposed \cup
               {[at |-> run.at, turn |-> Turn, model |-> run.model, asked |-> sent,
                 answered_by |-> run.model, memory |-> c] : c \in MemoriesOf(reply, Turn)}
          /\ run' = IF run.at = Len(run.turns) THEN Idle
                    ELSE [step |-> "turn", model |-> run.model, turns |-> run.turns, cap |-> run.cap,
                          at |-> run.at + 1, calls |-> run.calls]
        BY <1>1 DEF Digest
    <2>2. RunInv'
        <3>1. Len(run.turns) \in Nat BY TurnsOfConversations DEF RunInv
        <3> QED BY <2>1, <3>1 DEF RunInv, Idle
    <2>3. ASSUME NEW c \in MemoriesOf(reply, Turn), c.action = "store"
          PROVE  c.object \cap Turn.words # {}
        <3>1. reply # <<>>
            <4>1. Ignored.action # "store" BY DEF Ignored, Candidate
            <4>2. reply = <<>> => c = Ignored BY DEF MemoriesOf
            <4> QED BY <2>3, <4>1, <4>2
        <3>2. PICK n \in DOMAIN reply : c = MemoryOf(reply[n], Turn)
            BY <2>3, <3>1 DEF MemoriesOf
        <3> QED BY <2>3, <3>2, StoredIsSaid
    <2>4. RepliesAreTheirOwn'
        <3>1. ASSUME NEW p \in proposed'
              PROVE  /\ p.answered_by = p.model
                     /\ p.asked = [SourceTurn(p.turn) EXCEPT !.timestamp = p.asked.timestamp]
                     /\ p.memory.action = "store" => p.memory.object \cap p.turn.words # {}
            <4>1. CASE p \in proposed BY <4>1 DEF RepliesAreTheirOwn
            <4>2. CASE p \notin proposed
                <5>1. PICK c \in MemoriesOf(reply, Turn) :
                          p = [at |-> run.at, turn |-> Turn, model |-> run.model, asked |-> sent,
                               answered_by |-> run.model, memory |-> c]
                    BY <2>1, <3>1, <4>2
                <5> QED BY <2>3, <5>1
            <4> QED BY <4>1, <4>2
        <3> QED BY <3>1 DEF RepliesAreTheirOwn
    <2> QED BY <2>2, <2>4
<1>2. CASE ~ Readable(reply)
    BY <1>2 DEF Digest, RunInv, Idle, RepliesAreTheirOwn
<1> QED BY <1>1, <1>2

LEMMA OwnInit == Init => OwnInv
<1> SUFFICES ASSUME Init PROVE OwnInv OBVIOUS
<1>1. files = [k \in Keys |-> Absent] /\ run = Idle /\ proposed = {} BY DEF Init
<1>2. FilesInv BY <1>1 DEF FilesInv, Absent
<1>3. RunInv BY <1>1 DEF RunInv, Idle
<1>4. RepliesAreTheirOwn BY <1>1 DEF RepliesAreTheirOwn
<1> QED BY <1>2, <1>3, <1>4 DEF OwnInv

LEMMA OwnNext == OwnInv /\ [Next]_vars => OwnInv'
<1> SUFFICES ASSUME OwnInv, [Next]_vars PROVE OwnInv' OBVIOUS
<1>0. FilesInv /\ RunInv /\ RepliesAreTheirOwn BY DEF OwnInv
<1>1. ASSUME NEW e \in Episodes, Ingest(e) PROVE OwnInv'
    <2>1. files' = files /\ run' = run /\ proposed' = proposed BY <1>1 DEF Ingest
    <2> QED BY <1>0, <2>1 DEF OwnInv, FilesInv, RunInv, RepliesAreTheirOwn
<1>2. ASSUME NEW m \in Models, NEW c \in Conversations, NEW cap \in Caps \cup {NoCap},
             StartRun(m, c, cap)
      PROVE  OwnInv'
    <2>1. /\ files' = files /\ proposed' = {}
          /\ run' = [step |-> "turn", model |-> m, turns |-> c, cap |-> cap, at |-> 1, calls |-> 0]
        BY <1>2 DEF StartRun
    <2>2. FilesInv' BY <1>0, <2>1 DEF FilesInv
    <2>3. 1 \in 1..Len(c) BY TurnsOfConversations
    <2>4. RunInv' BY <2>1, <2>3 DEF RunInv
    <2>5. RepliesAreTheirOwn' BY <2>1 DEF RepliesAreTheirOwn
    <2> QED BY <2>2, <2>4, <2>5 DEF OwnInv
<1>3. CASE CacheHit
    <2>1. run.step = "turn" /\ run.step # "idle" /\ files' = files BY <1>3 DEF CacheHit
    <2>2. Turn \in Turns /\ Key(run.model, Turn) \in Keys BY <1>0, <2>1, KeysOfTurns
    <2> DEFINE f == files[Key(run.model, Turn)]
    <2>3. PICK t \in Turns : f.sent = SourceTurn(t) /\ Key(run.model, Turn) = Key(f.model, t)
        BY <1>0, <1>3, <2>2 DEF CacheHit, HasValidCache, FilesInv
    <2>4. run.model = f.model /\ f.sent = [SourceTurn(Turn) EXCEPT !.timestamp = f.sent.timestamp]
        BY <2>3, KeysAreUnique
    <2>5. Digest(f.reply, run.model, f.sent) BY <1>3, <2>4 DEF CacheHit
    <2>6. RunInv' /\ RepliesAreTheirOwn' BY <1>0, <2>1, <2>4, <2>5, DigestIsOwn
    <2>7. FilesInv' BY <1>0, <2>1 DEF FilesInv
    <2> QED BY <2>6, <2>7 DEF OwnInv
<1>4. ASSUME NEW reply \in Replies, CallProvider(reply) PROVE OwnInv'
    <2>1. run.step = "turn" /\ run.step # "idle" /\ proposed' = proposed BY <1>4 DEF CallProvider
    <2>2. Key(run.model, Turn) \in Keys BY <1>0, <2>1, KeysOfTurns
    <2>3. CASE Cacheable(reply)
        <3>1. /\ files' = [files EXCEPT ![Key(run.model, Turn)] = Torn]
              /\ run' = [step |-> "writing", model |-> run.model, turns |-> run.turns, cap |-> run.cap,
                         at |-> run.at, calls |-> run.calls + 1, reply |-> reply]
            BY <1>4, <2>3 DEF CallProvider
        <3>2. RunInv' BY <1>0, <2>1, <3>1 DEF RunInv
        <3>3. FilesInv' BY <1>0, <2>2, <3>1 DEF FilesInv, Torn
        <3>4. RepliesAreTheirOwn' BY <1>0, <2>1 DEF RepliesAreTheirOwn
        <3> QED BY <3>2, <3>3, <3>4 DEF OwnInv
    <2>4. CASE ~ Cacheable(reply)
        <3>1. files' = files /\ run' = Idle BY <1>4, <2>4 DEF CallProvider
        <3>2. FilesInv' /\ RunInv' BY <1>0, <3>1 DEF FilesInv, RunInv, Idle
        <3>3. RepliesAreTheirOwn' BY <1>0, <2>1 DEF RepliesAreTheirOwn
        <3> QED BY <3>2, <3>3 DEF OwnInv
    <2> QED BY <2>3, <2>4
<1>5. CASE WriteReply
    <2>1. run.step = "writing" /\ run.step # "idle" BY <1>5 DEF WriteReply
    <2>2. Turn \in Turns /\ Key(run.model, Turn) \in Keys BY <1>0, <2>1, KeysOfTurns
    <2>3. files' = [files EXCEPT ![Key(run.model, Turn)] = File(run.reply, run.model, Turn)]
        BY <1>5 DEF WriteReply
    <2>4. FilesInv' BY <1>0, <2>2, <2>3 DEF FilesInv, File
    <2>5. SourceTurn(Turn) = [SourceTurn(Turn) EXCEPT !.timestamp = SourceTurn(Turn).timestamp]
        BY DEF SourceTurn
    <2>6. RunInv' /\ RepliesAreTheirOwn'
        BY <1>0, <1>5, <2>1, <2>5, DigestIsOwn DEF WriteReply
    <2> QED BY <2>4, <2>6 DEF OwnInv
<1>6. CASE Stop
    <2>1. files' = files /\ proposed' = proposed /\ run' = Idle BY <1>6 DEF Stop
    <2> QED BY <1>0, <2>1 DEF OwnInv, FilesInv, RunInv, Idle, RepliesAreTheirOwn
<1>7. CASE UNCHANGED vars
    <2>1. files' = files /\ run' = run /\ proposed' = proposed BY <1>7 DEF vars
    <2> QED BY <1>0, <2>1 DEF OwnInv, FilesInv, RunInv, RepliesAreTheirOwn
<1> QED BY <1>1, <1>2, <1>3, <1>4, <1>5, <1>6, <1>7 DEF Next

\* RepliesAreTheirOwn, for every cache that runs can leave behind and turns of every date
\* and consent: what the LLM extractor proposes for a turn is the answer of the run's model
\* to this turn or to one that differs from it in its date alone, and what is to be stored
\* of it shares a word with the turn.
THEOREM CachedRepliesAreTheirOwn == Spec => []RepliesAreTheirOwn
<1>1. OwnInv => RepliesAreTheirOwn BY DEF OwnInv
<1> QED BY OwnInit, OwnNext, <1>1, PTL DEF Spec

-----------------------------------------------------------------------------
(* The budget. *)

\* The turns that a run has yet to call the provider for, as the cache stands.
Due ==
    {n \in 1..Len(run.turns) :
        /\ IF run.step = "writing" THEN n > run.at ELSE n >= run.at
        /\ ~ HasValidCache(run.model, run.turns[n])}

\* What was called and what is still due together stay within the cap: the cache may have
\* gained files since the budget was checked, and a file that was opened to be written
\* was none before.
BudgetInv == run.step # "idle" /\ run.cap # NoCap => run.calls + Cardinality(Due) <= run.cap
CapInv == OwnInv /\ BudgetInv

LEMMA DueIsFinite ==
    ASSUME RunInv, run.step # "idle"
    PROVE  IsFiniteSet(Due) /\ Cardinality(Due) \in Nat
<1>1. Len(run.turns) \in Nat BY TurnsOfConversations DEF RunInv
<1>2. IsFiniteSet(1..Len(run.turns)) BY <1>1, FS_Interval
<1>3. Due \subseteq 1..Len(run.turns) BY DEF Due
<1>4. IsFiniteSet(Due) BY <1>2, <1>3, FS_Subset
<1> QED BY <1>4, FS_CardinalityType

\* A step that calls no provider: nothing becomes due.
LEMMA LessIsDue ==
    ASSUME CapInv, run.step # "idle", run'.step # "idle", run'.cap = run.cap,
           run'.calls = run.calls, Due' \subseteq Due
    PROVE  BudgetInv'
<1>1. IsFiniteSet(Due) /\ Cardinality(Due) \in Nat BY DueIsFinite DEF CapInv, OwnInv
<1>2. Cardinality(Due') \in Nat /\ Cardinality(Due') <= Cardinality(Due)
    BY <1>1, FS_Subset, FS_CardinalityType
<1>3. run.cap # NoCap => run.cap \in Nat /\ run.calls \in Nat
    BY ExtractionAssumption DEF CapInv, OwnInv, RunInv
<1> QED BY <1>1, <1>2, <1>3 DEF CapInv, BudgetInv

\* A reply that was read: the run is over, or is at the next turn.
LEMMA DigestIsFree ==
    ASSUME CapInv, run.step # "idle", NEW reply, NEW m, NEW t, Digest(reply, m, t),
           \A k \in Keys : files[k].state = "whole" => files'[k].state = "whole",
           run.step = "turn" => HasValidCache(run.model, Turn)
    PROVE  BudgetInv'
<1>0. RunInv BY DEF CapInv, OwnInv
<1>1. CASE run' = Idle BY <1>1 DEF BudgetInv, Idle
<1>2. CASE run' # Idle
    <2>1. run' = [step |-> "turn", model |-> run.model, turns |-> run.turns, cap |-> run.cap,
                  at |-> run.at + 1, calls |-> run.calls]
        BY <1>2 DEF Digest
    <2>2. /\ run'.step = "turn" /\ run'.model = run.model /\ run'.turns = run.turns
          /\ run'.cap = run.cap /\ run'.at = run.at + 1 /\ run'.calls = run.calls
        BY <2>1
    <2>3. run.at \in Nat /\ Len(run.turns) \in Nat BY <1>0, TurnsOfConversations DEF RunInv
    <2>4. ASSUME NEW n \in Due' PROVE n \in Due
        <3>1. n \in 1..Len(run.turns) /\ n >= run.at + 1 /\ ~ HasValidCache(run.model, run.turns[n])'
            BY <2>2 DEF Due
        <3>2. run.turns[n] \in Turns /\ run.model \in Models
            BY <1>0, <3>1, TurnsOfConversations DEF RunInv
        <3>3. Key(run.model, run.turns[n]) \in Keys BY <3>2 DEF Keys
        <3>4. ~ HasValidCache(run.model, run.turns[n])
            BY <2>2, <3>1, <3>3 DEF HasValidCache
        <3>5. n > run.at BY <2>3, <3>1
        <3> QED BY <2>3, <3>1, <3>4, <3>5 DEF Due
    <2>5. run'.step # "idle" BY <2>2
    <2> QED BY <2>2, <2>4, <2>5, LessIsDue
<1> QED BY <1>1, <1>2

LEMMA CapInit == Init => CapInv
<1> SUFFICES ASSUME Init PROVE CapInv OBVIOUS
<1>1. BudgetInv BY DEF Init, Idle, BudgetInv
<1> QED BY <1>1, OwnInit DEF CapInv

LEMMA CapNext == CapInv /\ [Next]_vars => CapInv'
<1> SUFFICES ASSUME CapInv, [Next]_vars PROVE BudgetInv' BY OwnNext DEF CapInv
<1>0. FilesInv /\ RunInv /\ RunInv' /\ BudgetInv BY OwnNext DEF CapInv, OwnInv
<1>1. ASSUME NEW e \in Episodes, Ingest(e) PROVE BudgetInv'
    <2>1. files' = files /\ run' = run BY <1>1 DEF Ingest
    <2> QED BY <1>0, <2>1 DEF BudgetInv, Due, HasValidCache
<1>2. ASSUME NEW m \in Models, NEW c \in Conversations, NEW cap \in Caps \cup {NoCap},
             StartRun(m, c, cap)
      PROVE  BudgetInv'
    <2>1. /\ files' = files /\ WithinBudget(m, c, cap)
          /\ run' = [step |-> "turn", model |-> m, turns |-> c, cap |-> cap, at |-> 1, calls |-> 0]
        BY <1>2 DEF StartRun
    <2>2. /\ run'.step = "turn" /\ run'.model = m /\ run'.turns = c
          /\ run'.cap = cap /\ run'.at = 1 /\ run'.calls = 0
        BY <2>1
    <2>3. Due' = {n \in DOMAIN c : ~ HasValidCache(m, c[n])}
        BY <2>1, <2>2, TurnsOfConversations DEF Due, HasValidCache
    <2>4. cap # NoCap => Cardinality(Due') <= cap
        BY <2>1, <2>3 DEF WithinBudget, Planned
    <2>5. Cardinality(Due') \in Nat
        <3>1. Due' \in SUBSET (1..Len(c)) BY <2>2 DEF Due
        <3>2. IsFiniteSet(1..Len(c)) BY TurnsOfConversations, FS_Interval
        <3> QED BY <3>1, <3>2, FS_Subset, FS_CardinalityType
    <2> QED BY <2>2, <2>4, <2>5 DEF BudgetInv
<1>3. CASE CacheHit
    <2> DEFINE f == files[Key(run.model, Turn)]
    <2>1. /\ run.step = "turn" /\ HasValidCache(run.model, Turn) /\ files' = files
          /\ Digest(f.reply, f.model, f.sent)
        BY <1>3 DEF CacheHit
    <2>2. run.step # "idle" BY <2>1
    <2> QED BY <2>1, <2>2, DigestIsFree
<1>4. ASSUME NEW reply \in Replies, CallProvider(reply) PROVE BudgetInv'
    <2>1. run.step = "turn" /\ ~ HasValidCache(run.model, Turn) BY <1>4 DEF CallProvider
    <2>2. CASE Cacheable(reply)
        <3>1. /\ files' = [files EXCEPT ![Key(run.model, Turn)] = Torn]
              /\ run' = [step |-> "writing", model |-> run.model, turns |-> run.turns, cap |-> run.cap,
                         at |-> run.at, calls |-> run.calls + 1, reply |-> reply]
            BY <1>4, <2>2 DEF CallProvider
        <3>2. /\ run'.step = "writing" /\ run'.model = run.model /\ run'.turns = run.turns
              /\ run'.cap = run.cap /\ run'.at = run.at /\ run'.calls = run.calls + 1
            BY <3>1
        <3>3. run.at \in 1..Len(run.turns) /\ Len(run.turns) \in Nat
            BY <1>0, <2>1, TurnsOfConversations DEF RunInv
        <3>4. run.at \in Due BY <2>1, <3>3 DEF Due, Turn
        <3>5. ASSUME NEW n \in Due' PROVE n \in Due \ {run.at}
            <4>1. n \in 1..Len(run.turns) /\ n > run.at /\ ~ HasValidCache(run.model, run.turns[n])'
                BY <3>2 DEF Due
            <4>2. run.turns[n] \in Turns /\ run.model \in Models
                BY <1>0, <2>1, <4>1, TurnsOfConversations DEF RunInv
            <4>3. Key(run.model, run.turns[n]) \in Keys BY <4>2 DEF Keys
            <4>4. ~ HasValidCache(run.model, run.turns[n])
                <5>1. CASE Key(run.model, run.turns[n]) = Key(run.model, Turn)
                    BY <2>1, <5>1 DEF HasValidCache
                <5>2. CASE Key(run.model, run.turns[n]) # Key(run.model, Turn)
                    BY <1>0, <3>1, <3>2, <4>1, <4>3, <5>2 DEF HasValidCache, FilesInv
                <5> QED BY <5>1, <5>2
            <4>5. n >= run.at /\ n # run.at BY <3>3, <4>1
            <4> QED BY <2>1, <4>1, <4>4, <4>5 DEF Due
        <3>6. IsFiniteSet(Due) /\ Cardinality(Due) \in Nat BY <1>0, <2>1, DueIsFinite
        <3>7. /\ IsFiniteSet(Due \ {run.at})
              /\ Cardinality(Due \ {run.at}) = Cardinality(Due) - 1
            BY <3>4, <3>6, FS_RemoveElement
        <3>8. Due' \in SUBSET (Due \ {run.at}) BY <3>5
        <3>9. Cardinality(Due') <= Cardinality(Due) - 1 BY <3>7, <3>8, FS_Subset
        <3>10. Cardinality(Due') \in Nat BY <3>7, <3>8, FS_Subset, FS_CardinalityType
        <3>11. run.cap # NoCap => run.cap \in Nat /\ run.calls \in Nat
            BY <1>0, <2>1, ExtractionAssumption DEF RunInv
        <3>12. run.cap # NoCap => run.calls + Cardinality(Due) <= run.cap
            BY <1>0, <2>1 DEF BudgetInv
        <3> HIDE DEF Due
        <3> QED BY <3>2, <3>6, <3>9, <3>10, <3>11, <3>12 DEF BudgetInv
    <2>3. CASE ~ Cacheable(reply)
        BY <1>4, <2>3 DEF CallProvider, BudgetInv, Idle
    <2> QED BY <2>2, <2>3
<1>5. CASE WriteReply
    <2>1. /\ run.step = "writing" /\ Digest(run.reply, run.model, SourceTurn(Turn))
          /\ files' = [files EXCEPT ![Key(run.model, Turn)] = File(run.reply, run.model, Turn)]
        BY <1>5 DEF WriteReply
    <2>2. \A k \in Keys : files[k].state = "whole" => files'[k].state = "whole"
        BY <1>0, <2>1 DEF FilesInv, File
    <2>3. run.step # "idle" /\ run.step # "turn" BY <2>1
    <2> QED BY <2>1, <2>2, <2>3, DigestIsFree
<1>6. CASE Stop BY <1>6 DEF Stop, BudgetInv, Idle
<1>7. CASE UNCHANGED vars
    BY <1>0, <1>7 DEF vars, BudgetInv, Due, HasValidCache
<1> QED BY <1>1, <1>2, <1>3, <1>4, <1>5, <1>6, <1>7 DEF Next

\* CallsWithinCap, for every conversation and cap: though the budget is checked once, before
\* the first call, no run makes more calls than --max-api-calls allows, whatever files it
\* finds torn and however often a turn occurs in the conversation.
THEOREM CapIsHard == Spec => []CallsWithinCap
<1>1. CapInv => CallsWithinCap
    <2> SUFFICES ASSUME CapInv, run.step # "idle", run.cap # NoCap PROVE run.calls <= run.cap
        BY DEF CallsWithinCap
    <2>1. RunInv /\ run.calls + Cardinality(Due) <= run.cap BY DEF CapInv, OwnInv, BudgetInv
    <2>2. Cardinality(Due) \in Nat BY <2>1, DueIsFinite
    <2>3. run.cap \in Nat /\ run.calls \in Nat BY <2>1, ExtractionAssumption DEF RunInv
    <2> QED BY <2>1, <2>2, <2>3
<1> QED BY CapInit, CapNext, <1>1, PTL DEF Spec

-----------------------------------------------------------------------------
(* Cascades and tables. *)

\* A list, and the set its elements are from.
IsList(s) == s \in Seq(Range(s))

LEMMA OneAndNone ==
    /\ IsList(<<>>) /\ Len(<<>>) = 0 /\ Range(<<>>) = {}
    /\ \A c : IsList(<<c>>) /\ Range(<<c>>) = {c} /\ <<c>> # <<>> /\ Len(<<c>>) = 1
BY DEF IsList, Range

LEMMA ListOver ==
    ASSUME NEW X, NEW s \in Seq(X)
    PROVE  IsList(s) /\ Range(s) \subseteq X
BY DEF IsList, Range

LEMMA CascadeChooses ==
    ASSUME NEW alternatives, NEW k \in Nat, DOMAIN alternatives = 1 .. k
    PROVE  \/ /\ Cascade(alternatives) = <<>>
              /\ \A n \in 1 .. k : alternatives[n] = <<>>
           \/ \E n \in 1 .. k :
                 /\ Cascade(alternatives) = alternatives[n] /\ alternatives[n] # <<>>
                 /\ \A m \in 1 .. n - 1 : alternatives[m] = <<>>
<1> DEFINE found == {n \in DOMAIN alternatives : alternatives[n] # <<>>}
<1>1. found \in SUBSET Nat /\ found \subseteq 1 .. k OBVIOUS
<1>2. CASE found = {} BY <1>2 DEF Cascade
<1>3. CASE found # {}
    <2> HIDE DEF found
    <2>1. Min(found) \in found /\ \A m \in found : Min(found) <= m BY <1>1, <1>3, MinIsLeast
    <2> DEFINE n == Min(found)
    <2>2. n \in 1 .. k BY <1>1, <2>1
    <2>3. \A m \in 1 .. n - 1 : m \in 1 .. k /\ m \notin found BY <1>1, <2>1, <2>2
    <2>4. Cascade(alternatives) = alternatives[n] BY <1>3 DEF Cascade, found
    <2>5. alternatives[n] # <<>> /\ \A m \in 1 .. n - 1 : alternatives[m] = <<>>
        BY <2>1, <2>3 DEF found
    <2> HIDE DEF n
    <2> QED BY <2>2, <2>4, <2>5
<1> QED BY <1>2, <1>3

\* The first of two, three or six alternatives.
Either(a, b) == IF a # <<>> THEN a ELSE b

LEMMA CascadeOfTwo ==
    ASSUME NEW a, NEW b
    PROVE  Cascade(<<a, b>>) = Either(a, b)
<1> DEFINE s == <<a, b>>
           first == Either(a, b)
<1>1. DOMAIN s = 1 .. 2 OBVIOUS
<1>2. \A n \in 1 .. 2 : n = 1 \/ n = 2 OBVIOUS
<1>3. s[1] = a /\ s[2] = b OBVIOUS
<1> HIDE DEF s
<1>4. \/ Cascade(s) = <<>> /\ \A n \in 1 .. 2 : s[n] = <<>>
      \/ \E n \in 1 .. 2 : /\ Cascade(s) = s[n] /\ s[n] # <<>>
                          /\ \A m \in 1 .. n - 1 : s[m] = <<>>
    BY <1>1, CascadeChooses
<1>5. ASSUME Cascade(s) = <<>>, \A n \in 1 .. 2 : s[n] = <<>>
      PROVE  Cascade(s) = first
    <2>1. s[1] = <<>> /\ s[2] = <<>> BY <1>5
    <2> QED BY <1>3, <1>5, <2>1 DEF Either
<1>6. ASSUME NEW n \in 1 .. 2, Cascade(s) = s[n], s[n] # <<>>, \A m \in 1 .. n - 1 : s[m] = <<>>
      PROVE  Cascade(s) = first
    <2>1. CASE n = 1 BY <1>3, <1>6, <2>1 DEF Either
    <2>2. CASE n = 2
        <3>1. s[1] = <<>> BY <1>6, <2>2
        <3> QED BY <1>3, <1>6, <2>2, <3>1 DEF Either
    <2> QED BY <1>2, <2>1, <2>2
<1> HIDE DEF first
<1>7. Cascade(s) = first BY <1>4, <1>5, <1>6, Zenon
<1> QED BY <1>7 DEF s, first

LEMMA CascadeOfThree ==
    ASSUME NEW a, NEW b, NEW c
    PROVE  Cascade(<<a, b, c>>) = Either(a, Either(b, c))
<1> DEFINE s == <<a, b, c>>
           first == Either(a, Either(b, c))
<1>1. DOMAIN s = 1 .. 3 OBVIOUS
<1>2. \A n \in 1 .. 3 : n = 1 \/ n = 2 \/ n = 3 OBVIOUS
<1>3. s[1] = a /\ s[2] = b /\ s[3] = c OBVIOUS
<1> HIDE DEF s
<1>4. \/ Cascade(s) = <<>> /\ \A n \in 1 .. 3 : s[n] = <<>>
      \/ \E n \in 1 .. 3 : /\ Cascade(s) = s[n] /\ s[n] # <<>>
                          /\ \A m \in 1 .. n - 1 : s[m] = <<>>
    BY <1>1, CascadeChooses
<1>5. ASSUME Cascade(s) = <<>>, \A n \in 1 .. 3 : s[n] = <<>>
      PROVE  Cascade(s) = first
    <2>1. s[1] = <<>> /\ s[2] = <<>> /\ s[3] = <<>> BY <1>5
    <2> QED BY <1>3, <1>5, <2>1 DEF Either
<1>6. ASSUME NEW n \in 1 .. 3, Cascade(s) = s[n], s[n] # <<>>, \A m \in 1 .. n - 1 : s[m] = <<>>
      PROVE  Cascade(s) = first
    <2>1. CASE n = 1 BY <1>3, <1>6, <2>1 DEF Either
    <2>2. CASE n = 2
        <3>1. s[1] = <<>> BY <1>6, <2>2
        <3> QED BY <1>3, <1>6, <2>2, <3>1 DEF Either
    <2>3. CASE n = 3
        <3>1. s[1] = <<>> /\ s[2] = <<>> BY <1>6, <2>3
        <3> QED BY <1>3, <1>6, <2>3, <3>1 DEF Either
    <2> QED BY <1>2, <2>1, <2>2, <2>3
<1> HIDE DEF first
<1>7. Cascade(s) = first BY <1>4, <1>5, <1>6, Zenon
<1> QED BY <1>7 DEF s, first

LEMMA CascadeOfFour ==
    ASSUME NEW a, NEW b, NEW c, NEW d
    PROVE  Cascade(<<a, b, c, d>>) = Either(a, Either(b, Either(c, d)))
<1> DEFINE s == <<a, b, c, d>>
           first == Either(a, Either(b, Either(c, d)))
<1>1. DOMAIN s = 1 .. 4 OBVIOUS
<1>2. \A n \in 1 .. 4 : n = 1 \/ n = 2 \/ n = 3 \/ n = 4 OBVIOUS
<1>3. s[1] = a /\ s[2] = b /\ s[3] = c /\ s[4] = d OBVIOUS
<1> HIDE DEF s
<1>4. \/ Cascade(s) = <<>> /\ \A n \in 1 .. 4 : s[n] = <<>>
      \/ \E n \in 1 .. 4 : /\ Cascade(s) = s[n] /\ s[n] # <<>>
                          /\ \A m \in 1 .. n - 1 : s[m] = <<>>
    BY <1>1, CascadeChooses
<1>5. ASSUME Cascade(s) = <<>>, \A n \in 1 .. 4 : s[n] = <<>>
      PROVE  Cascade(s) = first
    <2>1. s[1] = <<>> /\ s[2] = <<>> /\ s[3] = <<>> /\ s[4] = <<>> BY <1>5
    <2> QED BY <1>3, <1>5, <2>1 DEF Either
<1>6. ASSUME NEW n \in 1 .. 4, Cascade(s) = s[n], s[n] # <<>>, \A m \in 1 .. n - 1 : s[m] = <<>>
      PROVE  Cascade(s) = first
    <2>1. CASE n = 1 BY <1>3, <1>6, <2>1 DEF Either
    <2>2. CASE n = 2
        <3>1. s[1] = <<>> BY <1>6, <2>2
        <3> QED BY <1>3, <1>6, <2>2, <3>1 DEF Either
    <2>3. CASE n = 3
        <3>1. s[1] = <<>> /\ s[2] = <<>> BY <1>6, <2>3
        <3> QED BY <1>3, <1>6, <2>3, <3>1 DEF Either
    <2>4. CASE n = 4
        <3>1. s[1] = <<>> /\ s[2] = <<>> /\ s[3] = <<>> BY <1>6, <2>4
        <3> QED BY <1>3, <1>6, <2>4, <3>1 DEF Either
    <2> QED BY <1>2, <2>1, <2>2, <2>3, <2>4
<1> HIDE DEF first
<1>7. Cascade(s) = first BY <1>4, <1>5, <1>6, Zenon
<1> QED BY <1>7 DEF s, first

LEMMA CascadeOfSix ==
    ASSUME NEW a, NEW b, NEW c, NEW d, NEW e, NEW f
    PROVE  Cascade(<<a, b, c, d, e, f>>) = Either(a, Either(b, Either(c, Either(d, Either(e, f)))))
<1> DEFINE s == <<a, b, c, d, e, f>>
           first == Either(a, Either(b, Either(c, Either(d, Either(e, f)))))
<1>1. DOMAIN s = 1 .. 6 OBVIOUS
<1>2. \A n \in 1 .. 6 : n = 1 \/ n = 2 \/ n = 3 \/ n = 4 \/ n = 5 \/ n = 6 OBVIOUS
<1>3. s[1] = a /\ s[2] = b /\ s[3] = c /\ s[4] = d /\ s[5] = e /\ s[6] = f OBVIOUS
<1> HIDE DEF s
<1>4. \/ Cascade(s) = <<>> /\ \A n \in 1 .. 6 : s[n] = <<>>
      \/ \E n \in 1 .. 6 : /\ Cascade(s) = s[n] /\ s[n] # <<>>
                          /\ \A m \in 1 .. n - 1 : s[m] = <<>>
    BY <1>1, CascadeChooses
<1>5. ASSUME Cascade(s) = <<>>, \A n \in 1 .. 6 : s[n] = <<>>
      PROVE  Cascade(s) = first
    <2>1. s[1] = <<>> /\ s[2] = <<>> /\ s[3] = <<>> /\ s[4] = <<>> /\ s[5] = <<>> /\ s[6] = <<>> BY <1>5
    <2> QED BY <1>3, <1>5, <2>1 DEF Either
<1>6. ASSUME NEW n \in 1 .. 6, Cascade(s) = s[n], s[n] # <<>>, \A m \in 1 .. n - 1 : s[m] = <<>>
      PROVE  Cascade(s) = first
    <2>1. CASE n = 1 BY <1>3, <1>6, <2>1 DEF Either
    <2>2. CASE n = 2
        <3>1. s[1] = <<>> BY <1>6, <2>2
        <3> QED BY <1>3, <1>6, <2>2, <3>1 DEF Either
    <2>3. CASE n = 3
        <3>1. s[1] = <<>> /\ s[2] = <<>> BY <1>6, <2>3
        <3> QED BY <1>3, <1>6, <2>3, <3>1 DEF Either
    <2>4. CASE n = 4
        <3>1. s[1] = <<>> /\ s[2] = <<>> /\ s[3] = <<>> BY <1>6, <2>4
        <3> QED BY <1>3, <1>6, <2>4, <3>1 DEF Either
    <2>5. CASE n = 5
        <3>1. s[1] = <<>> /\ s[2] = <<>> /\ s[3] = <<>> /\ s[4] = <<>> BY <1>6, <2>5
        <3> QED BY <1>3, <1>6, <2>5, <3>1 DEF Either
    <2>6. CASE n = 6
        <3>1. s[1] = <<>> /\ s[2] = <<>> /\ s[3] = <<>> /\ s[4] = <<>> /\ s[5] = <<>> BY <1>6, <2>6
        <3> QED BY <1>3, <1>6, <2>6, <3>1 DEF Either
    <2> QED BY <1>2, <2>1, <2>2, <2>3, <2>4, <2>5, <2>6
<1> HIDE DEF first
<1>7. Cascade(s) = first BY <1>4, <1>5, <1>6, Zenon
<1> QED BY <1>7 DEF s, first

-----------------------------------------------------------------------------
(* Lines. *)

\* What each extractor that goes by rules makes of a line.
PlainLine(l, e) == Cascade(<<Structured(l, e), Natural(l, e)>>)
NoisyChunk(l, e) == NoisyOrder(l, e, NoisyLine(l, e))
RecruitingChunk(l, e) ==
    NoisyOrder(l, e, Cascade(<<RecruitingConstraint(l), RecruitingFact(l, e), NoisyLine(l, e)>>))

LEMMA WhenIsList ==
    ASSUME NEW condition, NEW c
    PROVE  IsList(When(condition, c))
BY OneAndNone DEF When

LEMMA EitherIsList ==
    ASSUME NEW a, NEW b, IsList(a), IsList(b)
    PROVE  IsList(Either(a, b))
BY DEF Either

LEMMA PolicyRequestIsList == ASSUME NEW l PROVE IsList(PolicyRequest(l))
BY WhenIsList DEF PolicyRequest

LEMMA StructuredIsList == ASSUME NEW l, NEW e PROVE IsList(Structured(l, e))
<1> DEFINE a == When(l.form \in {"FACT", "SENSITIVE"},
                     Fact(e, "semantic_fact", l.subject, l.relation, l.object, l.form = "SENSITIVE"))
           b == When(l.form = "PREFERENCE", Preference(e, l.relation, l.object))
           c == When(l.form = "PROCEDURE", Candidate("store", "procedure", "", "", l.object))
           d == When(l.form \in {"DELETE", "FORGET", "DO_NOT_USE"},
                     Constraint(IF l.form = "DO_NOT_USE" THEN "do_not_use" ELSE "delete", l.tail, ""))
<1>1. Structured(l, e) = Cascade(<<a, b, c, d>>) BY DEF Structured
<1>2. IsList(a) /\ IsList(b) /\ IsList(c) /\ IsList(d) BY WhenIsList
<1> HIDE DEF a, b, c, d
<1>3. Structured(l, e) = Either(a, Either(b, Either(c, d))) BY <1>1, CascadeOfFour
<1> QED BY <1>2, <1>3, EitherIsList

\* A line of prose is not structured.
LEMMA ProseIsNotStructured ==
    ASSUME NEW l, NEW e, l.form = "prose"
    PROVE  Structured(l, e) = <<>>
<1> DEFINE a == When(l.form \in {"FACT", "SENSITIVE"},
                     Fact(e, "semantic_fact", l.subject, l.relation, l.object, l.form = "SENSITIVE"))
           b == When(l.form = "PREFERENCE", Preference(e, l.relation, l.object))
           c == When(l.form = "PROCEDURE", Candidate("store", "procedure", "", "", l.object))
           d == When(l.form \in {"DELETE", "FORGET", "DO_NOT_USE"},
                     Constraint(IF l.form = "DO_NOT_USE" THEN "do_not_use" ELSE "delete", l.tail, ""))
<1>1. Structured(l, e) = Cascade(<<a, b, c, d>>) BY DEF Structured
<1>2. a = <<>> /\ b = <<>> /\ c = <<>> /\ d = <<>> BY DEF When
<1> HIDE DEF a, b, c, d
<1> QED BY <1>1, <1>2, CascadeOfFour DEF Either

LEMMA NaturalIsEither ==
    ASSUME NEW l, NEW e
    PROVE  Natural(l, e) = Either(NaturalPolicy(l), NaturalPreference(l, e)) /\ IsList(Natural(l, e))
<1>1. Natural(l, e) = Either(NaturalPolicy(l), NaturalPreference(l, e)) BY CascadeOfTwo DEF Natural
<1>2. IsList(NaturalPolicy(l)) /\ IsList(NaturalPreference(l, e))
    BY WhenIsList DEF NaturalPolicy, NaturalPreference
<1> QED BY <1>1, <1>2, EitherIsList

LEMMA SwitchIsFact ==
    ASSUME NEW e, NEW needed, NEW cues, NEW type, NEW relation, NEW object
    PROVE  LET s == Switch(e, needed, cues, type, relation, object)
           IN  s \in Seq({Fact(e, type, User, relation, {object}, FALSE)})
<1> DEFINE f == Fact(e, type, User, relation, {object}, FALSE)
<1>1. Switch(e, needed, cues, type, relation, object) = When(needed \subseteq cues, f) BY DEF Switch
<1> HIDE DEF f
<1>2. When(needed \subseteq cues, f) \in Seq({f})
    <2>1. <<f>> \in Seq({f}) /\ <<>> \in Seq({f}) OBVIOUS
    <2>2. CASE needed \subseteq cues BY <2>1, <2>2 DEF When
    <2>3. CASE ~ (needed \subseteq cues) BY <2>1, <2>3 DEF When
    <2> QED BY <2>2, <2>3
<1>3. Switch(e, needed, cues, type, relation, object) \in Seq({f}) BY <1>1, <1>2
<1> QED BY <1>3 DEF f

\* What a candidate is made of.
LEMMA FactFields ==
    ASSUME NEW e, NEW type, NEW subject, NEW relation, NEW object, NEW sensitive
    PROVE  LET c == Fact(e, type, subject, relation, object, sensitive)
           IN  /\ c.type = type /\ c.object = object
               /\ c.action = IF sensitive /\ e.consent # "explicit" THEN "ask_consent" ELSE "store"
BY DEF Fact, Candidate

LEMMA ProjectSwitchIsList ==
    ASSUME NEW l, NEW e
    PROVE  /\ IsList(ProjectSwitch(l, e))
           /\ \A n \in DOMAIN ProjectSwitch(l, e) :
                 ProjectSwitch(l, e)[n].object \cap SensitiveCues = {}
<1> DEFINE f1 == Fact(e, "preference", User, "code_preference", {"Flutter_hands_on"}, FALSE)
           f2 == Fact(e, "preference", User, "code_preference", {"no_code_self"}, FALSE)
           f3 == Fact(e, "semantic_fact", User, "tech_stack", {"Python"}, FALSE)
           f4 == Fact(e, "semantic_fact", User, "tech_stack", {"Rust"}, FALSE)
           a == Switch(e, {"gymbuddy", "flutter"}, l.cues, "preference", "code_preference", "Flutter_hands_on")
           b == Switch(e, {"psychotest24", "no code"}, l.cues, "preference", "code_preference", "no_code_self")
           c == Switch(e, {"alpha", "python"}, l.cues, "semantic_fact", "tech_stack", "Python")
           d == Switch(e, {"beta", "rust"}, l.cues, "semantic_fact", "tech_stack", "Rust")
           X == {f1, f2, f3, f4}
<1>1. ProjectSwitch(l, e) = a \o b \o c \o d BY DEF ProjectSwitch
<1>2. a \in Seq({f1}) /\ b \in Seq({f2}) /\ c \in Seq({f3}) /\ d \in Seq({f4}) BY SwitchIsFact
<1>3. \A f \in X : f.object \cap SensitiveCues = {}
    <2>1. /\ f1.object = {"Flutter_hands_on"} /\ f2.object = {"no_code_self"}
          /\ f3.object = {"Python"} /\ f4.object = {"Rust"}
        BY DEF Fact, Candidate
    <2>2. {"Flutter_hands_on", "no_code_self", "Python", "Rust"} \cap SensitiveCues = {}
        BY DEF SensitiveCues
    <2> HIDE DEF f1, f2, f3, f4
    <2> QED BY <2>1, <2>2
<1> HIDE DEF f1, f2, f3, f4, a, b, c, d
<1>4. a \in Seq(X) /\ b \in Seq(X) /\ c \in Seq(X) /\ d \in Seq(X) BY <1>2
<1> HIDE DEF X
<1>5. a \o b \in Seq(X) BY <1>4
<1>6. a \o b \o c \in Seq(X) BY <1>4, <1>5
<1>7. ProjectSwitch(l, e) \in Seq(X) BY <1>1, <1>4, <1>6
<1>8. \A n \in DOMAIN ProjectSwitch(l, e) : ProjectSwitch(l, e)[n] \in X BY <1>7
<1> QED BY <1>3, <1>7, <1>8, ListOver

-----------------------------------------------------------------------------
(* Lists of lists. *)

\* Lists of lists over one set of elements.
LEMMA ListsOver ==
    ASSUME NEW k \in Nat, NEW lists, lists = [n \in 1 .. k |-> lists[n]],
           \A n \in 1 .. k : IsList(lists[n])
    PROVE  \E X : lists \in Seq(Seq(X)) /\ Len(lists) = k
                  /\ X = UNION {Range(lists[n]) : n \in 1 .. k}
<1> DEFINE X == UNION {Range(lists[n]) : n \in 1 .. k}
<1>1. ASSUME NEW n \in 1 .. k PROVE lists[n] \in Seq(X)
    <2>1. Range(lists[n]) \subseteq X OBVIOUS
    <2> HIDE DEF X
    <2>2. lists[n] \in Seq(Range(lists[n])) BY DEF IsList
    <2> QED BY <2>1, <2>2
<1> HIDE DEF X
<1>2. lists \in [1 .. k -> Seq(X)] BY <1>1
<1>3. lists \in Seq(Seq(X)) /\ Len(lists) = k BY <1>2
<1> QED BY <1>3 DEF X

LEMMA Concatenated ==
    ASSUME NEW X, NEW s \in Seq(X), NEW t \in Seq(X)
    PROVE  /\ s \o t \in Seq(X) /\ Len(s) \in Nat /\ Len(t) \in Nat /\ Len(s \o t) = Len(s) + Len(t)
           /\ \A p \in 1 .. Len(s) : (s \o t)[p] = s[p]
           /\ \A p \in 1 .. Len(t) : (s \o t)[Len(s) + p] = t[p]
           /\ DOMAIN s = 1 .. Len(s) /\ DOMAIN t = 1 .. Len(t)
<1>1. Len(s) \in Nat /\ Len(t) \in Nat /\ Len(s \o t) = Len(s) + Len(t) /\ s \o t \in Seq(X) OBVIOUS
<1>2. \A p \in 1 .. Len(s) : (s \o t)[p] = s[p] OBVIOUS
<1>3. ASSUME NEW p \in 1 .. Len(t) PROVE (s \o t)[Len(s) + p] = t[p]
    <2>1. Len(s) + p \in 1 .. Len(s) + Len(t) BY <1>1
    <2> QED BY <1>1, <2>1
<1> QED BY <1>1, <1>2, <1>3

LEMMA UpToIsFinite == ASSUME NEW n \in Nat PROVE IsFiniteSet(1 .. n)
<1>1. 1 \in Int /\ n \in Int OBVIOUS
<1> QED BY <1>1, FS_Interval

LEMMA PositionsAreFinite ==
    ASSUME NEW X, NEW s \in Seq(X)
    PROVE  IsFiniteSet(DOMAIN s)
<1>1. Len(s) \in Nat /\ DOMAIN s = 1 .. Len(s) OBVIOUS
<1> QED BY <1>1, UpToIsFinite

\* Where each of the lists ends within the flat one.
Ends(lists, k, ends, flat) ==
    /\ ends \in [0 .. k -> Nat]
    /\ \A n \in 1 .. k : ends[n] = ends[n - 1] + Len(lists[n])
    /\ \A m, n \in 0 .. k : m <= n => ends[m] <= ends[n]
    /\ \A n \in 1 .. k : Len(lists[n]) \in Nat /\ \A m \in 1 .. Len(lists[n]) :
           /\ ends[n - 1] + m \in DOMAIN flat
           /\ flat[ends[n - 1] + m] = lists[n][m]

\* Where the elements of the flat list come from, and where those of each list go.
LEMMA FlatPrefixes ==
    ASSUME NEW k \in Nat, NEW lists, lists = [n \in 1 .. k |-> lists[n]],
           \A n \in 1 .. k : IsList(lists[n])
    PROVE  LET flat == FlattenSeq(lists) IN
           /\ IsList(flat)
           /\ \A p \in DOMAIN flat : \E n \in 1 .. k : \E m \in DOMAIN lists[n] : flat[p] = lists[n][m]
           /\ \E ends : Ends(lists, k, ends, flat)
<1>1. PICK X : lists \in Seq(Seq(X)) /\ Len(lists) = k BY ListsOver
<1>2. \A n \in 1 .. k : lists[n] \in Seq(X) BY <1>1
<1>3. PICK F \in [0 .. k -> Seq(X)] :
          /\ F[0] = <<>> /\ F[k] = FlattenSeq(lists)
          /\ \A i \in 1 .. k : F[i] = F[i - 1] \o lists[i]
    BY <1>1, Flattened
<1> DEFINE ends == [n \in 0 .. k |-> Len(F[n])]
           From(s, n) == \A p \in 1 .. Len(s) :
                             \E i \in 1 .. n : \E m \in DOMAIN lists[i] : s[p] = lists[i][m]
           Before(m, n) == /\ Len(F[m]) <= Len(F[n])
                           /\ \A p \in 1 .. Len(F[m]) : F[n][p] = F[m][p]
           S == {n \in 0 .. k : From(F[n], n) /\ \A m \in 0 .. n : Before(m, n)}
<1>4. 0 \in S
    <2>1. Len(F[0]) = 0 BY <1>3
    <2> QED BY <2>1
<1>5. ASSUME NEW i \in 0 .. k - 1, i \in S PROVE i + 1 \in S
    <2>1. i + 1 \in 1 .. k /\ i \in 0 .. k /\ i + 1 \in 0 .. k /\ (i + 1) - 1 = i OBVIOUS
    <2>2. F[i + 1] = F[i] \o lists[i + 1] BY <1>3, <2>1
    <2>3. F[i] \in Seq(X) /\ lists[i + 1] \in Seq(X) BY <1>2, <1>3, <2>1
    <2> DEFINE s == F[i]
               t == lists[i + 1]
               u == F[i + 1]
    <2>4. /\ Len(s) \in Nat /\ Len(t) \in Nat /\ Len(u) = Len(s) + Len(t)
          /\ \A p \in 1 .. Len(s) : u[p] = s[p]
          /\ \A p \in 1 .. Len(t) : u[Len(s) + p] = t[p]
          /\ DOMAIN t = 1 .. Len(t)
        <3>1. u = s \o t BY <2>2
        <3> HIDE DEF s, t, u
        <3>2. s \in Seq(X) /\ t \in Seq(X) BY <2>3 DEF s, t
        <3> QED BY <3>1, <3>2, Concatenated
    <2>5. From(s, i) BY <1>5
    <2> HIDE DEF s, t
    <2>6. From(u, i + 1)
        <3> SUFFICES ASSUME NEW p \in 1 .. Len(u)
                     PROVE  \E j \in 1 .. i + 1 : \E m \in DOMAIN lists[j] : u[p] = lists[j][m]
            OBVIOUS
        <3> HIDE DEF u
        <3>1. CASE p \in 1 .. Len(s)
            <4>1. PICK j \in 1 .. i : \E m \in DOMAIN lists[j] : s[p] = lists[j][m]
                BY <2>5, <3>1 DEF s
            <4>2. j \in 1 .. i + 1 BY <2>1
            <4> QED BY <2>4, <3>1, <4>1, <4>2
        <3>2. CASE p \notin 1 .. Len(s)
            <4>1. p - Len(s) \in 1 .. Len(t) /\ p = Len(s) + (p - Len(s)) BY <2>4, <3>2
            <4>2. u[p] = t[p - Len(s)] BY <2>4, <4>1
            <4>3. p - Len(s) \in DOMAIN t /\ i + 1 \in 1 .. i + 1 BY <2>1, <2>4, <4>1
            <4> QED BY <4>2, <4>3 DEF t
        <3> QED BY <3>1, <3>2
    <2>7. ASSUME NEW m \in 0 .. i + 1 PROVE Before(m, i + 1)
        <3>1. CASE m = i + 1
            <4>1. Len(F[m]) <= Len(F[i + 1]) BY <2>4, <3>1
            <4> QED BY <3>1, <4>1
        <3>2. CASE m # i + 1
            <4>1. m \in 0 .. i BY <3>2
            <4>2. Before(m, i) BY <1>5, <4>1
            <4>3. Len(F[m]) \in Nat /\ Len(F[m]) <= Len(s) BY <1>3, <2>1, <4>1, <4>2 DEF s
            <4>4. \A p \in 1 .. Len(F[m]) : p \in 1 .. Len(s) /\ s[p] = F[m][p]
                BY <2>4, <4>2, <4>3 DEF s
            <4>5. \A p \in 1 .. Len(F[m]) : F[i + 1][p] = F[m][p] BY <2>4, <4>4
            <4>6. Len(F[m]) <= Len(F[i + 1]) BY <2>4, <4>3
            <4> QED BY <4>5, <4>6
        <3> QED BY <3>1, <3>2
    <2> QED BY <2>1, <2>6, <2>7
<1>6. 0 .. k \subseteq S
    <2> HIDE DEF S
    <2> QED BY <1>4, <1>5, StepByStep
<1>7. \A n \in 0 .. k : F[n] \in Seq(X) /\ Len(F[n]) \in Nat /\ From(F[n], n) /\ \A m \in 0 .. n : Before(m, n)
    BY <1>3, <1>6
<1>8. ends \in [0 .. k -> Nat] BY <1>7
<1>9. IsList(F[k]) /\ DOMAIN F[k] = 1 .. Len(F[k]) BY <1>7, ListOver
<1>10. ASSUME NEW n \in 1 .. k
       PROVE  /\ n - 1 \in 0 .. k /\ n \in 0 .. k
              /\ Len(lists[n]) \in Nat /\ ends[n] = ends[n - 1] + Len(lists[n])
    <2>1. n - 1 \in 0 .. k /\ n \in 0 .. k OBVIOUS
    <2>2. F[n - 1] \in Seq(X) /\ lists[n] \in Seq(X) /\ F[n] = F[n - 1] \o lists[n]
        BY <1>2, <1>3, <1>7, <2>1
    <2>3. Len(lists[n]) \in Nat /\ Len(F[n]) = Len(F[n - 1]) + Len(lists[n]) BY <2>2, Concatenated
    <2> QED BY <2>1, <2>3
<1>11. \A m, n \in 0 .. k : m <= n => ends[m] <= ends[n]
    <2> SUFFICES ASSUME NEW m \in 0 .. k, NEW n \in 0 .. k, m <= n PROVE ends[m] <= ends[n] OBVIOUS
    <2>1. m \in 0 .. n OBVIOUS
    <2> QED BY <1>7, <2>1
<1>12. ASSUME NEW n \in 1 .. k, NEW m \in 1 .. Len(lists[n])
       PROVE  /\ ends[n - 1] + m \in DOMAIN F[k]
              /\ F[k][ends[n - 1] + m] = lists[n][m]
    <2>1. F[n - 1] \in Seq(X) /\ lists[n] \in Seq(X) /\ F[n] = F[n - 1] \o lists[n]
        BY <1>2, <1>3, <1>7, <1>10
    <2>2. ends[n - 1] = Len(F[n - 1]) /\ ends[n - 1] \in Nat BY <1>8, <1>10
    <2>3. /\ ends[n - 1] + m \in 1 .. Len(F[n])
          /\ F[n][ends[n - 1] + m] = lists[n][m]
        <3>1. /\ Len(F[n]) = Len(F[n - 1]) + Len(lists[n]) /\ Len(lists[n]) \in Nat
              /\ F[n][Len(F[n - 1]) + m] = lists[n][m]
            BY <2>1, Concatenated
        <3> HIDE DEF ends
        <3> QED BY <2>2, <3>1
    <2>4. Before(n, k) BY <1>7
    <2>5. Len(F[n]) \in Nat /\ Len(F[k]) \in Nat BY <1>7, <1>10
    <2> HIDE DEF ends
    <2>6. F[k][ends[n - 1] + m] = F[n][ends[n - 1] + m] BY <2>3, <2>4
    <2>7. ends[n - 1] + m \in 1 .. Len(F[k]) BY <2>3, <2>4, <2>5
    <2> QED BY <1>9, <2>3, <2>6, <2>7
<1>13. \A p \in DOMAIN F[k] : \E n \in 1 .. k : \E m \in DOMAIN lists[n] : F[k][p] = lists[n][m]
    BY <1>7, <1>9
<1> HIDE DEF ends
<1>14. Ends(lists, k, ends, F[k]) BY <1>8, <1>10, <1>11, <1>12 DEF Ends
<1> DEFINE all == F[k]
<1>15. all = FlattenSeq(lists) BY <1>3
<1>16. /\ IsList(all)
       /\ \A p \in DOMAIN all : \E n \in 1 .. k : \E m \in DOMAIN lists[n] : all[p] = lists[n][m]
       /\ \E e : Ends(lists, k, e, all)
    BY <1>9, <1>13, <1>14
<1> HIDE DEF all
<1> QED BY <1>15, <1>16

\* Every element of the flat list is one of a list.
FromLists(lists, k) ==
    \A p \in DOMAIN FlattenSeq(lists) :
       \E n \in 1 .. k : \E m \in DOMAIN lists[n] : FlattenSeq(lists)[p] = lists[n][m]

LEMMA FlatElements ==
    ASSUME NEW k \in Nat, NEW lists, lists = [n \in 1 .. k |-> lists[n]],
           \A n \in 1 .. k : IsList(lists[n])
    PROVE  FromLists(lists, k)
BY FlatPrefixes DEF FromLists

\* Lists of one element each, the others of any length: the flat list has a place for each
\* of the former.
LEMMA FlatCounts ==
    ASSUME NEW k \in Nat, NEW lists, lists = [n \in 1 .. k |-> lists[n]],
           \A n \in 1 .. k : IsList(lists[n]),
           NEW single \in SUBSET (1 .. k), NEW C,
           \A n \in single : \E c \in C : lists[n] = <<c>>
    PROVE  LET flat == FlattenSeq(lists)
               places == {p \in DOMAIN flat : flat[p] \in C}
           IN  /\ IsFiniteSet(places) /\ IsFiniteSet(single)
               /\ Cardinality(places) >= Cardinality(single)
               /\ \A n \in single : \E p \in places : lists[n] = <<flat[p]>>
<1> DEFINE flat == FlattenSeq(lists)
           places == {p \in DOMAIN flat : flat[p] \in C}
<1>1. PICK ends : Ends(lists, k, ends, flat) BY FlatPrefixes
<1>2. IsList(flat) BY FlatPrefixes
<1>3. IsFiniteSet(DOMAIN flat)
    <2> QED BY <1>2, PositionsAreFinite DEF IsList
<1>4. IsFiniteSet(places) BY <1>3, FS_Subset
<1>5. IsFiniteSet(single)
    <2>1. IsFiniteSet(1 .. k) BY FS_Interval
    <2> QED BY <2>1, FS_Subset
<1> HIDE DEF flat
<1> DEFINE place == [n \in single |-> ends[n - 1] + 1]
<1>6. ASSUME NEW n \in single
      PROVE  /\ n \in 1 .. k /\ n - 1 \in 0 .. k /\ n \in 0 .. k
             /\ ends[n - 1] \in Nat /\ ends[n] = ends[n - 1] + 1
             /\ place[n] \in places /\ lists[n] = <<flat[place[n]]>>
    <2>1. PICK c \in C : lists[n] = <<c>> BY <1>6
    <2>2. n \in 1 .. k /\ n - 1 \in 0 .. k /\ n \in 0 .. k OBVIOUS
    <2>3. Len(lists[n]) = 1 /\ lists[n][1] = c
        <3>1. Len(<<c>>) = 1 /\ <<c>>[1] = c OBVIOUS
        <3> QED BY <2>1, <3>1
    <2>4. ends[n - 1] \in Nat /\ ends[n] = ends[n - 1] + 1 BY <1>1, <2>2, <2>3 DEF Ends
    <2>5. ends[n - 1] + 1 \in DOMAIN flat /\ flat[ends[n - 1] + 1] = c
        <3>1. 1 \in 1 .. Len(lists[n]) BY <2>3
        <3> QED BY <1>1, <2>2, <2>3, <3>1 DEF Ends
    <2> QED BY <2>1, <2>2, <2>4, <2>5
<1>7. place \in [single -> places] BY <1>6
<1>8. \A m, n \in single : place[m] = place[n] => m = n
    <2> SUFFICES ASSUME NEW m \in single, NEW n \in single, m < n PROVE place[m] # place[n]
        BY <1>6
    <2>1. ends[m] <= ends[n - 1] BY <1>1, <1>6 DEF Ends
    <2>2. ends[m] = place[m] /\ place[n] = ends[n - 1] + 1 BY <1>6
    <2>3. ends[n - 1] \in Nat /\ ends[m] \in Nat
        <3>1. m \in 0 .. k /\ n - 1 \in 0 .. k BY <1>6
        <3> QED BY <1>1, <3>1 DEF Ends
    <2> QED BY <2>1, <2>2, <2>3
<1>9. place \in Injection(single, places) BY <1>7, <1>8 DEF Injection, IsInjective
<1>10. Cardinality(single) <= Cardinality(places) BY <1>4, <1>5, <1>9, FS_Injection
<1>11. Cardinality(single) \in Nat /\ Cardinality(places) \in Nat BY <1>4, <1>5, FS_CardinalityType
<1>12. \A n \in single : \E p \in places : lists[n] = <<flat[p]>> BY <1>6
<1> HIDE DEF place, places
<1>13. Cardinality(places) >= Cardinality(single) BY <1>10, <1>11
<1> QED BY <1>4, <1>5, <1>12, <1>13 DEF places, flat

-----------------------------------------------------------------------------
(* What is kept of a list. *)

LEMMA KeptIsList ==
    ASSUME NEW list, IsList(list), NEW positions
    PROVE  IsList(Kept(list, positions))
<1> DEFINE chosen == [n \in DOMAIN list |-> IF n \in positions THEN <<list[n]>> ELSE <<>>]
<1>1. PICK k \in Nat : DOMAIN list = 1 .. k
    <2>1. Len(list) \in Nat /\ DOMAIN list = 1 .. Len(list) BY DEF IsList
    <2> QED BY <2>1
<1>2. Kept(list, positions) = FlattenSeq(chosen) BY DEF Kept
<1>3. \A n \in 1 .. k : chosen[n] = <<list[n]>> \/ chosen[n] = <<>> BY <1>1
<1>4. chosen = [n \in 1 .. k |-> chosen[n]] BY <1>1
<1> HIDE DEF chosen
<1>5. \A n \in 1 .. k : IsList(chosen[n])
    <2> SUFFICES ASSUME NEW n \in 1 .. k PROVE IsList(chosen[n]) OBVIOUS
    <2>1. IsList(<<>>) /\ IsList(<<list[n]>>) BY OneAndNone
    <2> QED BY <1>3, <2>1
<1>6. IsList(FlattenSeq(chosen)) BY <1>4, <1>5, FlatPrefixes
<1> QED BY <1>2, <1>6

LEMMA UpToIsList ==
    ASSUME NEW n \in Nat, NEW list, IsList(list)
    PROVE  IsList(UpTo(n, list))
<1> DEFINE m == IF Len(list) < n THEN Len(list) ELSE n
           X == Range(list)
<1>1. list \in Seq(X) BY DEF IsList
<1>2. m \in 0 .. Len(list) /\ Len(list) \in Nat BY <1>1
<1> HIDE DEF m, X
<1>3. SubSeq(list, 1, m) \in Seq(X)
    <2>1. \A i \in 1 .. m : list[i] \in X BY <1>1, <1>2
    <2> QED BY <1>1, <1>2, <2>1
<1> QED BY <1>3, ListOver DEF UpTo, m

LEMMA ConcatIsList ==
    ASSUME NEW s, NEW t, IsList(s), IsList(t)
    PROVE  IsList(s \o t)
<1> DEFINE X == Range(s) \cup Range(t)
<1>1. Range(s) \subseteq X /\ Range(t) \subseteq X OBVIOUS
<1> HIDE DEF X
<1>2. s \in Seq(X) /\ t \in Seq(X) BY <1>1 DEF IsList
<1>3. s \o t \in Seq(X) BY <1>2
<1> QED BY <1>3, ListOver

LEMMA DialogueIsList ==
    ASSUME NEW l, NEW e, IsList(l.says)
    PROVE  IsList(Dialogue(l, e))
<1>1. \A g : IsList(Found(l, g)) BY KeptIsList DEF Found
<1>2. \A positions : IsList(Kept(l.says, positions)) BY KeptIsList
<1>3. IsList(OwnFacts(l)) BY <1>1, KeptIsList DEF OwnFacts
<1>4. IsList(RelatedFacts(l)) /\ IsList(NamedFacts(l)) /\ IsList(EventSummary(l))
    BY <1>1, UpToIsList DEF RelatedFacts, NamedFacts, EventSummary
<1>5. IsList(EventTime(l)) BY <1>2 DEF EventTime
<1>6. IsList(EventFacts(l))
    <2> DEFINE all == Found(l, "event") \o EventSummary(l) \o Found(l, "identity") \o EventTime(l)
    <2>1. IsList(Found(l, "event") \o EventSummary(l)) BY <1>1, <1>4, ConcatIsList
    <2>2. IsList(Found(l, "event") \o EventSummary(l) \o Found(l, "identity"))
        BY <1>1, <2>1, ConcatIsList
    <2>3. IsList(all) BY <1>5, <2>2, ConcatIsList
    <2> HIDE DEF all
    <2>4. \A positions : IsList(UpTo(6, Kept(all, positions))) BY <2>3, KeptIsList, UpToIsList
    <2> QED BY <2>4 DEF EventFacts, all
<1>7. IsList(DialogueFacts(l))
    <2> DEFINE kin == UpTo(1, Kept(l.says, OfGroup(l, "kin")))
    <2>0. IsList(kin) BY <1>2, UpToIsList
    <2> HIDE DEF kin
    <2>1. IsList(OwnFacts(l) \o kin) BY <1>3, <2>0, ConcatIsList
    <2>2. IsList(OwnFacts(l) \o kin \o RelatedFacts(l)) BY <1>4, <2>1, ConcatIsList
    <2>3. IsList(OwnFacts(l) \o kin \o RelatedFacts(l) \o NamedFacts(l)) BY <1>4, <2>2, ConcatIsList
    <2>4. IsList(OwnFacts(l) \o kin \o RelatedFacts(l) \o NamedFacts(l) \o EventFacts(l))
        BY <1>6, <2>3, ConcatIsList
    <2> QED BY <2>4, UpToIsList DEF DialogueFacts, kin
<1> DEFINE facts == DialogueFacts(l)
           candidates == [n \in DOMAIN facts |->
                 Fact(e, facts[n].type, facts[n].subject, facts[n].relation, {facts[n].object}, FALSE)]
<1>8. IsList(candidates)
    <2>1. DOMAIN facts = 1 .. Len(facts) /\ Len(facts) \in Nat BY <1>7 DEF IsList
    <2>2. candidates \in [1 .. Len(facts) -> Range(candidates)] BY <2>1 DEF Range
    <2> HIDE DEF candidates
    <2>3. candidates \in Seq(Range(candidates)) BY <2>1, <2>2
    <2> QED BY <2>3 DEF IsList
<1>9. Dialogue(l, e) = <<Ignored>> \/ Dialogue(l, e) = candidates BY DEF Dialogue
<1> HIDE DEF candidates
<1> QED BY <1>8, <1>9, OneAndNone

-----------------------------------------------------------------------------
(* What a line yields. *)

\* What each extractor that goes by rules makes of a line.
Chunk(l, e) ==
    IF extractor = "noisy" THEN NoisyChunk(l, e)
    ELSE IF extractor = "recruiting" THEN RecruitingChunk(l, e) ELSE PlainLine(l, e)

LEMMA TablesAreLists ==
    ASSUME NEW l, NEW e
    PROVE  /\ IsList(Sensitive(l, e)) /\ IsList(NoisyPreference(l, e)) /\ IsList(NoisyFact(l, e))
           /\ \A name, table : IsList(AboutNamed(l, e, name, table))
BY OneAndNone DEF Sensitive, NoisyPreference, NoisyFact, AboutNamed, Rules

LEMMA NoisyLineIsEither ==
    ASSUME NEW l, NEW e
    PROVE  /\ NoisyLine(l, e) =
                 Either(PolicyRequest(l), Either(Hedged(l), Either(ProjectSwitch(l, e),
                     Either(Sensitive(l, e), Either(NoisyPreference(l, e), NoisyFact(l, e))))))
           /\ IsList(NoisyLine(l, e))
<1>1. NoisyLine(l, e) =
          Either(PolicyRequest(l), Either(Hedged(l), Either(ProjectSwitch(l, e),
              Either(Sensitive(l, e), Either(NoisyPreference(l, e), NoisyFact(l, e))))))
    BY CascadeOfSix DEF NoisyLine
<1>2. IsList(Hedged(l)) BY WhenIsList DEF Hedged
<1>3. IsList(Either(NoisyPreference(l, e), NoisyFact(l, e))) BY TablesAreLists, EitherIsList
<1>4. IsList(Either(Sensitive(l, e), Either(NoisyPreference(l, e), NoisyFact(l, e))))
    BY <1>3, TablesAreLists, EitherIsList
<1>5. IsList(Either(ProjectSwitch(l, e),
              Either(Sensitive(l, e), Either(NoisyPreference(l, e), NoisyFact(l, e)))))
    BY <1>4, ProjectSwitchIsList, EitherIsList
<1>6. IsList(Either(Hedged(l), Either(ProjectSwitch(l, e),
              Either(Sensitive(l, e), Either(NoisyPreference(l, e), NoisyFact(l, e))))))
    BY <1>2, <1>5, EitherIsList
<1> QED BY <1>1, <1>6, PolicyRequestIsList, EitherIsList

LEMMA RecruitingLineIsEither ==
    ASSUME NEW l, NEW e
    PROVE  LET line == Cascade(<<RecruitingConstraint(l), RecruitingFact(l, e), NoisyLine(l, e)>>) IN
           /\ line = Either(RecruitingConstraint(l), Either(RecruitingFact(l, e), NoisyLine(l, e)))
           /\ IsList(line) /\ IsList(RecruitingConstraint(l)) /\ IsList(RecruitingFact(l, e))
<1> DEFINE line == Cascade(<<RecruitingConstraint(l), RecruitingFact(l, e), NoisyLine(l, e)>>)
<1>1. line = Either(RecruitingConstraint(l), Either(RecruitingFact(l, e), NoisyLine(l, e)))
    BY CascadeOfThree
<1> HIDE DEF line
<1>2. IsList(RecruitingConstraint(l))
    <2> DEFINE employer == IF l.client # "" THEN l.client ELSE IF l.company # "" THEN l.company ELSE l.named
               a == When("do not contact" \in l.cues /\ l.candidate # "", Constraint("do_not_use", l.candidate, ""))
               b == When(l.cues \cap {"confidential", "do not share"} # {} /\ employer # "",
                         Constraint("do_not_use", employer, ""))
    <2>1. RecruitingConstraint(l) = Cascade(<<a, b>>) BY DEF RecruitingConstraint
    <2>2. IsList(a) /\ IsList(b) BY WhenIsList
    <2> HIDE DEF a, b
    <2> QED BY <2>1, <2>2, CascadeOfTwo, EitherIsList
<1>3. IsList(RecruitingFact(l, e))
    <2> DEFINE a == AboutNamed(l, e, l.candidate, CandidateTable)
               b == AboutNamed(l, e, l.client, ClientTable)
               c == AboutNamed(l, e, l.role, RoleTable)
    <2>1. RecruitingFact(l, e) = Cascade(<<a, b, c>>) BY DEF RecruitingFact
    <2>2. IsList(a) /\ IsList(b) /\ IsList(c) BY TablesAreLists
    <2> HIDE DEF a, b, c
    <2>3. IsList(Either(a, Either(b, c))) BY <2>2, EitherIsList
    <2> QED BY <2>1, <2>3, CascadeOfThree
<1>4. IsList(line) BY <1>1, <1>2, <1>3, NoisyLineIsEither, EitherIsList
<1> QED BY <1>1, <1>2, <1>3, <1>4 DEF line

LEMMA NoisyOrderIsEither ==
    ASSUME NEW l, NEW e, NEW line, IsList(line)
    PROVE  /\ NoisyOrder(l, e, line) =
                 Either(PolicyRequest(l), Either(Structured(l, e), Either(line, Natural(l, e))))
           /\ IsList(NoisyOrder(l, e, line))
<1>1. NoisyOrder(l, e, line) =
          Either(PolicyRequest(l), Either(Structured(l, e), Either(line, Natural(l, e))))
    BY CascadeOfFour DEF NoisyOrder
<1>2. IsList(Either(line, Natural(l, e))) BY NaturalIsEither, EitherIsList
<1>3. IsList(Either(Structured(l, e), Either(line, Natural(l, e)))) BY <1>2, StructuredIsList, EitherIsList
<1> QED BY <1>1, <1>3, PolicyRequestIsList, EitherIsList

LEMMA PlainLineIsEither ==
    ASSUME NEW l, NEW e
    PROVE  /\ PlainLine(l, e) = Either(Structured(l, e), Natural(l, e))
           /\ IsList(PlainLine(l, e))
BY CascadeOfTwo, StructuredIsList, NaturalIsEither, EitherIsList DEF PlainLine

LEMMA ChunkIsList == ASSUME NEW l, NEW e PROVE IsList(Chunk(l, e))
<1>1. IsList(NoisyChunk(l, e)) BY NoisyLineIsEither, NoisyOrderIsEither DEF NoisyChunk
<1>2. IsList(RecruitingChunk(l, e)) BY RecruitingLineIsEither, NoisyOrderIsEither DEF RecruitingChunk
<1> QED BY <1>1, <1>2, PlainLineIsEither DEF Chunk

\* A request in prose is all that is made of its line.
LEMMA RequestIsHeard ==
    ASSUME NEW l, NEW e, l.form = "prose", l.cues \cap Hears # {}, l.tail # ""
    PROVE  \E c : /\ Chunk(l, e) = <<c>> /\ c.type = "constraint"
                  /\ extractor \notin {"noisy", "recruiting"} => c.action # "ignore"
<1>1. CASE extractor \in {"noisy", "recruiting"}
    <2>1. l.cues \cap PolicyCues # {} BY <1>1 DEF Hears
    <2> DEFINE term == PolicyTerm(l)
               action == IF l.cues \cap DoNotUseCues # {} THEN "do_not_use" ELSE "delete"
               c == IF term = "" /\ l.reference = "" THEN Constraint("ignore", "", "ambiguous")
                    ELSE Constraint(action, term, l.reference)
    <2>2. PolicyRequest(l) = <<c>> BY <2>1 DEF PolicyRequest, When
    <2>3. c.type = "constraint" BY DEF Constraint, Candidate
    <2> HIDE DEF c
    <2>4. ASSUME NEW line, IsList(line) PROVE NoisyOrder(l, e, line) = <<c>>
        <3>1. <<c>> # <<>> OBVIOUS
        <3>2. NoisyOrder(l, e, line) =
                  Either(PolicyRequest(l), Either(Structured(l, e), Either(line, Natural(l, e))))
            BY <2>4, NoisyOrderIsEither
        <3> QED BY <2>2, <3>1, <3>2 DEF Either
    <2>5. Chunk(l, e) = <<c>>
        BY <1>1, <2>4, NoisyLineIsEither, RecruitingLineIsEither DEF Chunk, NoisyChunk, RecruitingChunk
    <2> QED BY <1>1, <2>3, <2>5
<1>2. CASE extractor \notin {"noisy", "recruiting"}
    <2>1. l.cues \cap PlainPolicyCues # {} BY <1>2 DEF Hears
    <2> DEFINE c == Constraint(IF "do not use" \in l.cues THEN "do_not_use" ELSE "delete", l.tail, "")
    <2>2. NaturalPolicy(l) = <<c>> BY <2>1 DEF NaturalPolicy, When
    <2>3. c.type = "constraint" /\ c.action # "ignore" BY DEF Constraint, Candidate
    <2> HIDE DEF c
    <2>4. Natural(l, e) = <<c>> BY <2>2, NaturalIsEither, OneAndNone DEF Either
    <2>5. Structured(l, e) = <<>> BY ProseIsNotStructured
    <2>6. PlainLine(l, e) = <<c>> BY <2>4, <2>5, PlainLineIsEither DEF Either
    <2>7. Chunk(l, e) = <<c>> BY <1>2, <2>6 DEF Chunk
    <2> QED BY <2>3, <2>7
<1> QED BY <1>1, <1>2

-----------------------------------------------------------------------------
(* What lines store. *)

\* The values that rules file facts under are no sensitive words.
LEMMA PreferenceValues ==
    /\ DOMAIN PreferenceTable = 1 .. 14
    /\ \A n \in 1 .. 14 : PreferenceTable[n].value \notin SensitiveCues
<1> DEFINE table == PreferenceTable
<1>1. DOMAIN table = 1 .. 14 BY DEF PreferenceTable
<1>2. /\ table[1].value \notin SensitiveCues /\ table[2].value \notin SensitiveCues
      /\ table[3].value \notin SensitiveCues /\ table[4].value \notin SensitiveCues
      /\ table[5].value \notin SensitiveCues /\ table[6].value \notin SensitiveCues
      /\ table[7].value \notin SensitiveCues /\ table[8].value \notin SensitiveCues
      /\ table[9].value \notin SensitiveCues /\ table[10].value \notin SensitiveCues
      /\ table[11].value \notin SensitiveCues /\ table[12].value \notin SensitiveCues
      /\ table[13].value \notin SensitiveCues /\ table[14].value \notin SensitiveCues
    BY DEF PreferenceTable, SensitiveCues
<1>3. \A n \in 1 .. 14 : n = 1 \/ n = 2 \/ n = 3 \/ n = 4 \/ n = 5 \/ n = 6 \/ n = 7 \/ n = 8 \/ n = 9 \/ n = 10 \/ n = 11 \/ n = 12 \/ n = 13 \/ n = 14 OBVIOUS
<1> HIDE DEF table
<1>4. \A n \in 1 .. 14 : table[n].value \notin SensitiveCues BY <1>2, <1>3, Zenon
<1> QED BY <1>1, <1>4 DEF table

LEMMA NoisyFactValues ==
    ASSUME NEW l
    PROVE  /\ DOMAIN NoisyFactTable(l) = 1 .. 11
           /\ \A n \in 1 .. 11 : NoisyFactTable(l)[n].value \notin SensitiveCues
<1> DEFINE table == NoisyFactTable(l)
<1>1. DOMAIN table = 1 .. 11 BY DEF NoisyFactTable
<1>2. /\ table[1].value \notin SensitiveCues /\ table[2].value \notin SensitiveCues
      /\ table[3].value \notin SensitiveCues /\ table[4].value \notin SensitiveCues
      /\ table[5].value \notin SensitiveCues /\ table[6].value \notin SensitiveCues
      /\ table[7].value \notin SensitiveCues /\ table[8].value \notin SensitiveCues
      /\ table[9].value \notin SensitiveCues /\ table[10].value \notin SensitiveCues
      /\ table[11].value \notin SensitiveCues
    BY DEF NoisyFactTable, SensitiveCues
<1>3. \A n \in 1 .. 11 : n = 1 \/ n = 2 \/ n = 3 \/ n = 4 \/ n = 5 \/ n = 6 \/ n = 7 \/ n = 8 \/ n = 9 \/ n = 10 \/ n = 11 OBVIOUS
<1> HIDE DEF table
<1>4. \A n \in 1 .. 11 : table[n].value \notin SensitiveCues BY <1>2, <1>3, Zenon
<1> QED BY <1>1, <1>4 DEF table

LEMMA CandidateValues ==
    /\ DOMAIN CandidateTable = 1 .. 11
    /\ \A n \in 1 .. 11 : CandidateTable[n].value \notin SensitiveCues
<1> DEFINE table == CandidateTable
<1>1. DOMAIN table = 1 .. 11 BY DEF CandidateTable
<1>2. /\ table[1].value \notin SensitiveCues /\ table[2].value \notin SensitiveCues
      /\ table[3].value \notin SensitiveCues /\ table[4].value \notin SensitiveCues
      /\ table[5].value \notin SensitiveCues /\ table[6].value \notin SensitiveCues
      /\ table[7].value \notin SensitiveCues /\ table[8].value \notin SensitiveCues
      /\ table[9].value \notin SensitiveCues /\ table[10].value \notin SensitiveCues
      /\ table[11].value \notin SensitiveCues
    BY DEF CandidateTable, SensitiveCues
<1>3. \A n \in 1 .. 11 : n = 1 \/ n = 2 \/ n = 3 \/ n = 4 \/ n = 5 \/ n = 6 \/ n = 7 \/ n = 8 \/ n = 9 \/ n = 10 \/ n = 11 OBVIOUS
<1> HIDE DEF table
<1>4. \A n \in 1 .. 11 : table[n].value \notin SensitiveCues BY <1>2, <1>3, Zenon
<1> QED BY <1>1, <1>4 DEF table

LEMMA ClientValues ==
    /\ DOMAIN ClientTable = 1 .. 5
    /\ \A n \in 1 .. 5 : ClientTable[n].value \notin SensitiveCues
<1> DEFINE table == ClientTable
<1>1. DOMAIN table = 1 .. 5 BY DEF ClientTable
<1>2. /\ table[1].value \notin SensitiveCues /\ table[2].value \notin SensitiveCues
      /\ table[3].value \notin SensitiveCues /\ table[4].value \notin SensitiveCues
      /\ table[5].value \notin SensitiveCues
    BY DEF ClientTable, SensitiveCues
<1>3. \A n \in 1 .. 5 : n = 1 \/ n = 2 \/ n = 3 \/ n = 4 \/ n = 5 OBVIOUS
<1> HIDE DEF table
<1>4. \A n \in 1 .. 5 : table[n].value \notin SensitiveCues BY <1>2, <1>3, Zenon
<1> QED BY <1>1, <1>4 DEF table

LEMMA RoleValues ==
    /\ DOMAIN RoleTable = 1 .. 3
    /\ \A n \in 1 .. 3 : RoleTable[n].value \notin SensitiveCues
<1> DEFINE table == RoleTable
<1>1. DOMAIN table = 1 .. 3 BY DEF RoleTable
<1>2. /\ table[1].value \notin SensitiveCues /\ table[2].value \notin SensitiveCues
      /\ table[3].value \notin SensitiveCues
    BY DEF RoleTable, SensitiveCues
<1>3. \A n \in 1 .. 3 : n = 1 \/ n = 2 \/ n = 3 OBVIOUS
<1> HIDE DEF table
<1>4. \A n \in 1 .. 3 : table[n].value \notin SensitiveCues BY <1>2, <1>3, Zenon
<1> QED BY <1>1, <1>4 DEF table

LEMMA FirstFitting ==
    ASSUME NEW table, NEW k \in Nat, DOMAIN table = 1 .. k, NEW cues
    PROVE  LET fitting == {n \in DOMAIN table : Fits(table[n], cues)}
           IN  fitting # {} => Min(fitting) \in 1 .. k
<1> DEFINE fitting == {n \in DOMAIN table : Fits(table[n], cues)}
<1>1. fitting \in SUBSET Nat /\ fitting \subseteq 1 .. k OBVIOUS
<1> HIDE DEF fitting
<1>2. fitting # {} => Min(fitting) \in 1 .. k BY <1>1, MinIsLeast
<1> QED BY <1>2 DEF fitting

\* Nothing sensitive is stored.
Harmless(c) == c.action = "store" => c.object \cap SensitiveCues = {}
AllHarmless(list) == \A n \in DOMAIN list : Harmless(list[n])

LEMMA CleanLists ==
    /\ AllHarmless(<<>>)
    /\ \A c : Harmless(c) => AllHarmless(<<c>>)
    /\ \A condition, c : Harmless(c) => AllHarmless(When(condition, c))
    /\ \A a, b : AllHarmless(a) /\ AllHarmless(b) => AllHarmless(Either(a, b))
BY DEF AllHarmless, When, Either

LEMMA HarmlessCandidates ==
    /\ Harmless(Ignored)
    /\ \A action, term, reference : Harmless(Constraint(action, term, reference))
    /\ \A e, type, subject, relation, value, sensitive :
          value \notin SensitiveCues \/ (sensitive /\ e.consent # "explicit")
             => Harmless(Fact(e, type, subject, relation, {value}, sensitive))
BY DEF Harmless, Ignored, Constraint, Fact, Candidate

LEMMA PolicyIsClean ==
    ASSUME NEW l
    PROVE  /\ AllHarmless(PolicyRequest(l)) /\ AllHarmless(NaturalPolicy(l))
           /\ AllHarmless(Hedged(l)) /\ AllHarmless(RecruitingConstraint(l))
<1> DEFINE term == PolicyTerm(l)
           action == IF l.cues \cap DoNotUseCues # {} THEN "do_not_use" ELSE "delete"
           c == IF term = "" /\ l.reference = "" THEN Constraint("ignore", "", "ambiguous")
                ELSE Constraint(action, term, l.reference)
<1>1. AllHarmless(PolicyRequest(l))
    <2>1. Harmless(c) BY HarmlessCandidates
    <2>2. PolicyRequest(l) = When(l.cues \cap PolicyCues # {}, c) BY DEF PolicyRequest
    <2> HIDE DEF c
    <2> QED BY <2>1, <2>2, CleanLists
<1>2. AllHarmless(NaturalPolicy(l)) BY HarmlessCandidates, CleanLists DEF NaturalPolicy
<1>3. AllHarmless(Hedged(l)) BY HarmlessCandidates, CleanLists DEF Hedged
<1>4. AllHarmless(RecruitingConstraint(l))
    <2> DEFINE employer == IF l.client # "" THEN l.client ELSE IF l.company # "" THEN l.company ELSE l.named
               a == When("do not contact" \in l.cues /\ l.candidate # "", Constraint("do_not_use", l.candidate, ""))
               b == When(l.cues \cap {"confidential", "do not share"} # {} /\ employer # "",
                         Constraint("do_not_use", employer, ""))
    <2>1. RecruitingConstraint(l) = Cascade(<<a, b>>) BY DEF RecruitingConstraint
    <2>2. AllHarmless(a) /\ AllHarmless(b) BY HarmlessCandidates, CleanLists
    <2> HIDE DEF a, b
    <2> QED BY <2>1, <2>2, CascadeOfTwo, CleanLists
<1> QED BY <1>1, <1>2, <1>3, <1>4

LEMMA TablesAreClean ==
    ASSUME NEW l, NEW e, e.consent # "explicit"
    PROVE  /\ AllHarmless(Sensitive(l, e)) /\ AllHarmless(NoisyPreference(l, e)) /\ AllHarmless(NoisyFact(l, e))
           /\ \A name : /\ AllHarmless(AboutNamed(l, e, name, CandidateTable))
                        /\ AllHarmless(AboutNamed(l, e, name, ClientTable))
                        /\ AllHarmless(AboutNamed(l, e, name, RoleTable))
<1>1. AllHarmless(Sensitive(l, e))
    <2> DEFINE fitting == {n \in DOMAIN SensitiveTable : Fits(SensitiveTable[n], l.cues)}
               r == SensitiveTable[Min(fitting)]
    <2>1. Harmless(Fact(e, "semantic_fact", User, r.slot, {r.value}, TRUE)) BY HarmlessCandidates
    <2>2. \/ Sensitive(l, e) = <<>>
          \/ Sensitive(l, e) = <<Fact(e, "semantic_fact", User, r.slot, {r.value}, TRUE)>>
        BY DEF Sensitive, Rules
    <2> HIDE DEF r
    <2> QED BY <2>1, <2>2, CleanLists
<1>2. AllHarmless(NoisyPreference(l, e))
    <2> DEFINE fitting == {n \in DOMAIN PreferenceTable : Fits(PreferenceTable[n], l.cues)}
               r == PreferenceTable[Min(fitting)]
    <2>1. fitting # {} => Harmless(Fact(e, "preference", User, r.slot, {r.value}, FALSE))
        BY HarmlessCandidates, PreferenceValues, FirstFitting
    <2>2. \/ AllHarmless(NoisyPreference(l, e)) \/ fitting # {} BY CleanLists DEF NoisyPreference, Rules
    <2>3. fitting # {} =>
              NoisyPreference(l, e) = <<Fact(e, "preference", User, r.slot, {r.value}, FALSE)>>
        BY DEF NoisyPreference, Rules, Preference
    <2> HIDE DEF r, fitting
    <2> QED BY <2>1, <2>2, <2>3, CleanLists
<1>3. AllHarmless(NoisyFact(l, e))
    <2> DEFINE fitting == {n \in DOMAIN NoisyFactTable(l) : Fits(NoisyFactTable(l)[n], l.cues)}
               r == NoisyFactTable(l)[Min(fitting)]
    <2>1. fitting # {} => Harmless(Fact(e, "semantic_fact", r.about, r.slot, {r.value}, FALSE))
        BY HarmlessCandidates, NoisyFactValues, FirstFitting
    <2>2. \/ AllHarmless(NoisyFact(l, e)) \/ fitting # {} BY CleanLists DEF NoisyFact, Rules
    <2>3. fitting # {} =>
              NoisyFact(l, e) = <<Fact(e, "semantic_fact", r.about, r.slot, {r.value}, FALSE)>>
        BY DEF NoisyFact, Rules, Semantic
    <2> HIDE DEF r, fitting
    <2> QED BY <2>1, <2>2, <2>3, CleanLists
<1>4. ASSUME NEW name, NEW table, NEW k \in Nat, DOMAIN table = 1 .. k,
             \A n \in 1 .. k : table[n].value \notin SensitiveCues
      PROVE  AllHarmless(AboutNamed(l, e, name, table))
    <2> DEFINE fitting == {n \in DOMAIN table : Fits(table[n], l.cues)}
               r == table[Min(fitting)]
               f == Fact(e, "semantic_fact", name, r.slot, {r.value}, r.slot = "sensitive_note")
    <2>1. fitting # {} => Harmless(f) BY <1>4, HarmlessCandidates, FirstFitting
    <2>2. \/ AboutNamed(l, e, name, table) = <<>>
          \/ fitting # {} /\ AboutNamed(l, e, name, table) = <<f>>
        BY DEF AboutNamed, Rules
    <2> HIDE DEF f, fitting
    <2> QED BY <2>1, <2>2, CleanLists
<1>5. 3 \in Nat /\ 5 \in Nat /\ 11 \in Nat OBVIOUS
<1>6. \A name : /\ AllHarmless(AboutNamed(l, e, name, CandidateTable))
                /\ AllHarmless(AboutNamed(l, e, name, ClientTable))
                /\ AllHarmless(AboutNamed(l, e, name, RoleTable))
    BY <1>4, <1>5, CandidateValues, ClientValues, RoleValues
<1> QED BY <1>1, <1>2, <1>3, <1>6

\* A line with a sensitive word is one for the table of sensitive words.
LEMMA SensitiveIsFound ==
    ASSUME NEW l, NEW e, l.cues \cap SensitiveCues # {}
    PROVE  Sensitive(l, e) # <<>>
<1> DEFINE fitting == {n \in DOMAIN SensitiveTable : Fits(SensitiveTable[n], l.cues)}
<1>1. {} \in SensitiveTable[5].when BY DEF SensitiveTable
<1>2. 5 \in fitting
    <2>1. 5 \in DOMAIN SensitiveTable BY DEF SensitiveTable
    <2> QED BY <1>1, <2>1 DEF Fits
<1>3. \E c : Sensitive(l, e) = <<c>> BY <1>2 DEF Sensitive, Rules
<1> QED BY <1>3, OneAndNone

LEMMA NoisyLineIsClean ==
    ASSUME NEW l, NEW e, e.consent # "explicit"
    PROVE  /\ AllHarmless(NoisyLine(l, e))
           /\ l.cues \cap SensitiveCues # {} => NoisyLine(l, e) # <<>>
<1>1. AllHarmless(ProjectSwitch(l, e)) BY ProjectSwitchIsList DEF AllHarmless, Harmless
<1>2. AllHarmless(Either(NoisyPreference(l, e), NoisyFact(l, e))) BY TablesAreClean, CleanLists
<1>3. AllHarmless(Either(Sensitive(l, e), Either(NoisyPreference(l, e), NoisyFact(l, e))))
    BY <1>2, TablesAreClean, CleanLists
<1>4. AllHarmless(Either(ProjectSwitch(l, e),
              Either(Sensitive(l, e), Either(NoisyPreference(l, e), NoisyFact(l, e)))))
    BY <1>1, <1>3, CleanLists
<1>5. AllHarmless(Either(Hedged(l), Either(ProjectSwitch(l, e),
              Either(Sensitive(l, e), Either(NoisyPreference(l, e), NoisyFact(l, e))))))
    BY <1>4, PolicyIsClean, CleanLists
<1>6. AllHarmless(NoisyLine(l, e)) BY <1>5, PolicyIsClean, NoisyLineIsEither, CleanLists
<1>7. l.cues \cap SensitiveCues # {} => NoisyLine(l, e) # <<>>
    BY SensitiveIsFound, NoisyLineIsEither DEF Either
<1> QED BY <1>6, <1>7

\* Only a line that holds no sensitive word gets as far as the speaker's own words.
LEMMA OrderIsClean ==
    ASSUME NEW l, NEW e, NEW line, IsList(line), AllHarmless(line), l.form = "prose",
           l.cues \cap SensitiveCues # {} => line # <<>>,
           l.object \cap SensitiveCues \subseteq l.cues
    PROVE  AllHarmless(NoisyOrder(l, e, line))
<1>1. Structured(l, e) = <<>> BY ProseIsNotStructured
<1>2. AllHarmless(Either(line, Natural(l, e)))
    <2>1. CASE line # <<>> BY <2>1 DEF Either
    <2>2. CASE line = <<>>
        <3>1. l.object \cap SensitiveCues = {} BY <2>2
        <3>2. Harmless(Preference(e, "preference", l.object))
            BY <3>1 DEF Harmless, Preference, Fact, Candidate
        <3>3. AllHarmless(NaturalPreference(l, e)) BY <3>2, CleanLists DEF NaturalPreference
        <3>4. AllHarmless(Natural(l, e)) BY <3>3, PolicyIsClean, NaturalIsEither, CleanLists
        <3> QED BY <3>4, CleanLists
    <2> QED BY <2>1, <2>2
<1>3. AllHarmless(Either(Structured(l, e), Either(line, Natural(l, e)))) BY <1>2, <1>1 DEF Either
<1> QED BY <1>3, PolicyIsClean, NoisyOrderIsEither, CleanLists

LEMMA ChunkIsClean ==
    ASSUME NEW l, NEW e, e.consent # "explicit", l.form = "prose",
           l.object \cap SensitiveCues \subseteq l.cues,
           extractor \in {"noisy", "recruiting"}
    PROVE  AllHarmless(Chunk(l, e))
<1>1. CASE extractor = "noisy"
    <2>1. AllHarmless(NoisyChunk(l, e)) BY NoisyLineIsClean, NoisyLineIsEither, OrderIsClean DEF NoisyChunk
    <2> QED BY <1>1, <2>1 DEF Chunk
<1>2. CASE extractor = "recruiting"
    <2> DEFINE line == Cascade(<<RecruitingConstraint(l), RecruitingFact(l, e), NoisyLine(l, e)>>)
    <2>1. /\ line = Either(RecruitingConstraint(l), Either(RecruitingFact(l, e), NoisyLine(l, e)))
          /\ IsList(line)
        BY RecruitingLineIsEither
    <2>2. RecruitingChunk(l, e) = NoisyOrder(l, e, line) BY DEF RecruitingChunk
    <2> HIDE DEF line
    <2>3. AllHarmless(RecruitingFact(l, e))
        <3> DEFINE a == AboutNamed(l, e, l.candidate, CandidateTable)
                   b == AboutNamed(l, e, l.client, ClientTable)
                   c == AboutNamed(l, e, l.role, RoleTable)
        <3>1. RecruitingFact(l, e) = Cascade(<<a, b, c>>) BY DEF RecruitingFact
        <3>2. AllHarmless(a) /\ AllHarmless(b) /\ AllHarmless(c) BY TablesAreClean
        <3> HIDE DEF a, b, c
        <3>3. AllHarmless(Either(a, Either(b, c))) BY <3>2, CleanLists
        <3> QED BY <3>1, <3>3, CascadeOfThree
    <2>4. AllHarmless(Either(RecruitingFact(l, e), NoisyLine(l, e))) BY <2>3, NoisyLineIsClean, CleanLists
    <2>5. AllHarmless(line) BY <2>1, <2>4, PolicyIsClean, CleanLists
    <2>6. l.cues \cap SensitiveCues # {} => line # <<>> BY <2>1, NoisyLineIsClean DEF Either
    <2>7. AllHarmless(NoisyOrder(l, e, line)) BY <2>1, <2>5, <2>6, OrderIsClean
    <2> QED BY <1>1, <1>2, <2>2, <2>7 DEF Chunk
<1> QED BY <1>1, <1>2

\* A hedged line of prose stores nothing, in the noisy extractor.
LEMMA HedgedStoresNothing ==
    ASSUME NEW l, NEW e, extractor = "noisy", l.form = "prose", "hedge" \in l.cues
    PROVE  \A n \in DOMAIN Chunk(l, e) : Chunk(l, e)[n].action # "store"
<1> DEFINE term == PolicyTerm(l)
           action == IF l.cues \cap DoNotUseCues # {} THEN "do_not_use" ELSE "delete"
           c == IF term = "" /\ l.reference = "" THEN Constraint("ignore", "", "ambiguous")
                ELSE Constraint(action, term, l.reference)
<1>1. c.action # "store" /\ Ignored.action # "store" BY DEF Constraint, Candidate, Ignored
<1>2. PolicyRequest(l) = When(l.cues \cap PolicyCues # {}, c) BY DEF PolicyRequest
<1>3. Hedged(l) = <<Ignored>> BY DEF Hedged, When
<1>4. Chunk(l, e) = Either(PolicyRequest(l), Either(Structured(l, e), Either(NoisyLine(l, e), Natural(l, e))))
    BY NoisyLineIsEither, NoisyOrderIsEither DEF Chunk, NoisyChunk
<1>5. Structured(l, e) = <<>> BY ProseIsNotStructured
<1> HIDE DEF c
<1>6. PolicyRequest(l) = <<>> \/ PolicyRequest(l) = <<c>> BY <1>2 DEF When
<1>7. <<c>> # <<>> /\ <<Ignored>> # <<>> OBVIOUS
<1>8. PolicyRequest(l) = <<>> => NoisyLine(l, e) = <<Ignored>>
    BY <1>3, <1>7, NoisyLineIsEither DEF Either
<1>9. Chunk(l, e) = <<c>> \/ Chunk(l, e) = <<Ignored>>
    BY <1>4, <1>5, <1>6, <1>7, <1>8 DEF Either
<1> QED BY <1>1, <1>9

-----------------------------------------------------------------------------
(* What an episode yields. *)

Chunks(e) == [n \in DOMAIN e.lines |-> Chunk(e.lines[n], e)]
Flat(e) == FlattenSeq(Chunks(e))
AllOf(e) == IF Flat(e) = <<>> THEN <<Ignored>> ELSE Flat(e)

\* The lines of prose that ask for something, and what the candidates ask for.
Asking(e) ==
    {n \in DOMAIN e.lines : /\ e.lines[n].form = "prose"
                            /\ e.lines[n].cues \cap Hears # {}
                            /\ e.lines[n].tail # ""}
Constraints(candidates) == {n \in DOMAIN candidates : candidates[n].type = "constraint"}

LEMMA EpisodeIsFlat ==
    ASSUME NEW e
    PROVE  /\ extractor \in {"deterministic", "generic"} => Deterministic(e) = AllOf(e)
           /\ extractor = "noisy" => Noisy(e) = AllOf(e)
           /\ extractor = "recruiting" => Recruiting(e) = AllOf(e)
<1>1. CASE extractor \in {"deterministic", "generic"}
    BY <1>1 DEF Deterministic, Episode, AllOf, Flat, Chunks, Chunk, PlainLine
<1>2. CASE extractor = "noisy"
    BY <1>2 DEF Noisy, Episode, AllOf, Flat, Chunks, Chunk, NoisyChunk
<1>3. CASE extractor = "recruiting"
    BY <1>3 DEF Recruiting, Episode, AllOf, Flat, Chunks, Chunk, RecruitingChunk
<1> QED BY <1>1, <1>2, <1>3

LEMMA ChunksOfLines ==
    ASSUME NEW e, e.lines \in Seq(Range(e.lines))
    PROVE  \E k \in Nat : /\ DOMAIN e.lines = 1 .. k
                          /\ Chunks(e) = [n \in 1 .. k |-> Chunks(e)[n]]
                          /\ \A n \in 1 .. k : Chunks(e)[n] = Chunk(e.lines[n], e) /\ IsList(Chunks(e)[n])
<1> DEFINE k == Len(e.lines)
<1>1. k \in Nat /\ DOMAIN e.lines = 1 .. k OBVIOUS
<1> HIDE DEF k
<1>2. \A n \in 1 .. k : Chunks(e)[n] = Chunk(e.lines[n], e) BY <1>1 DEF Chunks
<1>3. \A n \in 1 .. k : IsList(Chunks(e)[n]) BY <1>2, ChunkIsList
<1>4. Chunks(e) = [n \in 1 .. k |-> Chunks(e)[n]] BY <1>1, <1>2 DEF Chunks
<1> QED BY <1>1, <1>2, <1>3, <1>4

LEMMA ElementsOfFlat ==
    ASSUME NEW e, e.lines \in Seq(Range(e.lines))
    PROVE  \A p \in DOMAIN Flat(e) : \E n \in DOMAIN e.lines :
              \E m \in DOMAIN Chunks(e)[n] : Flat(e)[p] = Chunks(e)[n][m]
<1>1. PICK k \in Nat :
          /\ DOMAIN e.lines = 1 .. k
          /\ Chunks(e) = [n \in 1 .. k |-> Chunks(e)[n]]
          /\ \A n \in 1 .. k : IsList(Chunks(e)[n])
    BY ChunksOfLines
<1>2. FromLists(Chunks(e), k) BY <1>1, FlatElements
<1> QED BY <1>1, <1>2 DEF Flat, FromLists

LEMMA AllOfIsList ==
    ASSUME NEW e, e.lines \in Seq(Range(e.lines))
    PROVE  IsList(AllOf(e)) /\ IsFiniteSet(Constraints(AllOf(e)))
<1>1. PICK k \in Nat : /\ Chunks(e) = [n \in 1 .. k |-> Chunks(e)[n]]
                       /\ \A n \in 1 .. k : IsList(Chunks(e)[n])
    BY ChunksOfLines
<1>2. IsList(Flat(e)) BY <1>1, FlatPrefixes DEF Flat
<1>3. IsList(AllOf(e)) BY <1>2, OneAndNone DEF AllOf
<1>4. IsFiniteSet(DOMAIN AllOf(e)) BY <1>3, PositionsAreFinite DEF IsList
<1> QED BY <1>3, <1>4, FS_Subset DEF Constraints

LEMMA NothingAsked ==
    ASSUME NEW candidates, IsList(candidates)
    PROVE  Cardinality(Constraints(candidates)) >= Cardinality({})
<1>1. IsFiniteSet(DOMAIN candidates) BY PositionsAreFinite DEF IsList
<1>2. IsFiniteSet(Constraints(candidates)) BY <1>1, FS_Subset DEF Constraints
<1>3. Cardinality(Constraints(candidates)) \in Nat /\ Cardinality({}) = 0
    BY <1>2, FS_CardinalityType, FS_EmptySet
<1> QED BY <1>3

\* Each line that asks has a constraint of its own, and lines that all ask yield nothing else.
LEMMA AllAreHeard ==
    ASSUME NEW e, e.lines \in Seq(Range(e.lines))
    PROVE  /\ Cardinality(Constraints(AllOf(e))) >= Cardinality(Asking(e))
           /\ Asking(e) = DOMAIN e.lines /\ Asking(e) # {} => Constraints(AllOf(e)) = DOMAIN AllOf(e)
           /\ Asking(e) # {} /\ extractor \notin {"noisy", "recruiting"} =>
                  \E n \in DOMAIN AllOf(e) : AllOf(e)[n].action # "ignore"
<1>1. PICK k \in Nat :
          /\ DOMAIN e.lines = 1 .. k
          /\ Chunks(e) = [n \in 1 .. k |-> Chunks(e)[n]]
          /\ \A n \in 1 .. k : Chunks(e)[n] = Chunk(e.lines[n], e) /\ IsList(Chunks(e)[n])
    BY ChunksOfLines
<1> DEFINE lists == Chunks(e)
           single == Asking(e)
           C == {c \in UNION {Range(lists[n]) : n \in 1 .. k} :
                    /\ c.type = "constraint"
                    /\ extractor \notin {"noisy", "recruiting"} => c.action # "ignore"}
           places == {p \in DOMAIN Flat(e) : Flat(e)[p] \in C}
<1>2. single \in SUBSET (1 .. k) BY <1>1 DEF Asking
<1>3. ASSUME NEW n \in single PROVE \E c \in C : lists[n] = <<c>>
    <2>1. n \in 1 .. k BY <1>2
    <2>2. PICK c : /\ lists[n] = <<c>> /\ c.type = "constraint"
                   /\ extractor \notin {"noisy", "recruiting"} => c.action # "ignore"
        <3>1. lists[n] = Chunk(e.lines[n], e) BY <1>1, <2>1
        <3>2. LET l == e.lines[n] IN l.form = "prose" /\ l.cues \cap Hears # {} /\ l.tail # ""
            BY DEF Asking
        <3>3. \E c : /\ Chunk(e.lines[n], e) = <<c>> /\ c.type = "constraint"
                     /\ extractor \notin {"noisy", "recruiting"} => c.action # "ignore"
            BY <3>2, RequestIsHeard
        <3> HIDE DEF lists
        <3> QED BY <3>1, <3>3
    <2>3. c \in Range(lists[n]) BY <2>2, OneAndNone
    <2> QED BY <2>1, <2>2, <2>3
<1>4. \A c \in C : c.type = "constraint" /\ (extractor \notin {"noisy", "recruiting"} => c.action # "ignore")
    OBVIOUS
<1>9. lists = [n \in 1 .. k |-> lists[n]] /\ \A n \in 1 .. k : IsList(lists[n]) BY <1>1
<1>10. Flat(e) = FlattenSeq(lists) BY DEF Flat
<1> HIDE DEF C, single, lists
<1>11. LET flat == FlattenSeq(lists)
           there == {p \in DOMAIN flat : flat[p] \in C}
       IN  /\ IsFiniteSet(there) /\ IsFiniteSet(single)
           /\ Cardinality(there) >= Cardinality(single)
           /\ \A n \in single : \E p \in there : lists[n] = <<flat[p]>>
    BY <1>2, <1>3, <1>9, FlatCounts
<1>5. /\ IsFiniteSet(places) /\ IsFiniteSet(single)
      /\ Cardinality(places) >= Cardinality(single)
      /\ \A n \in single : \E p \in places : lists[n] = <<Flat(e)[p]>>
    BY <1>10, <1>11
<1>6. \A p \in DOMAIN Flat(e) : \E n \in 1 .. k : \E m \in DOMAIN lists[n] : Flat(e)[p] = lists[n][m]
    BY <1>1, ElementsOfFlat DEF lists
<1>7. CASE single = {}
    <2>1. Cardinality(Constraints(AllOf(e))) >= Cardinality({}) BY AllOfIsList, NothingAsked
    <2> QED BY <1>7, <2>1 DEF single
<1>8. CASE single # {}
    <2>1. PICK p \in places : TRUE BY <1>5, <1>8
    <2>2. Flat(e) # <<>> BY <2>1
    <2>3. AllOf(e) = Flat(e) BY <2>2 DEF AllOf
    <2>4. places \subseteq Constraints(AllOf(e)) BY <1>4, <2>3 DEF Constraints
    <2>5. Cardinality(places) <= Cardinality(Constraints(AllOf(e))) BY <2>4, AllOfIsList, FS_Subset
    <2>6. /\ Cardinality(places) \in Nat /\ Cardinality(Constraints(AllOf(e))) \in Nat
          /\ Cardinality(single) \in Nat
        BY <1>5, AllOfIsList, FS_CardinalityType
    <2> HIDE DEF places
    <2>7. Cardinality(Constraints(AllOf(e))) >= Cardinality(single) BY <1>5, <2>5, <2>6
    <2> USE DEF places
    <2>8. ASSUME single = 1 .. k, NEW q \in DOMAIN Flat(e) PROVE Flat(e)[q].type = "constraint"
        <3>1. PICK n \in 1 .. k : \E m \in DOMAIN lists[n] : Flat(e)[q] = lists[n][m] BY <1>6
        <3>2. PICK c \in C : lists[n] = <<c>> BY <1>3, <2>8
        <3>3. DOMAIN <<c>> = {1} /\ <<c>>[1] = c OBVIOUS
        <3>4. Flat(e)[q] = c BY <3>1, <3>2, <3>3
        <3> QED BY <1>4, <3>4
    <2>9. single = DOMAIN e.lines => Constraints(AllOf(e)) = DOMAIN AllOf(e)
        BY <1>1, <2>3, <2>8 DEF Constraints
    <2>10. p \in DOMAIN AllOf(e) /\ AllOf(e)[p] \in C BY <2>1, <2>3
    <2>11. extractor \notin {"noisy", "recruiting"} => AllOf(e)[p].action # "ignore" BY <1>4, <2>10
    <2> QED BY <2>7, <2>9, <2>10, <2>11 DEF single
<1> QED BY <1>7, <1>8

-----------------------------------------------------------------------------
(* What was heard is what its episode yields. *)

HeardInv ==
    \/ heard = [episode |-> NothingHeard, candidates |-> <<>>]
    \/ heard.episode \in Episodes /\ heard.candidates \in Results(heard.episode)

LEMMA HeardNext ==
    ASSUME HeardInv, [Next]_vars
    PROVE  HeardInv'
<1>1. ASSUME NEW e \in Episodes, Ingest(e) PROVE HeardInv'
    <2>1. extractor' = extractor BY <1>1 DEF Ingest
    <2>2. PICK c \in Results(e) : heard' = [episode |-> e, candidates |-> c] BY <1>1 DEF Ingest
    <2>3. Results(e)' = Results(e) BY <2>1 DEF Results
    <2>4. heard'.episode = e /\ heard'.candidates = c BY <2>2
    <2>5. Results(heard.episode)' = Results(e) BY <2>1, <2>4 DEF Results
    <2> QED BY <2>2, <2>4, <2>5 DEF HeardInv
<1>2. ASSUME UNCHANGED <<extractor, heard>> PROVE HeardInv'
    BY <1>2 DEF HeardInv, Results
<1>3. ASSUME NEW m \in Models, NEW c \in Conversations, NEW cap \in Caps \cup {NoCap}, StartRun(m, c, cap)
      PROVE  HeardInv'
    BY <1>2, <1>3 DEF StartRun
<1>4. ASSUME CacheHit PROVE HeardInv' BY <1>2, <1>4 DEF CacheHit
<1>5. ASSUME NEW reply \in Replies, CallProvider(reply) PROVE HeardInv' BY <1>2, <1>5 DEF CallProvider
<1>6. ASSUME WriteReply PROVE HeardInv' BY <1>2, <1>6 DEF WriteReply
<1>7. ASSUME Stop PROVE HeardInv' BY <1>2, <1>7 DEF Stop
<1>8. ASSUME UNCHANGED vars PROVE HeardInv' BY <1>2, <1>8 DEF vars
<1> QED BY <1>1, <1>3, <1>4, <1>5, <1>6, <1>7, <1>8 DEF Next

LEMMA HeardAlways == Spec => []HeardInv
<1>1. Init => HeardInv BY DEF Init, HeardInv
<1> QED BY <1>1, HeardNext, PTL DEF Spec

LEMMA RequestsHeard ==
    ASSUME HeardInv PROVE ForgetRequestsAreHeard
<1> DEFINE e == heard.episode
           candidates == heard.candidates
<1> SUFFICES ASSUME extractor \in RuleExtractors
             PROVE  /\ Cardinality(Constraints(candidates)) >= Cardinality(Asking(e))
                    /\ Asking(e) = DOMAIN e.lines /\ Asking(e) # {} => Constraints(candidates) = DOMAIN candidates
    BY DEF ForgetRequestsAreHeard, Asking, Constraints
<1>1. CASE heard = [episode |-> NothingHeard, candidates |-> <<>>]
    <2>1. e.lines = <<>> /\ candidates = <<>> BY <1>1 DEF NothingHeard
    <2>2. Asking(e) = {} BY <2>1 DEF Asking
    <2>3. IsList(candidates) BY <2>1, OneAndNone
    <2> QED BY <2>2, <2>3, NothingAsked
<1>2. CASE e \in Episodes /\ candidates \in Results(e)
    <2>1. /\ e.lines \in Seq(Range(e.lines))
          /\ \A l \in Range(e.lines) : IsList(l.says)
        BY <1>2, EpisodesAssumption DEF IsList
    <2>2. CASE candidates = AllOf(e) BY <2>1, <2>2, AllAreHeard
    <2>3. CASE extractor = "generic" /\ candidates # AllOf(e)
        <3>1. Len(e.lines) = 1 /\ candidates = Generic(e) BY <1>2, <2>3 DEF Results
        <3>2. Deterministic(e) = AllOf(e) BY <2>3, EpisodeIsFlat
        <3>3. /\ ~ \E n \in DOMAIN AllOf(e) : AllOf(e)[n].action # "ignore"
              /\ candidates = Dialogue(e.lines[1], e)
            BY <2>3, <3>1, <3>2 DEF Generic
        <3>4. Asking(e) = {} BY <2>1, <2>3, <3>3, AllAreHeard
        <3>5. e.lines[1] \in Range(e.lines) BY <2>1, <3>1 DEF Range
        <3>6. IsList(candidates) BY <2>1, <3>3, <3>5, DialogueIsList
        <3> QED BY <3>4, <3>6, NothingAsked
    <2>4. extractor # "generic" => candidates = AllOf(e)
        BY <1>2, EpisodeIsFlat DEF Results, RuleExtractors
    <2> QED BY <2>2, <2>3, <2>4
<1> QED BY <1>1, <1>2 DEF HeardInv

LEMMA WordsStayOut ==
    ASSUME HeardInv PROVE SensitiveWordsStayOut
<1> DEFINE e == heard.episode
           candidates == heard.candidates
<1> SUFFICES ASSUME extractor \in {"noisy", "recruiting"}, e.consent # "explicit",
                    \A n \in DOMAIN e.lines : e.lines[n].form = "prose",
                    NEW p \in DOMAIN candidates, candidates[p].action = "store"
             PROVE  /\ candidates[p].object \cap SensitiveCues = {}
                    /\ extractor = "noisy" => \E m \in DOMAIN e.lines : "hedge" \notin e.lines[m].cues
    BY DEF SensitiveWordsStayOut
<1>1. heard # [episode |-> NothingHeard, candidates |-> <<>>] OBVIOUS
<1>2. e \in Episodes /\ candidates \in Results(e) BY <1>1 DEF HeardInv
<1>3. /\ e.lines \in Seq(Range(e.lines))
      /\ \A l \in Range(e.lines) : l.object \cap SensitiveCues \subseteq l.cues
    BY <1>2, EpisodesAssumption
<1>4. candidates = AllOf(e) BY <1>2, EpisodeIsFlat DEF Results
<1>5. Ignored.action # "store" BY DEF Ignored, Candidate
<1>6. AllOf(e) = Flat(e)
    <2>1. ASSUME AllOf(e) = <<Ignored>> PROVE FALSE
        <3>1. DOMAIN <<Ignored>> = {1} /\ <<Ignored>>[1] = Ignored OBVIOUS
        <3> QED BY <1>4, <1>5, <2>1, <3>1
    <2> QED BY <2>1 DEF AllOf
<1>7. PICK k \in Nat :
          /\ DOMAIN e.lines = 1 .. k
          /\ Chunks(e) = [n \in 1 .. k |-> Chunks(e)[n]]
          /\ \A n \in 1 .. k : Chunks(e)[n] = Chunk(e.lines[n], e) /\ IsList(Chunks(e)[n])
    BY <1>3, ChunksOfLines
<1>8. PICK n \in 1 .. k : \E m \in DOMAIN Chunks(e)[n] : Flat(e)[p] = Chunks(e)[n][m]
    BY <1>4, <1>6, <1>7, FlatPrefixes DEF Flat
<1> DEFINE l == e.lines[n]
<1>9. PICK m \in DOMAIN Chunk(l, e) : candidates[p] = Chunk(l, e)[m] BY <1>4, <1>6, <1>7, <1>8
<1>10. n \in DOMAIN e.lines /\ l \in Range(e.lines) /\ l.form = "prose" BY <1>7 DEF Range
<1>11. l.object \cap SensitiveCues \subseteq l.cues BY <1>3, <1>10
<1>12. AllHarmless(Chunk(l, e)) BY <1>10, <1>11, ChunkIsClean
<1>13. candidates[p].object \cap SensitiveCues = {} BY <1>9, <1>12 DEF AllHarmless, Harmless
<1>14. extractor = "noisy" => "hedge" \notin l.cues BY <1>9, <1>10, HedgedStoresNothing
<1> QED BY <1>10, <1>13, <1>14

\* ForgetRequestsAreHeard, for episodes of any lines and any length: whatever else a line
\* says, what it asks to forget or not to use becomes a constraint of its own, and nothing else.
THEOREM ForgetRequestsAlwaysHeard == Spec => []ForgetRequestsAreHeard
BY HeardAlways, RequestsHeard, PTL

\* SensitiveWordsStayOut, for episodes of any lines and any length: without explicit consent
\* no table, no project and none of the speaker's own words put a sensitive word in the store.
THEOREM SensitiveWordsAlwaysStayOut == Spec => []SensitiveWordsStayOut
BY HeardAlways, WordsStayOut, PTL

=============================================================================
