--------------------------- MODULE AuditLogProofs ---------------------------
(***************************************************************************)
(* What holds of AuditLog for logs of every length, any faults and any edits *)
(* of an export: a restart finds what was acknowledged until a line is       *)
(* joined to a torn one, and a report pins the log that it was made of.      *)
(***************************************************************************)
EXTENDS AuditLog, WellFoundedInduction, TLAPS

-----------------------------------------------------------------------------
(* Logs. *)

LEMMA SmallestExists ==
    ASSUME NEW S \in SUBSET Nat, S # {}
    PROVE  \E x \in S : \A y \in S : x <= y
<1> DEFINE Less == OpToRel(<, Nat)
<1>1. \A x, y \in S : x <= y \/ y < x OBVIOUS
<1>2. \A x, y \in S : y < x => <<y, x>> \in Less BY DEF OpToRel
<1>3. IsWellFoundedOn(Less, Nat) BY NatLessThanWellFounded
<1>4. \E x \in S : \A y \in S : ~ (<<y, x>> \in Less) BY <1>3, WFMin
<1>5. \A x, y \in S : x <= y \/ <<y, x>> \in Less BY <1>1, <1>2, Zenon
<1> QED BY <1>4, <1>5, Zenon

\* A list of entries: the part of IsLog that says nothing of the entries.
IsList(log) == Len(log) \in Nat /\ log = [k \in 1..Len(log) |-> log[k]]

LEMMA FunctionIsList ==
    ASSUME NEW S, NEW n \in Nat, NEW f \in [1..n -> S]
    PROVE  f \in Seq(S) /\ Len(f) = n /\ IsList(f)
<1>1. f \in Seq(S) /\ Len(f) = n OBVIOUS
<1> QED BY <1>1 DEF IsList

LEMMA SequenceIsList ==
    ASSUME NEW S, NEW s \in Seq(S)
    PROVE  IsList(s)
<1>1. Len(s) \in Nat /\ s \in [1..Len(s) -> S] OBVIOUS
<1> QED BY <1>1 DEF IsList

\* One entry more: it is the last one, the others keep their places.
LEMMA OneMore ==
    ASSUME NEW log, IsList(log), NEW e
    PROVE  /\ IsList(Append(log, e)) /\ Len(Append(log, e)) = Len(log) + 1
           /\ \A k \in 1..Len(log) : Append(log, e)[k] = log[k]
           /\ Append(log, e)[Len(log) + 1] = e
<1> DEFINE S == {log[k] : k \in 1..Len(log)} \cup {e}
<1>1. log \in Seq(S) BY DEF IsList
<1>2. Append(log, e) \in Seq(S) BY <1>1
<1>3. IsList(Append(log, e)) BY <1>2, SequenceIsList
<1>4. /\ Len(Append(log, e)) = Len(log) + 1
      /\ \A k \in 1..Len(log) : Append(log, e)[k] = log[k]
      /\ Append(log, e)[Len(log) + 1] = e
  BY <1>1
<1> QED BY <1>3, <1>4

\* One entry less.
LEMMA OneLess ==
    ASSUME NEW log, IsList(log), log # <<>>
    PROVE  /\ IsList(AllButLast(log)) /\ Len(log) \in Nat \ {0}
           /\ Len(AllButLast(log)) = Len(log) - 1
           /\ \A k \in 1..(Len(log) - 1) : AllButLast(log)[k] = log[k]
<1> DEFINE S == {log[k] : k \in 1..Len(log)}
<1>1. log \in Seq(S) BY DEF IsList
<1> QED BY <1>1 DEF IsList, AllButLast

LEMMA MoreThenLess ==
    ASSUME NEW log, IsList(log), NEW e
    PROVE  AllButLast(Append(log, e)) = log
<1> DEFINE S == {log[k] : k \in 1..Len(log)} \cup {e}
<1>1. log \in Seq(S) BY DEF IsList
<1> QED BY <1>1 DEF IsList, AllButLast

\* Two lists of the same length with the same elements are the same.
LEMMA SameList ==
    ASSUME NEW a, NEW b, IsList(a), IsList(b), Len(a) = Len(b),
           \A k \in 1..Len(a) : a[k] = b[k]
    PROVE  a = b
BY DEF IsList

LEMMA LogIsList ==
    ASSUME NEW log
    PROVE  IsLog(log) <=> /\ IsList(log)
                          /\ \A k \in 1..Len(log) :
                                IsEntry(log[k]) /\ log[k].seq \in Nat /\ log[k].body \in Bodies
BY DEF IsLog, IsList

LEMMA EmptyLog == IsLog(<<>>) /\ Len(<<>>) = 0
BY DEF IsLog

LEMMA EntryIsEntry ==
    ASSUME NEW seq \in Nat, NEW body \in Bodies, NEW prev_hash
    PROVE  LET e == Entry(seq, body, prev_hash)
           IN  IsEntry(e) /\ e.seq = seq /\ e.body = body /\ e.prev_hash = prev_hash
               /\ e.hash = Digest(seq, body, prev_hash)
BY DEF Entry, IsEntry

-----------------------------------------------------------------------------
(* Edits of an export keep it a log. *)

LEMMA DropIsLog ==
    ASSUME NEW log, IsLog(log), NEW k \in 1..Len(log)
    PROVE  IsLog([j \in 1..(Len(log) - 1) |-> IF j < k THEN log[j] ELSE log[j + 1]])
<1> DEFINE n == Len(log) - 1
           f(j) == IF j < k THEN log[j] ELSE log[j + 1]
           shorter == [j \in 1..n |-> f(j)]
           S == {f(j) : j \in 1..n}
<1>0. Len(log) \in Nat /\ n \in Nat BY DEF IsLog
<1>1. shorter \in [1..n -> S] /\ \A j \in 1..n : shorter[j] = f(j) OBVIOUS
<1> HIDE DEF shorter
<1>2. Len(shorter) = n /\ IsList(shorter) BY <1>0, <1>1, FunctionIsList
<1>3. ASSUME NEW j \in 1..n
      PROVE  IsEntry(shorter[j]) /\ shorter[j].seq \in Nat /\ shorter[j].body \in Bodies
  <2>1. j \in 1..Len(log) /\ j + 1 \in 1..Len(log) BY <1>0
  <2>2. shorter[j] = log[j] \/ shorter[j] = log[j + 1] BY <1>1
  <2> QED BY <2>1, <2>2 DEF IsLog
<1>4. IsLog(shorter) BY <1>2, <1>3, LogIsList
<1> QED BY <1>4 DEF shorter

\* An entry exchanged for another one.
LEMMA ExceptIsLog ==
    ASSUME NEW log, IsLog(log), NEW k \in 1..Len(log), NEW e,
           IsEntry(e) /\ e.seq \in Nat /\ e.body \in Bodies
    PROVE  IsLog([log EXCEPT ![k] = e]) /\ Len([log EXCEPT ![k] = e]) = Len(log)
<1> DEFINE new == [log EXCEPT ![k] = e]
           S == {log[j] : j \in 1..Len(log)} \cup {e}
<1>0. Len(log) \in Nat /\ DOMAIN log = 1..Len(log) BY DEF IsLog
<1>1. new = [j \in 1..Len(log) |-> IF j = k THEN e ELSE log[j]] BY <1>0 DEF IsLog
<1>2. new \in [1..Len(log) -> S] BY <1>1
<1>3. Len(new) = Len(log) BY <1>0, <1>2, FunctionIsList
<1>4. IsList(new) BY <1>0, <1>2, FunctionIsList
<1>5. \A j \in 1..Len(new) : IsEntry(new[j]) /\ new[j].seq \in Nat /\ new[j].body \in Bodies
  BY <1>1, <1>3 DEF IsLog
<1> QED BY <1>3, <1>4, <1>5, LogIsList

-----------------------------------------------------------------------------
(* Chains. *)

\* Every entry carries its own digest.
SelfHashed(log) ==
    \A k \in 1..Len(log) : log[k].hash = Digest(log[k].seq, log[k].body, log[k].prev_hash)

\* An entry that stands in the place of its number is linked to the one before; one
\* that does not shows by its number that others are missing.
Linked(log) ==
    \A k \in 1..Len(log) :
        log[k].seq = k - 1 =>
            log[k].prev_hash = (IF k = 1 THEN Genesis ELSE log[k - 1].hash)

Chained(log) == IsLog(log) /\ SelfHashed(log) /\ Linked(log)

\* A report is that of the log it was made of, and a file has no more than the memory.
AnchorInv ==
    /\ Chained(entries) /\ Chained(file) /\ Chained(disclosed)
    /\ Len(file) < Len(entries) \/ file = entries
    /\ report.count = Len(disclosed) /\ report.head_hash = HeadHash(disclosed)
    /\ report.lines = Lines(disclosed)

\* What the file holds after each kind of fault.
DiskInv ==
    /\ fault = "none" =>
          tail = "clean" /\ ~ joined /\ file = entries /\ acked = entries /\ Verify(entries)
    /\ fault = "failed" => tail = "clean" /\ ~ joined /\ file = acked
    /\ fault = "torn" /\ ~ joined =>
          /\ Verify(file)
          /\ \/ tail = "part" /\ file = acked
             \/ tail = "unended" /\ Len(file) = Len(acked) + 1 /\ AllButLast(file) = acked


LEMMA NextEntryIsEntry ==
    ASSUME NEW log, IsLog(log), NEW body \in Bodies
    PROVE  LET e == NextEntry(log, body)
           IN  IsEntry(e) /\ e.seq = Len(log) /\ e.seq \in Nat /\ e.body = body /\ e.body \in Bodies
               /\ e.prev_hash = HeadHash(log) /\ e.hash = Digest(e.seq, e.body, e.prev_hash)
<1>1. Len(log) \in Nat BY DEF IsLog
<1> QED BY <1>1, EntryIsEntry DEF NextEntry

\* An entry written to a list that is shorter than the log it was made for, or to
\* that log itself.
LEMMA WriteKeepsChain ==
    ASSUME NEW mem, NEW log, Chained(mem), Chained(log), NEW body \in Bodies,
           Len(log) < Len(mem) \/ log = mem
    PROVE  /\ Chained(Append(log, NextEntry(mem, body)))
           /\ Len(Append(log, NextEntry(mem, body))) = Len(log) + 1
           /\ Len(mem) \in Nat /\ Len(log) \in Nat
<1> DEFINE e == NextEntry(mem, body)
           new == Append(log, e)
<1>1. /\ IsEntry(e) /\ e.seq = Len(mem) /\ e.seq \in Nat /\ e.body \in Bodies
      /\ e.prev_hash = HeadHash(mem) /\ e.hash = Digest(e.seq, e.body, e.prev_hash)
  BY NextEntryIsEntry DEF Chained
<1>2. /\ IsList(log) /\ Len(log) \in Nat /\ Len(mem) \in Nat
      /\ \A k \in 1..Len(log) : IsEntry(log[k]) /\ log[k].seq \in Nat /\ log[k].body \in Bodies
  BY DEF Chained, IsLog, IsList
<1> HIDE DEF e
<1>3. /\ IsList(new) /\ Len(new) = Len(log) + 1 /\ new[Len(log) + 1] = e
      /\ \A k \in 1..Len(log) : new[k] = log[k]
  BY <1>2, OneMore
<1> HIDE DEF new
<1>4. \A k \in 1..Len(new) : k \in 1..Len(log) \/ k = Len(log) + 1 BY <1>2, <1>3
<1>5. IsLog(new) BY <1>1, <1>2, <1>3, <1>4, LogIsList
<1>6. SelfHashed(new) BY <1>1, <1>3, <1>4 DEF SelfHashed, Chained
<1>7. Linked(new)
  <2> SUFFICES ASSUME NEW k \in 1..Len(new), new[k].seq = k - 1
               PROVE  new[k].prev_hash = (IF k = 1 THEN Genesis ELSE new[k - 1].hash)
    BY DEF Linked
  <2>1. CASE k \in 1..Len(log)
    <3>1. k = 1 \/ k - 1 \in 1..Len(log) BY <1>2, <2>1
    <3> QED BY <2>1, <3>1, <1>3 DEF Linked, Chained
  <2>2. CASE k = Len(log) + 1
    <3>1. log = mem BY <2>2, <1>1, <1>2, <1>3
    <3>2. CASE Len(log) = 0
      <4>1. log = <<>> BY <3>2, <1>2 DEF IsList
      <4> QED BY <4>1, <3>1, <3>2, <2>2, <1>1, <1>3 DEF HeadHash
    <3>3. CASE Len(log) # 0
      <4>1. log # <<>> /\ k # 1 /\ k - 1 = Len(log) /\ k - 1 \in 1..Len(log) BY <3>3, <2>2, <1>2
      <4> QED BY <4>1, <3>1, <2>2, <1>1, <1>3 DEF HeadHash
    <3> QED BY <3>2, <3>3
  <2> QED BY <2>1, <2>2, <1>4
<1> QED BY <1>2, <1>3, <1>5, <1>6, <1>7 DEF Chained, e, new

LEMMA LessKeepsChain ==
    ASSUME NEW log, Chained(log), log # <<>>
    PROVE  Chained(AllButLast(log)) /\ Len(AllButLast(log)) = Len(log) - 1 /\ Len(log) \in Nat \ {0}
<1> DEFINE new == AllButLast(log)
<1>1. /\ IsList(log)
      /\ \A k \in 1..Len(log) : IsEntry(log[k]) /\ log[k].seq \in Nat /\ log[k].body \in Bodies
  BY LogIsList DEF Chained
<1>2. /\ IsList(new) /\ Len(log) \in Nat \ {0} /\ Len(new) = Len(log) - 1
      /\ \A k \in 1..(Len(log) - 1) : new[k] = log[k]
  BY <1>1, OneLess
<1> HIDE DEF new
<1>3. \A k \in 1..Len(new) : k \in 1..Len(log) /\ new[k] = log[k] BY <1>2
<1>4. IsLog(new) BY <1>1, <1>2, <1>3, LogIsList
<1>5. SelfHashed(new) BY <1>3 DEF SelfHashed, Chained
<1>6. Linked(new)
  <2> SUFFICES ASSUME NEW k \in 1..Len(new), new[k].seq = k - 1
               PROVE  new[k].prev_hash = (IF k = 1 THEN Genesis ELSE new[k - 1].hash)
    BY DEF Linked
  <2>1. k = 1 \/ k - 1 \in 1..Len(new) BY <1>2
  <2> QED BY <2>1, <1>3 DEF Linked, Chained
<1> QED BY <1>2, <1>4, <1>5, <1>6 DEF Chained, new

\* A log that verifies still does with the next entry, and an entry short.
LEMMA NextEntryVerifies ==
    ASSUME NEW log, IsLog(log), Verify(log), NEW body \in Bodies
    PROVE  Verify(Append(log, NextEntry(log, body)))
<1> DEFINE e == NextEntry(log, body)
           new == Append(log, e)
<1>1. /\ e.seq = Len(log)
      /\ e.prev_hash = HeadHash(log) /\ e.hash = Digest(e.seq, e.body, e.prev_hash)
  BY NextEntryIsEntry
<1>2. IsList(log) /\ Len(log) \in Nat BY DEF IsLog, IsList
<1> HIDE DEF e
<1>3. /\ Len(new) = Len(log) + 1 /\ new[Len(log) + 1] = e
      /\ \A k \in 1..Len(log) : new[k] = log[k]
  BY <1>2, OneMore
<1>4. Len(log) = 0 => log = <<>> BY <1>2 DEF IsList
<1> HIDE DEF new
<1> SUFFICES ASSUME NEW k \in 1..Len(new)
             PROVE  /\ new[k].seq = k - 1
                    /\ new[k].prev_hash = (IF k = 1 THEN Genesis ELSE new[k - 1].hash)
                    /\ new[k].hash = Digest(new[k].seq, new[k].body, new[k].prev_hash)
  BY DEF Verify, new, e
<1>5. CASE k \in 1..Len(log)
  <2>1. k = 1 \/ k - 1 \in 1..Len(log) BY <1>2, <1>5
  <2> QED BY <2>1, <1>3, <1>5 DEF Verify
<1>6. CASE k = Len(log) + 1 /\ Len(log) = 0
  BY <1>1, <1>3, <1>4, <1>6 DEF HeadHash
<1>7. CASE k = Len(log) + 1 /\ Len(log) # 0
  <2>1. log # <<>> /\ k # 1 /\ k - 1 = Len(log) /\ k - 1 \in 1..Len(log) BY <1>2, <1>7
  <2> QED BY <2>1, <1>1, <1>2, <1>3, <1>7 DEF HeadHash
<1> QED BY <1>2, <1>3, <1>5, <1>6, <1>7

\* A copy that verifies and ends like a chained log of the same length is that log:
\* from the end on, equal digests are digests of equal entries.
LEMMA SameHeadSameLog ==
    ASSUME NEW a, NEW b, IsLog(a), Verify(a), Chained(b),
           Len(a) = Len(b), HeadHash(a) = HeadHash(b)
    PROVE  a = b
<1> DEFINE n == Len(a)
<1>1. /\ IsList(a) /\ IsList(b) /\ n \in Nat
      /\ \A k \in 1..n : IsEntry(a[k]) /\ IsEntry(b[k])
  BY DEF IsLog, IsList, Chained
<1>2. ASSUME NEW k \in 1..n, a[k].hash = b[k].hash
      PROVE  a[k].seq = b[k].seq /\ a[k].body = b[k].body /\ a[k].prev_hash = b[k].prev_hash
  BY <1>2 DEF Verify, Chained, SelfHashed, Digest
<1>3. ASSUME NEW k \in 2..n, a[k].hash = b[k].hash
      PROVE  a[k - 1].hash = b[k - 1].hash
  <2>1. k \in 1..n /\ k # 1 BY <1>1
  <2>2. a[k].prev_hash = b[k].prev_hash /\ b[k].seq = k - 1 BY <2>1, <1>2, <1>3 DEF Verify
  <2> QED BY <2>1, <2>2 DEF Verify, Chained, Linked
<1>4. \A k \in 1..n : a[k].hash = b[k].hash
  <2> DEFINE Unlike == {j \in 0..(n - 1) : a[n - j].hash # b[n - j].hash}
  <2>1. Unlike = {}
    <3> SUFFICES ASSUME Unlike # {} PROVE FALSE OBVIOUS
    <3>1. Unlike \in SUBSET Nat BY <1>1
    <3>2. PICK j \in Unlike : \A i \in Unlike : j <= i BY <3>1, SmallestExists
    <3>3. j \in 0..(n - 1) /\ a[n - j].hash # b[n - j].hash OBVIOUS
    <3>4. j # 0
      <4>1. ASSUME j = 0 PROVE FALSE
        <5>1. n # 0 /\ n - j = n BY <1>1, <3>3, <4>1
        <5>2. a # <<>> /\ b # <<>> BY <5>1
        <5> QED BY <5>1, <5>2, <3>3 DEF HeadHash
      <4> QED BY <4>1
    <3>5. j - 1 \in 0..(n - 1) /\ ~ (j <= j - 1) BY <1>1, <3>3, <3>4
    <3>6. a[n - (j - 1)].hash = b[n - (j - 1)].hash BY <3>2, <3>5
    <3>7. n - (j - 1) \in 2..n /\ n - (j - 1) - 1 = n - j BY <1>1, <3>3, <3>4
    <3> QED BY <3>3, <3>6, <3>7, <1>3
  <2>2. ASSUME NEW k \in 1..n PROVE a[k].hash = b[k].hash
    <3>1. n - k \in 0..(n - 1) /\ n - (n - k) = k BY <1>1
    <3> QED BY <2>1, <3>1
  <2> QED BY <2>2
<1>5. \A k \in 1..n : a[k] = b[k]
  BY <1>1, <1>2, <1>4 DEF IsEntry
<1> QED BY <1>1, <1>5, SameList

-----------------------------------------------------------------------------
(* Type correctness. *)

LEMMA InitType == Init => TypeOK
<1> SUFFICES ASSUME Init PROVE TypeOK OBVIOUS
<1> QED BY EmptyLog DEF Init, TypeOK, NoReport, NoExport, Packed

\* What is written to the file leaves a log, whose last line may lack its newline.
LEMMA WriteType ==
    ASSUME TypeOK, NEW body \in Bodies,
           Write(NextEntry(entries, body)) \/ Tear(NextEntry(entries, body))
    PROVE  /\ IsLog(Append(entries, NextEntry(entries, body)))
           /\ IsLog(Append(acked, NextEntry(entries, body)))
           /\ IsLog(file') /\ tail' \in {"clean", "unended", "part"} /\ joined' \in BOOLEAN
           /\ tail' = "unended" => file' # <<>>
<1> DEFINE e == NextEntry(entries, body)
<1>1. IsEntry(e) /\ e.seq \in Nat /\ e.body \in Bodies BY NextEntryIsEntry DEF TypeOK
<1> HIDE DEF e
<1>2. ASSUME NEW log, IsLog(log)
      PROVE  IsLog(Append(log, e)) /\ Append(log, e) # <<>>
  <2>1. IsList(log) /\ Len(log) \in Nat BY <1>2 DEF IsLog, IsList
  <2>2. /\ IsList(Append(log, e)) /\ Len(Append(log, e)) = Len(log) + 1
        /\ \A k \in 1..Len(log) : Append(log, e)[k] = log[k]
        /\ Append(log, e)[Len(log) + 1] = e
    BY <2>1, OneMore
  <2>3. Append(log, e) # <<>> BY <2>1, <2>2, EmptyLog
  <2>4. \A k \in 1..Len(Append(log, e)) : k \in 1..Len(log) \/ k = Len(log) + 1 BY <2>1, <2>2
  <2>5. IsLog(Append(log, e)) BY <1>1, <1>2, <2>2, <2>4, LogIsList
  <2> QED BY <2>3, <2>5
<1>3. tail = "unended" => IsLog(AllButLast(file))
  <2> SUFFICES ASSUME tail = "unended" PROVE IsLog(AllButLast(file)) OBVIOUS
  <2>1. IsList(file) /\ file # <<>> BY LogIsList DEF TypeOK
  <2>2. /\ IsList(AllButLast(file)) /\ Len(AllButLast(file)) = Len(file) - 1 /\ Len(file) \in Nat
        /\ \A k \in 1..(Len(file) - 1) : AllButLast(file)[k] = file[k]
    BY <2>1, OneLess
  <2>3. \A k \in 1..Len(AllButLast(file)) : k \in 1..Len(file) BY <2>2
  <2> QED BY <2>2, <2>3, LogIsList DEF TypeOK
<1>4. IsLog(entries) /\ IsLog(acked) /\ IsLog(file) /\ joined \in BOOLEAN BY DEF TypeOK
<1>5. IsLog(Append(entries, e)) /\ IsLog(Append(acked, e)) BY <1>2, <1>4
<1>6. IsLog(file') /\ (tail' = "unended" => file' # <<>>)
  <2>1. CASE tail = "clean" /\ file' = Append(file, e) BY <2>1, <1>2, <1>4
  <2>2. CASE file' = file /\ tail' = "part" BY <2>2, <1>4
  <2>3. CASE JoinLast /\ tail' # "unended" BY <2>3, <1>3, <1>4 DEF JoinLast
  <2> QED BY <2>1, <2>2, <2>3 DEF Write, Tear, e
<1>7. tail' \in {"clean", "unended", "part"} BY DEF Write, Tear
<1>8. joined' \in BOOLEAN BY <1>4 DEF Write, Tear, JoinLast
<1> QED BY <1>5, <1>6, <1>7, <1>8 DEF e

\* An edit by which the entries of the export are replaced by another log.
LEMMA EditType ==
    ASSUME TypeOK, NEW log, IsLog(log), Edited(log)
    PROVE  TypeOK'
<1>1. /\ IsLog(export'.entries)
      /\ export' = [entries |-> export'.entries, count |-> export'.count,
                    head_hash |-> export'.head_hash]
  <2>1. CASE export' = Packed(log) BY <2>1 DEF Packed
  <2>2. CASE export' = [export EXCEPT !.entries = log]
    <3>1. export' = [entries |-> log, count |-> export.count, head_hash |-> export.head_hash]
      BY <2>2 DEF TypeOK
    <3> QED BY <3>1
  <2> QED BY <2>1, <2>2 DEF Edited
<1>2. edits' \in Nat BY DEF TypeOK, Edited
<1> QED BY <1>1, <1>2 DEF TypeOK, Edited, onDisk

LEMMA StepType == TypeOK /\ [Next]_vars => TypeOK'
<1> SUFFICES ASSUME TypeOK, [Next]_vars PROVE TypeOK' OBVIOUS
<1>1. CASE UNCHANGED vars BY <1>1 DEF TypeOK, vars, onDisk, outside
<1>2. ASSUME NEW body \in Bodies, Record(body) PROVE TypeOK'
  <2>1. Write(NextEntry(entries, body)) BY <1>2 DEF Record
  <2> QED BY <1>2, <2>1, WriteType DEF Record, TypeOK, outside
<1>3. ASSUME NEW body \in Bodies, WriteFails(body) PROVE TypeOK'
  <2>1. IsLog(entries')
    <3>1. /\ IsEntry(NextEntry(entries, body)) /\ NextEntry(entries, body).seq \in Nat
          /\ NextEntry(entries, body).body \in Bodies
      BY NextEntryIsEntry DEF TypeOK
    <3>2. IsList(entries) /\ Len(entries) \in Nat BY DEF TypeOK, IsLog, IsList
    <3>3. /\ IsList(entries') /\ Len(entries') = Len(entries) + 1
          /\ \A k \in 1..Len(entries) : entries'[k] = entries[k]
          /\ entries'[Len(entries) + 1] = NextEntry(entries, body)
      BY <1>3, <3>2, OneMore DEF WriteFails
    <3>4. \A k \in 1..Len(entries') : k \in 1..Len(entries) \/ k = Len(entries) + 1 BY <3>2, <3>3
    <3>5. \A k \in 1..Len(entries) :
            IsEntry(entries[k]) /\ entries[k].seq \in Nat /\ entries[k].body \in Bodies
      BY DEF TypeOK, IsLog
    <3> QED BY <3>1, <3>3, <3>4, <3>5, LogIsList
  <2> QED BY <1>3, <2>1 DEF WriteFails, Strike, TypeOK, outside
<1>4. ASSUME NEW body \in Bodies, WriteTorn(body) PROVE TypeOK'
  <2>1. Tear(NextEntry(entries, body)) BY <1>4 DEF WriteTorn
  <2> QED BY <1>4, <2>1, WriteType DEF WriteTorn, Strike, TypeOK, outside
<1>5. ASSUME NEW body \in Bodies, CrashInWrite(body) PROVE TypeOK'
  <2>1. Tear(NextEntry(entries, body)) BY <1>5 DEF CrashInWrite
  <2> QED BY <1>5, <2>1, WriteType DEF CrashInWrite, Strike, TypeOK, outside
<1>6. CASE Restart BY <1>6 DEF Restart, Loaded, TypeOK, onDisk, outside
<1>7. CASE Disclose
  <2>1. Len(entries) \in Nat BY DEF TypeOK, IsLog
  <2> QED BY <1>7, <2>1 DEF Disclose, TypeOK, onDisk
<1>8. CASE Export
  BY <1>8 DEF Export, Packed, TypeOK, onDisk
<1>9. ASSUME NEW k \in 1..Len(export.entries), NEW body \in Bodies, Alter(k, body)
      PROVE  TypeOK'
  <2> DEFINE e == [export.entries[k] EXCEPT !.body = body]
  <2>1. IsEntry(export.entries[k]) /\ export.entries[k].seq \in Nat /\ IsLog(export.entries)
    BY DEF TypeOK, IsLog
  <2>2. IsEntry(e) /\ e.seq \in Nat /\ e.body \in Bodies BY <2>1 DEF IsEntry
  <2>3. IsLog([export.entries EXCEPT ![k] = e]) BY <2>1, <2>2, ExceptIsLog
  <2>4. [export.entries EXCEPT ![k] = e] = [export.entries EXCEPT ![k].body = body] OBVIOUS
  <2> QED BY <1>9, <2>3, <2>4, EditType DEF Alter
<1>10. ASSUME NEW k \in 1..Len(export.entries), Drop(k) PROVE TypeOK'
  <2>1. IsLog(export.entries) BY DEF TypeOK
  <2> QED BY <1>10, <2>1, DropIsLog, EditType DEF Drop
<1>11. ASSUME NEW k \in 1..Len(export.entries), Swap(k) PROVE TypeOK'
  <2> DEFINE one == [export.entries EXCEPT ![k] = export.entries[k + 1]]
             two == [one EXCEPT ![k + 1] = export.entries[k]]
  <2>1. /\ IsLog(export.entries) /\ Len(export.entries) \in Nat
        /\ \A j \in 1..Len(export.entries) : /\ IsEntry(export.entries[j])
                                            /\ export.entries[j].seq \in Nat
                                            /\ export.entries[j].body \in Bodies
    BY DEF TypeOK, IsLog
  <2>2. k + 1 \in 1..Len(export.entries) BY <1>11, <2>1 DEF Swap
  <2>3. IsLog(one) /\ Len(one) = Len(export.entries) BY <2>1, <2>2, ExceptIsLog
  <2> HIDE DEF one
  <2>4. IsLog(two) BY <2>1, <2>2, <2>3, ExceptIsLog
  <2>5. two = [export.entries EXCEPT ![k] = export.entries[k + 1],
                                     ![k + 1] = export.entries[k]]
    BY DEF one
  <2>6. Edited(two) BY <1>11, <2>5 DEF Swap
  <2> HIDE DEF two
  <2> QED BY <2>4, <2>6, EditType
<1>12. ASSUME NEW k \in 1..Len(export.entries), Rechain(k) PROVE TypeOK'
  <2> DEFINE e == Entry(k - 1, export.entries[k].body,
                        IF k = 1 THEN Genesis ELSE export.entries[k - 1].hash)
  <2>1. IsLog(export.entries) /\ k - 1 \in Nat /\ export.entries[k].body \in Bodies
    BY DEF TypeOK, IsLog
  <2>2. IsEntry(e) /\ e.seq \in Nat /\ e.body \in Bodies BY <2>1, EntryIsEntry
  <2>3. IsLog([export.entries EXCEPT ![k] = e]) BY <2>1, <2>2, ExceptIsLog
  <2> QED BY <1>12, <2>3, EditType DEF Rechain
<1> QED BY <1>1, <1>2, <1>3, <1>4, <1>5, <1>6, <1>7, <1>8, <1>9, <1>10, <1>11, <1>12 DEF Next

\* Every variable keeps its type, whatever is recorded, lost or edited.
THEOREM AuditTypeCorrect == Spec => []TypeOK
BY InitType, StepType, PTL DEF Spec

-----------------------------------------------------------------------------
(* A report pins the log it was made of. *)

LEMMA EmptyChained == Chained(<<>>) /\ Verify(<<>>) /\ Lines(<<>>) = {} /\ HeadHash(<<>>) = Genesis
<1>1. Chained(<<>>) BY EmptyLog DEF Chained, SelfHashed, Linked
<1>2. Verify(<<>>) /\ HeadHash(<<>>) = Genesis BY EmptyLog DEF Verify, HeadHash
<1>3. Lines(<<>>) = {} BY EmptyLog DEF Lines
<1> QED BY <1>1, <1>2, <1>3

LEMMA InitAnchor == Init => AnchorInv
BY EmptyChained, EmptyLog DEF Init, AnchorInv, NoReport

\* Writing and tearing: the file stays a chain, and no longer than the memory.
LEMMA WriteAnchor ==
    ASSUME TypeOK, AnchorInv, NEW body \in Bodies,
           Write(NextEntry(entries, body)) \/ Tear(NextEntry(entries, body))
    PROVE  /\ Chained(Append(entries, NextEntry(entries, body))) /\ Chained(file')
           /\ \/ Len(file') < Len(Append(entries, NextEntry(entries, body)))
              \/ file' = Append(entries, NextEntry(entries, body))
<1> DEFINE e == NextEntry(entries, body)
<1>1. /\ Chained(Append(entries, e)) /\ Len(Append(entries, e)) = Len(entries) + 1
      /\ Len(entries) \in Nat
  BY WriteKeepsChain DEF AnchorInv
<1>2. /\ Chained(Append(file, e)) /\ Len(Append(file, e)) = Len(file) + 1
      /\ Len(file) \in Nat /\ Chained(file) /\ Len(file) <= Len(entries)
  BY <1>1, WriteKeepsChain DEF AnchorInv
<1>3. ASSUME tail = "unended"
      PROVE  Chained(AllButLast(file)) /\ Len(AllButLast(file)) = Len(file) - 1
  BY <1>2, <1>3, LessKeepsChain DEF TypeOK
<1> HIDE DEF e
<1>4. CASE file' = Append(file, e)
  BY <1>1, <1>2, <1>4 DEF AnchorInv, e
<1>5. CASE file' = file BY <1>1, <1>2, <1>5 DEF e
<1>6. CASE file' = AllButLast(file) /\ tail = "unended" BY <1>1, <1>2, <1>3, <1>6 DEF e
<1> QED BY <1>4, <1>5, <1>6 DEF Write, Tear, JoinLast, e

LEMMA StepAnchor == TypeOK /\ AnchorInv /\ [Next]_vars => AnchorInv'
<1> SUFFICES ASSUME TypeOK, AnchorInv, [Next]_vars PROVE AnchorInv' OBVIOUS
<1>1. CASE UNCHANGED vars BY <1>1 DEF AnchorInv, vars, onDisk, outside
<1>2. ASSUME NEW body \in Bodies, Record(body) PROVE AnchorInv'
  <2>1. Write(NextEntry(entries, body)) BY <1>2 DEF Record
  <2> QED BY <1>2, <2>1, WriteAnchor DEF Record, AnchorInv, outside
<1>3. ASSUME NEW body \in Bodies, WriteFails(body) PROVE AnchorInv'
  <2>1. /\ Chained(entries') /\ Len(entries') = Len(entries) + 1
        /\ Len(entries) \in Nat
    BY <1>3, WriteKeepsChain DEF AnchorInv, WriteFails
  <2>2. Len(file) \in Nat /\ Len(file) <= Len(entries) BY <2>1 DEF AnchorInv, Chained, IsLog
  <2>3. Len(file') < Len(entries') BY <1>3, <2>1, <2>2 DEF WriteFails
  <2> QED BY <1>3, <2>1, <2>3 DEF WriteFails, AnchorInv, outside
<1>4. ASSUME NEW body \in Bodies, WriteTorn(body) PROVE AnchorInv'
  <2>1. Tear(NextEntry(entries, body)) BY <1>4 DEF WriteTorn
  <2> QED BY <1>4, <2>1, WriteAnchor DEF WriteTorn, AnchorInv, outside
<1>5. ASSUME NEW body \in Bodies, CrashInWrite(body) PROVE AnchorInv'
  <2>1. Tear(NextEntry(entries, body)) BY <1>5 DEF CrashInWrite
  <2> QED BY <1>5, <2>1, WriteAnchor DEF CrashInWrite, AnchorInv, outside
<1>6. CASE Restart BY <1>6 DEF Restart, Loaded, AnchorInv, onDisk, outside
<1>7. CASE Disclose BY <1>7 DEF Disclose, AnchorInv, onDisk
<1>8. CASE Export BY <1>8 DEF Export, AnchorInv, onDisk
<1>9. ASSUME NEW log, Edited(log) PROVE AnchorInv'
  BY <1>9 DEF Edited, AnchorInv, onDisk
<1> QED BY <1>1, <1>2, <1>3, <1>4, <1>5, <1>6, <1>7, <1>8, <1>9
        DEF Next, Alter, Drop, Swap, Rechain

\* A copy that verifies against a report is the log the report was made of.
THEOREM ReportsAnchor == Spec => []ReportPinsExport
<1>1. TypeOK /\ AnchorInv => ReportPinsExport
  <2> SUFFICES ASSUME TypeOK, AnchorInv, VerifyExport(export, report.count, report.head_hash)
               PROVE  export.entries = disclosed /\ Lines(export.entries) = report.lines
    BY DEF ReportPinsExport
  <2>1. /\ Verify(export.entries) /\ Len(export.entries) = Len(disclosed)
        /\ HeadHash(export.entries) = HeadHash(disclosed)
    BY DEF VerifyExport, AnchorInv
  <2>2. export.entries = disclosed BY <2>1, SameHeadSameLog DEF TypeOK, AnchorInv
  <2> QED BY <2>2 DEF AnchorInv
<1> QED BY <1>1, AuditTypeCorrect, InitAnchor, StepAnchor, PTL DEF Spec

-----------------------------------------------------------------------------
(* A restart finds what was acknowledged. *)

LEMMA InitDisk == Init => DiskInv
BY EmptyChained DEF Init, DiskInv

\* The first line that is cut short, and a line behind one that was.
LEMMA TearDisk ==
    ASSUME TypeOK, DiskInv, NEW body \in Bodies, Tear(NextEntry(entries, body)),
           Strike("torn"), UNCHANGED acked
    PROVE  DiskInv'
<1> DEFINE e == NextEntry(entries, body)
<1>1. fault' = "torn" /\ fault \in {"none", "torn"} BY DEF Strike
<1>2. CASE tail # "clean"
  <2>1. joined' = TRUE BY <1>2 DEF Tear, JoinLast
  <2> QED BY <1>1, <2>1 DEF DiskInv
<1>3. CASE tail = "clean" /\ joined
  <2>1. joined' = TRUE BY <1>3 DEF Tear, TypeOK
  <2> QED BY <1>1, <2>1 DEF DiskInv
<1>4. CASE tail = "clean" /\ ~ joined
  <2>1. file = entries /\ acked = entries /\ Verify(file) BY <1>1, <1>4 DEF DiskInv
  <2>2. /\ Verify(Append(file, e)) /\ AllButLast(Append(file, e)) = file
        /\ Len(Append(file, e)) = Len(file) + 1
    <3>1. IsLog(file) /\ IsList(file) BY LogIsList DEF TypeOK
    <3> QED BY <2>1, <3>1, NextEntryVerifies, MoreThenLess, OneMore
  <2>3. CASE file' = file /\ tail' = "part" BY <1>1, <2>1, <2>3 DEF DiskInv
  <2>4. CASE file' = Append(file, e) /\ tail' = "unended"
    BY <1>1, <2>1, <2>2, <2>4 DEF DiskInv
  <2> QED BY <1>4, <2>3, <2>4 DEF Tear
<1> QED BY <1>2, <1>3, <1>4

LEMMA StepDisk == TypeOK /\ DiskInv /\ [Next]_vars => DiskInv'
<1> SUFFICES ASSUME TypeOK, DiskInv, [Next]_vars PROVE DiskInv' OBVIOUS
<1>1. CASE UNCHANGED vars BY <1>1 DEF DiskInv, vars, onDisk, outside
<1>2. ASSUME NEW body \in Bodies, Record(body) PROVE DiskInv'
  <2> DEFINE e == NextEntry(entries, body)
  <2>1. CASE fault = "none"
    <3>1. Verify(Append(entries, e)) BY <2>1, NextEntryVerifies DEF DiskInv, TypeOK
    <3> QED BY <1>2, <2>1, <3>1 DEF Record, Write, DiskInv, outside
  <2>2. CASE fault = "failed" BY <1>2, <2>2 DEF Record, Write, DiskInv, outside
  <2>3. CASE fault = "torn"
    <3>1. joined' = TRUE BY <1>2, <2>3 DEF Record, Write, JoinLast, DiskInv, TypeOK
    <3> QED BY <1>2, <2>3, <3>1 DEF Record, DiskInv, outside
  <2> QED BY <2>1, <2>2, <2>3 DEF TypeOK
<1>3. ASSUME NEW body \in Bodies, WriteFails(body) PROVE DiskInv'
  BY <1>3 DEF WriteFails, Strike, DiskInv, outside
<1>4. ASSUME NEW body \in Bodies, WriteTorn(body) PROVE DiskInv'
  BY <1>4, TearDisk DEF WriteTorn, outside
<1>5. ASSUME NEW body \in Bodies, CrashInWrite(body) PROVE DiskInv'
  BY <1>5, TearDisk DEF CrashInWrite, outside
<1>6. CASE Restart
  BY <1>6 DEF Restart, Loaded, DiskInv, onDisk, outside
<1>7. CASE Disclose \/ Export \/ \E log : Edited(log)
  BY <1>7 DEF Disclose, Export, Edited, DiskInv, onDisk
<1> QED BY <1>1, <1>2, <1>3, <1>4, <1>5, <1>6, <1>7
        DEF Next, Alter, Drop, Swap, Rechain

\* Until something is written behind a line that was cut short, a restart finds what
\* was acknowledged.
THEOREM RestartsLoseNothing == Spec => []RestartLosesNothing
<1>1. TypeOK /\ DiskInv => RestartLosesNothing
  BY DEF TypeOK, DiskInv, RestartLosesNothing, Loaded
<1> QED BY <1>1, AuditTypeCorrect, InitDisk, StepDisk, PTL DEF Spec
=============================================================================
