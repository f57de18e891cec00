------------------------------ MODULE AuditLog ------------------------------
(***************************************************************************)
(* src/src/cognitive_memory/audit.py: a hash-chained list of entries in     *)
(* memory, appended line by line to a file and loaded from it at start-up;  *)
(* what a write that raises, a write cut short and a restart leave behind;  *)
(* the export and the disclosure report handed to a third party, where the  *)
(* export can be edited, and their verification.                            *)
(*                                                                         *)
(* The file is modelled by what a load makes of it: the entries on lines    *)
(* that parse, and how its last line ends. A line that does not parse       *)
(* contributes nothing to any later load.                                   *)
(***************************************************************************)
EXTENDS Integers, Sequences

CONSTANTS
    Bodies,         \* what is recorded: action, details and timestamp
    Subject,        \* those of the SUBJECT_ACTIONS, which a report discloses
    Redacted,       \* their redaction: digests for the term and the requester
    Faults,         \* of {"failed", "torn"}: which of them may happen
    MaxEntries,     \* bound of the entries in memory and of those acknowledged
    MaxEdits        \* bound of the edits of an export

ASSUME AuditAssumption ==
    /\ Subject \subseteq Bodies
    /\ DOMAIN Redacted = Subject
    /\ Faults \subseteq {"failed", "torn"}
    /\ MaxEntries \in Nat /\ MaxEdits \in Nat

VARIABLES
    entries,        \* _entries
    file,           \* the entries on the lines that parse
    tail,           \* the last line: "clean" ended, "unended" parses, "part" does not
    acked,          \* ghost: the entries whose record() returned
    fault,          \* the kind of fault that happened; a behaviour has one kind
    joined,         \* ghost: something was written on to a line that was cut short
    report,         \* a disclosure report, once one was made
    disclosed,      \* ghost: the log it was made of
    export,         \* a copy of the log in other hands, once one was made
    edits           \* how often it was edited

onDisk == <<file, tail, acked, fault, joined>>
outside == <<report, disclosed, export, edits>>
vars == <<entries, onDisk, outside>>

-----------------------------------------------------------------------------
(* Entries and chains. *)

Genesis == <<>>
\* SHA-256 by what is relied on: different inputs have different digests.
Digest(seq, body, prev_hash) == <<seq, body, prev_hash>>
Entry(seq, body, prev_hash) ==
    [seq |-> seq, body |-> body, prev_hash |-> prev_hash, hash |-> Digest(seq, body, prev_hash)]

HeadHash(log) == IF log = <<>> THEN Genesis ELSE log[Len(log)].hash
LinkedToGenesis(log, body) == Entry(Len(log), body, Genesis)
\* record(): the next entry of a log.
NextEntry(log, body) == Entry(Len(log), body, HeadHash(log))

\* verify(): every entry in its place, linked to the one before and unaltered.
Verify(log) ==
    \A k \in 1..Len(log) :
        /\ log[k].seq = k - 1
        /\ log[k].prev_hash = (IF k = 1 THEN Genesis ELSE log[k - 1].hash)
        /\ log[k].hash = Digest(log[k].seq, log[k].body, log[k].prev_hash)

\* to_dict()
Packed(log) == [entries |-> log, count |-> Len(log), head_hash |-> HeadHash(log)]

VerifyCount(copy, count, head_hash) ==
    Verify(copy.entries) /\ copy.count = Len(copy.entries) /\ Len(copy.entries) = count
\* verify_export() against a count and a head kept elsewhere.
VerifyExport(copy, count, head_hash) ==
    /\ Verify(copy.entries)
    /\ copy.count = Len(copy.entries) /\ copy.head_hash = HeadHash(copy.entries)
    /\ Len(copy.entries) = count /\ HeadHash(copy.entries) = head_hash

\* The lines of a disclosure report.
Lines(log) ==
    {[seq |-> log[k].seq, body |-> Redacted[log[k].body]] : k \in {j \in 1..Len(log) : log[j].body \in Subject}}
NoReport == [count |-> 0, head_hash |-> Genesis, lines |-> {}]
NoExport == Packed(<<>>)

-----------------------------------------------------------------------------
(* The file. *)

AllButLast(log) == SubSeq(log, 1, Len(log) - 1)

RefusesTornFile == IF tail = "part" THEN <<>> ELSE file
\* _load_persisted(): lines that do not parse are skipped.
Loaded == file

\* A line is written behind one that was cut short: the two are one line, which
\* does not parse.
JoinLast == /\ file' = IF tail = "unended" THEN AllButLast(file) ELSE file
            /\ joined' = TRUE

KeepsTail(e) ==
    /\ IF tail = "clean" THEN file' = Append(file, e) /\ UNCHANGED joined ELSE JoinLast
    /\ UNCHANGED tail
\* The line of an entry with its newline.
Write(e) ==
    /\ IF tail = "clean" THEN file' = Append(file, e) /\ UNCHANGED joined ELSE JoinLast
    /\ tail' = "clean"

\* A first part of it: some of the text, or all of it but the newline.
Tear(e) ==
    \/ tail = "clean" /\ file' = file /\ tail' = "part" /\ UNCHANGED joined
    \/ tail = "clean" /\ file' = Append(file, e) /\ tail' = "unended" /\ UNCHANGED joined
    \/ tail # "clean" /\ JoinLast /\ tail' = "part"

-----------------------------------------------------------------------------
Init ==
    /\ entries = <<>> /\ file = <<>> /\ tail = "clean"
    /\ acked = <<>> /\ fault = "none" /\ joined = FALSE
    /\ report = NoReport /\ disclosed = <<>> /\ export = NoExport /\ edits = 0

Room == Len(entries) < MaxEntries /\ Len(acked) < MaxEntries

Record(body) ==
    LET e == NextEntry(entries, body)
    IN  /\ Room
        /\ entries' = Append(entries, e)
        /\ Write(e)
        /\ acked' = Append(acked, e)
        /\ UNCHANGED <<fault, outside>>

Strike(kind) ==
    /\ kind \in Faults /\ fault \in {"none", kind}
    /\ fault' = kind

\* The file cannot be opened or written: record() raises, with the entry in memory.
WriteFails(body) ==
    /\ Room
    /\ Strike("failed")
    /\ entries' = Append(entries, NextEntry(entries, body))
    /\ UNCHANGED <<file, tail, joined, acked, outside>>

\* The same with part of the line written (the disk is full).
WriteTorn(body) ==
    LET e == NextEntry(entries, body)
    IN  /\ Room
        /\ Strike("torn")
        /\ entries' = Append(entries, e)
        /\ Tear(e)
        /\ UNCHANGED <<acked, outside>>

\* The process stops while it writes a line, and starts again.
CrashInWrite(body) ==
    /\ Room
    /\ Strike("torn")
    /\ Tear(NextEntry(entries, body))
    /\ entries' = file'
    /\ UNCHANGED <<acked, outside>>

\* It stops between two calls, and starts again.
Restart ==
    /\ entries' = Loaded
    /\ UNCHANGED <<onDisk, outside>>

\* disclosure_report(), anchored to the chain.
Disclose ==
    /\ report = NoReport
    /\ report' = [count |-> Len(entries), head_hash |-> HeadHash(entries), lines |-> Lines(entries)]
    /\ disclosed' = entries
    /\ UNCHANGED <<entries, onDisk, export, edits>>

Export ==
    /\ export = NoExport
    /\ export' = Packed(entries)
    /\ UNCHANGED <<entries, onDisk, report, disclosed, edits>>

-----------------------------------------------------------------------------
(* The copy in other hands: any of its entries is altered, removed, moved or     *)
(* chained anew, with or without its count and head being brought up to date.    *)

Edited(log) ==
    /\ edits < MaxEdits
    /\ edits' = edits + 1
    /\ export' \in {[export EXCEPT !.entries = log], Packed(log)}
    /\ UNCHANGED <<entries, onDisk, report, disclosed>>

Alter(k, body) == Edited([export.entries EXCEPT ![k].body = body])

Drop(k) ==
    Edited([j \in 1..(Len(export.entries) - 1) |->
               IF j < k THEN export.entries[j] ELSE export.entries[j + 1]])

Swap(k) ==
    /\ k < Len(export.entries)
    /\ Edited([export.entries EXCEPT ![k] = export.entries[k + 1],
                                     ![k + 1] = export.entries[k]])

Rechain(k) ==
    Edited([export.entries EXCEPT ![k] =
               Entry(k - 1, export.entries[k].body,
                     IF k = 1 THEN Genesis ELSE export.entries[k - 1].hash)])

Next ==
    \/ \E body \in Bodies :
          Record(body) \/ WriteFails(body) \/ WriteTorn(body) \/ CrashInWrite(body)
    \/ Restart \/ Disclose \/ Export
    \/ \E k \in 1..Len(export.entries) :
          \/ \E body \in Bodies : Alter(k, body)
          \/ Drop(k) \/ Swap(k) \/ Rechain(k)

Spec == Init /\ [][Next]_vars

-----------------------------------------------------------------------------
(* Properties. *)

\* A log is a list of entries; of an entry that may have been edited, its shape.
IsEntry(e) == e = [seq |-> e.seq, body |-> e.body, prev_hash |-> e.prev_hash, hash |-> e.hash]
IsLog(log) ==
    /\ Len(log) \in Nat /\ log = [k \in 1..Len(log) |-> log[k]]
    /\ \A k \in 1..Len(log) : IsEntry(log[k]) /\ log[k].seq \in Nat /\ log[k].body \in Bodies

\* Every variable keeps its type, and a last line without its newline is there.
TypeOK ==
    /\ IsLog(entries) /\ IsLog(file) /\ IsLog(acked) /\ IsLog(disclosed) /\ IsLog(export.entries)
    /\ tail \in {"clean", "unended", "part"}
    /\ tail = "unended" => file # <<>>
    /\ fault \in {"none", "failed", "torn"} /\ joined \in BOOLEAN
    /\ report.count \in Nat /\ edits \in Nat
    /\ export = [entries |-> export.entries, count |-> export.count, head_hash |-> export.head_hash]

\* _load_persisted(): until a line is written behind one that was cut short, a
\* restart finds every entry that was acknowledged, in order, and at most the one
\* whose newline is missing besides; and what it finds verifies, unless a write
\* failed without the process being restarted.
RestartLosesNothing ==
    /\ fault = "none" => entries = acked /\ Verify(entries)
    /\ ~ joined => /\ \/ Loaded = acked
                      \/ tail = "unended" /\ Len(Loaded) = Len(acked) + 1 /\ AllButLast(Loaded) = acked
                   /\ fault # "failed" => Verify(Loaded)

\* disclosure_report() and verify_export(): a copy of the log that verifies against
\* the count and the head of a report is the log the report was made of, with exactly
\* the lines it discloses, however it was edited and whatever was lost before.
ReportPinsExport ==
    VerifyExport(export, report.count, report.head_hash) /\ report # NoReport =>
        export.entries = disclosed /\ Lines(export.entries) = report.lines

\* The docstring of _load_persisted: the trail survives a restart, and later entries
\* chain on to it.
AcknowledgedSurvives ==
    \A k \in 1..Len(acked) : \E j \in 1..Len(Loaded) : Loaded[j] = acked[k]
=============================================================================
