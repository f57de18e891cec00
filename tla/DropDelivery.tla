--------------------------- MODULE DropDelivery ---------------------------
(***************************************************************************)
(* What the drop folder of dsar_listener.py delivers, seen by a producer:   *)
(* a file waits, is taken, and is settled with a result. A file that was    *)
(* taken and not settled is lost when the process stops or a poll raises.   *)
(***************************************************************************)
CONSTANT Files

VARIABLES waiting, taken, settled, lost     \* sets of files

delivery == <<waiting, taken, settled, lost>>

Init == waiting = {} /\ taken = {} /\ settled = {} /\ lost = {}

\* The producer writes the file, for the first time or again.
Send(file) ==
    /\ waiting' = waiting \cup {file}
    /\ UNCHANGED <<taken, settled, lost>>

Take(file) ==
    /\ file \in waiting \ taken
    /\ waiting' = waiting \ {file}
    /\ taken' = taken \cup {file}
    /\ UNCHANGED <<settled, lost>>

Settle(file) ==
    /\ file \in taken
    /\ taken' = taken \ {file}
    /\ settled' = settled \cup {file}
    /\ UNCHANGED <<waiting, lost>>

LoseTaken ==
    /\ lost' = lost \cup taken
    /\ taken' = {}
    /\ UNCHANGED <<waiting, settled>>

Next == LoseTaken \/ \E file \in Files : Send(file) \/ Take(file) \/ Settle(file)

Spec == Init /\ [][Next]_delivery

\* No file waits for ever, and none stays in the hands of the listener.
Progress ==
    \A file \in Files : /\ file \in waiting ~> file \notin waiting
                        /\ file \in taken ~> file \notin taken
=============================================================================
