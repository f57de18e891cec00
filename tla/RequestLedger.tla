---------------------------- MODULE RequestLedger ----------------------------
(***************************************************************************)
(* What the DSAR service promises of a request_id (dsar.py, the docstrings  *)
(* of DSARService and of execute): a request is answered once; every retry  *)
(* replays that answer; only a held request gets a second answer, once,     *)
(* from a reviewer.                                                         *)
(***************************************************************************)
CONSTANT Ids

VARIABLE answer     \* answer[id]: the summary on record, with its status

Unanswered == [status |-> "none"]

Init == answer = [id \in Ids |-> Unanswered]

OthersKeepTheirs(id) == \A other \in Ids \ {id} : answer'[other] = answer[other]

\* execute(): the first answer.
Settle(id) ==
    /\ answer[id].status = "none"
    /\ answer'[id].status \in {"executed", "held"}
    /\ OthersKeepTheirs(id)

\* approve() and reject(): the last answer.
Review(id) ==
    /\ answer[id].status = "held"
    /\ answer'[id].status \in {"approved", "rejected"}
    /\ OthersKeepTheirs(id)

Next == \E id \in Ids : Settle(id) \/ Review(id)

Spec == Init /\ [][Next]_answer
=============================================================================
