--------------------------- MODULE MCMemoryStack ---------------------------
(* Small instances of MemoryStack for TLC. *)
EXTENDS Consolidation

CONSTANTS alice, bob

\* Claims: a candidate's salary expectation, the clients, a health remark, a plan.
Salary(amount) == <<"salary", amount>>
Health == <<"health", "ill">>
Client(name) == <<"target_client", name>>

Input(user, claim, source, at) ==
    [user |-> user, relation |-> claim[1], object |-> claim[2], source |-> source, at |-> at,
     action |-> "store", term |-> "", consent |-> "implicit", restricted |-> FALSE,
     confident |-> TRUE, human |-> FALSE, evidence |-> {<<claim[2], source, at>>}]
Command(user, action, term, source, at) ==
    [Input(user, <<"command", term>>, source, at) EXCEPT !.action = action, !.term = term]

\* One truth, told by several sources in any order: no revocations, no restarts.
Telling ==
    [inputs |-> {Input(alice, Salary("high"), "recruiter_note", 1),
                 Input(alice, Salary("low"), "candidate", 2),
                 Input(alice, Salary("low"), "crm", 1),
                 Input(alice, Salary("high"), "tool", 3),
                 Input(alice, Client("acme"), "candidate", 2),
                 Input(alice, Client("zeta"), "candidate", 3)},
     users |-> {alice}, terms |-> {}, plans |-> FALSE, holds |-> {}, facts |-> 6, commands |-> 0, saves |-> 0]

\* Erasure: a hold, a quarantine, an untrusted revocation, snapshots and restores.
Erasing ==
    [inputs |-> {Input(alice, Salary("high"), "candidate", 1),
                 [Input(alice, Health, "candidate", 2) EXCEPT !.restricted = TRUE],
                 Command(alice, "delete", "that", "user", 2),
                 Command(alice, "do_not_use", "high", "client", 2)},
     users |-> {alice}, terms |-> Terms, plans |-> FALSE, holds |-> {<<"fact", 1>>}, facts |-> 2, commands |-> 1, saves |-> 1]

\* A fact and its event, attached to the client of the day, withdrawn and restored.
Attached ==
    [inputs |-> {Input(alice, Salary("high"), "candidate", 1),
                 Input(alice, Client("acme"), "candidate", 1),
                 Input(alice, Salary("low"), "candidate", 2),
                 Command(alice, "do_not_use", "high", "user", 2)},
     users |-> {alice}, terms |-> Terms, plans |-> FALSE, holds |-> {}, facts |-> 3, commands |-> 1, saves |-> 1]

\* Dry runs and reviews while facts of two users come, conflict and are withdrawn.
Reviewing ==
    [inputs |-> {Input(alice, Salary("high"), "candidate", 1),
                 Input(alice, Salary("high"), "crm", 2),
                 Input(alice, Salary("low"), "client", 2),
                 Input(bob, Salary("high"), "candidate", 1)},
     users |-> {alice}, terms |-> {"high"}, plans |-> TRUE, holds |-> {}, facts |-> 3,
     commands |-> 2, saves |-> 0]

\* Two values of one date, each told again.
Tied ==
    [inputs |-> {Input(alice, Salary("high"), "candidate", 1),
                 Input(alice, Salary("low"), "candidate", 1)},
     users |-> {alice}, terms |-> {}, plans |-> FALSE, holds |-> {}, facts |-> 4, commands |-> 0, saves |-> 0]

\* A source changes its mind and comes back to the first value, and a tool repeats either.
Changing ==
    [inputs |-> {Input(alice, Salary("high"), "candidate", 1),
                 Input(alice, Salary("low"), "candidate", 2),
                 Input(alice, Salary("high"), "candidate", 3),
                 Input(alice, Salary("high"), "tool", 3),
                 Input(alice, Salary("low"), "verified_tool", 4)},
     users |-> {alice}, terms |-> {}, plans |-> FALSE, holds |-> {}, facts |-> 5, commands |-> 0, saves |-> 0]

\* The client is named twice and changes.
Switching ==
    [inputs |-> {Input(alice, Salary("high"), "candidate", 1),
                 Input(alice, Salary("low"), "candidate", 2),
                 Input(alice, Client("acme"), "candidate", 1),
                 Input(alice, Client("acme"), "candidate", 2),
                 Input(alice, Client("zeta"), "candidate", 3)},
     users |-> {alice}, terms |-> {}, plans |-> FALSE, holds |-> {}, facts |-> 5, commands |-> 0, saves |-> 0]

MCWorlds == {Telling, Erasing, Attached, Reviewing, Tied, Changing, Switching}
MCTokenHits == [t \in Terms |-> IF t = "high" THEN {Salary("high")} ELSE {Health}]
MCTextHits == MCTokenHits
MCParaphrases == [t \in Terms |-> {}]
MCTermFor == (Salary("high") :> "high") @@ (Health :> "health")
MCUnsafe == {}
Request(relation, client, as_of) ==
    [user |-> alice, relation |-> relation, client |-> client, as_of |-> as_of,
     sensitive |-> FALSE, reflections |-> TRUE, lineage |-> FALSE, compliance |-> FALSE,
     purpose |-> AnyPurpose]
MCRequests ==
    {Request("salary", client, at) : client \in {NoClient, "acme"}, at \in {NoTime, 2}}
    \cup {Request("target_client", "acme", NoTime),
          [Request("salary", NoClient, NoTime) EXCEPT !.lineage = TRUE],
          [Request("health", NoClient, NoTime) EXCEPT !.sensitive = TRUE, !.compliance = TRUE]}
=============================================================================
