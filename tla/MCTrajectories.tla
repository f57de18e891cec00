--------------------------- MODULE MCTrajectories ---------------------------
(* The small instance of GovernedRecall, with the stories of the benchmark. *)
EXTENDS MCGovernedRecall, Trajectories

\* lexical_score(): the share of the question's words that a text has.
Words ==
    [t \in {"alex location berlin"} |-> {"alex", "location", "berlin"}]
    @@ [t \in {"alex location paris"} |-> {"alex", "location", "paris"}]
    @@ [t \in {"alex location paris trigger"} |-> {"alex", "location", "paris", "trigger"}]
    @@ [t \in {"alex note secret"} |-> {"alex", "note", "secret"}]
    @@ [t \in {"please forget secret"} |-> {"please", "forget", "secret"}]
    @@ [t \in {"please stop using secret"} |-> {"please", "stop", "using", "secret"}]
Questions ==
    [a \in {"alex location"} |-> {"alex", "location"}]
    @@ [a \in {"alex location trigger"} |-> {"alex", "location", "trigger"}]
    @@ [a \in {"alex note secret"} |-> {"alex", "note", "secret"}]
TrajectoryScore ==
    [about \in DOMAIN Questions \cup DOMAIN MCScore |->
        [text \in DOMAIN Words |->
            IF about \in DOMAIN MCScore THEN 0
            ELSE (100 * Cardinality(Questions[about] \cap Words[text]))
                 \div Cardinality(Questions[about])]
        @@ [text \in {c.text : c \in MCInputs} |->
                IF about \in DOMAIN MCScore THEN MCScore[about][text] ELSE 0]]
=============================================================================
