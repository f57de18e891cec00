-------------------------- MODULE MCGovernedRecall --------------------------
(* Small instances of GovernedRecall for TLC. *)
EXTENDS GovernedRecall

Turn(subject, relation, object, text, source, trust) ==
    [tenant |-> "acme", subject |-> subject, relation |-> relation, object |-> object,
     text |-> text, source |-> source, trust |-> trust, consent |-> FALSE, allowed |-> {},
     consented |-> {}, risk |-> ""]

\* ada's city, told by herself, by a tool, and under another relation and closer to the
\* query by a scraper; the same of bob; a sensitive remark that is consented to.
MCInputs ==
    {Turn("ada", "location", "berlin", "ada location berlin", "user", 90),
     Turn("ada", "location", "paris", "ada location paris", "user", 90),
     Turn("ada", "location", "paris", "ada location paris", "external_tool", 90),
     Turn("ada", "note", "rome", "where is ada? rome", "scraper", 60),
     Turn("bob", "location", "rome", "bob location rome", "user", 90),
     [Turn("ada", "seniority", "lead", "ada seniority lead", "recruiter_note", 90) EXCEPT
         !.consent = TRUE, !.consented = {"hiring"}]}

Locations == {"ada location berlin", "ada location paris", "bob location rome"}
MCScore ==
    [about \in {"location", "seniority"} |->
        [text \in {c.text : c \in MCInputs} |->
            IF about = "location"
            THEN CASE text = "where is ada? rome" -> 90 [] text = "ada location berlin" -> 75
                   [] text \in Locations -> 70 [] OTHER -> 30
            ELSE IF text = "ada seniority lead" THEN 80 ELSE 20]]

MCQueries ==
    {[tenant |-> "acme", subject |-> subject, about |-> "location", purpose |-> purpose] :
        subject \in {"ada", ""}, purpose \in {"", "scheduling"}}
    \cup {[tenant |-> "acme", subject |-> "ada", about |-> "seniority", purpose |-> "hiring"]}
MCViews ==
    {[tenant |-> "acme", subject |-> "ada", purpose |-> ""],
     [tenant |-> "acme", subject |-> "bob", purpose |-> "scheduling"]}
MCRevocations ==
    {[kind |-> "erased", tenant |-> "acme", term |-> "berlin", purpose |-> ""],
     [kind |-> "consent", tenant |-> "acme", term |-> "paris", purpose |-> "scheduling"]}
Lineage == [Default EXCEPT !.lineage = TRUE, !.deduplicate = TRUE, !.retention = {"high"},
                           !.sweep = TRUE]
MCPolicies == {Default, Recruitment, Pharma, Lineage}
=============================================================================
