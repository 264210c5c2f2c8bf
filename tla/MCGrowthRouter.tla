---------------------------- MODULE MCGrowthRouter ----------------------------
(* A small product: one piece of evidence, one signal, one decision, one   *)
(* action and one approval, each with the lines that may be recorded.      *)
EXTENDS GrowthRouter

NoRefs == [k \in Kind |-> {}]
Refs(k, s) == [NoRefs EXCEPT ![k] = s]
TwoRefs(k, s, l, t) == [NoRefs EXCEPT ![k] = s, ![l] = t]

Evidence == {[id |-> "EV-1", refs |-> NoRefs, strength |-> "awaiting_human_tag", approved_by |-> None],
             [id |-> "EV-1", refs |-> NoRefs, strength |-> "strong", approved_by |-> "ann"]}

SignalLine(status, cited) ==
    [id |-> "SIG-1", refs |-> Refs("evidence", cited), status |-> status, restricted |-> FALSE]
Signal == {SignalLine("new", {"EV-1"}), SignalLine("approved", {"EV-1"}), SignalLine("approved", {})}

Decision == {[id |-> "DEC-1", refs |-> Refs("evidence", {"EV-1"}), status |-> "awaiting_human_review",
              approved_by |-> None],
             [id |-> "DEC-1", refs |-> Refs("evidence", {"EV-1"}), status |-> "approved",
              approved_by |-> "APR-1"]}

Action == {[id |-> "ACT-1", refs |-> Refs("decision", {None}), status |-> "draft",
            external_write |-> TRUE, approved_by |-> None],
           [id |-> "ACT-1", refs |-> TwoRefs("decision", {"DEC-1"}, "metric", {"MET-1"}),
            status |-> "draft", external_write |-> FALSE, approved_by |-> None],
           [id |-> "ACT-1", refs |-> TwoRefs("decision", {"DEC-1"}, "metric", {"MET-1"}),
            status |-> "executed", external_write |-> TRUE, approved_by |-> "APR-1"]}

Outcome == {[id |-> "OUT-1", refs |-> TwoRefs("action", {"ACT-1"}, "metric", {"MET-1"}),
             next_decision_id |-> None, maturity |-> m, conclusion |-> c] :
               <<m, c>> \in {<<"mature", "hold">>, <<"mature", "continue">>,
                            <<"not_mature", "continue">>}}

RunState == {[id |-> "RUN-1", refs |-> NoRefs, awaitsReview |-> w] : w \in BOOLEAN}

Approval == {[id |-> "APR-1", refs |-> NoRefs, scope |-> {"DEC-1", "ACT-1"}, status |-> s] :
               s \in {"approved", "revoked"}}

MCRecords ==
    [evidence |-> Evidence, signal |-> Signal, decision |-> Decision, action |-> Action,
     outcome |-> Outcome, run_state |-> RunState, approval |-> Approval,
     metric |-> {[id |-> "MET-1", refs |-> NoRefs]},
     claim |-> {[id |-> "CLM-1", refs |-> Refs("evidence", {"EV-1"})]},
     visibility_observation |-> {[id |-> "VIS-1", refs |-> NoRefs]},
     content_brief |-> {[id |-> "CB-1", refs |-> TwoRefs("signal", {"SIG-1"}, "evidence", {"EV-1"})]},
     release_note |-> {[id |-> "REL-1", refs |-> TwoRefs("decision", {"DEC-1"}, "action", {"ACT-1"})]}]

(* None and one objective for every way the router treats one.             *)
MCObjective ==
    {None, "introduction", Connect, "plan-customer-reach", "synthesize-interviews",
     "record-growth-decision", "draft-evidence-content", "osmu-fanout",
     "announce-release-to-customers", "audit-answer-visibility"}
=============================================================================
