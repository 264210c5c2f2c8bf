---------------------------- MODULE MCHplanExports ----------------------------
(* One product with what may be appended to its directory: a second line   *)
(* for most ids, a withdrawn approval, and a second chain of evidence,     *)
(* decision, metric and action.                                            *)
EXTENDS HplanExports

Refs(pairs) ==
    [k \in Kind |-> UNION {p[2] : p \in {q \in pairs : q[1] = k}}]
NoRefs == Refs({})

Ev(id) == [id |-> id, refs |-> NoRefs, strength |-> "strong", approved_by |-> "ann"]
Met(id) == [id |-> id, refs |-> NoRefs]
Dec(id, evidence, status) ==
    [id |-> id, refs |-> Refs({<<"evidence", {evidence}>>}), status |-> status,
     approved_by |-> "APR-1"]
Act(id, decision, metric, status) ==
    [id |-> id, refs |-> Refs({<<"decision", {decision}>>, <<"metric", {metric}>>}),
     status |-> status, external_write |-> TRUE, approved_by |-> "APR-1", handoff |-> "h"]
Out(id, mature) ==
    [id |-> id, refs |-> Refs({<<"action", {"ACT-1"}>>, <<"metric", {"MET-1"}>>}),
     mature |-> mature, conclusive |-> TRUE, handoff |-> "h"]
Apr(status) ==
    [id |-> "APR-1", refs |-> NoRefs, scope |-> {"DEC-1", "DEC-2", "ACT-1", "ACT-2"},
     status |-> status]

MCRecords == [NoRecords EXCEPT
    !["evidence"] = {Ev("EV-1"), Ev("EV-2")},
    !["metric"]   = {Met("MET-1"), Met("MET-2")},
    !["decision"] = {Dec("DEC-1", "EV-1", "approved"), Dec("DEC-1", "EV-1", "superseded"),
                     Dec("DEC-2", "EV-2", "approved")},
    !["action"]   = {Act("ACT-1", "DEC-1", "MET-1", "executed"),
                     Act("ACT-1", "DEC-1", "MET-1", "blocked"),
                     Act("ACT-2", "DEC-1", "MET-2", "executed")},
    !["outcome"]  = {Out("OUT-1", TRUE), Out("OUT-2", FALSE)},
    !["approval"] = {Apr("approved"), Apr("revoked")}]

Planned == [Unread EXCEPT
    !["evidence"] = <<Ev("EV-1")>>,
    !["metric"]   = <<Met("MET-1")>>,
    !["decision"] = <<Dec("DEC-1", "EV-1", "approved")>>,
    !["approval"] = <<Apr("approved")>>]
Executed == [Planned EXCEPT !["action"] = <<Act("ACT-1", "DEC-1", "MET-1", "executed")>>]
Measured == [Executed EXCEPT !["outcome"] = <<Out("OUT-1", TRUE)>>]
Blocked == [Measured EXCEPT
    !["action"] = <<Act("ACT-1", "DEC-1", "MET-1", "executed"),
                    Act("ACT-1", "DEC-1", "MET-1", "blocked")>>]
Dangling == [Planned EXCEPT !["decision"] = <<Dec("DEC-2", "EV-2", "approved")>>]

MCDirectories == {Planned, Executed, Measured, Blocked, Dangling}

MCHandoffs == {[project |-> "p", ref |-> "h"]}

Call(kind, id, known) == [kind |-> kind, id |-> id, project |-> "p", known |-> known]
MCCalls == {Call("reconsideration", "OUT-1", TRUE), Call("reconsideration", None, TRUE),
            Call("intake", "DEC-1", TRUE), Call("intake", None, TRUE),
            Call("intake", "DEC-2", FALSE)}
=============================================================================
