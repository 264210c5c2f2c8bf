----------------------------- MODULE MCReplyDrafts -----------------------------
(* Rows and calls for ReplyDrafts.                                         *)
EXTENDS ReplyDrafts

CONSTANTS d1, ann, ben

Fresh(status, risk, expiry) ==
    [status |-> status, approval_id |-> None, risk |-> risk, ops_status |-> "unresponded",
     owner |-> None, deadline |-> FALSE, expires_at |-> expiry]

MCNewRow == {Fresh("draft", "high", 2), Fresh("awaiting_human_review", "low", 1),
             Fresh("blocked", "critical", 2), Fresh("expired", "low", 0)}

CallOf(f, d, o, t) == [function |-> f, draft |-> d, owner |-> o, deadline |-> t]

Calls(d) ==
    {CallOf("approve", d, ann, TRUE), CallOf("approve", d, ben, FALSE),
     CallOf("approve", d, None, FALSE), CallOf("respond", d, None, FALSE)}

OneDraft == Calls(d1)
=============================================================================
