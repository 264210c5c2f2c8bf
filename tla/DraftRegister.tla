----------------------------- MODULE DraftRegister -----------------------------
(***************************************************************************)
(* What the reply-draft functions promise, each call taken as one step:    *)
(* a draft that awaits a decision is approved once, a high-risk one only   *)
(* with an owner and a deadline, and that a customer was answered is       *)
(* recorded beside the approval and never forgotten.                       *)
(***************************************************************************)
CONSTANTS Draft, NewRow, Owner, ApprovalId, None

VARIABLE rows       \* [Draft -> row, or None]

Awaiting == {"draft", "awaiting_human_review"}
HighRisk == {"high", "critical"}

Create(d) ==
    /\ rows[d] = None
    /\ \E row \in NewRow : rows' = [rows EXCEPT ![d] = row]

Approve(d) ==
    /\ rows[d] # None
    /\ rows[d].status \in Awaiting
    /\ \E i \in ApprovalId, o \in Owner \union {None}, t \in BOOLEAN :
          /\ rows[d].risk \in HighRisk => o # None /\ t
          /\ rows' = [rows EXCEPT ![d].status = "approved", ![d].approval_id = i,
                                  ![d].owner = o, ![d].deadline = t]

Respond(d) ==
    /\ rows[d] # None
    /\ rows' = [rows EXCEPT ![d].ops_status = "responded"]

Init == rows = [d \in Draft |-> None]

Next == \E d \in Draft : Create(d) \/ Approve(d) \/ Respond(d)

Spec == Init /\ [][Next]_rows
=============================================================================
