------------------------------ MODULE ReplyDrafts ------------------------------
(***************************************************************************)
(* The reply-draft workflow in the database                                *)
(* (src/supabase/migrations/20260806120000_add_business_routing_and_       *)
(* reply_drafts.sql and 20260809090000_add_ops_discovery_split_and_risk_   *)
(* owner.sql): approve_reply_draft and mark_customer_responded, called by  *)
(* transactions that run at once, as PostgreSQL runs them at its default   *)
(* level, read committed.  A statement sees what is committed when it      *)
(* begins; an UPDATE of a row another transaction has changed waits for    *)
(* that transaction and then tests its condition again; and now() is the   *)
(* time at which the transaction began.                                    *)
(***************************************************************************)
EXTENDS Integers

CONSTANTS
    Transaction,    \* one call each; also the approval_id it would give
    Draft,
    Owner,
    NewRow,         \* the rows the admin application inserts
    Call,           \* the calls it makes
    UnknownIds,     \* TRUE: a call may name a draft that is not there yet
    MaxTime,        \* bound: the clock stops here
    None

Awaiting == {"draft", "awaiting_human_review"}
HighRisk == {"high", "critical"}

Row == [status : {"draft", "awaiting_human_review", "approved", "blocked", "expired"},
        approval_id : Transaction \union {None},
        risk : {"low", "medium", "high", "critical"},
        ops_status : {"unresponded", "responded"},
        owner : Owner \union {None}, deadline : BOOLEAN,
        expires_at : 0..(MaxTime + 1)]

ASSUME ReplyDraftAssumption ==
    /\ NewRow \subseteq {row \in Row : row.status # "approved" /\ row.approval_id = None}
    /\ Call \subseteq [function : {"approve", "respond"}, draft : Draft,
                       owner : Owner \union {None}, deadline : BOOLEAN]
    /\ UnknownIds \in BOOLEAN
    /\ MaxTime \in Nat
    /\ None \notin Row \union Call \union Transaction

VARIABLES
    now,        \* the wall clock
    rows,       \* [Draft -> committed row, or None]
    call,       \* [Transaction -> its call, or None]
    began,      \* [Transaction -> now() of the transaction]
    pc,         \* [Transaction -> where it is]
    pending     \* [Transaction -> the row version it has written, or None]

vars == <<now, rows, call, began, pc, pending>>

-----------------------------------------------------------------------------
Goto(x, label) == pc' = [pc EXCEPT ![x] = label]

(* The admin application inserts a draft.                                  *)
Insert(d) ==
    /\ rows[d] = None
    /\ \E row \in NewRow : rows' = [rows EXCEPT ![d] = row]
    /\ UNCHANGED <<now, call, began, pc, pending>>

Tick ==
    /\ now < MaxTime
    /\ now' = now + 1
    /\ UNCHANGED <<rows, call, began, pc, pending>>

Begin(x, c) ==
    /\ pc[x] = "idle"
    /\ UnknownIds \/ rows[c.draft] # None
    /\ call' = [call EXCEPT ![x] = c]
    /\ began' = [began EXCEPT ![x] = now]
    /\ Goto(x, IF c.function = "approve" THEN "select" ELSE "update")
    /\ UNCHANGED <<now, rows, pending>>

(* Mutant: an owner is enough.                                             *)
UnaccountableWithoutOwner(c) == c.owner = None

Unaccountable(c) == c.owner = None \/ ~c.deadline

(* SELECT risk_class, and the gate: high risk needs owner and deadline.    *)
(* Of an unknown draft the risk is null, which is no high risk.            *)
CheckRisk(x) ==
    LET row == rows[call[x].draft] IN
    /\ pc[x] = "select"
    /\ IF row # None /\ row.risk \in HighRisk /\ Unaccountable(call[x])
         THEN Goto(x, "raised")
         ELSE Goto(x, "update")
    /\ UNCHANGED <<now, rows, call, began, pending>>

Locked(d) == \E y \in Transaction : pending[y] # None /\ call[y].draft = d

(* Mutant: a draft may be approved in the moment in which it expires.      *)
MatchesAtExpiry(x) ==
    LET row == rows[call[x].draft] IN
    /\ row # None
    /\ call[x].function = "approve" =>
          /\ row.status \in Awaiting
          /\ row.expires_at >= began[x]

(* Mutant: the status is not part of the update's condition.               *)
MatchesAnyStatus(x) ==
    LET row == rows[call[x].draft] IN
    /\ row # None
    /\ call[x].function = "approve" => row.expires_at > began[x]

(* The condition of the update, on the row as it is once nobody else holds *)
(* it.                                                                     *)
Matches(x) ==
    LET row == rows[call[x].draft] IN
    /\ row # None
    /\ call[x].function = "approve" =>
          /\ row.status \in Awaiting
          /\ row.expires_at > began[x]

(* Mutant: the old overload, which does not write owner and deadline.      *)
UpdatedWithoutOwner(x) ==
    LET row == rows[call[x].draft] IN
    IF call[x].function = "respond"
      THEN [row EXCEPT !.ops_status = "responded"]
      ELSE [row EXCEPT !.status = "approved", !.approval_id = x]

Coalesce(value, default) == IF value # None THEN value ELSE default

Updated(x) ==
    LET row == rows[call[x].draft]
        c == call[x]
    IN  IF c.function = "respond"
          THEN [row EXCEPT !.ops_status = "responded"]
          ELSE [row EXCEPT !.status = "approved", !.approval_id = x,
                           !.owner = Coalesce(c.owner, row.owner),
                           !.deadline = c.deadline \/ row.deadline]

(* Both functions: update the row, or raise when no row was updated.       *)
Update(x) ==
    /\ pc[x] = "update"
    /\ ~Locked(call[x].draft)
    /\ IF Matches(x)
         THEN /\ pending' = [pending EXCEPT ![x] = Updated(x)]
              /\ Goto(x, "commit")
         ELSE Goto(x, "raised") /\ UNCHANGED pending
    /\ UNCHANGED <<now, rows, call, began>>

(* The row is visible to others and unlocked, and the call returns it.     *)
Commit(x) ==
    /\ pc[x] = "commit"
    /\ rows' = [rows EXCEPT ![call[x].draft] = pending[x]]
    /\ pending' = [pending EXCEPT ![x] = None]
    /\ Goto(x, "returned")
    /\ UNCHANGED <<now, call, began>>

(* The connection breaks before the commit: the database rolls back.       *)
Abort(x) ==
    /\ pc[x] \in {"select", "update", "commit"}
    /\ pending' = [pending EXCEPT ![x] = None]
    /\ Goto(x, "aborted")
    /\ UNCHANGED <<now, rows, call, began>>

Init ==
    /\ now = 0
    /\ rows = [d \in Draft |-> None]
    /\ call = [x \in Transaction |-> None]
    /\ began = [x \in Transaction |-> 0]
    /\ pc = [x \in Transaction |-> "idle"]
    /\ pending = [x \in Transaction |-> None]

Step(x) == CheckRisk(x) \/ Update(x) \/ Commit(x)

Next ==
    \/ Tick
    \/ \E d \in Draft : Insert(d)
    \/ \E x \in Transaction :
          \/ \E c \in Call : Begin(x, c)
          \/ Step(x) \/ Abort(x)

Spec == Init /\ [][Next]_vars

-----------------------------------------------------------------------------
Labels == {"idle", "select", "update", "commit", "returned", "raised", "aborted"}

TypeOK ==
    /\ now \in 0..MaxTime
    /\ rows \in [Draft -> Row \union {None}]
    /\ call \in [Transaction -> Call \union {None}]
    /\ began \in [Transaction -> 0..MaxTime]
    /\ pc \in [Transaction -> Labels]
    /\ pending \in [Transaction -> Row \union {None}]
    /\ \A x \in Transaction : pc[x] = "commit" <=> pending[x] # None

(***************************************************************************)
(* What a call has returned remains true: the draft it approved carries    *)
(* its approval_id for ever, and a customer it marked as answered stays    *)
(* answered, whatever ran at the same time.  In particular no draft is     *)
(* approved twice.                                                         *)
(***************************************************************************)
ReturnedIsTrue ==
    \A x \in Transaction : pc[x] = "returned" =>
        LET row == rows[call[x].draft] IN
        /\ row # None
        /\ call[x].function = "approve" => row.status = "approved" /\ row.approval_id = x
        /\ call[x].function = "respond" => row.ops_status = "responded"

(***************************************************************************)
(* 20260809090000 lines 1-3: an approved draft of high or critical risk    *)
(* has an owner and a deadline.                                            *)
(***************************************************************************)
HighRiskIsOwned ==
    \A d \in Draft :
        (rows[d] # None /\ rows[d].status = "approved" /\ rows[d].risk \in HighRisk)
            => rows[d].owner # None /\ rows[d].deadline

(***************************************************************************)
(* The audit of approvals (reply_drafts_approval_id_consistency, and       *)
(* "expires_at > now()"): at any time and whatever else has been called,   *)
(* the approved drafts are those with an approval_id, and the draft had    *)
(* not expired when the transaction of that approval_id began.  It may     *)
(* have expired while that transaction waited for the row: now() does not  *)
(* move with the clock.                                                    *)
(***************************************************************************)
ApprovedInTime ==
    \A d \in Draft : rows[d] # None =>
        /\ rows[d].status = "approved" <=> rows[d].approval_id # None
        /\ rows[d].status = "approved" => rows[d].expires_at > began[rows[d].approval_id]

(***************************************************************************)
(* Concurrent calls are as if each had run alone: every commit is one step *)
(* of the register.                                                        *)
(***************************************************************************)
Register == INSTANCE DraftRegister WITH ApprovalId <- Transaction
ImplementsRegister == Register!Spec

=============================================================================
