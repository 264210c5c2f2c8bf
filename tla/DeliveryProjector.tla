--------------------------- MODULE DeliveryProjector ---------------------------
(***************************************************************************)
(* DeliveryStateProjector (src/src/signal_growth/connector_state.py): the  *)
(* delivery events of providers, callbacks and polls mixed, late, repeated *)
(* and out of order, are projected one at a time onto the state of the     *)
(* attempt they belong to.  An attempt is an attempt_id with a transport,  *)
(* so that a fallback over another transport is an attempt of its own.     *)
(*                                                                         *)
(* The lists of applied and ignored event ids hold the events themselves   *)
(* here: the properties speak of what was observed, not of its name.       *)
(***************************************************************************)
EXTENDS Integers, Sequences

CONSTANTS
    EventId,        \* delivery_event_id
    Attempt,        \* DeliveryAttemptKey: (attempt_id, transport)
    Ref,            \* provider_message_ref
    Event,          \* the events the providers may report, any number of times
    None

(* CanonicalStatus.                                                        *)
Status == {"draft", "validated", "approved", "submitted", "accepted", "queued",
           "sent", "delivered", "read", "failed", "cancelled", "expired", "unknown"}

ASSUME DeliveryAssumption ==
    /\ Event \subseteq [id : EventId, attempt : Attempt, status : Status,
                        at : Nat, ref : Ref \union {None}]
    /\ None \notin Status
    /\ None \notin Ref

(* Mutant: a status that was overtaken may still be reported.              *)
AllowedWithRegression(s) ==
    CASE s = "submitted" -> {"accepted", "queued", "sent", "delivered", "failed",
                             "cancelled", "expired"}
      [] s = "sent" -> {"queued", "delivered", "failed", "expired"}
      [] s = "queued" -> {"sent", "delivered", "failed", "cancelled", "expired"}
      [] s = "delivered" -> {"read"}
      [] OTHER -> {}

(* _ALLOWED_TRANSITIONS.                                                   *)
Allowed(s) ==
    LET closing == {"cancelled", "expired"}
    IN  CASE s = "draft"     -> {"validated"} \union closing
          [] s = "validated" -> {"approved", "submitted"} \union closing
          [] s = "approved"  -> {"submitted"} \union closing
          [] s = "submitted" -> {"accepted", "queued", "sent", "delivered", "failed"} \union closing
          [] s = "accepted"  -> {"queued", "sent", "delivered", "failed"} \union closing
          [] s = "queued"    -> {"sent", "delivered", "failed"} \union closing
          [] s = "sent"      -> {"delivered", "failed", "expired"}
          [] s = "delivered" -> {"read"}
          [] s = "unknown"   -> Status \ {"unknown"}
          [] OTHER           -> {}

VARIABLES
    seen,       \* _seen_event_ids
    status,     \* [Attempt -> Status, or None where _attempts has no entry]
    statusAt,   \* [Attempt -> Nat]
    refs,       \* [Attempt -> set of provider_message_refs]
    applied,    \* [Attempt -> sequence of events]
    ignored,    \* [Attempt -> sequence of events]
    last,       \* the event project() was last called with and what it answered
    given       \* history: the events project() has been called with

vars == <<seen, status, statusAt, refs, applied, ignored, last, given>>
state == <<seen, status, statusAt, refs, applied, ignored>>

-----------------------------------------------------------------------------
RefsOf(e) == IF e.ref = None THEN {} ELSE {e.ref}

Returns(e, reason) == last' = [event |-> e, reason |-> reason]

(* Already seen: nothing changes.  Where the attempt has no state yet this *)
(* is "dedupe state is inconsistent", a RuntimeError.                      *)
ProjectSeen(e) ==
    /\ e.id \in seen
    /\ Returns(e, IF status[e.attempt] = None THEN "raised" ELSE "duplicate_event")
    /\ UNCHANGED state

(* The first event of an attempt is its state, whatever it says.           *)
ProjectFirst(e) ==
    /\ e.id \notin seen
    /\ status[e.attempt] = None
    /\ seen' = seen \union {e.id}
    /\ status' = [status EXCEPT ![e.attempt] = e.status]
    /\ statusAt' = [statusAt EXCEPT ![e.attempt] = e.at]
    /\ refs' = [refs EXCEPT ![e.attempt] = RefsOf(e)]
    /\ applied' = [applied EXCEPT ![e.attempt] = <<e>>]
    /\ Returns(e, "initial_state")
    /\ UNCHANGED ignored

IsStale(e) == e.at < statusAt[e.attempt]

(* Mutant: the observation time is not compared.                           *)
AdvancesIfAllowed(e) == e.status \in Allowed(status[e.attempt])

Advances(e) ==
    /\ e.status # status[e.attempt]
    /\ ~IsStale(e)
    /\ e.status \in Allowed(status[e.attempt])

(* Mutant: the message reference is only taken from what is applied.       *)
IgnoreWithoutRef(e) ==
    /\ e.id \notin seen
    /\ status[e.attempt] # None
    /\ ~Advances(e)
    /\ seen' = seen \union {e.id}
    /\ ignored' = [ignored EXCEPT ![e.attempt] = Append(@, e)]
    /\ Returns(e, "stale_event")
    /\ UNCHANGED <<status, statusAt, refs, applied>>

(* The same status again, a stale event or one that would regress: it is   *)
(* recorded among the ignored events, and only its reference is taken.     *)
ProjectIgnored(e) ==
    /\ e.id \notin seen
    /\ status[e.attempt] # None
    /\ ~Advances(e)
    /\ seen' = seen \union {e.id}
    /\ refs' = [refs EXCEPT ![e.attempt] = @ \union RefsOf(e)]
    /\ ignored' = [ignored EXCEPT ![e.attempt] = Append(@, e)]
    /\ Returns(e, CASE e.status = status[e.attempt] -> "same_status"
                    [] e.status # status[e.attempt] /\ IsStale(e) -> "stale_event"
                    [] OTHER -> "non_regressing_transition")
    /\ UNCHANGED <<status, statusAt, applied>>

ProjectAdvance(e) ==
    /\ e.id \notin seen
    /\ status[e.attempt] # None
    /\ Advances(e)
    /\ seen' = seen \union {e.id}
    /\ status' = [status EXCEPT ![e.attempt] = e.status]
    /\ statusAt' = [statusAt EXCEPT ![e.attempt] = e.at]
    /\ refs' = [refs EXCEPT ![e.attempt] = @ \union RefsOf(e)]
    /\ applied' = [applied EXCEPT ![e.attempt] = Append(@, e)]
    /\ Returns(e, "advanced")
    /\ UNCHANGED ignored

Init ==
    /\ seen = {}
    /\ status = [k \in Attempt |-> None]
    /\ statusAt = [k \in Attempt |-> 0]
    /\ refs = [k \in Attempt |-> {}]
    /\ applied = [k \in Attempt |-> <<>>]
    /\ ignored = [k \in Attempt |-> <<>>]
    /\ last = None
    /\ given = {}

Next == \E e \in Event :
    /\ ProjectSeen(e) \/ ProjectFirst(e) \/ ProjectIgnored(e) \/ ProjectAdvance(e)
    /\ given' = given \union {e}

Spec == Init /\ [][Next]_vars

-----------------------------------------------------------------------------
TypeOK ==
    /\ seen \subseteq EventId
    /\ status \in [Attempt -> Status \union {None}]
    /\ statusAt \in [Attempt -> Nat]
    /\ refs \in [Attempt -> SUBSET Ref]
    /\ applied \in [Attempt -> Seq(Event)]
    /\ ignored \in [Attempt -> Seq(Event)]
    /\ given \subseteq Event
    /\ \A k \in Attempt : status[k] = None <=> applied[k] = <<>>

(***************************************************************************)
(* How far a delivery has come, where that is known.                       *)
(***************************************************************************)
Progress(s) ==
    CASE s = "draft"     -> 1
      [] s = "validated" -> 2
      [] s = "approved"  -> 3
      [] s = "submitted" -> 4
      [] s = "accepted"  -> 5
      [] s = "queued"    -> 6
      [] s = "sent"      -> 7
      [] s = "delivered" -> 8
      [] OTHER           -> 9

(***************************************************************************)
(* What may follow a status.  "unknown" has no place in the order: what it *)
(* is resolved to may be anything, and recovery-patterns.md lets a         *)
(* delivery that is under way become unknown.  The code never does that    *)
(* (Allowed); the properties that follow allow it either way.              *)
(***************************************************************************)
UnderWay == {"submitted", "accepted", "queued", "sent"}

Forward(s, t) ==
    \/ s = "unknown"
    \/ t = "unknown" /\ s \in UnderWay
    \/ t # "unknown" /\ Progress(s) < Progress(t)

(***************************************************************************)
(* Non-regression (class DeliveryStateProjector: "without merging fallback *)
(* attempts or regressing"): a call takes at most one attempt, that of its *)
(* event, forward, and never to an earlier observation.                    *)
(***************************************************************************)
NeverRegresses == [][
    \A k \in Attempt :
        \/ status[k] = None
        \/ status'[k] = status[k] /\ statusAt'[k] = statusAt[k]
        \/ /\ k = last'.event.attempt
           /\ Forward(status[k], status'[k])
           /\ statusAt'[k] >= statusAt[k]]_vars

(***************************************************************************)
(* The projected state is what the applied list says: status and time are  *)
(* those of its last event, and along the list time does not run back and  *)
(* no known status is followed by one it had overtaken.                    *)
(***************************************************************************)
ProjectionIsLastApplied ==
    \A k \in Attempt : status[k] # None =>
        LET n == Len(applied[k]) IN
        /\ status[k] = applied[k][n].status
        /\ statusAt[k] = applied[k][n].at
        /\ \A i \in 1..n, j \in 1..n : i < j =>
              /\ applied[k][i].at <= applied[k][j].at
              /\ Forward(applied[k][i].status, applied[k][j].status)

(***************************************************************************)
(* No observation is lost and none counts twice, whatever the projector    *)
(* made of it.  Of the events given under one id, exactly one is in the    *)
(* lists of its own attempt, which also knows the message reference that   *)
(* came with it; and nothing is in the lists that was not given.  So an    *)
(* event with an id of its own is kept; of events that share an id, on one *)
(* attempt or on two, the others are kept nowhere.                         *)
(***************************************************************************)
Kept(k) == applied[k] \o ignored[k]

IsKept(e) == \E n \in DOMAIN Kept(e.attempt) : Kept(e.attempt)[n] = e

KeptOnce ==
    /\ \A e \in given : \E o \in given : o.id = e.id /\ IsKept(o)
    /\ \A k \in Attempt : \A n \in DOMAIN Kept(k) :
          /\ Kept(k)[n] \in given
          /\ Kept(k)[n].attempt = k
          /\ RefsOf(Kept(k)[n]) \subseteq refs[k]
    /\ \A k, j \in Attempt : \A n \in DOMAIN Kept(k), m \in DOMAIN Kept(j) :
          Kept(k)[n].id = Kept(j)[m].id => k = j /\ n = m

=============================================================================
