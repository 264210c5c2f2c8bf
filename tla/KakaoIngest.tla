------------------------------ MODULE KakaoIngest ------------------------------
(***************************************************************************)
(* The ingest path of the hosted Kakao skill endpoint                      *)
(* (src/src/signal_growth/kakao_skill_server.py, supabase_sink.py):        *)
(* Kakao posts a message, a handler verifies and normalises it, writes it  *)
(* to the events table, on a permanent rejection to the dead-letter table, *)
(* and answers.  Many handlers run at once, each of them can be killed, a  *)
(* write the handler gave up on may still commit, and an answer may come   *)
(* too late, after which Kakao posts the message again.                    *)
(*                                                                         *)
(* A message is what Kakao posts: identity (X-Request-Id, bot, action) and *)
(* text.  The event_id is derived from the identity alone.                 *)
(***************************************************************************)
EXTENDS Integers, FiniteSets

CONSTANTS
    Message,        \* messages Kakao posts
    EventId,
    IdOf,           \* [Message -> EventId]: deterministic_event_id
    Unverified,     \* messages refused with 401 or 400 before any write
    Rejectable,     \* messages a table may refuse with a 4xx status
    Request,        \* requests that can be under way at once
    None

ASSUME IngestAssumption ==
    /\ IdOf \in [Message -> EventId]
    /\ Unverified \subseteq Message /\ Rejectable \subseteq Message
    /\ None \notin Message

Tables == {"events", "dead letters"}

VARIABLES
    table,      \* [Tables -> [EventId -> Message or None]]: what a row holds
    posted,     \* [Request -> Message or None]: what the request carries
    pc,         \* [Request -> where its handler is]
    writes,     \* inserts sent and not yet executed or lost: [table, by]
    refused,    \* messages the events table has refused at least once
    acked       \* messages for which Kakao got a 200 in time

vars == <<table, posted, pc, writes, refused, acked>>

-----------------------------------------------------------------------------
Write(t, r) == [table |-> t, by |-> r]
InFlight(r) == {w \in writes : w.by = r}

Goto(r, label) == pc' = [pc EXCEPT ![r] = label]

(* Kakao posts a message, anew or again.                                   *)
Post(r, m) ==
    /\ pc[r] = "free"
    /\ InFlight(r) = {}
    /\ m \notin acked
    /\ posted' = [posted EXCEPT ![r] = m]
    /\ Goto(r, "received")
    /\ UNCHANGED <<table, writes, refused, acked>>

(* 401 or 400: EventVerificationError, EventIdentityError, bad payload.    *)
RefuseRequest(r) ==
    /\ pc[r] = "received"
    /\ posted[r] \in Unverified
    /\ Goto(r, "refused")
    /\ UNCHANGED <<table, posted, writes, refused, acked>>

SendWrite(r, t, label) ==
    /\ writes' = writes \union {Write(t, r)}
    /\ Goto(r, label)
    /\ UNCHANGED <<table, posted, refused, acked>>

Persist(r) ==
    /\ pc[r] = "received"
    /\ posted[r] \notin Unverified
    /\ SendWrite(r, "events", "persisting")

(* insert ... on conflict (event_id) do nothing.                           *)
Inserted(t, m) ==
    IF table[t][IdOf[m]] = None
      THEN [table EXCEPT ![t][IdOf[m]] = m] ELSE table

Waiting(t) == IF t = "events" THEN "persisting" ELSE "dead-lettering"

(* The insert commits and the 2xx status reaches the handler.              *)
Commit(r, t) ==
    /\ Write(t, r) \in writes
    /\ pc[r] = Waiting(t)
    /\ table' = Inserted(t, posted[r])
    /\ writes' = writes \ {Write(t, r)}
    /\ Goto(r, "answer 200")
    /\ UNCHANGED <<posted, refused, acked>>

(* The insert commits after the handler has given up, or is lost.          *)
CommitLate(r, t) ==
    /\ Write(t, r) \in writes
    /\ pc[r] # Waiting(t)
    /\ table' \in {Inserted(t, posted[r]), table}
    /\ writes' = writes \ {Write(t, r)}
    /\ UNCHANGED <<posted, pc, refused, acked>>

(* Mutant: one except clause for every failure of the event sink.          *)
RejectUnclassified(r, t) ==
    /\ Write(t, r) \in writes
    /\ pc[r] = Waiting(t)
    /\ posted[r] \in Rejectable
    /\ writes' = writes \ {Write(t, r)}
    /\ refused' = IF t = "events" THEN refused \union {posted[r]} ELSE refused
    /\ Goto(r, "answer 503")
    /\ UNCHANGED <<table, posted, acked>>

(* 4xx: SupabaseWriteRejected, a contract failure.                         *)
Reject(r, t) ==
    /\ Write(t, r) \in writes
    /\ pc[r] = Waiting(t)
    /\ posted[r] \in Rejectable
    /\ writes' = writes \ {Write(t, r)}
    /\ refused' = IF t = "events" THEN refused \union {posted[r]} ELSE refused
    /\ Goto(r, IF t = "events" THEN "rejected" ELSE "answer 503")
    /\ UNCHANGED <<table, posted, acked>>

(* Mutant: TransportError is a ValueError, and that clause comes first.    *)
GiveUpAsContract(r, t) ==
    /\ pc[r] = Waiting(t)
    /\ Goto(r, IF t = "events" THEN "rejected" ELSE "answer 503")
    /\ UNCHANGED <<table, posted, writes, refused, acked>>

(* Timeout, 5xx, 408, 425, 429 or an error nobody expected: whether the    *)
(* insert has run or still will, the handler does not know.                *)
GiveUp(r, t) ==
    /\ pc[r] = Waiting(t)
    /\ Goto(r, "answer 503")
    /\ UNCHANGED <<table, posted, writes, refused, acked>>

(* Mutant: the acknowledgement does not wait for the dead letter.          *)
DeadLetterLater(r) ==
    /\ pc[r] = "rejected"
    /\ SendWrite(r, "dead letters", "answer 200")

(* _handle_contract_failure: divert the event.                             *)
DeadLetter(r) ==
    /\ pc[r] = "rejected"
    /\ SendWrite(r, "dead letters", "dead-lettering")

(* The answer reaches Kakao within its deadline.                           *)
Answer(r) ==
    /\ pc[r] \in {"answer 200", "answer 503", "refused"}
    /\ acked' = IF pc[r] = "answer 200" THEN acked \union {posted[r]} ELSE acked
    /\ Goto(r, "free")
    /\ UNCHANGED <<table, posted, writes, refused>>

(* It is late or lost, or the handler dies before it has answered.         *)
LoseAnswer(r) ==
    /\ pc[r] # "free"
    /\ Goto(r, "free")
    /\ UNCHANGED <<table, posted, writes, refused, acked>>

Init ==
    /\ table = [t \in Tables |-> [e \in EventId |-> None]]
    /\ posted = [r \in Request |-> None]
    /\ pc = [r \in Request |-> "free"]
    /\ writes = {}
    /\ refused = {}
    /\ acked = {}

(* A step of the handler of request r.                                     *)
Handle(r) ==
    \/ RefuseRequest(r) \/ Persist(r) \/ DeadLetter(r)
    \/ \E t \in Tables : Commit(r, t) \/ Reject(r, t) \/ GiveUp(r, t)
    \/ Answer(r)

Next == \E r \in Request :
    \/ \E m \in Message : Post(r, m)
    \/ Handle(r) \/ LoseAnswer(r)
    \/ \E t \in Tables : CommitLate(r, t)

Spec == Init /\ [][Next]_vars

(***************************************************************************)
(* What the endpoint assumes of others: Kakao posts a message until it is  *)
(* acknowledged, and each table that is asked again and again answers in   *)
(* time now and then, as does the way back to Kakao.  Of a handler, only   *)
(* that it runs.                                                           *)
(***************************************************************************)
Fairness ==
    /\ \A r \in Request : WF_vars(Handle(r)) /\ WF_vars(\E t \in Tables : CommitLate(r, t))
    /\ \A m \in Message \ Unverified :
         LET carrying(step(_)) == \E r \in Request : posted[r] = m /\ step(r)
             answered(r) == Commit(r, "events") \/ Reject(r, "events")
             deadLettered(r) == Commit(r, "dead letters")
             acknowledged(r) == pc[r] = "answer 200" /\ Answer(r)
         IN  /\ SF_vars(\E r \in Request : Post(r, m))
             /\ SF_vars(carrying(Persist))
             /\ SF_vars(carrying(answered))
             /\ SF_vars(carrying(DeadLetter))
             /\ SF_vars(carrying(deadLettered))
             /\ SF_vars(carrying(acknowledged))

FairSpec == Spec /\ Fairness

-----------------------------------------------------------------------------
Labels == {"free", "received", "refused", "persisting", "rejected",
           "dead-lettering", "answer 200", "answer 503"}

TypeOK ==
    /\ table \in [Tables -> [EventId -> Message \union {None}]]
    /\ posted \in [Request -> Message \union {None}]
    /\ pc \in [Request -> Labels]
    /\ writes \subseteq [table : Tables, by : Request]
    /\ refused \subseteq Rejectable
    /\ acked \subseteq Message \ Unverified
    /\ \A w \in writes : posted[w.by] # None

IsStored(t, m) == table[t][IdOf[m]] # None

(***************************************************************************)
(* An acknowledgement is honest: when Kakao has got its 200, and for ever  *)
(* after, the event is in one of the two tables, whatever timed out, was   *)
(* posted twice or died on the way (KakaoSkillApplication.__call__).       *)
(***************************************************************************)
AckedIsStored == \A m \in acked : \E t \in Tables : IsStored(t, m)

(***************************************************************************)
(* What is in the dead-letter table was refused by the events table;       *)
(* a failure of availability never puts an event there.                    *)
(***************************************************************************)
DeadLettersWereRefused ==
    \A e \in EventId :
        table["dead letters"][e] # None => table["dead letters"][e] \in refused

(***************************************************************************)
(* Nothing of a request that fails verification is ever stored.            *)
(***************************************************************************)
OnlyVerifiedStored ==
    \A t \in Tables, e \in EventId : table[t][e] \notin Unverified

(***************************************************************************)
(* A message Kakao goes on posting is acknowledged in the end, also one    *)
(* that the events table refuses every time.                               *)
(***************************************************************************)
PostedIsAcked ==
    \A m \in Message \ Unverified :
        (\E r \in Request : posted[r] = m) ~> m \in acked

=============================================================================
