-------------------------- MODULE ChannelIntakeProofs --------------------------
(***************************************************************************)
(* For any provider, conversation, policy files and page size, and for any *)
(* number of deaths of the process and edits of the policy: an event id is *)
(* stored once, the cursor passes nothing, and what is stored was let      *)
(* through by a policy.                                                    *)
(***************************************************************************)
EXTENDS ChannelIntake, SequenceTheorems, FiniteSetTheorems, TLAPS

(* What a delivery may be taken for: never authentic without assurance.    *)
Claim ==
    {w \in [auth : BOOLEAN, assurance : Assurance] : w.assurance = "none" => ~w.auth}

(* Whatever the adapters may make of a message.                            *)
Event ==
    {EventOf(n, v, form, w) : n \in Messages, v \in Nat, form \in {"webhook", "page"},
                              w \in Claim}

IntakeType ==
    /\ setup \in Setups
    /\ sent \in 0 .. Len(Conversation[setup])
    /\ version \in [Messages -> Nat]
    /\ ledger \in Seq(Event)
    /\ inbox \in Event \union {None}
    /\ page \in Seq(Event) \union {None}

(* Some policy the file has held lets events of this assurance through.    *)
Permitted(e) ==
    setup.policy = "default" =>
        \E document \in held : Parses(document) /\ e.assurance \notin document

PolicyInv ==
    /\ policyFile \in held
    /\ setup.policy = "default" /\ Running => policy \in held /\ Parses(policy)
    /\ inbox # None => Permitted(inbox)
    /\ page # None => \A i \in DOMAIN page : Permitted(page[i])
    /\ \A i \in DOMAIN ledger : Permitted(ledger[i])

(* e says of message n what one of its versions says.                      *)
IsOf(e, n) ==
    \E v \in 0 .. version[n] :
        Fingerprint(e) = Fingerprint(EventOf(n, v, "page", Verified(TRUE, "medium")))

Passes(c) == Confirmed(c) \in 0 .. sent /\ \A n \in 1 .. Confirmed(c) : Accounted(n)

(* A cursor passes what is accounted for, and the cursor that came with    *)
(* the page in hand also what is still on that page.                       *)
CursorInv ==
    /\ Passes(cursor) /\ Passes(saved)
    /\ page # None =>
         /\ Confirmed(nextCursor) \in 0 .. sent
         /\ \A n \in 1 .. Confirmed(nextCursor) :
               Accounted(n) \/ \E i \in DOMAIN page : IsOf(page[i], n)

IInv == IntakeType /\ UniqueIds /\ PolicyInv /\ CursorInv

-----------------------------------------------------------------------------
(* What a step that changes neither conversation nor files keeps: the      *)
(* vocabulary of the invariant.                                            *)
LEMMA SameEvents ==
    ASSUME setup' = setup
    PROVE  Event' = Event /\ Messages' = Messages
  BY DEF Event, EventOf, Messages, Message

(* The fingerprint of an event tells neither its form nor how well it was  *)
(* verified.                                                               *)
LEMMA FingerprintOfVersion ==
    ASSUME NEW n, NEW v, NEW form, NEW w
    PROVE  Fingerprint(EventOf(n, v, form, w))
             = Fingerprint(EventOf(n, v, "page", Verified(TRUE, "medium")))
  BY DEF Fingerprint, EventOf, CanonicalEvent

(* An event that has been taken is accounted for, nothing that was is      *)
(* forgotten, and no id is stored twice.                                   *)
LEMMA TakeKeeps ==
    ASSUME IInv, NEW e \in Event, Take(e), Permitted(e),
           UNCHANGED <<setup, provider_side>>
    PROVE  /\ ledger' \in Seq(Event)
           /\ UniqueIds'
           /\ \A i \in DOMAIN ledger' : Permitted(ledger'[i])
           /\ \A n \in Messages : Accounted(n) \/ IsOf(e, n) => Accounted(n)'
  <1>1. ledger \in Seq(Event) /\ Len(ledger) \in Nat /\ DOMAIN ledger = 1 .. Len(ledger)
    BY LenProperties DEF IInv, IntakeType
  <1>2. CASE \E i \in DOMAIN ledger : ledger[i].id = e.id
    <2>1. ledger' = ledger
      BY <1>2 DEF Take
    <2>2. PICK i \in DOMAIN ledger : ledger[i].id = e.id
      BY <1>2
    <2>3. Fingerprint(ledger[i]) = Fingerprint(e) \/ Fingerprint(e) \in dead'
      BY <2>2 DEF Take
    <2>4. dead \subseteq dead'
      BY DEF Take
    <2>5. ASSUME NEW n \in Messages, Accounted(n) \/ IsOf(e, n)
          PROVE  Accounted(n)'
      <3>1. version' = version /\ setup' = setup
        BY DEF provider_side
      <3> QED
        BY <2>1, <2>2, <2>3, <2>4, <2>5, <3>1
           DEF Accounted, IsOf, EventOf, Message
    <2> QED
      BY <1>1, <2>1, <2>5 DEF IInv, UniqueIds, PolicyInv
  <1>3. CASE \A i \in DOMAIN ledger : ledger[i].id # e.id
    <2>1. ledger' = Append(ledger, e)
      BY <1>3 DEF Take
    <2>2. /\ ledger' \in Seq(Event)
          /\ DOMAIN ledger' = 1 .. Len(ledger) + 1
          /\ \A i \in 1 .. Len(ledger) : ledger'[i] = ledger[i]
          /\ ledger'[Len(ledger) + 1] = e
      BY <1>1, <2>1, AppendProperties
    <2>3. UniqueIds'
      BY <1>1, <1>3, <2>2 DEF IInv, UniqueIds
    <2>4. \A i \in DOMAIN ledger' : Permitted(ledger'[i])
      BY <1>1, <2>2 DEF IInv, PolicyInv
    <2>5. dead \subseteq dead'
      BY DEF Take
    <2>6. ASSUME NEW n \in Messages, Accounted(n) \/ IsOf(e, n)
          PROVE  Accounted(n)'
      <3>1. version' = version /\ setup' = setup
        BY DEF provider_side
      <3>2. \A i \in DOMAIN ledger : i \in DOMAIN ledger' /\ ledger'[i] = ledger[i]
        BY <1>1, <2>2
      <3>3. Len(ledger) + 1 \in DOMAIN ledger'
        BY <1>1, <2>2
      <3>4. CASE Accounted(n)
        BY <2>5, <3>1, <3>2, <3>4 DEF Accounted, EventOf, Message
      <3>5. CASE IsOf(e, n)
        BY <2>2, <3>1, <3>3, <3>5 DEF Accounted, IsOf, EventOf, Message
      <3> QED
        BY <2>6, <3>4, <3>5
    <2> QED
      BY <2>2, <2>3, <2>4, <2>6
  <1> QED
    BY <1>2, <1>3

(* Messages that are sent, or edited, take nothing back.                   *)
LEMMA AccountedStays ==
    ASSUME IInv, UNCHANGED <<setup, ledger, dead>>,
           version' \in [Messages -> Nat],
           \A n \in Messages : version[n] <= version'[n]
    PROVE  \A n \in Messages :
              /\ Accounted(n) => Accounted(n)'
              /\ \A e : IsOf(e, n) => IsOf(e, n)'
  <1> SUFFICES ASSUME NEW n \in Messages
               PROVE  /\ Accounted(n) => Accounted(n)'
                      /\ \A e : IsOf(e, n) => IsOf(e, n)'
    OBVIOUS
  <1>1. \A v \in 0 .. version[n] : v \in 0 .. version'[n]
    BY DEF IInv, IntakeType
  <1>2. Accounted(n) => Accounted(n)'
    BY <1>1 DEF Accounted, EventOf, Message
  <1>3. \A e : IsOf(e, n) => IsOf(e, n)'
    BY <1>1 DEF IsOf, EventOf, Message
  <1> QED
    BY <1>2, <1>3

LEMMA CursorStays ==
    ASSUME IInv, UNCHANGED <<setup, cursor, saved, page, nextCursor, ledger, dead>>,
           version' \in [Messages -> Nat],
           \A n \in Messages : version[n] <= version'[n],
           sent' \in 0 .. Len(Conversation[setup]), sent <= sent'
    PROVE  CursorInv'
  <1>1. sent \in Nat /\ sent' \in Nat /\ \A n \in 1 .. sent : n \in Messages
    BY IntakeAssumption DEF IInv, IntakeType, Messages
  <1>2. \A c : Passes(c) => Passes(c)'
    BY <1>1, AccountedStays DEF Passes, Confirmed
  <1>3. page # None =>
          /\ Confirmed(nextCursor) \in 0 .. sent'
          /\ \A n \in 1 .. Confirmed(nextCursor) :
                Accounted(n)' \/ \E i \in DOMAIN page : IsOf(page[i], n)'
    BY <1>1, AccountedStays DEF IInv, CursorInv, Confirmed
  <1> QED
    BY <1>2, <1>3 DEF IInv, CursorInv, Confirmed

(* No event comes or goes.                                                 *)
LEMMA EventsStay ==
    ASSUME IInv, UNCHANGED <<setup, ledger, inbox, page>>,
           held \subseteq held', policyFile' \in held',
           setup.policy = "default" /\ Running' => policy' \in held' /\ Parses(policy')
    PROVE  UniqueIds' /\ PolicyInv'
  <1>1. \A e : Permitted(e) => Permitted(e)'
    BY DEF Permitted
  <1>2. UniqueIds'
    BY DEF IInv, UniqueIds
  <1>3. PolicyInv'
    BY <1>1 DEF IInv, PolicyInv
  <1> QED
    BY <1>2, <1>3

LEMMA SendKeeps == IInv /\ Send => IInv'
  <1> SUFFICES ASSUME IInv, Send PROVE IInv'
    OBVIOUS
  <1> USE DEF Send, policy_side, memory, disk
  <1>1. IntakeType'
    BY SameEvents, IntakeAssumption DEF IInv, IntakeType
  <1>2. UniqueIds' /\ PolicyInv'
    BY EventsStay DEF IInv, PolicyInv, Running
  <1>3. CursorInv'
    <2>1. version' \in [Messages -> Nat] /\ \A n \in Messages : version[n] <= version'[n]
      BY DEF IInv, IntakeType
    <2>2. sent' \in 0 .. Len(Conversation[setup]) /\ sent <= sent'
      BY IntakeAssumption DEF IInv, IntakeType
    <2> QED
      BY <2>1, <2>2, CursorStays
  <1> QED
    BY <1>1, <1>2, <1>3 DEF IInv

LEMMA EditMessageKeeps ==
    ASSUME IInv, NEW n \in Messages, EditMessage(n) PROVE IInv'
  <1> USE DEF EditMessage, policy_side, memory, disk
  <1>1. version' \in [Messages -> Nat] /\ \A k \in Messages : version[k] <= version'[k]
    BY DEF IInv, IntakeType
  <1>2. IntakeType'
    BY <1>1, SameEvents DEF IInv, IntakeType
  <1>3. UniqueIds' /\ PolicyInv'
    BY EventsStay DEF IInv, PolicyInv, Running
  <1>4. CursorInv'
    <2>1. sent' \in 0 .. Len(Conversation[setup]) /\ sent <= sent'
      BY IntakeAssumption DEF IInv, IntakeType
    <2> QED
      BY <1>1, <2>1, CursorStays
  <1> QED
    BY <1>2, <1>3, <1>4 DEF IInv

LEMMA EditPolicyFileKeeps == IInv /\ EditPolicyFile => IInv'
  <1> SUFFICES ASSUME IInv, EditPolicyFile PROVE IInv'
    OBVIOUS
  <1> USE DEF EditPolicyFile, provider_side, memory, disk
  <1>1. IntakeType'
    BY SameEvents DEF IInv, IntakeType
  <1>2. UniqueIds' /\ PolicyInv'
    BY EventsStay DEF IInv, PolicyInv, Running
  <1>3. CursorInv'
    BY CursorStays, IntakeAssumption DEF IInv, IntakeType
  <1> QED
    BY <1>1, <1>2, <1>3 DEF IInv

(* What a new adapter is given is a policy the file holds.                 *)
LEMMA LoadedPolicyIsAPolicy ==
    ASSUME IInv, NEW p \in LoadedPolicy, setup.policy = "default"
    PROVE  p \in held /\ Parses(p)
  BY DEF LoadedPolicy, IInv, PolicyInv

LEMMA StartKeeps == IInv /\ Start => IInv'
  <1> SUFFICES ASSUME IInv, Start PROVE IInv'
    OBVIOUS
  <1> USE DEF Start, provider_side, policy_side, disk
  <1>1. IntakeType'
    BY SameEvents DEF IInv, IntakeType
  <1>2. UniqueIds' /\ PolicyInv'
    BY EventsStay, LoadedPolicyIsAPolicy DEF IInv, PolicyInv
  <1>3. CursorInv'
    <2>1. \A n \in Messages : (Accounted(n) => Accounted(n)') /\ \A e : IsOf(e, n) => IsOf(e, n)'
      BY DEF Accounted, IsOf, EventOf, Message
    <2>2. \A k \in 1 .. sent : k \in Messages
      BY IntakeAssumption DEF IInv, IntakeType, Messages
    <2>3. Passes(saved)'
      BY <2>1, <2>2, IntakeAssumption DEF IInv, IntakeType, CursorInv, Passes, Confirmed
    <2>4. Passes(cursor)'
      BY <2>3 DEF Passes, Accounted, EventOf, Message, Confirmed
    <2>5. page' # None =>
            /\ Confirmed(nextCursor)' \in 0 .. sent'
            /\ \A n \in 1 .. Confirmed(nextCursor)' :
                  Accounted(n)' \/ \E i \in DOMAIN page' : IsOf(page[i], n)'
      BY <2>1, <2>2, IntakeAssumption DEF IInv, IntakeType, CursorInv, Confirmed
    <2> QED
      BY <2>3, <2>4, <2>5 DEF CursorInv, Passes, Confirmed, Accounted, IsOf, EventOf, Message
  <1> QED
    BY <1>1, <1>2, <1>3 DEF IInv

(* What is accounted for stays so while conversation and files stay.       *)
LEMMA SameAccounts ==
    ASSUME UNCHANGED <<setup, version, ledger, dead>>
    PROVE  \A n : (Accounted(n) <=> Accounted(n)') /\ \A e : IsOf(e, n) <=> IsOf(e, n)'
  BY DEF Accounted, IsOf, EventOf, Message

LEMMA ReloadPolicyKeeps == IInv /\ ReloadPolicy => IInv'
  <1> SUFFICES ASSUME IInv, ReloadPolicy PROVE IInv'
    OBVIOUS
  <1> USE DEF ReloadPolicy, provider_side, policy_side, disk
  <1>1. IntakeType'
    BY SameEvents DEF IInv, IntakeType
  <1>2. UniqueIds' /\ PolicyInv'
    BY EventsStay, LoadedPolicyIsAPolicy DEF IInv, PolicyInv
  <1>3. CursorInv'
    BY CursorStays, IntakeAssumption DEF IInv, IntakeType
  <1> QED
    BY <1>1, <1>2, <1>3 DEF IInv

LEMMA CrashKeeps == IInv /\ Crash => IInv'
  <1> SUFFICES ASSUME IInv, Crash PROVE IInv'
    OBVIOUS
  <1> USE DEF Crash, provider_side, policy_side, disk
  <1>1. IntakeType'
    BY SameEvents DEF IInv, IntakeType
  <1>2. UniqueIds' /\ PolicyInv'
    BY DEF IInv, UniqueIds, PolicyInv, Permitted, Running
  <1>3. CursorInv'
    <2>1. Passes(saved)'
      BY SameAccounts DEF IInv, CursorInv, Passes, Confirmed
    <2>2. Passes(cursor)'
      BY IntakeAssumption DEF IInv, IntakeType, Passes, Confirmed
    <2> QED
      BY <2>1, <2>2 DEF CursorInv
  <1> QED
    BY <1>1, <1>2, <1>3 DEF IInv

(* An adapter that runs lets through what a policy lets through that the   *)
(* file has held.                                                          *)
LEMMA AllowedIsPermitted ==
    ASSUME IInv, Running, NEW e, Allows(policy, e.assurance)
    PROVE  Permitted(e)
  BY DEF IInv, PolicyInv, Permitted, Allows, Parses

(* What a webhook or a page is taken for.                                  *)
LEMMA VerifyType ==
    ASSUME NEW s, NEW p, NEW proof, NEW w \in Verify(s, p, proof)
    PROVE  /\ w \in Claim
           /\ Allows(p, w.assurance)
  <1>1. Verified(TRUE, "weak") \in Claim
    BY DEF Verified, Assurance, Claim
  <1>2. Verified(FALSE, "none") \in Claim
    BY DEF Verified, Assurance, Claim
  <1>3. NaverVerify(proof) \subseteq {Verified(TRUE, "weak"), Verified(FALSE, "none")}
    <2>1. CASE proof = "good"
      BY <2>1 DEF NaverVerify
    <2>2. CASE proof = "absent"
      BY <2>2 DEF NaverVerify
    <2>3. CASE proof # "good" /\ proof # "absent"
      BY <2>3 DEF NaverVerify
    <2> QED
      BY <2>1, <2>2, <2>3
  <1>4. TokenVerify(s, proof) \subseteq {Verified(TRUE, "weak"), Verified(FALSE, "none")}
    <2>1. CASE s.token /\ proof = "good"
      BY <2>1 DEF TokenVerify
    <2>2. CASE ~(s.token /\ proof = "good") /\ ~s.token /\ s.environment = "fixture"
      BY <2>2 DEF TokenVerify
    <2>3. CASE ~(s.token /\ proof = "good") /\ ~(~s.token /\ s.environment = "fixture")
      BY <2>3 DEF TokenVerify
    <2> QED
      BY <2>1, <2>2, <2>3
  <1> QED
    BY <1>1, <1>2, <1>3, <1>4 DEF Verify

LEMMA IngestKeeps ==
    ASSUME IInv, NEW n \in Messages, NEW v \in 0 .. version[n],
           NEW proof \in {"good", "bad", "absent"}, Ingest(n, v, proof)
    PROVE  IInv'
  <1> USE DEF Ingest, provider_side, policy_side, disk
  <1>1. PICK w \in Verify(setup, policy, proof) : inbox' = EventOf(n, v, "webhook", w)
    OBVIOUS
  <1>2. w \in Claim /\ Allows(policy, w.assurance)
    BY VerifyType
  <1>3. inbox' \in Event
    <2>1. v \in Nat
      BY DEF IInv, IntakeType
    <2> QED
      BY <1>1, <1>2, <2>1 DEF Event
  <1>4. inbox'.assurance = w.assurance
    BY <1>1 DEF EventOf, CanonicalEvent
  <1>5. Permitted(inbox')
    BY <1>2, <1>4, AllowedIsPermitted
  <1>6. IntakeType'
    BY <1>3, SameEvents DEF IInv, IntakeType
  <1>7. UniqueIds' /\ PolicyInv'
    BY <1>5 DEF IInv, UniqueIds, PolicyInv, Permitted, Running
  <1>8. CursorInv'
    BY CursorStays, IntakeAssumption DEF IInv, IntakeType
  <1> QED
    BY <1>6, <1>7, <1>8 DEF IInv

LEMMA RecordWebhookKeeps == IInv /\ RecordWebhook => IInv'
  <1> SUFFICES ASSUME IInv, RecordWebhook PROVE IInv'
    OBVIOUS
  <1> USE DEF RecordWebhook, provider_side, policy_side
  <1>1. inbox \in Event /\ Permitted(inbox) /\ Take(inbox)
    BY DEF IInv, IntakeType, PolicyInv
  <1>2. /\ ledger' \in Seq(Event)
        /\ UniqueIds'
        /\ \A i \in DOMAIN ledger' : Permitted(ledger'[i])
        /\ \A n \in Messages : Accounted(n) => Accounted(n)'
    BY <1>1, TakeKeeps
  <1>3. IntakeType'
    BY <1>2, SameEvents DEF IInv, IntakeType
  <1>4. PolicyInv'
    BY <1>2 DEF IInv, PolicyInv, Permitted, Running
  <1>5. CursorInv'
    <2>1. \A n \in 1 .. sent : n \in Messages
      BY IntakeAssumption DEF IInv, IntakeType, Messages
    <2>2. \A n, e : IsOf(e, n) => IsOf(e, n)'
      BY DEF IsOf, EventOf, Message
    <2>3. Passes(cursor)' /\ Passes(saved)'
      BY <1>2, <2>1, IntakeAssumption DEF IInv, IntakeType, CursorInv, Passes, Confirmed
    <2>4. ASSUME page # None
          PROVE  /\ Confirmed(nextCursor) \in 0 .. sent
                 /\ \A n \in 1 .. Confirmed(nextCursor) :
                       Accounted(n)' \/ \E i \in DOMAIN page : IsOf(page[i], n)'
      <3>1. /\ Confirmed(nextCursor) \in 0 .. sent
            /\ \A n \in 1 .. Confirmed(nextCursor) :
                  Accounted(n) \/ \E i \in DOMAIN page : IsOf(page[i], n)
        BY <2>4 DEF IInv, CursorInv
      <3>2. sent \in Nat
        BY IntakeAssumption DEF IInv, IntakeType
      <3>3. \A n \in 1 .. Confirmed(nextCursor) : n \in Messages
        BY <2>1, <3>1, <3>2
      <3> QED
        BY <1>2, <2>2, <3>1, <3>3
    <2> QED
      BY <2>3, <2>4 DEF CursorInv, Confirmed
  <1> QED
    BY <1>2, <1>3, <1>4, <1>5 DEF IInv

(* A page holds the messages from the cursor up to its end.                *)
LEMMA PageBounds ==
    ASSUME IInv
    PROVE  /\ sent \in Nat /\ Confirmed(cursor) \in 0 .. sent
           /\ PageEnd \in Confirmed(cursor) .. sent
           /\ DOMAIN PageNumbers = 1 .. PageEnd - Confirmed(cursor)
           /\ \A i \in DOMAIN PageNumbers :
                 PageNumbers[i] = Confirmed(cursor) + i /\ PageNumbers[i] \in Messages
  <1>1. sent \in Nat /\ Len(Conversation[setup]) \in Nat /\ sent <= Len(Conversation[setup])
    BY IntakeAssumption DEF IInv, IntakeType
  <1>2. Confirmed(cursor) \in 0 .. sent
    BY DEF IInv, CursorInv, Passes
  <1>3. PageEnd \in Confirmed(cursor) .. sent
    BY <1>1, <1>2, IntakeAssumption DEF PageEnd
  <1>4. DOMAIN PageNumbers = 1 .. PageEnd - Confirmed(cursor)
    BY DEF PageNumbers
  <1>5. ASSUME NEW i \in DOMAIN PageNumbers
        PROVE  PageNumbers[i] = Confirmed(cursor) + i /\ PageNumbers[i] \in Messages
    BY <1>1, <1>2, <1>3, <1>4 DEF PageNumbers, Messages
  <1> QED
    BY <1>1, <1>2, <1>3, <1>4, <1>5

LEMMA BackfillKeeps ==
    ASSUME IInv, NEW authenticated \in BOOLEAN, Backfill(authenticated)
    PROVE  IInv'
  <1> DEFINE w == BackfillAssurance(authenticated)
  <1>1. /\ UNCHANGED <<setup, provider_side, policy_side, policy, inbox, cursor, disk>>
        /\ Running /\ Allows(policy, w.assurance)
        /\ DOMAIN page' = DOMAIN PageNumbers
        /\ \A i \in DOMAIN PageNumbers :
              page'[i] = EventOf(PageNumbers[i], version[PageNumbers[i]], "page", w)
        /\ page' = [i \in DOMAIN PageNumbers |->
                      EventOf(PageNumbers[i], version[PageNumbers[i]], "page", w)]
        /\ nextCursor' = IF PageEnd < sent THEN PageEnd ELSE None
    BY DEF Backfill, Fetch, CanFetch
  <1>2. w \in Claim
    BY DEF BackfillAssurance, Verified, Assurance, Claim
  <1> HIDE DEF w
  <1>3. \A i \in DOMAIN PageNumbers : version[PageNumbers[i]] \in Nat
    BY PageBounds DEF IInv, IntakeType
  <1>4. \A i \in DOMAIN PageNumbers : page'[i] \in Event /\ page'[i].assurance = w.assurance
    <2> SUFFICES ASSUME NEW i \in DOMAIN PageNumbers
                 PROVE  page'[i] \in Event /\ page'[i].assurance = w.assurance
      OBVIOUS
    <2>1. page'[i] \in Event
      BY <1>1, <1>2, <1>3, PageBounds DEF Event
    <2>2. page'[i].assurance = w.assurance
      BY <1>1 DEF EventOf, CanonicalEvent
    <2> QED
      BY <2>1, <2>2
  <1>5. page' \in Seq(Event)
    <2>1. PICK k \in Nat : DOMAIN PageNumbers = 1 .. k
      BY PageBounds
    <2> QED
      BY <1>1, <1>4, <2>1
  <1>6. IntakeType'
    BY <1>1, <1>5, SameEvents DEF IInv, IntakeType, provider_side, disk
  <1>7. UniqueIds' /\ PolicyInv'
    <2>1. \A i \in DOMAIN page' : Permitted(page'[i])
      BY <1>1, <1>4, AllowedIsPermitted
    <2> QED
      BY <1>1, <2>1 DEF IInv, UniqueIds, PolicyInv, Permitted, Running, policy_side, disk
  <1>8. CursorInv'
    <2>1. UNCHANGED <<setup, version, sent, ledger, dead, cursor, saved>>
      BY <1>1 DEF provider_side, disk
    <2>2. Passes(cursor)' /\ Passes(saved)'
      BY <2>1, SameAccounts DEF IInv, CursorInv, Passes, Confirmed
    <2>3. Confirmed(nextCursor)' \in 0 .. PageEnd
      BY <1>1, PageBounds DEF Confirmed
    <2>4. ASSUME NEW n \in 1 .. Confirmed(nextCursor)'
          PROVE  Accounted(n)' \/ \E i \in DOMAIN page' : IsOf(page[i], n)'
      <3>1. CASE n <= Confirmed(cursor)
        <4>1. n \in 1 .. Confirmed(cursor)
          BY <2>3, <3>1, PageBounds
        <4>2. Accounted(n)
          BY <4>1 DEF IInv, CursorInv, Passes
        <4> QED
          BY <2>1, <4>2, SameAccounts
      <3>2. CASE n > Confirmed(cursor)
        <4>0. n - Confirmed(cursor) \in DOMAIN PageNumbers
          BY <2>3, <3>2, PageBounds
        <4>1. PICK i \in DOMAIN PageNumbers : PageNumbers[i] = n
          BY <2>3, <4>0, PageBounds
        <4>2. page'[i] = EventOf(n, version[n], "page", w)
          BY <1>1, <4>1
        <4>3. Fingerprint(page'[i])
                = Fingerprint(EventOf(n, version[n], "page", Verified(TRUE, "medium")))
          BY <4>2, FingerprintOfVersion
        <4>4. version[n] \in 0 .. version[n]
          BY <1>3, <4>1
        <4>5. IsOf(page'[i], n)
          BY <4>3, <4>4 DEF IsOf
        <4>6. IsOf(page[i], n)'
          BY <2>1, <4>5 DEF IsOf, Fingerprint, EventOf, Message
        <4> QED
          BY <1>1, <4>1, <4>6
      <3> QED
        BY <2>3, <3>1, <3>2, PageBounds
    <2>5. Confirmed(nextCursor)' \in 0 .. sent'
      BY <2>1, <2>3, PageBounds
    <2> QED
      BY <2>2, <2>4, <2>5 DEF CursorInv
  <1> QED
    BY <1>6, <1>7, <1>8 DEF IInv

LEMMA RecordFromPageKeeps == IInv /\ RecordFromPage => IInv'
  <1> SUFFICES ASSUME IInv, RecordFromPage PROVE IInv'
    OBVIOUS
  <1> USE DEF RecordFromPage, provider_side, policy_side
  <1>1. /\ page \in Seq(Event) /\ page # << >> /\ Take(Head(page)) /\ page' = Tail(page)
        /\ page # None
    BY DEF IInv, IntakeType
  <1>2. /\ Len(page) \in Nat /\ DOMAIN page = 1 .. Len(page) /\ 1 \in DOMAIN page
        /\ Head(page) = page[1] /\ Head(page) \in Event
        /\ Tail(page) \in Seq(Event) /\ DOMAIN Tail(page) = 1 .. Len(page) - 1
        /\ \A i \in 1 .. Len(page) - 1 : Tail(page)[i] = page[i + 1]
    BY <1>1, HeadTailProperties, LenProperties, EmptySeq
  <1>3. Permitted(Head(page))
    BY <1>1, <1>2 DEF IInv, PolicyInv
  <1>4. /\ ledger' \in Seq(Event)
        /\ UniqueIds'
        /\ \A i \in DOMAIN ledger' : Permitted(ledger'[i])
        /\ \A n \in Messages : Accounted(n) \/ IsOf(page[1], n) => Accounted(n)'
    BY <1>1, <1>2, <1>3, TakeKeeps
  <1>5. IntakeType'
    BY <1>1, <1>2, <1>4, SameEvents DEF IInv, IntakeType
  <1>6. PolicyInv'
    <2>1. \A i \in DOMAIN page' : Permitted(page'[i])
      BY <1>1, <1>2 DEF IInv, PolicyInv
    <2> QED
      BY <1>4, <2>1 DEF IInv, PolicyInv, Permitted, Running
  <1>7. CursorInv'
    <2>1. sent \in Nat /\ \A n \in 1 .. sent : n \in Messages
      BY IntakeAssumption DEF IInv, IntakeType, Messages
    <2>2. \A n, e : IsOf(e, n) => IsOf(e, n)'
      BY DEF IsOf, EventOf, Message
    <2>3. Passes(cursor)' /\ Passes(saved)'
      BY <1>4, <2>1 DEF IInv, CursorInv, Passes, Confirmed
    <2>4. Confirmed(nextCursor) \in 0 .. sent
      BY <1>1 DEF IInv, CursorInv
    <2>5. ASSUME NEW n \in 1 .. Confirmed(nextCursor)
          PROVE  Accounted(n)' \/ \E i \in DOMAIN page' : IsOf(page[i], n)'
      <3>1. n \in Messages
        BY <2>1, <2>4
      <3>2. Accounted(n) \/ \E i \in DOMAIN page : IsOf(page[i], n)
        BY <1>1 DEF IInv, CursorInv
      <3>3. CASE Accounted(n) \/ IsOf(page[1], n)
        BY <1>4, <3>1, <3>3
      <3>4. ASSUME NEW i \in DOMAIN page, i # 1, IsOf(page[i], n)
            PROVE  \E j \in DOMAIN page' : IsOf(page[j], n)'
        <4>1. i - 1 \in DOMAIN page' /\ page'[i - 1] = page[i]
          BY <1>1, <1>2, <3>4
        <4> QED
          BY <2>2, <3>4, <4>1
      <3> QED
        BY <3>2, <3>3, <3>4
    <2> QED
      BY <2>3, <2>4, <2>5 DEF CursorInv, Confirmed
  <1> QED
    BY <1>4, <1>5, <1>6, <1>7 DEF IInv

LEMMA RecordBackfillKeeps == IInv /\ RecordBackfill => IInv'
  <1> SUFFICES ASSUME IInv, RecordBackfill PROVE IInv'
    OBVIOUS
  <1> USE DEF RecordBackfill, provider_side, policy_side, disk
  <1>1. IntakeType'
    BY SameEvents DEF IInv, IntakeType
  <1>2. UniqueIds' /\ PolicyInv'
    BY DEF IInv, UniqueIds, PolicyInv, Permitted, Running
  <1>3. CursorInv'
    <2>1. page # None /\ DOMAIN page = {}
      BY IntakeAssumption
    <2>2. Passes(nextCursor)
      BY <2>1 DEF IInv, CursorInv, Passes
    <2>3. Passes(cursor)' /\ Passes(saved)'
      BY <2>2, SameAccounts DEF IInv, CursorInv, Passes, Confirmed
    <2> QED
      BY <2>3 DEF CursorInv
  <1> QED
    BY <1>1, <1>2, <1>3 DEF IInv

LEMMA SaveStateKeeps == IInv /\ SaveState => IInv'
  <1> SUFFICES ASSUME IInv, SaveState PROVE IInv'
    OBVIOUS
  <1> USE DEF SaveState, provider_side, policy_side, memory
  <1>1. IntakeType'
    BY SameEvents DEF IInv, IntakeType
  <1>2. UniqueIds' /\ PolicyInv'
    BY DEF IInv, UniqueIds, PolicyInv, Permitted, Running
  <1>3. CursorInv'
    BY SameAccounts DEF IInv, CursorInv, Passes, Confirmed
  <1> QED
    BY <1>1, <1>2, <1>3 DEF IInv

LEMMA InitKeeps == Init => IInv
  <1> SUFFICES ASSUME Init PROVE IInv
    OBVIOUS
  <1>1. IntakeType
    BY IntakeAssumption DEF Init, IntakeType
  <1>2. UniqueIds /\ PolicyInv
    BY DEF Init, UniqueIds, PolicyInv, Running
  <1>3. CursorInv
    BY IntakeAssumption DEF Init, CursorInv, Passes, Confirmed
  <1> QED
    BY <1>1, <1>2, <1>3 DEF IInv

LEMMA StepKeeps == IInv /\ [Next]_vars => IInv'
  <1> SUFFICES ASSUME IInv, [Next]_vars PROVE IInv'
    OBVIOUS
  <1>1. CASE UNCHANGED vars
    <2> USE <1>1 DEF vars, provider_side, policy_side, memory, disk
    <2>1. IntakeType'
      BY SameEvents DEF IInv, IntakeType
    <2>2. UniqueIds' /\ PolicyInv'
      BY EventsStay DEF IInv, PolicyInv, Running
    <2>3. CursorInv'
      BY CursorStays, IntakeAssumption DEF IInv, IntakeType
    <2> QED
      BY <2>1, <2>2, <2>3 DEF IInv
  <1>2. CASE Send \/ EditPolicyFile \/ Start \/ ReloadPolicy \/ Crash
    BY <1>2, SendKeeps, EditPolicyFileKeeps, StartKeeps, ReloadPolicyKeeps, CrashKeeps
  <1>3. CASE \E n \in Messages : EditMessage(n)
    BY <1>3, EditMessageKeeps
  <1>4. CASE \E n \in Messages : \E v \in 0 .. version[n], proof \in {"good", "bad", "absent"} :
                Ingest(n, v, proof)
    BY <1>4, IngestKeeps
  <1>5. CASE \E authenticated \in BOOLEAN : Backfill(authenticated)
    BY <1>5, BackfillKeeps
  <1>6. CASE RecordWebhook \/ RecordFromPage \/ RecordBackfill \/ SaveState
    BY <1>6, RecordWebhookKeeps, RecordFromPageKeeps, RecordBackfillKeeps, SaveStateKeeps
  <1> QED
    BY <1>1, <1>2, <1>3, <1>4, <1>5, <1>6 DEF Next

THEOREM IntakeInvariant == Spec => []IInv
  BY InitKeeps, StepKeeps, PTL DEF Spec

(* No id is stored twice: deduplication against the ledger as it is when   *)
(* an event is appended is enough, across webhooks, pages and restarts.    *)
THEOREM IntakeUniqueIds == Spec => []UniqueIds
  <1>1. IInv => UniqueIds
    BY DEF IInv
  <1> QED
    BY <1>1, IntakeInvariant, PTL

(* The cursor passes no message that is not accounted for, wherever the    *)
(* process dies between page, ledger and saved state.                      *)
THEOREM IntakeNothingSkipped == Spec => []NothingSkipped
  <1>1. IInv => NothingSkipped
    BY DEF IInv, CursorInv, Passes, NothingSkipped
  <1> QED
    BY <1>1, IntakeInvariant, PTL

(* Nothing is stored that every policy the file has held forbids.          *)
THEOREM IntakeOnlyAllowed == Spec => []OnlyAllowedStored
  <1>1. IInv => OnlyAllowedStored
    BY DEF IInv, PolicyInv, Permitted, OnlyAllowedStored
  <1> QED
    BY <1>1, IntakeInvariant, PTL

-----------------------------------------------------------------------------
(* Types.                                                                  *)

LEMMA TypeInit == Init => TypeOK
  <1> SUFFICES ASSUME Init PROVE TypeOK
    OBVIOUS
  <1>1. \A n \in Messages : version[n] \in 0 .. Len(Message(n).texts) - 1
    <2> SUFFICES ASSUME NEW n \in Messages
                 PROVE  version[n] \in 0 .. Len(Message(n).texts) - 1
      OBVIOUS
    <2>1. Len(Message(n).texts) \in Nat \ {0}
      BY IntakeAssumption DEF Init, Messages, Message
    <2>2. version[n] = 0
      BY DEF Init
    <2> QED
      BY <2>1, <2>2
  <1>2. sent \in 0 .. Len(Conversation[setup])
    BY IntakeAssumption DEF Init
  <1> QED
    BY <1>1, <1>2, IntakeAssumption DEF Init, TypeOK, Cursor

(* A version of a message that is edited is one the message has.           *)
LEMMA VersionsInRange ==
    ASSUME TypeOK, IntakeType, setup' = setup,
           version' = version \/ \E n \in Messages : EditMessage(n)
    PROVE  \A n \in Messages : version'[n] \in 0 .. Len(Message(n).texts) - 1
  <1>1. CASE version' = version
    BY <1>1 DEF TypeOK
  <1>2. ASSUME NEW k \in Messages, EditMessage(k), NEW n \in Messages
        PROVE  version'[n] \in 0 .. Len(Message(n).texts) - 1
    <2>1. version[n] \in 0 .. Len(Message(n).texts) - 1 /\ Len(Message(n).texts) \in Nat
      BY IntakeAssumption DEF TypeOK, IntakeType, Messages, Message
    <2>2. version'[n] = IF n = k THEN version[n] + 1 ELSE version[n]
      BY <1>2 DEF EditMessage, IntakeType
    <2>3. n = k => version[n] + 1 < Len(Message(n).texts)
      BY <1>2 DEF EditMessage
    <2> QED
      BY <2>1, <2>2, <2>3
  <1> QED
    BY <1>1, <1>2

LEMMA LoadedPolicyType ==
    \A p \in LoadedPolicy : p # None /\ p \subseteq Assurance
  BY IntakeAssumption DEF LoadedPolicy, FixturePolicy, Parses

LEMMA TypeStep == IInv /\ TypeOK /\ [Next]_vars => TypeOK'
  <1> SUFFICES ASSUME IInv, TypeOK, [Next]_vars PROVE TypeOK'
    OBVIOUS
  <1>0. setup' = setup
    BY DEF Next, vars, Send, EditMessage, EditPolicyFile, Start, ReloadPolicy, Crash,
       Ingest, RecordWebhook, Backfill, Fetch, RecordFromPage, RecordBackfill, SaveState
  <1>1. IInv'
    BY StepKeeps
  <1>2. sent' \in 0 .. Len(Conversation[setup'])
    BY <1>1 DEF IInv, IntakeType
  <1>3. /\ Messages' = Messages /\ Cursor' = Cursor
        /\ \A n \in Messages : Message(n)' = Message(n)
    BY <1>0 DEF Messages, Cursor, Message
  <1>4. version' = version \/ \E n \in Messages : EditMessage(n)
    BY DEF Next, vars, provider_side, Send, EditPolicyFile, Start, ReloadPolicy, Crash,
       Ingest, RecordWebhook, Backfill, Fetch, RecordFromPage, RecordBackfill, SaveState
  <1>5. \A n \in Messages : version'[n] \in 0 .. Len(Message(n).texts) - 1
    BY <1>0, <1>4, VersionsInRange DEF IInv
  <1>6. policy' = None \/ policy' \subseteq Assurance
    BY LoadedPolicyType
       DEF TypeOK, Next, vars, memory, Send, EditMessage, EditPolicyFile, Start, ReloadPolicy,
           Crash, Ingest, RecordWebhook, Backfill, Fetch, RecordFromPage, RecordBackfill, SaveState
  <1>7. ~Running' => inbox' = None /\ page' = None
    <2>1. CASE Start \/ ReloadPolicy
      BY <2>1, LoadedPolicyType DEF Start, ReloadPolicy, Running
    <2>2. CASE Crash
      BY <2>2 DEF Crash
    <2>3. CASE \E n \in Messages : \E v \in 0 .. version[n], proof \in {"good", "bad", "absent"} :
                 Ingest(n, v, proof)
      BY <2>3 DEF Ingest, Running
    <2>4. CASE \E authenticated \in BOOLEAN : Backfill(authenticated)
      BY <2>4 DEF Backfill, CanFetch, Fetch, Running
    <2>5. CASE RecordFromPage
      BY <2>5 DEF TypeOK, RecordFromPage, Running
    <2>6. CASE RecordWebhook \/ RecordBackfill \/ SaveState
      BY <2>6 DEF TypeOK, RecordWebhook, RecordBackfill, SaveState, Running, memory
    <2>7. CASE Send \/ (\E n \in Messages : EditMessage(n)) \/ EditPolicyFile \/ UNCHANGED vars
      BY <2>7 DEF TypeOK, Send, EditMessage, EditPolicyFile, vars, memory, Running
    <2> QED
      BY <2>1, <2>2, <2>3, <2>4, <2>5, <2>6, <2>7 DEF Next
  <1>8. {cursor', nextCursor', saved'} \subseteq Cursor
    <2>1. CASE \E authenticated \in BOOLEAN : Backfill(authenticated)
      <3>1. UNCHANGED <<cursor, saved>> /\ nextCursor' = IF PageEnd < sent THEN PageEnd ELSE None
        BY <2>1 DEF Backfill, Fetch, disk
      <3>2. ASSUME PageEnd < sent PROVE PageEnd \in Messages
        <4>1. PageEnd = Confirmed(cursor) + PageSize
          BY <3>2, PageBounds, IntakeAssumption DEF PageEnd
        <4>2. sent <= Len(Conversation[setup]) /\ Len(Conversation[setup]) \in Nat
          BY IntakeAssumption DEF IInv, IntakeType
        <4> QED
          BY <3>2, <4>1, <4>2, PageBounds, IntakeAssumption DEF Messages
      <3> QED
        BY <3>1, <3>2 DEF TypeOK, Cursor
    <2>2. CASE Start \/ ReloadPolicy \/ Crash
      BY <2>2 DEF TypeOK, Cursor, Start, ReloadPolicy, Crash, disk
    <2>3. CASE \E n \in Messages : \E v \in 0 .. version[n], proof \in {"good", "bad", "absent"} :
                 Ingest(n, v, proof)
      BY <2>3 DEF TypeOK, Ingest, disk
    <2>4. CASE RecordWebhook \/ RecordFromPage \/ RecordBackfill \/ SaveState
      BY <2>4 DEF TypeOK, Cursor, RecordWebhook, RecordFromPage, RecordBackfill, SaveState,
         memory, disk
    <2>5. CASE Send \/ (\E n \in Messages : EditMessage(n)) \/ EditPolicyFile \/ UNCHANGED vars
      BY <2>5 DEF TypeOK, Send, EditMessage, EditPolicyFile, vars, memory, disk
    <2> QED
      BY <2>1, <2>2, <2>3, <2>4, <2>5 DEF Next
  <1>9. restarts' \in 0 .. MaxRestarts /\ edits' \in 0 .. MaxEdits
    BY IntakeAssumption
       DEF TypeOK, Next, vars, policy_side, Send, EditMessage, EditPolicyFile, Start, ReloadPolicy,
           Crash, Ingest, RecordWebhook, Backfill, Fetch, RecordFromPage, RecordBackfill, SaveState
  <1> QED
    BY <1>0, <1>2, <1>3, <1>5, <1>6, <1>7, <1>8, <1>9 DEF TypeOK

(***************************************************************************)
(* Every variable keeps its type, and a connector without a process holds  *)
(* neither a webhook nor a page.                                           *)
(***************************************************************************)
THEOREM IntakeTypeCorrect == Spec => []TypeOK
  BY TypeInit, TypeStep, IntakeInvariant, PTL DEF Spec

-----------------------------------------------------------------------------
(***************************************************************************)
(* Which versions there are events of.  What is stored, in hand or on the  *)
(* page was made of a version the message already had.                     *)
(***************************************************************************)
MadeOf(e, n, v) ==
    \E form \in {"webhook", "page"}, w \in Claim : e = EventOf(n, v, form, w)

Current(e) == \E n \in Messages : \E v \in 0 .. version[n] : MadeOf(e, n, v)

VersionInv ==
    /\ inbox # None => Current(inbox)
    /\ page # None => \A i \in DOMAIN page : Current(page[i])
    /\ \A i \in DOMAIN ledger : Current(ledger[i])

LEMMA CurrentStays ==
    ASSUME IInv, UNCHANGED setup,
           version' = version \/ \E n \in Messages : EditMessage(n)
    PROVE  \A e : Current(e) => Current(e)'
  <1>1. \A n \in Messages : 0 .. version[n] \subseteq 0 .. version'[n]
    BY DEF IInv, IntakeType, EditMessage
  <1>2. \A e, n, v : MadeOf(e, n, v) => MadeOf(e, n, v)'
    BY DEF MadeOf, EventOf, Message
  <1>3. Messages' = Messages
    BY DEF Messages
  <1> QED
    BY <1>1, <1>2, <1>3 DEF Current

(* A step that takes an event stores no other.                             *)
LEMMA TakeAdds ==
    ASSUME ledger \in Seq(Event), NEW e \in Event, Take(e)
    PROVE  \A i \in DOMAIN ledger' :
              ledger'[i] = e \/ (i \in DOMAIN ledger /\ ledger'[i] = ledger[i])
  <1>1. CASE ledger' = ledger
    BY <1>1
  <1>2. CASE ledger' = Append(ledger, e)
    <2>1. /\ Len(ledger) \in Nat /\ DOMAIN ledger = 1 .. Len(ledger)
          /\ DOMAIN ledger' = 1 .. Len(ledger) + 1
          /\ \A i \in 1 .. Len(ledger) : ledger'[i] = ledger[i]
          /\ ledger'[Len(ledger) + 1] = e
      BY <1>2, AppendProperties, LenProperties
    <2> QED
      BY <2>1
  <1> QED
    BY <1>1, <1>2 DEF Take

LEMMA VersionStep == IInv /\ VersionInv /\ [Next]_vars => VersionInv'
  <1> SUFFICES ASSUME IInv, VersionInv, [Next]_vars PROVE VersionInv'
    OBVIOUS
  <1>0. setup' = setup
    BY DEF Next, vars, Send, EditMessage, EditPolicyFile, Start, ReloadPolicy, Crash,
       Ingest, RecordWebhook, Backfill, Fetch, RecordFromPage, RecordBackfill, SaveState
  <1>1. version' = version \/ \E n \in Messages : EditMessage(n)
    BY DEF Next, vars, provider_side, Send, EditPolicyFile, Start, ReloadPolicy, Crash,
       Ingest, RecordWebhook, Backfill, Fetch, RecordFromPage, RecordBackfill, SaveState
  <1>2. \A e : Current(e) => Current(e)'
    BY <1>0, <1>1, CurrentStays
  <1>3. CASE UNCHANGED <<inbox, page, ledger>>
    BY <1>2, <1>3 DEF VersionInv
  <1>4. CASE Crash
    BY <1>2, <1>4 DEF Crash, VersionInv, disk
  <1>5. ASSUME NEW n \in Messages, NEW v \in 0 .. version[n],
               NEW proof \in {"good", "bad", "absent"}, Ingest(n, v, proof)
        PROVE  VersionInv'
    <2>1. UNCHANGED <<page, ledger>>
      BY <1>5 DEF Ingest, disk
    <2>2. PICK w \in Verify(setup, policy, proof) : inbox' = EventOf(n, v, "webhook", w)
      BY <1>5 DEF Ingest
    <2>3. w \in Claim
      BY VerifyType
    <2>4. MadeOf(inbox', n, v)
      BY <2>2, <2>3 DEF MadeOf
    <2>5. Current(inbox')
      BY <2>4 DEF Current
    <2>6. Current(inbox)'
      BY <1>0, <1>5, <2>5 DEF Ingest, provider_side, Current, MadeOf, EventOf, Messages, Message
    <2> QED
      BY <1>2, <2>1, <2>6 DEF VersionInv
  <1>6. ASSUME NEW authenticated \in BOOLEAN, Backfill(authenticated)
        PROVE  VersionInv'
    <2> DEFINE w == BackfillAssurance(authenticated)
    <2>1. /\ UNCHANGED <<version, inbox, ledger>>
          /\ page' = [i \in DOMAIN PageNumbers |->
                        EventOf(PageNumbers[i], version[PageNumbers[i]], "page", w)]
      BY <1>6 DEF Backfill, Fetch, provider_side, disk
    <2>2. w \in Claim
      BY DEF BackfillAssurance, Verified, Assurance, Claim
    <2> HIDE DEF w
    <2>3. ASSUME NEW i \in DOMAIN page' PROVE Current(page[i])'
      <3>1. /\ i \in DOMAIN PageNumbers /\ PageNumbers[i] \in Messages
            /\ page'[i] = EventOf(PageNumbers[i], version[PageNumbers[i]], "page", w)
        BY <2>1, <2>3, PageBounds
      <3>2. version[PageNumbers[i]] \in 0 .. version[PageNumbers[i]]
        BY <3>1 DEF IInv, IntakeType
      <3>3. MadeOf(page'[i], PageNumbers[i], version[PageNumbers[i]])
        BY <2>2, <3>1 DEF MadeOf
      <3>4. Current(page'[i])
        BY <3>1, <3>2, <3>3 DEF Current
      <3> QED
        BY <1>0, <2>1, <3>4 DEF Current, MadeOf, EventOf, Messages, Message
    <2> QED
      BY <1>2, <2>1, <2>3 DEF VersionInv
  <1>7. CASE RecordWebhook
    <2>1. inbox \in Event /\ inbox # None /\ Take(inbox) /\ inbox' = None /\ page' = page
      BY <1>7 DEF RecordWebhook, IInv, IntakeType
    <2>2. \A i \in DOMAIN ledger' : Current(ledger'[i])
      BY <2>1, TakeAdds DEF IInv, IntakeType, VersionInv
    <2> QED
      BY <1>2, <2>1, <2>2 DEF VersionInv
  <1>8. CASE RecordFromPage
    <2>1. page \in Seq(Event) /\ page # << >> /\ Take(Head(page)) /\ page' = Tail(page)
          /\ inbox' = inbox /\ page # None
      BY <1>8 DEF RecordFromPage, IInv, IntakeType
    <2>2. /\ Len(page) \in Nat /\ DOMAIN page = 1 .. Len(page) /\ 1 \in DOMAIN page
          /\ Head(page) = page[1] /\ Head(page) \in Event
          /\ DOMAIN Tail(page) = 1 .. Len(page) - 1
          /\ \A i \in 1 .. Len(page) - 1 : Tail(page)[i] = page[i + 1]
      BY <2>1, HeadTailProperties, LenProperties, EmptySeq
    <2>3. Current(Head(page))
      BY <2>1, <2>2 DEF VersionInv
    <2>4. \A i \in DOMAIN ledger' : Current(ledger'[i])
      BY <2>1, <2>2, <2>3, TakeAdds DEF IInv, IntakeType, VersionInv
    <2>5. \A i \in DOMAIN page' : Current(page'[i])
      BY <2>1, <2>2 DEF VersionInv
    <2> QED
      BY <1>2, <2>1, <2>4, <2>5 DEF VersionInv
  <1>9. CASE RecordBackfill
    BY <1>2, <1>9 DEF RecordBackfill, VersionInv, disk
  <1>10. CASE Send \/ (\E n \in Messages : EditMessage(n)) \/ EditPolicyFile \/ Start
               \/ ReloadPolicy \/ SaveState \/ UNCHANGED vars
    BY <1>3, <1>10 DEF Send, EditMessage, EditPolicyFile, Start, ReloadPolicy, SaveState,
       vars, memory, disk
  <1> QED
    BY <1>4, <1>5, <1>6, <1>7, <1>8, <1>9, <1>10 DEF Next

LEMMA VersionInvariant == Spec => [](IInv /\ VersionInv)
  <1>1. Init => VersionInv
    BY DEF Init, VersionInv
  <1> QED
    BY <1>1, VersionStep, IntakeInvariant, PTL DEF Spec

(* Two events about one message have different ids only as versions of it. *)
IdAt(n, v) == IF setup.provider = "channel_talk" THEN <<Message(n).ref, v>>
              ELSE EventId(setup.provider, Message(n), 0, "page")

LEMMA IdOfVersion ==
    ASSUME IInv, NEW n \in Messages, NEW e, Current(e),
           e.message = MessageRef(setup.provider, Message(n), 0)
    PROVE  \E v \in 0 .. version[n] : e.id = IdAt(n, v)
  <1>0. PICK k \in Messages : \E v \in 0 .. version[k] : MadeOf(e, k, v)
    BY DEF Current
  <1>1. PICK v \in 0 .. version[k] : MadeOf(e, k, v)
    BY <1>0
  <1>2. /\ e.id = EventId(setup.provider, Message(k), v, "page")
        /\ e.message = MessageRef(setup.provider, Message(k), v)
    <2>1. PICK form \in {"webhook", "page"}, w \in Claim : e = EventOf(k, v, form, w)
      BY <1>1 DEF MadeOf
    <2>2. /\ e.id = EventId(setup.provider, Message(k), v, form)
          /\ e.message = MessageRef(setup.provider, Message(k), v)
      BY <2>1 DEF EventOf, CanonicalEvent
    <2>3. EventId(setup.provider, Message(k), v, form)
            = EventId(setup.provider, Message(k), v, "page")
      BY DEF EventId, ChannelTalkId
    <2> QED
      BY <2>2, <2>3
  <1>3. version[n] \in Nat /\ 0 \in 0 .. version[n]
    BY DEF IInv, IntakeType
  <1>4. /\ setup \in Setups /\ n \in 1 .. Len(Conversation[setup])
        /\ k \in 1 .. Len(Conversation[setup])
    BY DEF IInv, IntakeType, Messages
  <1>5. CASE setup.provider = "channel_talk"
    <2>1. Message(k).ref = Message(n).ref
      BY <1>2, <1>5 DEF MessageRef
    <2>2. k = n
      BY <1>4, <1>5, <2>1, ProviderAssumption DEF Message
    <2> QED
      BY <1>1, <1>2, <1>5, <2>2 DEF IdAt, EventId, ChannelTalkId
  <1>6. CASE setup.provider = "naver_talktalk"
    <2>1. e.id = NaverId(Message(k), v) /\ e.message = NaverId(Message(k), v)
      BY <1>2, <1>6 DEF EventId, MessageRef
    <2>2. e.message = NaverId(Message(n), 0)
      BY <1>6 DEF MessageRef
    <2>3. IdAt(n, 0) = NaverId(Message(n), 0)
      BY <1>6 DEF IdAt, EventId
    <2> QED
      BY <1>3, <2>1, <2>2, <2>3
  <1>7. CASE setup.provider = "kakao_openbuilder"
    <2>1. Message(k).ref = Message(n).ref
      BY <1>2, <1>7 DEF MessageRef
    <2>2. Message(k).bot = Message(n).bot
      BY <1>4, <1>7, <2>1, ProviderAssumption DEF Message
    <2>3. e.id = KakaoId(Message(n))
      BY <1>2, <1>7, <2>1, <2>2 DEF EventId, KakaoId
    <2>4. IdAt(n, 0) = KakaoId(Message(n))
      BY <1>7 DEF IdAt, EventId
    <2> QED
      BY <1>3, <2>3, <2>4
  <1> QED
    BY <1>4, <1>5, <1>6, <1>7, IntakeAssumption

LEMMA AtMostOnePerVersion == IInv /\ VersionInv => OneEventPerVersion
  <1> SUFFICES ASSUME IInv, VersionInv, NEW n \in Messages
               PROVE  Cardinality({i \in DOMAIN ledger :
                          ledger[i].message = MessageRef(setup.provider, Message(n), 0)})
                        <= version[n] + 1
    BY DEF OneEventPerVersion, IInv
  <1> DEFINE stored == {i \in DOMAIN ledger :
                          ledger[i].message = MessageRef(setup.provider, Message(n), 0)}
             of == [i \in stored |-> CHOOSE v \in 0 .. version[n] : ledger[i].id = IdAt(n, v)]
  <1>1. version[n] \in Nat
    BY DEF IInv, IntakeType
  <1>2. \A i \in stored : of[i] \in 0 .. version[n] /\ ledger[i].id = IdAt(n, of[i])
    BY IdOfVersion DEF VersionInv
  <1>3. \A i, j \in stored : of[i] = of[j] => i = j
    BY <1>2 DEF IInv, UniqueIds
  <1>4. of \in [stored -> 0 .. version[n]] /\ DOMAIN of = stored
    BY <1>2
  <1> HIDE DEF of, stored
  <1>5. of \in Injection(stored, 0 .. version[n])
    BY <1>3, <1>4 DEF Injection, IsInjective
  <1>6. IsFiniteSet(0 .. version[n]) /\ Cardinality(0 .. version[n]) = version[n] + 1
    BY <1>1, FS_Interval
  <1>7. Cardinality(stored) <= Cardinality(0 .. version[n])
    BY <1>5, <1>6, FS_Injection
  <1> QED
    BY <1>6, <1>7 DEF stored

(***************************************************************************)
(* However often, in whatever form and by whichever way a version of a     *)
(* message comes, and wherever the process dies, it is one event.          *)
(***************************************************************************)
THEOREM IntakeOneEventPerVersion == Spec => []OneEventPerVersion
  BY VersionInvariant, AtMostOnePerVersion, PTL

-----------------------------------------------------------------------------
(* What the adapters store is what the validator asks for.                 *)

LEMMA RedactedTwice ==
    ASSUME NEW text, text.passes \in Nat, text.passes <= 1
    PROVE  Redacted(Redacted(text)) = Redacted(text)
  <1>1. Redacted(text) = [body |-> text.body, passes |-> 0, others |-> 0, long |-> text.long]
    BY DEF Redacted
  <1> QED
    BY <1>1 DEF Redacted

LEMMA StoredSound ==
    ASSUME IInv, TypeOK, VersionInv, NEW i \in DOMAIN ledger, ~Extraordinary(ledger[i])
    PROVE  EventSound(ledger[i]) /\ ledger[i].provider = setup.provider
  <1>0. PICK n \in Messages : \E v \in 0 .. version[n] : MadeOf(ledger[i], n, v)
    BY DEF VersionInv, Current
  <1>1. PICK v \in 0 .. version[n], form \in {"webhook", "page"}, w \in Claim :
          ledger[i] = EventOf(n, v, form, w)
    BY <1>0 DEF MadeOf
  <1> DEFINE text == Message(n).texts[v + 1]
  <1>2. /\ ledger[i].provider = setup.provider /\ ledger[i].channel = Channel(setup.provider)
        /\ ledger[i].content = Redacted(text) /\ ledger[i].others = text.others
        /\ ledger[i].auth = w.auth /\ ledger[i].assurance = w.assurance
    BY <1>1 DEF EventOf, CanonicalEvent
  <1>3. ledger[i].assurance = "none" => ~ledger[i].auth
    BY <1>2 DEF Claim
  <1>4. Channel(setup.provider) \in ChannelsOf(setup.provider)
    BY DEF Channel, ChannelsOf
  <1>5. text.passes \in Nat /\ text.others \in Nat
    <2>1. /\ version[n] \in Nat /\ version[n] \in 0 .. Len(Message(n).texts) - 1
          /\ setup \in Setups /\ n \in 1 .. Len(Conversation[setup])
      BY DEF IInv, IntakeType, TypeOK, Messages
    <2>2. Len(Message(n).texts) \in Nat
      BY <2>1, IntakeAssumption DEF Message
    <2>3. v + 1 \in 1 .. Len(Message(n).texts)
      BY <2>1, <2>2
    <2> QED
      BY <2>1, <2>3, IntakeAssumption DEF Message
  <1>6. Ordinary(text)
    BY <1>1, FingerprintOfVersion DEF Extraordinary
  <1> HIDE DEF text
  <1>7. Redacted(ledger[i].content) = ledger[i].content
    BY <1>2, <1>5, <1>6, RedactedTwice DEF Ordinary
  <1>8. FollowsEventSchema(ledger[i])
    <2>1. ledger[i].content.long = text.long
      BY <1>2 DEF Redacted
    <2> QED
      BY <1>2, <1>6, <2>1 DEF Ordinary, FollowsEventSchema
  <1> QED
    BY <1>2, <1>3, <1>4, <1>7, <1>8 DEF EventSound

LEMMA ConnectionIsSound ==
    ASSUME IInv
    PROVE  ConnectionSound(Directory.connection) /\ StateSound(Directory.state)
  <1>1. setup.mode \in Mode
    BY IntakeAssumption DEF IInv, IntakeType
  <1>2. \A item \in CapabilityList(setup.provider) :
          /\ item.support \in {"supported", "unsupported", "unconfirmed", "disabled_by_policy"}
          /\ item.access \in Mode
    <2> SUFFICES ASSUME NEW c \in Capability
                 PROVE  /\ (CASE c \in Supported(setup.provider) -> "supported"
                              [] c = "reply_send"               -> "disabled_by_policy"
                              [] OTHER                          -> "unsupported")
                             \in {"supported", "unsupported", "unconfirmed", "disabled_by_policy"}
                        /\ (IF c \in {"reply_draft", "reply_send"} THEN "draft_only"
                            ELSE "read_only") \in Mode
      BY DEF CapabilityList
    <2> QED
      BY DEF Mode
  <1> QED
    BY <1>1, <1>2 DEF Directory, ConnectionSound, StateSound, WritesAsMode, Mode

LEMMA DirectoryIsValid == IInv /\ TypeOK /\ VersionInv => StoredIsValid
  <1> SUFFICES ASSUME IInv, TypeOK, VersionInv,
                      NEW place \in Reported(Directory)
               PROVE  place \in {<<"event", i>> : i \in {j \in DOMAIN ledger :
                                                          Extraordinary(ledger[j])}}
    BY DEF StoredIsValid
  <1>1. ConnectionSound(Directory.connection) /\ StateSound(Directory.state)
    BY ConnectionIsSound
  <1>2. /\ Directory.state.connection_id = Directory.connection.connection_id
        /\ Directory.state.provider = Directory.connection.provider
        /\ Directory.connection.provider = setup.provider
        /\ Directory.events = ledger
    BY DEF Directory
  <1>3. PICK j \in DOMAIN ledger : /\ place = <<"event", j>>
                                   /\ ~EventSound(ledger[j]) \/ ledger[j].provider # setup.provider
    BY <1>1, <1>2 DEF Reported
  <1>4. Extraordinary(ledger[j])
    BY <1>3, StoredSound
  <1> QED
    BY <1>3, <1>4

(***************************************************************************)
(* Whatever is stored of an ordinary text, in any conversation,            *)
(* validate_connector_directory accepts, connection and state included.    *)
(***************************************************************************)
THEOREM IntakeStoredIsValid == Spec => []StoredIsValid
  BY VersionInvariant, IntakeTypeCorrect, DirectoryIsValid, PTL
=============================================================================
