------------------------- MODULE HostedEndpointProofs -------------------------
(***************************************************************************)
(* The endpoint acknowledges honestly, for any number of messages and of   *)
(* concurrent requests, any sharing of identities, and whatever the tables *)
(* refuse; its health check calls no storage reachable that has been       *)
(* silent for long, for any number of threads, lifetime of a verdict and   *)
(* duration of a call; and one process that serves both does both.         *)
(***************************************************************************)
EXTENDS HostedEndpoint, TLAPS

-----------------------------------------------------------------------------
(* The ingest path.                                                        *)

(* Where a handler has passed verification.                                *)
Verified == {"persisting", "rejected", "dead-lettering", "answer 200", "answer 503"}

(* A request and its inserts carry a verified message; one that is about   *)
(* to be, or may yet be, dead-lettered was refused by the events table;    *)
(* a 200 is prepared for a stored event only.                              *)
RequestInv(r) ==
    /\ pc[r] = "received" => posted[r] \in Message
    /\ pc[r] \in Verified => posted[r] \in Message \ Unverified
    /\ pc[r] \in {"rejected", "dead-lettering"} => posted[r] \in refused
    /\ pc[r] = "answer 200" => \E t \in Tables : IsStored(t, posted[r])

WriteInv(w) ==
    /\ posted[w.by] \in Message \ Unverified
    /\ w.table = "dead letters" => posted[w.by] \in refused

IInv ==
    /\ TypeOK
    /\ \A r \in Request : RequestInv(r)
    /\ \A w \in writes : WriteInv(w)
    /\ AckedIsStored
    /\ DeadLettersWereRefused
    /\ OnlyVerifiedStored

-----------------------------------------------------------------------------
(* An insert fills an empty row and leaves every other row as it was.      *)
LEMMA InsertedEffect ==
    ASSUME TypeOK, NEW t \in Tables, NEW m \in Message
    PROVE  /\ Inserted(t, m) \in [Tables -> [EventId -> Message \union {None}]]
           /\ Inserted(t, m)[t][IdOf[m]] # None
           /\ \A u \in Tables, e \in EventId :
                 \/ Inserted(t, m)[u][e] = table[u][e]
                 \/ u = t /\ table[u][e] = None /\ Inserted(t, m)[u][e] = m
  <1>1. IdOf[m] \in EventId /\ m # None
    BY IngestAssumption
  <1>2. table \in [Tables -> [EventId -> Message \union {None}]]
    BY DEF TypeOK
  <1>3. CASE table[t][IdOf[m]] # None
    BY <1>1, <1>2, <1>3 DEF Inserted
  <1>4. CASE table[t][IdOf[m]] = None
    <2>1. Inserted(t, m) = [table EXCEPT ![t] = [table[t] EXCEPT ![IdOf[m]] = m]]
      BY <1>4 DEF Inserted
    <2> QED
      BY <1>1, <1>2, <1>4, <2>1
  <1> QED
    BY <1>3, <1>4

(* After an insert what was stored is stored, and the rest of the          *)
(* invariant that speaks of the tables holds.                              *)
LEMMA InsertedKeeps ==
    ASSUME IInv, NEW t \in Tables, NEW m \in Message \ Unverified,
           t = "dead letters" => m \in refused,
           table' = Inserted(t, m), refused' = refused, acked' = acked
    PROVE  /\ table' \in [Tables -> [EventId -> Message \union {None}]]
           /\ IsStored(t, m)'
           /\ \A u \in Tables, n \in Message : IsStored(u, n) => IsStored(u, n)'
           /\ AckedIsStored' /\ DeadLettersWereRefused' /\ OnlyVerifiedStored'
  <1>a. TypeOK /\ m \in Message
    BY DEF IInv
  <1>1. /\ table' \in [Tables -> [EventId -> Message \union {None}]]
        /\ table'[t][IdOf[m]] # None
        /\ \A u \in Tables, e \in EventId :
              \/ table'[u][e] = table[u][e]
              \/ u = t /\ table[u][e] = None /\ table'[u][e] = m
    <2>1. Inserted(t, m) \in [Tables -> [EventId -> Message \union {None}]]
      BY <1>a, InsertedEffect, Zenon
    <2>2. Inserted(t, m)[t][IdOf[m]] # None
      BY <1>a, InsertedEffect, Zenon
    <2>3. ASSUME NEW u \in Tables, NEW e \in EventId
          PROVE  \/ Inserted(t, m)[u][e] = table[u][e]
                 \/ u = t /\ table[u][e] = None /\ Inserted(t, m)[u][e] = m
      <3>1. table \in [Tables -> [EventId -> Message \union {None}]]
        BY <1>a DEF TypeOK
      <3>2. CASE table[t][IdOf[m]] = None
        <4>1. Inserted(t, m) = [table EXCEPT ![t] = [table[t] EXCEPT ![IdOf[m]] = m]]
          BY <3>2 DEF Inserted
        <4>2. CASE u # t
          BY <3>1, <4>1, <4>2
        <4>3. CASE u = t
          <5>1. Inserted(t, m)[t] = [table[t] EXCEPT ![IdOf[m]] = m]
            BY <3>1, <4>1
          <5>2. table[t] \in [EventId -> Message \union {None}]
            BY <3>1
          <5> QED
            BY <3>2, <4>3, <5>1, <5>2
        <4> QED
          BY <4>2, <4>3
      <3>3. CASE table[t][IdOf[m]] # None
        BY <3>3 DEF Inserted
      <3> QED
        BY <3>2, <3>3
    <2> QED
      BY <2>1, <2>2, <2>3, Zenon
  <1>2. \A n \in Message : IdOf[n] \in EventId
    BY IngestAssumption
  <1>3. \A u \in Tables, n \in Message : IsStored(u, n) => IsStored(u, n)'
    BY <1>1, <1>2 DEF IsStored
  <1>4. AckedIsStored'
    BY <1>3 DEF IInv, TypeOK, AckedIsStored
  <1>5. DeadLettersWereRefused'
    <2>1. "dead letters" \in Tables
      BY DEF Tables
    <2> QED
      BY <1>1, <2>1 DEF IInv, DeadLettersWereRefused
  <1>6. OnlyVerifiedStored'
    BY <1>1 DEF IInv, OnlyVerifiedStored
  <1> QED
    BY <1>1, <1>3, <1>4, <1>5, <1>6 DEF IsStored

LEMMA IngestInit == Init => IInv
  <1> SUFFICES ASSUME Init PROVE IInv
    OBVIOUS
  <1>1. TypeOK
    BY DEF Init, TypeOK, Labels
  <1>2. \A r \in Request : RequestInv(r)
    BY DEF Init, RequestInv, Verified
  <1>3. None \notin Unverified
    BY IngestAssumption
  <1>4. DeadLettersWereRefused /\ OnlyVerifiedStored
    BY <1>3 DEF Init, DeadLettersWereRefused, OnlyVerifiedStored, Tables
  <1> QED
    BY <1>1, <1>2, <1>4 DEF Init, IInv, AckedIsStored

LEMMA IngestStep == IInv /\ [Next]_vars => IInv'
  <1> SUFFICES ASSUME IInv, [Next]_vars PROVE IInv'
    OBVIOUS
  <1> USE DEF Goto
  <1>0. /\ TypeOK
        /\ \A r \in Request : RequestInv(r)
        /\ \A w \in writes : WriteInv(w)
        /\ AckedIsStored /\ DeadLettersWereRefused /\ OnlyVerifiedStored
    BY DEF IInv
  <1>1. ASSUME NEW r \in Request, NEW m \in Message, Post(r, m) PROVE IInv'
    <2>1. TypeOK'
      BY <1>0, <1>1, IngestAssumption DEF TypeOK, Post, Labels, InFlight
    <2>2. \A q \in Request : RequestInv(q)'
      BY <1>0, <1>1 DEF TypeOK, Post, RequestInv, Verified, IsStored
    <2>3. \A w \in writes' : WriteInv(w)'
      BY <1>0, <1>1 DEF TypeOK, Post, InFlight, WriteInv
    <2> QED
      BY <1>0, <1>1, <2>1, <2>2, <2>3
         DEF IInv, Post, AckedIsStored, DeadLettersWereRefused, OnlyVerifiedStored, IsStored
  <1>2. ASSUME NEW r \in Request, RefuseRequest(r) \/ LoseAnswer(r) \/ Answer(r)
        PROVE  IInv'
    <2>1. TypeOK'
      BY <1>0, <1>2 DEF TypeOK, RefuseRequest, LoseAnswer, Answer, Labels, RequestInv, Verified
    <2>2. \A q \in Request : RequestInv(q)'
      BY <1>0, <1>2 DEF TypeOK, RefuseRequest, LoseAnswer, Answer, RequestInv, Verified, IsStored
    <2>3. \A w \in writes' : WriteInv(w)'
      BY <1>0, <1>2 DEF RefuseRequest, LoseAnswer, Answer, WriteInv
    <2>4. AckedIsStored'
      BY <1>0, <1>2 DEF RefuseRequest, LoseAnswer, Answer, AckedIsStored, IsStored, RequestInv
    <2> QED
      BY <1>0, <1>2, <2>1, <2>2, <2>3, <2>4
         DEF IInv, RefuseRequest, LoseAnswer, Answer, DeadLettersWereRefused, OnlyVerifiedStored
  <1>3. ASSUME NEW r \in Request, Persist(r) PROVE IInv'
    <2>1. posted[r] \in Message \ Unverified
      BY <1>0, <1>3 DEF Persist, RequestInv, Verified
    <2>2. TypeOK'
      <3>1. Write("events", r) \in [table : Tables, by : Request]
        BY DEF Write, Tables
      <3>2. /\ writes' = writes \union {Write("events", r)}
            /\ Write("events", r).by = r
        BY <1>3 DEF Persist, SendWrite, Write
      <3>3. \A w \in writes' : posted[w.by] # None
        BY <1>0, <2>1, <3>2, IngestAssumption DEF TypeOK
      <3> QED
        BY <1>0, <1>3, <3>1, <3>2, <3>3 DEF TypeOK, Persist, SendWrite, Labels
    <2>3. \A q \in Request : RequestInv(q)'
      BY <1>0, <1>3, <2>1 DEF TypeOK, Persist, SendWrite, RequestInv, Verified, IsStored
    <2>4. ASSUME NEW w \in writes' PROVE WriteInv(w)'
      <3>1. CASE w \in writes
        BY <1>0, <1>3, <3>1 DEF Persist, SendWrite, WriteInv
      <3>2. CASE w = Write("events", r)
        BY <1>0, <1>3, <2>1, <3>2 DEF Persist, SendWrite, WriteInv, Write, RequestInv
      <3> QED
        BY <1>3, <3>1, <3>2 DEF Persist, SendWrite
    <2> QED
      BY <1>0, <1>3, <2>2, <2>3, <2>4
         DEF IInv, Persist, SendWrite, AckedIsStored, DeadLettersWereRefused,
             OnlyVerifiedStored, IsStored
  <1>8. ASSUME NEW r \in Request, DeadLetter(r) PROVE IInv'
    <2>1. posted[r] \in Message \ Unverified
      BY <1>0, <1>8 DEF DeadLetter, RequestInv, Verified
    <2>2. TypeOK'
      <3>1. Write("dead letters", r) \in [table : Tables, by : Request]
        BY DEF Write, Tables
      <3>2. /\ writes' = writes \union {Write("dead letters", r)}
            /\ Write("dead letters", r).by = r
        BY <1>8 DEF DeadLetter, SendWrite, Write
      <3>3. \A w \in writes' : posted[w.by] # None
        BY <1>0, <2>1, <3>2, IngestAssumption DEF TypeOK
      <3> QED
        BY <1>0, <1>8, <3>1, <3>2, <3>3 DEF TypeOK, DeadLetter, SendWrite, Labels
    <2>3. \A q \in Request : RequestInv(q)'
      BY <1>0, <1>8, <2>1 DEF TypeOK, DeadLetter, SendWrite, RequestInv, Verified, IsStored
    <2>4. ASSUME NEW w \in writes' PROVE WriteInv(w)'
      <3>1. CASE w \in writes
        BY <1>0, <1>8, <3>1 DEF DeadLetter, SendWrite, WriteInv
      <3>2. CASE w = Write("dead letters", r)
        BY <1>0, <1>8, <2>1, <3>2 DEF DeadLetter, SendWrite, WriteInv, Write, RequestInv
      <3> QED
        BY <1>8, <3>1, <3>2 DEF DeadLetter, SendWrite
    <2> QED
      BY <1>0, <1>8, <2>2, <2>3, <2>4
         DEF IInv, DeadLetter, SendWrite, AckedIsStored, DeadLettersWereRefused,
             OnlyVerifiedStored, IsStored
  <1>4. ASSUME NEW r \in Request, NEW t \in Tables, Commit(r, t) PROVE IInv'
    <2>1. posted[r] \in Message \ Unverified /\ (t = "dead letters" => posted[r] \in refused)
      BY <1>0, <1>4 DEF Commit, WriteInv, Write
    <2>2. /\ table' \in [Tables -> [EventId -> Message \union {None}]]
          /\ IsStored(t, posted[r])'
          /\ \A u \in Tables, n \in Message : IsStored(u, n) => IsStored(u, n)'
          /\ AckedIsStored' /\ DeadLettersWereRefused' /\ OnlyVerifiedStored'
      BY <1>4, <2>1, InsertedKeeps DEF Commit
    <2>3. TypeOK'
      BY <1>0, <1>4, <2>2 DEF TypeOK, Commit, Labels
    <2>4. ASSUME NEW q \in Request PROVE RequestInv(q)'
      <3>1. CASE q = r
        <4>1. pc'[q] = "answer 200" /\ posted'[q] = posted[r]
          BY <1>0, <1>4, <3>1 DEF TypeOK, Commit
        <4>2. IsStored(t, posted[q])'
          BY <1>4, <2>2, <3>1 DEF Commit
        <4> QED
          BY <2>1, <4>1, <4>2 DEF RequestInv
      <3>2. CASE q # r
        <4>1. pc'[q] = pc[q] /\ posted'[q] = posted[q] /\ refused' = refused
          BY <1>0, <1>4, <3>2 DEF TypeOK, Commit
        <4>2. RequestInv(q)
          BY <1>0
        <4>3. pc[q] = "answer 200" => \E u \in Tables : IsStored(u, posted[q])'
          <5>1. pc[q] = "answer 200" => posted[q] \in Message
            BY <4>2 DEF RequestInv, Verified
          <5> QED
            BY <1>4, <2>2, <4>2, <5>1 DEF RequestInv, Commit, IsStored
        <4> QED
          BY <4>1, <4>2, <4>3 DEF RequestInv
      <3> QED
        BY <3>1, <3>2
    <2>5. \A w \in writes' : WriteInv(w)'
      BY <1>0, <1>4 DEF Commit, WriteInv
    <2> QED
      BY <2>2, <2>3, <2>4, <2>5 DEF IInv
  <1>5. ASSUME NEW r \in Request, NEW t \in Tables, CommitLate(r, t) PROVE IInv'
    <2>1. posted[r] \in Message \ Unverified /\ (t = "dead letters" => posted[r] \in refused)
      BY <1>0, <1>5 DEF CommitLate, WriteInv, Write
    <2>2. /\ table' \in [Tables -> [EventId -> Message \union {None}]]
          /\ \A u \in Tables, n \in Message : IsStored(u, n) => IsStored(u, n)'
          /\ AckedIsStored' /\ DeadLettersWereRefused' /\ OnlyVerifiedStored'
      <3>1. CASE table' = Inserted(t, posted[r])
        BY <1>5, <2>1, <3>1, InsertedKeeps DEF CommitLate
      <3>2. CASE table' = table
        BY <1>0, <1>5, <3>2
           DEF CommitLate, TypeOK, AckedIsStored, DeadLettersWereRefused, OnlyVerifiedStored, IsStored
      <3> QED
        BY <1>5, <3>1, <3>2 DEF CommitLate
    <2>3. TypeOK'
      BY <1>0, <1>5, <2>2 DEF TypeOK, CommitLate
    <2>4. ASSUME NEW q \in Request PROVE RequestInv(q)'
      <3>1. pc' = pc /\ posted' = posted /\ refused' = refused
        BY <1>5 DEF CommitLate
      <3>2. RequestInv(q)
        BY <1>0
      <3>3. pc[q] = "answer 200" => posted[q] \in Message
        BY <3>2 DEF RequestInv, Verified
      <3>4. pc[q] = "answer 200" => \E u \in Tables : IsStored(u, posted[q])'
        BY <2>2, <3>1, <3>2, <3>3 DEF RequestInv, IsStored
      <3> QED
        BY <3>1, <3>2, <3>4 DEF RequestInv
    <2>5. \A w \in writes' : WriteInv(w)'
      BY <1>0, <1>5 DEF CommitLate, WriteInv
    <2> QED
      BY <2>2, <2>3, <2>4, <2>5 DEF IInv
  <1>6. ASSUME NEW r \in Request, NEW t \in Tables, Reject(r, t) \/ GiveUp(r, t) PROVE IInv'
    <2>1. TypeOK'
      BY <1>0, <1>6 DEF TypeOK, Reject, GiveUp, Labels
    <2>2. \A q \in Request : RequestInv(q)'
      BY <1>0, <1>6
         DEF TypeOK, Reject, GiveUp, RequestInv, Verified, Waiting, IsStored, Tables
    <2>3. ASSUME NEW w \in writes' PROVE WriteInv(w)'
      <3>1. w \in writes /\ posted' = posted /\ refused \subseteq refused'
        BY <1>6 DEF Reject, GiveUp
      <3> QED
        BY <1>0, <3>1 DEF WriteInv
    <2> QED
      BY <1>0, <1>6, <2>1, <2>2, <2>3
         DEF IInv, Reject, GiveUp, AckedIsStored, DeadLettersWereRefused, OnlyVerifiedStored, IsStored
  <1>7. CASE UNCHANGED vars
    BY <1>0, <1>7
       DEF vars, IInv, TypeOK, InFlight, RequestInv, WriteInv, AckedIsStored,
           DeadLettersWereRefused, OnlyVerifiedStored, IsStored
  <1> QED
    BY <1>1, <1>2, <1>3, <1>4, <1>5, <1>6, <1>7, <1>8 DEF Next, Handle

(* The invariant holds in every behaviour.                                 *)
THEOREM IngestInvariant == Spec => []IInv
  BY IngestInit, IngestStep, PTL DEF Spec

(***************************************************************************)
(* Type correctness of the ingest path.                                    *)
(***************************************************************************)
THEOREM IngestTypeCorrect == Spec => []TypeOK
  <1>1. IInv => TypeOK
    BY DEF IInv
  <1> QED
    BY <1>1, IngestInvariant, PTL

(***************************************************************************)
(* What was acknowledged is in one of the two tables.                      *)
(***************************************************************************)
THEOREM IngestAckedIsStored == Spec => []AckedIsStored
  <1>1. IInv => AckedIsStored
    BY DEF IInv
  <1> QED
    BY <1>1, IngestInvariant, PTL

(***************************************************************************)
(* What was dead-lettered was refused by the events table.                 *)
(***************************************************************************)
THEOREM IngestDeadLetters == Spec => []DeadLettersWereRefused
  <1>1. IInv => DeadLettersWereRefused
    BY DEF IInv
  <1> QED
    BY <1>1, IngestInvariant, PTL

(***************************************************************************)
(* Nothing unverified is stored.                                           *)
(***************************************************************************)
THEOREM IngestOnlyVerified == Spec => []OnlyVerifiedStored
  <1>1. IInv => OnlyVerifiedStored
    BY DEF IInv
  <1> QED
    BY <1>1, IngestInvariant, PTL

-----------------------------------------------------------------------------
(* The health check.                                                       *)

Calling == {"looking", "hit", "probing", "writing", "expiring"}
Places == {"idle", "building", "calling", "answering"} \union Calling

ProbeTypes ==
    /\ clock \in Nat /\ lastUp \in Nat
    /\ current \in Poller \union {Nothing}
    /\ cache \in [Poller -> [cached : Verdict \union {Nothing}, expires : Nat]]
    /\ at \in [Poller -> Places]
    /\ call \in [Poller -> [uses : Poller \union {Nothing}, now : Nat,
                            verdict : Verdict \union {Nothing}]]

StorageInv == lastUp <= clock /\ (storage = "up" => lastUp = clock)

(* A verdict is as young as the call that found it, and that call ends     *)
(* soon; so a verdict and an expiry that were written by two calls, one    *)
(* while the other was at it, differ by less than one call.                *)
CacheInv(b) ==
    /\ cache[b].expires <= clock + TTL
    /\ cache[b].cached = "reachable" => cache[b].expires <= lastUp + TTL + Longest

CallInv(p) ==
    /\ at[p] = "calling" => current \in Poller
    /\ at[p] \in Calling => call[p].uses \in Poller
    /\ at[p] \notin Calling \union {"answering"} => call[p] = Idle
    /\ call[p].uses = Nothing => call[p].verdict = Nothing
    /\ call[p].uses # Nothing => call[p].now <= clock /\ clock <= call[p].now + Longest
    /\ at[p] \in {"writing", "expiring"} =>
         (call[p].verdict = "reachable" => call[p].now <= lastUp)
    /\ at[p] = "expiring" =>
         (cache[call[p].uses].cached = "reachable" => call[p].now <= lastUp + Longest)
    /\ at[p] = "hit" =>
         /\ call[p].now < clock + TTL
         /\ cache[call[p].uses].cached = "reachable" => call[p].now < lastUp + TTL + Longest
    /\ at[p] = "answering" =>
         (call[p].verdict = "reachable" => call[p].now < lastUp + TTL + Longest)

ProbeInv ==
    /\ ProbeTypes /\ StorageInv
    /\ \A b \in Poller : CacheInv(b)
    /\ \A p \in Poller : CallInv(p)

LEMMA ProbeInitial == ProbeInit => ProbeInv
  <1> SUFFICES ASSUME ProbeInit PROVE ProbeInv
    OBVIOUS
  <1>1. ProbeTypes /\ StorageInv
    <2>1. /\ Empty \in [cached : Verdict \union {Nothing}, expires : Nat]
          /\ Idle \in [uses : Poller \union {Nothing}, now : Nat,
                       verdict : Verdict \union {Nothing}]
      BY DEF Empty, Idle
    <2>2. "idle" \in Places
      BY DEF Places
    <2>3. /\ cache \in [Poller -> [cached : Verdict \union {Nothing}, expires : Nat]]
          /\ at \in [Poller -> Places]
          /\ call \in [Poller -> [uses : Poller \union {Nothing}, now : Nat,
                                  verdict : Verdict \union {Nothing}]]
      BY <2>1, <2>2 DEF ProbeInit
    <2>4. clock = 0 /\ lastUp = 0 /\ current = Nothing
      BY DEF ProbeInit
    <2> QED
      BY <2>3, <2>4 DEF ProbeTypes, StorageInv
  <1>2. ASSUME NEW p \in Poller PROVE CacheInv(p) /\ CallInv(p)
    <2>1. /\ cache[p] = Empty /\ call[p] = Idle /\ at[p] = "idle"
          /\ clock = 0 /\ TTL \in Nat /\ Nothing # "reachable"
      BY ProbeAssumption DEF ProbeInit, Verdict
    <2> QED
      BY <2>1 DEF CacheInv, CallInv, Calling, Empty, Idle
  <1> QED
    BY <1>1, <1>2 DEF ProbeInv

(* What the other threads know is left alone by a step of p that changes   *)
(* neither the cache nor the time.                                         *)
LEMMA OthersKeep ==
    ASSUME ProbeInv, NEW p \in Poller, NEW q \in Poller, q # p,
           at'[q] = at[q], call'[q] = call[q], current \in Poller => current' \in Poller,
           UNCHANGED <<clock, storage, lastUp, cache>>
    PROVE  CallInv(q)'
  BY DEF ProbeInv, CallInv

(* Before and after the probe is called.                                   *)
LEMMA AroundKeeps ==
    ASSUME ProbeInv, NEW p \in Poller,
           Ask(p) \/ Build(p) \/ BuildRaises(p) \/ Enter(p) \/ Reply(p)
    PROVE  ProbeInv'
  <1>1. /\ UNCHANGED <<clock, storage, lastUp, cache>>
        /\ \A q \in Poller : q # p => at'[q] = at[q] /\ call'[q] = call[q]
        /\ current' \in Poller \union {Nothing} /\ (current \in Poller => current' \in Poller)
    BY DEF Ask, Build, BuildRaises, Enter, Reply, Step, Elsewhere, ProbeInv, ProbeTypes
  <1>2. ProbeTypes'
    <2>1. CASE Ask(p) \/ Build(p) \/ BuildRaises(p)
      BY <1>1, <2>1 DEF Ask, Build, BuildRaises, Step, ProbeInv, ProbeTypes, Places, Calling
    <2>2. CASE Enter(p)
      <3>1. /\ call' = [call EXCEPT ![p].uses = current, ![p].now = clock]
            /\ at' = [at EXCEPT ![p] = "looking"]
        BY <2>2 DEF Enter, Step
      <3>2. at' \in [Poller -> Places]
        BY <3>1 DEF ProbeInv, ProbeTypes, Places, Calling
      <3>3. call' \in [Poller -> [uses : Poller \union {Nothing}, now : Nat,
                                 verdict : Verdict \union {Nothing}]]
        BY <3>1 DEF ProbeInv, ProbeTypes
      <3> QED
        BY <1>1, <3>2, <3>3 DEF ProbeInv, ProbeTypes
    <2>3. CASE Reply(p)
      BY <1>1, <2>3 DEF Reply, Step, Idle, ProbeInv, ProbeTypes, Places
    <2> QED
      BY <2>1, <2>2, <2>3
  <1>3. CallInv(p)'
    <2>1. CASE Ask(p)
      <3>1. at[p] = "idle" /\ call' = call /\ current' = current /\ call[p] = Idle
        BY <2>1 DEF Ask, Step, ProbeInv, CallInv, Calling
      <3>2. at'[p] \in {"answering", "building", "calling"}
            /\ (at'[p] = "calling" => current # Nothing)
        BY <2>1 DEF Ask, Step, ProbeInv, ProbeTypes
      <3>3. current' \in Poller \union {Nothing} /\ Nothing # "reachable"
        BY <3>1, ProbeAssumption DEF ProbeInv, ProbeTypes, Verdict
      <3> QED
        BY <3>1, <3>2, <3>3 DEF CallInv, Calling, Idle
    <2>2. CASE Build(p)
      <3>1. at'[p] = "calling" /\ call' = call /\ current' = p /\ call[p] = Idle
        BY <2>2 DEF Build, Step, ProbeInv, ProbeTypes, CallInv, Calling
      <3> QED
        BY <3>1 DEF CallInv, Calling, Idle
    <2>3. CASE Enter(p)
      <3>1. /\ at'[p] = "looking" /\ current \in Poller /\ call[p] = Idle
            /\ call'[p].uses = current /\ call'[p].now = clock
            /\ call'[p].verdict = call[p].verdict
        BY <2>3 DEF Enter, Step, ProbeInv, ProbeTypes, CallInv, Calling
      <3> QED
        BY <1>1, <3>1, ProbeAssumption DEF ProbeInv, ProbeTypes, CallInv, Calling
    <2>4. CASE Reply(p)
      <3>1. at'[p] = "idle" /\ call'[p] = Idle
        BY <2>4 DEF Reply, Step, ProbeInv, ProbeTypes
      <3> QED
        BY <3>1 DEF CallInv, Calling, Idle
    <2>5. CASE BuildRaises(p)
      <3>1. /\ at'[p] = "answering" /\ call' = call /\ current' = current
            /\ call[p] = Idle /\ Nothing # "reachable"
        BY <2>5, ProbeAssumption
           DEF BuildRaises, Step, ProbeInv, ProbeTypes, CallInv, Calling, Verdict
      <3> QED
        BY <3>1 DEF CallInv, Calling, Idle
    <2> QED
      BY <2>1, <2>2, <2>3, <2>4, <2>5
  <1>4. \A q \in Poller : CallInv(q)'
    BY <1>1, <1>3, OthersKeep
  <1> QED
    BY <1>1, <1>2, <1>4 DEF ProbeInv, StorageInv, CacheInv

(* A look at the cache, and the probe of the storage.                      *)
LEMMA LookingKeeps ==
    ASSUME ProbeInv, NEW p \in Poller, Look(p) \/ Serve(p) \/ Probe(p)
    PROVE  ProbeInv'
  <1>1. /\ UNCHANGED <<clock, storage, lastUp, cache, current>>
        /\ \A q \in Poller : q # p => at'[q] = at[q] /\ call'[q] = call[q]
    BY DEF Look, Serve, Probe, Local, Step, Elsewhere, ProbeInv, ProbeTypes
  <1>2. /\ at[p] \in Calling /\ call[p].uses \in Poller /\ call[p].now \in Nat
        /\ call[p].now <= clock /\ clock <= call[p].now + Longest
        /\ clock \in Nat /\ lastUp \in Nat /\ TTL \in Nat /\ Longest \in Nat \ {0}
        /\ Nothing \notin Poller
    BY ProbeAssumption
       DEF Look, Serve, Probe, Step, Calling, ProbeInv, ProbeTypes, CallInv
  <1>3. ProbeTypes' /\ CallInv(p)'
    <2>1. CASE Look(p)
      <3>1. /\ call' = call /\ at'[p] \in {"hit", "probing"}
            /\ at'[p] = "hit" => call[p].now < cache[call[p].uses].expires
        BY <2>1 DEF Look, Step, Fresh, Cached, ProbeInv, ProbeTypes
      <3>2. CacheInv(call[p].uses) /\ cache[call[p].uses].expires \in Nat
        BY <1>2 DEF ProbeInv, ProbeTypes
      <3>3. at'[p] = "hit" =>
              /\ call[p].now < clock + TTL
              /\ cache[call[p].uses].cached = "reachable" => call[p].now < lastUp + TTL + Longest
        BY <1>2, <3>1, <3>2 DEF CacheInv
      <3>4. ProbeTypes'
        BY <1>1, <2>1 DEF Look, Step, ProbeInv, ProbeTypes, Places, Calling
      <3> QED
        BY <1>1, <1>2, <3>1, <3>3, <3>4 DEF CallInv, Calling
    <2>2. CASE Serve(p)
      <3>1. /\ at[p] = "hit" /\ at'[p] = "answering"
            /\ call'[p].uses = call[p].uses /\ call'[p].now = call[p].now
            /\ call'[p].verdict = cache[call[p].uses].cached
            /\ cache[call[p].uses].cached = "reachable" => call[p].now < lastUp + TTL + Longest
        BY <2>2 DEF Serve, Local, Step, Cached, ProbeInv, ProbeTypes, CallInv
      <3>2. ProbeTypes'
        BY <1>1, <1>2, <2>2
           DEF Serve, Local, Step, Cached, ProbeInv, ProbeTypes, Places, Calling
      <3> QED
        BY <1>1, <1>2, <3>1, <3>2 DEF CallInv, Calling
    <2>3. CASE Probe(p)
      <3>1. PICK verdict \in Verdict :
              (verdict = "reachable" => storage = "up") /\ Local(p, "verdict", verdict)
        BY <2>3 DEF Probe
      <3>2. /\ at'[p] = "writing"
            /\ call'[p].uses = call[p].uses /\ call'[p].now = call[p].now
            /\ call'[p].verdict = verdict
        BY <2>3, <3>1 DEF Probe, Local, Step, ProbeInv, ProbeTypes
      <3>3. verdict = "reachable" => call[p].now <= lastUp
        BY <1>2, <3>1 DEF ProbeInv, StorageInv
      <3>4. ProbeTypes'
        BY <1>1, <2>3, <3>1 DEF Probe, Local, Step, ProbeInv, ProbeTypes, Places, Calling
      <3> QED
        BY <1>1, <1>2, <3>2, <3>3, <3>4 DEF CallInv, Calling
    <2> QED
      BY <2>1, <2>2, <2>3
  <1>4. \A q \in Poller : CallInv(q)'
    BY <1>1, <1>3, OthersKeep
  <1> QED
    BY <1>1, <1>3, <1>4 DEF ProbeInv, StorageInv, CacheInv

(* A verdict is written over whatever was there, with the expiry that was. *)
LEMMA WriteVerdictKeeps ==
    ASSUME ProbeInv, NEW p \in Poller, WriteVerdict(p)
    PROVE  ProbeInv'
  <1> DEFINE b == call[p].uses
  <1>1. /\ at[p] = "writing" /\ b \in Poller /\ call[p].now \in Nat
        /\ clock \in Nat /\ lastUp \in Nat /\ TTL \in Nat /\ Longest \in Nat \ {0}
        /\ Nothing \notin Poller
        /\ clock <= call[p].now + Longest
        /\ call[p].verdict = "reachable" => call[p].now <= lastUp
    BY ProbeAssumption DEF WriteVerdict, Step, Calling, ProbeInv, ProbeTypes, CallInv
  <1>2. /\ UNCHANGED <<clock, storage, lastUp, current, call>>
        /\ cache' = [cache EXCEPT ![b].cached = call[p].verdict]
        /\ at' = [at EXCEPT ![p] = "expiring"]
    BY DEF WriteVerdict, Step, Elsewhere
  <1>3. /\ cache'[b].cached = call[p].verdict /\ cache'[b].expires = cache[b].expires
        /\ \A d \in Poller : d # b => cache'[d] = cache[d]
        /\ \A d \in Poller : cache'[d].expires = cache[d].expires
    BY <1>1, <1>2 DEF ProbeInv, ProbeTypes
  <1>4. call[p].verdict = "reachable" => clock <= lastUp + Longest
    BY <1>1
  <1>5. ProbeTypes'
    BY <1>1, <1>2 DEF ProbeInv, ProbeTypes, Places, Calling
  <1>6. ASSUME NEW d \in Poller PROVE CacheInv(d)'
    <2>1. CacheInv(d) /\ cache[d].expires \in Nat
      BY DEF ProbeInv, ProbeTypes
    <2>2. CASE d # b
      BY <1>2, <1>3, <2>1, <2>2 DEF CacheInv
    <2>3. CASE d = b
      <3>1. cache[b].expires <= clock + TTL
        BY <2>1, <2>3 DEF CacheInv
      <3>2. call[p].verdict = "reachable" => cache[b].expires <= lastUp + TTL + Longest
        <4> HIDE DEF b
        <4> QED
          BY <1>1, <1>4, <2>1, <2>3, <3>1
      <3> QED
        BY <1>2, <1>3, <2>3, <3>1, <3>2 DEF CacheInv
    <2> QED
      BY <2>2, <2>3
  <1>7. ASSUME NEW q \in Poller PROVE CallInv(q)'
    <2>1. CallInv(q) /\ call[q].now \in Nat
      BY DEF ProbeInv, ProbeTypes
    <2>2. call[q].uses # Nothing => call[q].now <= clock
      BY <2>1 DEF CallInv
    <2>3. \/ cache'[call[q].uses].cached = cache[call[q].uses].cached
          \/ cache'[call[q].uses].cached = "reachable" => clock <= lastUp + Longest
          \/ call[q].uses = Nothing
      BY <1>3, <1>4 DEF ProbeInv, ProbeTypes
    <2>4. CASE q = p
      <3>1. at'[q] = "expiring" /\ cache'[call[q].uses].cached = call[q].verdict
        BY <1>2, <1>3, <2>4 DEF ProbeInv, ProbeTypes
      <3>2. call[q].verdict = "reachable" => call[q].now <= lastUp + Longest
        BY <1>1, <2>4
      <3> QED
        BY <1>1, <1>2, <2>1, <2>4, <3>1, <3>2 DEF CallInv, Calling
    <2>5. CASE q # p
      <3>1. at'[q] = at[q]
        BY <1>2, <2>5 DEF ProbeInv, ProbeTypes
      <3>2. at[q] = "expiring" =>
              (cache'[call[q].uses].cached = "reachable" => call[q].now <= lastUp + Longest)
        <4>1. at[q] = "expiring" => call[q].uses # Nothing
          BY <1>1, <2>1 DEF CallInv, Calling
        <4> QED
          BY <1>1, <2>1, <2>2, <2>3, <4>1 DEF CallInv
      <3>3. at[q] = "hit" =>
              (cache'[call[q].uses].cached = "reachable" => call[q].now < lastUp + TTL + Longest)
        <4>1. at[q] = "hit" => call[q].uses # Nothing /\ call[q].now < clock + TTL
          BY <1>1, <2>1 DEF CallInv, Calling
        <4> QED
          BY <1>1, <2>1, <2>2, <2>3, <4>1 DEF CallInv
      <3> QED
        BY <1>2, <2>1, <3>1, <3>2, <3>3 DEF CallInv
    <2> QED
      BY <2>4, <2>5
  <1> QED
    BY <1>2, <1>5, <1>6, <1>7 DEF ProbeInv, StorageInv

(* An expiry is written beside whatever verdict is there by now.           *)
LEMMA WriteExpiryKeeps ==
    ASSUME ProbeInv, NEW p \in Poller, WriteExpiry(p)
    PROVE  ProbeInv'
  <1> DEFINE b == call[p].uses
  <1>1. /\ at[p] = "expiring" /\ b \in Poller /\ call[p].now \in Nat
        /\ clock \in Nat /\ lastUp \in Nat /\ TTL \in Nat /\ Longest \in Nat \ {0}
        /\ Nothing \notin Poller
        /\ call[p].now <= clock
        /\ call[p].verdict = "reachable" => call[p].now <= lastUp
        /\ cache[b].cached = "reachable" => call[p].now <= lastUp + Longest
    BY ProbeAssumption DEF WriteExpiry, Step, Calling, ProbeInv, ProbeTypes, CallInv
  <1>2. /\ UNCHANGED <<clock, storage, lastUp, current, call>>
        /\ cache' = [cache EXCEPT ![b].expires = call[p].now + TTL]
        /\ at' = [at EXCEPT ![p] = "answering"]
    BY DEF WriteExpiry, Step, Elsewhere
  <1>3. /\ cache'[b].expires = call[p].now + TTL
        /\ \A d \in Poller : d # b => cache'[d] = cache[d]
        /\ \A d \in Poller : cache'[d].cached = cache[d].cached
    BY <1>1, <1>2 DEF ProbeInv, ProbeTypes
  <1>4. ProbeTypes'
    <2>1. call[p].now + TTL \in Nat
      BY <1>1
    <2> QED
      BY <1>1, <1>2, <2>1 DEF ProbeInv, ProbeTypes, Places, Calling
  <1>5. ASSUME NEW d \in Poller PROVE CacheInv(d)'
    <2>1. CacheInv(d)
      BY DEF ProbeInv
    <2>2. CASE d # b
      BY <1>2, <1>3, <2>1, <2>2 DEF CacheInv
    <2>3. CASE d = b
      BY <1>1, <1>2, <1>3, <2>3 DEF CacheInv
    <2> QED
      BY <2>2, <2>3
  <1>6. ASSUME NEW q \in Poller PROVE CallInv(q)'
    <2>1. CallInv(q) /\ call[q].now \in Nat
      BY DEF ProbeInv, ProbeTypes
    <2>2. CASE q = p
      <3>1. at'[q] = "answering"
        BY <1>2, <2>2 DEF ProbeInv, ProbeTypes
      <3> QED
        BY <1>1, <1>2, <2>1, <2>2, <3>1 DEF CallInv, Calling
    <2>3. CASE q # p
      <3>1. at'[q] = at[q]
        BY <1>2, <2>3 DEF ProbeInv, ProbeTypes
      <3>2. at[q] \in {"expiring", "hit"} =>
              cache'[call[q].uses].cached = cache[call[q].uses].cached
        BY <1>3, <2>1 DEF CallInv, Calling
      <3> QED
        BY <1>2, <2>1, <3>1, <3>2 DEF CallInv
    <2> QED
      BY <2>2, <2>3
  <1> QED
    BY <1>2, <1>4, <1>5, <1>6 DEF ProbeInv, StorageInv

LEMMA TimeKeeps ==
    ASSUME ProbeInv, Tick \/ StorageChanges
    PROVE  ProbeInv'
  <1>1. /\ UNCHANGED <<current, cache, at, call>>
        /\ clock \in Nat /\ lastUp \in Nat /\ clock' \in Nat /\ lastUp' \in Nat
        /\ TTL \in Nat /\ Longest \in Nat \ {0}
        /\ clock <= clock' /\ lastUp <= lastUp'
        /\ \A p \in Poller : call[p].uses # Nothing =>
              clock' = clock \/ clock' <= call[p].now + Longest
    BY ProbeAssumption DEF Tick, StorageChanges, ProbeInv, ProbeTypes, StorageInv
  <1>2. ProbeTypes' /\ StorageInv'
    BY <1>1 DEF Tick, StorageChanges, ProbeInv, ProbeTypes, StorageInv
  <1>3. \A b \in Poller : CacheInv(b)'
    BY <1>1 DEF ProbeInv, ProbeTypes, CacheInv
  <1>4. ASSUME NEW p \in Poller PROVE CallInv(p)'
    <2>1. CallInv(p) /\ call[p].now \in Nat
      BY DEF ProbeInv, ProbeTypes
    <2> QED
      BY <1>1, <2>1 DEF CallInv
  <1> QED
    BY <1>2, <1>3, <1>4 DEF ProbeInv

LEMMA ProbeStep == ProbeInv /\ ProbeNext => ProbeInv'
  BY AroundKeeps, LookingKeeps, WriteVerdictKeeps, WriteExpiryKeeps, TimeKeeps
     DEF ProbeNext, ServeHealth

LEMMA ProbeGreen == ProbeInv => GreenIsRecent
  <1> SUFFICES ASSUME ProbeInv, NEW p \in Poller,
                      at[p] = "answering", call[p].verdict = "reachable"
               PROVE  clock < lastUp + TTL + 2 * Longest
    BY DEF GreenIsRecent
  <1>1. /\ CallInv(p) /\ call[p].now \in Nat /\ clock \in Nat /\ lastUp \in Nat
        /\ TTL \in Nat /\ Longest \in Nat \ {0}
    BY ProbeAssumption DEF ProbeInv, ProbeTypes
  <1>2. call[p].uses # Nothing \/ call[p].verdict = Nothing
    BY <1>1 DEF CallInv
  <1>3. call[p].now < lastUp + TTL + Longest
    BY <1>1 DEF CallInv
  <1>4. CASE call[p].uses # Nothing
    BY <1>1, <1>3, <1>4 DEF CallInv
  <1>5. CASE call[p].verdict = Nothing
    BY <1>5, ProbeAssumption DEF Verdict
  <1> QED
    BY <1>2, <1>4, <1>5

-----------------------------------------------------------------------------
(* The process that serves both.                                           *)

HostedInv == IInv /\ ProbeInv

LEMMA HostedStep == HostedInv /\ [HostedNext]_hostedVars => HostedInv'
  <1> SUFFICES ASSUME HostedInv, [HostedNext]_hostedVars PROVE HostedInv'
    OBVIOUS
  <1>1. UNCHANGED probeVars => ProbeInv'
    BY DEF HostedInv, probeVars, ProbeInv, ProbeTypes, StorageInv, CacheInv, CallInv
  <1>2. UNCHANGED vars => IInv'
    BY IngestStep DEF HostedInv
  <1>3. CASE Next /\ UNCHANGED probeVars
    BY <1>1, <1>3, IngestStep DEF HostedInv
  <1>4. CASE ProbeNext /\ UNCHANGED vars
    BY <1>2, <1>4, ProbeStep DEF HostedInv
  <1>5. CASE UNCHANGED hostedVars
    <2>1. UNCHANGED vars /\ UNCHANGED probeVars
      BY <1>5 DEF hostedVars, vars, probeVars
    <2> QED
      BY <1>1, <1>2, <2>1 DEF HostedInv
  <1> QED
    BY <1>3, <1>4, <1>5 DEF HostedNext

(* Both parts of the process keep their invariants side by side.           *)
THEOREM HostedInvariant == HostedSpec => []HostedInv
  <1>1. HostedInit => HostedInv
    BY IngestInit, ProbeInitial DEF HostedInit, HostedInv
  <1> QED
    BY <1>1, HostedStep, PTL DEF HostedSpec

(***************************************************************************)
(* "configured" is said of a storage that answered less than a TTL and two *)
(* calls ago (SupabaseHealthProbe.__call__).                               *)
(***************************************************************************)
THEOREM HostedGreenIsRecent == HostedSpec => []GreenIsRecent
  <1>1. HostedInv => GreenIsRecent
    BY ProbeGreen DEF HostedInv
  <1> QED
    BY <1>1, HostedInvariant, PTL
=============================================================================
