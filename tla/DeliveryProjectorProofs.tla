------------------------ MODULE DeliveryProjectorProofs ------------------------
(***************************************************************************)
(* Theorems about DeliveryProjector, for any attempts and events.  They    *)
(* rest on one fact about the table of transitions, that each of them      *)
(* goes up in one order, and on the invariant that the projected state is  *)
(* the last element of an ordered list of applied events.  That no event   *)
(* is lost or kept twice is an invariant of the two lists of every attempt *)
(* and of the ids of the events given.                                     *)
(***************************************************************************)
EXTENDS DeliveryProjector, SequenceTheorems, TLAPS

(* The code leads nowhere back to "unknown": it can be put below the       *)
(* others, and every transition of the table then makes progress.          *)
Rank(s) == IF s = "unknown" THEN 0 ELSE Progress(s)

LEMMA AllowedMakesProgress ==
    ASSUME NEW s \in Status, NEW t \in Allowed(s)
    PROVE  t \in Status /\ Rank(s) \in Nat /\ Rank(t) \in Nat /\ Rank(s) < Rank(t)
  BY DEF Allowed, Rank, Progress, Status

LEMMA RankForward ==
    ASSUME NEW s \in Status, NEW t \in Status, Rank(s) < Rank(t)
    PROVE  Forward(s, t)
  BY DEF Forward, Rank, Progress, Status

LEMMA EventFields ==
    ASSUME NEW e \in Event
    PROVE  /\ e.id \in EventId /\ e.attempt \in Attempt /\ e.status \in Status
           /\ e.at \in Nat /\ RefsOf(e) \subseteq Ref /\ e.status # None
  BY DeliveryAssumption DEF RefsOf

LEMMA DeliveryInit == Init => TypeOK
  BY DEF Init, TypeOK

LEMMA DeliveryStep ==
    ASSUME TypeOK, [Next]_vars
    PROVE  TypeOK'
  <1>1. CASE UNCHANGED vars
    BY <1>1 DEF TypeOK, vars
  <1>2. ASSUME NEW e \in Event, ProjectSeen(e), given' = given \union {e} PROVE TypeOK'
    BY <1>2 DEF ProjectSeen, TypeOK, state
  <1>3. ASSUME NEW e \in Event, ProjectFirst(e), given' = given \union {e} PROVE TypeOK'
    <2>1. <<e>> \in Seq(Event) /\ <<e>> # <<>>
      OBVIOUS
    <2> QED
      BY <1>3, <2>1, EventFields DEF ProjectFirst, TypeOK
  <1>4. ASSUME NEW e \in Event, ProjectIgnored(e), given' = given \union {e} PROVE TypeOK'
    BY <1>4, EventFields DEF ProjectIgnored, TypeOK
  <1>5. ASSUME NEW e \in Event, ProjectAdvance(e), given' = given \union {e} PROVE TypeOK'
    <2>1. Append(applied[e.attempt], e) \in Seq(Event) /\ Append(applied[e.attempt], e) # <<>>
      <3>1. applied[e.attempt] \in Seq(Event)
        BY EventFields DEF TypeOK
      <3>2. Len(Append(applied[e.attempt], e)) = Len(applied[e.attempt]) + 1
        BY <3>1
      <3> QED
        BY <3>1, <3>2
    <2> QED
      BY <1>5, <2>1, EventFields DEF ProjectAdvance, TypeOK
  <1> QED
    BY <1>1, <1>2, <1>3, <1>4, <1>5 DEF Next

(***************************************************************************)
(* The projector keeps its types, and an attempt has a state exactly when  *)
(* an event has been applied to it.                                        *)
(***************************************************************************)
THEOREM DeliveryTypeCorrect == Spec => []TypeOK
  BY DeliveryInit, DeliveryStep, PTL DEF Spec

-----------------------------------------------------------------------------
(***************************************************************************)
(* Non-regression: an event moves at most its own attempt, strictly        *)
(* forward and never to an earlier observation.                            *)
(***************************************************************************)
THEOREM DeliveryNeverRegresses == Spec => NeverRegresses
  <1> DEFINE OnlyForward ==
        \A k \in Attempt :
            \/ status[k] = None
            \/ status'[k] = status[k] /\ statusAt'[k] = statusAt[k]
            \/ /\ k = last'.event.attempt
               /\ Forward(status[k], status'[k])
               /\ statusAt'[k] >= statusAt[k]
  <1>1. ASSUME TypeOK, [Next]_vars PROVE OnlyForward \/ UNCHANGED vars
    <2>1. ASSUME NEW e \in Event, ProjectSeen(e) PROVE OnlyForward
      BY <2>1 DEF ProjectSeen, state
    <2>2. ASSUME NEW e \in Event, ProjectFirst(e) PROVE OnlyForward
      BY <1>1, <2>2, EventFields DEF ProjectFirst, TypeOK
    <2>3. ASSUME NEW e \in Event, ProjectIgnored(e) PROVE OnlyForward
      BY <2>3 DEF ProjectIgnored
    <2>4. ASSUME NEW e \in Event, ProjectAdvance(e) PROVE OnlyForward
      <3>1. /\ status[e.attempt] \in Status /\ e.status \in Allowed(status[e.attempt])
            /\ e.at >= statusAt[e.attempt]
        BY <1>1, <2>4, EventFields DEF ProjectAdvance, Advances, IsStale, TypeOK
      <3>2. Forward(status[e.attempt], e.status)
        BY <3>1, AllowedMakesProgress, RankForward
      <3>3. last'.event = e
        BY <2>4 DEF ProjectAdvance, Returns
      <3> QED
        BY <1>1, <2>4, <3>1, <3>2, <3>3, EventFields DEF ProjectAdvance, TypeOK
    <2> QED
      BY <1>1, <2>1, <2>2, <2>3, <2>4 DEF Next
  <1> QED
    BY <1>1, DeliveryTypeCorrect, PTL DEF Spec, NeverRegresses

-----------------------------------------------------------------------------
(* ProjectionIsLastApplied in the terms of that order.                     *)
RankedIsLastApplied ==
    \A k \in Attempt : status[k] # None =>
        LET n == Len(applied[k]) IN
        /\ status[k] = applied[k][n].status
        /\ statusAt[k] = applied[k][n].at
        /\ \A i \in 1..n, j \in 1..n : i < j =>
              /\ applied[k][i].at <= applied[k][j].at
              /\ Rank(applied[k][i].status) < Rank(applied[k][j].status)

LEMMA RankedIsInOrder == TypeOK /\ RankedIsLastApplied => ProjectionIsLastApplied
  <1> SUFFICES ASSUME TypeOK, RankedIsLastApplied, NEW k \in Attempt, status[k] # None,
                      NEW i \in 1..Len(applied[k]), NEW j \in 1..Len(applied[k]), i < j
               PROVE  Forward(applied[k][i].status, applied[k][j].status)
    BY DEF RankedIsLastApplied, ProjectionIsLastApplied
  <1>1. applied[k][i].status \in Status /\ applied[k][j].status \in Status
    <2>1. applied[k][i] \in Event /\ applied[k][j] \in Event
      BY DEF TypeOK
    <2> QED
      BY <2>1, EventFields
  <1>2. Rank(applied[k][i].status) < Rank(applied[k][j].status)
    BY DEF RankedIsLastApplied
  <1> QED
    BY <1>1, <1>2, RankForward

LEMMA LastAppliedStep ==
    ASSUME TypeOK, RankedIsLastApplied, [Next]_vars
    PROVE  RankedIsLastApplied'
  <1>1. CASE UNCHANGED vars
    BY <1>1 DEF RankedIsLastApplied, vars
  <1>2. ASSUME NEW e \in Event, ProjectSeen(e) PROVE RankedIsLastApplied'
    BY <1>2 DEF ProjectSeen, state, RankedIsLastApplied
  <1>3. ASSUME NEW e \in Event, ProjectFirst(e) PROVE RankedIsLastApplied'
    BY <1>3, EventFields DEF ProjectFirst, RankedIsLastApplied, TypeOK
  <1>4. ASSUME NEW e \in Event, ProjectIgnored(e) PROVE RankedIsLastApplied'
    BY <1>4 DEF ProjectIgnored, RankedIsLastApplied
  <1>5. ASSUME NEW e \in Event, ProjectAdvance(e) PROVE RankedIsLastApplied'
    <2> DEFINE k == e.attempt
    <2> DEFINE old == applied[k]
    <2>1. /\ k \in Attempt /\ old \in Seq(Event) /\ status[k] \in Status
          /\ e.status \in Allowed(status[k]) /\ e.at >= statusAt[k]
          /\ applied' = [applied EXCEPT ![k] = Append(old, e)]
          /\ status' = [status EXCEPT ![k] = e.status]
          /\ statusAt' = [statusAt EXCEPT ![k] = e.at]
      BY <1>5, EventFields DEF ProjectAdvance, Advances, IsStale, TypeOK
    <2>2. Rank(status[k]) < Rank(e.status) /\ Rank(status[k]) \in Nat /\ Rank(e.status) \in Nat
      BY <2>1, AllowedMakesProgress
    <2>3. /\ status[k] = old[Len(old)].status /\ statusAt[k] = old[Len(old)].at
          /\ \A i \in 1..Len(old), j \in 1..Len(old) : i < j =>
                /\ old[i].at <= old[j].at
                /\ Rank(old[i].status) < Rank(old[j].status)
      <3>1. status[k] # None
        BY <2>1, DeliveryAssumption
      <3> HIDE DEF k
      <3> QED
        BY <2>1, <3>1 DEF RankedIsLastApplied
    <2>4. \A i \in 1..Len(old) : old[i] \in Event
      BY <2>1
    <2>5. old # <<>> /\ Len(old) \in Nat \ {0}
      <3>1. old # <<>>
        BY <2>1, DeliveryAssumption DEF TypeOK
      <3> QED
        BY <2>1, <3>1
    <2>6. ASSUME NEW i \in 1..Len(old)
          PROVE  old[i].at <= e.at /\ Rank(old[i].status) < Rank(e.status)
      <3>1. old[i].at \in Nat /\ old[i].status \in Status
        BY <2>4, EventFields
      <3>2. Rank(old[i].status) \in Nat
        BY <3>1 DEF Rank, Progress, Status
      <3>3. CASE i = Len(old)
        BY <2>1, <2>2, <2>3, <3>3
      <3>4. CASE i < Len(old)
        <4>1. /\ Len(old) \in 1..Len(old)
              /\ old[i].at <= old[Len(old)].at
              /\ Rank(old[i].status) < Rank(old[Len(old)].status)
          BY <2>3, <2>5, <3>4
        <4>2. old[i].at <= statusAt[k] /\ Rank(old[i].status) < Rank(status[k])
          BY <4>1, <2>3
        <4>3. statusAt[k] \in Nat /\ e.at \in Nat
          BY <2>1, EventFields DEF TypeOK
        <4> QED
          BY <2>1, <2>2, <3>1, <3>2, <4>2, <4>3
      <3> QED
        BY <2>5, <3>3, <3>4
    <2>7. ASSUME NEW j \in Attempt \ {k}
          PROVE  status'[j] = status[j] /\ statusAt'[j] = statusAt[j] /\ applied'[j] = applied[j]
      BY <2>1 DEF TypeOK
    <2>8. LET new == applied'[k] IN
          /\ Len(new) = Len(old) + 1 /\ new[Len(new)] = e
          /\ \A i \in 1..Len(old) : new[i] = old[i]
      BY <2>1 DEF TypeOK
    <2>9. ASSUME NEW a \in Attempt, status'[a] # None
          PROVE  LET n == Len(applied'[a]) IN
                 /\ status'[a] = applied'[a][n].status
                 /\ statusAt'[a] = applied'[a][n].at
                 /\ \A i \in 1..n, j \in 1..n : i < j =>
                       /\ applied'[a][i].at <= applied'[a][j].at
                       /\ Rank(applied'[a][i].status) < Rank(applied'[a][j].status)
      <3>1. CASE a = k
        <4>1. status'[k] = e.status /\ statusAt'[k] = e.at
          BY <2>1 DEF TypeOK
        <4> HIDE DEF k, old
        <4>2. PICK n \in Nat : n = Len(old)
          BY <2>5
        <4>3. /\ Len(applied'[k]) = n + 1 /\ applied'[k][n + 1] = e
              /\ \A i \in 1..n : applied'[k][i] = old[i]
          BY <2>8, <4>2
        <4>4. ASSUME NEW i \in 1..(n + 1), NEW j \in 1..(n + 1), i < j
              PROVE  /\ applied'[k][i].at <= applied'[k][j].at
                     /\ Rank(applied'[k][i].status) < Rank(applied'[k][j].status)
          <5>1. i \in 1..n /\ applied'[k][i] = old[i]
            BY <4>3, <4>4
          <5>2. CASE j \in 1..n
            BY <2>3, <4>2, <4>3, <4>4, <5>1, <5>2
          <5>3. CASE j = n + 1
            BY <2>6, <4>2, <4>3, <5>1, <5>3
          <5> QED
            BY <5>2, <5>3
        <4> QED
          BY <3>1, <4>1, <4>3, <4>4
      <3>2. CASE a # k
        <4> HIDE DEF k, old
        <4>1. status'[a] = status[a] /\ statusAt'[a] = statusAt[a] /\ applied'[a] = applied[a]
          BY <2>7, <3>2
        <4> QED
          BY <2>9, <4>1 DEF RankedIsLastApplied
      <3> QED
        BY <3>1, <3>2
    <2> QED
      BY <2>9 DEF RankedIsLastApplied
  <1> QED
    BY <1>1, <1>2, <1>3, <1>4, <1>5 DEF Next

(***************************************************************************)
(* Whatever arrives in whatever order, status and time are those of the    *)
(* last applied event, and the applied events are in order.                *)
(***************************************************************************)
THEOREM DeliveryLastApplied == Spec => []ProjectionIsLastApplied
  <1>1. Init => RankedIsLastApplied
    BY DEF Init, RankedIsLastApplied
  <1> QED
    BY <1>1, LastAppliedStep, RankedIsInOrder, DeliveryTypeCorrect, PTL DEF Spec

-----------------------------------------------------------------------------
(* The lists of an attempt, each by itself.                                *)
Lists == {"applied", "ignored"}
List(l, k) == IF l = "applied" THEN applied[k] ELSE ignored[k]

SeenIsKept ==
    \A i \in seen : \E l \in Lists, k \in Attempt : \E n \in DOMAIN List(l, k) :
        List(l, k)[n].id = i

KeptIsSeen ==
    \A l \in Lists, k \in Attempt : \A n \in DOMAIN List(l, k) :
        /\ List(l, k)[n].id \in seen
        /\ List(l, k)[n].attempt = k
        /\ RefsOf(List(l, k)[n]) \subseteq refs[k]

NothingTwice ==
    \A l, o \in Lists, k, j \in Attempt :
        \A n \in DOMAIN List(l, k), m \in DOMAIN List(o, j) :
            List(l, k)[n].id = List(o, j)[m].id => l = o /\ k = j /\ n = m

KInv == SeenIsKept /\ KeptIsSeen /\ NothingTwice

NoRefsBefore == \A k \in Attempt : status[k] = None => refs[k] = {}

(* An event with a new id that is put at the end of one list, with its     *)
(* reference among those of the attempt.                                   *)
LEMMA NewEventKeeps ==
    ASSUME TypeOK, KInv, NEW e \in Event, e.id \notin seen, seen' = seen \union {e.id},
           NEW l0 \in Lists,
           List(l0, e.attempt)' = Append(List(l0, e.attempt), e),
           \A l \in Lists, k \in Attempt :
               (l # l0 \/ k # e.attempt) => List(l, k)' = List(l, k),
           \A k \in Attempt : refs[k] \subseteq refs'[k],
           RefsOf(e) \subseteq refs'[e.attempt]
    PROVE  KInv'
  <1>1. /\ e.attempt \in Attempt
        /\ \A l \in Lists, k \in Attempt : List(l, k) \in Seq(Event)
    BY EventFields DEF TypeOK, List
  <1>2. PICK old \in Seq(Event) : old = List(l0, e.attempt)
    BY <1>1
  <1>3. PICK new : new = Append(old, e)
    OBVIOUS
  <1>4. PICK last1 \in Nat \ {0} :
          /\ DOMAIN new = DOMAIN old \union {last1} /\ last1 \notin DOMAIN old
          /\ new[last1] = e /\ \A n \in DOMAIN old : new[n] = old[n]
    <2>1. /\ Len(old) \in Nat /\ DOMAIN old = 1 .. Len(old)
          /\ DOMAIN new = 1 .. Len(old) + 1
          /\ new[Len(old) + 1] = e /\ \A n \in 1 .. Len(old) : new[n] = old[n]
      BY <1>3, AppendProperties, LenProperties
    <2>2. PICK len \in Nat : len = Len(old)
      BY <2>1
    <2>3. 1 .. len + 1 = (1 .. len) \union {len + 1} /\ len + 1 \notin 1 .. len
      OBVIOUS
    <2>4. len + 1 \in Nat \ {0}
      OBVIOUS
    <2> QED
      BY <2>1, <2>2, <2>3, <2>4
  <1>5. List(l0, e.attempt)' = new
    BY <1>2, <1>3
  (* An element after the step is the new one or was there.                *)
  <1>6. ASSUME NEW l \in Lists, NEW k \in Attempt, NEW n \in DOMAIN List(l, k)'
        PROVE  \/ l = l0 /\ k = e.attempt /\ n = last1 /\ List(l, k)'[n] = e
               \/ n \in DOMAIN List(l, k) /\ List(l, k)'[n] = List(l, k)[n]
    <2>1. CASE l = l0 /\ k = e.attempt
      BY <1>2, <1>4, <1>5, <1>6, <2>1
    <2>2. CASE l # l0 \/ k # e.attempt
      BY <1>6, <2>2
    <2> QED
      BY <2>1, <2>2
  <1>7. ASSUME NEW l \in Lists, NEW k \in Attempt, NEW n \in DOMAIN List(l, k)
        PROVE  n \in DOMAIN List(l, k)' /\ List(l, k)'[n] = List(l, k)[n]
    <2>1. CASE l = l0 /\ k = e.attempt
      BY <1>2, <1>4, <1>5, <1>7, <2>1
    <2>2. CASE l # l0 \/ k # e.attempt
      BY <1>7, <2>2
    <2> QED
      BY <2>1, <2>2
  <1>8. SeenIsKept'
    <2> SUFFICES ASSUME NEW i \in seen'
                 PROVE  \E l \in Lists, k \in Attempt : \E n \in DOMAIN List(l, k)' :
                            List(l, k)'[n].id = i
      BY DEF SeenIsKept
    <2>1. CASE i = e.id
      <3>1. last1 \in DOMAIN List(l0, e.attempt)' /\ List(l0, e.attempt)'[last1] = e
        BY <1>4, <1>5
      <3> QED
        BY <1>1, <2>1, <3>1
    <2>2. CASE i \in seen
      <3>1. PICK l \in Lists, k \in Attempt : \E n \in DOMAIN List(l, k) : List(l, k)[n].id = i
        BY <2>2 DEF KInv, SeenIsKept
      <3> QED
        BY <1>7, <3>1
    <2> QED
      BY <2>1, <2>2
  <1>9. KeptIsSeen'
    <2> SUFFICES ASSUME NEW l \in Lists, NEW k \in Attempt, NEW n \in DOMAIN List(l, k)'
                 PROVE  /\ List(l, k)'[n].id \in seen'
                        /\ List(l, k)'[n].attempt = k
                        /\ RefsOf(List(l, k)'[n]) \subseteq refs'[k]
      BY DEF KeptIsSeen, RefsOf
    <2>1. CASE k = e.attempt /\ List(l, k)'[n] = e
      BY <2>1
    <2>2. CASE n \in DOMAIN List(l, k) /\ List(l, k)'[n] = List(l, k)[n]
      <3>1. /\ List(l, k)[n].id \in seen /\ List(l, k)[n].attempt = k
            /\ RefsOf(List(l, k)[n]) \subseteq refs[k]
        BY <2>2 DEF KInv, KeptIsSeen
      <3> QED
        BY <2>2, <3>1
    <2> QED
      BY <1>6, <2>1, <2>2
  <1>10. NothingTwice'
    <2> SUFFICES ASSUME NEW l \in Lists, NEW o \in Lists, NEW k \in Attempt, NEW j \in Attempt,
                        NEW n \in DOMAIN List(l, k)', NEW m \in DOMAIN List(o, j)',
                        List(l, k)'[n].id = List(o, j)'[m].id
                 PROVE  l = o /\ k = j /\ n = m
      BY DEF NothingTwice
    <2>1. CASE n \in DOMAIN List(l, k) /\ List(l, k)'[n] = List(l, k)[n]
      <3>1. List(l, k)[n].id \in seen
        BY <2>1 DEF KInv, KeptIsSeen
      <3>2. List(o, j)'[m] # e
        BY <2>1, <3>1
      <3>3. m \in DOMAIN List(o, j) /\ List(o, j)'[m] = List(o, j)[m]
        BY <1>6, <3>2
      <3> QED
        BY <2>1, <3>3 DEF KInv, NothingTwice
    <2>2. CASE l = l0 /\ k = e.attempt /\ n = last1 /\ List(l, k)'[n] = e
      <3>1. CASE m \in DOMAIN List(o, j) /\ List(o, j)'[m] = List(o, j)[m]
        <4>1. List(o, j)[m].id \in seen
          BY <3>1 DEF KInv, KeptIsSeen
        <4> QED
          BY <2>2, <3>1, <4>1
      <3>2. CASE o = l0 /\ j = e.attempt /\ m = last1
        BY <2>2, <3>2
      <3> QED
        BY <1>6, <3>1, <3>2
    <2> QED
      BY <1>6, <2>1, <2>2
  <1> QED
    BY <1>8, <1>9, <1>10 DEF KInv

LEMMA NoRefsBeforeStep == TypeOK /\ NoRefsBefore /\ [Next]_vars => NoRefsBefore'
  <1> SUFFICES ASSUME TypeOK, NoRefsBefore, [Next]_vars PROVE NoRefsBefore'
    OBVIOUS
  <1>1. ASSUME NEW e \in Event, ProjectFirst(e) \/ ProjectIgnored(e) \/ ProjectAdvance(e)
        PROVE  NoRefsBefore'
    BY <1>1, EventFields
       DEF ProjectFirst, ProjectIgnored, ProjectAdvance, TypeOK, NoRefsBefore
  <1>2. ASSUME UNCHANGED state PROVE NoRefsBefore'
    BY <1>2 DEF state, NoRefsBefore
  <1> QED
    BY <1>1, <1>2 DEF Next, ProjectSeen, vars, state

LEMMA KeptStep == TypeOK /\ NoRefsBefore /\ KInv /\ [Next]_vars => KInv'
  <1> SUFFICES ASSUME TypeOK, NoRefsBefore, KInv, [Next]_vars PROVE KInv'
    OBVIOUS
  <1>1. ASSUME UNCHANGED state PROVE KInv'
    BY <1>1 DEF state, KInv, SeenIsKept, KeptIsSeen, NothingTwice, List
  <1>2. ASSUME NEW e \in Event, ProjectFirst(e) PROVE KInv'
    <2>1. /\ e.attempt \in Attempt /\ e.id \notin seen /\ seen' = seen \union {e.id}
          /\ applied[e.attempt] = << >>
      BY <1>2, EventFields DEF ProjectFirst, TypeOK
    <2>2. /\ applied'[e.attempt] = <<e>> /\ ignored' = ignored
          /\ \A k \in Attempt : k # e.attempt => applied'[k] = applied[k] /\ refs'[k] = refs[k]
          /\ refs'[e.attempt] = RefsOf(e)
      BY <1>2, <2>1 DEF ProjectFirst, TypeOK
    <2>3. List("applied", e.attempt)' = Append(List("applied", e.attempt), e)
      BY <2>1, <2>2 DEF List
    <2>4. \A l \in Lists, k \in Attempt :
             (l # "applied" \/ k # e.attempt) => List(l, k)' = List(l, k)
      BY <2>2 DEF List, Lists
    <2>5. refs[e.attempt] = {}
      BY <1>2, <2>1 DEF ProjectFirst, NoRefsBefore
    <2> QED
      BY <1>2, <2>1, <2>2, <2>3, <2>4, <2>5, NewEventKeeps DEF Lists
  <1>3. ASSUME NEW e \in Event, ProjectIgnored(e) PROVE KInv'
    <2>1. /\ e.attempt \in Attempt /\ e.id \notin seen /\ seen' = seen \union {e.id}
      BY <1>3, EventFields DEF ProjectIgnored
    <2>2. /\ ignored'[e.attempt] = Append(ignored[e.attempt], e) /\ applied' = applied
          /\ \A k \in Attempt : k # e.attempt => ignored'[k] = ignored[k] /\ refs'[k] = refs[k]
          /\ refs'[e.attempt] = refs[e.attempt] \union RefsOf(e)
      BY <1>3, <2>1 DEF ProjectIgnored, TypeOK
    <2>3. List("ignored", e.attempt)' = Append(List("ignored", e.attempt), e)
      BY <2>2 DEF List
    <2>4. \A l \in Lists, k \in Attempt :
             (l # "ignored" \/ k # e.attempt) => List(l, k)' = List(l, k)
      BY <2>2 DEF List, Lists
    <2> QED
      BY <2>1, <2>2, <2>3, <2>4, NewEventKeeps DEF Lists
  <1>4. ASSUME NEW e \in Event, ProjectAdvance(e) PROVE KInv'
    <2>1. /\ e.attempt \in Attempt /\ e.id \notin seen /\ seen' = seen \union {e.id}
      BY <1>4, EventFields DEF ProjectAdvance
    <2>2. /\ applied'[e.attempt] = Append(applied[e.attempt], e) /\ ignored' = ignored
          /\ \A k \in Attempt : k # e.attempt => applied'[k] = applied[k] /\ refs'[k] = refs[k]
          /\ refs'[e.attempt] = refs[e.attempt] \union RefsOf(e)
      BY <1>4, <2>1 DEF ProjectAdvance, TypeOK
    <2>3. List("applied", e.attempt)' = Append(List("applied", e.attempt), e)
      BY <2>2 DEF List
    <2>4. \A l \in Lists, k \in Attempt :
             (l # "applied" \/ k # e.attempt) => List(l, k)' = List(l, k)
      BY <2>2 DEF List, Lists
    <2> QED
      BY <2>1, <2>2, <2>3, <2>4, NewEventKeeps DEF Lists
  <1>5. ASSUME NEW e \in Event, ProjectSeen(e) PROVE KInv'
    BY <1>1, <1>5 DEF ProjectSeen
  <1> QED
    BY <1>1, <1>2, <1>3, <1>4, <1>5 DEF Next, vars, state

(* The two lists one behind the other hold what they hold by themselves.   *)
LEMMA KeptElements ==
    ASSUME TypeOK, NEW k \in Attempt
    PROVE  \E a \in Nat :
              /\ DOMAIN applied[k] = 1 .. a
              /\ \A n \in DOMAIN applied[k] : n \in DOMAIN Kept(k) /\ Kept(k)[n] = applied[k][n]
              /\ \A n \in DOMAIN ignored[k] :
                    n + a \in DOMAIN Kept(k) /\ Kept(k)[n + a] = ignored[k][n]
              /\ \A n \in DOMAIN Kept(k) :
                    \/ n \in DOMAIN applied[k] /\ Kept(k)[n] = applied[k][n]
                    \/ n - a \in DOMAIN ignored[k] /\ Kept(k)[n] = ignored[k][n - a]
  <1>1. PICK s \in Seq(Event), t \in Seq(Event) : s = applied[k] /\ t = ignored[k]
    BY DEF TypeOK
  <1>2. /\ Len(s \o t) = Len(s) + Len(t) /\ s \o t \in Seq(Event)
        /\ \A i \in 1 .. Len(s) + Len(t) :
              (s \o t)[i] = IF i <= Len(s) THEN s[i] ELSE t[i - Len(s)]
    BY ConcatProperties
  <1>3. PICK a \in Nat, b \in Nat : a = Len(s) /\ b = Len(t)
    BY LenProperties
  <1>4. PICK both : both = s \o t
    OBVIOUS
  <1>5. /\ DOMAIN s = 1 .. a /\ DOMAIN t = 1 .. b /\ DOMAIN both = 1 .. a + b
        /\ \A i \in 1 .. a + b : both[i] = IF i <= a THEN s[i] ELSE t[i - a]
    BY <1>2, <1>3, <1>4, LenProperties
  <1>6. /\ \A n \in 1 .. a : n \in 1 .. a + b /\ both[n] = s[n]
        /\ \A n \in 1 .. b : n + a \in 1 .. a + b /\ both[n + a] = t[n]
        /\ \A n \in 1 .. a + b : \/ n \in 1 .. a /\ both[n] = s[n]
                                 \/ n - a \in 1 .. b /\ both[n] = t[n - a]
    <2>1. \A n \in 1 .. a : n \in 1 .. a + b /\ both[n] = s[n]
      BY <1>5
    <2>2. ASSUME NEW n \in 1 .. b PROVE n + a \in 1 .. a + b /\ both[n + a] = t[n]
      <3>1. n + a \in 1 .. a + b /\ ~(n + a <= a) /\ (n + a) - a = n
        OBVIOUS
      <3> QED
        BY <1>5, <3>1
    <2>3. ASSUME NEW n \in 1 .. a + b
          PROVE  \/ n \in 1 .. a /\ both[n] = s[n]
                 \/ n - a \in 1 .. b /\ both[n] = t[n - a]
      BY <1>5
    <2> QED
      BY <2>1, <2>2, <2>3
  <1>7. Kept(k) = both
    BY <1>1, <1>4 DEF Kept
  <1> QED
    BY <1>1, <1>5, <1>6, <1>7

(* KeptOnce in terms of the ids that were seen.                            *)
KeptBySeen ==
    /\ \A i \in seen : \E k \in Attempt : \E n \in DOMAIN Kept(k) : Kept(k)[n].id = i
    /\ \A k \in Attempt : \A n \in DOMAIN Kept(k) :
          /\ Kept(k)[n].id \in seen
          /\ Kept(k)[n].attempt = k
          /\ RefsOf(Kept(k)[n]) \subseteq refs[k]
    /\ \A k, j \in Attempt : \A n \in DOMAIN Kept(k), m \in DOMAIN Kept(j) :
          Kept(k)[n].id = Kept(j)[m].id => k = j /\ n = m

LEMMA KeptLists == TypeOK /\ KInv => KeptBySeen
  <1> SUFFICES ASSUME TypeOK, KInv PROVE KeptBySeen
    OBVIOUS
  <1>1. PICK A \in [Attempt -> Nat] :
           \A k \in Attempt :
              /\ DOMAIN applied[k] = 1 .. A[k]
              /\ \A n \in DOMAIN applied[k] : n \in DOMAIN Kept(k) /\ Kept(k)[n] = applied[k][n]
              /\ \A n \in DOMAIN ignored[k] :
                    n + A[k] \in DOMAIN Kept(k) /\ Kept(k)[n + A[k]] = ignored[k][n]
              /\ \A n \in DOMAIN Kept(k) :
                    \/ n \in DOMAIN applied[k] /\ Kept(k)[n] = applied[k][n]
                    \/ n - A[k] \in DOMAIN ignored[k] /\ Kept(k)[n] = ignored[k][n - A[k]]
    <2> DEFINE Fits(k, a) ==
              /\ DOMAIN applied[k] = 1 .. a
              /\ \A n \in DOMAIN applied[k] : n \in DOMAIN Kept(k) /\ Kept(k)[n] = applied[k][n]
              /\ \A n \in DOMAIN ignored[k] :
                    n + a \in DOMAIN Kept(k) /\ Kept(k)[n + a] = ignored[k][n]
              /\ \A n \in DOMAIN Kept(k) :
                    \/ n \in DOMAIN applied[k] /\ Kept(k)[n] = applied[k][n]
                    \/ n - a \in DOMAIN ignored[k] /\ Kept(k)[n] = ignored[k][n - a]
    <2>1. \A k \in Attempt : \E a \in Nat : Fits(k, a)
      BY KeptElements
    <2> HIDE DEF Fits
    <2>2. \A k \in Attempt : Fits(k, [j \in Attempt |-> CHOOSE a \in Nat : Fits(j, a)][k])
      BY <2>1
    <2>3. [j \in Attempt |-> CHOOSE a \in Nat : Fits(j, a)] \in [Attempt -> Nat]
      BY <2>1
    <2>4. \E B \in [Attempt -> Nat] : \A k \in Attempt : Fits(k, B[k])
      BY <2>2, <2>3
    <2> QED
      BY <2>4 DEF Fits
  (* Where an element of the two lists is in one of them.                  *)
  <1>2. ASSUME NEW k \in Attempt, NEW n \in DOMAIN Kept(k)
        PROVE  \/ /\ n \in DOMAIN List("applied", k)
                  /\ Kept(k)[n] = List("applied", k)[n]
               \/ /\ n - A[k] \in DOMAIN List("ignored", k)
                  /\ Kept(k)[n] = List("ignored", k)[n - A[k]]
    BY <1>1 DEF List
  <1>3. \A i \in seen : \E k \in Attempt : \E n \in DOMAIN Kept(k) : Kept(k)[n].id = i
    <2> SUFFICES ASSUME NEW i \in seen
                 PROVE  \E k \in Attempt : \E n \in DOMAIN Kept(k) : Kept(k)[n].id = i
      OBVIOUS
    <2>1. PICK l \in Lists, k \in Attempt : \E n \in DOMAIN List(l, k) : List(l, k)[n].id = i
      BY DEF KInv, SeenIsKept
    <2>2. CASE l = "applied"
      BY <1>1, <2>1, <2>2 DEF List
    <2>3. CASE l = "ignored"
      <3>1. PICK n \in DOMAIN ignored[k] : ignored[k][n].id = i
        BY <2>1, <2>3 DEF List
      <3>2. n + A[k] \in DOMAIN Kept(k) /\ Kept(k)[n + A[k]] = ignored[k][n]
        BY <1>1, <3>1
      <3> QED
        BY <3>1, <3>2
    <2> QED
      BY <2>2, <2>3 DEF Lists
  <1>4. ASSUME NEW k \in Attempt, NEW n \in DOMAIN Kept(k)
        PROVE  /\ Kept(k)[n].id \in seen
               /\ Kept(k)[n].attempt = k
               /\ RefsOf(Kept(k)[n]) \subseteq refs[k]
    BY <1>2 DEF KInv, KeptIsSeen, Lists
  <1>5. ASSUME NEW k \in Attempt, NEW j \in Attempt,
               NEW n \in DOMAIN Kept(k), NEW m \in DOMAIN Kept(j),
               Kept(k)[n].id = Kept(j)[m].id
        PROVE  k = j /\ n = m
    <2>0. "applied" \in Lists /\ "ignored" \in Lists /\ "applied" # "ignored"
      BY DEF Lists
    <2>1. CASE /\ n \in DOMAIN List("applied", k)
               /\ Kept(k)[n] = List("applied", k)[n]
      BY <1>2, <1>5, <2>0, <2>1 DEF KInv, NothingTwice
    <2>2. CASE /\ n - A[k] \in DOMAIN List("ignored", k)
               /\ Kept(k)[n] = List("ignored", k)[n - A[k]]
      <3>1. k = j /\ n - A[k] = m - A[j]
        BY <1>2, <1>5, <2>0, <2>2 DEF KInv, NothingTwice
      <3>2. n \in Nat /\ m \in Nat /\ A[k] \in Nat
        <4>1. \A h \in Attempt : DOMAIN Kept(h) \subseteq Nat
          BY ConcatProperties, LenProperties DEF Kept, TypeOK
        <4> QED
          BY <4>1
      <3> QED
        BY <3>1, <3>2
    <2> QED
      BY <1>2, <2>1, <2>2
  <1> QED
    BY <1>3, <1>4, <1>5 DEF KeptBySeen

(* The ids seen are those of the events given, and nothing else is kept.   *)
GivenInv ==
    /\ seen = {e.id : e \in given}
    /\ \A k \in Attempt : applied[k] \in Seq(given) /\ ignored[k] \in Seq(given)

LEMMA GivenStep == TypeOK /\ GivenInv /\ [Next]_vars => GivenInv'
  <1> SUFFICES ASSUME TypeOK, GivenInv, [Next]_vars PROVE GivenInv'
    OBVIOUS
  <1>1. CASE UNCHANGED vars
    BY <1>1 DEF vars, GivenInv
  <1>2. CASE Next
    <2>1. PICK e \in Event :
             /\ ProjectSeen(e) \/ ProjectFirst(e) \/ ProjectIgnored(e) \/ ProjectAdvance(e)
             /\ given' = given \union {e}
      BY <1>2 DEF Next
    <2>2. seen' = seen \union {e.id}
      BY <2>1 DEF ProjectSeen, ProjectFirst, ProjectIgnored, ProjectAdvance, state
    <2>3. seen' = {o.id : o \in given'}
      BY <2>1, <2>2 DEF GivenInv
    <2>4. ASSUME NEW k \in Attempt
          PROVE  applied'[k] \in Seq(given') /\ ignored'[k] \in Seq(given')
      <3>1. applied[k] \in Seq(given') /\ ignored[k] \in Seq(given') /\ e \in given'
        <4>1. given \subseteq given'
          BY <2>1
        <4>2. Seq(given) \subseteq Seq(given')
          BY <4>1
        <4> QED
          BY <2>1, <4>2 DEF GivenInv
      <3>2. /\ <<e>> \in Seq(given')
            /\ Append(applied[k], e) \in Seq(given') /\ Append(ignored[k], e) \in Seq(given')
        BY <3>1
      <3>3. applied'[k] \in {applied[k], <<e>>, Append(applied[k], e)}
        <4>1. \/ applied' = applied
              \/ applied' = [applied EXCEPT ![e.attempt] = <<e>>]
              \/ applied' = [applied EXCEPT ![e.attempt] = Append(@, e)]
          BY <2>1 DEF ProjectSeen, ProjectFirst, ProjectIgnored, ProjectAdvance, state
        <4>2. applied \in [Attempt -> Seq(Event)]
          BY DEF TypeOK
        <4> QED
          BY <4>1, <4>2
      <3>4. ignored'[k] \in {ignored[k], Append(ignored[k], e)}
        BY <2>1 DEF ProjectSeen, ProjectFirst, ProjectIgnored, ProjectAdvance, state, TypeOK
      <3> QED
        BY <3>1, <3>2, <3>3, <3>4
    <2> QED
      BY <2>3, <2>4 DEF GivenInv
  <1> QED
    BY <1>1, <1>2

LEMMA GivenIsKept == TypeOK /\ GivenInv /\ KeptBySeen => KeptOnce
  <1> SUFFICES ASSUME TypeOK, GivenInv, KeptBySeen PROVE KeptOnce
    OBVIOUS
  <1>1. ASSUME NEW k \in Attempt, NEW n \in DOMAIN Kept(k)
        PROVE  Kept(k)[n] \in given
    <2>1. Kept(k) \in Seq(given)
      BY ConcatProperties DEF Kept, GivenInv
    <2> QED
      BY <2>1
  <1>2. ASSUME NEW e \in given
        PROVE  \E o \in given : o.id = e.id /\ IsKept(o)
    <2>1. e.id \in seen
      BY DEF GivenInv
    <2>2. PICK k \in Attempt : \E n \in DOMAIN Kept(k) : Kept(k)[n].id = e.id
      BY <2>1 DEF KeptBySeen
    <2>3. PICK n \in DOMAIN Kept(k) : Kept(k)[n].id = e.id
      BY <2>2
    <2>4. Kept(k)[n] \in given /\ Kept(k)[n].attempt = k
      BY <1>1 DEF KeptBySeen
    <2> QED
      BY <2>3, <2>4 DEF IsKept
  <1> QED
    BY <1>1, <1>2 DEF KeptBySeen, KeptOnce

(***************************************************************************)
(* For any events in any order, with ids of their own or not: of the       *)
(* events given under one id exactly one is kept, on its own attempt and   *)
(* with its reference (DeliveryStateProjector.project).                    *)
(***************************************************************************)
THEOREM DeliveryKeptOnce == Spec => []KeptOnce
  <1>1. Init => NoRefsBefore /\ KInv
    BY DEF Init, NoRefsBefore, KInv, SeenIsKept, KeptIsSeen, NothingTwice, List
  <1>2. Init => GivenInv
    BY DEF Init, GivenInv
  <1> QED
    BY <1>1, <1>2, NoRefsBeforeStep, KeptStep, KeptLists, GivenStep, GivenIsKept,
       DeliveryTypeCorrect, PTL DEF Spec

(***************************************************************************)
(* Where no two events carry one id, every event given is kept.            *)
(***************************************************************************)
THEOREM DeliveryNothingLost ==
    (\A e, o \in Event : e.id = o.id => e = o) => (Spec => [](\A e \in given : IsKept(e)))
  <1> SUFFICES ASSUME \A e, o \in Event : e.id = o.id => e = o
               PROVE  Spec => [](\A e \in given : IsKept(e))
    OBVIOUS
  <1>1. TypeOK /\ KeptOnce => \A e \in given : IsKept(e)
    BY DEF TypeOK, KeptOnce
  <1> QED
    BY <1>1, DeliveryTypeCorrect, DeliveryKeptOnce, PTL
=============================================================================
