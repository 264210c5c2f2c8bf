--------------------------- MODULE ReplyDraftsProofs ---------------------------
(***************************************************************************)
(* Theorems about ReplyDrafts, for any number of transactions and drafts,  *)
(* where calls name drafts that are there: UnknownIds is FALSE, without    *)
(* which TLC finds HighRiskIsOwned violated.  The invariant they rest on   *)
(* says what the row locks are for: between its update and its commit a    *)
(* transaction's condition still holds of the committed row, and the row   *)
(* it has written is still that row updated.                               *)
(***************************************************************************)
EXTENDS ReplyDrafts, TLAPS

Called(x) == pc[x] # "idle" => call[x] # None /\ rows[call[x].draft] # None

GatePassed(x) ==
    (pc[x] \in {"update", "commit"} /\ call[x].function = "approve"
       /\ rows[call[x].draft].risk \in HighRisk) => ~Unaccountable(call[x])

WrittenIsCurrent(x) == pc[x] = "commit" => Matches(x) /\ pending[x] = Updated(x)

LocksExclude ==
    \A x, y \in Transaction :
        (pc[x] = "commit" /\ pc[y] = "commit" /\ x # y) => call[x].draft # call[y].draft

IInv ==
    /\ TypeOK
    /\ \A x \in Transaction : Called(x) /\ GatePassed(x) /\ WrittenIsCurrent(x)
    /\ LocksExclude
    /\ ReturnedIsTrue
    /\ HighRiskIsOwned

-----------------------------------------------------------------------------
(* What a row becomes keeps its type, and only what the call is for.       *)
LEMMA UpdatedRow ==
    ASSUME IInv, NEW x \in Transaction, pc[x] \in {"select", "update", "commit"}
    PROVE  LET old == rows[call[x].draft]
               new == Updated(x)
           IN  /\ call[x] \in Call /\ call[x].draft \in Draft /\ old \in Row
               /\ new \in Row /\ new # None /\ new.risk = old.risk
               /\ call[x].function = "respond" =>
                     /\ new = [old EXCEPT !.ops_status = "responded"]
                     /\ new.ops_status = "responded" /\ new.status = old.status
                     /\ new.approval_id = old.approval_id
                     /\ new.owner = old.owner /\ new.deadline = old.deadline
               /\ call[x].function = "approve" =>
                     /\ new.status = "approved" /\ new.approval_id = x
                     /\ new.ops_status = old.ops_status
                     /\ call[x].owner # None => new.owner = call[x].owner
                     /\ call[x].deadline => new.deadline
               /\ call[x].function \in {"approve", "respond"}
  <1>1. /\ call[x] \in Call /\ rows[call[x].draft] # None
    BY DEF IInv, TypeOK, Called, Labels
  <1>2. /\ call[x].draft \in Draft /\ call[x].function \in {"approve", "respond"}
        /\ call[x].owner \in Owner \union {None} /\ call[x].deadline \in BOOLEAN
    BY <1>1, ReplyDraftAssumption
  <1>3. rows[call[x].draft] \in Row
    BY <1>1, <1>2 DEF IInv, TypeOK
  <1>4. PICK old \in Row : old = rows[call[x].draft]
    BY <1>3
  <1>5. CASE call[x].function = "respond"
    <2>1. Updated(x) = [old EXCEPT !.ops_status = "responded"]
      BY <1>4, <1>5 DEF Updated
    <2>2. Updated(x) \in Row
      BY <2>1 DEF Row
    <2> QED
      BY <1>1, <1>2, <1>4, <1>5, <2>1, <2>2, ReplyDraftAssumption DEF Row
  <1>6. CASE call[x].function = "approve"
    <2>1. Updated(x) = [old EXCEPT !.status = "approved", !.approval_id = x,
                                   !.owner = Coalesce(call[x].owner, old.owner),
                                   !.deadline = call[x].deadline \/ old.deadline]
      BY <1>4, <1>6 DEF Updated
    <2>2. Coalesce(call[x].owner, old.owner) \in Owner \union {None}
      BY <1>2 DEF Coalesce, Row
    <2>3. Updated(x) \in Row
      BY <1>2, <2>1, <2>2 DEF Row
    <2> DEFINE after == Updated(x)
    <2>4. /\ after.status = "approved" /\ after.approval_id = x
          /\ after.risk = old.risk /\ after.ops_status = old.ops_status
          /\ after.owner = Coalesce(call[x].owner, old.owner)
          /\ after.deadline = (call[x].deadline \/ old.deadline)
      BY <1>2, <2>1 DEF Row
    <2>5. after # None
      BY <2>3, ReplyDraftAssumption
    <2>6. call[x].owner # None => after.owner = call[x].owner
      BY <2>4 DEF Coalesce
    <2>7. call[x].deadline => after.deadline
      BY <2>4
    <2> QED
      BY <1>1, <1>2, <1>4, <1>6, <2>3, <2>4, <2>5, <2>6, <2>7
  <1> QED
    BY <1>2, <1>5, <1>6

LEMMA DraftsInit == Init => IInv
  BY ReplyDraftAssumption
     DEF Init, IInv, TypeOK, Called, GatePassed, WrittenIsCurrent, LocksExclude,
         ReturnedIsTrue, HighRiskIsOwned, Labels

(* An insert touches no row a call knows of.                               *)
LEMMA InsertKeeps ==
    ASSUME IInv, ~UnknownIds, NEW d \in Draft, Insert(d)
    PROVE  IInv'
  <1>1. PICK row \in NewRow : rows' = [rows EXCEPT ![d] = row]
    BY DEF Insert
  <1>2. /\ row \in Row /\ row.status # "approved" /\ row # None /\ rows[d] = None
    BY ReplyDraftAssumption DEF Insert
  <1>3. TypeOK'
    BY <1>1, <1>2 DEF IInv, TypeOK, Insert
  <1>4. \A x \in Transaction : pc[x] # "idle" =>
            call[x] # None /\ call[x].draft \in Draft /\ call[x].draft # d
            /\ rows'[call[x].draft] = rows[call[x].draft]
    <2> SUFFICES ASSUME NEW x \in Transaction, pc[x] # "idle"
                 PROVE  call[x] # None /\ call[x].draft \in Draft /\ call[x].draft # d
                        /\ rows'[call[x].draft] = rows[call[x].draft]
      OBVIOUS
    <2>1. call[x] \in Call /\ rows[call[x].draft] # None
      BY DEF IInv, TypeOK, Called
    <2>2. call[x].draft \in Draft
      BY <2>1, ReplyDraftAssumption
    <2> QED
      <3>1. call[x].draft # d
        BY <1>2, <2>1
      <3>2. \A j \in Draft : j # d => rows'[j] = rows[j]
        BY <1>1 DEF IInv, TypeOK
      <3>3. call[x] # None
        BY DEF IInv, Called
      <3> QED
        BY <2>2, <3>1, <3>2, <3>3, Zenon
  <1>5. UNCHANGED <<now, call, began, pc, pending>>
    BY DEF Insert
  <1>6. \A x \in Transaction : Called(x)' /\ GatePassed(x)' /\ WrittenIsCurrent(x)'
    <2> SUFFICES ASSUME NEW x \in Transaction
                 PROVE  Called(x)' /\ GatePassed(x)' /\ WrittenIsCurrent(x)'
      OBVIOUS
    <2>1. Called(x) /\ GatePassed(x) /\ WrittenIsCurrent(x)
      BY DEF IInv
    <2>2. Called(x)'
      BY <1>4, <1>5, <2>1 DEF Called
    <2>3. GatePassed(x)'
      BY <1>4, <1>5, <2>1 DEF GatePassed, Unaccountable
    <2>4. WrittenIsCurrent(x)'
      BY <1>4, <1>5, <2>1 DEF WrittenIsCurrent, Matches, Updated
    <2> QED
      BY <2>2, <2>3, <2>4
  <1>7. LocksExclude'
    BY <1>5 DEF IInv, LocksExclude
  <1>8. ReturnedIsTrue'
    BY <1>4, <1>5 DEF IInv, ReturnedIsTrue
  <1>9. HighRiskIsOwned'
    BY <1>1, <1>2 DEF IInv, HighRiskIsOwned, TypeOK
  <1> QED
    BY <1>3, <1>6, <1>7, <1>8, <1>9 DEF IInv

(* The calls of the others, and what they have been told, are not touched  *)
(* by a step of x that leaves the rows alone.                              *)
LEMMA CallStepKeeps ==
    ASSUME IInv, ~UnknownIds, NEW x \in Transaction,
           UNCHANGED <<now, rows>>,
           TypeOK',
           \A y \in Transaction \ {x} :
               call'[y] = call[y] /\ pc'[y] = pc[y] /\ pending'[y] = pending[y] /\ began'[y] = began[y],
           pc'[x] # "returned",
           (Called(x) /\ GatePassed(x) /\ WrittenIsCurrent(x))',
           pc'[x] = "commit" =>
               \A y \in Transaction \ {x} : pc[y] = "commit" => call[y].draft # call'[x].draft
    PROVE  IInv'
  <1>1. ASSUME NEW y \in Transaction \ {x}
        PROVE  Called(y)' /\ GatePassed(y)' /\ WrittenIsCurrent(y)'
    <2>1. Called(y) /\ GatePassed(y) /\ WrittenIsCurrent(y)
      BY DEF IInv
    <2>2. call'[y] = call[y] /\ pc'[y] = pc[y] /\ pending'[y] = pending[y] /\ began'[y] = began[y]
      BY <1>1
    <2>3. Called(y)'
      BY <2>1, <2>2 DEF Called
    <2>4. GatePassed(y)'
      BY <2>1, <2>2 DEF GatePassed, Unaccountable
    <2>5. WrittenIsCurrent(y)'
      BY <2>1, <2>2 DEF WrittenIsCurrent, Matches, Updated
    <2> QED
      BY <2>3, <2>4, <2>5
  <1>2. LocksExclude'
    BY DEF IInv, LocksExclude
  <1>3. ReturnedIsTrue'
    BY DEF IInv, ReturnedIsTrue
  <1>4. HighRiskIsOwned'
    BY DEF IInv, HighRiskIsOwned
  <1> QED
    BY <1>1, <1>2, <1>3, <1>4 DEF IInv

LEMMA BeginKeeps ==
    ASSUME IInv, ~UnknownIds, NEW x \in Transaction, NEW c \in Call, Begin(x, c)
    PROVE  IInv'
  <1>1. /\ c.draft \in Draft /\ rows[c.draft] # None /\ c # None
        /\ pc'[x] \in {"select", "update"} /\ call'[x] = c
        /\ c.function = "approve" => pc'[x] = "select"
    BY ReplyDraftAssumption DEF Begin, Goto, IInv, TypeOK
  <1>2. TypeOK'
    BY <1>1 DEF IInv, TypeOK, Begin, Goto, Labels
  <1>3. (Called(x) /\ GatePassed(x) /\ WrittenIsCurrent(x))'
    BY <1>1 DEF Called, GatePassed, WrittenIsCurrent, Begin
  <1>4. UNCHANGED <<now, rows>> /\ pc'[x] # "returned" /\ pc'[x] # "commit"
    BY <1>1 DEF Begin
  <1>5. \A y \in Transaction \ {x} :
            call'[y] = call[y] /\ pc'[y] = pc[y] /\ pending'[y] = pending[y] /\ began'[y] = began[y]
    BY DEF Begin, Goto, IInv, TypeOK
  <1> QED
    BY <1>2, <1>3, <1>4, <1>5, CallStepKeeps

LEMMA CheckRiskKeeps ==
    ASSUME IInv, ~UnknownIds, NEW x \in Transaction, CheckRisk(x)
    PROVE  IInv'
  <1>1. /\ pc'[x] \in {"raised", "update"} /\ call'[x] = call[x] /\ pc[x] = "select"
        /\ pc'[x] = "update" =>
              ~(rows[call[x].draft].risk \in HighRisk /\ Unaccountable(call[x]))
    BY DEF CheckRisk, Goto, IInv, TypeOK, Called
  <1>2. TypeOK'
    BY <1>1 DEF IInv, TypeOK, CheckRisk, Goto, Labels
  <1>3. (Called(x) /\ GatePassed(x) /\ WrittenIsCurrent(x))'
    BY <1>1 DEF IInv, Called, GatePassed, Unaccountable, WrittenIsCurrent, CheckRisk
  <1>4. UNCHANGED <<now, rows>> /\ pc'[x] # "returned" /\ pc'[x] # "commit"
    BY <1>1 DEF CheckRisk
  <1>5. \A y \in Transaction \ {x} :
            call'[y] = call[y] /\ pc'[y] = pc[y] /\ pending'[y] = pending[y] /\ began'[y] = began[y]
    BY DEF CheckRisk, Goto, IInv, TypeOK
  <1> QED
    BY <1>2, <1>3, <1>4, <1>5, CallStepKeeps

LEMMA UpdateKeeps ==
    ASSUME IInv, ~UnknownIds, NEW x \in Transaction, Update(x)
    PROVE  IInv'
  <1>1. /\ pc[x] = "update" /\ call'[x] = call[x] /\ ~Locked(call[x].draft)
        /\ UNCHANGED <<now, rows, call, began>>
    BY DEF Update
  <1>2. CASE ~Matches(x)
    <2>1. pc' = [pc EXCEPT ![x] = "raised"] /\ pending' = pending
      BY <1>2 DEF Update, Goto
    <2>2. TypeOK'
      BY <1>1, <2>1 DEF IInv, TypeOK, Labels
    <2>3. (Called(x) /\ GatePassed(x) /\ WrittenIsCurrent(x))' /\ pc'[x] = "raised"
      BY <1>1, <2>1 DEF IInv, TypeOK, Called, GatePassed, WrittenIsCurrent
    <2>4. \A y \in Transaction \ {x} : pc'[y] = pc[y]
      BY <2>1 DEF IInv, TypeOK
    <2> QED
      BY <1>1, <2>1, <2>2, <2>3, <2>4, CallStepKeeps
  <1>3. CASE Matches(x)
    <2>1. /\ pc' = [pc EXCEPT ![x] = "commit"]
          /\ pending' = [pending EXCEPT ![x] = Updated(x)]
      BY <1>3 DEF Update, Goto
    <2>2. Updated(x) \in Row /\ Updated(x) # None
      BY <1>1, UpdatedRow
    <2>3. TypeOK'
      BY <1>1, <2>1, <2>2 DEF IInv, TypeOK, Labels
    <2>4. pc'[x] = "commit" /\ pending'[x] = Updated(x)
      BY <2>1 DEF IInv, TypeOK
    <2>5. (Called(x) /\ GatePassed(x))'
      BY <1>1, <2>4 DEF IInv, Called, GatePassed, Unaccountable
    <2>6. WrittenIsCurrent(x)'
      BY <1>1, <1>3, <2>4 DEF WrittenIsCurrent, Matches, Updated
    <2>7. \A y \in Transaction \ {x} : pc'[y] = pc[y] /\ pending'[y] = pending[y]
      BY <2>1 DEF IInv, TypeOK
    <2>8. \A y \in Transaction \ {x} : pc[y] = "commit" => call[y].draft # call'[x].draft
      BY <1>1 DEF Locked, IInv, TypeOK
    <2> QED
      BY <1>1, <2>3, <2>4, <2>5, <2>6, <2>7, <2>8, CallStepKeeps
  <1> QED
    BY <1>2, <1>3

LEMMA AbortKeeps ==
    ASSUME IInv, ~UnknownIds, NEW x \in Transaction, Abort(x)
    PROVE  IInv'
  <1>1. /\ pc' = [pc EXCEPT ![x] = "aborted"] /\ pending' = [pending EXCEPT ![x] = None]
        /\ UNCHANGED <<now, rows, call, began>> /\ pc[x] # "idle"
    BY DEF Abort, Goto
  <1>2. TypeOK'
    BY <1>1 DEF IInv, TypeOK, Labels
  <1>3. (Called(x) /\ GatePassed(x) /\ WrittenIsCurrent(x))' /\ pc'[x] = "aborted"
    BY <1>1 DEF IInv, TypeOK, Called, GatePassed, WrittenIsCurrent
  <1>4. \A y \in Transaction \ {x} : pc'[y] = pc[y] /\ pending'[y] = pending[y]
    BY <1>1 DEF IInv, TypeOK
  <1> QED
    BY <1>1, <1>2, <1>3, <1>4, CallStepKeeps

-----------------------------------------------------------------------------
(* What a commit does to the row: a step of the register.                  *)
LEMMA CommitEffect ==
    ASSUME IInv, ~UnknownIds, NEW x \in Transaction, Commit(x)
    PROVE  LET d == call[x].draft IN
           /\ d \in Draft /\ rows[d] \in Row /\ rows' = [rows EXCEPT ![d] = Updated(x)]
           /\ rows'[d] = Updated(x) /\ Updated(x) \in Row
           /\ \A j \in Draft \ {d} : rows'[j] = rows[j]
           /\ Matches(x) /\ GatePassed(x) /\ pc[x] = "commit"
           /\ pc' = [pc EXCEPT ![x] = "returned"] /\ pending' = [pending EXCEPT ![x] = None]
           /\ UNCHANGED <<now, call, began>>
  <1>1. pc[x] = "commit" /\ Matches(x) /\ pending[x] = Updated(x) /\ GatePassed(x)
    BY DEF Commit, IInv, WrittenIsCurrent
  <1>2. call[x].draft \in Draft /\ rows[call[x].draft] \in Row /\ Updated(x) \in Row
    BY <1>1, UpdatedRow
  <1>3. rows' = [rows EXCEPT ![call[x].draft] = Updated(x)]
    BY <1>1 DEF Commit
  <1> QED
    BY <1>1, <1>2, <1>3 DEF Commit, Goto, IInv, TypeOK

LEMMA CommitKeeps ==
    ASSUME IInv, ~UnknownIds, NEW x \in Transaction, Commit(x)
    PROVE  IInv'
  <1> DEFINE d == call[x].draft
  <1>1. /\ d \in Draft /\ rows[d] \in Row /\ rows' = [rows EXCEPT ![d] = Updated(x)]
        /\ rows'[d] = Updated(x) /\ Updated(x) \in Row
        /\ \A j \in Draft \ {d} : rows'[j] = rows[j]
        /\ Matches(x) /\ GatePassed(x) /\ pc[x] = "commit"
        /\ pc' = [pc EXCEPT ![x] = "returned"] /\ pending' = [pending EXCEPT ![x] = None]
        /\ UNCHANGED <<now, call, began>>
    BY CommitEffect
  <1>2. /\ Updated(x) # None /\ Updated(x).risk = rows[d].risk
        /\ call[x].function \in {"approve", "respond"}
        /\ call[x].function = "respond" =>
              /\ Updated(x).ops_status = "responded" /\ Updated(x).status = rows[d].status
              /\ Updated(x).approval_id = rows[d].approval_id
              /\ Updated(x).owner = rows[d].owner /\ Updated(x).deadline = rows[d].deadline
        /\ call[x].function = "approve" =>
              /\ Updated(x).status = "approved" /\ Updated(x).approval_id = x
              /\ Updated(x).ops_status = rows[d].ops_status
              /\ call[x].owner # None => Updated(x).owner = call[x].owner
              /\ call[x].deadline => Updated(x).deadline
              /\ rows[d].status # "approved"
    BY <1>1, UpdatedRow DEF Matches, Awaiting
  <1>3. TypeOK'
    BY <1>1 DEF IInv, TypeOK, Labels
  <1>4. \A y \in Transaction : pc[y] # "idle" =>
            call[y].draft \in Draft /\ rows[call[y].draft] # None
    BY ReplyDraftAssumption DEF IInv, TypeOK, Called
  <1>5. \A y \in Transaction : y # x => pc'[y] = pc[y] /\ pending'[y] = pending[y]
    BY <1>1 DEF IInv, TypeOK
  <1>6. pc'[x] = "returned"
    BY <1>1 DEF IInv, TypeOK
  <1>7. ASSUME NEW y \in Transaction PROVE Called(y)' /\ GatePassed(y)' /\ WrittenIsCurrent(y)'
    <2>0. Called(y) /\ GatePassed(y) /\ WrittenIsCurrent(y)
      BY DEF IInv
    <2>1. Called(y)'
      BY <1>1, <1>2, <1>4, <1>5, <1>6, <2>0 DEF Called
    <2>2. GatePassed(y)'
      BY <1>1, <1>2, <1>4, <1>5, <1>6, <2>0 DEF GatePassed, Unaccountable
    <2>3. WrittenIsCurrent(y)'
      <3>1. CASE pc'[y] = "commit"
        <4>1. y # x /\ pc[y] = "commit"
          BY <1>5, <1>6, <3>1
        <4>2. call[y].draft \in Draft \ {d}
          BY <1>1, <1>4, <4>1 DEF IInv, LocksExclude
        <4>3. rows'[call[y].draft] = rows[call[y].draft]
          BY <1>1, <4>2
        <4>4. Matches(y) /\ pending[y] = Updated(y)
          BY <2>0, <4>1 DEF WrittenIsCurrent
        <4>5. Matches(y)'
          BY <1>1, <4>3, <4>4 DEF Matches
        <4>6. Updated(y)' = Updated(y)
          <5>1. call' = call
            BY <1>1
          <5> QED
            BY <4>3, <5>1 DEF Updated, Coalesce
        <4>7. pending'[y] = pending[y]
          BY <1>5, <4>1
        <4> QED
          BY <4>4, <4>5, <4>6, <4>7 DEF WrittenIsCurrent
      <3>2. CASE pc'[y] # "commit"
        BY <3>2 DEF WrittenIsCurrent
      <3> QED
        BY <3>1, <3>2
    <2> QED
      BY <2>1, <2>2, <2>3
  <1>8. LocksExclude'
    BY <1>1, <1>5, <1>6 DEF IInv, LocksExclude
  <1>9. ReturnedIsTrue'
    <2> SUFFICES ASSUME NEW y \in Transaction, pc'[y] = "returned"
                 PROVE  /\ rows'[call[y].draft] # None
                        /\ call[y].function = "approve" =>
                              /\ rows'[call[y].draft].status = "approved"
                              /\ rows'[call[y].draft].approval_id = y
                        /\ call[y].function = "respond" => rows'[call[y].draft].ops_status = "responded"
      BY <1>1 DEF ReturnedIsTrue
    <2>1. CASE y = x
      BY <1>1, <1>2, <2>1
    <2>2. CASE y # x
      <3>1. /\ pc[y] = "returned" /\ call[y].draft \in Draft
            /\ rows[call[y].draft] # None
            /\ call[y].function = "approve" =>
                  rows[call[y].draft].status = "approved" /\ rows[call[y].draft].approval_id = y
            /\ call[y].function = "respond" => rows[call[y].draft].ops_status = "responded"
        BY <1>4, <1>5, <2>2 DEF IInv, ReturnedIsTrue
      <3>2. CASE call[y].draft # d
        BY <1>1, <3>1, <3>2
      <3>3. CASE call[y].draft = d
        BY <1>1, <1>2, <3>1, <3>3
      <3> QED
        BY <3>2, <3>3
    <2> QED
      BY <2>1, <2>2
  <1>10. HighRiskIsOwned'
    <2> SUFFICES ASSUME NEW j \in Draft, rows'[j] # None,
                        rows'[j].status = "approved", rows'[j].risk \in HighRisk
                 PROVE  rows'[j].owner # None /\ rows'[j].deadline
      BY DEF HighRiskIsOwned
    <2>1. CASE j # d
      BY <1>1, <2>1 DEF IInv, HighRiskIsOwned
    <2>2. CASE j = d /\ call[x].function = "respond"
      BY <1>1, <1>2, <1>4, <2>2 DEF IInv, HighRiskIsOwned
    <2>3. CASE j = d /\ call[x].function = "approve"
      <3>1. rows[d].risk \in HighRisk
        BY <1>1, <1>2, <2>3
      <3>2. ~Unaccountable(call[x])
        BY <1>1, <2>3, <3>1 DEF GatePassed
      <3> QED
        BY <1>1, <1>2, <2>3, <3>2 DEF Unaccountable
    <2> QED
      BY <1>2, <2>1, <2>2, <2>3
  <1> QED
    BY <1>3, <1>7, <1>8, <1>9, <1>10 DEF IInv

LEMMA DraftsStep ==
    ASSUME IInv, ~UnknownIds, [Next]_vars
    PROVE  IInv'
  <1>1. CASE UNCHANGED vars \/ Tick
    <2>1. now' \in 0..MaxTime /\ UNCHANGED <<rows, call, began, pc, pending>>
      BY <1>1, ReplyDraftAssumption DEF vars, Tick, IInv, TypeOK
    <2>2. TypeOK' /\ LocksExclude' /\ ReturnedIsTrue' /\ HighRiskIsOwned'
      BY <2>1 DEF IInv, TypeOK, LocksExclude, ReturnedIsTrue, HighRiskIsOwned
    <2>3. ASSUME NEW x \in Transaction PROVE Called(x)' /\ GatePassed(x)' /\ WrittenIsCurrent(x)'
      BY <2>1 DEF IInv, Called, GatePassed, WrittenIsCurrent, Matches, Updated
    <2> QED
      BY <2>2, <2>3 DEF IInv
  <1> QED
    BY <1>1, InsertKeeps, BeginKeeps, CheckRiskKeeps, UpdateKeeps, CommitKeeps, AbortKeeps
    DEF Next, Step

(***************************************************************************)
(* Any number of calls at once keep the types.                             *)
(***************************************************************************)
THEOREM DraftsTypeCorrect == ~UnknownIds => (Spec => []TypeOK)
  <1> SUFFICES ASSUME ~UnknownIds PROVE Spec => []TypeOK
    OBVIOUS
  <1>1. IInv => TypeOK
    BY DEF IInv
  <1>2. IInv /\ [Next]_vars => IInv'
    BY DraftsStep
  <1> QED
    BY <1>1, <1>2, DraftsInit, PTL DEF Spec

(***************************************************************************)
(* For any number of concurrent calls and drafts: what a call has returned *)
(* remains true, so that no draft is approved twice and no call undoes     *)
(* another.                                                                *)
(***************************************************************************)
THEOREM DraftsReturnedIsTrue == ~UnknownIds => (Spec => []ReturnedIsTrue)
  <1> SUFFICES ASSUME ~UnknownIds PROVE Spec => []ReturnedIsTrue
    OBVIOUS
  <1>1. IInv => ReturnedIsTrue
    BY DEF IInv
  <1>2. IInv /\ [Next]_vars => IInv'
    BY DraftsStep
  <1> QED
    BY <1>1, <1>2, DraftsInit, PTL DEF Spec

(***************************************************************************)
(* And where calls name drafts that are there, an approved draft of high   *)
(* or critical risk has an owner and a deadline.                           *)
(***************************************************************************)
THEOREM DraftsHighRiskIsOwned == ~UnknownIds => (Spec => []HighRiskIsOwned)
  <1> SUFFICES ASSUME ~UnknownIds PROVE Spec => []HighRiskIsOwned
    OBVIOUS
  <1>1. IInv => HighRiskIsOwned
    BY DEF IInv
  <1>2. IInv /\ [Next]_vars => IInv'
    BY DraftsStep
  <1> QED
    BY <1>1, <1>2, DraftsInit, PTL DEF Spec

-----------------------------------------------------------------------------
(* Who approved has returned, so that its times stand still.               *)
ApproverReturned ==
    \A d \in Draft : (rows[d] # None /\ rows[d].status = "approved") =>
        rows[d].approval_id \in Transaction /\ pc[rows[d].approval_id] = "returned"

AInv == ApprovedInTime /\ ApproverReturned

(* A step that leaves the rows alone begins no transaction that returned.  *)
LEMMA CallStepKeepsApprovals ==
    ASSUME IInv, AInv, NEW x \in Transaction, pc[x] # "returned", rows' = rows,
           \A y \in Transaction \ {x} : pc'[y] = pc[y] /\ began'[y] = began[y]
    PROVE  AInv'
  BY DEF AInv, ApprovedInTime, ApproverReturned

LEMMA InsertKeepsApprovals ==
    ASSUME IInv, AInv, NEW d \in Draft, Insert(d)
    PROVE  AInv'
  <1>1. PICK row \in NewRow : rows' = [rows EXCEPT ![d] = row]
    BY DEF Insert
  <1>2. /\ row.status # "approved" /\ row.approval_id = None
        /\ UNCHANGED <<began, pc>>
        /\ \A j \in Draft \ {d} : rows'[j] = rows[j]
        /\ rows'[d] = row
    BY <1>1, ReplyDraftAssumption DEF Insert, IInv, TypeOK
  <1> QED
    BY <1>2 DEF AInv, ApprovedInTime, ApproverReturned

LEMMA CommitKeepsApprovals ==
    ASSUME IInv, AInv, ~UnknownIds, NEW x \in Transaction, Commit(x)
    PROVE  AInv'
  <1> DEFINE d == call[x].draft
             old == rows[d]
             new == Updated(x)
  <1>1. /\ d \in Draft /\ old \in Row /\ rows'[d] = new /\ new \in Row
        /\ \A j \in Draft \ {d} : rows'[j] = rows[j]
        /\ Matches(x) /\ pc[x] = "commit" /\ began' = began
        /\ pc'[x] = "returned" /\ \A y \in Transaction \ {x} : pc'[y] = pc[y]
    BY CommitEffect DEF IInv, TypeOK
  <1>2. /\ call[x].function = "respond" =>
              new.status = old.status /\ new.approval_id = old.approval_id
        /\ call[x].function = "approve" => new.status = "approved" /\ new.approval_id = x
        /\ call[x].function \in {"approve", "respond"}
    BY <1>1, UpdatedRow
  <1>3. new.expires_at = old.expires_at
    BY <1>1 DEF Updated, Row
  <1>4. call[x].function = "approve" => old.expires_at > began[x]
    BY <1>1 DEF Matches
  <1>5. x # None /\ old # None
    BY <1>1, ReplyDraftAssumption DEF Matches
  <1> HIDE DEF d, old, new
  <1>6. ASSUME NEW j \in Draft, rows'[j] # None
        PROVE  /\ rows'[j].status = "approved" <=> rows'[j].approval_id # None
               /\ rows'[j].status = "approved" =>
                     /\ rows'[j].expires_at > began'[rows'[j].approval_id]
                     /\ rows'[j].approval_id \in Transaction
                     /\ pc'[rows'[j].approval_id] = "returned"
    <2>1. CASE j # d
      BY <1>1, <1>6, <2>1 DEF AInv, ApprovedInTime, ApproverReturned
    <2>2. CASE j = d /\ call[x].function = "respond"
      <3>1. /\ old.status = "approved" <=> old.approval_id # None
            /\ old.status = "approved" =>
                  /\ old.expires_at > began[old.approval_id]
                  /\ old.approval_id \in Transaction
                  /\ pc[old.approval_id] = "returned"
        BY <1>1, <1>5 DEF AInv, ApprovedInTime, ApproverReturned, old
      <3> QED
        BY <1>1, <1>2, <1>3, <2>2, <3>1
    <2>3. CASE j = d /\ call[x].function = "approve"
      BY <1>1, <1>2, <1>3, <1>4, <1>5, <2>3
    <2> QED
      BY <1>2, <2>1, <2>2, <2>3
  <1> QED
    BY <1>6 DEF AInv, ApprovedInTime, ApproverReturned

LEMMA ApprovalsStep ==
    ASSUME IInv, AInv, ~UnknownIds, [Next]_vars
    PROVE  AInv'
  <1>1. CASE UNCHANGED vars \/ Tick
    BY <1>1 DEF vars, Tick, AInv, ApprovedInTime, ApproverReturned
  <1>2. ASSUME NEW x \in Transaction, NEW c \in Call, Begin(x, c) PROVE AInv'
    BY <1>2, CallStepKeepsApprovals DEF Begin, Goto, IInv, TypeOK
  <1>3. ASSUME NEW x \in Transaction, CheckRisk(x) \/ Update(x) PROVE AInv'
    BY <1>3, CallStepKeepsApprovals DEF CheckRisk, Update, Goto, IInv, TypeOK
  <1>4. ASSUME NEW x \in Transaction, Abort(x) PROVE AInv'
    BY <1>4, CallStepKeepsApprovals DEF Abort, Goto, IInv, TypeOK
  <1> QED
    BY <1>1, <1>2, <1>3, <1>4, InsertKeepsApprovals, CommitKeepsApprovals DEF Next, Step

(***************************************************************************)
(* For any number of concurrent calls: the approved drafts are those with  *)
(* an approval_id, and none had expired when its approval began.           *)
(***************************************************************************)
THEOREM DraftsApprovedInTime == ~UnknownIds => (Spec => []ApprovedInTime)
  <1> SUFFICES ASSUME ~UnknownIds PROVE Spec => []ApprovedInTime
    OBVIOUS
  <1>1. Init => AInv
    BY DEF Init, AInv, ApprovedInTime, ApproverReturned
  <1>2. IInv /\ [Next]_vars => IInv'
    BY DraftsStep
  <1>3. IInv /\ AInv /\ [Next]_vars => AInv'
    BY ApprovalsStep
  <1>4. AInv => ApprovedInTime
    BY DEF AInv
  <1> QED
    BY <1>1, <1>2, <1>3, <1>4, DraftsInit, PTL DEF Spec

-----------------------------------------------------------------------------
(* A commit is a step of the register.                                     *)
LEMMA CommitImplements ==
    ASSUME IInv, ~UnknownIds, NEW x \in Transaction, Commit(x)
    PROVE  Register!Next
  <1> DEFINE d == call[x].draft
  <1>1. /\ d \in Draft /\ rows[d] \in Row /\ rows' = [rows EXCEPT ![d] = Updated(x)]
        /\ Matches(x) /\ GatePassed(x) /\ pc[x] = "commit" /\ rows[d] # None
    BY CommitEffect, ReplyDraftAssumption
  <1>2. call[x] \in Call /\ call[x].function \in {"approve", "respond"}
        /\ call[x].owner \in Owner \union {None} /\ call[x].deadline \in BOOLEAN
    BY <1>1, UpdatedRow, ReplyDraftAssumption
  <1>3. PICK old \in Row : old = rows[d]
    BY <1>1
  <1>4. CASE call[x].function = "respond"
    <2>1. Updated(x) = [rows[d] EXCEPT !.ops_status = "responded"]
      BY <1>4 DEF Updated
    <2>2. Register!Respond(d)
      BY <1>1, <2>1 DEF Register!Respond
    <2> QED
      BY <1>1, <2>2 DEF Register!Next
  <1>5. CASE call[x].function = "approve"
    <2> DEFINE o == Coalesce(call[x].owner, old.owner)
    <2> DEFINE t == call[x].deadline \/ old.deadline
    <2>1. Updated(x) = [old EXCEPT !.status = "approved", !.approval_id = x, !.owner = o, !.deadline = t]
      BY <1>3, <1>5 DEF Updated
    <2>2. o \in Owner \union {None} /\ t \in BOOLEAN
      BY <1>2 DEF Coalesce, Row
    <2>3. old.status \in Awaiting /\ (old.risk \in HighRisk => o # None /\ t)
      BY <1>1, <1>2, <1>3, <1>5 DEF Matches, GatePassed, Unaccountable, Coalesce
    <2> HIDE DEF o, t
    <2>4. rows' = [rows EXCEPT ![d].status = "approved", ![d].approval_id = x,
                               ![d].owner = o, ![d].deadline = t]
      BY <1>1, <1>3, <2>1
    <2>5. Register!Approve(d)
      <3>1. rows[d] # None /\ rows[d].status \in Register!Awaiting
        BY <1>1, <1>3, <2>3 DEF Register!Awaiting, Awaiting
      <3>2. rows[d].risk \in Register!HighRisk => o # None /\ t
        BY <1>3, <2>3 DEF Register!HighRisk, HighRisk
      <3>3. \E i \in Transaction, oo \in Owner \union {None}, tt \in BOOLEAN :
               /\ rows[d].risk \in Register!HighRisk => oo # None /\ tt
               /\ rows' = [rows EXCEPT ![d].status = "approved", ![d].approval_id = i,
                                       ![d].owner = oo, ![d].deadline = tt]
        <4> HIDE DEF d
        <4> USE <2>2
        <4> WITNESS x \in Transaction, o \in Owner \union {None}, t \in BOOLEAN
        <4> QED
          BY <2>4, <3>2, Zenon
      <3> QED
        BY <3>1, <3>3 DEF Register!Approve
    <2> QED
      BY <1>1, <2>5 DEF Register!Next
  <1> QED
    BY <1>2, <1>4, <1>5

(***************************************************************************)
(* The transactions implement the register: whatever runs at once, every   *)
(* commit is one of its steps, and nothing else changes a row.             *)
(***************************************************************************)
THEOREM DraftsImplementRegister == ~UnknownIds => (Spec => ImplementsRegister)
  <1> SUFFICES ASSUME ~UnknownIds PROVE Spec => Register!Spec
    BY DEF ImplementsRegister
  <1>1. Init => Register!Init
    BY DEF Init, Register!Init
  <1>2. IInv /\ [Next]_vars => [Register!Next]_rows
    <2> SUFFICES ASSUME IInv, [Next]_vars PROVE Register!Next \/ UNCHANGED rows
      OBVIOUS
    <2>1. CASE UNCHANGED vars \/ Tick
      BY <2>1 DEF vars, Tick
    <2>2. ASSUME NEW d \in Draft, Insert(d) PROVE Register!Next
      BY <2>2 DEF Insert, Register!Create, Register!Next
    <2>3. ASSUME NEW x \in Transaction, NEW c \in Call, Begin(x, c) PROVE UNCHANGED rows
      BY <2>3 DEF Begin
    <2>4. ASSUME NEW x \in Transaction, CheckRisk(x) \/ Update(x) \/ Abort(x) PROVE UNCHANGED rows
      BY <2>4 DEF CheckRisk, Update, Abort
    <2> QED
      BY <2>1, <2>2, <2>3, <2>4, CommitImplements DEF Next, Step
  <1>3. IInv /\ [Next]_vars => IInv'
    BY DraftsStep
  <1> QED
    BY <1>1, <1>2, <1>3, DraftsInit, PTL DEF Spec, Register!Spec
=============================================================================
