--------------------------- MODULE HplanExportsProofs ---------------------------
(***************************************************************************)
(* What is issued to hplan was justified at one moment, and a brief is     *)
(* complete, for any directory, any call, and any number of records        *)
(* appended in between.  The argument: validation reads approvals after    *)
(* all that they cover, so what it read of each file is the beginning of   *)
(* that file as of then, which is the beginning of the file as it is read  *)
(* again; and a line that is the only one of its id in the longer file is  *)
(* so in every beginning that has it.                                      *)
(***************************************************************************)
EXTENDS HplanExports, SequenceTheorems, TLAPS

(* The files that are only appended to, and those that are validated       *)
(* before the approvals.                                                   *)
Growing == Kind \ Rewritten
BeforeApprovals == {"evidence", "signal", "metric", "decision", "action", "outcome"}

Begins(s, t) == \A i \in DOMAIN s : i \in DOMAIN t /\ s[i] = t[i]

Snapshots ==
    /\ LedgersOK
    /\ DOMAIN validated = Kind /\ DOMAIN got = Kind
    /\ filesRead \in 0 .. 12
    /\ \A k \in Growing : Begins(validated[k], ledgers[k])
    /\ filesRead >= 8 =>
         /\ \A k \in BeforeApprovals :
               Begins(validated[k], asOf[k]) /\ Begins(asOf[k], ledgers[k])
         /\ validated["approval"] = asOf["approval"]

Reconsidering == {"outcome", "action", "its decision", "its metric"}
Briefing == {"decision", "evidence", "metrics", "actions"}

Judged ==
    /\ at \in Reconsidering \union Briefing \union {"issued"} =>
         filesRead = 12 /\ DirectoryValid(validated)
    /\ at \in Reconsidering => call.kind = "reconsideration"
    /\ at \in Briefing => call.kind # "reconsideration"

(* The call is past some of its reads.                                     *)
Past(places, kind) == at \in places \/ (at = "issued" /\ kind)
PastReconsidering(places) == Past(places, call.kind = "reconsideration")
PastBriefing(places) == Past(places, call.kind # "reconsideration")

OutcomeRead ==
    \E o : /\ got["outcome"] = {o} /\ Reportable(o)
           /\ o \in RecordsOf(validated, "outcome") => OnlyLine(asOf, "outcome", o)

Held == Outcome \in RecordsOf(validated, "outcome")

(* x was read after validation, and before it was the one record of its id *)
(* that r refers to.                                                       *)
Resolved(r, k, x) ==
    /\ x \in RecordsOf(validated, k) /\ x \in RecordsOf(asOf, k)
    /\ OnlyLine(asOf, k, x)
    /\ x.id \in r.refs[k]

ActionRead ==
    \E a : /\ got["action"] = {a}
           /\ Held => Resolved(Outcome, "action", a)
           /\ BoundByHandoff(Outcome, a)

DecisionRead ==
    \E d : /\ got["decision"] = {d}
           /\ Held => Resolved(Action, "decision", d)
           /\ d.status = "approved" /\ Declares(Outcome, Action)

MetricRead == Held => \E m : Resolved(Outcome, "metric", m)

EvidenceRead ==
    Decision \in RecordsOf(validated, "decision") =>
        Decision.refs["evidence"] \subseteq {e.id : e \in got["evidence"]}

ActionsRead ==
    \A a \in RecordsOf(validated, "action") :
        Decision.id \in a.refs["decision"] => a \in got["action"]

Reads ==
    /\ PastReconsidering({"action", "its decision", "its metric"}) => OutcomeRead
    /\ PastReconsidering({"its decision", "its metric"}) => ActionRead
    /\ PastReconsidering({"its metric"}) => DecisionRead
    /\ PastReconsidering({}) => MetricRead
    /\ PastBriefing({"evidence", "metrics", "actions"}) => \E d : got["decision"] = {d}
    /\ PastBriefing({"metrics", "actions"}) => EvidenceRead
    /\ PastBriefing({"actions"}) => Ids(validated, "metric") \subseteq {m.id : m \in got["metric"]}
    /\ PastBriefing({}) => ActionsRead

IInv == Snapshots /\ Judged /\ Reads

-----------------------------------------------------------------------------
LEMMA WriteGrows ==
    ASSUME LedgersOK, NEW k \in Kind, NEW r \in Records[k], Write(k, r)
    PROVE  LedgersOK' /\ \A j \in Growing : Begins(ledgers[j], ledgers'[j])
  <1>1. DOMAIN ledgers' = Kind
    BY DEF Write, LedgersOK
  <1>2. ASSUME NEW j \in Kind
        PROVE  /\ ledgers'[j] \in Seq(Records[j])
               /\ j \notin Rewritten => Begins(ledgers[j], ledgers'[j])
    <2>1. ledgers[j] \in Seq(Records[j])
      BY DEF LedgersOK
    <2>2. CASE j # k
      <3>1. ledgers'[j] = ledgers[j]
        BY <2>2 DEF Write, LedgersOK
      <3> QED
        BY <2>1, <3>1 DEF Begins
    <2>3. CASE j = k /\ k \in Rewritten
      <3>1. ledgers'[j] = <<r>>
        BY <2>3 DEF Write, LedgersOK
      <3>2. r \in Records[j]
        BY <2>3
      <3>3. <<r>> \in Seq(Records[j])
        BY <3>2
      <3> QED
        BY <2>3, <3>1, <3>3
    <2>4. CASE j = k /\ k \notin Rewritten
      <3>1. ledgers'[j] = Append(ledgers[j], r)
        BY <2>4 DEF Write, LedgersOK
      <3>2. Append(ledgers[j], r) \in Seq(Records[j])
        BY <2>1, <2>4, AppendProperties
      <3>3. /\ DOMAIN ledgers[j] = 1 .. Len(ledgers[j]) /\ Len(ledgers[j]) \in Nat
            /\ DOMAIN ledgers'[j] = 1 .. Len(ledgers[j]) + 1
            /\ \A i \in 1 .. Len(ledgers[j]) : ledgers'[j][i] = ledgers[j][i]
        BY <2>1, <2>4, <3>1, AppendProperties, LenProperties
      <3> QED
        BY <3>1, <3>2, <3>3 DEF Begins
    <2> QED
      BY <2>2, <2>3, <2>4
  <1> QED
    BY <1>1, <1>2 DEF LedgersOK, Growing

(* Appending to any file, and a new handoff, leave what was read behind.   *)
LEMMA RecordKeeps ==
    ASSUME IInv, NEW k \in Kind, NEW r \in Records[k], Record(k, r)
    PROVE  IInv'
  <1>1. UNCHANGED <<call, progress>>
    BY DEF Record
  <1>2. LedgersOK' /\ \A j \in Growing : Begins(ledgers[j], ledgers'[j])
    BY WriteGrows DEF Record, IInv, Snapshots
  <1>3. Snapshots'
    <2>1. \A j \in Growing : Begins(validated[j], ledgers'[j])
      BY <1>2 DEF IInv, Snapshots, Begins
    <2>2. filesRead >= 8 => \A j \in BeforeApprovals : Begins(asOf[j], ledgers'[j])
      BY <1>2 DEF IInv, Snapshots, Begins, BeforeApprovals, Growing, Rewritten, Kind
    <2> QED
      BY <1>1, <1>2, <2>1, <2>2 DEF IInv, Snapshots, progress
  <1>4. Judged'
    BY <1>1 DEF IInv, Judged, progress
  <1>5. Reads'
    BY <1>1 DEF IInv, Reads, progress, PastReconsidering, PastBriefing, Past, OutcomeRead,
                ActionRead, DecisionRead, MetricRead, EvidenceRead, ActionsRead, Held,
                Resolved, BoundByHandoff, Outcome, Action, Decision
  <1> QED
    BY <1>3, <1>4, <1>5 DEF IInv

LEMMA ImportHandoffKeeps ==
    ASSUME IInv, NEW h \in Handoffs, ImportHandoff(h)
    PROVE  IInv'
  <1>1. UNCHANGED <<ledgers, call, progress>>
    BY DEF ImportHandoff
  <1>2. Snapshots' /\ Judged'
    BY <1>1 DEF IInv, Snapshots, Judged, LedgersOK, progress
  <1>3. Reads'
    BY <1>1 DEF IInv, Reads, progress, PastReconsidering, PastBriefing, Past, OutcomeRead,
                ActionRead, DecisionRead, MetricRead, EvidenceRead, ActionsRead, Held,
                Resolved, BoundByHandoff, Outcome, Action, Decision
  <1> QED
    BY <1>2, <1>3 DEF IInv

(* A call that has raised has issued nothing.                              *)
LEMMA RaiseKeeps == IInv /\ Raise => IInv'
  <1> SUFFICES ASSUME IInv, Raise PROVE IInv'
    OBVIOUS
  <1>1. at' = "raised" /\ UNCHANGED <<ledgers, filesRead, validated, asOf, got>>
    BY DEF Raise, GoTo, Validating
  <1>2. Snapshots'
    BY <1>1 DEF IInv, Snapshots, LedgersOK
  <1>3. Judged' /\ Reads'
    BY <1>1 DEF Judged, Reads, PastReconsidering, PastBriefing, Past, Reconsidering, Briefing
  <1> QED
    BY <1>2, <1>3 DEF IInv

-----------------------------------------------------------------------------
(* Validation.                                                             *)

LEMMA BeginKeeps ==
    ASSUME IInv, NEW c \in Calls, Begin(c)
    PROVE  IInv'
  <1>1. /\ at' \in {"references", "validate"}
        /\ UNCHANGED <<ledgers, filesRead, validated, asOf, got>>
    BY DEF Begin
  <1>2. Snapshots'
    BY <1>1 DEF IInv, Snapshots, LedgersOK
  <1>3. Judged' /\ Reads'
    BY <1>1 DEF Judged, Reads, PastReconsidering, PastBriefing, Past, Reconsidering, Briefing
  <1> QED
    BY <1>2, <1>3 DEF IInv

LEMMA ReadReferencesKeeps == IInv /\ ReadReferences => IInv'
  <1> SUFFICES ASSUME IInv, ReadReferences PROVE IInv'
    OBVIOUS
  <1>1. CASE Raise
    BY <1>1, RaiseKeeps
  <1>2. CASE GoTo("validate") /\ UNCHANGED <<filesRead, validated, asOf, got>>
    <2>1. Snapshots'
      BY <1>2 DEF IInv, Snapshots, LedgersOK, GoTo
    <2>2. Judged' /\ Reads'
      BY <1>2 DEF GoTo, Judged, Reads, PastReconsidering, PastBriefing, Past, Reconsidering,
                  Briefing
    <2> QED
      BY <2>1, <2>2 DEF IInv
  <1> QED
    BY <1>1, <1>2 DEF ReadReferences

LEMMA ValidateFileKeeps == IInv /\ ValidateFile => IInv'
  <1> SUFFICES ASSUME IInv, ValidateFile PROVE IInv'
    OBVIOUS
  <1>1. PICK n \in 1 .. 12 : n = filesRead + 1
    BY DEF ValidateFile, ArtifactFiles, IInv, Snapshots
  <1>2. /\ at' = "validate" /\ filesRead' = n /\ UNCHANGED <<ledgers, call, got>>
        /\ validated' = [validated EXCEPT ![ArtifactFiles[n]] = ledgers[ArtifactFiles[n]]]
        /\ asOf' = IF ArtifactFiles[n] = "approval" THEN ledgers ELSE asOf
    BY <1>1 DEF ValidateFile, GoTo
  <1>3. /\ ArtifactFiles[n] \in Kind
        /\ ArtifactFiles[n] = "approval" <=> n = 8
        /\ n > 8 => ArtifactFiles[n] \notin BeforeApprovals \union {"approval"}
    BY DEF ArtifactFiles, Kind, BeforeApprovals
  <1>4. Snapshots'
    <2>1. LedgersOK' /\ DOMAIN validated' = Kind /\ DOMAIN got' = Kind /\ filesRead' \in 0 .. 12
      BY <1>1, <1>2 DEF IInv, Snapshots, LedgersOK
    <2>2. \A k \in Growing : Begins(validated'[k], ledgers'[k])
      BY <1>2, <1>3 DEF IInv, Snapshots, Begins, Growing
    <2>3. CASE n < 8
      BY <1>2, <2>1, <2>2, <2>3 DEF Snapshots
    <2>4. CASE n = 8
      <3>1. asOf' = ledgers /\ validated'["approval"] = ledgers["approval"]
        BY <1>2, <1>3, <2>4 DEF IInv, Snapshots, Kind
      <3>2. \A k \in BeforeApprovals : Begins(validated'[k], ledgers[k])
        BY <1>2, <2>2 DEF BeforeApprovals, Growing, Rewritten, Kind
      <3>3. \A k \in Kind : Begins(ledgers[k], ledgers[k])
        BY DEF Begins
      <3> QED
        BY <1>2, <2>1, <2>2, <3>1, <3>2, <3>3 DEF Snapshots, BeforeApprovals, Kind
    <2>5. CASE n > 8
      <3>1. filesRead >= 8 /\ asOf' = asOf
        BY <1>1, <1>2, <1>3, <2>5 DEF IInv, Snapshots
      <3>2. \A k \in BeforeApprovals \union {"approval"} : validated'[k] = validated[k]
        BY <1>2, <1>3, <2>5 DEF IInv, Snapshots, BeforeApprovals, Kind
      <3> QED
        BY <1>2, <2>1, <2>2, <3>1, <3>2 DEF IInv, Snapshots
    <2> QED
      BY <2>3, <2>4, <2>5
  <1>5. Judged' /\ Reads'
    BY <1>2 DEF Judged, Reads, PastReconsidering, PastBriefing, Past, Reconsidering, Briefing
  <1> QED
    BY <1>4, <1>5 DEF IInv

LEMMA JudgeKeeps == IInv /\ Judge => IInv'
  <1> SUFFICES ASSUME IInv, Judge PROVE IInv'
    OBVIOUS
  <1>1. CASE Raise
    BY <1>1, RaiseKeeps
  <1>2. CASE DirectoryValid(validated) /\ GoTo(Place) /\ UNCHANGED <<Validating, got>>
    <2>1. /\ filesRead = 12
          /\ UNCHANGED <<ledgers, call, filesRead, validated, asOf, got>>
          /\ at' = IF call.kind = "reconsideration" THEN "outcome" ELSE "decision"
      BY <1>2 DEF Judge, ArtifactFiles, GoTo, Validating, Place
    <2>2. Snapshots'
      BY <2>1 DEF IInv, Snapshots, LedgersOK
    <2>3. Judged'
      BY <1>2, <2>1 DEF Judged, Reconsidering, Briefing
    <2>4. Reads'
      BY <2>1 DEF Reads, PastReconsidering, PastBriefing, Past
    <2> QED
      BY <2>2, <2>3, <2>4 DEF IInv
  <1> QED
    BY <1>1, <1>2 DEF Judge

-----------------------------------------------------------------------------
(* The reads of build_hplan_reconsideration.                               *)

(* The only line of an id in a ledger is the only one wherever the ledger  *)
(* had it, if validation saw a line of that id at all.                     *)
LEMMA OnlyLineThen ==
    ASSUME IInv, filesRead = 12, NEW k \in BeforeApprovals,
           NEW i \in DOMAIN ledgers[k], NEW x, ledgers[k][i] = x,
           Lines(ledgers, k, x.id) = {i}, Lines(validated, k, x.id) # {}
    PROVE  /\ x \in RecordsOf(validated, k) /\ x \in RecordsOf(asOf, k)
           /\ OnlyLine(asOf, k, x)
  <1>1. Begins(validated[k], asOf[k]) /\ Begins(asOf[k], ledgers[k])
    BY DEF IInv, Snapshots
  <1>2. /\ Lines(validated, k, x.id) \subseteq Lines(asOf, k, x.id)
        /\ Lines(asOf, k, x.id) \subseteq Lines(ledgers, k, x.id)
    BY <1>1 DEF Begins, Lines
  <1>3. Lines(validated, k, x.id) = {i} /\ Lines(asOf, k, x.id) = {i}
    BY <1>2
  <1>4. i \in DOMAIN validated[k] /\ i \in DOMAIN asOf[k]
    BY <1>3 DEF Lines
  <1>5. validated[k][i] = x /\ asOf[k][i] = x
    BY <1>1, <1>4 DEF Begins
  <1> QED
    BY <1>3, <1>4, <1>5 DEF RecordsOf, OnlyLine

LEMMA SelectedIsOnlyLine ==
    ASSUME NEW d, NEW k, NEW id, NEW x \in Selected(d, k, id)
    PROVE  \E i \in DOMAIN d[k] :
              /\ d[k][i] = x /\ Lines(d, k, x.id) = {i}
              /\ id # None => x.id = id
  <1>1. PICK i \in Lines(d, k, id) : d[k][i] = x /\ Lines(d, k, id) = {i}
    BY DEF Selected
  <1>2. i \in DOMAIN d[k] /\ (id # None => x.id = id)
    BY <1>1 DEF Lines
  <1>3. i \in Lines(d, k, x.id) /\ Lines(d, k, x.id) \subseteq DOMAIN d[k]
    BY <1>1, <1>2 DEF Lines
  <1>4. CASE id = None
    BY <1>1, <1>2, <1>3, <1>4 DEF Lines
  <1>5. CASE id # None
    BY <1>1, <1>2, <1>5
  <1> QED
    BY <1>4, <1>5

(* A reference of a validated record is resolved as it was resolved then.  *)
LEMMA ReferredIsResolved ==
    ASSUME IInv, filesRead = 12, DirectoryValid(validated),
           NEW kr \in Kind, NEW r \in RecordsOf(validated, kr),
           NEW k \in {"action", "decision", "metric"}, NEW x \in Referred(r, k)
    PROVE  Resolved(r, k, x)
  <1>1. PICK id \in r.refs[k] \ {None} : x \in Selected(ledgers, k, id)
    BY DEF Referred
  <1>2. PICK i \in DOMAIN ledgers[k] :
           ledgers[k][i] = x /\ Lines(ledgers, k, x.id) = {i} /\ x.id = id
    BY <1>1, SelectedIsOnlyLine
  <1>3. Sound(validated, kr, r)
    BY DEF DirectoryValid, FileValid, RecordsOf
  <1>4. r.refs[k] \subseteq Ids(validated, k)
    <2>1. k \in Kind /\ Citable(validated, kr, k) = Ids(validated, k)
      BY DEF Kind, Citable
    <2> QED
      BY <1>3, <2>1 DEF Sound
  <1>5. \E j \in DOMAIN validated[k] : validated[k][j].id = x.id
    BY <1>1, <1>2, <1>4 DEF Ids, RecordsOf
  <1>6. Lines(validated, k, x.id) # {}
    BY <1>5 DEF Lines
  <1> QED
    BY <1>1, <1>2, <1>6, OnlyLineThen DEF Resolved, BeforeApprovals

(* A read that goes on selects records of one kind and changes nothing     *)
(* else.                                                                   *)
LEMMA SelectEffect ==
    ASSUME Snapshots, NEW k \in Kind, NEW records, NEW place, Select(k, records, place)
    PROVE  /\ Snapshots'
           /\ at' = place
           /\ UNCHANGED <<call, filesRead, validated, asOf, accepted>>
           /\ got'[k] = records
           /\ \A j \in Kind \ {k} : got'[j] = got[j]
  <1>1. /\ at' = place /\ UNCHANGED <<ledgers, call, filesRead, validated, asOf, accepted>>
        /\ got' = [got EXCEPT ![k] = records]
    BY DEF Select, GoTo, Validating
  <1> QED
    BY <1>1 DEF Snapshots, LedgersOK

LEMMA SelectOutcomeKeeps == IInv /\ SelectOutcome => IInv'
  <1> SUFFICES ASSUME IInv, SelectOutcome PROVE IInv'
    OBVIOUS
  <1>0. /\ filesRead = 12 /\ DirectoryValid(validated) /\ call.kind = "reconsideration"
    BY DEF SelectOutcome, IInv, Judged, Reconsidering
  <1>1. CASE Raise
    BY <1>1, RaiseKeeps
  <1>2. ASSUME NEW o \in Selected(ledgers, "outcome", call.id),
               Reportable(o), Select("outcome", {o}, "action")
        PROVE  IInv'
    <2>1. /\ Snapshots' /\ at' = "action"
          /\ UNCHANGED <<call, filesRead, validated, asOf, accepted>>
          /\ got'["outcome"] = {o}
      BY <1>2, SelectEffect DEF IInv, Kind
    <2>2. o \in RecordsOf(validated, "outcome") => OnlyLine(asOf, "outcome", o)
      <3> SUFFICES ASSUME o \in RecordsOf(validated, "outcome")
                   PROVE  OnlyLine(asOf, "outcome", o)
        OBVIOUS
      <3>1. PICK i \in DOMAIN ledgers["outcome"] :
               ledgers["outcome"][i] = o /\ Lines(ledgers, "outcome", o.id) = {i}
        BY SelectedIsOnlyLine
      <3>2. Lines(validated, "outcome", o.id) # {}
        BY DEF RecordsOf, Lines
      <3> QED
        BY <1>0, <3>1, <3>2, OnlyLineThen DEF BeforeApprovals
    <2>3. Judged'
      BY <1>0, <2>1 DEF Judged, Reconsidering, Briefing
    <2>4. OutcomeRead'
      BY <1>2, <2>1, <2>2 DEF OutcomeRead
    <2>5. Reads'
      BY <2>1, <2>4 DEF Reads, PastReconsidering, PastBriefing, Past
    <2> QED
      BY <2>1, <2>3, <2>5 DEF IInv
  <1> QED
    BY <1>1, <1>2 DEF SelectOutcome

LEMMA SelectActionKeeps == IInv /\ SelectAction => IInv'
  <1> SUFFICES ASSUME IInv, SelectAction PROVE IInv'
    OBVIOUS
  <1>0. /\ filesRead = 12 /\ DirectoryValid(validated) /\ call.kind = "reconsideration"
        /\ OutcomeRead
    BY DEF SelectAction, IInv, Judged, Reconsidering, Reads, PastReconsidering, Past
  <1>1. CASE Raise
    BY <1>1, RaiseKeeps
  <1>2. ASSUME NEW a \in Referred(Outcome, "action"),
               BoundByHandoff(Outcome, a), Select("action", {a}, "its decision")
        PROVE  IInv'
    <2>1. /\ Snapshots' /\ at' = "its decision"
          /\ UNCHANGED <<call, filesRead, validated, asOf, accepted>>
          /\ got'["action"] = {a} /\ got'["outcome"] = got["outcome"]
      BY <1>2, SelectEffect DEF IInv, Kind
    <2>2. Outcome' = Outcome
      BY <2>1 DEF Outcome
    <2>3. Held => Resolved(Outcome, "action", a)
      BY <1>0, <1>2, ReferredIsResolved DEF Held, Kind
    <2>4. Judged'
      BY <1>0, <2>1 DEF Judged, Reconsidering, Briefing
    <2>5. OutcomeRead'
      BY <1>0, <2>1 DEF OutcomeRead
    <2>6. ActionRead'
      BY <1>2, <2>1, <2>2, <2>3 DEF ActionRead, Held, Resolved, BoundByHandoff
    <2>7. Reads'
      BY <2>1, <2>5, <2>6 DEF Reads, PastReconsidering, PastBriefing, Past
    <2> QED
      BY <2>1, <2>4, <2>7 DEF IInv
  <1> QED
    BY <1>1, <1>2 DEF SelectAction

LEMMA SelectItsDecisionKeeps == IInv /\ SelectItsDecision => IInv'
  <1> SUFFICES ASSUME IInv, SelectItsDecision PROVE IInv'
    OBVIOUS
  <1>0. /\ filesRead = 12 /\ DirectoryValid(validated) /\ call.kind = "reconsideration"
        /\ OutcomeRead /\ ActionRead
    BY DEF SelectItsDecision, IInv, Judged, Reconsidering, Reads, PastReconsidering, Past
  <1>1. CASE Raise
    BY <1>1, RaiseKeeps
  <1>2. ASSUME NEW d \in Referred(Action, "decision"),
               d.status = "approved", Declares(Outcome, Action),
               Select("decision", {d}, "its metric")
        PROVE  IInv'
    <2>1. /\ Snapshots' /\ at' = "its metric"
          /\ UNCHANGED <<call, filesRead, validated, asOf, accepted>>
          /\ got'["decision"] = {d}
          /\ got'["outcome"] = got["outcome"] /\ got'["action"] = got["action"]
      BY <1>2, SelectEffect DEF IInv, Kind
    <2>2. Outcome' = Outcome /\ Action' = Action
      BY <2>1 DEF Outcome, Action
    <2>3. Held => Action \in RecordsOf(validated, "action")
      BY <1>0 DEF ActionRead, Action, TheOne, Resolved
    <2>4. Held => Resolved(Action, "decision", d)
      BY <1>0, <1>2, <2>3, ReferredIsResolved DEF Kind
    <2>5. Judged'
      BY <1>0, <2>1 DEF Judged, Reconsidering, Briefing
    <2>6. OutcomeRead'
      BY <1>0, <2>1 DEF OutcomeRead
    <2>7. ActionRead'
      BY <1>0, <2>1, <2>2 DEF ActionRead, Held, Resolved, BoundByHandoff
    <2>8. DecisionRead'
      BY <1>2, <2>1, <2>2, <2>4 DEF DecisionRead, Held, Resolved
    <2>9. Reads'
      BY <2>1, <2>6, <2>7, <2>8 DEF Reads, PastReconsidering, PastBriefing, Past
    <2> QED
      BY <2>1, <2>5, <2>9 DEF IInv
  <1> QED
    BY <1>1, <1>2 DEF SelectItsDecision

LEMMA SelectItsMetricKeeps == IInv /\ SelectItsMetric => IInv'
  <1> SUFFICES ASSUME IInv, SelectItsMetric PROVE IInv'
    OBVIOUS
  <1>0. /\ filesRead = 12 /\ DirectoryValid(validated) /\ call.kind = "reconsideration"
        /\ OutcomeRead /\ ActionRead /\ DecisionRead
    BY DEF SelectItsMetric, IInv, Judged, Reconsidering, Reads, PastReconsidering, Past
  <1>1. CASE Raise
    BY <1>1, RaiseKeeps
  <1>2. ASSUME NEW m \in Referred(Outcome, "metric"), Select("metric", {m}, "issued")
        PROVE  IInv'
    <2>1. /\ Snapshots' /\ at' = "issued"
          /\ UNCHANGED <<call, filesRead, validated, asOf, accepted>>
          /\ got'["outcome"] = got["outcome"] /\ got'["action"] = got["action"]
          /\ got'["decision"] = got["decision"]
      BY <1>2, SelectEffect DEF IInv, Kind
    <2>2. Outcome' = Outcome /\ Action' = Action
      BY <2>1 DEF Outcome, Action
    <2>3. Held => Resolved(Outcome, "metric", m)
      BY <1>0, <1>2, ReferredIsResolved DEF Held, Kind
    <2>4. Judged'
      BY <1>0, <2>1 DEF Judged, Reconsidering, Briefing
    <2>5. OutcomeRead'
      BY <1>0, <2>1 DEF OutcomeRead
    <2>6. ActionRead'
      BY <1>0, <2>1, <2>2 DEF ActionRead, Held, Resolved, BoundByHandoff
    <2>7. DecisionRead'
      BY <1>0, <2>1, <2>2 DEF DecisionRead, Held, Resolved
    <2>8. MetricRead'
      BY <2>1, <2>2, <2>3 DEF MetricRead, Held, Resolved
    <2>9. Reads'
      BY <1>0, <2>1, <2>5, <2>6, <2>7, <2>8
         DEF Reads, PastReconsidering, PastBriefing, Past
    <2> QED
      BY <2>1, <2>4, <2>9 DEF IInv
  <1> QED
    BY <1>1, <1>2 DEF SelectItsMetric

-----------------------------------------------------------------------------
(* The reads of build_hplan_intake.                                        *)

(* What validation saw of a growing file is still in it.                   *)
LEMMA StillThere ==
    ASSUME IInv, NEW k \in Growing
    PROVE  RecordsOf(validated, k) \subseteq RecordsOf(ledgers, k)
  BY DEF IInv, Snapshots, Begins, RecordsOf

LEMMA SelectDecisionKeeps == IInv /\ SelectDecision => IInv'
  <1> SUFFICES ASSUME IInv, SelectDecision PROVE IInv'
    OBVIOUS
  <1>0. filesRead = 12 /\ DirectoryValid(validated) /\ call.kind # "reconsideration"
    BY DEF SelectDecision, IInv, Judged, Briefing
  <1>1. CASE Raise
    BY <1>1, RaiseKeeps
  <1>2. ASSUME NEW d, Select("decision", {d}, "evidence")
        PROVE  IInv'
    <2>1. /\ Snapshots' /\ at' = "evidence"
          /\ UNCHANGED <<call, filesRead, validated, asOf, accepted>>
          /\ got'["decision"] = {d}
      BY <1>2, SelectEffect DEF IInv, Kind
    <2>2. Judged'
      BY <1>0, <2>1 DEF Judged, Reconsidering, Briefing
    <2>3. Reads'
      BY <2>1 DEF Reads, PastReconsidering, PastBriefing, Past
    <2> QED
      BY <2>1, <2>2, <2>3 DEF IInv
  <1> QED
    BY <1>1, <1>2 DEF SelectDecision

LEMMA SelectEvidenceKeeps == IInv /\ SelectEvidence => IInv'
  <1> SUFFICES ASSUME IInv, SelectEvidence PROVE IInv'
    OBVIOUS
  <1>0. /\ filesRead = 12 /\ DirectoryValid(validated) /\ call.kind # "reconsideration"
        /\ \E d : got["decision"] = {d}
    BY DEF SelectEvidence, IInv, Judged, Briefing, Reads, PastBriefing, Past
  <1>1. /\ Snapshots' /\ at' = "metrics"
        /\ UNCHANGED <<call, filesRead, validated, asOf, accepted>>
        /\ got'["evidence"] = {e \in RecordsOf(ledgers, "evidence") :
                                 e.id \in Decision.refs["evidence"]}
        /\ got'["decision"] = got["decision"]
    BY SelectEffect DEF SelectEvidence, IInv, Kind
  <1>2. Decision' = Decision
    BY <1>1 DEF Decision
  <1>3. EvidenceRead'
    <2> SUFFICES ASSUME Decision \in RecordsOf(validated, "decision"),
                        NEW id \in Decision.refs["evidence"]
                 PROVE  id \in {e.id : e \in got'["evidence"]}
      BY <1>1, <1>2 DEF EvidenceRead
    <2>1. Sound(validated, "decision", Decision)
      BY <1>0 DEF DirectoryValid, FileValid, RecordsOf, Kind
    <2>2. id \in Reviewed(validated)
      BY <2>1 DEF Sound, Citable, Kind
    <2>3. PICK e \in RecordsOf(validated, "evidence") : e.id = id
      BY <2>2 DEF Reviewed
    <2>4. e \in RecordsOf(ledgers, "evidence")
      BY <2>3, StillThere DEF Growing, Rewritten, Kind
    <2> QED
      BY <1>1, <2>3, <2>4
  <1>4. Judged'
    BY <1>0, <1>1 DEF Judged, Reconsidering, Briefing
  <1>5. Reads'
    BY <1>0, <1>1, <1>3 DEF Reads, PastReconsidering, PastBriefing, Past
  <1> QED
    BY <1>1, <1>4, <1>5 DEF IInv

LEMMA SelectMetricsKeeps == IInv /\ SelectMetrics => IInv'
  <1> SUFFICES ASSUME IInv, SelectMetrics PROVE IInv'
    OBVIOUS
  <1>0. /\ filesRead = 12 /\ DirectoryValid(validated) /\ call.kind # "reconsideration"
        /\ (\E d : got["decision"] = {d}) /\ EvidenceRead
    BY DEF SelectMetrics, IInv, Judged, Briefing, Reads, PastBriefing, Past
  <1>1. /\ Snapshots' /\ at' = "actions"
        /\ UNCHANGED <<call, filesRead, validated, asOf, accepted>>
        /\ got'["metric"] = RecordsOf(ledgers, "metric")
        /\ got'["decision"] = got["decision"] /\ got'["evidence"] = got["evidence"]
    BY SelectEffect DEF SelectMetrics, IInv, Kind
  <1>2. EvidenceRead'
    BY <1>0, <1>1 DEF EvidenceRead, Decision
  <1>3. (Ids(validated, "metric") \subseteq {m.id : m \in got["metric"]})'
    BY <1>1, StillThere DEF Ids, Growing, Rewritten, Kind
  <1>4. Judged'
    BY <1>0, <1>1 DEF Judged, Reconsidering, Briefing
  <1>5. Reads'
    BY <1>0, <1>1, <1>2, <1>3 DEF Reads, PastReconsidering, PastBriefing, Past
  <1> QED
    BY <1>1, <1>4, <1>5 DEF IInv

LEMMA SelectActionsKeeps == IInv /\ SelectActions => IInv'
  <1> SUFFICES ASSUME IInv, SelectActions PROVE IInv'
    OBVIOUS
  <1>0. /\ filesRead = 12 /\ DirectoryValid(validated) /\ call.kind # "reconsideration"
        /\ (\E d : got["decision"] = {d}) /\ EvidenceRead
        /\ Ids(validated, "metric") \subseteq {m.id : m \in got["metric"]}
    BY DEF SelectActions, IInv, Judged, Briefing, Reads, PastBriefing, Past
  <1>1. /\ Snapshots' /\ at' = "issued"
        /\ UNCHANGED <<call, filesRead, validated, asOf, accepted>>
        /\ got'["action"] = {a \in RecordsOf(ledgers, "action") :
                               Decision.id \in a.refs["decision"]}
        /\ got'["decision"] = got["decision"] /\ got'["evidence"] = got["evidence"]
        /\ got'["metric"] = got["metric"]
    BY SelectEffect DEF SelectActions, IInv, Kind
  <1>2. Decision' = Decision
    BY <1>1 DEF Decision
  <1>3. EvidenceRead'
    BY <1>0, <1>1, <1>2 DEF EvidenceRead
  <1>4. ActionsRead'
    BY <1>1, <1>2, StillThere DEF ActionsRead, Growing, Rewritten, Kind
  <1>5. Judged'
    BY <1>0, <1>1 DEF Judged, Reconsidering, Briefing
  <1>6. Reads'
    BY <1>0, <1>1, <1>3, <1>4 DEF Reads, PastReconsidering, PastBriefing, Past
  <1> QED
    BY <1>1, <1>5, <1>6 DEF IInv

-----------------------------------------------------------------------------
LEMMA InitKeeps == Init => IInv
  <1> SUFFICES ASSUME Init PROVE IInv
    OBVIOUS
  <1>1. LedgersOK
    BY ExportAssumption DEF Init, LedgersOK
  <1>2. DOMAIN validated = Kind /\ DOMAIN got = Kind /\ filesRead = 0
    BY DEF Init, Unread, NoRecords
  <1>3. \A k \in Growing : Begins(validated[k], ledgers[k])
    BY DEF Init, Unread, Begins, Growing
  <1>4. Snapshots
    BY <1>1, <1>2, <1>3 DEF Snapshots
  <1>5. Judged /\ Reads
    BY DEF Init, Judged, Reads, PastReconsidering, PastBriefing, Past, Reconsidering, Briefing
  <1> QED
    BY <1>4, <1>5 DEF IInv

LEMMA StepKeeps == IInv /\ [Next]_vars => IInv'
  <1> SUFFICES ASSUME IInv, [Next]_vars PROVE IInv'
    OBVIOUS
  <1>1. ASSUME NEW k \in Kind, NEW r \in Records[k], Record(k, r) PROVE IInv'
    BY <1>1, RecordKeeps
  <1>2. ASSUME NEW h \in Handoffs, ImportHandoff(h) PROVE IInv'
    BY <1>2, ImportHandoffKeeps
  <1>3. ASSUME NEW c \in Calls, Begin(c) PROVE IInv'
    BY <1>3, BeginKeeps
  <1>4. CASE ReadReferences \/ ValidateFile \/ Judge
    BY <1>4, ReadReferencesKeeps, ValidateFileKeeps, JudgeKeeps
  <1>5. CASE MeetHalfALine
    BY <1>5, RaiseKeeps DEF MeetHalfALine
  <1>6. CASE SelectOutcome \/ SelectAction \/ SelectItsDecision \/ SelectItsMetric
    BY <1>6, SelectOutcomeKeeps, SelectActionKeeps, SelectItsDecisionKeeps,
       SelectItsMetricKeeps
  <1>7. CASE SelectDecision \/ SelectEvidence \/ SelectMetrics \/ SelectActions
    BY <1>7, SelectDecisionKeeps, SelectEvidenceKeeps, SelectMetricsKeeps, SelectActionsKeeps
  <1>8. CASE UNCHANGED vars
    <2>1. UNCHANGED <<ledgers, call, progress>>
      BY <1>8 DEF vars
    <2>2. Snapshots' /\ Judged'
      BY <2>1 DEF IInv, Snapshots, Judged, LedgersOK, progress
    <2>3. Reads'
      BY <2>1 DEF IInv, Reads, progress, PastReconsidering, PastBriefing, Past, OutcomeRead,
                  ActionRead, DecisionRead, MetricRead, EvidenceRead, ActionsRead, Held,
                  Resolved, BoundByHandoff, Outcome, Action, Decision
    <2> QED
      BY <2>2, <2>3 DEF IInv
  <1> QED
    BY <1>1, <1>2, <1>3, <1>4, <1>5, <1>6, <1>7, <1>8 DEF Next

(* Every state of the two builders satisfies the inductive invariant.      *)
THEOREM ExportInvariant == Spec => []IInv
  BY InitKeeps, StepKeeps, PTL DEF Spec

-----------------------------------------------------------------------------
(* The directory as of the approvals says of a validated record at least   *)
(* what the validated directory said: the approvals are the same, and no   *)
(* evidence is lost.                                                       *)
LEMMA StillStands ==
    ASSUME IInv, filesRead = 12, DirectoryValid(validated),
           NEW d \in RecordsOf(validated, "decision"), d.status = "approved"
    PROVE  Stands(asOf, d)
  <1>1. Sound(validated, "decision", d)
    BY DEF DirectoryValid, FileValid, RecordsOf, Kind
  <1>2. Covered(validated, d)
    BY <1>1 DEF Sound, NeedsApproval
  <1>3. validated["approval"] = asOf["approval"]
    BY DEF IInv, Snapshots
  <1>4. Covered(asOf, d)
    BY <1>2, <1>3 DEF Covered, InForce
  <1>5. d.refs["evidence"] \subseteq Reviewed(validated)
    BY <1>1 DEF Sound, Citable, Kind
  <1>6. RecordsOf(validated, "evidence") \subseteq RecordsOf(asOf, "evidence")
    BY DEF IInv, Snapshots, Begins, RecordsOf, BeforeApprovals
  <1>7. Reviewed(validated) \subseteq Reviewed(asOf)
    BY <1>6 DEF Reviewed
  <1> QED
    BY <1>4, <1>5, <1>7 DEF Stands

LEMMA StillCovered ==
    ASSUME IInv, filesRead = 12, DirectoryValid(validated),
           NEW a \in RecordsOf(validated, "action"), a.status = "executed", a.external_write
    PROVE  Covered(asOf, a)
  <1>1. Sound(validated, "action", a)
    BY DEF DirectoryValid, FileValid, RecordsOf, Kind
  <1>2. Covered(validated, a)
    BY <1>1 DEF Sound, NeedsApproval
  <1>3. validated["approval"] = asOf["approval"]
    BY DEF IInv, Snapshots
  <1> QED
    BY <1>2, <1>3 DEF Covered, InForce

LEMMA ReconsiderationJustified ==
    ASSUME IInv, at = "issued", call.kind = "reconsideration",
           NEW o \in got["outcome"] \intersect RecordsOf(validated, "outcome")
    PROVE  ReconsiderationHeld(asOf, o)
  <1>1. /\ filesRead = 12 /\ DirectoryValid(validated)
        /\ OutcomeRead /\ ActionRead /\ DecisionRead /\ MetricRead
    BY DEF IInv, Judged, Reads, PastReconsidering, Past
  <1>2. Outcome = o /\ Held /\ Reportable(o) /\ OnlyLine(asOf, "outcome", o)
    BY <1>1 DEF OutcomeRead, Outcome, TheOne, Held
  <1>3. PICK a : /\ got["action"] = {a} /\ Resolved(Outcome, "action", a)
                 /\ BoundByHandoff(Outcome, a)
    BY <1>1, <1>2 DEF ActionRead
  <1>4. Action = a
    BY <1>3 DEF Action, TheOne
  <1>5. PICK d : /\ Resolved(Action, "decision", d) /\ d.status = "approved"
                 /\ Declares(Outcome, Action)
    BY <1>1, <1>2 DEF DecisionRead
  <1>6. PICK m : Resolved(Outcome, "metric", m)
    BY <1>1, <1>2 DEF MetricRead
  <1>7. a \in RecordsOf(asOf, "action") /\ d \in RecordsOf(asOf, "decision")
    BY <1>3, <1>5 DEF Resolved
  <1>8. /\ OnlyLine(asOf, "action", a) /\ OnlyLine(asOf, "decision", d)
        /\ a.id \in o.refs["action"] /\ d.id \in a.refs["decision"]
    BY <1>2, <1>3, <1>4, <1>5 DEF Resolved
  <1>9. Reportable(o) /\ BoundByHandoff(o, a) /\ Declares(o, a)
    BY <1>2, <1>3, <1>4, <1>5
  <1>10. a.external_write => Covered(asOf, a)
    BY <1>1, <1>3, <1>9, StillCovered DEF Resolved, BoundByHandoff
  <1>11. Stands(asOf, d)
    BY <1>1, <1>5, StillStands DEF Resolved
  <1>12. m \in RecordsOf(asOf, "metric") /\ m.id \in o.refs["metric"] /\ OnlyLine(asOf, "metric", m)
    BY <1>2, <1>6 DEF Resolved
  <1> QED
    BY <1>2, <1>7, <1>8, <1>9, <1>10, <1>11, <1>12 DEF ReconsiderationHeld

(* What is issued was justified in the directory as it was when its        *)
(* approvals were validated (build_hplan_reconsideration,                  *)
(* build_hplan_intake).                                                    *)
THEOREM ExportJustifiedAtOnce == Spec => []JustifiedAtOnce
  <1>1. IInv => JustifiedAtOnce
    <2> SUFFICES ASSUME IInv, at = "issued" PROVE JustifiedAtOnce
      BY DEF JustifiedAtOnce
    <2>1. CASE call.kind = "reconsideration"
      BY <2>1, ReconsiderationJustified DEF JustifiedAtOnce
    <2>2. CASE call.kind # "reconsideration"
      <3>1. filesRead = 12 /\ DirectoryValid(validated)
        BY DEF IInv, Judged
      <3>2. PICK d : got["decision"] = {d}
        BY <2>2 DEF IInv, Reads, PastBriefing, Past
      <3>3. Ready => d.status = "approved"
        BY <3>2 DEF Ready, Decision, TheOne
      <3>4. d \in RecordsOf(validated, "decision") /\ Ready => Stands(asOf, d)
        BY <3>1, <3>3, StillStands
      <3> QED
        BY <2>2, <3>2, <3>4 DEF JustifiedAtOnce
    <2> QED
      BY <2>1, <2>2
  <1> QED
    BY <1>1, ExportInvariant, PTL

(* A brief lists all that the validated directory said of its decision     *)
(* (build_hplan_intake).                                                   *)
THEOREM ExportBriefComplete == Spec => []BriefComplete
  <1>1. IInv => BriefComplete
    <2> SUFFICES ASSUME IInv, at = "issued", call.kind = "intake",
                        NEW d \in got["decision"] \intersect RecordsOf(validated, "decision")
                 PROVE  /\ d.refs["evidence"] \subseteq {e.id : e \in got["evidence"]}
                        /\ \A a \in RecordsOf(validated, "action") :
                              d.id \in a.refs["decision"] =>
                                  a \in got["action"] /\ a.refs["metric"] \subseteq BriefMetrics
      BY DEF BriefComplete
    <2>1. /\ filesRead = 12 /\ DirectoryValid(validated)
          /\ EvidenceRead /\ ActionsRead
          /\ Ids(validated, "metric") \subseteq {m.id : m \in got["metric"]}
      BY DEF IInv, Judged, Reads, PastBriefing, Past
    <2>2. Decision = d
      <3>1. \E x : got["decision"] = {x}
        BY DEF IInv, Reads, PastBriefing, Past
      <3> QED
        BY <3>1 DEF Decision, TheOne
    <2>3. d.refs["evidence"] \subseteq {e.id : e \in got["evidence"]}
      BY <2>1, <2>2 DEF EvidenceRead
    <2>4. ASSUME NEW a \in RecordsOf(validated, "action"), d.id \in a.refs["decision"]
          PROVE  a \in got["action"] /\ a.refs["metric"] \subseteq BriefMetrics
      <3>1. a \in got["action"]
        BY <2>1, <2>2, <2>4 DEF ActionsRead
      <3>2. Sound(validated, "action", a)
        BY <2>1 DEF DirectoryValid, FileValid, RecordsOf, Kind
      <3>3. a.refs["metric"] \subseteq Ids(validated, "metric")
        BY <3>2 DEF Sound, Citable, Kind
      <3> QED
        BY <2>1, <3>1, <3>3 DEF BriefMetrics
    <2> QED
      BY <2>3, <2>4
  <1> QED
    BY <1>1, ExportInvariant, PTL
=============================================================================
