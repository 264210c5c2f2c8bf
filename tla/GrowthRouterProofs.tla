-------------------------- MODULE GrowthRouterProofs --------------------------
(***************************************************************************)
(* Theorems about the artifact directory and the router, for every set of  *)
(* records and objectives.                                                 *)
(*                                                                         *)
(* What has passed validation can only fail after a new line of the        *)
(* approval it names, or of the action a release note is published with    *)
(* (StaysSound).  That rests on two facts about one appended record: the   *)
(* sets that references are looked up in only grow (but for the two files  *)
(* that are rewritten, which nothing refers to), and the line in force of  *)
(* an id changes only when that id is recorded anew.                       *)
(*                                                                         *)
(* That the router ends on work in force and never names finished work     *)
(* needs no induction: it looks at the whole directory each time, so both  *)
(* follow from what its answer says about the skills it has gone through.  *)
(***************************************************************************)
EXTENDS GrowthRouter, SequenceTheorems, TLAPS

(* The file of every kind holds records of that kind (ledgers of           *)
(* contracts.py, as append-record and the brief's author leave them).      *)
LEMMA WriteKeepsTypes ==
    ASSUME LedgersOK, NEW k \in Kind, NEW r \in Records[k], Write(k, r)
    PROVE  LedgersOK'
<1>1. DOMAIN ledgers' = Kind
  BY DEF Write, LedgersOK
<1>2. ASSUME NEW j \in Kind PROVE ledgers'[j] \in Seq(Records[j])
  <2>1. ledgers[j] \in Seq(Records[j])
    BY DEF LedgersOK
  <2>2. CASE j = k
    <3>1. r \in Records[j]
      BY <2>2
    <3>2. Append(ledgers[j], r) \in Seq(Records[j])
      BY <2>1, <3>1, AppendProperties
    <3>3. <<r>> \in Seq(Records[j])
      BY <3>1
    <3>4. ledgers'[j] = IF k \in Rewritten THEN <<r>> ELSE Append(ledgers[j], r)
      BY <2>2 DEF Write, LedgersOK
    <3> QED BY <3>2, <3>3, <3>4
  <2>3. CASE j # k
    BY <2>1, <2>3 DEF Write, LedgersOK
  <2> QED BY <2>2, <2>3
<1> QED BY <1>1, <1>2 DEF LedgersOK

(* Of every kind that is a ledger, the lines that were there stay, each in *)
(* its place, and at most one follows them (append_record).                *)
Grown(k) ==
    \/ ledgers'[k] = ledgers[k]
    \/ \E r : ledgers'[k] = Append(ledgers[k], r)

LEMMA WriteGrows ==
    ASSUME LedgersOK, ArtifactsNext,
           NEW k \in Kind \ Rewritten
    PROVE  Grown(k)
BY DEF ArtifactsNext, Write, Grown, LedgersOK

LEMMA GrownKeeps ==
    ASSUME LedgersOK, NEW k \in Kind, Grown(k)
    PROVE  /\ \A i \in DOMAIN ledgers[k] :
                 i \in DOMAIN ledgers'[k] /\ ledgers'[k][i] = ledgers[k][i]
           /\ RecordsOf(ledgers, k) \subseteq RecordsOf(ledgers', k)
           /\ Ids(ledgers, k) \subseteq Ids(ledgers', k)
<1>1. ledgers[k] \in Seq(Records[k])
  BY DEF LedgersOK
<1>2. ASSUME NEW i \in DOMAIN ledgers[k]
      PROVE  i \in DOMAIN ledgers'[k] /\ ledgers'[k][i] = ledgers[k][i]
  <2>1. CASE ledgers'[k] = ledgers[k]
    BY <2>1
  <2>2. ASSUME NEW r, ledgers'[k] = Append(ledgers[k], r)
        PROVE  i \in DOMAIN ledgers'[k] /\ ledgers'[k][i] = ledgers[k][i]
    BY <1>1, <2>2
  <2> QED BY <2>1, <2>2 DEF Grown
<1>3. RecordsOf(ledgers, k) \subseteq RecordsOf(ledgers', k)
  BY <1>2 DEF RecordsOf
<1> QED BY <1>2, <1>3 DEF Ids

(* What may be cited stays so (approved_evidence_ids, publishable_signal_  *)
(* ids and the id sets of _collect_ids).                                   *)
LEMMA CitableGrows ==
    ASSUME \A k \in Kind \ Rewritten :
              RecordsOf(ledgers, k) \subseteq RecordsOf(ledgers', k),
           NEW k \in Kind, NEW target \in Kind \ Rewritten
    PROVE  Citable(ledgers, k, target) \subseteq Citable(ledgers', k, target)
<1>1. \A j \in Kind \ Rewritten : Ids(ledgers, j) \subseteq Ids(ledgers', j)
  BY DEF Ids
<1>2. Reviewed(ledgers) \subseteq Reviewed(ledgers')
  BY DEF Reviewed, Kind, Rewritten
<1>3. Publishable(ledgers) \subseteq Publishable(ledgers')
  BY DEF Publishable, Kind, Rewritten
<1> QED BY <1>1, <1>2, <1>3 DEF Citable

(* The line in force of an id that is not recorded anew stays the same     *)
(* (approvals_by_id, actions_by_id).                                       *)
LEMMA InForceStays ==
    ASSUME LedgersOK, NEW k \in Kind, Grown(k), NEW id, ~RecordedAnew(k, id)
    PROVE  InForce(ledgers', k, id) = InForce(ledgers, k, id)
<1>1. ledgers[k] \in Seq(Records[k])
  BY DEF LedgersOK
<1>2. CASE ledgers'[k] = ledgers[k]
  BY <1>2 DEF InForce
<1>3. ASSUME NEW r, ledgers'[k] = Append(ledgers[k], r)
      PROVE  InForce(ledgers', k, id) = InForce(ledgers, k, id)
  <2>1. PICK n \in Nat : n = Len(ledgers[k]) /\ DOMAIN ledgers[k] = 1..n
    BY <1>1
  <2>2. /\ Len(ledgers'[k]) = n + 1 /\ DOMAIN ledgers'[k] = 1..(n + 1)
        /\ ledgers'[k][n + 1] = r
        /\ \A i \in 1..n : ledgers'[k][i] = ledgers[k][i]
    BY <1>1, <1>3, <2>1
  <2>3. r.id # id
    BY <2>1, <2>2 DEF RecordedAnew
  <2>4. {i \in DOMAIN ledgers'[k] : ledgers'[k][i].id = id}
          = {i \in DOMAIN ledgers[k] : ledgers[k][i].id = id}
    BY <2>1, <2>2, <2>3
  <2>5. \A i \in {i \in DOMAIN ledgers[k] : ledgers[k][i].id = id} :
          ledgers'[k][i] = ledgers[k][i]
    BY <2>1, <2>2
  <2> QED BY <2>4, <2>5 DEF InForce
<1> QED BY <1>2, <1>3 DEF Grown

LEMMA ArtifactsTypes == Artifacts => []LedgersOK
<1>1. ArtifactsInit => LedgersOK
  BY DEF ArtifactsInit, LedgersOK
<1>2. LedgersOK /\ [ArtifactsNext]_ledgers => LedgersOK'
  <2>1. ASSUME LedgersOK, ArtifactsNext PROVE LedgersOK'
    BY <2>1, WriteKeepsTypes DEF ArtifactsNext
  <2>2. ASSUME LedgersOK, UNCHANGED ledgers PROVE LedgersOK'
    BY <2>2 DEF LedgersOK
  <2> QED BY <2>1, <2>2
<1> QED BY <1>1, <1>2, PTL DEF Artifacts

(* One record, one step: what is reported of r afterwards was reported     *)
(* before, but for the two ways to disturb it (_check_references).         *)
LEMMA SoundStays ==
    ASSUME LedgersOK, ArtifactsNext,
           NEW k \in Kind, NEW r \in Records[k], Sound(ledgers, k, r),
           ~(NeedsApproval(k, r) /\ RecordedAnew("approval", r.approved_by)),
           ~(k = "release_note" /\ \E a \in r.refs["action"] : RecordedAnew("action", a))
    PROVE  Sound(ledgers', k, r)
<1>1. \A j \in Kind \ Rewritten : Grown(j)
  BY WriteGrows
<1>2. \A target \in Kind : r.refs[target] \subseteq Citable(ledgers', k, target)
  <2>1. \A j \in Kind \ Rewritten :
           RecordsOf(ledgers, j) \subseteq RecordsOf(ledgers', j)
    BY <1>1, GrownKeeps
  <2>2. \A target \in Kind \ Rewritten :
           Citable(ledgers, k, target) \subseteq Citable(ledgers', k, target)
    BY <2>1, CitableGrows
  <2> QED BY <2>2, RecordsAssumption DEF Sound
<1>3. NamesItsReviewer(k, r)
  BY DEF Sound
<1>4. NeedsApproval(k, r) => Covered(ledgers', r)
  <2> SUFFICES ASSUME NeedsApproval(k, r) PROVE Covered(ledgers', r)
    OBVIOUS
  <2>1. InForce(ledgers', "approval", r.approved_by) = InForce(ledgers, "approval", r.approved_by)
    BY <1>1, InForceStays DEF Kind, Rewritten
  <2> QED BY <2>1 DEF Sound, Covered
<1>5. PublishedByWrite(ledgers', k, r)
  <2>1. ASSUME k = "release_note", NEW a \in r.refs["action"]
        PROVE  InForce(ledgers', "action", a) = InForce(ledgers, "action", a)
    BY <1>1, <2>1, InForceStays DEF Kind, Rewritten
  <2> QED BY <2>1 DEF Sound, PublishedByWrite
<1> QED BY <1>2, <1>3, <1>4, <1>5 DEF Sound

(* For any records, in any order, from any writer: what passes validation  *)
(* goes on passing it until an approval or a publishing action it names is *)
(* recorded anew (validate_artifact_directory, append_record).             *)
THEOREM ArtifactsStaySound == Artifacts => StaysSound
<1> DEFINE Keeps ==
      \A k \in Kind : \A i \in DOMAIN ledgers[k] :
          LET r == ledgers[k][i] IN
          Sound(ledgers, k, r) =>
              \/ Sound(ledgers', k, r)
              \/ NeedsApproval(k, r) /\ RecordedAnew("approval", r.approved_by)
              \/ k = "release_note" /\ \E a \in r.refs["action"] : RecordedAnew("action", a)
<1>1. LedgersOK /\ [ArtifactsNext]_ledgers => [Keeps]_ledgers
  <2>1. ASSUME LedgersOK, ArtifactsNext, NEW k \in Kind, NEW i \in DOMAIN ledgers[k],
               Sound(ledgers, k, ledgers[k][i])
        PROVE  \/ Sound(ledgers', k, ledgers[k][i])
               \/ NeedsApproval(k, ledgers[k][i])
                     /\ RecordedAnew("approval", ledgers[k][i].approved_by)
               \/ k = "release_note"
                     /\ \E a \in ledgers[k][i].refs["action"] : RecordedAnew("action", a)
    <3>1. ledgers[k][i] \in Records[k]
      BY <2>1 DEF LedgersOK
    <3> QED BY <2>1, <3>1, SoundStays
  <2> QED BY <2>1
<1>2. Artifacts => []LedgersOK
  BY ArtifactsTypes
<1> QED BY <1>1, <1>2, PTL DEF Artifacts, StaysSound

-----------------------------------------------------------------------------
(* Whatever agents and people do between two questions to the router is    *)
(* writing records into the directory, or leaving it alone (_route reads). *)
THEOREM RouterRecords == Spec => Artifacts
<1>1. Init => ArtifactsInit
  BY DEF Init
<1>2. ASSUME [Next]_vars PROVE [ArtifactsNext]_ledgers
  <2>1. CASE WriteOutput
    BY <2>1 DEF WriteOutput, ArtifactsNext
  <2>2. CASE Approve
    <3>1. PICK r \in Records["approval"] : Write("approval", r)
      BY <2>2 DEF Approve
    <3> QED BY <3>1 DEF ArtifactsNext, Kind
  <2>3. CASE RecordAnything
    BY <2>3 DEF RecordAnything
  <2>4. CASE EnterOutcomeReview
    <3>1. PICK run \in Records["run_state"] : Write("run_state", run)
      BY <2>4 DEF EnterOutcomeReview
    <3> QED BY <3>1 DEF ArtifactsNext, Kind
  <2>5. CASE ConnectChannel \/ BreakConnector \/ UNCHANGED vars
    BY <2>5 DEF ConnectChannel, BreakConnector, vars
  <2> QED BY <1>2, <2>1, <2>2, <2>3, <2>4, <2>5 DEF Next
<1> QED BY <1>1, <1>2, PTL DEF Spec, Artifacts

(* A run under the router keeps what was valid (validate_artifact_         *)
(* directory), but for approvals and publishing actions recorded anew.     *)
THEOREM RouterStaysSound == Spec => StaysSound
BY RouterRecords, ArtifactsStaySound

(* The directory, the written files, the connector and the run keep their  *)
(* types (_route and the work between its answers).                        *)
THEOREM RouterTypeCorrect == Spec => []TypeOK
<1>1. Init => TypeOK
  <2>1. ArtifactsInit => LedgersOK
    BY DEF ArtifactsInit, LedgersOK
  <2>2. 0 \in 0 .. MaxStray
    BY RouterAssumption
  <2> QED BY <2>1, <2>2 DEF Init, TypeOK
<1>2. TypeOK /\ LedgersOK' /\ [Next]_vars => TypeOK'
  <2> SUFFICES ASSUME TypeOK, LedgersOK', [Next]_vars PROVE TypeOK'
    OBVIOUS
  <2> USE DEF TypeOK
  <2>1. CASE WriteOutput
    <3>1. PICK skill, out :
             /\ skill \in {Advice} \ {None} /\ out \in Missing(skill) \ {"approval"}
             /\ \/ UNCHANGED files
                \/ out \notin Kind /\ files' = files \union {out}
      BY <2>1 DEF WriteOutput
    <3>2. ASSUME out \notin Kind PROVE out \in Documents
      <4>1. out \in Outputs(skill)
        BY <3>1 DEF Missing
      <4>2. skill \in Skill
        BY <4>1 DEF Outputs, Skill
      <4>3. Outputs(skill) \in {Outputs(s) : s \in Skill}
        BY <4>2
      <4>4. out \in UNION {Outputs(s) : s \in Skill}
        BY <4>1, <4>3
      <4>5. out \notin Kind
        BY <3>2
      <4> QED BY <4>4, <4>5 DEF Documents
    <3>3. files' \subseteq Documents
      BY <3>1, <3>2
    <3> QED BY <2>1, <3>3 DEF WriteOutput
  <2>2. CASE ConnectChannel
    BY <2>2 DEF ConnectChannel
  <2>3. CASE Approve
    BY <2>3 DEF Approve
  <2>4. CASE RecordAnything
    BY <2>4, RouterAssumption DEF RecordAnything
  <2>5. CASE BreakConnector
    BY <2>5 DEF BreakConnector
  <2>6. CASE EnterOutcomeReview
    BY <2>6 DEF EnterOutcomeReview
  <2>7. CASE UNCHANGED vars
    BY <2>7 DEF vars
  <2> QED BY <2>1, <2>2, <2>3, <2>4, <2>5, <2>6, <2>7 DEF Next
<1>3. Spec => []LedgersOK
  BY RouterRecords, ArtifactsTypes
<1> QED BY <1>1, <1>2, <1>3, PTL DEF Spec

(* A few numbers have a least one.                                         *)
LEMMA LeastOfFive ==
    ASSUME NEW S \in SUBSET (1..5), S # {}
    PROVE  \E i \in S : \A j \in S : i <= j
<1>1. CASE 1 \in S
  BY <1>1
<1>2. CASE 1 \notin S /\ 2 \in S
  BY <1>2
<1>3. CASE 1 \notin S /\ 2 \notin S /\ 3 \in S
  BY <1>3
<1>4. CASE 1 \notin S /\ 2 \notin S /\ 3 \notin S /\ 4 \in S
  BY <1>4
<1>5. CASE 1 \notin S /\ 2 \notin S /\ 3 \notin S /\ 4 \notin S
  <2>1. ASSUME NEW i \in S PROVE i = 5
    BY <1>5
  <2>2. 5 \in S
    BY <2>1
  <2> QED BY <2>1, <2>2
<1> QED BY <1>1, <1>2, <1>3, <1>4, <1>5

(* Of a short list of skills, the first incomplete one is incomplete, and  *)
(* there is none exactly when all are complete (_route, which returns at   *)
(* the first skill that is not complete).                                  *)
LEMMA FirstIncompleteOfFew ==
    ASSUME NEW skills \in Seq(Skill), Len(skills) <= 5
    PROVE  IF \A i \in DOMAIN skills : Complete(skills[i])
             THEN FirstIncomplete(skills) = None
             ELSE FirstIncomplete(skills) \in Skill /\ ~Complete(FirstIncomplete(skills))
<1> DEFINE open == {i \in DOMAIN skills : ~Complete(skills[i])}
           first == CHOOSE i \in open : \A j \in open : i <= j
<1>1. FirstIncomplete(skills) = IF open = {} THEN None ELSE skills[first]
  BY DEF FirstIncomplete
<1>2. CASE open = {}
  BY <1>1, <1>2
<1>3. CASE open # {}
  <2>1. PICK n \in Nat : n = Len(skills) /\ DOMAIN skills = 1..n
    OBVIOUS
  <2>2. open \in SUBSET (1..5)
    BY <2>1
  <2>3. \E i \in open : \A j \in open : i <= j
    BY <2>2, <1>3, LeastOfFive
  <2>4. first \in open
    BY <2>3
  <2>5. skills[first] \in Skill /\ ~Complete(skills[first])
    BY <2>4
  <2> QED BY <1>1, <1>3, <2>4, <2>5
<1> QED BY <1>2, <1>3

-----------------------------------------------------------------------------
(* The lists _route goes through without customer input, with it, and for  *)
(* a stated objective.                                                     *)
ResearchSkills == <<"plan-customer-reach", "run-switch-interview", "synthesize-interviews">>
LoopSkills ==
    (IF connector = "valid" THEN <<>> ELSE <<"synthesize-interviews">>) \o
    <<"triage-customer-signals", "define-growth-metrics",
      "record-growth-decision", "design-first-user-loop">>
RequestedSkills ==
    (IF objective = "osmu-fanout" THEN <<"draft-evidence-content">> ELSE <<>>)
      \o (IF objective = None THEN <<>> ELSE <<objective>>)

LEMMA ResearchList == ResearchSkills \in Seq(Skill) /\ Len(ResearchSkills) <= 5
BY DEF ResearchSkills, Skill

LEMMA LoopList ==
    /\ LoopSkills \in Seq(Skill) /\ Len(LoopSkills) <= 5
    /\ \A skill \in {"triage-customer-signals", "record-growth-decision"} :
          \E i \in DOMAIN LoopSkills : LoopSkills[i] = skill
<1> DEFINE gate == IF connector = "valid" THEN <<>> ELSE <<"synthesize-interviews">>
           loop == <<"triage-customer-signals", "define-growth-metrics",
                     "record-growth-decision", "design-first-user-loop">>
<1>1. gate \in Seq(Skill) /\ (Len(gate) = 0 \/ Len(gate) = 1)
  <2>1. CASE gate = <<>>
    BY <2>1
  <2>2. CASE gate = <<"synthesize-interviews">>
    <3>1. "synthesize-interviews" \in Skill
      BY DEF Skill
    <3> HIDE DEF gate
    <3> QED BY <2>2, <3>1
  <2> QED BY <2>1, <2>2
<1>2. /\ Len(loop) = 4
      /\ loop[1] = "triage-customer-signals" /\ loop[3] = "record-growth-decision"
  OBVIOUS
<1>7. loop \in Seq(Skill)
  BY DEF Skill
<1>3. LoopSkills = gate \o loop
  BY DEF LoopSkills
<1> HIDE DEF gate, loop
<1>4. PICK n \in 0..1 : n = Len(gate)
  BY <1>1
<1>5. /\ LoopSkills \in Seq(Skill) /\ Len(LoopSkills) = n + 4
      /\ LoopSkills[n + 1] = loop[1] /\ LoopSkills[n + 3] = loop[3]
  <2>1. /\ LoopSkills \in Seq(Skill) /\ Len(LoopSkills) = Len(gate) + Len(loop)
        /\ \A i \in 1 .. Len(gate) + Len(loop) :
              LoopSkills[i] = IF i <= Len(gate) THEN gate[i] ELSE loop[i - Len(gate)]
    BY <1>1, <1>3, <1>7, ConcatProperties
  <2>2. Len(gate) + Len(loop) = n + 4
    BY <1>2, <1>4
  <2>3. LoopSkills[n + 1] = loop[n + 1 - n] /\ LoopSkills[n + 3] = loop[n + 3 - n]
    BY <1>4, <2>1, <2>2
  <2> QED BY <1>4, <2>1, <2>2, <2>3
<1>6. n + 1 \in 1 .. n + 4 /\ n + 3 \in 1 .. n + 4 /\ n + 4 <= 5
  BY <1>4
<1>8. DOMAIN LoopSkills = 1 .. n + 4
  BY <1>5, LenProperties
<1> QED BY <1>2, <1>5, <1>6, <1>8

LEMMA RequestedList ==
    ASSUME objective \in Skill \union {None}
    PROVE  RequestedSkills \in Seq(Skill) /\ Len(RequestedSkills) <= 5
<1> DEFINE draft == IF objective = "osmu-fanout" THEN <<"draft-evidence-content">> ELSE <<>>
           asked == IF objective = None THEN <<>> ELSE <<objective>>
<1>1. draft \in Seq(Skill) /\ (Len(draft) = 0 \/ Len(draft) = 1)
  <2>1. CASE draft = <<>>
    BY <2>1
  <2>2. CASE draft = <<"draft-evidence-content">>
    <3>1. "draft-evidence-content" \in Skill
      BY DEF Skill
    <3> HIDE DEF draft
    <3> QED BY <2>2, <3>1
  <2> QED BY <2>1, <2>2
<1>2. asked \in Seq(Skill) /\ (Len(asked) = 0 \/ Len(asked) = 1)
  OBVIOUS
<1>3. RequestedSkills = draft \o asked
  BY DEF RequestedSkills
<1> HIDE DEF draft, asked
<1>4. RequestedSkills \in Seq(Skill) /\ Len(RequestedSkills) = Len(draft) + Len(asked)
  BY <1>1, <1>2, <1>3, ConcatProperties
<1>5. PICK m \in 0..1, n \in 0..1 : m = Len(draft) /\ n = Len(asked)
  BY <1>1, <1>2
<1>6. Len(draft) + Len(asked) <= 5
  BY <1>5
<1> QED BY <1>4, <1>6

(* A connector that is valid, or a file of signals that is, counts as      *)
(* customer input, so triage is not named once it is complete (_route).    *)
LEMMA TriageWithoutInput == ~HasCustomerInput => ~Complete("triage-customer-signals")
BY DEF HasCustomerInput, Complete, PrimaryValid, Connect

(* The core part of _route names an incomplete skill, or the decision that *)
(* reviews an outcome, or nothing, and then the loop is complete.          *)
LEMMA CoreAdviceIsOpen ==
    \/ CoreAdvice \in Skill /\ ~Complete(CoreAdvice)
    \/ CoreAdvice = "record-growth-decision" /\ OutcomeReview
    \/ CoreAdvice = None /\ \A i \in DOMAIN LoopSkills : Complete(LoopSkills[i])
<1>1. CASE HasCustomerInput
  <2>1. CoreAdvice = LET next == FirstIncomplete(LoopSkills)
                     IN  IF next = None /\ OutcomeReview
                           THEN "record-growth-decision" ELSE next
    BY <1>1 DEF CoreAdvice, LoopSkills
  <2> QED BY <2>1, LoopList, FirstIncompleteOfFew, RouterAssumption
<1>2. CASE ~HasCustomerInput
  <2>1. CoreAdvice = LET next == FirstIncomplete(ResearchSkills)
                     IN  IF next = None THEN "triage-customer-signals" ELSE next
    BY <1>2 DEF CoreAdvice, ResearchSkills
  <2>2. "triage-customer-signals" \in Skill
    BY DEF Skill
  <2> QED BY <1>2, <2>1, <2>2, ResearchList, FirstIncompleteOfFew, TriageWithoutInput,
             RouterAssumption
<1> QED BY <1>1, <1>2

LEMMA RequestedAdviceIsOpen ==
    ASSUME objective \in Skill \union {None}
    PROVE  \/ RequestedAdvice \in Skill /\ ~Complete(RequestedAdvice)
           \/ RequestedAdvice = CoreAdvice
<1>1. RequestedAdvice = LET next == FirstIncomplete(RequestedSkills)
                        IN  IF next = None THEN CoreAdvice ELSE next
  BY DEF RequestedAdvice, RequestedSkills
<1> QED BY <1>1, RequestedList, FirstIncompleteOfFew, RouterAssumption

LEMMA OutputsAreDocumented ==
    /\ "introduction recipe" \in Missing("define-growth-metrics")
           <=> "introduction recipe" \notin files
    /\ "introduction decision" \in Missing("record-growth-decision")
           <=> "introduction decision" \notin files
BY DEF Missing, Outputs, Written, Kind

(* The router never names a skill that is complete, but for the branches   *)
(* that can run again and the review of an outcome (_route).               *)
THEOREM RouterNoFinishedWork == Spec => []NoFinishedWork
<1>1. objective \in Objective => NoFinishedWork
  <2> SUFFICES ASSUME objective \in Objective, Advice # None, Complete(Advice)
               PROVE  \/ Prerequisite(objective) # None /\ Advice = objective
                      \/ OutcomeReview /\ Advice = "record-growth-decision"
    BY DEF NoFinishedWork
  <2>1. CASE connector \in {"partial", "invalid"}
    BY <2>1 DEF Advice, Complete
  <2>2. CASE connector \notin {"partial", "invalid"} /\ objective = "introduction"
    <3>1. Advice = IntroductionAdvice
      BY <2>2 DEF Advice
    <3> QED BY <3>1, OutputsAreDocumented DEF IntroductionAdvice, Complete, Connect
  <2>3. CASE /\ connector \notin {"partial", "invalid"} /\ objective # "introduction"
             /\ Prerequisite(objective) = None
    <3>1. Advice = RequestedAdvice
      BY <2>3 DEF Advice
    <3>2. objective \in Skill \union {None}
      BY <2>3, RouterAssumption
    <3> QED BY <3>1, <3>2, RequestedAdviceIsOpen, CoreAdviceIsOpen
  <2>4. CASE /\ connector \notin {"partial", "invalid"} /\ objective # "introduction"
             /\ Prerequisite(objective) # None
    BY <2>4 DEF Advice
  <2> QED BY <2>1, <2>2, <2>3, <2>4
<1>2. TypeOK => NoFinishedWork
  BY <1>1 DEF TypeOK
<1> QED BY <1>2, RouterTypeCorrect, PTL

(* When the router has nothing left to name, no signal and no decision     *)
(* rests on unreviewed evidence, and no decision on an approval that is    *)
(* not in force (_route, _skill_complete, _check_references).              *)
THEOREM RouterDoneIsInForce == Spec => []DoneIsInForce
<1>1. objective \in Objective => DoneIsInForce
  <2> SUFFICES ASSUME objective \in Objective, Advice = None, objective # "introduction",
                      NEW k \in {"signal", "decision"}, NEW r \in RecordsOf(ledgers, k)
               PROVE  /\ r.refs["evidence"] \subseteq Reviewed(ledgers)
                      /\ NeedsApproval(k, r) => Covered(ledgers, r)
    BY DEF DoneIsInForce
  <2>1. connector \notin {"partial", "invalid"}
    BY RouterAssumption DEF Advice, Skill
  <2>2. Prerequisite(objective) = None
    <3> SUFFICES ASSUME Prerequisite(objective) # None PROVE FALSE
      OBVIOUS
    <3>1. Prerequisite(objective) \in Skill /\ objective \in Skill
      BY DEF Prerequisite, Skill
    <3> QED BY <2>1, <3>1, RouterAssumption DEF Advice
  <2>3. Advice = RequestedAdvice /\ objective \in Skill \union {None}
    BY <2>1, <2>2, RouterAssumption DEF Advice
  <2>4. CoreAdvice = None
    BY <2>3, RequestedAdviceIsOpen, RouterAssumption
  <2>5. \A i \in DOMAIN LoopSkills : Complete(LoopSkills[i])
    <3>1. "record-growth-decision" \in Skill
      BY DEF Skill
    <3> QED BY <2>4, <3>1, CoreAdviceIsOpen, RouterAssumption
  <2>6. Complete("triage-customer-signals") /\ Complete("record-growth-decision")
    BY <2>5, LoopList
  <2>7. FileValid(ledgers, k)
    BY <2>6 DEF Complete, PrimaryValid, Connect
  <2>8. Sound(ledgers, k, r)
    BY <2>7 DEF FileValid
  <2>9. Citable(ledgers, k, "evidence") = Reviewed(ledgers)
    BY DEF Citable
  <2> QED BY <2>8, <2>9 DEF Sound, Kind
<1>2. TypeOK => DoneIsInForce
  BY <1>1 DEF TypeOK
<1> QED BY <1>2, RouterTypeCorrect, PTL

=============================================================================
