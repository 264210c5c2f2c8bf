------------------------------ MODULE GrowthRouter ------------------------------
(***************************************************************************)
(* next_skill and the work it directs                                      *)
(* (src/src/signal_growth/workflow.py): the router reads the artifact      *)
(* directory and names one skill; an agent carries that skill out, one     *)
(* file or record at a time; people review evidence, grant approvals and   *)
(* withdraw them whenever they like; and the router is asked again.        *)
(*                                                                         *)
(* Of the Markdown and CSV outputs of a skill, which count as written when *)
(* they are not blank, one name stands for all those that are treated      *)
(* alike.  first-user-loop.json counts as written when it fits its schema, *)
(* since nothing tells an invalid one from a missing one.                  *)
(*                                                                         *)
(* Here an outcome has next_decision_id, maturity and conclusion, and      *)
(* run-state.json awaitsReview: phase outcome-review, and a status that    *)
(* waits for a person.                                                     *)
(***************************************************************************)
EXTENDS ArtifactContracts

CONSTANTS
    Objective,      \* what a run may be asked for: None, "introduction", a skill
    MaxStray        \* bound: records nobody was asked for in one behaviour

Connect == "connect-customer-channels"

Skill == {Connect, "plan-customer-reach", "run-switch-interview", "synthesize-interviews",
          "triage-customer-signals", "define-growth-metrics", "record-growth-decision",
          "design-first-user-loop", "audit-answer-visibility", "draft-evidence-content",
          "osmu-fanout", "announce-release-to-customers"}

ASSUME RouterAssumption ==
    /\ None \notin Skill
    /\ Objective \subseteq Skill \union {None, "introduction"}
    /\ MaxStray \in Nat

VARIABLES
    files,          \* written outputs that are no ledgers
    connector,      \* _connector_state
    objective,
    strays          \* records nobody was asked for so far

vars == <<ledgers, files, connector, objective, strays>>

(* SKILL_OUTPUT_FILES, where a kind stands for its file.                   *)
Outputs(skill) ==
    CASE skill = "plan-customer-reach"     -> {"reach-plan.json", "contact drafts"}
      [] skill = "run-switch-interview"    -> {"interview-guide.md", "interview notes"}
      [] skill = "synthesize-interviews"   -> {"evidence", "synthesis notes"}
      [] skill = "triage-customer-signals" -> {"signal", "triage notes"}
      [] skill = "define-growth-metrics"   -> {"metric", "measurement plan", "introduction recipe"}
      [] skill = "record-growth-decision"  -> {"decision", "approval", "decision notes",
                                               "introduction decision"}
      [] skill = "design-first-user-loop"  -> {"first-user-loop.json", "action", "approval",
                                               "experiment notes"}
      [] skill = "audit-answer-visibility" -> {"visibility_observation", "audit notes"}
      [] skill = "draft-evidence-content"  -> {"content_brief", "claim", "draft"}
      [] skill = "osmu-fanout"             -> {"fanout notes"}
      [] skill = "announce-release-to-customers" -> {"release_note", "announcement"}
      [] OTHER                             -> {}

Documents == (UNION {Outputs(s) : s \in Skill}) \ Kind
Written == {k \in Kind : ledgers[k] # <<>>} \union files
Missing(skill) == Outputs(skill) \ Written

(* CORE_SKILL_FILES and _valid_artifacts: the outputs later skills rest on.*)
PrimaryValid(skill) ==
    CASE skill = "synthesize-interviews"   -> FileValid(ledgers, "evidence")
      [] skill = "triage-customer-signals" -> FileValid(ledgers, "signal")
      [] skill = "define-growth-metrics"   -> FileValid(ledgers, "metric")
      [] skill = "record-growth-decision"  -> FileValid(ledgers, "decision")
      [] OTHER                             -> TRUE

Unreviewed == {r.id : r \in {e \in RecordsOf(ledgers, "evidence") :
                               e.strength = "awaiting_human_tag"}}

(* Mutant: a primary output need only be written.                          *)
CompleteIfWritten(skill) ==
    IF skill = Connect
      THEN connector = "valid"
      ELSE /\ Missing(skill) = {}
           /\ skill = "osmu-fanout" => "content_brief" \in Written
           /\ skill = "synthesize-interviews" => Unreviewed = {}

(* _skill_complete.                                                        *)
Complete(skill) ==
    IF skill = Connect
      THEN connector = "valid"
      ELSE /\ PrimaryValid(skill)
           /\ Missing(skill) = {}
           /\ skill = "osmu-fanout" => "content_brief" \in Written
           /\ skill = "synthesize-interviews" => Unreviewed = {}

(* Mutant: the skills are asked for in the wrong order.                    *)
LastIncomplete(skills) ==
    LET open == {i \in DOMAIN skills : ~Complete(skills[i])}
    IN  IF open = {} THEN None ELSE skills[CHOOSE i \in open : \A j \in open : j <= i]

FirstIncomplete(skills) ==
    LET open == {i \in DOMAIN skills : ~Complete(skills[i])}
    IN  IF open = {} THEN None ELSE skills[CHOOSE i \in open : \A j \in open : i <= j]

Prerequisite(skill) ==
    CASE skill = "draft-evidence-content"        -> "design-first-user-loop"
      [] skill = "announce-release-to-customers" -> "record-growth-decision"
      [] OTHER                                   -> None

(* _outcome_review_reason: the last outcome asks for a decision and has    *)
(* none, and the run waits for it.                                         *)
OutcomeReview ==
    /\ \E run \in RecordsOf(ledgers, "run_state") : run.awaitsReview
    /\ ledgers["outcome"] # <<>>
    /\ LET latest == ledgers["outcome"][Len(ledgers["outcome"])]
       IN  /\ latest.next_decision_id = None
           /\ \/ latest.maturity = "not_mature"
              \/ latest.conclusion \in {"change", "stop", "hold"}

-----------------------------------------------------------------------------
(* _route: the first skill of a list that is not complete, where the list  *)
(* depends on the objective and on what is there.                          *)

IntroductionAdvice ==
    CASE ~Complete("design-first-user-loop")      -> "design-first-user-loop"
      [] Complete("design-first-user-loop") /\ "introduction recipe" \notin files
                                                  -> "define-growth-metrics"
      [] OTHER -> IF "introduction decision" \notin files
                    THEN "record-growth-decision" ELSE None

HasCustomerInput ==
    \/ FileValid(ledgers, "evidence")
    \/ FileValid(ledgers, "signal")
    \/ connector = "valid"

CoreAdvice ==
    IF HasCustomerInput
      THEN LET next == FirstIncomplete(
                 (IF connector = "valid" THEN <<>> ELSE <<"synthesize-interviews">>) \o
                 <<"triage-customer-signals", "define-growth-metrics",
                   "record-growth-decision", "design-first-user-loop">>)
           IN  IF next = None /\ OutcomeReview THEN "record-growth-decision" ELSE next
      ELSE LET next == FirstIncomplete(<<"plan-customer-reach", "run-switch-interview",
                                         "synthesize-interviews">>)
           IN  IF next = None THEN "triage-customer-signals" ELSE next

(* Mutant: the objective is followed whether or not its work is done.      *)
AlwaysAsRequested ==
    IF objective # None THEN objective ELSE CoreAdvice

(* The objective names a skill outside the branches.                       *)
RequestedAdvice ==
    LET list == (IF objective = "osmu-fanout" THEN <<"draft-evidence-content">> ELSE <<>>)
                  \o (IF objective = None THEN <<>> ELSE <<objective>>)
        next == FirstIncomplete(list)
    IN  IF next = None THEN CoreAdvice ELSE next

Advice ==
    IF connector \in {"partial", "invalid"} THEN Connect
    ELSE IF objective = "introduction" THEN IntroductionAdvice
    ELSE IF Prerequisite(objective) = None THEN RequestedAdvice
    ELSE IF Complete(Prerequisite(objective)) THEN objective
    ELSE Prerequisite(objective)

-----------------------------------------------------------------------------
(* What happens to the directory between two questions to the router.      *)

(* An agent writes an output that is missing, of the skill it was told to  *)
(* carry out; approvals it may not write.  What it records, it validates.  *)
WriteOutput ==
    /\ \E skill \in {Advice} \ {None} : \E out \in Missing(skill) \ {"approval"} :
         \/ /\ out \in Kind
            /\ \E r \in Records[out] : Write(out, r) /\ Sound(ledgers', out, r)
            /\ UNCHANGED files
         \/ /\ out \notin Kind
            /\ files' = files \union {out}
            /\ UNCHANGED ledgers
    /\ UNCHANGED <<connector, objective, strays>>

(* connect-customer-channels: the three connector files, one by one.       *)
ConnectChannel ==
    /\ Advice = Connect
    /\ connector' \in IF connector = "not-configured" THEN {"partial"} ELSE {"valid"}
    /\ UNCHANGED <<ledgers, files, objective, strays>>

(* A person grants the approval that is missing.                           *)
Approve ==
    /\ \E skill \in {Advice} \ {None} : "approval" \in Missing(skill)
    /\ \E r \in Records["approval"] : r.status = "approved" /\ Write("approval", r)
    /\ UNCHANGED <<files, connector, objective, strays>>

(* Anybody records anything anywhere, whether it validates or not: a       *)
(* second line of evidence, a decision nobody asked for, a withdrawal.     *)
RecordAnything ==
    /\ strays < MaxStray
    /\ strays' = strays + 1
    /\ ArtifactsNext
    /\ UNCHANGED <<files, connector, objective>>

(* The channel's files come to disagree with its contract.                 *)
BreakConnector ==
    /\ connector = "partial"
    /\ connector' = "invalid"
    /\ UNCHANGED <<ledgers, files, objective, strays>>

(* run-state.json is rewritten: the run has come to its outcome review.    *)
EnterOutcomeReview ==
    /\ ledgers["outcome"] # <<>>
    /\ \E run \in Records["run_state"] : run.awaitsReview /\ Write("run_state", run)
    /\ UNCHANGED <<files, connector, objective, strays>>

Init ==
    /\ ArtifactsInit
    /\ files = {}
    /\ connector = "not-configured"
    /\ objective \in Objective
    /\ strays = 0

Next ==
    \/ WriteOutput \/ ConnectChannel \/ Approve \/ RecordAnything
    \/ BreakConnector \/ EnterOutcomeReview

Spec == Init /\ [][Next]_vars

(* The agent does what it is told, and a person asked for an approval      *)
(* gives it.                                                               *)
FairSpec == Spec /\ WF_vars(WriteOutput) /\ WF_vars(ConnectChannel) /\ WF_vars(Approve)

-----------------------------------------------------------------------------
TypeOK ==
    /\ LedgersOK
    /\ files \subseteq Documents
    /\ connector \in {"not-configured", "partial", "invalid", "valid"}
    /\ objective \in Objective
    /\ strays \in 0 .. MaxStray

(***************************************************************************)
(* When the router says that nothing is left to do for the core skills, no *)
(* signal and no decision rests on evidence nobody has reviewed, and no    *)
(* decision on an approval that was withdrawn, however late.               *)
(***************************************************************************)
DoneIsInForce ==
    (Advice = None /\ objective # "introduction") =>
        \A k \in {"signal", "decision"} : \A r \in RecordsOf(ledgers, k) :
            /\ r.refs["evidence"] \subseteq Reviewed(ledgers)
            /\ NeedsApproval(k, r) => Covered(ledgers, r)

(***************************************************************************)
(* No loops: the router never sends anyone to work that is finished, but   *)
(* for the two branches that can be run again and the review of outcomes.  *)
(***************************************************************************)
NoFinishedWork ==
    \A skill \in {Advice} \ {None} :
        Complete(skill) =>
            \/ Prerequisite(objective) # None /\ skill = objective
            \/ OutcomeReview /\ skill = "record-growth-decision"

(***************************************************************************)
(* Whoever follows the advice gets to its end, as long as what is recorded *)
(* validates, evidence comes with its review and no approval is withdrawn: *)
(* the router sends nobody to a skill whose records cannot be written yet. *)
(* It does where the objective itself names such a skill, and where a      *)
(* valid connector stands in for evidence: signals may cite none, but a    *)
(* decision may not.                                                       *)
(***************************************************************************)
Presupposing ==
    {"introduction", "record-growth-decision", "design-first-user-loop", "osmu-fanout"}
        \union {s \in Objective : Prerequisite(s) # None}

Undisturbed ==
    /\ DirectoryValid(ledgers)
    /\ Unreviewed = {}
    /\ \A r \in RecordsOf(ledgers, "approval") : r.status = "approved"

DecidesWithoutEvidence ==
    /\ Advice = "record-growth-decision"
    /\ connector = "valid"
    /\ Reviewed(ledgers) = {}

AdviceEnds ==
    objective \notin Presupposing =>
        <>(Advice = None \/ OutcomeReview \/ DecidesWithoutEvidence \/ ~Undisturbed)

(***************************************************************************)
(* run-growth-loop says of evidence that awaits review that it "blocks     *)
(* signals, decisions, and outcomes until a person records both strength   *)
(* and approved_by": once a person has, the synthesis is complete, when    *)
(* nothing else is missing of it.                                          *)
(***************************************************************************)
ReviewUnblocks ==
    (/\ PrimaryValid("synthesize-interviews")
     /\ Missing("synthesize-interviews") = {}
     /\ Ids(ledgers, "evidence") \subseteq Reviewed(ledgers))
        => Complete("synthesize-interviews")

=============================================================================
