------------------------------ MODULE HplanExports ------------------------------
(***************************************************************************)
(* What the repository hands to hplan                                      *)
(* (src/src/signal_growth/integrations.py):                                *)
(*   build_hplan_reconsideration  asks a person to reconsider, because an  *)
(*                                executed action has a mature outcome;    *)
(*   build_hplan_intake           draws up a brief from a decision.        *)
(* Both first validate the artifact directory, one file after another in   *)
(* the order of ARTIFACT_FILES, and then read the ledgers they need once   *)
(* more, again one after another and without a lock.  Meanwhile anybody    *)
(* appends to any of them.  Only the first thing that is wrong raises; a   *)
(* call that raised has issued nothing.                                    *)
(*                                                                         *)
(* An outcome has mature, conclusive and handoff, an action has status,    *)
(* external_write, approved_by and handoff, beside what ArtifactContracts  *)
(* says.  The texts of a brief are left out: known stands for all nine     *)
(* fields being filled in.  The chains are AppendLedger's.                 *)
(***************************************************************************)
EXTENDS ArtifactContracts, FiniteSets

CONSTANTS
    Directories,    \* the artifact directories a call may find
    Handoffs,       \* accepted handoffs from hplan: [project, ref]
    Calls,          \* [kind, id, project, known], where id may be None
    MaxAppends      \* bound: records and handoffs recorded during a call

ASSUME ExportAssumption ==
    /\ MaxAppends \in Nat
    /\ \A d \in Directories :
          DOMAIN d = Kind /\ \A k \in Kind : d[k] \in Seq(Records[k])

VARIABLES
    references, \* handoffs in integration-references.jsonl
    call,       \* the call
    at,         \* where it is: idle, issued, raised, or the file it reads next
    filesRead,  \* files validation has read
    validated,  \* and what was in them
    asOf,       \* the directory at the moment validation read the approvals
    accepted,   \* the handoffs of the project the call has read
    got,        \* [Kind -> the records the call has selected]
    appends

progress == <<at, filesRead, validated, asOf, accepted, got>>
vars == <<ledgers, references, call, progress, appends>>

(* Mutant: approvals are read first.                                       *)
ApprovalsFirst ==
    <<"approval", "evidence", "signal", "metric", "decision", "action", "outcome",
      "run_state", "claim", "visibility_observation", "content_brief", "release_note">>

(* ARTIFACT_FILES.                                                         *)
ArtifactFiles ==
    <<"evidence", "signal", "metric", "decision", "action", "outcome", "run_state",
      "approval", "claim", "visibility_observation", "content_brief", "release_note">>

NoRecords == [k \in Kind |-> {}]
Unread == [k \in Kind |-> <<>>]

-----------------------------------------------------------------------------
(* Anybody: append-record, and import-hplan-handoff --write.               *)

Record(k, r) ==
    /\ appends < MaxAppends
    /\ appends' = appends + 1
    /\ Write(k, r)
    /\ UNCHANGED <<references, call, progress>>

ImportHandoff(h) ==
    /\ appends < MaxAppends
    /\ appends' = appends + 1
    /\ references' = references \union {h}
    /\ UNCHANGED <<ledgers, call, progress>>

-----------------------------------------------------------------------------
(* The steps of a call.                                                    *)

GoTo(place) == at' = place /\ UNCHANGED <<ledgers, references, call, appends>>
Validating == <<filesRead, validated, asOf, accepted>>

Raise == GoTo("raised") /\ UNCHANGED <<Validating, got>>

(* load_records finds half a line, which an append under way is writing.   *)
MeetHalfALine ==
    /\ at \notin {"idle", "issued", "raised"}
    /\ appends < MaxAppends
    /\ Raise

(* The call goes on with these records of kind k.                          *)
Select(k, records, place) ==
    /\ got' = [got EXCEPT ![k] = records]
    /\ GoTo(place)
    /\ UNCHANGED Validating

Begin(c) ==
    /\ at = "idle"
    /\ call' = c
    /\ at' = IF c.kind = "reconsideration" THEN "references" ELSE "validate"
    /\ UNCHANGED <<ledgers, references, filesRead, validated, asOf, accepted, got, appends>>

ReadReferences ==
    /\ at = "references"
    /\ LET valid == {h \in references : h.project = call.project}
       IN  \/ /\ valid # {}
              /\ accepted' = valid
              /\ GoTo("validate")
              /\ UNCHANGED <<filesRead, validated, asOf, got>>
           \/ valid = {} /\ Raise

(* Validation reads the next file.                                         *)
ValidateFile ==
    /\ at = "validate" /\ filesRead < Len(ArtifactFiles)
    /\ LET k == ArtifactFiles[filesRead + 1]
       IN  /\ validated' = [validated EXCEPT ![k] = ledgers[k]]
           /\ asOf' = IF k = "approval" THEN ledgers ELSE asOf
    /\ filesRead' = filesRead + 1
    /\ GoTo("validate")
    /\ UNCHANGED <<accepted, got>>

Place == IF call.kind = "reconsideration" THEN "outcome" ELSE "decision"

(* Mutant: issues are for whoever reads the log.                           *)
JudgeLeniently ==
    /\ at = "validate" /\ filesRead = Len(ArtifactFiles)
    /\ GoTo(Place) /\ UNCHANGED <<Validating, got>>

Judge ==
    /\ at = "validate" /\ filesRead = Len(ArtifactFiles)
    /\ \/ DirectoryValid(validated) /\ GoTo(Place) /\ UNCHANGED <<Validating, got>>
       \/ ~DirectoryValid(validated) /\ Raise

-----------------------------------------------------------------------------
(* build_hplan_reconsideration.                                            *)

(* The lines of a ledger that have an id, or all of them where none is     *)
(* asked for.                                                              *)
Lines(d, k, id) == {i \in DOMAIN d[k] : id = None \/ d[k][i].id = id}

(* _select_unique_record: no record where there are several lines.         *)
Selected(d, k, id) ==
    {d[k][i] : i \in {n \in Lines(d, k, id) : Lines(d, k, id) = {n}}}

TheOne(records) == CHOOSE r \in records : TRUE
Outcome == TheOne(got["outcome"])
Action == TheOne(got["action"])
Decision == TheOne(got["decision"])

(* What the command asks of the records, each of which has been read on    *)
(* its own.                                                                *)
Reportable(o) == o.mature /\ o.conclusive

BoundByHandoff(o, a) ==
    /\ a.status = "executed"
    /\ o.handoff # None /\ a.handoff = o.handoff
    /\ \E h \in accepted : h.ref = o.handoff

Declares(o, a) == o.refs["metric"] \subseteq a.refs["metric"]

SelectOutcome ==
    /\ at = "outcome"
    /\ \/ \E o \in Selected(ledgers, "outcome", call.id) :
             Reportable(o) /\ Select("outcome", {o}, "action")
       \/ /\ \A o \in Selected(ledgers, "outcome", call.id) : ~Reportable(o)
          /\ Raise

(* The one record of kind k that r refers to.                              *)
Referred(r, k) == UNION {Selected(ledgers, k, id) : id \in r.refs[k] \ {None}}

SelectAction ==
    /\ at = "action"
    /\ \/ \E a \in Referred(Outcome, "action") :
             BoundByHandoff(Outcome, a) /\ Select("action", {a}, "its decision")
       \/ /\ \A a \in Referred(Outcome, "action") : ~BoundByHandoff(Outcome, a)
          /\ Raise

SelectItsDecision ==
    LET fits(d) == d.status = "approved" /\ Declares(Outcome, Action)
    IN  /\ at = "its decision"
        /\ \/ \E d \in Referred(Action, "decision") :
                 fits(d) /\ Select("decision", {d}, "its metric")
           \/ /\ \A d \in Referred(Action, "decision") : ~fits(d)
              /\ Raise

SelectItsMetric ==
    /\ at = "its metric"
    /\ \/ \E m \in Referred(Outcome, "metric") : Select("metric", {m}, "issued")
       \/ Referred(Outcome, "metric") = {} /\ Raise

-----------------------------------------------------------------------------
(* build_hplan_intake.                                                     *)

(* _select_decision: the first line that has the id.                       *)
SelectDecision ==
    LET lines == Lines(ledgers, "decision", call.id)
        fits(i) == IF call.id = None THEN lines = {i} ELSE \A j \in lines : i <= j
    IN  /\ at = "decision"
        /\ \/ \E i \in lines :
                 fits(i) /\ Select("decision", {ledgers["decision"][i]}, "evidence")
           \/ (\A i \in lines : ~fits(i)) /\ Raise

SelectEvidence ==
    /\ at = "evidence"
    /\ Select("evidence",
              {e \in RecordsOf(ledgers, "evidence") : e.id \in Decision.refs["evidence"]},
              "metrics")

(* All of them: which ones the brief names depends on its actions.         *)
SelectMetrics ==
    /\ at = "metrics"
    /\ Select("metric", RecordsOf(ledgers, "metric"), "actions")

SelectActions ==
    /\ at = "actions"
    /\ Select("action",
              {a \in RecordsOf(ledgers, "action") : Decision.id \in a.refs["decision"]},
              "issued")

BriefMetrics ==
    (UNION {a.refs["metric"] : a \in got["action"]}) \intersect {m.id : m \in got["metric"]}

(* ready_for_gate_review.                                                  *)
Ready == call.known /\ Decision.status = "approved"

-----------------------------------------------------------------------------
Init ==
    /\ ledgers \in Directories
    /\ references \in SUBSET Handoffs
    /\ call = None /\ at = "idle"
    /\ filesRead = 0 /\ validated = Unread /\ asOf = Unread
    /\ accepted = {} /\ got = NoRecords
    /\ appends = 0

Next ==
    \/ \E k \in Kind : \E r \in Records[k] : Record(k, r)
    \/ \E h \in Handoffs : ImportHandoff(h)
    \/ \E c \in Calls : Begin(c)
    \/ ReadReferences \/ ValidateFile \/ Judge \/ MeetHalfALine
    \/ SelectOutcome \/ SelectAction \/ SelectItsDecision \/ SelectItsMetric
    \/ SelectDecision \/ SelectEvidence \/ SelectMetrics \/ SelectActions

Spec == Init /\ [][Next]_vars

-----------------------------------------------------------------------------
TypeOK ==
    /\ LedgersOK
    /\ references \subseteq Handoffs /\ accepted \subseteq references
    /\ filesRead \in 0 .. Len(ArtifactFiles)
    /\ \A k \in Kind : got[k] \subseteq Records[k]
    /\ appends \in 0 .. MaxAppends

OnlyLine(d, k, r) == \E i \in DOMAIN d[k] : d[k][i] = r /\ Lines(d, k, r.id) = {i}

(* Decision d stands in directory dir: approved, under an approval in      *)
(* force, on reviewed evidence.                                            *)
Stands(dir, d) ==
    /\ d.status = "approved" /\ Covered(dir, d)
    /\ d.refs["evidence"] \subseteq Reviewed(dir)

(***************************************************************************)
(* What is issued was justified at one moment, though the files were read  *)
(* one after another, some of them twice, while others appended to them:   *)
(* in the directory as it was when the approvals were validated, a         *)
(* reconsideration had its one executed action, under an approval where it *)
(* writes, its one standing decision and its one metric, and a brief that  *)
(* is ready for review had a standing decision.  Only a record that was    *)
(* appended behind validation's back can be issued on what was read bit by *)
(* bit.                                                                    *)
(***************************************************************************)
ReconsiderationHeld(dir, o) ==
    /\ OnlyLine(dir, "outcome", o)
    /\ \E a \in RecordsOf(dir, "action"), d \in RecordsOf(dir, "decision") :
          /\ OnlyLine(dir, "action", a) /\ OnlyLine(dir, "decision", d)
          /\ a.id \in o.refs["action"] /\ d.id \in a.refs["decision"]
          /\ Reportable(o) /\ BoundByHandoff(o, a) /\ Declares(o, a)
          /\ a.external_write => Covered(dir, a)
          /\ Stands(dir, d)
    /\ \E m \in RecordsOf(dir, "metric") : m.id \in o.refs["metric"] /\ OnlyLine(dir, "metric", m)

JustifiedAtOnce ==
    at = "issued" =>
        IF call.kind = "reconsideration"
          THEN \A o \in got["outcome"] \intersect RecordsOf(validated, "outcome") :
                  ReconsiderationHeld(asOf, o)
          ELSE \A d \in got["decision"] \intersect RecordsOf(validated, "decision") :
                  Ready => Stands(asOf, d)

(***************************************************************************)
(* A brief leaves out nothing the validated directory had to say about its *)
(* decision: all evidence the decision names, all of its actions and all   *)
(* their metrics ("Project validated STG artifacts into a draft hplan gate *)
(* intake"), whatever was appended while it was drawn up.                  *)
(***************************************************************************)
BriefComplete ==
    at = "issued" /\ call.kind = "intake" =>
        \A d \in got["decision"] \intersect RecordsOf(validated, "decision") :
            /\ d.refs["evidence"] \subseteq {e.id : e \in got["evidence"]}
            /\ \A a \in RecordsOf(validated, "action") :
                  d.id \in a.refs["decision"] =>
                      a \in got["action"] /\ a.refs["metric"] \subseteq BriefMetrics
=============================================================================
