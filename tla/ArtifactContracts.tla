--------------------------- MODULE ArtifactContracts ---------------------------
(***************************************************************************)
(* The artifact directory of a run and what validate_artifact_directory    *)
(* says of it (src/src/signal_growth/contracts.py).  Agents and people     *)
(* append records with append-record, which looks at nothing but the file  *)
(* it writes; content-brief.json and run-state.json alone are rewritten.   *)
(* A reader then judges every record by all the files at once.             *)
(*                                                                         *)
(* A record has its id and, per kind, the ids it refers to.  What else it  *)
(* has depends on the kind: strength and approved_by of evidence, status   *)
(* and restricted of signals, status and approved_by of decisions and      *)
(* actions, external_write of actions, status and scope of approvals.  The *)
(* formats of fields, the schemas and the excerpts behind evidence are     *)
(* left out, and chains are those of AppendLedger.                         *)
(***************************************************************************)
EXTENDS Integers, Sequences

CONSTANTS
    Records,    \* [Kind -> the records anybody may write]
    None

Kind == {"evidence", "signal", "metric", "decision", "action", "outcome", "run_state",
         "approval", "claim", "visibility_observation", "content_brief", "release_note"}

(* The kinds that are no ledgers: a file is one record and is rewritten.   *)
Rewritten == {"content_brief", "run_state"}

(* No kind of record refers to those.                                      *)
ASSUME RecordsAssumption ==
    /\ DOMAIN Records = Kind
    /\ \A k \in Kind : \A r \in Records[k] : \A target \in Rewritten : r.refs[target] = {}

VARIABLE ledgers    \* [Kind -> the records of its file, oldest first]

-----------------------------------------------------------------------------
(* What the records of a directory d say together.                         *)

RecordsOf(d, k) == {d[k][i] : i \in DOMAIN d[k]}

Ids(d, k) == {r.id : r \in RecordsOf(d, k)}

(* Mutant: one line that awaits review holds back every line of that id,   *)
(* as the router counts.                                                   *)
ReviewedInEveryLine(d) ==
    {i \in Ids(d, "evidence") :
        \A e \in RecordsOf(d, "evidence") :
            e.id = i => e.strength # "awaiting_human_tag" /\ e.approved_by # None}

(* approved_evidence_ids: some line of the evidence is approved.           *)
Reviewed(d) ==
    {e.id : e \in {x \in RecordsOf(d, "evidence") :
                     x.strength # "awaiting_human_tag" /\ x.approved_by # None}}

(* publishable_signal_ids.                                                 *)
Publishable(d) ==
    {s.id : s \in {x \in RecordsOf(d, "signal") : x.status = "approved" /\ ~x.restricted}}

(* The ids of kind target that a record of kind k may refer to.            *)
Citable(d, k, target) ==
    CASE target = "evidence" -> Reviewed(d)
      [] target = "signal" /\ k = "content_brief" -> Publishable(d)
      [] OTHER -> Ids(d, target)

(* approvals_by_id, actions_by_id: of an id the last line, if there is one.*)
InForce(d, k, id) ==
    LET lines == {i \in DOMAIN d[k] : d[k][i].id = id}
    IN  {d[k][i] : i \in {i \in lines : \A j \in lines : j <= i}}

NeedsApproval(k, r) ==
    \/ k = "decision" /\ r.status = "approved"
    \/ k = "action" /\ r.external_write /\ r.status \in {"approved", "executed"}

Covered(d, r) ==
    \E approval \in InForce(d, "approval", r.approved_by) :
        r.id \in approval.scope /\ approval.status = "approved"

(* validate_record, where it looks at more than one field.                 *)
NamesItsReviewer(k, r) ==
    k = "evidence" /\ r.strength # "awaiting_human_tag" => r.approved_by # None

(* A release note is published by an action that asks for approval.        *)
PublishedByWrite(d, k, r) ==
    k = "release_note" =>
        \A a \in r.refs["action"] :
            \A action \in InForce(d, "action", a) : action.external_write

(* Nothing is reported for record r of kind k.                             *)
Sound(d, k, r) ==
    /\ \A target \in Kind : r.refs[target] \subseteq Citable(d, k, target)
    /\ NamesItsReviewer(k, r)
    /\ NeedsApproval(k, r) => Covered(d, r)
    /\ PublishedByWrite(d, k, r)

(* The file of kind k exists and nothing is reported for it.               *)
FileValid(d, k) ==
    /\ d[k] # <<>>
    /\ \A r \in RecordsOf(d, k) : Sound(d, k, r)

(* validate_artifact_directory finds no issue.                             *)
DirectoryValid(d) == \A k \in Kind : d[k] # <<>> => FileValid(d, k)

-----------------------------------------------------------------------------
(* Mutant: metrics end up in the file of another kind.                     *)
WriteMisfiled(k, r) ==
    ledgers' = [ledgers EXCEPT ![IF k = "metric" THEN "visibility_observation" ELSE k] =
                   IF k \in Rewritten THEN <<r>> ELSE Append(@, r)]

(* append-record, and the rewriting of the two files that are no ledgers.  *)
Write(k, r) ==
    ledgers' = [ledgers EXCEPT ![k] = IF k \in Rewritten THEN <<r>> ELSE Append(@, r)]

ArtifactsInit == ledgers = [k \in Kind |-> <<>>]

ArtifactsNext == \E k \in Kind : \E r \in Records[k] : Write(k, r)

Artifacts == ArtifactsInit /\ [][ArtifactsNext]_ledgers

-----------------------------------------------------------------------------
LedgersOK ==
    /\ DOMAIN ledgers = Kind
    /\ \A k \in Kind : ledgers[k] \in Seq(Records[k])

(* The step has recorded id of kind k once more.                           *)
RecordedAnew(k, id) ==
    /\ Len(ledgers'[k]) = Len(ledgers[k]) + 1
    /\ ledgers'[k][Len(ledgers'[k])].id = id

(***************************************************************************)
(* What has passed validation goes on passing it, whatever is recorded     *)
(* later in whatever file: only a new line of the approval a record names, *)
(* or of the action a release note publishes with, can make it fail.       *)
(***************************************************************************)
StaysSound == [][
    \A k \in Kind : \A i \in DOMAIN ledgers[k] :
        LET r == ledgers[k][i] IN
        Sound(ledgers, k, r) =>
            \/ Sound(ledgers', k, r)
            \/ NeedsApproval(k, r) /\ RecordedAnew("approval", r.approved_by)
            \/ k = "release_note" /\ \E a \in r.refs["action"] : RecordedAnew("action", a)]_ledgers

=============================================================================
