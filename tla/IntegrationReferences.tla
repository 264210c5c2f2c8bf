------------------------- MODULE IntegrationReferences -------------------------
(***************************************************************************)
(* integration-references.jsonl and the three commands that write it       *)
(* (src/src/signal_growth/integrations.py and append_only.py):             *)
(*   importers  import-hplan-handoff --write, serialised by a lock file of *)
(*              their own, .hplan-handoff.lock;                            *)
(*   appenders  append-record, serialised by a flock on the ledger;        *)
(*   radars     import-pmf-radar --write, which takes no lock and writes   *)
(*              cs-events.jsonl and the ledger as whole files.             *)
(* Any of them can be killed between two steps.                            *)
(***************************************************************************)
EXTENDS HashChain, SequencesExt

CONSTANTS
    Importers, Appenders, Radars,   \* processes
    Source,         \* hplan source_record_ref values
    Fingerprint,    \* fingerprints of the profiles behind them
    Export,         \* sets of events a PMF Radar export may hold
    Settings,       \* [crew, shortWrites, maxCalls]: which processes run in a
                    \* behaviour, whether os.write can store less than it was
                    \* given, and a bound: how many commands are started
    Forcing,        \* values of --force the radars use
    NoOne           \* the holder of a free lock

Handoff(s, f) == [system |-> "hplan", source |-> s, fingerprint |-> f]
Imported(e) == [system |-> "pmf_radar", event |-> e]

ASSUME ReferenceAssumption ==
    /\ \A s \in Source, f \in Fingerprint : Handoff(s, f) \in Content
    /\ \A x \in Export : IsFiniteSet(x) /\ \A e \in x : Imported(e) \in Content
    /\ Settings \subseteq [crew : SUBSET (Importers \union Appenders \union Radars),
                           shortWrites : BOOLEAN, maxCalls : Nat]
    /\ Forcing \subseteq BOOLEAN
    /\ NoOne \notin Importers \union Appenders \union Radars
    /\ Importers \intersect Appenders = {} /\ Importers \intersect Radars = {}
    /\ Appenders \intersect Radars = {}
    /\ {"no file"} \notin Export

VARIABLES
    setting,        \* the member of Settings this behaviour is about
    refs,           \* lines of the ledger
    exists,         \* whether the file of the ledger is there
    events,         \* events in cs-events.jsonl, NoFile when there is none
    handoffLock,    \* holder of .hplan-handoff.lock
    ledgerLock,     \* holder of the flock on the ledger
    pc,             \* per process: where it is
    job,            \* per process: what it is writing, and where
    appended,       \* history: contents append-record was called with
    reports,        \* what the imports have reported: [source, fingerprint, as]
    calls

vars == <<setting, refs, exists, events, handoffLock, ledgerLock, pc, job,
          appended, reports, calls>>

Process == Importers \union Appenders \union Radars
NoFile == {"no file"}
NoJob == << >>

Garbled == [parses |-> FALSE]
Stored(r) == [parses |-> TRUE, entry |-> r]

-----------------------------------------------------------------------------
(* Bytes written at the end as it was when the file had at lines: whatever *)
(* others have stored behind it since is overwritten, to the end of one of *)
(* their lines or to the middle of it.  Beyond a truncated end there is a  *)
(* hole, which belongs to the first line written.                          *)
WrittenAt(at, lines) ==
    IF at = Len(refs) THEN {refs \o lines}
    ELSE IF at > Len(refs) THEN {refs \o <<Garbled>> \o Tail(lines)}
    ELSE LET behind(k) == SubSeq(refs, k, Len(refs))
             new == SubSeq(refs, 1, at) \o lines
         IN  {new \o behind(k) : k \in at + 2 .. Len(refs) + 1} \union
             {new \o <<Garbled>> \o behind(k) : k \in at + 2 .. Len(refs) + 1}

HashAt(f, n) == IF n = 0 THEN NoHash ELSE f[n].entry.hash

(* verify_append_chain finds no issue, and every line parses.              *)
Valid(f) ==
    \A i \in DOMAIN f :
        /\ f[i].parses
        /\ i > 1 => f[i - 1].parses
        /\ f[i].entry.prev = HashAt(f, i - 1)
        /\ f[i].entry.hash = RecordHash(f[i].entry.content, f[i].entry.prev)

References(f) == {f[i].entry.content : i \in {j \in DOMAIN f : f[j].parses}}

Recorded(f, s) ==
    {fp \in Fingerprint : Handoff(s, fp) \in References(f)}

Goto(p, label) == pc' = [pc EXCEPT ![p] = label]
Hold(p, what) == job' = [job EXCEPT ![p] = what]

Start(p) ==
    /\ p \in setting.crew
    /\ pc[p] = "idle"
    /\ calls < setting.maxCalls
    /\ calls' = calls + 1

(* Mutant: what the process was writing is not forgotten.                  *)
EndKeepingJob(p) ==
    /\ Goto(p, "idle")
    /\ UNCHANGED job
    /\ handoffLock' = IF handoffLock = p THEN NoOne ELSE handoffLock
    /\ ledgerLock' = IF ledgerLock = p THEN NoOne ELSE ledgerLock

(* The process is over: the kernel drops its locks.                        *)
End(p) ==
    /\ Goto(p, "idle")
    /\ Hold(p, NoJob)
    /\ handoffLock' = IF handoffLock = p THEN NoOne ELSE handoffLock
    /\ ledgerLock' = IF ledgerLock = p THEN NoOne ELSE ledgerLock

Crash(p) ==
    /\ pc[p] # "idle"
    /\ End(p)
    /\ UNCHANGED <<setting, appended, refs, exists, events, reports, calls>>

-----------------------------------------------------------------------------
(* import-hplan-handoff --write                                            *)

StartImport(p) ==
    /\ Start(p)
    /\ \E s \in Source, f \in Fingerprint :
         Hold(p, [source |-> s, fingerprint |-> f])
    /\ Goto(p, "waiting")
    /\ UNCHANGED <<setting, appended, refs, exists, events, handoffLock, ledgerLock, reports>>

(* Mutant: every import goes ahead without .hplan-handoff.lock.            *)
ImportUnlocked(p) ==
    /\ pc[p] = "waiting"
    /\ handoffLock' = p
    /\ exists' = TRUE
    /\ Goto(p, "locked")
    /\ UNCHANGED <<setting, appended, refs, events, ledgerLock, job, reports, calls>>

(* The lock is granted, and the ledger is opened with O_CREAT.             *)
LockHandoff(p) ==
    /\ pc[p] = "waiting"
    /\ handoffLock = NoOne
    /\ handoffLock' = p
    /\ exists' = TRUE
    /\ Goto(p, "locked")
    /\ UNCHANGED <<setting, appended, refs, events, ledgerLock, job, reports, calls>>

Report(p, as) ==
    reports' = reports \union {[source |-> job[p].source,
                                fingerprint |-> job[p].fingerprint, as |-> as]}

(* Mutant: the fingerprint is not compared.                                *)
SourceIsEnough(p, recorded) == recorded # {}

(* _matching_hplan_references: a replay, and of the same profile.          *)
IsReplay(p, recorded) == recorded = {job[p].fingerprint}

(* Mutant: the error leaves the lock behind, in a process that stays.      *)
RefuseHoldingLock(p) ==
    LET recorded == Recorded(refs, job[p].source)
    IN  /\ pc[p] = "locked"
        /\ Valid(refs) => recorded # {} /\ ~IsReplay(p, recorded)
        /\ Report(p, "refused")
        /\ Goto(p, "idle")
        /\ Hold(p, NoJob)
        /\ UNCHANGED <<setting, appended, refs, exists, events, handoffLock, ledgerLock, calls>>

(* The ledger is invalid, or holds the source with another fingerprint.    *)
RefuseImport(p) ==
    LET recorded == Recorded(refs, job[p].source)
    IN  /\ pc[p] = "locked"
        /\ Valid(refs) => recorded # {} /\ ~IsReplay(p, recorded)
        /\ Report(p, "refused")
        /\ End(p)
        /\ UNCHANGED <<setting, appended, refs, exists, events, calls>>

ReportDuplicate(p) ==
    /\ pc[p] = "locked"
    /\ Valid(refs)
    /\ IsReplay(p, Recorded(refs, job[p].source))
    /\ Report(p, "duplicate")
    /\ End(p)
    /\ UNCHANGED <<setting, appended, refs, exists, events, calls>>

(* Nothing recorded of this source: link a reference to the last one read. *)
LinkReference(p) ==
    /\ pc[p] = "locked"
    /\ Valid(refs)
    /\ Recorded(refs, job[p].source) = {}
    /\ LET content == Handoff(job[p].source, job[p].fingerprint)
       IN  Hold(p, [source |-> job[p].source, fingerprint |-> job[p].fingerprint,
                    entry |-> Linked(content, HashAt(refs, Len(refs)))])
    /\ Goto(p, "linked")
    /\ UNCHANGED <<setting, appended, refs, exists, events, handoffLock, ledgerLock, reports, calls>>

(* Mutant: the text is written from the start of the file.                 *)
SeekStart(p) ==
    /\ pc[p] = "linked"
    /\ Hold(p, [source |-> job[p].source, fingerprint |-> job[p].fingerprint,
                entry |-> job[p].entry, at |-> 0])
    /\ Goto(p, "sought")
    /\ UNCHANGED <<setting, appended, refs, exists, events, handoffLock, ledgerLock, reports, calls>>

(* lseek(SEEK_END) on a descriptor that was not opened for appending.      *)
SeekEnd(p) ==
    /\ pc[p] = "linked"
    /\ Hold(p, [source |-> job[p].source, fingerprint |-> job[p].fingerprint,
                entry |-> job[p].entry, at |-> Len(refs)])
    /\ Goto(p, "sought")
    /\ UNCHANGED <<setting, appended, refs, exists, events, handoffLock, ledgerLock, reports, calls>>

(* os.write, whose result is not looked at: a short write tears the line.  *)
WriteReference(p) ==
    /\ pc[p] = "sought"
    /\ \E line \in {Stored(job[p].entry)} \union IF setting.shortWrites THEN {Garbled} ELSE {} :
         refs' \in WrittenAt(job[p].at, <<line>>)
    /\ Goto(p, "written")
    /\ UNCHANGED <<setting, appended, exists, events, handoffLock, ledgerLock, job, reports, calls>>

(* fsync, which may raise, the report, and the finally clause.             *)
SyncReference(p) ==
    /\ pc[p] = "written"
    /\ \E as \in {"written", "refused"} : Report(p, as)
    /\ End(p)
    /\ UNCHANGED <<setting, appended, refs, exists, events, calls>>

Import(p) ==
    \/ RefuseImport(p) \/ ReportDuplicate(p) \/ LinkReference(p)
    \/ SeekEnd(p) \/ WriteReference(p) \/ SyncReference(p)

-----------------------------------------------------------------------------
(* append-record on the ledger: AppendLedger, in the two steps that can    *)
(* fall around the steps of processes that do not take its lock.  What it  *)
(* is given may be any reference.                                          *)

StartAppend(p) ==
    /\ Start(p)
    /\ ledgerLock = NoOne
    /\ refs # << >> => refs[Len(refs)].parses
    /\ ledgerLock' = p
    /\ exists' = TRUE
    /\ \E content \in Content :
         /\ Hold(p, [entry |-> Linked(content, HashAt(refs, Len(refs)))])
         /\ appended' = appended \union {content}
    /\ Goto(p, "linked")
    /\ UNCHANGED <<setting, refs, events, handoffLock, reports>>

FinishAppend(p) ==
    /\ pc[p] = "linked"
    /\ refs' = Append(refs, Stored(job[p].entry))
    /\ End(p)
    /\ UNCHANGED <<setting, appended, exists, events, reports, calls>>

-----------------------------------------------------------------------------
(* import-pmf-radar --write: for each output file, exists(), then          *)
(* write_text, which truncates the file and writes the text from its start.*)

(* Mutant: the ledger is written before cs-events.jsonl.                   *)
LedgerFirst == <<"refs", "events">>

OutputFiles == <<"events", "refs">>

StartRadar(p) ==
    /\ Start(p)
    /\ \E x \in Export, force \in Forcing :
         Hold(p, [export |-> x, force |-> force, file |-> 1])
    /\ Goto(p, "check")
    /\ UNCHANGED <<setting, appended, refs, exists, events, handoffLock, ledgerLock, reports>>

Present(file) == IF file = "events" THEN events # NoFile ELSE exists

(* The import stops here, whatever it has written before.                  *)
StopRadar(p) ==
    /\ pc[p] = "check"
    /\ ~job[p].force /\ Present(OutputFiles[job[p].file])
    /\ End(p)
    /\ UNCHANGED <<setting, appended, refs, exists, events, reports, calls>>

CheckFile(p) ==
    /\ pc[p] = "check"
    /\ job[p].force \/ ~Present(OutputFiles[job[p].file])
    /\ Goto(p, "truncate")
    /\ UNCHANGED <<setting, appended, refs, exists, events, handoffLock, ledgerLock, job, reports, calls>>

TruncateFile(p) ==
    /\ pc[p] = "truncate"
    /\ IF OutputFiles[job[p].file] = "events"
         THEN events' = {} /\ UNCHANGED <<refs, exists>>
         ELSE refs' = << >> /\ exists' = TRUE /\ UNCHANGED events
    /\ Goto(p, "text")
    /\ UNCHANGED <<setting, appended, handoffLock, ledgerLock, job, reports, calls>>

ImportedLines(x) ==
    LET chain == ChainRecords(LET order == SetToSeq(x)
                              IN  [i \in DOMAIN order |-> Imported(order[i])])
    IN  [i \in DOMAIN chain |-> Stored(chain[i])]

WriteFile(p) ==
    /\ pc[p] = "text"
    /\ IF OutputFiles[job[p].file] = "events"
         THEN events' = job[p].export /\ UNCHANGED refs
         ELSE refs' \in WrittenAt(0, ImportedLines(job[p].export)) /\ UNCHANGED events
    /\ IF job[p].file = Len(OutputFiles)
         THEN End(p)
         ELSE /\ Goto(p, "check")
              /\ Hold(p, [job[p] EXCEPT !.file = @ + 1])
              /\ UNCHANGED <<handoffLock, ledgerLock>>
    /\ UNCHANGED <<setting, appended, exists, reports, calls>>

Materialize(p) ==
    StopRadar(p) \/ CheckFile(p) \/ TruncateFile(p) \/ WriteFile(p)

-----------------------------------------------------------------------------
Init ==
    /\ setting \in Settings
    /\ refs = << >> /\ exists = FALSE /\ events = NoFile
    /\ handoffLock = NoOne /\ ledgerLock = NoOne
    /\ pc = [p \in Process |-> "idle"]
    /\ job = [p \in Process |-> NoJob]
    /\ appended = {} /\ reports = {}
    /\ calls = 0

Next ==
    \/ \E p \in Importers : StartImport(p) \/ LockHandoff(p) \/ Import(p)
    \/ \E p \in Appenders : StartAppend(p) \/ FinishAppend(p)
    \/ \E p \in Radars : StartRadar(p) \/ Materialize(p)
    \/ \E p \in Process : Crash(p)

Spec == Init /\ [][Next]_vars

(* Processes that run go on; flock queues those that wait.                 *)
Fairness ==
    \A p \in Importers : WF_vars(Import(p)) /\ SF_vars(LockHandoff(p))

FairSpec == Spec /\ Fairness

-----------------------------------------------------------------------------
Lines == [parses : {FALSE}] \union [parses : {TRUE}, entry : Record]

TypeOK ==
    /\ setting \in Settings
    /\ refs \in Seq(Lines) /\ exists \in BOOLEAN
    /\ refs # << >> => exists
    /\ events = NoFile \/ \E x \in Export : events \subseteq x
    /\ handoffLock \in Importers \union {NoOne}
    /\ ledgerLock \in Appenders \union {NoOne}
    /\ \A p \in Process : pc[p] = "idle" <=> job[p] = NoJob
    /\ appended \subseteq Content
    /\ reports \subseteq [source : Source, fingerprint : Fingerprint,
                          as : {"written", "duplicate", "refused"}]
    /\ calls \in 0 .. setting.maxCalls

Accepted == {r \in reports : r.as # "refused"}

(* Nobody else writes the ledger, and the disk is not full.                *)
ImportersAlone == setting.crew \subseteq Importers /\ ~setting.shortWrites

(***************************************************************************)
(* One handoff is recorded once, however often and however concurrently it *)
(* is imported (_append_hplan_reference_atomically re-checks under its     *)
(* lock), after crashes and failed fsyncs too.                             *)
(***************************************************************************)
OneReferencePerSource == ImportersAlone =>
    \A i, j \in DOMAIN refs :
        /\ i # j /\ refs[i].parses /\ refs[j].parses
        => refs[i].entry.content.source # refs[j].entry.content.source

(***************************************************************************)
(* Conflicts fail closed: no two imports are ever told that two different  *)
(* profiles behind one source are the recorded one.                        *)
(***************************************************************************)
ConflictsFailClosed == ImportersAlone =>
    \A r, q \in Accepted : r.source = q.source => r.fingerprint = q.fingerprint

(***************************************************************************)
(* A handoff reported as written or as a duplicate is in the ledger, then  *)
(* and for ever after.                                                     *)
(***************************************************************************)
AcceptedIsRecorded == ImportersAlone =>
    \A r \in Accepted : Handoff(r.source, r.fingerprint) \in References(refs)

(***************************************************************************)
(* The ledger a reader verifies is one unbroken chain.                     *)
(***************************************************************************)
OneChain == Valid(refs)

(***************************************************************************)
(* An import that asked for the lock ends, with a report or an error.      *)
(***************************************************************************)
ImportsReturn == \A p \in Importers : pc[p] = "waiting" ~> pc[p] = "idle"

(***************************************************************************)
(* A PMF Radar reference that nobody has handed to append-record never     *)
(* names an event that cs-events.jsonl does not hold, whenever the import  *)
(* is killed (import_pmf_radar, without --force).                          *)
(***************************************************************************)
ReferencesHaveEvents ==
    \A c \in References(refs) \ appended :
        c.system = "pmf_radar" => c.event \in events

=============================================================================
