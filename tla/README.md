# Verification of signal-to-growth

TLA+ models of the parts of this repository that keep state which several
processes, requests, transactions or people write: the append-only ledgers, the
bridges that share a ledger and the exports read from it, the channel adapters
with their backfill, the hosted Kakao endpoint and its health check, the
delivery projection, the approval of reply drafts in the database, and the
router that directs the work on an artifact directory. TLC checks them on small instances;
TLAPS proves the properties that matter most for every value of the constants.

    tlc -config AppendLedger_writers.cfg MCAppendLedger.tla    # a run
    tlapm LedgerProofs.tla                                     # its proofs

`PROJECT.json` lists every run, which lines of the source each definition
stands for, the hazards of the code with the properties that watch them, and
for every property a mutant of the code that breaks it. Paths below are
relative to the repository; `sg/` stands for `src/signal_growth/`.

## 1. The system

Signal-to-growth is a set of agent skills over a directory of artifacts. Agents
and people append records to JSON Lines ledgers with the command line
`sg/cli.py`; a validator reads the whole directory; a router names the next
skill. Beside it runs a hosted endpoint that takes messages from a Kakao
chatbot into a database, in which people approve drafts of replies.

| part | state it keeps | operations | who else touches that state |
|---|---|---|---|
| append-only ledgers, `sg/append_only.py` | the lines of one `*.jsonl`, a hash chain, a `flock` | `append_record`, `verify_append_chain`, `chain_records` | any number of processes |
| integration bridges, `sg/integrations.py` | `integration-references.jsonl`, `cs-events.jsonl`, `.hplan-handoff.lock` | `import_hplan_handoff`, `import_pmf_radar`; exports `build_hplan_reconsideration`, `build_hplan_intake` | `append-record` on the same ledgers |
| artifact contracts, `sg/contracts.py` | none: reads the directory | `validate_record`, `validate_artifact_directory` | reads while others append |
| router, `sg/workflow.py` | none: reads the directory and `run-state.json` | `_route`, `completed_skills` | its advice decides what is appended next |
| Kakao endpoint, `sg/kakao_skill_server.py`, `sg/supabase_sink.py` | tables of events and dead letters, requests under way | `__call__`, `_handle_contract_failure`, `_dead_letter`, both sinks | Kakao posts again, PostgREST commits late |
| hosted application, `sg/hosted_app.py`, `sg/kakao_runtime.py` | one probe per process, its cached verdict and expiry | `_health_response`, `SupabaseHealthProbe.__call__` | threads of one server, without a lock |
| delivery projection, `sg/connector_state.py` | per attempt: status, time, applied and ignored events | `DeliveryStateProjector.project` | callbacks and polls, in any order |
| channel adapters and policy, `sg/adapters/*.py`, `sg/policy.py`, `sg/connector_state.py` | the policy an adapter was built with, a backfill cursor | `ingest`, `verify_event`, `normalize_event`, `backfill`, `record_backfill` | providers repeat, edit and lose messages; the policy file is edited; the host process dies |
| connector directory, `sg/connector_validation.py` | none: reads `connection.json`, `connector-state.json`, `cs-events.jsonl` | `dedupe_events`, redaction, `validate_connector_directory` | its verdict is the router's connector state |
| reply drafts, `supabase/migrations/*` | rows of `reply_drafts` | `approve_reply_draft`, `mark_customer_responded` | concurrent transactions |
| Merkle roots, `sg/merkle.py` | none | roots and consistency proofs | nothing calls it |
| guard, scripts, repository validation | none that outlives a call | pattern matches, rendering, fetching | - |

How they interact: `append-record`, `import-hplan-handoff` and
`import-pmf-radar` meet in one file, under two different locks and none. The
validator and the router meet over the same ledgers, which each reads with its
own idea of which line of an id counts. The endpoint and the database meet
through HTTP with timeouts, so each can be wrong about what the other did.
Webhooks and backfilled pages of one conversation meet in `cs-events.jsonl`,
where only the event id tells that they are the same message. Exports read the
ledgers a second time after the validator has read them. The statuses that
adapters report meet in the projector.

What is hard in it: processes that interleave between read and write; a death
in the middle of a line; `flush` that fails under a lock and writes later
without it; an insert that commits after its client has given up; a message
that is posted again because the answer was late; events that arrive out of
order; a row that changes between the `SELECT` that checks it and the `UPDATE`
that relies on the check; files that are validated and then read again one after
another while others append; a cursor that is saved before or after what it
stands for; a verdict and its expiry that two threads write at once; a ledger
whose later line changes what an earlier line is worth. Section 7 lists what was met on the way.

What makes each part correct is stated as properties in its module; section 3
says in words what each run checks.

## 2. Modules

| module | models | composes / refines |
|---|---|---|
| `HashChain` | records, hashes, `compute_record_hash`, `chain_records` | |
| `ChainVerifier` | the loop of `verify_append_chain` over anything a reader may find | extends `HashChain` |
| `MerkleTree` | roots, consistency proofs and their verification, as operators | |
| `ReturningReader` | a reader who remembers a size and a root, checks a proof and then rereads | extends `ChainVerifier`, `MerkleTree` |
| `AtomicLog` | what callers may take a ledger for: one atomic append per record | |
| `AppendLedger` | `append_record` step by step, many processes, one file | extends `HashChain`, implements `AtomicLog` |
| `IntegrationReferences` | the three commands that write `integration-references.jsonl` | extends `HashChain` |
| `HplanExports` | the two exports to hplan, read by read, while others append | extends `ArtifactContracts` |
| `KakaoIngest` | handlers, both tables, late commits, lost answers, redelivery | |
| `HealthProbe` | threads that share a probe of the storage and its cached verdict | |
| `HostedEndpoint` | the WSGI application that serves both | composes `KakaoIngest`, `HealthProbe` |
| `ChannelAdapters` | capabilities, verification, normalisation, event ids, policy, as operators | |
| `ConnectorDirectory` | what `validate_connector_directory` reports, as operators | extends `ChannelAdapters` |
| `ChannelIntake` | a connector that takes in a conversation by webhook and backfill | extends `ConnectorDirectory` |
| `DeliveryProjector` | `project`, with the table of transitions | |
| `DraftRegister` | approvals and answers as single steps | |
| `ReplyDrafts` | the SQL functions under read committed | implements `DraftRegister` |
| `ArtifactContracts` | what the validator says of the records of a directory | |
| `GrowthRouter` | `_route`, completion gates, and the work between two answers | extends `ArtifactContracts` |

`MC*` modules give constants values for TLC; `*Proofs` modules hold theorems.

### Correspondence with the code

**Hashes.** SHA-256 is taken to be free of collisions, so a hash is represented
by what it commits to: the contents of a record and of all before it. `None` is
the empty sequence, the hash of no record.

**History variables** are written by the models and read by properties only:
`appended` (`IntegrationReferences`, the references `append-record` was called
with), `given` (`DeliveryProjector`, the events `project` was called with),
`held` (`ChannelIntake`, the documents the policy file has held), `lastUp`
(`HealthProbe`), `validated` and `asOf` (`HplanExports`).

**`AppendLedger`** splits `append_record` at every point where another process
or a crash can come between: `Call` (open), `Lock` (`flock`), `Link` or `Refuse`
(read all, check the tail, hash, choose the prefix), `Write` (one piece of the
text reaches the file: the missing newline of a predecessor, the opening part of
the object, its closing part, the newline), `Return`. `FlushFails` releases the
lock with text still buffered, `CloseWrites` and `CloseFails` are the second
flush by `close()`, `Crash` drops the buffer and the lock. A line is blank,
part, full or garbled; the payload is a model value. The file is in append
mode, so pieces land at its end.

**`ChainVerifier`** has the loop's variables; each iteration is `SkipUnchained`
or `CheckRecord`. `Presented` is what a reader may find in the place of the
ledger; a `Forgery` is a record without new hashes, and `AcceptedIsPrefix` is
about sequences of those, since anybody can compute new ones.

**`MerkleTree`** keeps the code's recursion over split points as recursive
functions and its bit operations as divisions by powers of two; a hash is the
term it was computed from, so leaves and nodes differ as the two prefixes make
them. `ProofVerifies` is "`verify_consistency_proof` does not raise".
**`ReturningReader`** puts it beside the loop: the reader remembers `size1` and
`root1`, gets a proof computed from the artifact as it was or as it is
(`Prove`, `RefuseToProve`), checks it against the root of the artifact as it is
(`Check`), and then reads the records (`Reread`, the loop). Nothing in the
repository composes the two; the docstring of `sg/merkle.py` describes this use.

**`IntegrationReferences`** has importers (lock file, re-check, link, seek to
the end, write, fsync, unlink on failure), appenders (`append_record` in two
steps, its inside being `AppendLedger`'s), and a PMF Radar import (`exists`,
truncate, write, per file). A write after a seek is where two locks that
exclude only their own kind show: what others stored meanwhile is overwritten.
An appender may be called with any reference, a radar reference whose event is
nowhere included; `ReferencesHaveEvents` is about the references it was not
called with.

**`HplanExports`** follows a call of either export through its reads. `Begin`,
`ReadReferences` (reconsideration only), `ValidateFile` once per file in the
order of `ARTIFACT_FILES`, `Judge` (raise on any issue), and then one action
per ledger read again: `SelectOutcome`, `SelectAction`, `SelectItsDecision`,
`SelectItsMetric`, or `SelectDecision`, `SelectEvidence`, `SelectMetrics`,
`SelectActions`. Between any two of them `Record` and `ImportHandoff` are what
other commands append, and `MeetHalfALine` is a read in the middle of such a
write. `Lines` and `Selected` are `_select_unique_record`. `validated` is what
validation read of each file, and `asOf` the directory at the moment it read the
approvals.

**`KakaoIngest`** has one `pc` per request. `Post` is Kakao, `RefuseRequest` the
401 and 400 answers, `Persist` and `DeadLetter` send an insert, `Commit`,
`Reject` and `GiveUp` are its outcomes, the last leaving the insert in
`writes`, from which `CommitLate` may execute it or lose it. `Answer` and
`LoseAnswer` end a request. A row holds the message whose insert came first
(`resolution=ignore-duplicates`).

**`HealthProbe`** splits `_health_response` and `SupabaseHealthProbe.__call__`
at each read and write of what threads share: `Ask` and `Build` the probe held
in a global, `Enter` (take the time), `Look`, `Serve` from the cache, `Probe`,
`WriteVerdict`, `WriteExpiry`, `Reply`. `Tick` lets time pass, at most `Longest`
within one call, which is the timeout of the probe's request and what goes with
it. An "invalid" configuration is one that looks ready and that
`build_supabase_health_probe` refuses (`BuildRaises`); it is answered 503 and
leaves no probe behind. **`HostedEndpoint`** puts the probe beside
the ingest path. They share nothing but the environment, so their steps commute,
and a behaviour has requests of one kind (`polled`).

**`ChannelAdapters`** has the three adapters as functions. `Verify` gives the set
of what a request may be taken for, which is empty where the code raises;
`EventId` is what each id commits to: message and version for Channel Talk, the
provider's id or else the payload for Naver, request and bot for Kakao.
A text is a record of what redaction makes of it: in how many passes (more than
one for an address of over 120 characters, at which the code's pattern ends, or
an account number of over 20 digits), how many kinds of "other" private data are
noted, and whether it ends up too long. `Fingerprint` is what `dedupe_events`
compares. **`ConnectorDirectory`** has the checks of the three files, with those
conditions of the event schema that an adapter's event can fail.
**`ChannelIntake`** is the machine around them. `Ingest` is a webhook that is
verified and normalised, `Backfill` a page fetched from the cursor, and what
raises is no step. `RecordWebhook`, `RecordFromPage` put events through
`dedupe_events` one by one, `RecordBackfill` moves the cursor on, `SaveState`
writes `connector-state.json`, `Start`, `Crash` and `ReloadPolicy` are the life
of the process. The repository has no such process, only the parts; the order
is that of `recovery-patterns.md`, and `PROJECT.json` marks it external. The
provider (`Send`, `EditMessage`) and the editor of the policy file are external
too.

**`DeliveryProjector`** has one action for every way `project` can go: an id
seen before, a first event, an ignored one, one that advances. Its lists hold
events where the code's hold ids. `last` is the event of the latest call and the
reason it was answered with.

**`ReplyDrafts`** models a call as a transaction: `Begin` fixes `now()`,
`CheckRisk` is the `SELECT` and its gate, `Update` takes the row lock and tests
its condition on the committed row, `Commit` shows the row, `Abort` is a broken
connection. `Row` has the columns the functions read or write, with every value
of `status` the migration declares.

**`ArtifactContracts`** keeps per kind the sequence of records of its file. A
record has an id, the ids it refers to, and the fields that cross-file rules
look at. `Sound` is "nothing is reported for this record", `Write` is
`append-record` (and the rewriting of the `Rewritten` files, `content-brief.json`
and `run-state.json`).
**`GrowthRouter`** translates `_route` and its helpers into `Advice`. Between
two answers an agent writes an output of the skill it was told to carry out
(`WriteOutput`, `ConnectChannel`), a person grants an approval (`Approve`),
anybody records anything (`RecordAnything`), the connector breaks, the run
reaches its outcome review (`EnterOutcomeReview` rewrites the run state).
`OutcomeReview` is due when the latest outcome is not mature or concludes
change, stop or hold. Outputs that the router treats alike, the notes of one
skill for example, have one name.

## 3. Runs

| run | question | bounds |
|---|---|---|
| `ledger_writers` | Do concurrent appends, crashes and unterminated lines leave one chain, torn text only at the end, history unchanged, every returned line number right, and behave as an atomic log? Does every call return, also with writes that fail? | 3 processes, 2 payloads, 3 starting files; 5 calls, or 2 on a disk where writes fail |
| `ledger_linebreak` (violation) | Can every accepted record be read back? | 1 process, 2 calls |
| `returning_reader` | Is what the verifier accepts a prefix of what was written, is nothing reported that nobody touched; does a consistency proof that verifies mean the remembered records are there, and does one of a ledger that only grew verify? | a ledger of 7, remembered at 0 to 7; in its place all sequences of 2 records with known hashes, all single edits, cuts, repetitions and swaps, all fresh chains up to 9 records |
| `refs_handoffs` | Is every source recorded once, do conflicts fail closed, is what was reported recorded, does a reference that nobody appended by hand never name an event that was not materialised, do imports end? | 2 importers and 4 commands, or one process of each kind, 3 commands and short writes; 2 sources, 2 profiles |
| `refs_twolocks` (violation) | Is the shared ledger one chain? | one importer, one appender, 2 commands |
| `ingest_redelivery` | Is every acknowledgement honest, are only refused events dead-lettered, is what Kakao keeps posting acknowledged? Is a green health check about a storage that answered just now? | 3 requests at once, a message that may be refused and one that fails verification; 2 polling threads, calls of one tick, a time to live of one, 3 ticks |
| `delivery_orders` | Do all orders and repetitions of events leave a projection that only moves forward, and of the events under one id exactly one? | 8 events of an attempt and its fallback in any order, two of them under one id; any 3 of 26 events that cover every status at two times |
| `drafts_concurrent` | Is what a call returned true for ever, is an approved risky draft owned, was no draft approved that had expired, is every commit one step of the register? | 3 transactions, one draft of four kinds, 4 calls, 2 times |
| `router_advice` | Does the router end, only on work in force, never name finished work, and does what is valid stay valid? | 10 objectives, 1-3 records of each kind, one record nobody asked for |
| `router_review` (violation) | Does a recorded review unblock evidence? | as above |
| `intake_backfill` | Is a version of a message one event, does no cursor pass a message, is nothing stored that every policy so far forbids, is what is stored of an ordinary text valid, does what can be recovered arrive? | 7 connectors of 3 providers, 2 or 3 messages, pages of 2, one crash, one edit of the policy file among 3 documents |
| `export_races` | Was what is issued to hplan justified at one moment, and is a brief complete? | 5 directories, 5 calls, 2 appends anywhere between the reads |

Types are an invariant of a run where nothing proves them cheaper; those of the
verifier, the ingest path, the projector and the drafts are theorems only.

Why the bounds are enough. The ledger's hazards need a writer that is torn, one
that follows it and one that waits: three processes; five calls let a torn file
be refused and a second chain start. In the reference runs two of a kind show
every race of that kind, since a third would wait for the same lock. The tree's
boundary cases are at powers of two and between them, and sizes from 1 to 7
against sizes up to 9 cover a perfect and an imperfect old tree, forks at every
level, and a border of none, one or two nodes. The endpoint's hazards are about
one identity: one insert late, one repeated, one refused, hence three requests.
The verdict a thread serves mixes at most the verdict of one call with the
expiry of another, so two threads show the worst age; three ticks reach the
first age that is too old. The projector's table is a relation on pairs of
statuses, and a stale event needs a third: any three events cover it. Two
transactions race for a row and the third arrives after the first. In the
router's run one stray record is enough to withdraw an approval, repeat a piece
of evidence or add an outcome anywhere in the run; what two of them do together
is not explored. Three messages in pages of two make a page that is full, one
that is not, a cursor in between and a history that ends; each of the seven
connectors has a peculiarity or two (an edit, a long address, no token, dummy
data, a group chat, ids that collide, payloads that are equal). An export is
led astray by a record that is there at its second read and was not at the
first, and an approval that is withdrawn in between: two appends. The proofs of
section 4 are free of these bounds.

`CHECK_DEADLOCK FALSE` stands where behaviours really end: the bounded number of
calls is used up, the reader is through, the router has nothing to name, the
export is issued, the conversation is in and its state saved.

### Fairness

* `AppendLedger`, `IntegrationReferences`: a process that is scheduled goes on
  (weak), and a released `flock` is granted to a waiter some day (strong; the
  kernel queues waiters).
* `KakaoIngest`: a handler runs on (weak). Of the outside: Kakao posts until it
  has its 200, a table that is asked over and over answers in time now and then,
  and so does the way back (strong). The endpoint retries nothing itself, so
  without that assumption no event need ever be stored.
* `HostedEndpoint`: that of the ingest path. Nothing is asked of the health
  check's progress.
* `ChannelIntake`: the host process is started again after it died, goes on
  with what it has begun, and backfills whenever it is not at it, over an
  authenticated transport (weak), as `recovery-patterns.md` has it. No webhook
  need ever arrive, and the cursor need never be saved. `MessagesArrive` is
  about providers with a history and conversations in which every message can
  be normalised.
* `HplanExports`, `DeliveryProjector`, `ReplyDrafts`: none; they have safety
  properties only. A call of `ReplyDrafts` takes one row lock and no second one,
  so calls cannot wait for each other.
* `GrowthRouter`: the agent does what it was told and a person who is asked for
  an approval gives it (weak). `AdviceEnds` therefore says that the *router* is
  no obstacle; it says nothing where people decline.

## 4. What is proved

All proofs are for every value of the constants that satisfies the named
`ASSUME`s, which TLC evaluates in the runs.

* **`LedgerProofs`**, of `append_record`: `TypeCorrect`; and, as long as writes
  do not fail (`~flaky`), `LedgerChained`, `LedgerFailStop`, `LedgerHistory`,
  for any number of processes, contents and starting files, with crashes
  anywhere. The invariant `IInv` adds to the three what makes them inductive:
  only the holder of the lock is past it, its entry is linked to the tail of the
  file as it is, and the text at the end of the file is exactly the part of that
  entry its `pc` says. Without that, a writer's step could not be told from one
  behind another writer's text. With failing flushes the properties are false of
  the code (section 7), so the condition is part of the theorems.
  `LedgerIsAtomic`: under the same condition, and as long as no record holds a
  line break, `append_record` implements `AtomicLog`. It adds the invariant
  `Placement`, that the count a writer will return is the number of the line its
  text goes to; so the step that completes the line is the one that adds the
  record to the log, at the place that is acknowledged, and no other step
  changes the log. That the condition on line breaks is needed is what
  `ledger_linebreak` shows.
* **`LedgerProofs`**, of the verifier: `VerifierTypeCorrect` and
  `VerifierAccepted`: for a ledger of any length and anything put in its place
  with known hashes, an accepted sequence is a prefix. The invariant says that,
  while nothing has been reported, the previous hash commits to exactly as many
  records as were read. `VerifierReportedIsTampered`: no false alarms, because
  the previous hash is that of the line before and the ledger's own hashes
  link. A reader with a Merkle checkpoint takes the steps of `ChainVerifier` and
  no others (`ReaderRunsVerifier`), so both hold for it too
  (`ReaderAcceptsPrefix`, `ReaderReportsTampered`), and it forgets nothing
  (`ReaderMemory`).
* **`LedgerProofs`**, of the Merkle proofs, for lists and trees of any size.
  `ProofSound`: whatever nodes `verify_consistency_proof` is handed, if it
  returns for the roots of two lists, the first is the beginning of the second.
  The argument follows the path of the last old entry, `size1 - 1`, up both
  trees. Rebuilding `root1` and rebuilding `root2` are climbs along it
  (`FirstClimb`, `SecondClimb`) that use the same node wherever the path comes
  from the right; a climb that ends in the root was on the path all along
  (`Descent`); so both trees have the same left siblings on the path, and the
  same block at its bottom, and these are all the old entries (`Agreement`,
  `RootInjective`). `ProofComplete`: the proof the code computes for a list that
  only grew is accepted. There the recursion of `_consistency_proof` goes down
  that path (`PathPart`, `ProofStepUp`), so the nodes it appends are the
  siblings at the levels the verifier takes them for (`ProofSent`), and both
  climbs stay on the path (`Ascent`). The rest is arithmetic: `LevelFacts` says
  what fork level, trailing zeros and bit count mean for the path, and
  `RankFacts` that the verifier's length is the number of siblings. From these
  follow `ReaderHonoursCheckpoint` and `ReaderAcceptsGrowth`, that is
  `CheckpointHonoured` and `GrowthAccepted`; `CheckInv` says that an answer is
  what the code computes for one of the artifact's two states, and a verdict
  what the check says of it. `ProofIsShort` bounds a proof by the bits of its
  larger size, which is the docstring's "O(log n) sibling hashes", and with it
  `ReaderTypeCorrect`.
* **`IntegrationReferencesProofs`**: `TypeCorrect` for all three commands. For
  any number of importers, `HandoffsOnce`, `ConflictsAreRefused`,
  `ReportsAreTrue`. Their invariant `Alone` says that whoever is past the lock
  file holds it; that what the holder is about to write is linked to the file as
  it is and about a source that is not in it, and goes where the file ends; and
  that a report is in the file or about to be confirmed. The same invariant has
  the ledger as one chain (`ImportersKeepTheChain`), which is the other half of
  the finding of `refs_twolocks`: what breaks the chain there is that the other
  command does not ask for the importers' lock, and not how importers write.
  `ImportedHaveEvents`, for any number of the other two commands and one PMF
  Radar import at a time without `--force`, follows from the order of its two
  files. `append-record` may be called with any reference, one that names no
  event too; the theorem is about the others, and its invariant says that
  nothing else ever adds a radar reference (`FromOthers`). Both conditions are needed: with `--force`, or with two imports that
  both find no file, one truncates the events that the other's references name.
  `ChainRecordsForm` gives what `chain_records` computes for any contents.
* **`HostedEndpointProofs`**: of the ingest path, types, `AckedIsStored`,
  `DeadLettersWereRefused`, `OnlyVerifiedStored` for any number of requests and
  messages and any sharing of identities. The invariant ties each `pc` to what
  it stands for: on "rejected" the message was refused, on "answer 200" it is
  stored. Of the health check, `HostedGreenIsRecent` for any number of threads,
  any time to live and any length of a call: a verdict is as young as the call
  that found it, and an expiry that outlives its verdict was written by a call
  that overlapped the one that wrote the verdict, so they differ by less than
  the length of a call.
* **`DeliveryProjectorProofs`**: types, `NeverRegresses`,
  `ProjectionIsLastApplied` for any events, resting on one lemma, that every
  transition of the table goes up in a fixed order of statuses. `Rank`, that
  order, puts `unknown` below all others, since the code leads nowhere back to
  it; the properties use `Forward`, which lets a delivery that is under way
  become unknown as the document has it. `DeliveryKeptOnce`, that of the events
  given under one id exactly one is kept, comes from an invariant of the lists of
  every attempt; `DeliveryNothingLost` adds that every event is kept where ids
  are not used twice.
* **`ChannelIntakeProofs`**: `IntakeTypeCorrect`, `IntakeUniqueIds`,
  `IntakeNothingSkipped`, `IntakeOnlyAllowed` for any connectors, conversations,
  policies, page sizes and numbers of crashes and edits. The invariant says of a
  page that is being recorded that every message up to the cursor that came with
  it is in the ledger, dead-lettered, or still on the page; of the ledger that
  nothing in it changes; and of every event, in hand or stored, that some policy
  the file has held by then lets it through. `IntakeOneEventPerVersion` adds that every
  event, in hand, on the page or stored, was made of a version its message had
  by then (`VersionInv`); ids then map the events of a message one to one into
  its versions, which bounds their number. `IntakeStoredIsValid` follows each
  event from `CanonicalEvent` to the checks of `validate_connector_directory`:
  of an ordinary text redaction finds nothing new the second time, what was
  removed is of different kinds, and no event is authentic without assurance.
  `Ordinary` names what is left out, and section 7 what becomes of it.
* **`HplanExportsProofs`**: `ExportJustifiedAtOnce` and `ExportBriefComplete`
  for any directory, records and number of appends. All rests on ledgers that
  only grow: what validation read of a file is the beginning of what it holds
  later, at the moment the approvals were read and when the file is read again,
  and a line that is the only one of its id in the longer file is so in each
  beginning that has it. Approvals are the exception, since a later line
  withdraws an earlier one. That is why the moment is the one at which they are
  read, and why they are read after what they approve.
* **`ReplyDraftsProofs`**: types, `ReturnedIsTrue`, `HighRiskIsOwned`,
  `ApprovedInTime`, and that `ReplyDrafts` implements `DraftRegister`, for any number of transactions, if
  calls name drafts that exist (`~UnknownIds`; without it `HighRiskIsOwned` is
  false, section 7). The invariant says what row locks are for: between a
  transaction's update and its commit its condition holds of the committed row,
  and the row it wrote is still that row updated. `ApprovedInTime` needs in
  addition that whoever's approval a row carries has returned, so that the time
  it began stays.
* **`GrowthRouterProofs`**: `ArtifactsStaySound` for any records in any order
  (the sets that references are looked up in only grow, and the line in force
  of an id changes only when that id is recorded anew); that the router's world
  only ever writes records (`RouterRecords`), hence `RouterStaysSound`;
  `RouterTypeCorrect`; and `RouterNoFinishedWork` and `RouterDoneIsInForce` for
  every directory, which follow from what an answer says about the skills the
  router went through on the way to it.

Assumptions worth naming: no collisions of SHA-256; `RecordsAssumption`, that
nothing refers to a content brief, which the code's reference checks confirm;
`InitialAssumption`, that an artifact starts as `append_record` or the time
before the chain left it; `IntakeAssumption`, that a message has a text, a setup
is one of the three connectors in one of its modes, and `None`, which stands for
no page, is no page; `ProviderAssumption`, that Channel Talk gives every message
an id of its own and Kakao does not use one request id for two bots, which the
code trusts them to do (without the first, events of two messages would share an
id; without the second, a request would be an event of each bot);
`ReferenceAssumption`, that the three kinds of commands are different processes
and exports are finite; `ProbeAssumption`, that no thread and no verdict is
called `Nothing`.

Recursive functions (`chain_records`, the tail of a file, roots, proofs, folds)
are reasoned about by taking the least counterexample, that they are defined at
all included (`RootsExist`, `ProofsExist`, `FoldExists`): the library's `WFMin` on the naturals is
stated for a set and not for an operator, so the provers can use it where the
induction theorems are out of their reach.

Only model-checked: everything under fairness (`CallsReturn`, `ImportsReturn`,
`PostedIsAcked`, `AdviceEnds`, `MessagesArrive`), which is out of the
prover's reach. Every invariant and every safety property of the passing runs
is a theorem.

## 5. What is not modelled

* `hooks/guard_append_only.py` (a pattern match over the text of one tool call),
  `sg/repo_validation.py` (read-only checks of the repository's own files),
  `scripts/`, evaluation helpers, and the search visibility scripts: one-shot,
  without a state that outlives the call, or pure I/O.
* Checks of reply drafts, delivery events and prohibited field names in
  `sg/connector_validation.py`: no component writes such records to a connector
  directory.
* `ConnectorState`'s counters and timestamps: nothing under `src/` reads them.
  `reset_health_probe` is called by tests only.
* Wrong paths and methods of the hosted application, the texts of answers,
  reasons and briefs, formats, JSON schemas but for two conditions on events,
  excerpts behind evidence, argument parsing, logging: data that no property
  tells apart.
* Approval scopes have ids here, not `external_write` or `expires_at`, because
  the code's reference check looks at neither.
* Row-level security, column checks and the relabelling of old rows in
  `supabase/migrations/`: declarations without behaviour.
* Scale beyond the bounds above, and time in `ChannelIntake`: nothing there
  depends on it.

## 6. Plan

Every component that keeps state has its module, and every invariant and every
safety property of every passing run has its theorem. What could still be
strengthened:

1. A theorem of the ledger with writes that fail: two records can then end on
   one line (section 7), and what remains true of the lines before it has not
   been stated.
2. `verify_append_chain` and the Merkle check are proved about one reader and
   one reading; a reader who comes back several times, and moves its checkpoint
   each time, would be the next composition.

Runs are kept few: when a component is added, questions that share a model are
asked in one run.

## 7. Seen in the code

Shown by a run:

* **A record that does not read back** (`ledger_linebreak`): U+2028, U+2029 and
  U+0085 are written as they are, and readers split at them; the next append
  refuses the file. `sg/append_only.py:208`.
* **Two locks on one ledger** (`refs_twolocks`): `import-hplan-handoff` and
  `append-record` link to the same line, or one overwrites the other's.
  `sg/integrations.py:258`.
* **Reviewed evidence stays blocked** (`router_review`): the router counts every
  unreviewed line, the validator any reviewed one. `sg/workflow.py:282`.

Met while modelling; the models contain the behaviour and the properties are
stated so as to leave it out by name:

* After a failed `flush` the lock is released before `close()` writes the rest,
  so two records can end on one line (`sg/append_only.py:209`). The theorems
  are about behaviours in which writes do not fail (`~flaky`).
* Records cut off the end of a ledger are not noticed by `verify_append_chain`
  (`AcceptedIsPrefix` says "prefix"), and neither is one written anew with its
  hashes recomputed; a remembered Merkle root notices both (`CheckpointHonoured`).
* `import-pmf-radar` looks whether a file exists and then truncates it; a ledger
  made in between is replaced without `--force`, and so are the events that the
  references of another import name, if both found no file. When its second file exists
  already, the events it wrote first stay without references
  (`sg/integrations.py:633`).
* An insert that timed out may commit after the retry was dead-lettered, so an
  event can be in both tables; two messages with one `X-Request-Id` share a row,
  and the second is acknowledged though its text is stored nowhere
  (`sg/supabase_sink.py:135`).
* A delivery never becomes unknown. `recovery-patterns.md:66-69` lists `unknown`
  among what follows submitted, accepted, queued and sent, and line 75 asks to
  keep it visible; the table of transitions has it in no set, so the code turns
  such a report down, keeps it as ignored, and the projection goes on showing
  the old status (`sg/connector_state.py:40`). `Forward`, and with it
  `NeverRegresses` and `ProjectionIsLastApplied`, allow what the document says.
* There is no transition from `sent` to `read` either, though
  `recovery-patterns.md:69` lists one: a read receipt before the delivery report
  is kept as ignored (`sg/connector_state.py:70`).
* A delivery event id reused on another attempt is answered as a duplicate or
  raises, and the second event is kept nowhere (`sg/connector_state.py:193`;
  `KeptOnce` counts ids).
* A draft inserted between `SELECT` and `UPDATE` of a call that named it too
  early is approved without the risk check (`20260809090000...sql:37`); expiry
  is measured at the start of the transaction (`:51`), so a call that waited for
  a lock can approve a draft that has expired meanwhile (`ApprovedInTime` says
  "when it began").
* With a valid connector the router skips the gate on evidence, but a decision
  must cite reviewed evidence (`contracts/decision.schema.json`), so its advice
  to record one cannot be followed (`sg/workflow.py:549`; `AdviceEnds` leaves it
  out as `DecidesWithoutEvidence`).
* A draft action without its decision passes `validate_record` and is then
  reported by `validate_artifact_directory` for ever, as the line that adds the
  decision does not replace it (`sg/contracts.py:650`). The router, which does
  not look at `actions.jsonl`, can at the same time call all core artifacts
  valid.
* The advice to review an outcome ends with a new outcome or run state, not with
  the decision it asks for: `next_decision_id` of the old line stays empty.
* Signals are publishable if any line approves them; approvals count by their
  last line. A later restriction of a signal does not withdraw it
  (`sg/contracts.py:692`).
* `next-step` reads the directory three times, so skill, reason and completed
  skills may belong to different moments (`sg/cli.py:148`).
* A record that is appended after its file was validated and before it is read
  again is exported without having been validated (`sg/integrations.py:452`;
  the precondition of `JustifiedAtOnce`). The brief takes the first line of a
  decision even where a later line supersedes it (`:665`), while the
  reconsideration refuses any action or decision with more than one line
  (`:373`), though lifecycle changes are recorded as further lines.
* A brief can list an action whose metric it omits, since `metrics.jsonl` is read
  before `actions.jsonl` (`sg/integrations.py:710`; for validated records
  `BriefComplete` excludes it).
* `next: null` at the end of a history resets the cursor to `None`, so the next
  backfill starts from the beginning (`sg/connector_state.py:127`); only
  deduplication makes that harmless. The state has one cursor per connection,
  though Channel Talk's cursors belong to one chat.
* One message of a page that cannot be normalised fails the page each time it is
  fetched, so nothing behind it is ever backfilled
  (`sg/adapters/channel_talk.py:358`).
* An adapter keeps the policy it was built with when the file is edited and also
  after `reset_policy_cache()`, though a comment in the adapters says that
  editing the file changes what the endpoint accepts (`sg/policy.py:166`).
* Redaction is not idempotent for postal addresses of more than 120 characters
  or account numbers of more than 20 digits: what it leaves of one is redacted
  by the validator, which therefore reports the stored event
  (`sg/connector_validation.py:229`). It can also make a text longer than the
  20000 characters of the schema. And a text with a resident or business number
  and a token notes "other" twice in `pii_types_removed` (`:247`, `:249`), which
  `contracts/cs-event.schema.json:331` forbids (`uniqueItems`), so that the
  validator reports the event the adapter made. `StoredIsValid` leaves these
  three out by name (`Ordinary`). The validator does not check that event ids are unique;
  `IntakeUniqueIds` rests on `dedupe_events` alone.
* `/api/health` answers 200 `configured` with keys shorter than 32 characters,
  with which `/api/kakao/skill` answers 503 (`sg/kakao_runtime.py:43`, `:93`).
  The two environments "short keys" and "complete" of `HealthProbe` differ in
  nothing else.
* Two threads that probe at once can write the verdict of one and the expiry of
  the other, so a verdict lives longer by up to one call
  (`sg/supabase_sink.py:339`; the second `Longest` of `GreenIsRecent`). Two
  threads at a cold start each build a probe, and one of them is forgotten.
