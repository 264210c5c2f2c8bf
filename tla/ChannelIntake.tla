----------------------------- MODULE ChannelIntake -----------------------------
(***************************************************************************)
(* A connector that takes in one conversation of a provider: webhooks,     *)
(* which may be lost, repeated and late, and for Channel Talk also the     *)
(* backfill of history page by page, both into cs-events.jsonl.            *)
(*                                                                         *)
(* The adapter, its policy, ConnectorState and dedupe_events are code of   *)
(* the repository (src/src/signal_growth/adapters/, policy.py,             *)
(* connector_state.py, connector_validation.py); the process that calls    *)
(* them one after the other is not, and does here what                     *)
(* src/skills/connect-customer-channels/references/recovery-patterns.md    *)
(* says of it: it deduplicates against the ledger, appends, dead-letters   *)
(* what conflicts, and confirms a cursor when the page before it is in.    *)
(* The process dies now and then and is started again.  Somebody edits the *)
(* policy file.  A request or a page that is refused raises and changes    *)
(* nothing, so it is no step.  The counters of ConnectorState are left     *)
(* out: nothing reads them.                                                *)
(***************************************************************************)
EXTENDS ConnectorDirectory, FiniteSetsExt

CONSTANTS
    Setups,         \* [provider, token, environment, policy, mode]
    Conversation,   \* [Setups -> the messages customers send, in order]
    PolicyFiles,    \* documents the policy file may hold
    PageSize,       \* limit of a backfill request
    MaxRestarts,    \* bound: deaths of the process
    MaxEdits        \* bound: edits of the policy file

ASSUME IntakeAssumption ==
    /\ PageSize \in Nat \ {0} /\ MaxRestarts \in Nat /\ MaxEdits \in Nat
    /\ \A s \in Setups :
          /\ s.provider \in {"channel_talk", "naver_talktalk", "kakao_openbuilder"}
          /\ s.mode \in Mode
          /\ Len(Conversation[s]) \in Nat
          /\ \A n \in 1 .. Len(Conversation[s]) :
                LET texts == Conversation[s][n].texts
                IN  /\ Len(texts) \in Nat \ {0}
                    /\ \A v \in 1 .. Len(texts) :
                          /\ texts[v].passes \in Nat /\ texts[v].others \in Nat
                          /\ texts[v].others > 0 => texts[v].passes > 0
    /\ None # << >> /\ None # FixturePolicy

(* A provider does not use the id of a message for another one: Channel    *)
(* Talk for none, Kakao (a request id) for none of another bot.            *)
ASSUME ProviderAssumption ==
    \A s \in Setups : \A n, k \in 1 .. Len(Conversation[s]) :
        Conversation[s][n].ref = Conversation[s][k].ref =>
            /\ s.provider = "channel_talk" => n = k
            /\ s.provider = "kakao_openbuilder" =>
                 Conversation[s][n].bot = Conversation[s][k].bot

VARIABLES
    setup,      \* the connection, and how its adapter is constructed
    sent,       \* number of messages the provider has
    version,    \* [message -> its version]
    policyFile, \* policies/default-policy.json
    held,       \* history: the documents that file has held
    policy,     \* the policy the running adapter holds, None: no process
    inbox,      \* event of the webhook being handled, or None
    page,       \* events of the page being recorded, or None
    nextCursor, \* the cursor that came with it
    cursor,     \* ConnectorState.cursor
    saved,      \* the cursor in connector-state.json
    ledger,     \* cs-events.jsonl
    dead,       \* what was dead-lettered for a conflict of identity
    restarts,
    edits

provider_side == <<sent, version>>
policy_side == <<policyFile, held, edits>>
memory == <<policy, inbox, page, nextCursor, cursor>>
disk == <<saved, ledger, dead>>
vars == <<setup, provider_side, policy_side, memory, disk, restarts>>

-----------------------------------------------------------------------------
Messages == 1 .. Len(Conversation[setup])
Message(n) == Conversation[setup][n]

EventOf(n, v, form, verified) ==
    CanonicalEvent(setup.provider, Message(n), v, form, verified)

Running == policy # None

(* The place of a cursor in the conversation.                              *)
Confirmed(c) == IF c = None THEN 0 ELSE c

-----------------------------------------------------------------------------
(* The provider, and whoever edits files.                                  *)

Send ==
    /\ sent < Len(Conversation[setup])
    /\ sent' = sent + 1
    /\ UNCHANGED <<setup, version, policy_side, memory, disk, restarts>>

EditMessage(n) ==
    /\ n <= sent
    /\ version[n] + 1 < Len(Message(n).texts)
    /\ version' = [version EXCEPT ![n] = @ + 1]
    /\ UNCHANGED <<setup, sent, policy_side, memory, disk, restarts>>

EditPolicyFile ==
    /\ edits < MaxEdits
    /\ edits' = edits + 1
    /\ policyFile' \in PolicyFiles \ {policyFile}
    /\ held' = held \union {policyFile'}
    /\ UNCHANGED <<setup, provider_side, memory, disk, restarts>>

-----------------------------------------------------------------------------
(* The process.                                                            *)

(* The policy a new adapter is given; PolicyLoadError where there is none. *)
LoadedPolicy == IF setup.policy = "fixture" THEN {FixturePolicy}
                ELSE {d \in {policyFile} : Parses(d)}

(* The adapter is constructed and holds the policy it was given from then  *)
(* on; ConnectorState starts with the saved cursor.                        *)
Start ==
    /\ ~Running
    /\ policy' \in LoadedPolicy
    /\ cursor' = saved
    /\ UNCHANGED <<setup, provider_side, policy_side, inbox, page, nextCursor, disk, restarts>>

(* reset_policy_cache() and an adapter constructed anew.                   *)
ReloadPolicy ==
    /\ Running
    /\ policy' \in LoadedPolicy \ {policy}
    /\ UNCHANGED <<setup, provider_side, policy_side, inbox, page, nextCursor, cursor, disk, restarts>>

Crash ==
    /\ Running
    /\ restarts < MaxRestarts
    /\ restarts' = restarts + 1
    /\ policy' = None /\ inbox' = None
    /\ page' = None /\ nextCursor' = None /\ cursor' = None
    /\ UNCHANGED <<setup, provider_side, policy_side, disk>>

(* A webhook for any version of any message so far arrives, for the first  *)
(* time or again, or somebody else posts one without proof.                *)
Ingest(n, v, proof) ==
    /\ Running /\ inbox = None
    /\ n <= sent /\ v <= version[n]
    /\ Message(n).inScope
    /\ \E verified \in Verify(setup, policy, proof) :
          inbox' = EventOf(n, v, "webhook", verified)
    /\ UNCHANGED <<setup, provider_side, policy_side, policy, page, nextCursor, cursor, disk, restarts>>

(* dedupe_events of the ledger and one event more: a new id is appended,   *)
(* an exact retry is not, and EventIdentityError is dead-lettered.         *)
Take(e) ==
    LET same == {i \in DOMAIN ledger : ledger[i].id = e.id}
    IN  /\ ledger' = IF same = {} THEN Append(ledger, e) ELSE ledger
        /\ dead' = IF \E i \in same : Fingerprint(ledger[i]) # Fingerprint(e)
                     THEN dead \union {Fingerprint(e)} ELSE dead

RecordWebhook ==
    /\ inbox # None
    /\ Take(inbox)
    /\ inbox' = None
    /\ UNCHANGED <<setup, provider_side, policy_side, policy, page, nextCursor, cursor, saved, restarts>>

(* The messages the provider answers with to a request for what comes      *)
(* after the cursor.                                                       *)
PageEnd == IF Confirmed(cursor) + PageSize < sent THEN Confirmed(cursor) + PageSize ELSE sent

PageNumbers == [i \in 1 .. PageEnd - Confirmed(cursor) |-> Confirmed(cursor) + i]

Fetch(authenticated, numbers) ==
    /\ page' = [i \in DOMAIN numbers |->
                  EventOf(numbers[i], version[numbers[i]], "page",
                          BackfillAssurance(authenticated))]
    /\ nextCursor' = IF PageEnd < sent THEN PageEnd ELSE None
    /\ UNCHANGED <<setup, provider_side, policy_side, policy, inbox, cursor, disk, restarts>>

CanFetch ==
    /\ Running /\ page = None
    /\ "conversation_backfill" \in Supported(setup.provider)

(* Mutant: the policy only guards the webhook.                             *)
BackfillUnchecked(authenticated) ==
    /\ CanFetch
    /\ \A i \in DOMAIN PageNumbers : Message(PageNumbers[i]).inScope
    /\ Fetch(authenticated, PageNumbers)

(* Mutant: a message that cannot be normalised is passed over.             *)
BackfillSkippingBad(authenticated) ==
    /\ CanFetch
    /\ Allows(policy, BackfillAssurance(authenticated).assurance)
    /\ Fetch(authenticated, SelectSeq(PageNumbers, LAMBDA n : Message(n).inScope))

(* backfill: the whole page, or an error when one message is no event.     *)
(* The order the request asks for (oldest first) is left out.              *)
Backfill(authenticated) ==
    /\ CanFetch
    /\ Allows(policy, BackfillAssurance(authenticated).assurance)
    /\ \A i \in DOMAIN PageNumbers : Message(PageNumbers[i]).inScope
    /\ Fetch(authenticated, PageNumbers)

RecordFromPage ==
    /\ page \notin {None, << >>}
    /\ Take(Head(page))
    /\ page' = Tail(page)
    /\ UNCHANGED <<setup, provider_side, policy_side, policy, inbox, nextCursor, cursor, saved, restarts>>

(* record_backfill: the end of the history leaves no cursor at all.        *)
RecordBackfill ==
    /\ page = << >>
    /\ cursor' = nextCursor
    /\ page' = None /\ nextCursor' = None
    /\ UNCHANGED <<setup, provider_side, policy_side, policy, inbox, disk, restarts>>

SaveState ==
    /\ Running
    /\ saved # cursor
    /\ saved' = cursor
    /\ UNCHANGED <<setup, provider_side, policy_side, memory, ledger, dead, restarts>>

Init ==
    /\ setup \in Setups
    /\ sent = 0
    /\ version = [n \in Messages |-> 0]
    /\ policyFile \in PolicyFiles /\ held = {policyFile}
    /\ policy = None /\ inbox = None
    /\ page = None /\ nextCursor = None /\ cursor = None /\ saved = None
    /\ ledger = << >> /\ dead = {}
    /\ restarts = 0 /\ edits = 0

Next ==
    \/ Send \/ (\E n \in Messages : EditMessage(n)) \/ EditPolicyFile
    \/ Start \/ ReloadPolicy \/ Crash
    \/ \E n \in Messages : \E v \in 0 .. version[n], proof \in {"good", "bad", "absent"} :
          Ingest(n, v, proof)
    \/ RecordWebhook
    \/ \E authenticated \in BOOLEAN : Backfill(authenticated)
    \/ RecordFromPage \/ RecordBackfill \/ SaveState

Spec == Init /\ [][Next]_vars

(***************************************************************************)
(* The process is started again after it died, what it has begun it goes   *)
(* on with, and it backfills whenever it is not at it, over a transport    *)
(* that works.                                                             *)
(***************************************************************************)
Fairness ==
    /\ WF_vars(Start) /\ WF_vars(RecordWebhook)
    /\ WF_vars(RecordFromPage) /\ WF_vars(RecordBackfill)
    /\ WF_vars(Backfill(TRUE))

FairSpec == Spec /\ Fairness

-----------------------------------------------------------------------------
Directory ==
    [connection |->
        [connection_id |-> "connection", provider |-> setup.provider, mode |-> setup.mode,
         external_write_enabled |-> setup.mode = "approved_write",
         credential_ref |-> "secret reference",
         capabilities |-> CapabilityList(setup.provider), approved_by |-> "approval"],
     state |->
        [connection_id |-> "connection", provider |-> setup.provider, mode |-> setup.mode,
         external_write_enabled |-> setup.mode = "approved_write"],
     events |-> ledger]

Cursor == Messages \union {None}

TypeOK ==
    /\ sent \in 0 .. Len(Conversation[setup])
    /\ \A n \in Messages : version[n] \in 0 .. Len(Message(n).texts) - 1
    /\ policy = None \/ policy \subseteq Assurance
    /\ {cursor, nextCursor, saved} \subseteq Cursor
    /\ ~Running => inbox = None /\ page = None
    /\ restarts \in 0 .. MaxRestarts /\ edits \in 0 .. MaxEdits

UniqueIds == \A i, j \in DOMAIN ledger : i # j => ledger[i].id # ledger[j].id

(***************************************************************************)
(* A version of a message is one event, however often, in whatever form    *)
(* and by whichever way it came, across restarts ("Reconcile webhook and   *)
(* API records without creating a second canonical event").                *)
(***************************************************************************)
OneEventPerVersion ==
    /\ UniqueIds
    /\ \A n \in Messages :
          Cardinality({i \in DOMAIN ledger :
              ledger[i].message = MessageRef(setup.provider, Message(n), 0)})
            <= version[n] + 1

(***************************************************************************)
(* The cursor, in memory or saved, is never ahead of the ledger: of every  *)
(* message before it some version is stored, or was dead-lettered because  *)
(* it contradicts what is stored ("Backfill from the last confirmed        *)
(* cursor").  A page of which one message is no event confirms nothing.    *)
(***************************************************************************)
Accounted(n) ==
    \E v \in 0 .. version[n] :
        LET f == Fingerprint(EventOf(n, v, "page", Verified(TRUE, "medium")))
        IN  f \in dead \/ \E i \in DOMAIN ledger : Fingerprint(ledger[i]) = f

NothingSkipped ==
    \A c \in {cursor, saved} : \A n \in 1 .. Confirmed(c) : Accounted(n)

(***************************************************************************)
(* Whatever is stored, some policy the file has held by then lets through, *)
(* whether it came by webhook or by backfill, before or after an edit or a *)
(* restart; a file that is no policy lets nothing through (policy.py: "A   *)
(* typo here would silently block nothing, so fail at load time").         *)
(***************************************************************************)
OnlyAllowedStored ==
    setup.policy = "default" =>
        \A i \in DOMAIN ledger :
            \E document \in held :
                Parses(document) /\ ledger[i].assurance \notin document

(***************************************************************************)
(* What the adapters store of an ordinary text, validate_connector_        *)
(* directory accepts.  No ordinary text is one that redaction changes more *)
(* than once, that holds more than one kind of "other" private data, or    *)
(* that redaction makes too long.                                          *)
(***************************************************************************)
Ordinary(text) == text.passes <= 1 /\ text.others <= 1 /\ ~text.long

Extraordinary(e) ==
    \E n \in Messages : \E v \in 0 .. version[n] :
        /\ ~Ordinary(Message(n).texts[v + 1])
        /\ Fingerprint(e) = Fingerprint(EventOf(n, v, "page", Verified(TRUE, "medium")))

StoredIsValid ==
    Reported(Directory) \subseteq
        {<<"event", i>> : i \in {j \in DOMAIN ledger : Extraordinary(ledger[j])}}

(***************************************************************************)
(* Every message customers send is taken in in the end though every        *)
(* webhook may be lost, if the provider has a history to backfill from and *)
(* nothing in it fails a page, unless the policy file is left unreadable.  *)
(***************************************************************************)
Recoverable ==
    /\ "conversation_backfill" \in Supported(setup.provider)
    /\ \A n \in Messages : Message(n).inScope

Longest == Max({Len(Conversation[s]) : s \in Setups})

MessagesArrive ==
    \A n \in 1 .. Longest :
        (Recoverable /\ sent >= n) ~>
            \/ n \in Messages /\ Accounted(n)
            \/ ~Running /\ LoadedPolicy = {}
=============================================================================
