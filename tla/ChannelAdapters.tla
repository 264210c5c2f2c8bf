---------------------------- MODULE ChannelAdapters ----------------------------
(***************************************************************************)
(* What the channel adapters make of a provider's message                  *)
(* (src/src/signal_growth/adapters/), which of it the connector policy     *)
(* lets through (policy.py), and what an event id commits to               *)
(* (connector_validation.py).  Everything here is a function of its        *)
(* arguments; ChannelIntake puts it to use.                                *)
(*                                                                         *)
(* A message is [ref, chat, bot, inScope, explicit, texts]: texts[v + 1]   *)
(* is its text at version v, bot is the bot and the action it was sent to  *)
(* (Kakao), inScope is false for a group chat or a message without the     *)
(* fields an event needs, and explicit is false where the provider (Naver) *)
(* gives it no id.  A text is [body, passes, others, long]: passes is how  *)
(* often redact_text still changes it (more than once for example for an   *)
(* address of over 120 characters or an account of over 20 digits), others *)
(* how many kinds of "other" private data are found in it, and long        *)
(* whether it is longer than an event may be once it is redacted.          *)
(***************************************************************************)
EXTENDS Integers, Sequences

CONSTANT None

Assurance == {"none", "weak", "medium", "strong"}

-----------------------------------------------------------------------------
(* Capabilities.                                                           *)

Capability == {"webhook_ingest", "skill_request_ingest", "conversation_backfill",
               "delivery_status", "reconciliation", "reply_draft", "reply_send",
               "healthcheck"}

ChannelTalkSupports ==
    {"webhook_ingest", "conversation_backfill", "reconciliation", "healthcheck"}
NaverSupports == {"webhook_ingest", "healthcheck"}
KakaoSupports == {"skill_request_ingest", "healthcheck"}

Supported(provider) ==
    CASE provider = "channel_talk"      -> ChannelTalkSupports
      [] provider = "naver_talktalk"    -> NaverSupports
      [] provider = "kakao_openbuilder" -> KakaoSupports

(* ProviderCapabilities.to_dict: sending is disabled, not just absent.     *)
CapabilityList(provider) ==
    {[name    |-> c,
      support |-> CASE c \in Supported(provider) -> "supported"
                    [] c = "reply_send"          -> "disabled_by_policy"
                    [] OTHER                     -> "unsupported",
      access  |-> IF c \in {"reply_draft", "reply_send"} THEN "draft_only" ELSE "read_only"]
     : c \in Capability}

-----------------------------------------------------------------------------
(* The policy file.  A document is what connectors.blocked_verification_   *)
(* assurance lists, or None where the file cannot be read as a policy.     *)

(* Mutant: unknown values are not looked for.                              *)
ParsesUnknown(document) == document # None

(* from_document refuses unknown values, which would block nothing.        *)
Parses(document) == document # None /\ document \subseteq Assurance

FixturePolicy == {}

Allows(policy, assurance) == assurance \notin policy

-----------------------------------------------------------------------------
(* verify_event: the set of what the request may be taken for, which is    *)
(* empty where it is refused.  Its proof is the token in the URL or the    *)
(* address it came from: good, bad or absent.                              *)

Verified(auth, assurance) == [auth |-> auth, assurance |-> assurance]

(* Channel Talk's token in the URL and Kakao's x-api-key.                  *)
TokenVerify(setup, proof) ==
    CASE setup.token /\ proof = "good" -> {Verified(TRUE, "weak")}
      [] ~setup.token /\ setup.environment = "fixture" -> {Verified(FALSE, "none")}
      [] OTHER -> {}

NaverVerify(proof) ==
    CASE proof = "good"   -> {Verified(TRUE, "weak")}
      [] proof = "absent" -> {Verified(FALSE, "none")}
      [] OTHER            -> {}

Verify(setup, policy, proof) ==
    LET claims == IF setup.provider = "naver_talktalk"
                    THEN NaverVerify(proof) ELSE TokenVerify(setup, proof)
    IN  {v \in claims : Allows(policy, v.assurance)}

(* Mutant: whatever the transport says of itself, history is not verified. *)
NoAssurance(authenticated) == Verified(authenticated, "none")

(* What a page of backfilled history is taken for.                         *)
BackfillAssurance(authenticated) ==
    Verified(authenticated, IF authenticated THEN "medium" ELSE "none")

-----------------------------------------------------------------------------
(* normalize_event.                                                        *)

(* redact_text, once: the kinds counted in others it removes in one pass.  *)
Redacted(text) ==
    [body   |-> text.body,
     passes |-> IF text.passes = 0 THEN 0 ELSE text.passes - 1,
     others |-> 0,
     long   |-> text.long]

(* Mutant: the identity commits to the payload a message came in.          *)
ChannelTalkIdOfPayload(m, v, form) == <<m.ref, v, form>>

(* deterministic_event_id: of the message and its version, in whatever     *)
(* form it came.                                                           *)
ChannelTalkId(m, v, form) == <<m.ref, v>>

(* Without an event id of the provider's, the payload is the identity.     *)
NaverId(m, v) == IF m.explicit THEN <<m.ref>> ELSE <<m.chat, m.texts[v + 1]>>

(* A request is one of a bot, whoever the user is.                         *)
KakaoId(m) == <<m.ref, m.bot>>

EventId(provider, m, v, form) ==
    CASE provider = "channel_talk"      -> ChannelTalkId(m, v, form)
      [] provider = "naver_talktalk"    -> NaverId(m, v)
      [] provider = "kakao_openbuilder" -> KakaoId(m)

(* Which message an event is about, as far as the provider tells.          *)
MessageRef(provider, m, v) ==
    IF provider = "naver_talktalk" THEN NaverId(m, v) ELSE <<m.ref>>

Channel(provider) ==
    IF provider = "kakao_openbuilder" THEN "kakao_channel_chatbot" ELSE provider

(* Mutant: the text goes into the event as it came.                        *)
CanonicalEventUnredacted(provider, m, v, form, verified) ==
    [id        |-> EventId(provider, m, v, form),
     provider  |-> provider,
     channel   |-> Channel(provider),
     message   |-> MessageRef(provider, m, v),
     chat      |-> m.chat,
     content   |-> m.texts[v + 1],
     others    |-> m.texts[v + 1].others,
     auth      |-> verified.auth,
     assurance |-> verified.assurance]

(* others is how often privacy.pii_types_removed says "other": once for    *)
(* each kind found in the text as it came.                                 *)
CanonicalEvent(provider, m, v, form, verified) ==
    [id        |-> EventId(provider, m, v, form),
     provider  |-> provider,
     channel   |-> Channel(provider),
     message   |-> MessageRef(provider, m, v),
     chat      |-> m.chat,
     content   |-> Redacted(m.texts[v + 1]),
     others    |-> m.texts[v + 1].others,
     auth      |-> verified.auth,
     assurance |-> verified.assurance]

(* dedupe_events: what two events with one id have to agree on.            *)
Fingerprint(e) ==
    [provider |-> e.provider, channel |-> e.channel, message |-> e.message,
     chat |-> e.chat, content |-> e.content]
=============================================================================
