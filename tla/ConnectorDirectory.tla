--------------------------- MODULE ConnectorDirectory ---------------------------
(***************************************************************************)
(* What validate_connector_directory reports                               *)
(* (src/src/signal_growth/connector_validation.py) of a directory          *)
(* [connection, state, events].  Required fields, formats and the search   *)
(* for fields with private names are left out, and so are reply drafts and *)
(* delivery events; the hash chain is AppendLedger.  Of the JSON schemas   *)
(* the two conditions of contracts/cs-event.schema.json are kept that an   *)
(* adapter's event can fail: the kinds of private data removed are         *)
(* different ones, and the content has at most 20000 characters.           *)
(***************************************************************************)
EXTENDS ChannelAdapters

Mode == {"read_only", "draft_only", "approved_write"}

(* _PROVIDER_CHANNELS.                                                     *)
ChannelsOf(provider) ==
    IF provider = "kakao_openbuilder" THEN {"kakao_channel_chatbot"} ELSE {provider}

WritesAsMode(r) ==
    /\ r.mode \in {"read_only", "draft_only"} => ~r.external_write_enabled
    /\ r.mode = "approved_write" => r.external_write_enabled

ConnectionSound(c) ==
    /\ c.mode \in Mode
    /\ c.credential_ref \in {"secret reference", None}
    /\ \A item \in c.capabilities :
          /\ item.support \in {"supported", "unsupported", "unconfirmed", "disabled_by_policy"}
          /\ item.access \in Mode
    /\ WritesAsMode(c)
    /\ c.mode = "approved_write" => c.approved_by = "approval"

StateSound(s) ==
    s.mode \in {"read_only", "draft_only"} => ~s.external_write_enabled

FollowsEventSchema(e) == e.others <= 1 /\ ~e.content.long

EventSound(e) ==
    /\ FollowsEventSchema(e)
    /\ e.assurance = "none" => ~e.auth
    /\ e.channel \in ChannelsOf(e.provider)
    /\ Redacted(e.content) = e.content

(* The places of a directory that something is reported for.               *)
Reported(d) ==
    {<<"connection", i>> : i \in {j \in {1} : ~ConnectionSound(d.connection)}}
    \union {<<"state", i>> : i \in {j \in {1} :
               \/ ~StateSound(d.state)
               \/ d.state.connection_id # d.connection.connection_id
               \/ d.state.provider # d.connection.provider}}
    \union {<<"event", i>> : i \in {j \in DOMAIN d.events :
               \/ ~EventSound(d.events[j])
               \/ d.events[j].provider # d.connection.provider}}
=============================================================================
