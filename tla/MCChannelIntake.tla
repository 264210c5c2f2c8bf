---------------------------- MODULE MCChannelIntake ----------------------------
(* Conversations of two or three messages with what each provider can do.  *)
EXTENDS ChannelIntake

M(ref, chat, bot, inScope, explicit, texts) ==
    [ref |-> ref, chat |-> chat, bot |-> bot, inScope |-> inScope,
     explicit |-> explicit, texts |-> texts]
T(body, passes) == [body |-> body, passes |-> passes, others |-> 0, long |-> FALSE]
(* A resident number and a token; a text that redaction makes too long.    *)
Secrets == [body |-> "secrets", passes |-> 1, others |-> 2, long |-> FALSE]
Long == [body |-> "addresses", passes |-> 1, others |-> 0, long |-> TRUE]

S(provider, token, environment, kind, mode) ==
    [provider |-> provider, token |-> token, environment |-> environment,
     policy |-> kind, mode |-> mode]

(* The first message is edited, the second holds a long address.           *)
EditedHistory == S("channel_talk", TRUE, "production", "default", "read_only")
(* A connector nobody gave a token, and public dummy data: a text with an  *)
(* e-mail address, and one with two kinds of "other" private data.         *)
Tokenless == S("channel_talk", FALSE, "fixture", "default", "draft_only")
DummyData == S("channel_talk", FALSE, "fixture", "fixture", "read_only")
(* The second message is from a group chat, the third gets too long.       *)
GroupChat == S("channel_talk", TRUE, "production", "default", "draft_only")
(* Two messages with one event id, two whose payloads are the same.        *)
NaverIds == S("naver_talktalk", FALSE, "production", "default", "approved_write")
NaverPayloads == S("naver_talktalk", FALSE, "production", "fixture", "read_only")
(* One request id for two users of a bot, and a message to another bot.    *)
KakaoRequests == S("kakao_openbuilder", TRUE, "production", "default", "read_only")

MCSetups == {EditedHistory, Tokenless, DummyData, GroupChat,
             NaverIds, NaverPayloads, KakaoRequests}

Plain(ref, body) == M(ref, "chat", "bot", TRUE, TRUE, <<T(body, 0)>>)
In(chat, bot, ref, text) == M(ref, chat, bot, TRUE, TRUE, <<text>>)

MCConversation == [s \in MCSetups |->
    CASE s = EditedHistory ->
           <<M("m1", "chat", "bot", TRUE, TRUE, <<T("hello", 0), T("help", 0)>>),
             In("chat", "bot", "m2", T("address", 2)), Plain("m3", "bye")>>
      [] s \in {Tokenless, DummyData} ->
           <<In("chat", "bot", "m1", T("e-mail", 1)), In("chat", "bot", "m2", Secrets)>>
      [] s = GroupChat ->
           <<Plain("m1", "hello"), M("m2", "group", "bot", FALSE, TRUE, <<T("hi", 0)>>),
             In("chat", "bot", "m3", Long)>>
      [] s = NaverIds -> <<Plain("m1", "hello"), Plain("m1", "bye")>>
      [] s = NaverPayloads ->
           <<M("m1", "chat", "bot", TRUE, FALSE, <<T("hello", 1)>>),
             M("m2", "chat", "bot", TRUE, FALSE, <<T("hello", 1)>>)>>
      [] s = KakaoRequests ->
           <<In("bot:user1", "bot", "m1", T("hello", 0)),
             In("bot:user2", "bot", "m1", T("bye", 0)),
             In("bot2:user1", "bot2", "m2", T("hello", 0))>>]

(* The last one is no policy: it blocks an assurance nobody has heard of.  *)
MCPolicyFiles == {{"none"}, {"none", "weak"}, {"nnoe"}}
=============================================================================
