--------------------------- MODULE CachelessEvents ---------------------------
(* What a shard of the cacheless library does with the events of the gateway *)
(* (m_opcode0 and the procces_event templates of no_cache/src/               *)
(* internal_shard.cpp): an event becomes a payload (no_cache/events.h) that  *)
(* is given to a callback of the client (no_cache/client.h), if the user set *)
(* it.  What a handler throws is swallowed.  An event is abstracted to its   *)
(* name, to what its handler branches on (scope), and to what it brings: a   *)
(* user beneath "user" or in its own fields, roles that are objects and not  *)
(* ids, and the rest.                                                        *)
EXTENDS Tables, Naturals

CONSTANTS
    Unset,          \* names of callbacks that the user has not set
    Seqs            \* sequence numbers of events

VARIABLES
    seq,            \* m_seq_num
    session,        \* READY was handled: m_session_id and m_id are known
    call            \* the callback called by the last event, with the fields
                    \* of its payload that the handler filled

vars == <<seq, session, call>>

Call(callback, fields) == [callback |-> callback, fields |-> fields]
Nothing == Call("none", {})

InGuild(guild, dm) == [guild |-> guild, dm |-> dm]
Always(c) == [any |-> c]
-----------------------------------------------------------------------------
(* CHANNEL_CREATE, _UPDATE and _DELETE: by the type of the channel. *)
ByType(text, dm, voice, category) ==
    LET To(callback) == Call(callback, {"channel"})
    IN  [text |-> To(text), news |-> To(text), store |-> To(text), dm |-> To(dm), group |-> To(dm),
         voice |-> To(voice), category |-> To(category), other |-> Nothing]
ChannelCreate ==
    ByType("on_guild_text_channel_create", "on_dm_channel_create",
           "on_guild_voice_channel_create", "on_guild_channel_catagory_create")
ChannelUpdate ==
    ByType("on_guild_text_channel_update", "on_dm_channel_update",
           "on_guild_voice_channel_update", "on_guild_channel_catagory_update")
ChannelDelete ==
    ByType("on_guild_text_channel_delete", "on_dm_channel_delete",
           "on_guild_voice_channel_delete", "on_guild_channel_catagory_delete")

GuildCreate == Always(Call("on_guild_ready", {"guild"}))
GuildDelete == Always(Call("on_guild_remove", {"guild"}))
Ready == Always(Call("on_ready", {}))

(* These build a payload, or read the event, and call nobody: client.h has   *)
(* on_guild_update, on_guild_member_chunk and the two message updates.       *)
GuildUpdate == Always(Nothing)
GuildMembersChunk == Always(Nothing)
GuildIntegrationsUpdate == Always(Nothing)
MessageUpdate == InGuild(Nothing, Nothing)

MessageCreate == InGuild(Call("on_guild_text_msg", {"msg"}), Call("on_dm_msg", {"msg"}))

MessageDelete ==
    InGuild(Call("on_guild_msg_delete", {"id", "guild_id", "channel_id"}),
            Call("on_dm_msg_delete", {"id", "channel_id"}))

MessageDeleteBulk ==
    InGuild(Call("on_message_bulk_delete", {"ids", "channel_id", "guild_id"}),
            Call("on_dm_message_bulk_delete", {"ids", "channel_id"}))

ReactionAddUnnumbered ==    \* a mutant: the id of the message is left out
    InGuild(Call("on_guild_reaction_add", {"channel_id", "emoji", "guild_id", "member"}),
            Call("on_dm_reaction_add", {"channel_id", "emoji", "message_id", "user_id"}))

ReactionAdd ==
    InGuild(Call("on_guild_reaction_add",
                 {"channel_id", "emoji", "guild_id", "message_id", "member"}),
            Call("on_dm_reaction_add", {"channel_id", "emoji", "message_id", "user_id"}))

ReactionRemove ==
    InGuild(Call("on_guild_reaction_remove",
                 {"channel_id", "emoji", "user_id", "message_id", "guild_id"}),
            Call("on_dm_reaction_remove", {"channel_id", "emoji", "message_id", "user_id"}))

ReactionRemoveAll ==
    InGuild(Call("on_guild_reaction_remove_all", {"channel_id", "message_id", "guild_id"}),
            Call("on_dm_reaction_remove_all", {"channel_id", "message_id"}))

TypingStart ==
    InGuild(Call("on_guild_typing_start", {"channel_id", "guild_id", "member"}),
            Call("on_dm_typing_start", {"user_id", "channel_id"}))

PresenceUpdate ==
    Always(Call("on_presence_update",
                {"user_id", "game", "guild_id", "status", "activities", "client_status"}))

MemberAdd == Always(Call("on_guild_member_add", {"guild_id", "member"}))
MemberRemove == Always(Call("on_guild_member_remove", {"guild_id", "member"}))
MemberUpdate == Always(Call("on_guild_member_update", {"guild_id", "user", "roles", "nick"}))
BanAdd == Always(Call("on_ban_add", {"user", "guild_id"}))
BanRemove == Always(Call("on_ban_remove", {"user", "guild_id"}))
EmojiUpdate == Always(Call("on_emoji_update", {"guild_id", "emojis"}))
RoleCreate == Always(Call("on_role_create", {"guild_id", "role"}))
RoleUpdate == Always(Call("on_role_update", {"guild_id", "role"}))
RoleDelete == Always(Call("on_role_delete", {"guild_id", "role_id"}))

(* The switch of m_opcode0.  VOICE_STATE_UPDATE and VOICE_SERVER_UPDATE only *)
(* serve connect_voice, which is not modelled.                               *)
Handlers == [
    READY |-> Ready, RESUMED |-> Always(Nothing), HELLO |-> Always(Nothing),
    INVALID_SESSION |-> Always(Nothing),
    CHANNEL_CREATE |-> ChannelCreate, CHANNEL_UPDATE |-> ChannelUpdate,
    CHANNEL_DELETE |-> ChannelDelete, CHANNEL_PINS_UPDATE |-> Always(Nothing),
    GUILD_CREATE |-> GuildCreate, GUILD_UPDATE |-> GuildUpdate, GUILD_DELETE |-> GuildDelete,
    GUILD_BAN_ADD |-> BanAdd, GUILD_BAN_REMOVE |-> BanRemove, GUILD_EMOJI_UPDATE |-> EmojiUpdate,
    GUILD_INTEGRATIONS_UPDATE |-> GuildIntegrationsUpdate, GUILD_MEMBER_ADD |-> MemberAdd,
    GUILD_MEMBER_REMOVE |-> MemberRemove, GUILD_MEMBER_UPDATE |-> MemberUpdate,
    GUILD_MEMBERS_CHUNK |-> GuildMembersChunk, GUILD_ROLE_CREATE |-> RoleCreate,
    GUILD_ROLE_UPDATE |-> RoleUpdate, GUILD_ROLE_DELETE |-> RoleDelete,
    MESSAGE_CREATE |-> MessageCreate, MESSAGE_UPDATE |-> MessageUpdate,
    MESSAGE_DELETE |-> MessageDelete, MESSAGE_DELETE_BULK |-> MessageDeleteBulk,
    MESSAGE_REACTION_ADD |-> ReactionAdd, MESSAGE_REACTION_REMOVE |-> ReactionRemove,
    MESSAGE_REACTION_REMOVE_ALL |-> ReactionRemoveAll, PRESENCE_UPDATE |-> PresenceUpdate,
    TYPING_START |-> TypingStart, USER_UPDATE |-> Always(Nothing),
    VOICE_STATE_UPDATE |-> Always(Nothing), VOICE_SERVER_UPDATE |-> Always(Nothing),
    WEBHOOKS_UPDATE |-> Always(Nothing)]
-----------------------------------------------------------------------------
(* The payloads of events.h, by the callback of client.h that takes them.    *)
ChannelPayloads ==
    [c \in {"on_guild_text_channel_create", "on_dm_channel_create",
            "on_guild_voice_channel_create", "on_guild_channel_catagory_create",
            "on_guild_text_channel_update", "on_dm_channel_update",
            "on_guild_voice_channel_update", "on_guild_channel_catagory_update",
            "on_guild_text_channel_delete", "on_dm_channel_delete",
            "on_guild_voice_channel_delete", "on_guild_channel_catagory_delete"} |-> {"channel"}]

GuildPayloads == [
    on_ready |-> {}, on_guild_ready |-> {"guild"}, on_guild_remove |-> {"guild"},
    on_guild_update |-> {"guild"}, on_guild_member_add |-> {"guild_id", "member"},
    on_guild_member_remove |-> {"guild_id", "member"},
    on_guild_member_update |-> {"user", "roles", "nick", "guild_id", "premium_since"},
    on_guild_member_chunk |-> {"guild_id", "members", "chunk_index", "chunk_count", "presences"},
    on_ban_add |-> {"guild_id", "user"}, on_ban_remove |-> {"guild_id", "user"},
    on_emoji_update |-> {"guild_id", "emojis"}, on_role_create |-> {"guild_id", "role"},
    on_role_update |-> {"guild_id", "role"}, on_role_delete |-> {"guild_id", "role_id"}]

PresencePayload == [on_presence_update |->
    {"user_id", "game", "guild_id", "status", "activities", "client_status"}]

MessagePayloads == [
    on_guild_text_msg |-> {"msg"}, on_dm_msg |-> {"msg"},
    on_guild_msg_update |-> {"message"}, on_dm_msg_update |-> {"message"},
    on_guild_msg_delete |-> {"id", "channel_id", "guild_id"},
    on_dm_msg_delete |-> {"id", "channel_id"},
    on_message_bulk_delete |-> {"ids", "channel_id", "guild_id"},
    on_dm_message_bulk_delete |-> {"ids", "channel_id"},
    on_guild_reaction_add |->
        {"user_id", "channel_id", "guild_id", "message_id", "member", "emoji"},
    on_dm_reaction_add |-> {"user_id", "channel_id", "message_id", "member", "emoji"},
    on_guild_reaction_remove |-> {"user_id", "channel_id", "guild_id", "message_id", "emoji"},
    on_dm_reaction_remove |-> {"user_id", "channel_id", "message_id", "emoji"},
    on_guild_reaction_remove_all |-> {"channel_id", "message_id", "guild_id"},
    on_dm_reaction_remove_all |-> {"channel_id", "message_id"},
    on_guild_typing_start |-> {"channel_id", "guild_id", "user_id", "timestamp", "member"},
    on_dm_typing_start |-> {"channel_id", "user_id", "timestamp"}]

PayloadFields == ChannelPayloads ++ GuildPayloads ++ PresencePayload ++ MessagePayloads

Callbacks == DOMAIN PayloadFields
Set == Callbacks \ Unset

(* Where the handlers look for a user, and for roles. *)
Shapes == {"user", "user_itself", "role_objects", "rest"}

Reads(t) ==
    CASE t \in {"GUILD_BAN_ADD", "GUILD_BAN_REMOVE"} -> {"user_itself", "rest"}
      [] t \in {"READY", "GUILD_MEMBER_ADD", "GUILD_MEMBER_REMOVE"} -> {"user", "rest"}
      [] t = "GUILD_MEMBER_UPDATE" -> {"user", "role_objects", "rest"}
      [] OTHER -> {"rest"}

(* to_event_name; what it does not know becomes HELLO, the first of the      *)
(* enumeration.                                                              *)
KnownNames == {
    "HELLO", "READY", "RESUMED", "INVALID_SESSION", "PRESENCE_UPDATE", "TYPING_START",
    "USER_UPDATE", "WEBHOOKS_UPDATE", "VOICE_STATE_UPDATE", "VOICE_SERVER_UPDATE",
    "CHANNEL_CREATE", "CHANNEL_UPDATE", "CHANNEL_DELETE", "CHANNEL_PINS_UPDATE",
    "MESSAGE_CREATE", "MESSAGE_UPDATE", "MESSAGE_DELETE", "MESSAGE_DELETE_BULK",
    "MESSAGE_REACTION_ADD", "MESSAGE_REACTION_REMOVE", "MESSAGE_REACTION_REMOVE_ALL",
    "GUILD_CREATE", "GUILD_UPDATE", "GUILD_DELETE", "GUILD_EMOJI_UPDATE",
    "GUILD_INTEGRATIONS_UPDATE", "GUILD_MEMBER_ADD", "GUILD_MEMBER_REMOVE",
    "GUILD_MEMBER_UPDATE", "GUILD_MEMBERS_CHUNK", "GUILD_BAN_ADD", "GUILD_BAN_REMOVE",
    "GUILD_ROLE_CREATE", "GUILD_ROLE_UPDATE", "GUILD_ROLE_DELETE"}

ToEventName(t) == IF t \in KnownNames THEN t ELSE "HELLO"

(* What Discord calls the events, with some that the library does not know.  *)
Sent == KnownNames \cup {"GUILD_EMOJIS_UPDATE", "INVITE_CREATE"}

TypeOK ==
    /\ seq \in Seqs \cup {0} /\ session \in BOOLEAN
    /\ call.callback \in Set \cup {"none"}

Init == seq = 0 /\ session = FALSE /\ call = Nothing

(* m_opcode0.  The sequence number counts also when the handler throws. *)
Opcode0(t, s, brings) ==
    LET handler == Handlers[ToEventName(t)]
        whole == Reads(ToEventName(t)) \subseteq brings
    IN  \E scope \in DOMAIN handler :
            /\ seq' = IF s > seq THEN s ELSE seq
            /\ session' = (session \/ (t = "READY" /\ whole))
            /\ call' = IF whole /\ handler[scope].callback \in Set THEN handler[scope] ELSE Nothing

Next == \E t \in Sent, s \in Seqs, brings \in SUBSET Shapes : Opcode0(t, s, brings)

Spec == Init /\ [][Next]_vars
-----------------------------------------------------------------------------
(* Fields that no handler fills although the event brings them: the callback *)
(* sees a zero.                                                              *)
LeftOut ==
    [c \in Callbacks |->
        CASE c = "on_guild_reaction_add" -> {"user_id"}
          [] c = "on_dm_reaction_add" -> {"member"}
          [] c = "on_guild_typing_start" -> {"user_id", "timestamp"}
          [] c = "on_dm_typing_start" -> {"timestamp"}
          [] c = "on_guild_member_update" -> {"premium_since"}
          [] OTHER -> {}]

(* Each handler fills the payload of the callback it calls: all of its       *)
(* fields, but for those above, and none of a payload it resembles.          *)
PayloadsFilled ==
    call.callback # "none" =>
        call.fields = PayloadFields[call.callback] \ LeftOut[call.callback]
=============================================================================
