----------------------------- MODULE ObjectForms -----------------------------
(***************************************************************************)
(* Discord's objects as the library has them: of each, the members its     *)
(* accessors show, its from_json and, if it has one, its to_json.  A base  *)
(* class or an object that is read through adds its fields to those of the *)
(* object it is in; of "author" and of a presence's "user" only the id is  *)
(* read.                                                                   *)
(***************************************************************************)
EXTENDS EmbedForms

Object(shows, reads) == Part(shows, {}, reads, <<>>)
Both(shows, reads, writes) == Part(shows, {}, reads, writes)
Updated(form) == [form EXCEPT !.inPlace = TRUE]

-----------------------------------------------------------------------------
\* Users and members.
UserShows ==
    {"id", "bot", "username", "discriminator", "avatar", "flags", "public_flags", "premium_type"}
UserReads ==
    <<MustNull("text", "id"), Must("text", "username"), May("bool", "bot"),
      May("text", "discriminator"), MustNull("text", "avatar"),
      May("number", "flags"), Into("public_flags", May("number", "flags")),
      Into("premium_type", May("number", "flags")), May("bool", "system")>>
UserWrites ==
    All(Writes, "text", <<"id", "username">>)
      \o <<Writes("bool", "bot"), Writes("text", "discriminator")>>
User == Both(UserShows, UserReads, UserWrites)

MemberShows == UserShows \cup {"nick", "roles", "joined_at", "deaf", "mute"}
MemberReads ==
    UserReads \o <<Keep("text", "nick"), MustNull("list", "roles")>>
      \o All(Must, "bool", <<"deaf", "mute">>)
Member == Object(MemberShows, MemberReads)

\* GUILD_MEMBER_UPDATE reads into the member that is there.
MemberUpdateReads ==
    UserReads \o <<MustNull("list", "roles"), Keep("text", "nick")>>
MemberUpdate == Updated(Object(UserShows \cup {"nick", "roles"}, MemberUpdateReads))

-----------------------------------------------------------------------------
\* Roles, overwrites and emojis.
RoleShows == {"id", "position", "permissions", "managed", "mentionable", "hoist", "name"}
RoleReads ==
    <<MustNull("text", "id"), Must("number", "position"), MustNull("text", "permissions")>>
      \o All(Must, "bool", <<"hoist", "managed">>)
      \o <<Must("text", "name"), Must("bool", "mentionable")>>
RoleWrites ==
    <<Writes("number", "position"), Writes("text", "permissions"), Writes("text", "id")>>
      \o All(Writes, "bool", <<"hoist", "mentionable">>)
      \o <<Writes("text", "name"), Writes("bool", "managed")>>
Role == Both(RoleShows, RoleReads, RoleWrites)

OverwriteShows == {"id", "type", "allow", "deny"}
OverwriteReads ==
    <<MustNull("text", "id"), Must("number", "type")>> \o All(MustNull, "text", <<"allow", "deny">>)
OverwriteWrites ==
    <<Writes("text", "id"), Writes("number", "type")>> \o All(Writes, "text", <<"allow", "deny">>)
Overwrite == Both(OverwriteShows, OverwriteReads, OverwriteWrites)

PartialEmojiReads ==
    <<MayNull("text", "id"), May("text", "name"), May("bool", "animated")>>
PartialEmoji == Object({"id", "name"}, PartialEmojiReads)
Emoji == Object({"id", "name", "roles", "user_id"}, PartialEmojiReads)

-----------------------------------------------------------------------------
\* Guilds.
GuildShows ==
    {"id", "roles", "name", "icon", "owner_id", "emojis", "system_channel_id", "region",
     "afk_timeout", "afk_channel_id", "verification_level", "explicit_content_filter", "features"}
\* Of a guild whose widget is enabled.  The widget's channel gets the value of
\* application_id; it is not shown.
GuildReads ==
    <<MustNull("text", "id"), Must("text", "name"), MustNull("text", "icon"),
      MustNull("text", "splash"), MustNull("text", "owner_id"), MayNull("text", "permissions"),
      Must("text", "region"), MustNull("text", "afk_channel_id")>>
      \o All(Must, "number", <<"afk_timeout", "verification_level",
                               "default_message_notifications", "explicit_content_filter">>)
      \o <<MustNull("list", "roles")>> \o All(Must, "list", <<"emojis", "features">>)
      \o <<Must("number", "mfa_level"), Keep("text", "application_id"),
           May("bool", "widget_enabled"), Into("nothing", MayNull("text", "widget_channel_id")),
           MustNull("text", "system_channel_id")>>
\* GUILD_UPDATE reads into the guild that is there.
GuildUpdate == Updated(Object(GuildShows, GuildReads))

WholeGuildReads ==
    GuildReads \o All(Must, "bool", <<"large", "unavailable">>)
      \o <<Must("number", "member_count"), Must("list", "voice_states")>>
WholeGuildShows ==
    GuildShows \cup {"joined_at", "large", "unavailable", "member_count", "voice_states"}
WholeGuild == Object(WholeGuildShows, WholeGuildReads)

\* What an integration has of a partial_integration is not read.
IntegrationReads ==
    All(Must, "bool", <<"enabled", "syncing">>)
      \o <<MustNull("text", "role_id"), MayNull("bool", "enable_emoticons"),
           Present("expire_behavior"), Must("number", "expire_grace_period"),
           Must("object", "user"), Present("synced_at")>>
IntegrationShows ==
    {"id", "name", "type", "account", "enabled", "syncing", "role_id", "enable_emoticons",
     "expire_grace_period", "user", "synced_at"}
Integration == Object(IntegrationShows, IntegrationReads)
PartialIntegration ==
    Object({"id", "name", "type", "account"},
           <<MustNull("text", "id")>> \o All(Must, "text", <<"name", "type">>)
             \o <<Must("object", "account")>>)
IntegrationAccount == Object({"id", "name"}, All(Must, "text", <<"id", "name">>))

Template ==
    Object({"code", "name", "discription", "usage_count", "creator_id", "creator", "created_at",
            "updated_at", "source_guild_id", "is_dirty"},
           All(Must, "text", <<"code", "name">>)
             \o <<MayNull("text", "discription"), Must("number", "usage_count"),
                  MustNull("text", "creator_id"), Must("object", "creator"),
                  Present("created_at"), Present("updated_at"),
                  MustNull("text", "source_guild_id"), MayNull("bool", "is_dirty")>>)

-----------------------------------------------------------------------------
\* Channels.
ChannelReads ==
    <<MustNull("text", "id"), May("text", "name"), May("number", "type")>>
PartialChannel ==
    Both({"id", "name", "type"}, ChannelReads, All(Writes, "text", <<"id", "name">>))

GuildChannelShows ==
    {"id", "name", "type", "guild_id", "nsfw", "position", "parent_id", "permission_overwrites"}
GuildChannelReads ==
    ChannelReads
      \o <<MayNull("text", "guild_id"), May("bool", "nsfw"), Must("number", "position"),
           Must("list", "permission_overwrites"), MayNull("text", "parent_id")>>

\* CHANNEL_UPDATE reads into the channel that is there.
Catagory == Updated(Object(GuildChannelShows, GuildChannelReads))
TextChannelReads == GuildChannelReads \o <<MustNull("text", "topic")>>
TextChannel == Updated(Object(GuildChannelShows \cup {"topic"}, TextChannelReads))
VoiceChannelReads == GuildChannelReads \o All(Must, "number", <<"user_limit", "bitrate">>)
VoiceChannel == Updated(Object(GuildChannelShows \cup {"user_limit", "bitrate"}, VoiceChannelReads))

DmChannelShows == {"id", "name", "type", "last_message_id", "recipients", "last_pin_timestamp"}
DmChannelReads == ChannelReads \o <<MustNull("list", "recipients"), MustNull("text", "last_message_id")>>
DmChannelWrites == All(Writes, "text", <<"id", "name", "last_message_id">>)
DmChannel == Both(DmChannelShows, DmChannelReads, DmChannelWrites)

-----------------------------------------------------------------------------
\* Messages.
MessageShows ==
    {"author", "id", "channel_id", "content", "mention_everyone", "tts", "attachments",
     "reactions", "embeds", "type", "message_reference"}
MessageReads ==
    <<MustNull("text", "author")>> \o All(MustNull, "text", <<"id", "channel_id">>)
      \o <<Must("text", "content"), Must("bool", "mention_everyone"), Present("timestamp"),
           Must("bool", "tts"), MustNull("list", "attachments"), MayNull("list", "reactions"),
           MustNull("list", "embeds"), Must("number", "type"), May("object", "message_reference")>>
Message == Object(MessageShows, MessageReads)

MsgUpdateReads ==
    <<IfThere("text", "author")>> \o All(MustNull, "text", <<"id", "channel_id">>)
      \o <<May("text", "content"), May("bool", "mention_everyone"), May("bool", "tts"),
           MayNull("bool", "mention_everyone")>> \o All(May, "list", <<"attachments", "reactions">>)
MsgUpdate == Object({"id", "channel_id", "content", "mention_everyone"}, MsgUpdateReads)

MessageReference ==
    Object({"guild_id", "channel_id", "message_id"},
           All(MayNull, "text", <<"guild_id", "channel_id", "message_id">>))

AttachmentReads ==
    <<MustNull("text", "id"), Must("text", "filename"), Must("number", "size")>>
      \o All(Must, "text", <<"url", "proxy_url">>)
Attachment ==
    Object({"id", "filename", "size", "url", "proxy_url", "width", "height"}, AttachmentReads)

ReactionReads == <<Must("number", "count"), Must("bool", "me"), Must("object", "emoji")>>
Reaction == Object({"count", "me", "emoji"}, ReactionReads)

-----------------------------------------------------------------------------
\* Voice, presence, invites and webhooks.
VoiceStateReads ==
    All(MustNull, "text", <<"channel_id", "user_id">>) \o <<Must("text", "session_id")>>
      \o All(Must, "bool", <<"deaf", "mute", "self_deaf", "self_mute", "suppress">>)
      \o <<MayNull("object", "member")>>
VoiceState ==
    Object({"channel_id", "user_id", "session_id", "deaf", "mute", "self_deaf", "self_mute",
            "suppress", "member"}, VoiceStateReads)
\* What VOICE_STATE_UPDATE reads.
VoiceState2 ==
    Object(VoiceState.shows \cup {"guild_id"}, VoiceStateReads \o <<MustNull("text", "guild_id")>>)

VoiceRegion ==
    Object({"id", "name", "vip", "optimal", "depricated", "custom"},
           All(Must, "text", <<"id", "name">>)
             \o All(Must, "bool", <<"vip", "optimal", "depricated", "custom">>))

ActivityReads == <<Must("text", "name"), Must("number", "type")>>
Activity == Object({"name", "type", "url"}, ActivityReads)

PresenceReads ==
    <<MustNull("text", "user"), Must("number", "status"), MustKeep("object", "game")>>
PartialPresence == Object({"user", "status", "game"}, PresenceReads)

InviteGuild == Object({"id", "name", "splash", "icon"},
                      <<MustNull("text", "id")>> \o All(Must, "text", <<"name", "splash", "icon">>))
InviteChannel == Object({"id", "name", "type"},
                        <<MustNull("text", "id"), Must("text", "name"), Must("number", "type")>>)
Invite == Object({"code", "guild", "channel"},
                 <<Must("text", "code")>> \o All(Must, "object", <<"guild", "channel">>))
InviteMetadata == Object({"user", "uses", "max_uses"}, <<Must("number", "max_uses")>>)

Webhook ==
    Object({"id", "type", "guild_id", "channel_id", "name", "avatar", "token"},
           <<MustNull("text", "id"), Must("number", "type"), MayNull("text", "guild_id"),
             MustNull("text", "channel_id"), MayNull("text", "name"),
             MustKeep("text", "avatar"), MayNull("text", "token")>>)

=============================================================================
