---------------------------- MODULE ObjectFormsNc ----------------------------
(***************************************************************************)
(* The same objects in the cacheless library, whose members are public.    *)
(* It is an older copy: what is read in the same way is the library's      *)
(* form, the rest is spelled out.                                          *)
(***************************************************************************)
EXTENDS ObjectForms

\* All that is read is shown.
Public(reads) == Object(Members(reads), reads)
PublicBoth(reads, writes) == Both(Members(reads), reads, writes)

UserReadsNc ==
    <<MustNull("text", "id"), Must("text", "username"), May("bool", "bot"),
      May("text", "discriminator"), MustNull("text", "avatar")>>
UserWritesNc ==
    All(Writes, "text", <<"id", "username">>)
      \o <<Writes("bool", "bot"), Writes("number", "discriminator")>>
UserNc == PublicBoth(UserReadsNc, UserWritesNc)

MemberReadsSwapped == \* a mutant: deaf and mute of each other's key
    UserReadsNc \o <<Keep("text", "nick"), Must("list", "roles"),
                     Into("mute", Must("bool", "deaf")), Into("deaf", Must("bool", "mute"))>>
MemberReadsNc ==
    UserReadsNc \o <<Keep("text", "nick"), Must("list", "roles")>>
      \o All(Must, "bool", <<"deaf", "mute">>)
MemberNc == Public(MemberReadsNc)

RoleReadsNc ==
    <<MustNull("text", "id"), Must("number", "position"), MustNull("number", "permissions")>>
      \o All(Must, "bool", <<"hoist", "managed">>)
      \o <<Must("text", "name"), Must("bool", "mentionable")>>
RoleWritesNc ==
    <<Writes("number", "position"), Writes("number", "permissions"), Writes("text", "id")>>
      \o All(Writes, "bool", <<"hoist", "mentionable">>)
      \o <<Writes("text", "name"), Writes("bool", "managed")>>
RoleNc == PublicBoth(RoleReadsNc, RoleWritesNc)

OverwriteReadsNc ==
    <<MustNull("text", "id"), Must("text", "type")>> \o All(Must, "number", <<"allow", "deny">>)
OverwriteWritesNc ==
    <<Writes("text", "id"), Writes("text", "type")>> \o All(Writes, "number", <<"allow", "deny">>)
OverwriteNc == PublicBoth(OverwriteReadsNc, OverwriteWritesNc)

PartialEmojiNc == Public(PartialEmojiReads)
EmojiNc        == Object({"id", "name", "animated", "roles", "user_id"}, PartialEmojiReads)

\* Here, too, the widget's channel gets the value of application_id.
GuildReadsNc ==
    <<MustNull("text", "id"), Must("text", "name"), MustNull("text", "icon"),
      MustNull("text", "splash"), MustNull("text", "owner_id"), MayNull("number", "permissions"),
      Must("text", "region"), MustNull("text", "afk_channel_id"), Must("number", "afk_timeout"),
      May("bool", "embed_enabled"), MayNull("text", "embed_channel_id")>>
      \o All(Must, "number", <<"verification_level", "default_message_notifications",
                               "explicit_content_filter">>)
      \o <<MustNull("list", "roles")>> \o All(Must, "list", <<"emojis", "features">>)
      \o <<Must("number", "mfa_level"), Keep("text", "application_id"),
           May("bool", "widget_enabled"), Into("nothing", MayNull("text", "widget_channel_id")),
           MustNull("text", "system_channel_id")>>
GuildNc == Public(GuildReadsNc)
\* The channels of the guild are read one by one.
WholeGuildReadsNc ==
    GuildReadsNc \o All(Must, "bool", <<"large", "unavailable">>)
      \o <<Must("number", "member_count"), Must("list", "voice_states"), MustNull("list", "channels")>>
WholeGuildNc == Public(WholeGuildReadsNc)

IntegrationNc        == Integration
PartialIntegrationNc == PartialIntegration
IntegrationAccountNc == IntegrationAccount

ChannelReadsNc == <<MustNull("text", "id"), May("text", "name")>>
PartialChannelNc == PublicBoth(ChannelReadsNc, All(Writes, "text", <<"id", "name">>))
GuildChannelReadsNc ==
    ChannelReadsNc
      \o <<MayNull("text", "guild_id"), May("bool", "nsfw"), Must("number", "position"),
           Must("list", "permission_overwrites"), MayNull("text", "parent_id")>>
CatagoryNc == Public(GuildChannelReadsNc)
TextChannelReadsNc ==
    GuildChannelReadsNc \o <<MustNull("text", "topic"), MayNull("text", "last_message_id")>>
TextChannelNc == Public(TextChannelReadsNc)
VoiceChannelReadsNc == GuildChannelReadsNc \o All(Must, "number", <<"user_limit", "bitrate">>)
VoiceChannelNc == Public(VoiceChannelReadsNc)
DmChannelReadsNc ==
    ChannelReadsNc \o <<MustNull("list", "recipients"), MustNull("text", "last_message_id")>>
DmChannelWritesNc == All(Writes, "text", <<"id", "name", "last_message_id">>)
DmChannelNc == PublicBoth(DmChannelReadsNc, DmChannelWritesNc)

MessageReadsNc ==
    <<MustNull("text", "author")>> \o All(MustNull, "text", <<"id", "channel_id">>)
      \o <<Must("text", "content"), Must("bool", "mention_everyone"), Present("timestamp"),
           Must("bool", "tts"), Must("list", "attachments"), May("list", "reactions")>>
MessageNc == Public(MessageReadsNc)
MsgUpdateNc    == Public(MsgUpdateReads)
AttachmentNc   == Attachment
ReactionNc     == Public(ReactionReads)

VoiceStateReadsNc ==
    All(MustNull, "text", <<"channel_id", "user_id">>) \o <<Must("text", "session_id")>>
      \o All(Must, "bool", <<"deaf", "mute", "self_deaf", "self_mute", "suppress">>)
      \o <<IfThere("object", "member"), Field("text", "guild_id", "keeps", "default")>>
VoiceStateNc  == Public(VoiceStateReadsNc)
VoiceState2Nc == Public(VoiceStateReadsNc \o <<MustNull("text", "guild_id")>>)
VoiceRegionNc == VoiceRegion

ActivityNc        == Activity
PartialPresenceNc == Public(PresenceReads)
ClientStatusNc    == Public(All(IfThere, "text", <<"desktop", "mobile", "web">>))

InviteGuildNc    == InviteGuild
InviteChannelNc  == InviteChannel
InviteNc         == Invite
InviteMetadataNc == InviteMetadata
WebhookNc        == Webhook
UnavailableGuildNc == Public(<<MustNull("text", "guild_id"), Must("bool", "unavailable")>>)

=============================================================================
