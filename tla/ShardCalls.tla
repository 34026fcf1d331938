----------------------------- MODULE ShardCalls -----------------------------
(* The calls a bot makes on a shard (include/shard.h, src/shard.cpp and the  *)
(* same files of no_cache): which request a call creates and what the call   *)
(* is about, the guild, channel or webhook among its parameters (or nothing, *)
(* "None").  The cacheless calls pass ids by position, in "args".            *)
EXTENDS Routes

Call(request, about) == [request |-> request, about |-> about]
Same(about, names) == [m \in names |-> Call(m, about)]
All(about, request, names) == [m \in names |-> Call(request, about)]

MemberCalls ==
    Same("ChannelId", {"send_message"})
    ++ All("ChannelId", "send_message", {"send_reply"})
    ++ Same("GuildId", {"add_role", "remove_role", "create_role", "delete_role",
            "change_my_nick", "kick_member", "ban_member", "unban_member"})
    ++ All("GuildId", "modify_member", {"remove_all_roles", "change_nick", "assign_roles"})

ContentCalls ==
    Same("ChannelId", {"get_messages", "edit_message", "delete_message", "delete_message_bulk"})
    ++ All("ChannelId", "get_messages",
           {"get_messages_before", "get_messages_after", "get_messages_around"})
    ++ Same("GuildId", {"create_text_channel", "create_voice_channel",
            "create_channel_catagory", "delete_emoji", "modify_emoji"})

ReactionCalls ==
    Same("GuildId", {"leave_guild", "list_guild_members", "get_guild_integrations",
         "create_guild_integration"})
    ++ Same("ChannelId", {"add_reaction", "delete_own_reaction", "delete_user_reaction",
            "get_reactions", "delete_all_reactions", "delete_all_reactions_emoji",
            "typing_start", "edit_channel_permissions", "delete_channel", "add_pinned_msg",
            "remove_pinned_msg"})
    ++ All("ChannelId", "delete_channel_permission", {"delete_channel_permissions"})
    ++ Same("None", {"create_dm"})

WebhookCalls ==
    Same("None", {"get_voice_regions", "get_invite", "delete_invite"})
    ++ Same("ChannelId", {"create_channel_invite", "create_webhook", "get_channel_webhooks"})
    ++ Same("GuildId", {"get_guild_webhooks", "get_audit_log"})
    ++ Same("WebhookId", {"get_webhook", "get_webhook_token"})
    ++ All("WebhookId", "execute_webhook", {"send_with_webhook"})
    ++ All("ChannelId", "get_message", {"fetch_message"})

(* The overloads for channels and messages of a cached guild.                *)
GuildMessageCalls ==
    All("ChannelId", "send_guild_message", {"send_guild_message", "reply_to"})
GuildPageCalls ==
    All("ChannelId", "get_guild_messages",
        {"get_guild_messages", "get_guild_messages_before", "get_guild_messages_after",
         "get_guild_messages_around"})

(* The templates at the end of shard.h.  modify_role(guild_role) is not      *)
(* here: it passes no guild to target() and cannot be instantiated.          *)
TemplateCalls ==
    Same("GuildId", {"modify_channel_positions", "add_guild_member", "modify_guild"})
    ++ Same("WebhookId", {"modify_webhook"})
    ++ Same("None", {"create_group_dm"})

(* webhook_client: a webhook of which only the id and the token are known.   *)
WebhookClientCalls == All("WebhookId", "execute_webhook", {"webhook_send"})

CachedCalls ==
    MemberCalls ++ ContentCalls ++ ReactionCalls ++ WebhookCalls ++ GuildMessageCalls
    ++ GuildPageCalls ++ TemplateCalls ++ WebhookClientCalls
-----------------------------------------------------------------------------
Pass(request, about, args) == [request |-> request, about |-> about, args |-> args]
PassAll(names, about, args) == [m \in names |-> Pass(m, about, args)]
PassAs(request, names, about, args) == [m \in names |-> Pass(request, about, args)]

G == <<"GuildId">>
C == <<"ChannelId">>
CM == <<"ChannelId", "MessageId">>
CMR == <<"ChannelId", "MessageId", "Reaction">>
GU == <<"GuildId", "UserId">>
GE == <<"GuildId", "EmojiId">>

CachelessMemberCalls ==
    PassAll({"send_message"}, "ChannelId", C)
    ++ PassAll({"add_role", "remove_role"}, "GuildId", <<"GuildId", "UserId", "RoleId">>)
    ++ PassAll({"create_role", "change_my_nick"}, "GuildId", G)
    ++ PassAll({"delete_role"}, "GuildId", <<"GuildId", "RoleId">>)
    ++ PassAs("modify_member", {"remove_all_roles", "change_nick"}, "GuildId", GU)
    ++ PassAll({"kick_member", "ban_member", "unban_member"}, "GuildId", GU)

CachelessContentCalls ==
    PassAs("get_messages", {"get_messages", "get_messages_before", "get_messages_after",
           "get_messages_around"}, "ChannelId", C)
    ++ PassAll({"create_text_channel", "create_voice_channel", "create_channel_catagory",
                "leave_guild"}, "GuildId", G)
    ++ PassAll({"edit_message", "delete_message"}, "ChannelId", CM)
    ++ PassAll({"delete_message_bulk"}, "ChannelId", C)
    ++ PassAll({"delete_emoji", "modify_emoji"}, "GuildId", GE)

CachelessReactionCalls ==
    PassAll({"add_reaction", "delete_own_reaction", "get_reactions",
             "delete_all_reactions_emoji"}, "ChannelId", CMR)
    ++ PassAll({"delete_user_reaction"}, "ChannelId",
               <<"ChannelId", "MessageId", "Reaction", "UserId">>)
    ++ PassAll({"delete_all_reactions", "add_pinned_msg", "remove_pinned_msg"}, "ChannelId", CM)
    ++ PassAll({"typing_start", "delete_channel"}, "ChannelId", C)
    ++ PassAs("delete_channel_permission", {"delete_channel_permissions"}, "ChannelId",
              <<"ChannelId", "OverwriteId">>)
    ++ PassAll({"edit_channel_permissions"}, "ChannelId", <<"ChannelId", "OverwriteId">>)
    ++ PassAll({"list_guild_members", "get_guild_integrations", "create_guild_integration"},
               "GuildId", G)
    ++ PassAll({"create_dm"}, "None", <<>>)

CachelessWebhookCalls ==
    PassAll({"get_voice_regions"}, "None", <<>>)
    ++ PassAll({"create_channel_invite", "create_webhook", "get_channel_webhooks"},
               "ChannelId", C)
    ++ PassAll({"get_invite", "delete_invite"}, "None", <<"Code">>)
    ++ PassAll({"get_guild_webhooks", "get_audit_log"}, "GuildId", G)
    ++ PassAll({"get_webhook"}, "WebhookId", <<"WebhookId">>)
    ++ PassAll({"get_webhook_token"}, "WebhookId", <<"WebhookId", "Token">>)
    ++ PassAs("execute_webhook", {"send_with_webhook"}, "WebhookId", <<"WebhookId", "Token">>)
    ++ PassAs("get_message", {"fetch_message"}, "ChannelId", CM)

CachelessTemplateCalls ==
    PassAll({"modify_channel_positions", "modify_guild"}, "GuildId", G)
    ++ PassAll({"add_guild_member"}, "GuildId", GU)
    ++ PassAll({"modify_webhook"}, "WebhookId", <<"WebhookId">>)
    ++ PassAll({"create_group_dm"}, "None", <<>>)

CachelessCalls ==
    CachelessMemberCalls ++ CachelessContentCalls ++ CachelessReactionCalls
    ++ CachelessWebhookCalls ++ CachelessTemplateCalls
=============================================================================
