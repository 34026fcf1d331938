------------------------------- MODULE Routes -------------------------------
(* The requests of both libraries (include/requests.h, no_cache/requests.h): *)
(* verb, whether a JSON body belongs to it, and the path after "/api/v8" (or *)
(* v6) with the kind of the id that target() formats into each place.        *)
EXTENDS Tables, Sequences

Kinds == {"GuildId", "ChannelId", "MessageId", "UserId", "RoleId", "EmojiId",
          "OverwriteId", "WebhookId", "Reaction", "Token", "Code"}

Route(verb, json, path) == [verb |-> verb, json |-> json, path |-> path]
Get(path) == Route("get", FALSE, path)
Put(path) == Route("put", FALSE, path)
Delete(path) == Route("delete", FALSE, path)

Message == <<"channels", "ChannelId", "messages", "MessageId">>
Messages == <<"channels", "ChannelId", "messages">>
Member == <<"guilds", "GuildId", "members", "UserId">>
Channels == <<"guilds", "GuildId", "channels">>

MemberRoutes == [
    get_guild       |-> Get(<<"guilds", "GuildId">>),
    send_message    |-> Route("post", TRUE, Messages),
    send_guild_message |-> Route("post", TRUE, Messages),
    send_message_with_file |-> Route("post", TRUE, Messages),
    add_role        |-> Put(<<"guilds", "GuildId", "members", "UserId", "roles", "RoleId">>),
    remove_role     |-> Delete(<<"guilds", "GuildId", "members", "UserId", "roles", "RoleId">>),
    create_role     |-> Route("post", TRUE, <<"guilds", "GuildId", "roles">>),
    delete_role     |-> Delete(<<"guilds", "GuildId", "roles", "RoleId">>),
    modify_role     |-> Route("patch", TRUE, <<"guilds", "GuildId", "roles", "RoleId">>),
    kick_member     |-> Delete(Member),
    ban_member      |-> Route("put", TRUE, <<"guilds", "GuildId", "bans", "UserId">>)]

ContentRoutes == [
    modify_member   |-> Route("patch", TRUE, Member),
    change_my_nick  |-> Route("patch", TRUE, <<"guilds", "GuildId", "members", "@me", "nick">>),
    delete_message  |-> Delete(Message),
    edit_message    |-> Route("patch", TRUE, Message),
    get_messages    |-> Route("get", TRUE, Messages),
    get_guild_messages |-> Route("get", TRUE, Messages),
    unban_member    |-> Delete(<<"guilds", "GuildId", "bans", "UserId">>),
    create_text_channel  |-> Route("post", TRUE, Channels),
    create_voice_channel |-> Route("post", TRUE, Channels),
    create_channel_catagory |-> Route("post", TRUE, Channels)]

GuildRoutes == [
    delete_emoji    |-> Delete(<<"guilds", "GuildId", "emojis", "EmojiId">>),
    modify_emoji    |-> Route("patch", TRUE, <<"guilds", "GuildId", "emojis", "EmojiId">>),
    delete_message_bulk |->
        Route("post", TRUE, <<"channels", "ChannelId", "messages", "bulk-delete">>),
    leave_guild     |-> Delete(<<"@me", "guilds", "GuildId">>),
    get_voice_regions |-> Get(<<"voice", "regions">>),
    current_guilds  |-> Get(<<"users", "@me", "guilds">>)]

ReactionRoutes ==
    LET All == <<"channels", "ChannelId", "messages", "MessageId", "reactions">>
        One == <<"channels", "ChannelId", "messages", "MessageId", "reactions", "Reaction">>
        By(user) == <<"channels", "ChannelId", "messages", "MessageId", "reactions", "Reaction",
                      user>>
    IN  [add_reaction         |-> Put(By("@me")),
         delete_own_reaction  |-> Delete(By("@me")),
         delete_user_reaction |-> Delete(By("UserId")),
         get_reactions        |-> Get(One),
         delete_all_reactions |-> Delete(All),
         delete_all_reactions_emoji |-> Delete(One),
         typing_start |-> Route("post", FALSE, <<"channels", "ChannelId", "typing">>),
         delete_channel_permission |->
            Delete(<<"channels", "ChannelId", "permissions", "OverwriteId">>)]

ChannelRoutes ==
    LET Pin == <<"channels", "ChannelId", "pins", "MessageId">> IN
    [modify_guild     |-> Route("patch", TRUE, <<"guild", "GuildId">>),
     modify_channel_positions |-> Route("patch", TRUE, Channels),
     add_guild_member |-> Route("put", TRUE, Member),
     delete_channel   |-> Delete(<<"channels", "ChannelId">>),
     add_pinned_msg   |-> Put(Pin),
     remove_pinned_msg |-> Delete(Pin),
     list_guild_members |-> Route("get", TRUE, <<"guilds", "GuildId", "members">>),
     edit_channel_permissions |->
        Route("put", TRUE, <<"channels", "ChannelId", "permissions", "OverwriteId">>)]

InviteRoutes == [
    create_dm       |-> Route("post", TRUE, <<"users", "@me", "channels">>),
    create_group_dm |-> Route("post", TRUE, <<"users", "@me", "channels">>),
    create_channel_invite |-> Route("post", TRUE, <<"channels", "ChannelId", "invites">>),
    get_invite      |-> Route("get", TRUE, <<"invites", "Code">>),
    delete_invite   |-> Delete(<<"invites", "Code">>),
    get_guild_integrations |-> Get(<<"guilds", "GuildId", "integrations">>),
    create_guild_integration |-> Route("post", TRUE, <<"guilds", "GuildId", "integrations">>),
    get_message     |-> Get(Message)]

(* The guild's webhooks are asked for under "channels".                      *)
WebhookRoutes == [
    get_webhook          |-> Get(<<"webhooks", "WebhookId">>),
    get_webhook_token    |-> Get(<<"webhooks", "WebhookId", "Token">>),
    get_channel_webhooks |-> Get(<<"channels", "ChannelId", "webhooks">>),
    get_guild_webhooks   |-> Get(<<"channels", "GuildId", "webhooks">>),
    create_webhook       |-> Route("post", TRUE, <<"channels", "ChannelId", "webhooks">>),
    execute_webhook      |-> Route("post", TRUE, <<"webhooks", "WebhookId", "Token">>),
    modify_webhook       |-> Route("patch", TRUE, <<"webhooks", "WebhookId">>),
    get_audit_log        |-> Get(<<"guilds", "GuildId", "audit-logs">>),
    get_guild_channels   |-> Get(Channels)]

Routes ==
    MemberRoutes ++ ContentRoutes ++ GuildRoutes ++ ReactionRoutes ++ ChannelRoutes
    ++ InviteRoutes ++ WebhookRoutes

(* The requests whose return_type is void, the same in both libraries.       *)
VoidRequests == {"add_role", "remove_role", "delete_role", "kick_member", "ban_member",
    "modify_member", "change_my_nick", "delete_message", "unban_member", "delete_emoji",
    "delete_message_bulk", "leave_guild", "add_reaction", "delete_own_reaction",
    "delete_user_reaction", "delete_all_reactions", "delete_all_reactions_emoji", "typing_start",
    "delete_channel_permission", "modify_channel_positions", "delete_channel", "add_pinned_msg",
    "remove_pinned_msg", "edit_channel_permissions", "create_guild_integration",
    "execute_webhook"}
-----------------------------------------------------------------------------
(* The cacheless library has the same routes, without the two requests that  *)
(* belong to a cached guild; its target() functions take bare snowflakes and *)
(* format them in the order they come.                                       *)
Without(routes, names) == [q \in DOMAIN routes \ names |-> routes[q]]

CachelessMemberRoutes == Without(MemberRoutes, {"send_guild_message"})
CachelessContentRoutes == Without(ContentRoutes, {"get_guild_messages"})
CachelessGuildRoutes == Without(GuildRoutes, {})
CachelessReactionRoutes == Without(ReactionRoutes, {})
CachelessChannelRoutes == Without(ChannelRoutes, {})
CachelessInviteRoutes == Without(InviteRoutes, {})
CachelessWebhookRoutes == Without(WebhookRoutes, {})

CachelessRoutes ==
    CachelessMemberRoutes ++ CachelessContentRoutes ++ CachelessGuildRoutes
    ++ CachelessReactionRoutes ++ CachelessChannelRoutes ++ CachelessInviteRoutes
    ++ CachelessWebhookRoutes
=============================================================================
