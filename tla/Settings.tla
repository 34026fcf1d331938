------------------------------ MODULE Settings ------------------------------
(***************************************************************************)
(* The changes that a bot asks Discord to make to a guild, a role or a     *)
(* webhook: a chain of calls on modify_guild_settings,                     *)
(* modify_role_settings or modify_webhook_settings (which are the same in  *)
(* no_cache/), each of which returns a larger type.  A setting's struct    *)
(* has the name of the key that is sent.                                   *)
(***************************************************************************)
EXTENDS AuditForms

CONSTANT MaxSettings \* the length of a chain

VARIABLES of,    \* what is modified
          stuff, \* the builder's tuple of settings
          asked  \* history: the value last asked for each key

settingsVars == <<of, stuff, asked>>

GuildSettings ==
    [name |-> "text", voice_region |-> "text", verification_level |-> "number",
     default_message_notifications |-> "number", explicit_content_filter |-> "number",
     afk_channel_id |-> "text", afk_timeout |-> "number", icon |-> "text", owner_id |-> "text",
     splash |-> "text", banner |-> "text", system_channel_id |-> "text"]
RoleSettings ==
    [name |-> "text", permissions |-> "text", color |-> "number", hoist |-> "bool",
     mentionable |-> "bool"]
WebhookSettings == [name |-> "text", avatar |-> "text", channel_id |-> "text"]
SettingsOf == [guild |-> GuildSettings, role |-> RoleSettings, webhook |-> WebhookSettings]

\* The cacheless library sends permissions as a number.
GuildSettingsNc   == GuildSettings
RoleSettingsNc    == [RoleSettings EXCEPT !.permissions = "number"]
WebhookSettingsNc == WebhookSettings
SettingsOfNc ==
    [guild |-> GuildSettingsNc, role |-> RoleSettingsNc, webhook |-> WebhookSettingsNc]

-----------------------------------------------------------------------------
\* Mutants.
WithSettingFirst(settings, setting) == <<setting>> \o settings

-----------------------------------------------------------------------------
\* std::tuple_cat(std::move(stuff), std::tuple(setting)).
WithSetting(settings, setting) == Append(settings, setting)

\* body[setting.vname] = setting.n, for one after the other.
Body(settings, k) == settings[Max({i \in DOMAIN settings : settings[i].vname = k})].n

Setting(k, n) ==
    /\ Len(stuff) < MaxSettings
    /\ stuff' = WithSetting(stuff, [vname |-> k, n |-> n])
    /\ asked' = [x \in DOMAIN asked \cup {k} |-> IF x = k THEN n ELSE asked[x]]
    /\ UNCHANGED of

SettingsInit == of \in DOMAIN SettingsOf /\ stuff = <<>> /\ asked = <<>>

\* Calls are numbered, so that no two of them ask for the same value.
SettingsNext == \E k \in DOMAIN SettingsOf[of] : Setting(k, Len(stuff) + 1)

-----------------------------------------------------------------------------
\* What is sent under keys that nothing reads: Discord's "region", which guilds
\* are read from, and the colour of a role.
NotReadBack == {<<"guild", "voice_region">>, <<"guild", "banner">>, <<"role", "color">>}

Forms == [guild |-> GuildUpdate, role |-> Role, webhook |-> Webhook]
FormsNc == [guild |-> GuildNc, role |-> RoleNc, webhook |-> WebhookNc]

\* A field of the object takes what was sent.
Takes(form, kind, k) ==
    \E i \in DOMAIN form.reads :
        form.reads[i].key = k /\ Outcome(form.reads[i], Value(kind, 1)) = "takes"

\* SettingsReadBack. However long a chain of settings and whatever was set twice
\* in it, the body has under each key what was asked for last, and when Discord
\* sends the guild, the role or the webhook back, both libraries take it as
\* what was sent; NotReadBack lists the exceptions.
SettingsReadBack ==
    /\ DOMAIN asked = {stuff[i].vname : i \in DOMAIN stuff}
    /\ \A k \in DOMAIN asked :
         /\ Body(stuff, k) = asked[k]
         /\ <<of, k>> \notin NotReadBack =>
              /\ Takes(Forms[of], SettingsOf[of][k], k)
              /\ Takes(FormsNc[of], SettingsOfNc[of][k], k)

=============================================================================
