------------------------------ MODULE AuditForms ------------------------------
(***************************************************************************)
(* The audit log of a guild (include/audit_log.h and its copy in           *)
(* no_cache/): its objects, and the changes of an entry, whose two values  *)
(* have a type that depends on the change's key.                           *)
(***************************************************************************)
EXTENDS ObjectFormsNc

\* -1 stands for a colour or a position that is not there.
ChangedRoleReads(permissions) ==
    <<MayNull("text", "name"), Field(permissions, "permissions", "keeps", "default"),
      MayNull("text", "id"), May("number", "color"), May("number", "position")>>
      \o All(MayNull, "bool", <<"hoist", "managed", "mentionable">>)
ChangedRole   == Object(Members(ChangedRoleReads("text")), ChangedRoleReads("text"))
ChangedRoleNc == Object(Members(ChangedRoleReads("number")), ChangedRoleReads("number"))

EntryInfoReads ==
    All(MayNull, "text", <<"delete_member_days", "members_removed", "channel_id", "message_id",
                           "count", "id", "type", "role_name">>)
EntryInfo   == Object(Members(EntryInfoReads), EntryInfoReads)
EntryInfoNc == Object(Members(EntryInfoReads), EntryInfoReads)

EntryRest ==
    <<May("list", "changes")>> \o All(MustNull, "text", <<"user_id", "id">>)
      \o <<Must("number", "action_type"), MayNull("object", "options"), MayNull("text", "reason")>>
EntryReads == <<MayNull("text", "target_id")>> \o EntryRest
LogEntryNc == Public(EntryReads)
\* target_id() returns m_id.
LogEntry ==
    Object(Members(EntryReads),
           <<Into("m_target_id", MayNull("text", "target_id"))>> \o EntryRest
             \o <<Into("target_id", MustNull("text", "id"))>>)

AuditLogReads == All(Must, "list", <<"webhooks", "users", "integrations", "audit_log_entries">>)
AuditLog   == Object(Members(AuditLogReads), AuditLogReads)
AuditLogNc == Object(Members(AuditLogReads), AuditLogReads)

-----------------------------------------------------------------------------
\* The types of a change: for each the kind of value that its keys are read as,
\* one key standing for all that share a set.
ChangeTypes ==
    [number |-> "number", boolean |-> "bool", snowflake |-> "text", string |-> "text",
     permission_overwrites |-> "list", changed_role |-> "object"]
KeysOfType ==
    [number |->
        {"afk_timeout", "mfa_level", "verification_level", "explicit_content_filter",
         "default_message_notification", "prune_delete_days", "position", "bitrate",
         "rate_limit_per_user", "permissions", "color", "allow", "deny", "max_uses", "uses",
         "max_age"},
     string |->
        {"name", "icon_hash", "splash_hash", "region", "vanity_url_code", "topic", "code",
         "nick", "avatar_hash", "type"},
     boolean |->
        {"widget_enabled", "nsfw", "hoist", "mentionable", "deaf", "mute", "enable_emoticons"},
     snowflake |->
        {"owner_id", "afk_channel_id", "widget_channel_id", "system_channel_id",
         "application_id", "channel_id", "inviter_id", "id"},
     permission_overwrites |-> {"permission_overwrites"},
     changed_role |-> {"$add", "$remove"}]

\* The sets are looked at in this order, after the key "type".
TypeOfKey(key) ==
    IF \E t \in DOMAIN KeysOfType : key \in KeysOfType[t]
    THEN CHOOSE t \in DOMAIN KeysOfType : key \in KeysOfType[t] ELSE "unknown"

\* What a variant holds: an optional of a type, empty or with a value; at first
\* an empty one of a number.
Hold(type, v) == [type |-> type, has |-> TRUE, v |-> v]
HoldNone(type) == [type |-> type, has |-> FALSE, v |-> Default]
HoldNothing == HoldNone("number")
Thrown == [type |-> "refused", has |-> FALSE, v |-> Default]

-----------------------------------------------------------------------------
\* Mutants.
ReadThereUnset(type, value) ==
    CASE value.kind = "gone"            -> HoldNothing
      [] value.kind = ChangeTypes[type] -> Hold(type, value.v)
      [] OTHER                          -> Thrown

-----------------------------------------------------------------------------
\* A number is taken for a string, and any other kind for an empty one; a value
\* that is not there leaves the variant as it was.
ReadTypeValue(value) ==
    CASE value.kind = "gone"               -> HoldNothing
      [] value.kind \in {"text", "number"} -> Hold("string", value.v)
      [] OTHER                             -> HoldNone("string")

\* A value that is there is read, whatever it is: snowflakes and overwrites.
ReadThere(type, value) ==
    CASE value.kind = "gone"                             -> HoldNone(type)
      [] value.kind = "null" /\ type = "snowflake"       -> Hold(type, Default)
      [] value.kind = ChangeTypes[type]                  -> Hold(type, value.v)
      [] OTHER                                           -> Thrown

\* json.value(..., std::optional<T>()).  A boolean also counts as a number.
ReadOptional(type, value) ==
    CASE value.kind \in {"gone", "null"}                 -> HoldNone(type)
      [] value.kind = ChangeTypes[type]                  -> Hold(type, value.v)
      [] value.kind = "bool" /\ type = "number"          -> Hold(type, value.v)
      [] OTHER                                           -> Thrown

ReadValue(key, value) ==
    LET type == TypeOfKey(key)
    IN  CASE key = "type" -> ReadTypeValue(value)
          [] type = "unknown" -> HoldNothing
          [] type \in {"snowflake", "permission_overwrites"} -> ReadThere(type, value)
          [] OTHER -> ReadOptional(type, value)

\* from_json of a change.
Change(c) ==
    [key |-> c.key, type |-> TypeOfKey(c.key),
     old |-> ReadValue(c.key, c.old), new |-> ReadValue(c.key, c.new)]
ChangeNc(c) == Change(c)

\* is_int(), is_string() ...: which getters are for a change, and what they
\* return: std::get throws if the variant holds another type.
Getter(change, side) ==
    IF change[side].type = change.type THEN change[side] ELSE Thrown
GetterNc(change, side) == Getter(change, side)

=============================================================================
