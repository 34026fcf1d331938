------------------------------- MODULE Objects -------------------------------
(***************************************************************************)
(* An object of either library while Discord sends new versions of it: it  *)
(* is read afresh or, where the library reads into the object that is      *)
(* there, in place.  What a handler throws is swallowed, so an object can  *)
(* be left half read.                                                      *)
(***************************************************************************)
EXTENDS AuditForms

CONSTANT MaxUpdates \* how often an object is updated

VARIABLES form,     \* of which form the object is, in both libraries
          obj,      \* the library's object
          objNc,    \* the cacheless library's
          update,   \* the number of the last update,
          oddKey,   \* ... the key that was missing, null or of another kind in it,
          oddity,   \* ... and which of these it was
          failed,   \* whether that update was refused by the library
          failedNc  \* ... and by the cacheless library

objectVars == <<form, obj, objNc, update, oddKey, oddity, failed, failedNc>>

\* Each form of the library and its cacheless counterpart.  There is none for
\* references of messages, templates, GUILD_MEMBER_UPDATE and, in the library,
\* for two more: such a form stands for itself.
Pairs ==
    [footer |-> <<Footer, FooterNc>>, image |-> <<Image, ImageNc>>,
     thumbnail |-> <<Thumbnail, ThumbnailNc>>, video |-> <<Video, VideoNc>>,
     provider |-> <<Provider, ProviderNc>>, author |-> <<Author, AuthorNc>>,
     field |-> <<EmbedField, EmbedFieldNc>>, embed |-> <<Embed, EmbedNc>>,
     user |-> <<User, UserNc>>, member |-> <<Member, MemberNc>>,
     member_update |-> <<MemberUpdate, MemberUpdate>>, role |-> <<Role, RoleNc>>,
     overwrite |-> <<Overwrite, OverwriteNc>>,
     partial_emoji |-> <<PartialEmoji, PartialEmojiNc>>, emoji |-> <<Emoji, EmojiNc>>,
     guild_update |-> <<GuildUpdate, GuildNc>>, guild |-> <<WholeGuild, WholeGuildNc>>,
     integration |-> <<Integration, IntegrationNc>>,
     partial_integration |-> <<PartialIntegration, PartialIntegrationNc>>,
     integration_account |-> <<IntegrationAccount, IntegrationAccountNc>>,
     template |-> <<Template, Template>>, channel |-> <<PartialChannel, PartialChannelNc>>,
     catagory |-> <<Catagory, CatagoryNc>>,
     text_channel |-> <<TextChannel, TextChannelNc>>,
     voice_channel |-> <<VoiceChannel, VoiceChannelNc>>,
     dm_channel |-> <<DmChannel, DmChannelNc>>, message |-> <<Message, MessageNc>>,
     msg_update |-> <<MsgUpdate, MsgUpdateNc>>,
     message_reference |-> <<MessageReference, MessageReference>>,
     attachment |-> <<Attachment, AttachmentNc>>, reaction |-> <<Reaction, ReactionNc>>,
     voice_state |-> <<VoiceState, VoiceStateNc>>,
     voice_state2 |-> <<VoiceState2, VoiceState2Nc>>,
     voice_region |-> <<VoiceRegion, VoiceRegionNc>>,
     activity |-> <<Activity, ActivityNc>>,
     presence |-> <<PartialPresence, PartialPresenceNc>>,
     invite_guild |-> <<InviteGuild, InviteGuildNc>>,
     invite_channel |-> <<InviteChannel, InviteChannelNc>>,
     invite |-> <<Invite, InviteNc>>,
     invite_metadata |-> <<InviteMetadata, InviteMetadataNc>>,
     webhook |-> <<Webhook, WebhookNc>>, changed_role |-> <<ChangedRole, ChangedRoleNc>>,
     entry_info |-> <<EntryInfo, EntryInfoNc>>, audit_log_entry |-> <<LogEntry, LogEntryNc>>,
     audit_log |-> <<AuditLog, AuditLogNc>>,
     client_status |-> <<ClientStatusNc, ClientStatusNc>>,
     unavailable_guild |-> <<UnavailableGuildNc, UnavailableGuildNc>>]

Names == DOMAIN Pairs

\* A form of both libraries: the keys that matter to it, and an object of it
\* before anything is read.
FormOf(name, lib, nc) ==
    LET keys == UNION {Keys(f.reads) \cup f.shows \cup Keys(f.writes) : f \in {lib, nc}}
    IN  [name |-> name, lib |-> lib, nc |-> nc, keys |-> keys,
         blank |-> [m \in keys \cup Members(lib.reads \o nc.reads) |-> Default]]

-----------------------------------------------------------------------------
\* What the n-th update says of a key, if one of its keys is odd in some way.
\* The two libraries speak different versions of the API, and get the kinds they
\* expect.
Says(n, odd, how, k) ==
    IF k # odd THEN Value("fitting", <<k, n>>)
    ELSE CASE how = "gone" -> Gone
           [] how = "null" -> Null
           [] OTHER        -> Odd

Needed(reads, k) == \E i \in DOMAIN reads : reads[i].key = k /\ reads[i].gone = "throws"

\* What an object is after an update: a read in place keeps what it read before
\* it threw, another read throws the new object away.
After(f, old, blank, json) ==
    LET r == ReadInto(f.reads, IF f.inPlace THEN old ELSE blank, json)
    IN  [obj |-> IF r.threw /\ ~ f.inPlace THEN old ELSE r.obj, threw |-> r.threw]

Update(k, what) ==
    /\ update < MaxUpdates
    /\ what = "gone" =>
         ~ Needed(form.lib.reads, k) /\ ~ Needed(form.nc.reads, k)
    /\ update' = update + 1 /\ oddKey' = k /\ oddity' = what /\ form' = form
    /\ LET json == [key \in form.keys |-> Says(update + 1, k, what, key)]
           r    == After(form.lib, obj, form.blank, json)
           rNc  == After(form.nc, objNc, form.blank, json)
       IN  /\ obj' = r.obj /\ failed' = r.threw
           /\ objNc' = rNc.obj /\ failedNc' = rNc.threw

\* A program builds an object with the setters of its form; a part of an embed may
\* be one of which nothing is set.
Set(m, v) ==
    /\ update = 0
    /\ v = Hollow => form.name = "embed" /\ m \in MayBeHollow
    /\ obj' = IF m \in form.lib.sets THEN [obj EXCEPT ![m] = v] ELSE obj
    /\ objNc' = IF m \in form.nc.sets THEN [objNc EXCEPT ![m] = v] ELSE objNc
    /\ UNCHANGED <<form, update, oddKey, oddity, failed, failedNc>>

ObjectsInit ==
    /\ form \in {FormOf(n, Pairs[n][1], Pairs[n][2]) : n \in Names}
    /\ obj = form.blank /\ objNc = form.blank
    /\ update = 0 /\ oddKey = "none" /\ oddity = "none" /\ failed = FALSE /\ failedNc = FALSE

\* An update is of all keys, but for at most one that is odd; the first is whole.
ObjectsNext ==
    \/ Update("none", "none")
    \/ update > 0 /\ \E k \in form.keys, what \in {"gone", "null", "wrong"} : Update(k, what)
    \/ \E m \in form.lib.sets \cup form.nc.sets : \E v \in {<<m, 0>>, Hollow} : Set(m, v)

-----------------------------------------------------------------------------
\* What an object shows but its from_json does not read, or reads of another
\* key; and a nick, which GUILD_MEMBER_UPDATE does not clear.
Unfaithful ==
    {"user", "member", "member_update"} \X {"public_flags", "premium_type"}
      \cup {<<"member", "joined_at">>, <<"member_update", "nick">>, <<"embed", "timestamp">>,
            <<"emoji", "roles">>, <<"emoji", "user_id">>, <<"guild", "joined_at">>,
            <<"integration", "id">>, <<"integration", "name">>, <<"integration", "type">>,
            <<"integration", "account">>, <<"integration", "synced_at">>,
            <<"template", "created_at">>, <<"template", "updated_at">>,
            <<"dm_channel", "last_pin_timestamp">>, <<"attachment", "width">>,
            <<"attachment", "height">>, <<"activity", "url">>, <<"invite_metadata", "user">>,
            <<"invite_metadata", "uses">>, <<"audit_log_entry", "target_id">>}

\* NothingStale. After an update that was read, and whatever failed before it,
\* every accessor tells what that update said of it: a key that is gone or null
\* does not leave the old value behind, and what an update that threw half way
\* left behind is overwritten. Unfaithful lists those that do not.
NothingStale ==
    update > 0 /\ ~ failed =>
        \A m \in form.lib.shows :
            <<form.name, m>> \in Unfaithful \/ obj[m] = Says(update, oddKey, oddity, m).v

\* What is not written: a user and a channel of private messages cannot be read
\* again without the rest.
NotSent == {<<"embed", "timestamp">>, <<"channel", "type">>}
SentAndRead == Names \ {"user", "dm_channel"}

ReadsBack(f, o) ==
    LET json == [k \in Keys(f.reads) |-> WrittenAs(f.writes, o, k)]
        r    == ReadInto(f.reads, form.blank, json)
    IN  IF StaysNull(f.writes, o) THEN ThrowsOnNull(f.reads)
        ELSE /\ ~ r.threw
             /\ \A m \in f.shows : \/ <<form.name, m>> \in NotSent
                                  \/ r.obj[m] = o[m]
                                  \/ (o[m] = Hollow /\ r.obj[m] = Default)

\* WrittenReadsBack. What a program built or the library read, sent as JSON and
\* read again, is the same object, in both libraries, but for what NotSent lists
\* and for what nothing was set of: alone that is null, and reading it throws, as
\* a part of an embed it is not there when the embed is read again.
WrittenReadsBack ==
    form.name \in SentAndRead =>
        /\ form.lib.writes # <<>> => ReadsBack(form.lib, obj)
        /\ form.nc.writes # <<>> => ReadsBack(form.nc, objNc)

\* The keys that both libraries read, and those whose null only one of them takes.
ReadByBoth == Keys(form.lib.reads) \cap Keys(form.nc.reads)
NullTakenByOne ==
    {<<"member", "roles">>, <<"message", "attachments">>, <<"message", "reactions">>,
     <<"overwrite", "allow">>, <<"overwrite", "deny">>, <<"voice_state", "member">>,
     <<"voice_state2", "member">>}

\* What the libraries show of different keys.
ShownApart == {<<"audit_log_entry", "target_id">>}

\* LibrariesReadAlike. Of the same object, each in the version of the API that it
\* speaks, the two libraries read the same into the members that both show, and
\* refuse it together, also when a key that both read is missing, null or of
\* another kind; NullTakenByOne and ShownApart list the exceptions.
LibrariesReadAlike ==
    /\ update > 0 /\ oddKey \in ReadByBoth \cup {"none"}
    /\ ~ (oddity = "null" /\ <<form.name, oddKey>> \in NullTakenByOne)
    => /\ failed <=> failedNc
       /\ ~ failed => \A m \in form.lib.shows \cap form.nc.shows :
            <<form.name, m>> \in ShownApart \/ obj[m] = objNc[m]

=============================================================================
