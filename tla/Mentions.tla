------------------------------ MODULE Mentions ------------------------------
(***************************************************************************)
(* Whom a message may mention (include/allowed_mentions.h and its copy in  *)
(* no_cache/): allowed_mentions<flags>, whose type carries what was        *)
(* allowed so far and decides which calls compile, and the two plain       *)
(* records of the same header.  Both libraries' builders are driven by the *)
(* same calls.                                                             *)
(***************************************************************************)
EXTENDS Integers, Sequences

CONSTANTS RoleIds, UserIds, MaxIds

VARIABLES allowed,  \* allowed_mentions<flags> of the library
          allowedNc,\* allowed_mentions<flags> of the cacheless library
          dangling  \* the bot holds a reference to a builder that is gone

mentionVars == <<allowed, allowedNc, dangling>>

\* The flags of the type: everybody, every role, every user, listed roles,
\* listed users.
Everything == {"everyone", "roles", "users"}
Listed     == {"some_roles", "some_users"}

NoMentions == [flags |-> {}, roles_ids |-> <<>>, user_ids |-> <<>>]

-----------------------------------------------------------------------------
\* Mutants.
WithFlagForgets(m, f) == [NoMentions EXCEPT !.flags = m.flags \cup {f}]

-----------------------------------------------------------------------------
\* allowed_mentions<flags | f>(*this): the lists move along.
WithFlag(m, f) == [m EXCEPT !.flags = @ \cup {f}]

\* everyone(), all_roles() and all_users() compile once, and not beside a list.
CanAllow(m, f) ==
    /\ f \notin m.flags
    /\ f = "roles" => "some_roles" \notin m.flags
    /\ f = "users" => "some_users" \notin m.flags

\* The vector of users is there only in a type that has the flag for roles
\* (vector_if_has_users tests allow_some_roles).
CanAddRoles(m) == "roles" \notin m.flags
CanAddUsers(m) == "users" \notin m.flags /\ "some_roles" \in m.flags

\* Ids or objects are passed one by one (without any the overloads are
\* ambiguous), and to a type with the flag as a range too, which may be empty.
Callable(m, flag, ids) == ids # <<>> \/ flag \in m.flags

AddRoles(m, ids) == [WithFlag(m, "some_roles") EXCEPT !.roles_ids = @ \o ids]
AddUsers(m, ids) == [WithFlag(m, "some_users") EXCEPT !.user_ids = @ \o ids]

\* The cacheless library's: once the type has the flag, add_users appends to
\* the roles.
AllowNc(m, f)      == WithFlag(m, f)
AddRolesNc(m, ids) == AddRoles(m, ids)
AddUsersNc(m, ids) ==
    IF "some_users" \in m.flags THEN [m EXCEPT !.roles_ids = @ \o ids] ELSE AddUsers(m, ids)

-----------------------------------------------------------------------------
\* to_json.
ListIf(cond, ids) == IF cond THEN [given |-> TRUE, ids |-> ids] ELSE [given |-> FALSE]

ToJson(m) ==
    [parse |-> m.flags \cap Everything,
     roles |-> ListIf("some_roles" \in m.flags, m.roles_ids),
     users |-> ListIf("some_users" \in m.flags, m.user_ids)]
ToJsonNc(m) == ToJson(m)

\* allowed_mentions1: a list counts only if not everything is allowed, and an
\* empty one is left out.
ToJson1(m) ==
    [parse |-> {f \in Everything : m[f]},
     roles |-> ListIf(~ m.roles /\ m.role_ids # <<>>, m.role_ids),
     users |-> ListIf(~ m.users /\ m.user_ids # <<>>, m.user_ids)]
ToJson1Nc(m) == ToJson1(m)

\* allowed_mentions2: a variant holds either whether all are allowed or a list.
Held(variant) ==
    IF "list" \in DOMAIN variant THEN ListIf(TRUE, variant.list) ELSE ListIf(FALSE, <<>>)
ToJson2(m) ==
    [parse |-> {f \in Everything : m[f] = [all |-> TRUE]},
     roles |-> Held(m.roles), users |-> Held(m.users)]

\* disable_mentions: an object with an empty "parse".
DisableMentions == ToJson(NoMentions)

-----------------------------------------------------------------------------
Allow(f) ==
    /\ CanAllow(allowed, f)
    /\ allowed' = WithFlag(allowed, f)
    /\ allowedNc' = AllowNc(allowedNc, f)
    /\ UNCHANGED dangling

AddSomeRoles(ids) ==
    /\ CanAddRoles(allowed) /\ Callable(allowed, "some_roles", ids)
    /\ allowed' = AddRoles(allowed, ids)
    /\ allowedNc' = AddRolesNc(allowedNc, ids)
    /\ UNCHANGED dangling

AddSomeUsers(ids) ==
    /\ CanAddUsers(allowed) /\ Callable(allowed, "some_users", ids)
    /\ allowed' = AddUsers(allowed, ids)
    /\ allowedNc' = AddUsersNc(allowedNc, ids)
    /\ UNCHANGED dangling

\* add_users of a range, on a type without the flag, returns a reference to
\* its own local: what the bot reads from it is undefined.  (add_roles of a
\* range, on a type without the flag, compiles for none: it appends to a
\* member that the type of its local does not have.)
AddFirstUserRange ==
    /\ CanAddUsers(allowed) /\ "some_users" \notin allowed.flags
    /\ dangling' = TRUE
    /\ UNCHANGED <<allowed, allowedNc>>

\* The arguments of one call: none, one or two ids.
Arguments(S) == {<<>>} \cup {<<x>> : x \in S} \cup {<<x, y>> : x, y \in S}

MentionsInit == allowed = NoMentions /\ allowedNc = NoMentions /\ dangling = FALSE

MentionsNext ==
    /\ ~ dangling
    /\ \/ AddFirstUserRange
       \/ \E f \in Everything : Allow(f)
       \/ \E ids \in Arguments(RoleIds) :
            Len(allowed.roles_ids) + Len(ids) <= MaxIds /\ AddSomeRoles(ids)
       \/ \E ids \in Arguments(UserIds) :
            Len(allowed.user_ids) + Len(ids) <= MaxIds /\ AddSomeUsers(ids)

-----------------------------------------------------------------------------
\* What Discord makes of a kind of mention: all of them, or those listed.
IdsOf(s) == {s[i] : i \in DOMAIN s}
Pings(json, kind) ==
    IF kind \in json.parse THEN [all |-> TRUE]
    ELSE IF json[kind].given THEN [some |-> IdsOf(json[kind].ids)] ELSE [some |-> {}]

\* The same content in the two plain records.
AsPlain(m) ==
    [everyone |-> "everyone" \in m.flags, roles |-> "roles" \in m.flags,
     users |-> "users" \in m.flags, role_ids |-> m.roles_ids, user_ids |-> m.user_ids]
AsVariants(m) ==
    [everyone |-> [all |-> "everyone" \in m.flags],
     roles |-> IF "some_roles" \in m.flags THEN [list |-> m.roles_ids]
               ELSE [all |-> "roles" \in m.flags],
     users |-> IF "some_users" \in m.flags THEN [list |-> m.user_ids]
               ELSE [all |-> "users" \in m.flags]]

\* MentionsAgree. However an allowed_mentions was put together, the builder and
\* the two plain records of the same content allow the same mentions, none allows
\* a kind of mention as a whole and lists it too, even a plain record that
\* was filled with both; and the cacheless library's builder agrees as long as
\* users were added in one call.  Of a builder whose first users came as a range
\* nothing is said: it is a dangling reference.
MentionsAgree == ~ dangling =>
    LET json  == ToJson(allowed)
        plain == AsPlain(allowed)
        forms == {ToJson1(plain), ToJson2(AsVariants(allowed))}
        both  == {ToJson1([plain EXCEPT !.roles = TRUE, !.users = u]) : u \in BOOLEAN}
    IN  /\ \A form \in forms :
             /\ form.parse = json.parse
             /\ \A kind \in {"roles", "users"} : Pings(form, kind) = Pings(json, kind)
        /\ \A form \in forms \cup both \cup {json}, kind \in {"roles", "users"} :
             kind \in form.parse => ~ form[kind].given
        /\ allowed.user_ids = allowedNc.user_ids => ToJsonNc(allowedNc) = json

=============================================================================
