---------------------------- MODULE MCRequestPath ----------------------------
(* What a request of the cached library goes through, checked part by part:  *)
(* the call that creates it (Requests), what a bot puts into its body        *)
(* (Mentions and Settings), the permissions and numbers in it (Permissions   *)
(* and Numbers), the queue of the connection (AsyncQueue) and the connection *)
(* itself (HttpConnection).  In each behaviour one part runs and the others  *)
(* stay as they were initialised.                                            *)
EXTENDS MCHttpConnection, AsyncQueue, Numbers

CONSTANTS
    Parts,                                          \* the parts that a run checks
    Slots, Others, Ids, Codes, Statuses,            \* of Requests
    RoleIds, UserIds, MaxIds,                       \* of Mentions
    MaxSettings                                     \* of Settings

ASSUME PartsAssumption ==
    Parts \subseteq {"http", "queue", "calls", "mentions", "settings", "permissions", "number"}
ASSUME CallsAssumption == Codes \subseteq Nat /\ Statuses \subseteq (200..599) \ {429}

VARIABLES
    part,                                           \* the part that runs
    lib, call, place, user, answers, body, blocked, exhausted, channelKnown, \* of Requests
    allowed, allowedNc, dangling,                   \* of Mentions
    of, stuff, asked                                \* of Settings

Calls == INSTANCE Requests WITH status <- answers, limits <- blocked
Allowing == INSTANCE Mentions
Changing == INSTANCE Settings

callVars == <<lib, call, place, user, answers, body, blocked, exhausted, channelKnown>>
mentionVars == <<allowed, allowedNc, dangling>>
settingVars == <<of, stuff, asked>>
valueVars == <<permissionVars, numberVars>>
pathVars == <<part, vars, queueVars, callVars, mentionVars, settingVars, valueVars>>

PathInit ==
    /\ part \in Parts
    /\ Init /\ QueueInit /\ Calls!Init /\ Allowing!MentionsInit /\ Changing!SettingsInit
    /\ PermissionsInit /\ NumberInit
    /\ part # "calls" => lib = "cached"
    /\ part # "settings" => of = "role"

HttpStep ==
    /\ part = "http" /\ Next
    /\ UNCHANGED <<part, queueVars, callVars, mentionVars, settingVars, valueVars>>
QueueStep ==
    /\ part = "queue" /\ QueueNext
    /\ UNCHANGED <<part, vars, callVars, mentionVars, settingVars, valueVars>>
CallStep ==
    /\ part = "calls" /\ Calls!Next
    /\ UNCHANGED <<part, vars, queueVars, mentionVars, settingVars, valueVars>>
MentionStep ==
    /\ part = "mentions" /\ Allowing!MentionsNext
    /\ UNCHANGED <<part, vars, queueVars, callVars, settingVars, valueVars>>
SettingStep ==
    /\ part = "settings" /\ Changing!SettingsNext
    /\ UNCHANGED <<part, vars, queueVars, callVars, mentionVars, valueVars>>
PermissionStep ==
    /\ part = "permissions" /\ PermissionsNext
    /\ UNCHANGED <<part, vars, queueVars, callVars, mentionVars, settingVars, numberVars>>
NumberStep ==
    /\ part = "number" /\ NumberNext
    /\ UNCHANGED <<part, vars, queueVars, callVars, mentionVars, settingVars, permissionVars>>

PathNext ==
    \/ HttpStep \/ QueueStep \/ CallStep \/ MentionStep \/ SettingStep
    \/ PermissionStep \/ NumberStep

(* The fairness of each part. *)
PathSpec ==
    /\ PathInit /\ [][PathNext]_pathVars
    /\ WF_vars(part = "http" /\ Send) /\ WF_vars(part = "http" /\ FireAny)
    /\ WF_vars(part = "http" /\ Tick)
    /\ \A r \in Requests :
          WF_vars(part = "http" /\ \E s \in returning : r = Head(s) /\ GiveBack(s))
    /\ \A p \in Producers : WF_queueVars(part = "queue" /\ Resume(p))
    /\ \A c \in Consumers : WF_queueVars(part = "queue" /\ Consume(c))
    /\ WF_queueVars(part = "queue" /\ CancelNext)
-----------------------------------------------------------------------------
(* Of Requests: a limit neither leaks to other guilds, channels or webhooks  *)
(* nor is missed by a call about the limited one.                            *)
LimitsStayApart == Calls!LimitsStayApart

(* Of Requests: what a coroutine gets is what Discord answered, where the    *)
(* library looks at the status and can read the answer.                      *)
OutcomeIsAnswer == Calls!OutcomeIsAnswer

(* Of Mentions: the builders and the plain records allow the same mentions.  *)
MentionsAgree == Allowing!MentionsAgree

(* Of Settings: what is asked for last is sent, and read when it comes back. *)
SettingsReadBack == Changing!SettingsReadBack

(* Of Permissions: the two libraries have the same, as PermissionsAgree says.*)
(* (Where permissions do not run there is nothing to evaluate.)              *)
PermissionsMatch == part = "permissions" => PermissionsAgree

(* Of Numbers: a big_uint is the exact number, as NumbersAreExact says.      *)
NumberIsExact == part = "number" => NumbersAreExact
=============================================================================
