------------------------------ MODULE Requests ------------------------------
(* A bot's requests from the call to the value: a call of ShardCalls builds  *)
(* the path, the connection takes the rate-limit bucket out of the path, the *)
(* awaiter gets the answer and turns it into a value or an exception.  In    *)
(* the cached library nothing is sent before the request is awaited or       *)
(* executed; in the cacheless one the call itself sends.  The connection is  *)
(* here only its set of limited buckets (HttpConnection has the rest).       *)
EXTENDS ShardCalls, FiniteSetsExt

CONSTANTS
    Slots,          \* bound: the requests of a behaviour, 1..n
    Others,         \* bound: the calls that requests after the first are made by
    Ids,            \* ids of one kind
    Codes,          \* the first numbers in the invite codes a bot uses, none a snowflake
    Statuses        \* HTTP statuses of Discord's answers, 429 aside

VARIABLES
    lib,            \* "cached" or "cacheless"
    call,           \* call[i]: the method, its id and its route, or NoCall
    place,          \* "free", "created", "held", "wire", "answered"
    user,           \* the coroutine: "none", "waiting", "posted", "value", "threw", "ignored"
    status,         \* status[i]: of the answer, 0 before it
    body,           \* body[i]: what the answer holds, "none" before it
    limits,         \* the buckets the rate limiter holds
    exhausted,      \* history: what Discord refused, <<resource, bucket of the call>>
    channelKnown    \* the guild channel is in the cache

vars == <<lib, call, place, user, status, body, limits, exhausted, channelKnown>>

NoCall == <<>>
MethodsOf(l) == IF l = "cached" THEN CachedCalls ELSE CachelessCalls
RoutesOf(l) == IF l = "cached" THEN Routes ELSE CachelessRoutes
-----------------------------------------------------------------------------
(* The id behind a parameter: every snowflake is one of a kind.              *)
IdOf(kind, id, code) == IF kind = "Code" THEN <<"digits", code>> ELSE <<kind, id>>

(* target(): the segments of the path in order; of a cacheless call only     *)
(* what it passes to be formatted into them.                                 *)
Target(l, m) ==
    LET c == MethodsOf(l)[m] IN
    IF l = "cached" THEN RoutesOf(l)[c.request].path ELSE c.args

(* The segments with a digit in them.                                        *)
Numbered(target, code) ==
    {i \in DOMAIN target : target[i] \in Kinds /\ (target[i] = "Code" => code # 0)}

(* Mutants. *)
LastNumber(target, id, code) ==     \* find_last_of
    LET at == Numbered(target, code) IN
    IF at = {} THEN <<"none">> ELSE IdOf(target[Max(at)], id, code)
HandleErrorsNo404(s) == s \in {400, 401, 403, 405, 502} \/ s >= 500

(* get_major_param_id: the first number in the path, 0 without one.          *)
MajorParam(target, id, code) ==
    LET at == Numbered(target, code) IN
    IF at = {} THEN <<"none">> ELSE IdOf(target[Min(at)], id, code)

Bucket(l, c) == MajorParam(Target(l, c.method), c.id, c.code)

(* What Discord counts the call against: the resource the call is about.     *)
Resource(l, c) ==
    LET about == MethodsOf(l)[c.method].about IN
    IF about = "None" THEN <<"none">> ELSE <<about, c.id>>

(* handle_errors: the statuses that throw.                                   *)
Throws(s) == s \in {400, 401, 403, 404, 405, 502} \/ s >= 500

(* The message or messages of a cached channel that an answer is turned      *)
(* into.  Discord need not write a guild_id into a message, and a page of    *)
(* messages may be empty.                                                    *)
RequestOf(l, m) == MethodsOf(l)[m].request
Depends(l, m) == l = "cached" /\ RequestOf(l, m) \in {"send_guild_message", "get_guild_messages"}

AllBodies == {"object", "guild", "no guild", "empty"}
Bodies(l, m) ==
    IF ~Depends(l, m) THEN {"object"}
    ELSE {"guild", "no guild"} \cup {b \in {"empty"} : RequestOf(l, m) = "get_guild_messages"}

(* dependant_cb: m_guilds.at of the guild_id in the answer, 0 without one,   *)
(* then the channel.  The overload_value of add_guild_member takes an        *)
(* argument, so it is not used, and the object is read as an id.             *)
Unreadable(l, m, b, known) ==
    \/ Depends(l, m) /\ (b = "no guild" \/ (b = "guild" /\ ~known))
    \/ RequestOf(l, m) = "add_guild_member"

(* await_resume: in the cacheless library a void request skips value(), and  *)
(* with it handle_errors.  A status that is neither a success nor an error   *)
(* of handle_errors has its body read as if it were the value.               *)
Unchecked(l, m) == l = "cacheless" /\ RequestOf(l, m) \in VoidRequests

Outcomes(l, m, s, b, known) ==
    IF Unchecked(l, m) THEN {"value"}
    ELSE IF Throws(s) THEN {"threw"}
    ELSE IF RequestOf(l, m) \in VoidRequests THEN {"value"}
    ELSE IF s \notin 200..299 THEN {"value", "threw"}
    ELSE IF Unreadable(l, m, b, known) THEN {"threw"} ELSE {"value"}

OutcomeOf(i) == Outcomes(lib, call[i].method, status[i], body[i], channelKnown)
-----------------------------------------------------------------------------
Init ==
    /\ lib \in {"cached", "cacheless"}
    /\ call = [i \in Slots |-> NoCall]
    /\ place = [i \in Slots |-> "free"]
    /\ user = [i \in Slots |-> "none"]
    /\ status = [i \in Slots |-> 0] /\ body = [i \in Slots |-> "none"]
    /\ limits = {} /\ exhausted = {}
    /\ channelKnown = TRUE

(* The calls that differ in what they send: ids of the kind that the call is *)
(* about, and for an invite the number in its code, 0 for none.              *)
CallsOf(l, i) ==
    LET methods == DOMAIN MethodsOf(l) \cap IF i = 1 THEN DOMAIN MethodsOf(l) ELSE Others
        calls == [method : methods, id : Ids, code : Codes \cup {0}]
    IN  {c \in calls : c.code # 0 => RequestOf(l, c.method) \in {"get_invite", "delete_invite"}}

(* http_connection2::send: held when the bucket is limited.                  *)
Submitted(c) == IF Bucket(lib, c) \in limits THEN "held" ELSE "wire"

(* create_request, or the cacheless send_request.                            *)
Create(i, c) ==
    /\ place[i] = "free" /\ (\A j \in Slots : j < i => place[j] # "free")
    /\ call' = [call EXCEPT ![i] = c]
    /\ place' = [place EXCEPT ![i] = IF lib = "cached" THEN "created" ELSE Submitted(c)]
    /\ UNCHANGED <<lib, user, status, body, limits, exhausted, channelKnown>>

(* co_await of a request that was only created: await_suspend sends it.      *)
AwaitCreated(i) ==
    /\ place[i] = "created" /\ user[i] = "none"
    /\ place' = [place EXCEPT ![i] = Submitted(call[i])]
    /\ user' = [user EXCEPT ![i] = "waiting"]
    /\ UNCHANGED <<lib, call, status, body, limits, exhausted, channelKnown>>

(* co_await in the cacheless library: the coroutine goes on at once when the *)
(* answer is there, else it is one of the waiters.                           *)
AwaitSent(i) ==
    /\ lib = "cacheless" /\ user[i] = "none" /\ place[i] # "free"
    /\ \E u \in IF place[i] = "answered" THEN OutcomeOf(i) ELSE {"waiting"} :
          user' = [user EXCEPT ![i] = u]
    /\ UNCHANGED <<lib, call, place, status, body, limits, exhausted, channelKnown>>

(* execute_and_ignore: sent without on_finish.                               *)
ExecuteAndIgnore(i) ==
    /\ lib = "cached" /\ place[i] = "created"
    /\ place' = [place EXCEPT ![i] = Submitted(call[i])]
    /\ user' = [user EXCEPT ![i] = "ignored"]
    /\ UNCHANGED <<lib, call, status, body, limits, exhausted, channelKnown>>

(* Discord answers; on_finish or notify posts the coroutine to the strand.   *)
Answer(i, s, b) ==
    /\ place[i] = "wire"
    /\ \A refused \in exhausted : refused[1] # Resource(lib, call[i])
    /\ b \in Bodies(lib, call[i].method)
    /\ place' = [place EXCEPT ![i] = "answered"]
    /\ status' = [status EXCEPT ![i] = s]
    /\ body' = [body EXCEPT ![i] = b]
    /\ user' = [user EXCEPT ![i] = IF @ = "waiting" THEN "posted" ELSE @]
    /\ UNCHANGED <<lib, call, limits, exhausted, channelKnown>>

(* 429: the bucket is limited, and the request is held with it.              *)
Limited(i) ==
    /\ place[i] = "wire"
    /\ exhausted' = exhausted \cup {<<Resource(lib, call[i]), Bucket(lib, call[i])>>}
    /\ limits' = limits \cup {Bucket(lib, call[i])}
    /\ place' = [place EXCEPT ![i] = "held"]
    /\ UNCHANGED <<lib, call, user, status, body, channelKnown>>

(* The limit that filled a bucket ends: its requests are sent again.         *)
Reset(b) ==
    /\ limits' = limits \ {b}
    /\ exhausted' = {refused \in exhausted : refused[2] # b}
    /\ place' = [i \in Slots |->
            IF place[i] = "held" /\ Bucket(lib, call[i]) = b THEN "wire" ELSE place[i]]
    /\ UNCHANGED <<lib, call, user, status, body, channelKnown>>

(* await_resume on the strand.                                               *)
Resume(i) ==
    /\ user[i] = "posted"
    /\ \E u \in OutcomeOf(i) : user' = [user EXCEPT ![i] = u]
    /\ UNCHANGED <<lib, call, place, status, body, limits, exhausted, channelKnown>>

(* CHANNEL_DELETE or GUILD_DELETE while requests are out.                    *)
ChannelGone ==
    /\ lib = "cached" /\ channelKnown
    /\ channelKnown' = FALSE
    /\ UNCHANGED <<lib, call, place, user, status, body, limits, exhausted>>

Next ==
    \/ \E i \in Slots :
        \/ \E c \in CallsOf(lib, i) : Create(i, c)
        \/ AwaitCreated(i) \/ AwaitSent(i) \/ ExecuteAndIgnore(i)
        \/ \E s \in Statuses, b \in AllBodies : Answer(i, s, b)
        \/ Limited(i) \/ Resume(i)
    \/ \E b \in limits : Reset(b)
    \/ ChannelGone

Spec == Init /\ [][Next]_vars
-----------------------------------------------------------------------------
TypeOK ==
    /\ lib \in {"cached", "cacheless"}
    /\ \A i \in Slots :
        /\ place[i] = "free" <=> call[i] = NoCall
        /\ place[i] \in {"free", "created", "held", "wire", "answered"}
        /\ user[i] \in {"none", "waiting", "posted", "value", "threw", "ignored"}
        /\ status[i] \in Statuses \cup {0}
        /\ body[i] \in AllBodies \cup {"none"}
        /\ call[i] # NoCall => MethodsOf(lib)[call[i].method].request \in DOMAIN RoutesOf(lib)
    /\ channelKnown \in BOOLEAN

(* The limiter stands for what Discord limits.  A limit never leaks: whoever *)
(* is held calls for a guild, channel or webhook that Discord refused, or    *)
(* for none as the refused one did.  Nor is a limit missed by a call that    *)
(* spells its path another way: a limited guild, channel or webhook holds    *)
(* all its calls.  (What is about none of these may be missed: the digits of *)
(* an invite code are taken for an id, though a comment says that there is   *)
(* no number then, src/http_connection.cpp:32.)                              *)
LimitsStayApart ==
    \A i \in Slots :
        place[i] # "free" =>
            LET r == Resource(lib, call[i]) IN
            /\ Bucket(lib, call[i]) \in limits => \E refused \in exhausted : refused[1] = r
            /\ (\E refused \in exhausted : refused[1] = r) /\ r # <<"none">> =>
                  Bucket(lib, call[i]) \in limits

(* What a coroutine gets is what Discord said.  A value means success, but   *)
(* for a cacheless request without a value, which is never asked for its     *)
(* status, and for a status that handle_errors does not know.  An exception  *)
(* means that there was no success, or that the answer could not be read:    *)
(* without its guild_id, after its channel has left the cache, or as the id  *)
(* that add_guild_member takes it for.                                       *)
OutcomeIsAnswer ==
    \A i \in Slots :
        LET l == lib
            m == call[i].method
        IN
        /\ user[i] = "value" => \/ status[i] \in 200..299
                                \/ Unchecked(l, m)
                                \/ status[i] \in (300..499) \ {400, 401, 403, 404, 405}
        /\ user[i] = "threw" => \/ status[i] >= 300
                                \/ Unreadable(l, m, body[i], channelKnown)
=============================================================================
