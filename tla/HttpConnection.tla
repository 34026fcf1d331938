--------------------------- MODULE HttpConnection ---------------------------
(* http_connection2 with its rate_limiter (http_connection.cpp,              *)
(* rate_limiter.h): one coroutine, start_sending, takes requests off the     *)
(* queue and writes them one at a time.  A request can be held back by the   *)
(* client's global limit, by the limit on its bucket (the first number in    *)
(* its path) and by a broken connection.  The timers of the rate limiter and *)
(* the callers of send and sleep_till run on other threads.                  *)
(* The queue is AsyncQueue's, by its contents.  Time is discrete.            *)
EXTENDS Integers, Sequences, FiniteSets

CONSTANTS
    Requests, Buckets,
    BucketOf,       \* get_major_param_id of each request's target
    NoRequest,
    Delays,         \* how far ahead a limit may end
    MaxTime,        \* bound: the clock
    MaxTries,       \* how often whoever owns the connection tries to make it
    MaxLimits,      \* bound: limits that the server imposes
    MaxBreaks       \* bound: failures of the connection

ASSUME HttpAssumption ==
    /\ BucketOf \in [Requests -> Buckets]
    /\ NoRequest \notin Requests
    /\ Delays \subseteq Nat /\ {MaxTries, MaxTime, MaxLimits, MaxBreaks} \subseteq Nat

VARIABLES
    now,
    status,         \* status[r]: "new", "sent" (given to send) or "finished"
    queue,          \* m_request_queue
    pc, cur,        \* where start_sending is, and the request it has in hand
    wakeAt,         \* expiry of the timer it awaits, 0 without one
    tries,          \* failed tries to make a connection that was never made
    limited, until, \* m_global_rate_limited, m_rate_limted_until
    storing,        \* calls of sleep_till between its two stores
    entries,        \* entries[b]: the entries of m_entries for b, in order
    timers,         \* timers[b]: the expiries of the timers made for b
    returning,      \* what timer handlers took out and have not re-sent
    executed,       \* executed[r]: how often the server carried r out
    limitedTill,    \* history: the latest time that sleep_till was called with
    limits, breaks  \* counters for the bounds

sender == <<pc, cur, wakeAt>>
global == <<limited, until, storing, limitedTill>>
limiter == <<entries, timers, returning>>
bounds == <<limits, breaks>>
vars == <<now, status, queue, sender, tries, global, limiter, executed, bounds>>

Time == 0..MaxTime
Entry == [until : Time, held : Seq(Requests)]

TypeOK ==
    /\ now \in Time
    /\ status \in [Requests -> {"new", "sent", "finished"}]
    /\ queue \in Seq(Requests)
    /\ pc \in {"connect", "reopen", "pop", "check", "due", "arm", "asleep", "clear", "limit",
               "write", "reconnect", "read", "flag", "retry", "dead"}
    /\ cur \in Requests \cup {NoRequest}
    /\ {wakeAt, until, limitedTill} \subseteq Time
    /\ tries \in Nat
    /\ limited \in BOOLEAN
    /\ storing \subseteq [no : 1..MaxLimits, till : Time]
    /\ entries \in [Buckets -> Seq(Entry)]
    /\ timers \in [Buckets -> Seq(Time)]
    /\ returning \subseteq Seq(Requests)
    /\ executed \in [Requests -> Nat]
    /\ limits \in 0..MaxLimits /\ breaks \in 0..MaxBreaks

Init ==
    /\ now = 0
    /\ status = [r \in Requests |-> "new"]
    /\ queue = <<>>
    /\ pc = "connect" /\ cur = NoRequest /\ wakeAt = 0
    /\ tries = 0
    /\ limited = FALSE /\ until = 0 /\ storing = {} /\ limitedTill = 0
    /\ entries = [b \in Buckets |-> <<>>]
    /\ timers = [b \in Buckets |-> <<>>]
    /\ returning = {}
    /\ executed = [r \in Requests |-> 0]
    /\ limits = 0 /\ breaks = 0
-----------------------------------------------------------------------------
bucket == BucketOf[cur]

(* rate_limit(bucket, until, obj): insert an entry after those of the same   *)
(* bucket and start a timer for it.                                          *)
RateLimit(b, t, held) ==
    /\ entries' = [entries EXCEPT ![b] = Append(@, [until |-> t, held |-> held])]
    /\ timers' = [timers EXCEPT ![b] = Append(@, t)]
    /\ UNCHANGED returning

(* A limit that the server announces now, ending at t. *)
Limits(t) ==
    /\ limits < MaxLimits
    /\ limits' = limits + 1
    /\ t \in {now + d : d \in Delays} \cap Time

Breaks == breaks < MaxBreaks /\ breaks' = breaks + 1

Drop == pc' = "pop" /\ cur' = NoRequest /\ UNCHANGED wakeAt
Goto(l) == pc' = l /\ UNCHANGED <<cur, wakeAt>>
-----------------------------------------------------------------------------
(* Mutants. *)
LimitedBucketKept(t) == \* the loop sends the request again after limiting its bucket
    /\ pc = "read" /\ Limits(t)
    /\ RateLimit(bucket, t, <<>>)
    /\ Goto("retry")
    /\ UNCHANGED <<now, status, queue, tries, global, executed, breaks>>

FireUnerased(b, i) ==   \* the entry stays in m_entries
    /\ i \in DOMAIN timers[b] /\ timers[b][i] <= now
    /\ timers' = [timers EXCEPT ![b] = SubSeq(@, 1, i - 1) \o SubSeq(@, i + 1, Len(@))]
    /\ returning' = returning \cup ({Head(entries[b]).held} \ {<<>>})
    /\ entries' = [entries EXCEPT ![b][1].held = <<>>]
    /\ UNCHANGED <<now, status, queue, sender, tries, global, executed, bounds>>

SucceedAgain ==     \* a write error is assumed when the answer is late
    /\ pc = "read"
    /\ executed' = [executed EXCEPT ![cur] = @ + 1]
    /\ executed[cur] < 2
    /\ Goto("write")
    /\ UNCHANGED <<now, status, queue, tries, global, limiter, bounds>>
-----------------------------------------------------------------------------
Submit(r) ==
    /\ status[r] = "new"
    /\ status' = [status EXCEPT ![r] = "sent"]
    /\ queue' = Append(queue, r)
    /\ UNCHANGED <<now, sender, tries, global, limiter, executed, bounds>>

(* sleep_till, called through client::rate_limit_global by any shard whose   *)
(* connection met a global limit: the time is stored, then the flag.         *)
SleepTill(t) ==
    /\ Limits(t)
    /\ until' = t
    /\ storing' = storing \cup {[no |-> limits', till |-> t]}
    /\ UNCHANGED <<limited, limitedTill>>
    /\ UNCHANGED <<now, status, queue, sender, tries, limiter, executed, breaks>>

Later(t) == IF t > limitedTill THEN t ELSE limitedTill

SetLimited(s) ==
    /\ limited' = TRUE /\ limitedTill' = Later(s.till)
    /\ storing' = storing \ {s}
    /\ UNCHANGED <<now, status, queue, sender, tries, until, limiter, executed, bounds>>

(* async_connect starts the sender ...                                       *)
Connect ==
    /\ pc = "connect"
    /\ Goto("pop")
    /\ tries' = 0
    /\ UNCHANGED <<now, status, queue, global, limiter, executed, bounds>>

(* ... or fails, and whoever called it tries again MaxTries times in all.    *)
(* After a handshake that failed the socket is still open.                   *)
ConnectFails ==
    /\ pc \in {"connect", "reopen"}
    /\ tries' = tries + 1
    /\ \E l \in {pc, "reopen"} : Goto(IF tries' >= MaxTries THEN "dead" ELSE l)
    /\ UNCHANGED <<now, status, queue, global, limiter, executed, bounds>>

(* Opening a socket that is open throws.                                     *)
Reopen ==
    /\ pc = "reopen"
    /\ Goto("dead")
    /\ UNCHANGED <<now, status, queue, tries, global, limiter, executed, bounds>>

Pop ==
    /\ pc = "pop" /\ queue # <<>>
    /\ pc' = "check" /\ cur' = Head(queue)
    /\ queue' = Tail(queue)
    /\ UNCHANGED <<now, status, wakeAt, tries, global, limiter, executed, bounds>>

(* send_to_discord: the global limit, in three loads.  The timer is set for  *)
(* the time read last; after it the flag is cleared, whoever set it          *)
(* meanwhile.                                                                *)
Check ==
    /\ pc = "check"
    /\ Goto(IF limited THEN "due" ELSE "limit")
    /\ UNCHANGED <<now, status, queue, tries, global, limiter, executed, bounds>>

CheckDue ==
    /\ pc = "due"
    /\ Goto(IF until > now THEN "arm" ELSE "clear")
    /\ UNCHANGED <<now, status, queue, tries, global, limiter, executed, bounds>>

Arm ==
    /\ pc = "arm"
    /\ pc' = "asleep" /\ wakeAt' = until /\ UNCHANGED cur
    /\ UNCHANGED <<now, status, queue, tries, global, limiter, executed, bounds>>

Wake ==
    /\ pc \in {"asleep", "retry"} /\ now >= wakeAt
    /\ pc' = IF pc = "asleep" THEN "clear" ELSE "write"
    /\ wakeAt' = 0 /\ UNCHANGED cur
    /\ UNCHANGED <<now, status, queue, tries, global, limiter, executed, bounds>>

Clear ==
    /\ pc = "clear"
    /\ limited' = FALSE
    /\ Goto("limit")
    /\ UNCHANGED <<now, status, queue, tries, until, storing, limitedTill, limiter, executed, bounds>>

(* maybe_rate_limit: a request whose bucket is limited joins its entry.      *)
Hold ==
    /\ pc = "limit" /\ entries[bucket] # <<>>
    /\ entries' = [entries EXCEPT ![bucket][1].held = Append(@, cur)]
    /\ Drop
    /\ UNCHANGED <<now, status, queue, tries, global, timers, returning, executed, bounds>>

PassLimiter ==
    /\ pc = "limit" /\ entries[bucket] = <<>>
    /\ Goto("write")
    /\ UNCHANGED <<now, status, queue, tries, global, limiter, executed, bounds>>

(* send_rq: write, then read.  Either can fail, the server having carried    *)
(* the request out or not; then reconnect and start over with the write.     *)
Write ==
    /\ pc = "write"
    /\ Goto("read")
    /\ UNCHANGED <<now, status, queue, tries, global, limiter, executed, bounds>>

Break ==
    /\ pc \in {"write", "read"} /\ Breaks
    /\ \E n \in {0, 1} : executed' = [executed EXCEPT ![cur] = @ + n]
    /\ Goto("reconnect")
    /\ UNCHANGED <<now, status, queue, tries, global, limiter, limits>>

Reconnect ==
    /\ pc = "reconnect"
    /\ Goto("write")
    /\ UNCHANGED <<now, status, queue, tries, global, limiter, executed, bounds>>

(* The answers.  429 with global: tell the client, wait, write again.  The   *)
(* client calls sleep_till here too, or skips it (see ClientRateLimit).      *)
GlobalLimit(t) ==
    /\ pc = "read" /\ Limits(t)
    /\ \/ until' = t /\ pc' = "flag"
       \/ UNCHANGED until /\ pc' = "retry"
    /\ wakeAt' = t /\ UNCHANGED cur
    /\ UNCHANGED <<limited, storing, limitedTill>>
    /\ UNCHANGED <<now, status, queue, tries, limiter, executed, breaks>>

SetOwnLimit ==
    /\ pc = "flag"
    /\ limited' = TRUE /\ limitedTill' = Later(wakeAt)
    /\ Goto("retry")
    /\ UNCHANGED <<now, status, queue, tries, until, storing, limiter, executed, bounds>>

(* 429 for the bucket: the request waits in the new entry.                   *)
BucketLimit(t) ==
    /\ pc = "read" /\ Limits(t)
    /\ RateLimit(bucket, t, <<cur>>)
    /\ Drop
    /\ UNCHANGED <<now, status, queue, tries, global, executed, breaks>>

(* Any other answer finishes the request; X-RateLimit-Remaining 0 limits its *)
(* bucket first.                                                             *)
Finish ==
    /\ pc = "read"
    /\ executed' = [executed EXCEPT ![cur] = @ + 1]
    /\ status' = [status EXCEPT ![cur] = "finished"]
    /\ Drop
    /\ \/ UNCHANGED <<limiter, bounds>>
       \/ \E t \in Time : Limits(t) /\ RateLimit(bucket, t, <<>>) /\ UNCHANGED breaks
    /\ UNCHANGED <<now, queue, tries, global>>

(* A 429 whose body does not parse throws out of start_sending: the request  *)
(* in hand is destroyed and nobody reads the queue any more.                 *)
Garble ==
    /\ pc = "read"
    /\ pc' = "dead" /\ cur' = NoRequest
    /\ UNCHANGED <<now, status, queue, wakeAt, tries, global, limiter, executed, bounds>>

(* The timer of a bucket: take its first entry out under the lock ...        *)
Fire(b, i) ==
    /\ i \in DOMAIN timers[b] /\ timers[b][i] <= now
    /\ timers' = [timers EXCEPT ![b] = SubSeq(@, 1, i - 1) \o SubSeq(@, i + 1, Len(@))]
    /\ returning' = returning \cup ({Head(entries[b]).held} \ {<<>>})
    /\ entries' = [entries EXCEPT ![b] = Tail(@)]
    /\ UNCHANGED <<now, status, queue, sender, tries, global, executed, bounds>>

(* ... and send what it held, one request after the other.                   *)
GiveBack(s) ==
    /\ queue' = Append(queue, Head(s))
    /\ returning' = (returning \ {s}) \cup ({Tail(s)} \ {<<>>})
    /\ UNCHANGED <<now, status, sender, tries, global, entries, timers, executed, bounds>>

Tick ==
    /\ now < MaxTime
    /\ now' = now + 1
    /\ UNCHANGED <<status, queue, sender, tries, global, limiter, executed, bounds>>

Send ==
    \/ Connect \/ ConnectFails \/ Reopen
    \/ Pop \/ Check \/ CheckDue \/ Arm \/ Wake \/ Clear \/ Hold \/ PassLimiter
    \/ Write \/ Break \/ Reconnect \/ SetOwnLimit \/ Finish \/ Garble
    \/ \E t \in Time : GlobalLimit(t) \/ BucketLimit(t)

FireAny == \E b \in Buckets : \E i \in DOMAIN timers[b] : Fire(b, i)
GiveBackAny == \E s \in returning : GiveBack(s)

Next ==
    \/ \E r \in Requests : Submit(r)
    \/ (\E t \in Time : SleepTill(t)) \/ \E s \in storing : SetLimited(s)
    \/ Send \/ FireAny \/ GiveBackAny \/ Tick

Spec == Init /\ [][Next]_vars

(* The io_context runs every handler that is ready, time passes, and a       *)
(* connection that broke can be made again: reconnect tries without end.     *)
FairSpec ==
    /\ Spec
    /\ WF_vars(Send) /\ WF_vars(FireAny) /\ WF_vars(Tick)
    /\ \A r \in Requests : WF_vars(\E s \in returning : r = Head(s) /\ GiveBack(s))
-----------------------------------------------------------------------------
(* The precondition of rate_limit holds whenever it is called, so that each  *)
(* entry has one timer and each timer finds its own entry to erase.          *)
OneEntryPerBucket ==
    \A b \in Buckets : /\ Len(entries[b]) <= 1
                       /\ timers[b] = [i \in DOMAIN entries[b] |-> entries[b][i].until]

(* A request is only on its way while its bucket is not limited, through     *)
(* reconnections and global limits too: it is not sent into a 429.           *)
NeverSentWhileLimited ==
    pc \in {"write", "reconnect", "read", "flag", "retry"} => entries[bucket] = <<>>

(* A finished request was carried out; more than once only if the connection *)
(* broke, since a write or read that failed is repeated.                     *)
ExecutedOnceUnlessBroken ==
    \A r \in Requests :
        /\ status[r] = "finished" => executed[r] >= 1
        /\ executed[r] <= 1 + breaks

(* Every request that was sent is finished when the server stops limiting,   *)
(* unless there is no sender: an answer killed it, or the connection was     *)
(* never made and nothing tries again.                                       *)
EveryRequestFinishes ==
    \A r \in Requests : status[r] = "sent" ~> status[r] = "finished" \/ pc = "dead"

=============================================================================
