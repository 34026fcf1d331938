---------------------------- MODULE CachelessHttp ----------------------------
(* http_connection2 of the cacheless library (no_cache/http_connection.h,    *)
(* no_cache/src/http_connection.cpp): a coroutine takes the requests of the  *)
(* shard from a queue and writes them one at a time; those whose bucket is   *)
(* rate limited wait in an entry until a timer puts them back into the       *)
(* queue; a coroutine that awaits a request is resumed when it is answered.  *)
(* Nothing catches what start_sending throws: it then stands still for good. *)
(* m_mut has one user, start_sending, and is left out; so is the flag of     *)
(* sleep_till, which is set by nobody.                                       *)
EXTENDS Integers, Sequences, FiniteSets, SequencesExt

CONSTANTS
    Requests, Buckets,
    NoRequest,
    Delays,         \* how far ahead the ends of limits lie
    MaxTime, MaxLimits, MaxBreaks   \* bounds: clock, limits, broken connections

ASSUME CachelessHttpAssumption ==
    /\ NoRequest \notin Requests
    /\ Delays \subseteq Nat /\ {MaxTime, MaxLimits, MaxBreaks} \subseteq Nat

VARIABLES
    bucket,         \* bucket[r]: get_major_param_id of the target of r
    now,
    queue,          \* m_data of m_request_queue
    phase, cur,     \* where start_sending stands, and with which request
    wake,           \* end of the global limit it sleeps through
    written,        \* the last async_write succeeded
    up,             \* connected, and not broken since
    entries,        \* m_rate_limited_requests
    timers,         \* those that have not fired, numbered as they were set
    releasing,      \* what handlers of timers have taken out and not yet sent
    executed,       \* executed[r]: how often Discord accepted r
    done,           \* shared_state::done
    co,             \* where the coroutine stands that sends and awaits r
    limits, breaks  \* counters for the bounds

connection == <<phase, cur, wake, written, up, limits, breaks>>
limited == <<entries, timers>>
vars == <<bucket, now, queue, connection, limited, releasing, executed, done, co>>

Entry == [id : Buckets, until : 0..MaxTime, requests : Seq(Requests)]

(* Each timer takes out the first entry, so there are as many as entries.    *)
TypeOK ==
    /\ bucket \in [Requests -> Buckets] /\ now \in 0..MaxTime
    /\ queue \in Seq(Requests) /\ IsInjective(queue)
    /\ phase \in {"connect", "dead", "pop", "waiting", "check", "write", "read", "sleep",
                 "done", "notify"}
    /\ cur \in Requests \cup {NoRequest}
    /\ (cur = NoRequest) <=> phase \in {"connect", "dead", "pop", "waiting"}
    /\ phase = "waiting" => queue = <<>>
    /\ entries \in Seq(Entry) /\ timers \subseteq [at : 0..MaxTime, no : Nat]
    /\ Cardinality(timers) = Len(entries)
    /\ executed \in [Requests -> Nat] /\ done \in [Requests -> BOOLEAN]
    /\ co \in [Requests -> {"new", "sent", "checked", "parked", "posted", "resumed"}]

Init ==
    /\ bucket \in [Requests -> Buckets]
    /\ now = 0 /\ queue = <<>>
    /\ phase = "connect" /\ cur = NoRequest /\ wake = 0 /\ written = FALSE /\ up = FALSE
    /\ entries = <<>> /\ timers = {}
    /\ releasing = {}
    /\ executed = [r \in Requests |-> 0] /\ done = [r \in Requests |-> FALSE]
    /\ co = [r \in Requests |-> "new"]
    /\ limits = 0 /\ breaks = 0

(* Time counts only while something waits for it. *)
Tick ==
    /\ wake > now \/ \E t \in timers : t.at > now
    /\ now' = now + 1
    /\ UNCHANGED <<bucket, queue, connection, limited, releasing, executed, done, co>>

Break ==
    /\ up /\ breaks < MaxBreaks
    /\ up' = FALSE /\ breaks' = breaks + 1
    /\ UNCHANGED <<bucket, now, queue, phase, cur, wake, written, limits, limited,
                   releasing, executed, done, co>>
-----------------------------------------------------------------------------
(* Mutants. *)
InsertLast(e) == entries' = Append(entries, e)     \* not sorted by end

NotifyFirst ==              \* the waiters are taken before done is set
    /\ phase = "done"
    /\ phase' = "notify"
    /\ co' = [co EXCEPT ![cur] = IF @ = "parked" THEN "posted" ELSE @]
    /\ UNCHANGED <<bucket, now, queue, cur, wake, written, up, limits, breaks, limited,
                   releasing, executed, done>>

WriteTwice ==               \* a failed read is repeated from the write on
    /\ phase = "read" /\ ~up
    /\ up' = TRUE /\ phase' = "write"
    /\ \/ written /\ executed' = [executed EXCEPT ![cur] = @ + 1]
       \/ UNCHANGED executed
    /\ UNCHANGED <<bucket, now, queue, cur, wake, written, limits, breaks, limited,
                   releasing, done, co>>
-----------------------------------------------------------------------------
(* push: to the consumer that waits, or into the queue.                      *)
Push(r) ==
    IF phase = "waiting"
    THEN phase' = "check" /\ cur' = r /\ UNCHANGED queue
    ELSE queue' = Append(queue, r) /\ UNCHANGED <<phase, cur>>

Send(r) ==
    /\ co[r] = "new"
    /\ co' = [co EXCEPT ![r] = "sent"]
    /\ Push(r)
    /\ UNCHANGED <<bucket, now, wake, written, up, limits, breaks, limited, releasing,
                   executed, done>>

(* await_suspend, under waiter_mut from here until the handle is stored.     *)
Await(r) ==
    /\ co[r] = "sent"
    /\ co' = [co EXCEPT ![r] = IF done[r] THEN "resumed" ELSE "checked"]
    /\ UNCHANGED <<bucket, now, queue, connection, limited, releasing, executed, done>>

Suspend(r) ==
    /\ co[r] = "checked"
    /\ co' = [co EXCEPT ![r] = "parked"]
    /\ UNCHANGED <<bucket, now, queue, connection, limited, releasing, executed, done>>

Resume(r) ==
    /\ co[r] = "posted"
    /\ co' = [co EXCEPT ![r] = "resumed"]
    /\ UNCHANGED <<bucket, now, queue, connection, limited, releasing, executed, done>>
-----------------------------------------------------------------------------
(* async_connect starts start_sending when it succeeds; after ten errors, or *)
(* a retry that opens the open socket, there is no connection.               *)
Connect ==
    /\ phase = "connect"
    /\ \/ phase' = "pop" /\ up' = TRUE
       \/ phase' = "dead" /\ UNCHANGED up
    /\ UNCHANGED <<bucket, now, queue, cur, wake, written, limits, breaks, limited,
                   releasing, executed, done, co>>

(* start_sending: the first request of the queue, or the wait for one. *)
Pop ==
    /\ phase = "pop"
    /\ IF queue = <<>>
       THEN phase' = "waiting" /\ UNCHANGED <<cur, queue>>
       ELSE phase' = "check" /\ cur' = Head(queue) /\ queue' = Tail(queue)
    /\ UNCHANGED <<bucket, now, wake, written, up, limits, breaks, limited, releasing,
                   executed, done, co>>

EntryOf(b) == {i \in DOMAIN entries : entries[i].id = b}

(* check_rate_limit, under m_rate_limit_mut: into the entry of its bucket. *)
CheckRateLimit ==
    /\ phase = "check"
    /\ IF EntryOf(bucket[cur]) = {}
       THEN phase' = "write" /\ UNCHANGED <<cur, entries>>
       ELSE LET i == CHOOSE i \in EntryOf(bucket[cur]) : TRUE
            IN  /\ entries' = [entries EXCEPT ![i].requests = Append(@, cur)]
                /\ phase' = "pop" /\ cur' = NoRequest
    /\ UNCHANGED <<bucket, now, queue, wake, written, up, limits, breaks, timers, releasing,
                   executed, done, co>>

(* The exception leaves start_sending, and the request with it. *)
Throw == phase' = "dead" /\ cur' = NoRequest

(* send_rq: after an error that is not 10053 the answer is read as if there  *)
(* had been none.                                                            *)
Write ==
    /\ phase = "write"
    /\ phase' = "read" /\ written' = up
    /\ UNCHANGED <<bucket, now, queue, cur, wake, up, limits, breaks, limited, releasing,
                   executed, done, co>>

(* After 10053 (or 1, when the read fails too) reconnect finds the socket    *)
(* open: async_shutdown throws on the broken connection, and if it did not,  *)
(* so would the open of the socket, which nothing has closed.  No connection *)
(* is ever replaced.                                                         *)
WriteThrows ==
    /\ phase = "write" /\ ~up
    /\ Throw
    /\ UNCHANGED <<bucket, now, queue, wake, written, up, limits, breaks, limited, releasing,
                   executed, done, co>>

(* A read that fails leaves an empty response with status 200 (the test      *)
(* after it is of the error of the write).  Discord may or may not have      *)
(* executed what was written before the connection broke.                    *)
ReadFails ==
    /\ phase = "read" /\ ~up
    /\ phase' = "done"
    /\ \/ written /\ executed' = [executed EXCEPT ![cur] = @ + 1]
       \/ UNCHANGED executed
    /\ UNCHANGED <<bucket, now, queue, cur, wake, written, up, limits, breaks, limited,
                   releasing, done, co>>

InsertSorted(e) ==          \* at upper_bound of its end
    entries' = InsertAt(entries, 1 + Cardinality({i \in DOMAIN entries : entries[i].until <= e.until}), e)

(* rate_limit_id: an entry, with the refused request or none, and its timer. *)
RateLimitId(t, rs) ==
    /\ InsertSorted([id |-> bucket[cur], until |-> t, requests |-> rs])
    /\ timers' = timers \cup {[at |-> t, no |-> limits]}

Answered(last) ==
    /\ phase = "read" /\ up /\ written
    /\ executed' = [executed EXCEPT ![cur] = @ + 1]
    /\ phase' = "done"
    /\ UNCHANGED <<bucket, now, queue, cur, wake, written, up, breaks, releasing, done, co>>
    /\ IF last              \* X-RateLimit-Remaining is 0
       THEN /\ limits < MaxLimits /\ limits' = limits + 1
            /\ \E d \in Delays : now + d <= MaxTime /\ RateLimitId(now + d, <<>>)
       ELSE UNCHANGED <<limits, limited>>

(* 429 with a body that is no JSON or lacks retry_after or global. *)
Unreadable ==
    /\ phase = "read" /\ up /\ written
    /\ Throw
    /\ UNCHANGED <<bucket, now, queue, wake, written, up, limits, breaks, limited, releasing,
                   executed, done, co>>

(* 429 for the bucket: the request waits in the new entry. *)
Refused(t) ==
    /\ phase = "read" /\ up /\ written /\ limits < MaxLimits
    /\ limits' = limits + 1
    /\ RateLimitId(t, <<cur>>)
    /\ phase' = "pop" /\ cur' = NoRequest
    /\ UNCHANGED <<bucket, now, queue, wake, written, up, breaks, releasing, executed, done,
                   co>>

(* 429 for everything: the client's rate_limit_global does nothing (its loop *)
(* is commented out); this connection sleeps and sends the request again.    *)
RefusedGlobally(t) ==
    /\ phase = "read" /\ up /\ written /\ limits < MaxLimits
    /\ limits' = limits + 1
    /\ phase' = "sleep" /\ wake' = t
    /\ UNCHANGED <<bucket, now, queue, cur, written, up, breaks, limited, releasing,
                   executed, done, co>>

Wake ==
    /\ phase = "sleep" /\ now >= wake
    /\ phase' = "write" /\ wake' = 0
    /\ UNCHANGED <<bucket, now, queue, cur, written, up, limits, breaks, limited, releasing,
                   executed, done, co>>

SetDone ==
    /\ phase = "done"
    /\ done' = [done EXCEPT ![cur] = TRUE]
    /\ phase' = "notify"
    /\ UNCHANGED <<bucket, now, queue, cur, wake, written, up, limits, breaks, limited,
                   releasing, executed, co>>

(* notify takes the waiters under waiter_mut and posts them to the strand. *)
Notify ==
    /\ phase = "notify" /\ co[cur] # "checked"
    /\ co' = [co EXCEPT ![cur] = IF @ = "parked" THEN "posted" ELSE @]
    /\ phase' = "pop" /\ cur' = NoRequest
    /\ UNCHANGED <<bucket, now, queue, wake, written, up, limits, breaks, limited,
                   releasing, executed, done>>
-----------------------------------------------------------------------------
(* resend_rate_limted_requests_for: the id is ignored, the first entry goes. *)
Fire(t) ==
    /\ t \in timers /\ t.at <= now
    /\ timers' = timers \ {t}
    /\ releasing' = releasing \cup ({entries[1].requests} \ {<<>>})
    /\ entries' = Tail(entries)
    /\ UNCHANGED <<bucket, now, queue, connection, executed, done, co>>

Resend(rs) ==
    /\ rs \in releasing
    /\ Push(Head(rs))
    /\ releasing' = (releasing \ {rs}) \cup ({Tail(rs)} \ {<<>>})
    /\ UNCHANGED <<bucket, now, wake, written, up, limits, breaks, limited, executed, done,
                   co>>

Sending ==
    \/ Connect \/ Pop \/ CheckRateLimit \/ Write \/ WriteThrows \/ Unreadable \/ ReadFails
    \/ \E last \in BOOLEAN : Answered(last)
    \/ \E d \in Delays : now + d <= MaxTime /\ (Refused(now + d) \/ RefusedGlobally(now + d))
    \/ Wake \/ SetDone \/ Notify

Coroutine(r) == Await(r) \/ Suspend(r) \/ Resume(r)

Next ==
    \/ Tick \/ Break \/ Sending
    \/ \E r \in Requests : Send(r) \/ Coroutine(r)
    \/ \E t \in timers : Fire(t)
    \/ \E rs \in releasing : Resend(rs)

Spec == Init /\ [][Next]_vars

Releasing == (\E t \in timers : Fire(t)) \/ (\E rs \in releasing : Resend(rs))

(* Time passes, sockets answer, and what was posted or set runs. *)
FairSpec ==
    /\ Spec /\ WF_vars(Tick) /\ WF_vars(Sending) /\ WF_vars(Releasing)
    /\ \A r \in Requests : WF_vars(Coroutine(r))
-----------------------------------------------------------------------------
(* A bucket is freed no earlier than Discord said, although a timer frees    *)
(* the first entry and not its own: entries leave in the order of their ends *)
(* and there are never more of them gone than timers that were due.          *)
NeverReleasedEarly ==
    [][entries # <<>> /\ Len(entries') < Len(entries) => Head(entries).until <= now]_vars

(* A request is executed at most once, through limits, broken connections    *)
(* and timers that overlap.                                                  *)
ExecutedAtMostOnce == \A r \in Requests : executed[r] <= 1

(* Who awaits a request is resumed: the answer neither slips between the     *)
(* test of done and the push of the handle, nor is the request lost in an    *)
(* entry, in the hands of a timer or in the queue.  When start_sending dies, *)
(* those still hang that have no answer, and only those.                     *)
EveryAwaiterResumes ==
    \A r \in Requests :
        co[r] = "sent" ~> co[r] = "resumed" \/ (phase = "dead" /\ ~done[r])
=============================================================================
