------------------------------- MODULE Client -------------------------------
(* What the shards share (client.h, client.cpp): do_identifies identifies    *)
(* them after the start, in waves; queue_to_identify is for a shard whose    *)
(* session became invalid later; rate_limit_global passes a global limit to  *)
(* the connections of all shards.  Shards are numbered, as in m_shards.      *)
EXTENDS Integers, Sequences, FiniteSets

CONSTANTS
    NumShards, MaxConcurrency,
    Gap,            \* the pause between waves (5 s), and that of opcode 9
    Callers,        \* coroutines that may call rate_limit_global
    Nobody,
    Deadlines,      \* ends of global limits
    MaxTime,        \* bound: the clock, unless do_identifies waits for it
    MaxInvalid,     \* bound: sessions that become invalid
    MaxCalls        \* bound: calls of rate_limit_global

Shards == 1..NumShards

ASSUME ClientAssumption ==
    /\ {NumShards, MaxConcurrency, Gap} \subseteq Nat \ {0}
    /\ Nobody \notin Callers
    /\ Deadlines \subseteq Nat /\ {MaxTime, MaxInvalid, MaxCalls} \subseteq Nat

VARIABLES
    now,
    hello,          \* shards whose m_hello_promise is set
    turn, phase,    \* do_identifies: the shard it is at, and what it waits for
    waveEnd,        \* expiry of the timer between waves
    wave,           \* the shards of concurrent_connection_tasks not yet done
    noOne,          \* m_no_one_is_identifying
    lastIdentify,   \* m_last_identify
    stack,          \* m_identifying_stack
    waits,          \* waits[s]: expiries of the timers set for s, after opcode
                    \* 9 ("opcode9") and by queue_to_identify ("identify")
    invalids,       \* counter for the bound
    starts,         \* history: the calls of send_identity
    lock,           \* m_global_rate_limit_mut
    lastLimit,      \* m_last_global_rate_limit
    todo,           \* todo[c]: the shard that c's call is at (0: not calling)
    deadline,       \* deadline[c]: its argument
    until,          \* m_rate_limted_until of each shard's connection
    calls           \* counter for the bound

starting == <<turn, phase, waveEnd>>
requeue == <<noOne, lastIdentify, stack, waits, invalids>>
limits == <<lock, lastLimit, todo, deadline, until, calls>>
vars == <<now, hello, starting, wave, requeue, starts, limits>>

TypeOK ==
    /\ now \in Nat
    /\ hello \subseteq Shards /\ wave \subseteq Shards
    /\ turn \in 1..(NumShards + 1)
    /\ phase \in {"hello", "tasks", "timer", "done"}
    /\ waveEnd \in Nat
    /\ noOne \in BOOLEAN /\ lastIdentify \in Int /\ stack \in Seq(Shards)
    /\ waits \subseteq [shard : Shards, at : Int, kind : {"opcode9", "identify"}]
    /\ lock \in Callers \cup {Nobody} /\ lastLimit \in Nat
    /\ todo \in [Callers -> 0..NumShards]
    /\ \A c \in Callers : todo[c] # 0 <=> lock = c

Init ==
    /\ now = 0
    /\ hello = {} /\ turn = 1 /\ phase = "hello" /\ waveEnd = 0 /\ wave = {}
    /\ noOne = TRUE /\ lastIdentify = -(Gap + 1) /\ stack = <<>>
    /\ waits = {} /\ invalids = 0
    /\ starts = <<>>
    /\ lock = Nobody /\ lastLimit = 0
    /\ todo = [c \in Callers |-> 0]
    /\ deadline = [c \in Callers |-> 0]
    /\ until = [s \in Shards |-> 0]
    /\ calls = 0

Tick ==
    /\ now < MaxTime \/ (phase = "timer" /\ now < waveEnd)
    /\ now' = now + 1
    /\ UNCHANGED <<hello, starting, wave, requeue, starts, limits>>

Hello(s) ==
    /\ s \notin hello
    /\ hello' = hello \cup {s}
    /\ UNCHANGED <<now, starting, wave, requeue, starts, limits>>

SendIdentity(s, by) == starts' = Append(starts, [shard |-> s, at |-> now, by |-> by])
-----------------------------------------------------------------------------
(* Mutants. *)
IdentifyUnasked ==          \* the HELLO of the shard is not awaited
    /\ phase = "hello" /\ turn <= NumShards
    /\ SendIdentity(turn, "start")
    /\ wave' = wave \cup {turn}
    /\ turn' = turn + 1
    /\ phase' = IF turn % MaxConcurrency = 0 \/ turn = NumShards THEN "tasks" ELSE "hello"
    /\ UNCHANGED <<now, hello, waveEnd, requeue, limits>>

TasksDoneNoTimer ==         \* no pause between the waves
    /\ phase = "tasks" /\ wave = {}
    /\ phase' = IF turn > NumShards THEN "done" ELSE "hello"
    /\ UNCHANGED <<now, hello, turn, waveEnd, wave, requeue, starts, limits>>

NextWaveWhole ==            \* only whole waves: the division is rounded down
    /\ phase = "timer" /\ now >= waveEnd
    /\ phase' = IF turn + MaxConcurrency > NumShards + 1 THEN "done" ELSE "hello"
    /\ waveEnd' = 0
    /\ UNCHANGED <<now, hello, turn, wave, requeue, starts, limits>>

TryLockIgnored(c, t) ==     \* the result of try_to_lock is not looked at
    /\ todo[c] = 0 /\ calls < MaxCalls
    /\ calls' = calls + 1
    /\ lock' = c /\ lastLimit' = now
    /\ todo' = [todo EXCEPT ![c] = 1] /\ deadline' = [deadline EXCEPT ![c] = t]
    /\ UNCHANGED <<now, hello, starting, wave, requeue, starts, until>>
-----------------------------------------------------------------------------
(* do_identifies: for each shard of a wave wait for its HELLO and send its   *)
(* IDENTIFY, then wait until all of them are written, then for the timer.    *)
Identify ==
    /\ phase = "hello" /\ turn <= NumShards /\ turn \in hello
    /\ SendIdentity(turn, "start")
    /\ wave' = wave \cup {turn}
    /\ turn' = turn + 1
    /\ phase' = IF turn % MaxConcurrency = 0 \/ turn = NumShards THEN "tasks" ELSE "hello"
    /\ UNCHANGED <<now, hello, waveEnd, requeue, limits>>

Written(s) ==
    /\ s \in wave
    /\ wave' = wave \ {s}
    /\ UNCHANGED <<now, hello, starting, requeue, starts, limits>>

TasksDone ==
    /\ phase = "tasks" /\ wave = {}
    /\ phase' = "timer" /\ waveEnd' = now + Gap
    /\ UNCHANGED <<now, hello, turn, wave, requeue, starts, limits>>

NextWave ==
    /\ phase = "timer" /\ now >= waveEnd
    /\ phase' = IF turn > NumShards THEN "done" ELSE "hello"
    /\ waveEnd' = 0
    /\ UNCHANGED <<now, hello, turn, wave, requeue, starts, limits>>

(* Opcode 9: the session of an identified shard is invalid.  The shard waits *)
(* and then calls queue_to_identify (unless it may resume).                  *)
Invalidate(s) ==
    /\ invalids < MaxInvalid
    /\ \E i \in DOMAIN starts : starts[i].shard = s
    /\ invalids' = invalids + 1
    /\ waits' = waits \cup {[shard |-> s, at |-> now + Gap, kind |-> "opcode9"]}
    /\ UNCHANGED <<now, hello, starting, wave, noOne, lastIdentify, stack, starts, limits>>

(* queue_to_identify.  notify_identified, which would serve the stack, set   *)
(* the flag again and move m_last_identify, is called by nobody.             *)
QueueToIdentify(w) ==
    /\ w \in waits /\ w.kind = "opcode9" /\ now >= w.at
    /\ IF noOne
       THEN /\ noOne' = FALSE
            /\ waits' = (waits \ {w}) \cup {[shard |-> w.shard, at |-> lastIdentify + Gap, kind |-> "identify"]}
            /\ UNCHANGED stack
       ELSE /\ stack' = Append(stack, w.shard)
            /\ waits' = waits \ {w}
            /\ UNCHANGED noOne
    /\ UNCHANGED <<now, hello, starting, wave, lastIdentify, invalids, starts, limits>>

IdentifyAgain(w) ==
    /\ w \in waits /\ w.kind = "identify" /\ now >= w.at
    /\ waits' = waits \ {w}
    /\ SendIdentity(w.shard, "queue")
    /\ UNCHANGED <<now, hello, starting, wave, noOne, lastIdentify, stack, invalids, limits>>
-----------------------------------------------------------------------------
(* rate_limit_global: try the lock.  The time of the last call is compared   *)
(* the wrong way round, so the test always succeeds.                         *)
RateLimitGlobal(c, t) ==
    /\ todo[c] = 0 /\ calls < MaxCalls
    /\ calls' = calls + 1
    /\ IF lock = Nobody /\ lastLimit - now < 3
       THEN /\ lock' = c /\ lastLimit' = now
            /\ todo' = [todo EXCEPT ![c] = 1] /\ deadline' = [deadline EXCEPT ![c] = t]
       ELSE UNCHANGED <<lock, lastLimit, todo, deadline>>
    /\ UNCHANGED <<now, hello, starting, wave, requeue, starts, until>>

(* sleep_till of one shard's connection; the last one ends the call. *)
SleepTill(c) ==
    /\ todo[c] # 0
    /\ until' = [until EXCEPT ![todo[c]] = deadline[c]]
    /\ IF todo[c] < NumShards
       THEN todo' = [todo EXCEPT ![c] = @ + 1] /\ UNCHANGED <<lock, deadline>>
       ELSE /\ todo' = [todo EXCEPT ![c] = 0] /\ deadline' = [deadline EXCEPT ![c] = 0]
            /\ lock' = Nobody
    /\ UNCHANGED <<now, hello, starting, wave, requeue, starts, lastLimit, calls>>

DoIdentifies == Identify \/ TasksDone \/ NextWave \/ \E s \in Shards : Written(s)

Next ==
    \/ Tick \/ DoIdentifies
    \/ \E s \in Shards : Hello(s) \/ Invalidate(s)
    \/ \E w \in waits : QueueToIdentify(w) \/ IdentifyAgain(w)
    \/ \E c \in Callers : SleepTill(c) \/ \E t \in Deadlines : RateLimitGlobal(c, t)

Spec == Init /\ [][Next]_vars

(* Time passes, timers and promises resume who waits for them, and frames    *)
(* are written.                                                              *)
FairSpec == Spec /\ WF_vars(Tick) /\ WF_vars(DoIdentifies)
-----------------------------------------------------------------------------
(* Discord allows MaxConcurrency identifies in a period: do_identifies,      *)
(* which takes the shards in order, keeps to it, however late a HELLO comes  *)
(* and however long the frames take.                                         *)
StartsInWaves ==
    \A i, j \in DOMAIN starts :
        /\ starts[i].by = "start" /\ starts[j].by = "start"
        /\ starts[j].shard = starts[i].shard + MaxConcurrency
        => starts[j].at - starts[i].at >= Gap

(* No shard is identified before its HELLO, and do_identifies takes each one *)
(* exactly once.                                                             *)
IdentifiedOnceAfterHello ==
    /\ \A i \in DOMAIN starts : starts[i].shard \in hello
    /\ \A i, j \in DOMAIN starts :
          starts[i].by = "start" /\ starts[j].by = "start" /\ starts[i].shard = starts[j].shard => i = j

(* Once every shard has had its HELLO all of them get identified.            *)
AllIdentified ==
    hello = Shards ~> \A s \in Shards : \E i \in DOMAIN starts : starts[i].shard = s

(* Between calls the connections agree on the global limit: calls that       *)
(* overlap do not leave some shards with the one and some with the other.    *)
LimitsAgree == lock = Nobody => \A s, r \in Shards : until[s] = until[r]

(* "1 identify every 5s": also with those of invalid sessions among them.    *)
IdentifiesSpaced ==
    \A i \in DOMAIN starts :
        i + MaxConcurrency \in DOMAIN starts => starts[i + MaxConcurrency].at - starts[i].at >= Gap
=============================================================================
