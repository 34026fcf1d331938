--------------------------- MODULE CachelessGateway ---------------------------
(* How the shards of the cacheless library identify and stay alive           *)
(* (no_cache/client.h, init_shard.cpp, internal_shard.cpp,                   *)
(* heartbeat_context.cpp).  Every HELLO queues its shard with the client,    *)
(* which hands on the right to identify, 5 s after the last one; a shard     *)
(* whose session is invalid reserves a time of its own.  Nothing opens a     *)
(* connection again: an error, opcode 7 or a missing heartbeat end a shard.  *)
EXTENDS Integers, Sequences, FiniteSets

CONSTANTS
    Shards,
    Gap,            \* 5 s; get_time_point_for_identifying adds some slack
    MaxInvalid,     \* bound: sessions that become invalid
    MaxLost         \* bound: shards that lose their connection

VARIABLES
    clock,
    conn,           \* conn[s]: "dialing", "open", "unread" when its loop has
                    \* ended, or "closed" when m_is_disconnected is set
    acked,          \* recived_ack of the heartbeat_context
    beating,        \* its timer is set
    noOne,          \* m_no_one_is_identifying
    last,           \* m_last_identify
    stack,          \* m_identifying_stack
    waits,          \* timers set for shards: of queue_to_identify and
                    \* notify_identified ("chain"), of opcode 9 ("invalid",
                    \* "resumable"), and of m_send_identity ("reserved")
    writes,         \* IDENTIFYs that are being written
    identified,     \* history: shards whose IDENTIFY was begun
    invalids        \* counter for the bound

links == <<conn, acked, beating>>
chain == <<noOne, last, stack>>
gatewayVars == <<clock, links, chain, waits, writes, identified, invalids>>

Timer == [shard : Shards, at : Int, kind : {"chain", "invalid", "resumable", "reserved"}]
Writing == [shard : Shards, kind : {"chain", "reserved"}]

GatewayTypeOK ==
    /\ clock \in Nat
    /\ conn \in [Shards -> {"dialing", "open", "unread", "closed"}]
    /\ acked \in [Shards -> BOOLEAN] /\ beating \in [Shards -> BOOLEAN]
    /\ noOne \in BOOLEAN /\ last \in Int /\ stack \in Seq(Shards)
    /\ waits \subseteq Timer /\ writes \subseteq Writing
    /\ identified \subseteq Shards /\ invalids \in 0..MaxInvalid

GatewayInit ==
    /\ clock = 0
    /\ conn = [s \in Shards |-> "dialing"]
    /\ acked = [s \in Shards |-> FALSE] /\ beating = [s \in Shards |-> FALSE]
    /\ noOne = TRUE /\ last = -(Gap + 1) /\ stack = <<>>
    /\ waits = {} /\ writes = {} /\ identified = {} /\ invalids = 0

(* Time counts only while a timer waits for it. *)
GatewayTick ==
    /\ \E t \in waits : t.at > clock
    /\ clock' = clock + 1
    /\ UNCHANGED <<links, chain, waits, writes, identified, invalids>>

Lost == {s \in Shards : conn[s] \in {"unread", "closed"}}

Lose(s, how) ==
    /\ Cardinality(Lost \cup {s}) <= MaxLost
    /\ conn' = [conn EXCEPT ![s] = how]

TimerAt(s, at, kind) == [shard |-> s, at |-> at, kind |-> kind]
-----------------------------------------------------------------------------
(* Mutants. *)
QueueUnflagged(s) ==        \* the flag is tested and not taken
    IF noOne
    THEN waits' = waits \cup {TimerAt(s, last + Gap, "chain")} /\ UNCHANGED <<noOne, stack>>
    ELSE stack' = Append(stack, s) /\ UNCHANGED <<noOne, waits>>

NotifyOldest ==              \* front() is taken with pop_back()
    /\ last' = clock
    /\ IF stack # <<>>
       THEN /\ waits' = waits \cup {TimerAt(stack[1], clock + Gap, "chain")}
            /\ stack' = SubSeq(stack, 1, Len(stack) - 1)
            /\ UNCHANGED noOne
       ELSE noOne' = TRUE /\ UNCHANGED <<stack, waits>>
-----------------------------------------------------------------------------
(* init_shard: the web socket, then the connection for requests; then frames *)
(* are read until the first error, whose code is compared with close codes   *)
(* it never equals, or until one that does not parse: the loop ends, and the *)
(* heart goes on.                                                            *)
Open(s) ==
    /\ conn[s] = "dialing"
    /\ conn' = [conn EXCEPT ![s] = "open"]
    /\ UNCHANGED <<clock, acked, beating, chain, waits, writes, identified, invalids>>

ReadError(s) ==
    /\ conn[s] = "open" /\ Lose(s, "unread")
    /\ UNCHANGED <<clock, acked, beating, chain, waits, writes, identified, invalids>>

(* Opcode 7: reconnect() only closes; "reconnect will happen in init_shard". *)
Opcode7(s) ==
    /\ conn[s] = "open" /\ Lose(s, "closed")
    /\ UNCHANGED <<clock, acked, beating, chain, waits, writes, identified, invalids>>

(* client::queue_to_identify *)
QueueToIdentify(s) ==
    IF noOne
    THEN noOne' = FALSE /\ waits' = waits \cup {TimerAt(s, last + Gap, "chain")}
         /\ UNCHANGED stack
    ELSE stack' = Append(stack, s) /\ UNCHANGED <<noOne, waits>>

(* Opcode 10: the first heartbeat, and the shard is queued. *)
Hello(s) ==
    /\ conn[s] = "open" /\ ~beating[s]
    /\ acked' = [acked EXCEPT ![s] = FALSE] /\ beating' = [beating EXCEPT ![s] = TRUE]
    /\ QueueToIdentify(s)
    /\ UNCHANGED <<clock, conn, last, writes, identified, invalids>>

(* Opcode 11. *)
Ack(s) ==
    /\ conn[s] = "open" /\ beating[s] /\ ~acked[s]
    /\ acked' = [acked EXCEPT ![s] = TRUE]
    /\ UNCHANGED <<clock, conn, beating, chain, waits, writes, identified, invalids>>

(* send_heartbeat: the interval has passed, with the acknowledgement or not; *)
(* a shard that is disconnected has had its last.                            *)
SendHeartbeat(s) ==
    /\ beating[s] /\ conn[s] # "closed"
    /\ IF acked[s]
       THEN acked' = [acked EXCEPT ![s] = FALSE] /\ UNCHANGED conn
       ELSE Lose(s, "closed") /\ UNCHANGED acked
    /\ UNCHANGED <<clock, beating, chain, waits, writes, identified, invalids>>
-----------------------------------------------------------------------------
SendThing(s, kind) ==
    /\ writes' = writes \cup {[shard |-> s, kind |-> kind]}
    /\ identified' = identified \cup {s}

(* send_identity, and the send of m_send_identity: also when the connection  *)
(* is closed by now, whose write is then repeated for ever.  (Of a loop that *)
(* a frame has ended the socket is open still.)                              *)
Identify(t) ==
    /\ t \in waits /\ t.kind \in {"chain", "reserved"} /\ clock >= t.at
    /\ waits' = waits \ {t}
    /\ SendThing(t.shard, t.kind)
    /\ UNCHANGED <<clock, links, chain, invalids>>

(* notify_identified: the newest of the queued shards is next. *)
NotifyIdentified ==
    /\ last' = clock
    /\ IF stack # <<>>
       THEN /\ waits' = waits \cup {TimerAt(stack[Len(stack)], clock + Gap, "chain")}
            /\ stack' = SubSeq(stack, 1, Len(stack) - 1)
            /\ UNCHANGED noOne
       ELSE noOne' = TRUE /\ UNCHANGED <<stack, waits>>

Written(w) ==
    /\ w \in writes /\ conn[w.shard] \in {"open", "unread"}
    /\ writes' = writes \ {w}
    /\ IF w.kind = "chain" THEN NotifyIdentified ELSE UNCHANGED <<chain, waits>>
    /\ UNCHANGED <<clock, links, identified, invalids>>

(* Opcode 9, after 5 s: a RESUME, or m_send_identity, which reserves the     *)
(* next time for itself but is not in the queue.                             *)
InvalidSession(s, kind) ==
    /\ conn[s] = "open" /\ s \in identified /\ invalids < MaxInvalid
    /\ invalids' = invalids + 1
    /\ waits' = waits \cup {TimerAt(s, clock + Gap, kind)}
    /\ UNCHANGED <<clock, links, chain, writes, identified>>

AfterInvalid(t) ==
    /\ t \in waits /\ t.kind \in {"invalid", "resumable"} /\ clock >= t.at
    /\ IF t.kind = "invalid"
       THEN /\ last' = IF clock > last + Gap + 1 THEN clock ELSE last + Gap + 1
            /\ waits' = (waits \ {t}) \cup {TimerAt(t.shard, last', "reserved")}
       ELSE waits' = waits \ {t} /\ UNCHANGED last
    /\ UNCHANGED <<clock, links, noOne, stack, writes, identified, invalids>>
-----------------------------------------------------------------------------
GatewayNext ==
    \/ GatewayTick
    \/ \E s \in Shards :
        \/ Open(s) \/ Hello(s) \/ Ack(s) \/ SendHeartbeat(s) \/ Opcode7(s) \/ ReadError(s)
        \/ \E kind \in {"invalid", "resumable"} : InvalidSession(s, kind)
    \/ \E t \in waits : Identify(t) \/ AfterInvalid(t)
    \/ \E w \in writes : Written(w)

GatewaySpec == GatewayInit /\ [][GatewayNext]_gatewayVars

Runs == (\E t \in waits : Identify(t) \/ AfterInvalid(t)) \/ (\E w \in writes : Written(w))

(* Time passes, timers fire, and what is written to an open socket arrives.  *)
GatewayFairSpec == GatewaySpec /\ WF_gatewayVars(GatewayTick) /\ WF_gatewayVars(Runs)
-----------------------------------------------------------------------------
(* The right to identify is in one place: free, with nobody queued, or with  *)
(* one shard, whose timer is set or whose IDENTIFY is being written.  Two    *)
(* HELLOs, or a HELLO and the end of a write, neither double nor lose it.    *)
OneIdentifies ==
    /\ Cardinality({t \in waits : t.kind = "chain"})
        + Cardinality({w \in writes : w.kind = "chain"}) = IF noOne THEN 0 ELSE 1
    /\ noOne => stack = <<>>

(* Every shard that got its HELLO is identified, unless some connection      *)
(* broke: if it is that of the shard with the right, all others wait for     *)
(* ever.                                                                     *)
AllIdentified ==
    \A s \in Shards : beating[s] ~> s \in identified \/ Lost # {}
=============================================================================
