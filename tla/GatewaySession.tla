--------------------------- MODULE GatewaySession ---------------------------
(* One session of a shard with the gateway (init_shard.cpp, internal_shard,  *)
(* heartbeat_context, rename_later_5).  Three parties run on their own: the  *)
(* read loop on the shard's strand, the heartbeat timer, whose handler runs  *)
(* on any thread of the io_context, and the writers behind the mutex of      *)
(* rename_later_5.  There is no clock: a beat may come before the answer to  *)
(* the one before it, as it does when the server is slow.                    *)
EXTENDS Integers, Sequences

CONSTANTS
    MaxDispatches,  \* bound: events of the session
    MaxRequests     \* bound: heartbeats that the server asks for

ASSUME GatewayAssumption == {MaxDispatches, MaxRequests} \subseteq Nat

VARIABLES
    silent, said, owed, asked,  \* the server: its sequence number, acks it owes
    lastBeat,       \* history: the number in the last beat that it received
    inbox,          \* messages on the way to the shard
    conn,           \* the web socket: "open", "closing" or "closed"
    reader,         \* the loop of init_shard: "reading" or "done"
    hello,          \* m_hello_promise is set
    seq,            \* m_seq_num
    disconnected,   \* m_is_disconnected
    ack,            \* recived_ack
    beat,           \* where the handler of the timer is
    outbox,         \* frames of the writers that wait for the mutex or write
    beats,          \* history: the numbers of the last two timed beats
    late            \* history: beats sent since m_is_disconnected was set

server == <<silent, said, owed, asked, lastBeat>>
loop == <<reader, hello, seq>>
heart == <<ack, beat, beats, late>>
vars == <<server, inbox, conn, loop, disconnected, heart, outbox>>

Null == -1          \* the "d" of a beat without a number
Max2(a, b) == IF a > b THEN a ELSE b

TypeOK ==
    /\ silent \in BOOLEAN /\ said \in 0..MaxDispatches
    /\ owed \in 0..(MaxRequests + 2) /\ asked \in 0..MaxRequests
    /\ conn \in {"open", "closing", "closed"}
    /\ reader \in {"reading", "done"} /\ hello \in BOOLEAN
    /\ {seq, lastBeat + 1} \subseteq 0..MaxDispatches + 1
    /\ disconnected \in BOOLEAN /\ ack \in BOOLEAN
    /\ beat \in {"none", "armed", "send", "clear", "stopped"}
    /\ outbox \in Seq(Null..MaxDispatches) /\ Len(outbox) <= MaxRequests + 2
    /\ beats \in (Null..MaxDispatches) \X (Null..MaxDispatches)

Init ==
    /\ silent = FALSE /\ said = 0 /\ owed = 0 /\ asked = 0 /\ lastBeat = Null
    /\ inbox = << [op |-> "hello"] >>
    /\ conn = "open"
    /\ reader = "reading" /\ hello = FALSE /\ seq = 0
    /\ disconnected = FALSE
    /\ ack = FALSE /\ beat = "none" /\ beats = <<Null, Null>> /\ late = 0
    /\ outbox = <<>>
-----------------------------------------------------------------------------
(* The server and the network. *)
Says(m) ==
    /\ ~silent /\ conn = "open"
    /\ inbox' = Append(inbox, m)
    /\ UNCHANGED <<silent, lastBeat, conn, loop, disconnected, heart, outbox>>

(* An event; the last chunk of a guild also has the events that were put     *)
(* aside replayed.                                                           *)
Dispatch ==
    /\ said < MaxDispatches
    /\ said' = said + 1
    /\ \E replay \in BOOLEAN : Says([op |-> "dispatch", s |-> said + 1, replay |-> replay])
    /\ UNCHANGED <<owed, asked>>

Ack ==
    /\ owed > 0
    /\ owed' = owed - 1
    /\ Says([op |-> "ack"])
    /\ UNCHANGED <<said, asked>>

Request ==
    /\ asked < MaxRequests
    /\ asked' = asked + 1
    /\ Says([op |-> "heartbeat"])
    /\ UNCHANGED <<said, owed>>

AskToReconnect ==
    /\ \A i \in DOMAIN inbox : inbox[i].op # "reconnect"
    /\ Says([op |-> "reconnect"])
    /\ UNCHANGED <<said, owed, asked>>

FallSilent ==
    /\ ~silent
    /\ silent' = TRUE
    /\ UNCHANGED <<said, owed, asked, lastBeat, inbox, conn, loop, disconnected, heart, outbox>>

Break ==
    /\ conn = "open"
    /\ conn' = "closed"
    /\ UNCHANGED <<server, inbox, loop, disconnected, heart, outbox>>

Closed ==
    /\ conn = "closing"
    /\ conn' = "closed"
    /\ UNCHANGED <<server, inbox, loop, disconnected, heart, outbox>>
-----------------------------------------------------------------------------
Send(d) == outbox' = Append(outbox, d)

(* internal_shard::reconnect: close, once.  "reconnect will happen in        *)
(* init_shard".                                                              *)
Reconnect ==
    /\ disconnected' = TRUE
    /\ conn' = IF ~disconnected /\ conn = "open" THEN "closing" ELSE conn

(* m_opcode0 keeps the highest number; a replayed event has none, that is 0. *)
Seen(s, old) == Max2(s, old)

Take(op) ==
    /\ reader = "reading" /\ inbox # <<>> /\ Head(inbox).op = op
    /\ inbox' = Tail(inbox)
    /\ UNCHANGED <<server, reader>>
-----------------------------------------------------------------------------
(* Mutants. *)
BeatCheckNever ==                       \* the ack is not looked at
    /\ beat = "armed"
    /\ beat' = IF disconnected THEN "stopped" ELSE "send"
    /\ UNCHANGED <<server, inbox, conn, loop, disconnected, ack, beats, late, outbox>>

BeatCheckOpen ==                        \* is_disconnected is not asked
    /\ beat = "armed"
    /\ IF ~ack
       THEN Reconnect /\ beat' = "stopped"
       ELSE beat' = "send" /\ UNCHANGED <<disconnected, conn>>
    /\ UNCHANGED <<server, inbox, loop, ack, beats, late, outbox>>

BeatClearNot ==                         \* recived_ack is not reset
    /\ beat = "clear"
    /\ beat' = "armed"
    /\ UNCHANGED <<server, inbox, conn, loop, disconnected, ack, beats, late, outbox>>
-----------------------------------------------------------------------------
(* HELLO starts the heart: the first beat, and the timer. *)
HandleHello ==
    /\ Take("hello")
    /\ hello' = TRUE
    /\ Send(Null)
    /\ ack' = FALSE /\ beat' = "armed"
    /\ UNCHANGED <<conn, seq, disconnected, beats, late>>

(* replay_events_for calls m_opcode0 with the number 0 *)
HandleDispatch ==
    /\ Take("dispatch")
    /\ seq' = IF Head(inbox).replay THEN Seen(0, Seen(Head(inbox).s, seq))
                                    ELSE Seen(Head(inbox).s, seq)
    /\ UNCHANGED <<conn, hello, disconnected, heart, outbox>>

HandleAck ==
    /\ Take("ack")
    /\ ack' = TRUE
    /\ UNCHANGED <<conn, hello, seq, disconnected, beat, beats, late, outbox>>

HandleRequest ==
    /\ Take("heartbeat")
    /\ IF disconnected THEN UNCHANGED outbox ELSE Send(Null)
    /\ UNCHANGED <<conn, hello, seq, disconnected, heart>>

HandleReconnect ==
    /\ Take("reconnect")
    /\ Reconnect
    /\ UNCHANGED <<hello, seq, heart, outbox>>

(* The read fails.  Its ec.value() is an error of Beast or of the system,    *)
(* never a close code of Discord (4000 and up), so none of the branches that *)
(* reconnect is taken: close, and return from init_shard.                    *)
ReadFails ==
    /\ reader = "reading" /\ conn = "closed"
    /\ reader' = "done"
    /\ UNCHANGED <<server, inbox, conn, hello, seq, disconnected, heart, outbox>>

(* A frame that does not parse, or lacks what its handler reads: catch (...) *)
(* of init_shard ends the loop, and leaves the socket as it is.              *)
ReadThrows ==
    /\ reader = "reading" /\ conn # "closed"
    /\ reader' = "done"
    /\ UNCHANGED <<server, inbox, conn, hello, seq, disconnected, heart, outbox>>

(* send_heartbeat, when the timer fires. *)
BeatCheck ==
    /\ beat = "armed"
    /\ IF ~ack
       THEN Reconnect /\ beat' = "stopped"
       ELSE /\ beat' = IF disconnected THEN "stopped" ELSE "send"
            /\ UNCHANGED <<disconnected, conn>>
    /\ UNCHANGED <<server, inbox, loop, ack, beats, late, outbox>>

BeatSend ==
    /\ beat = "send"
    /\ beat' = "clear"
    /\ Send(seq)
    /\ beats' = <<beats[2], seq>>
    /\ late' = IF disconnected THEN late + 1 ELSE late
    /\ UNCHANGED <<server, inbox, conn, loop, disconnected, ack>>

BeatClear ==
    /\ beat = "clear"
    /\ ack' = FALSE
    /\ beat' = "armed"
    /\ UNCHANGED <<server, inbox, conn, loop, disconnected, beats, late, outbox>>

(* send_thing: the mutex serves the writers in an order of its own (see      *)
(* AsyncMutex).  A frame is written, or dropped when the socket is closed.   *)
Write ==
    /\ conn = "open"
    /\ \E i \in DOMAIN outbox :
        /\ outbox' = SubSeq(outbox, 1, i - 1) \o SubSeq(outbox, i + 1, Len(outbox))
        /\ lastBeat' = IF outbox[i] = Null THEN lastBeat ELSE outbox[i]
    /\ owed' = owed + 1
    /\ UNCHANGED <<silent, said, asked, inbox, conn, loop, disconnected, heart>>

Drop ==
    /\ conn # "open" /\ outbox # <<>>
    /\ outbox' = Tail(outbox)
    /\ UNCHANGED <<server, inbox, conn, loop, disconnected, heart>>

Read == HandleHello \/ HandleDispatch \/ HandleAck \/ HandleRequest \/ HandleReconnect \/ ReadFails
Beat == BeatCheck \/ BeatSend \/ BeatClear
Network == Dispatch \/ Ack \/ Request \/ AskToReconnect \/ FallSilent \/ Break

Next == Network \/ Closed \/ Read \/ ReadThrows \/ Beat \/ Write \/ Drop

Spec == Init /\ [][Next]_vars

(* The io_context runs what is ready, timers expire, and a socket that is    *)
(* being closed gets closed.  Nothing is assumed of the server.              *)
FairSpec == Spec /\ WF_vars(Read) /\ WF_vars(Beat) /\ WF_vars(Closed)
-----------------------------------------------------------------------------
(* The numbers in the beats never go back, whatever was replayed between     *)
(* them, and the server has sent every one of them.                          *)
BeatsAscend == beats[1] <= beats[2] /\ beats[2] <= said

(* Nor do they reach the server out of order, although the writers' mutex    *)
(* serves the newest first: a beat is only sent when the one before it was   *)
(* answered.  (The answer to a beat that the server asked for can be taken   *)
(* for it; hence until it asks.)                                             *)
BeatsArriveInOrder == [][asked = 0 => lastBeat <= lastBeat']_vars

(* Once the shard is marked as disconnected, by the read loop or by a beat,  *)
(* at most the beat that was already past its test is sent.                  *)
HeartStops == late <= 1

(* A server that falls silent is noticed, and so is a read loop that has     *)
(* ended, by the beats that nobody answers: the shard is marked disconnected *)
SilenceIsNoticed == (silent \/ reader = "done") /\ hello ~> disconnected

(* "reconnect will happen in init_shard": a shard that closed its connection *)
(* in order to reconnect has a connection again.                             *)
ReconnectHappens == disconnected ~> (conn = "open" /\ ~disconnected)
=============================================================================
