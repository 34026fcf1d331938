------------------------------- MODULE Voice -------------------------------
(* The bot's calls in the voice channels of one guild.  connect_voice tells  *)
(* the gateway (opcode 4) and waits for two events that may come in either   *)
(* order; then a web socket of its own, an UDP socket and a key are set up.  *)
(* Audio is sent frame by frame until the source ends or is cancelled; the   *)
(* source may keep the loop waiting.  All runs on one thread, which is what  *)
(* a client has unless it is given more: what lies between two co_awaits is  *)
(* one step.                                                                 *)
EXTENDS Naturals, Sequences

CONSTANTS
    Calls,          \* calls of connect_voice
    Nobody,         \* owner of a promise that operator[] made
    Frames,         \* frames of an audio source
    MaxPlays, MaxCancels, MaxMoves, MaxBreaks   \* bounds

ASSUME VoiceAssumption ==
    Nobody \notin Calls /\ {Frames, MaxPlays, MaxCancels, MaxMoves, MaxBreaks} \subseteq Nat

VARIABLES
    pc,             \* where connect_voice stands
    connected,      \* the guild is in guilds_connected_to_vc
    endpointFor,    \* the promise in m_things_waiting_for_voice_endpoint
    sessionFor,     \* the one in m_things_waiting_for_voice_endpoint2
    endpoint, session,  \* what the call was told
    member,         \* the bot is in the guild's voice states
    events,         \* the gateway's events for the shard
    asked, answer,  \* opcodes 4 on their way; the join that answered the call's
    joins, inCall,  \* the gateway: joins so far; the bot is in a channel
    alive, handle,  \* is_alive; the user has a voice_connection
    beating,        \* the coroutine of the heartbeats runs, and holds its pin
    lost,           \* the web socket broke, or its call ended
    player,         \* where send_voice stands
    toPlay,         \* frames left in its source
    isPlaying, isCanceled,
    cancels, done,  \* cancels accepted (the last one is cancel_promise); completed
    plays,          \* playbacks so far, of all calls
    playback,       \* history: the number of the last one
    during,         \* history: the playback that the last cancel was for
    moves, breaks

gateway == <<events, asked, answer, joins, inCall, moves>>
promises == <<endpointFor, sessionFor, endpoint, session>>
guild == <<connected, member>>
link == <<alive, handle, beating, lost, breaks>>
audio == <<player, toPlay, isPlaying, isCanceled, cancels, done, plays, playback, during>>
vars == <<pc, gateway, promises, guild, link, audio>>

Promise == [of : Calls \cup {Nobody}, value : Nat]      \* 0: not set
NoPromise == [of |-> Nobody, value |-> 0]
Event == [kind : {"state", "server"}, join : Nat, leaves : BOOLEAN]
Stages == {"hello", "ready", "discovery", "description"}
Ends == {"up", "refused", "failed", "deaf", "thrown"}
Waits == {"source", "stalled"}      \* at co_await frames.next()

TypeOK ==
    /\ pc \in [Calls -> Stages \cup Ends \cup {"new", "endpoint", "session", "dial"}]
    /\ connected \in BOOLEAN /\ member \in BOOLEAN /\ inCall \in BOOLEAN
    /\ {endpointFor, sessionFor} \subseteq Promise
    /\ {endpoint, session, answer, cancels, playback, during} \subseteq [Calls -> Nat]
    /\ events \in Seq(Event) /\ asked \in Seq(Calls) /\ joins \in Nat /\ plays \in 0..MaxPlays
    /\ {alive, handle, beating, lost, isPlaying, isCanceled} \subseteq [Calls -> BOOLEAN]
    /\ player \in [Calls -> Waits \cup {"off", "speaking", "frame", "canceling", "ending"}]
    /\ toPlay \in [Calls -> 0..Frames]
    /\ \A c \in Calls : done[c] \subseteq 1..cancels[c]

Init ==
    /\ pc = [c \in Calls |-> "new"]
    /\ connected = FALSE /\ member = FALSE /\ inCall = FALSE
    /\ endpointFor = NoPromise /\ sessionFor = NoPromise
    /\ endpoint = [c \in Calls |-> 0] /\ session = [c \in Calls |-> 0]
    /\ answer = [c \in Calls |-> 0]
    /\ events = <<>> /\ asked = <<>> /\ joins = 0
    /\ alive = [c \in Calls |-> TRUE] /\ handle = [c \in Calls |-> FALSE]
    /\ beating = [c \in Calls |-> FALSE] /\ lost = [c \in Calls |-> FALSE]
    /\ player = [c \in Calls |-> "off"] /\ toPlay = [c \in Calls |-> 0]
    /\ isPlaying = [c \in Calls |-> FALSE] /\ isCanceled = [c \in Calls |-> FALSE]
    /\ cancels = [c \in Calls |-> 0] /\ done = [c \in Calls |-> {}]
    /\ plays = 0 /\ playback = [c \in Calls |-> 0] /\ during = [c \in Calls |-> 0]
    /\ moves = 0 /\ breaks = 0
-----------------------------------------------------------------------------
(* The gateway.  A join is answered by two events, in either order.          *)
Admit ==
    /\ asked # <<>>
    /\ joins' = joins + 1 /\ inCall' = TRUE
    /\ asked' = Tail(asked)
    /\ answer' = [answer EXCEPT ![Head(asked)] = joins']
    /\ LET state == [kind |-> "state", join |-> joins', leaves |-> FALSE]
           place == [kind |-> "server", join |-> joins', leaves |-> FALSE]
       IN  events' \in {events \o <<state, place>>, events \o <<place, state>>}
    /\ UNCHANGED <<pc, promises, guild, link, audio, moves>>

(* The bot leaves its channel: its voice web socket was closed, or somebody  *)
(* removed it.                                                               *)
Drop ==
    /\ inCall /\ inCall' = FALSE
    /\ events' = Append(events, [kind |-> "state", join |-> joins, leaves |-> TRUE])
    /\ lost' = [c \in Calls |-> lost[c] \/ answer[c] = joins]
    /\ UNCHANGED <<pc, promises, guild, alive, handle, beating, breaks, audio, asked, answer, joins,
                   moves>>

(* The guild gets another voice server while the bot is in a channel. *)
Move ==
    /\ inCall /\ moves < MaxMoves
    /\ moves' = moves + 1
    /\ events' = Append(events, [kind |-> "server", join |-> joins, leaves |-> FALSE])
    /\ UNCHANGED <<pc, promises, guild, link, audio, asked, answer, joins, inCall>>
-----------------------------------------------------------------------------
(* Mutants. *)
ProceedKeeps(c, e, s) ==    \* the promises are left in the maps
    /\ pc' = [pc EXCEPT ![c] = "dial"]
    /\ endpoint' = [endpoint EXCEPT ![c] = e] /\ session' = [session EXCEPT ![c] = s]
    /\ endpointFor' = [of |-> c, value |-> e] /\ sessionFor' = [of |-> c, value |-> s]

CutPromised(c) ==           \* the end of a playback does not ask for a cancel
    /\ player[c] = "ending"
    /\ player' = [player EXCEPT ![c] = "off"]
    /\ UNCHANGED <<isPlaying, isCanceled, toPlay, done>>

LoopForgets(c) ==           \* the flag is read and not taken back
    /\ IF toPlay[c] > 0 /\ isCanceled[c]
       THEN player' = [player EXCEPT ![c] = "canceling"] /\ UNCHANGED toPlay
       ELSE IF toPlay[c] > 0
            THEN player' = [player EXCEPT ![c] = "frame"] /\ toPlay' = [toPlay EXCEPT ![c] = @ - 1]
            ELSE player' = [player EXCEPT ![c] = "ending"] /\ UNCHANGED toPlay
    /\ isPlaying' = [isPlaying EXCEPT ![c] = player'[c] = "frame"]
    /\ UNCHANGED <<isCanceled, done>>

CloseForgets(c) ==          \* the guild counts as left when the user disconnects
    /\ connected' = FALSE
    /\ alive' = [alive EXCEPT ![c] = FALSE]
-----------------------------------------------------------------------------
(* connect_voice.  Per guild one call at a time: a second one throws.  The   *)
(* promises are inserted, which does nothing if there is an entry.           *)
Insert(p, c) == IF p = NoPromise THEN [of |-> c, value |-> 0] ELSE p

Connect(c) ==
    /\ pc[c] = "new"
    /\ \/ /\ connected
          /\ pc' = [pc EXCEPT ![c] = "refused"]
          /\ UNCHANGED <<guild, promises, asked>>
       \/ /\ ~connected
          /\ connected' = TRUE
          /\ pc' = [pc EXCEPT ![c] = "endpoint"]
          /\ endpointFor' = Insert(endpointFor, c) /\ sessionFor' = Insert(sessionFor, c)
          /\ asked' = Append(asked, c)
          /\ UNCHANGED <<member, endpoint, session>>
    /\ UNCHANGED <<events, answer, joins, inCall, moves, link, audio>>

(* Both answers are there: the entries go and the web socket is opened. *)
Proceed(c, e, s) ==
    /\ pc' = [pc EXCEPT ![c] = "dial"]
    /\ endpoint' = [endpoint EXCEPT ![c] = e] /\ session' = [session EXCEPT ![c] = s]
    /\ endpointFor' = NoPromise /\ sessionFor' = NoPromise

TakeEvent(kind) ==
    /\ events # <<>> /\ Head(events).kind = kind
    /\ events' = Tail(events)
    /\ UNCHANGED <<asked, answer, joins, inCall, moves, link, audio>>

(* VOICE_SERVER_UPDATE sets the promise of the endpoint, which operator[]    *)
(* makes when there is none, and so resumes the call that awaits it.         *)
HandleServer ==
    /\ TakeEvent("server")
    /\ LET c == endpointFor.of
           e == Head(events).join
       IN  IF c # Nobody /\ pc[c] = "endpoint"
           THEN IF sessionFor.of = c /\ sessionFor.value # 0
                THEN Proceed(c, e, sessionFor.value)
                ELSE /\ pc' = [pc EXCEPT ![c] = "session"]
                     /\ endpoint' = [endpoint EXCEPT ![c] = e]
                     /\ endpointFor' = [endpointFor EXCEPT !.value = e]
                     /\ UNCHANGED <<session, sessionFor>>
           ELSE /\ endpointFor' = [of |-> c, value |-> e]
                /\ UNCHANGED <<pc, endpoint, session, sessionFor>>
    /\ UNCHANGED guild

(* VOICE_STATE_UPDATE of the bot itself: sets the promise of the session, if *)
(* there is one, then adds, updates or removes the voice state.              *)
HandleState ==
    /\ TakeEvent("state")
    /\ LET c == sessionFor.of
           s == Head(events).join
       IN  IF c # Nobody /\ pc[c] = "session"
           THEN Proceed(c, endpoint[c], s)
           ELSE /\ sessionFor' = IF c = Nobody THEN NoPromise ELSE [of |-> c, value |-> s]
                /\ UNCHANGED <<pc, endpoint, session, endpointFor>>
    /\ member' = (~member \/ ~Head(events).leaves)
    /\ connected' = (connected /\ ~(member /\ Head(events).leaves))

(* voice_connect_impl: the web socket opens, or the call throws. *)
Dial(c) ==
    /\ pc[c] = "dial"
    /\ \/ pc' = [pc EXCEPT ![c] = "hello"] /\ UNCHANGED breaks
       \/ breaks < MaxBreaks /\ breaks' = breaks + 1 /\ pc' = [pc EXCEPT ![c] = "failed"]
    /\ UNCHANGED <<gateway, promises, guild, alive, handle, beating, lost, audio>>

(* The voice server's messages: HELLO starts the heartbeats, READY the UDP    *)
(* socket and the discovery of the bot's address; the session's description, *)
(* the answer to the protocol that is selected then, sets the promise that   *)
(* connect_voice waits for.                                                  *)
Setup(c, from, to) ==
    /\ pc[c] = from /\ ~lost[c]
    /\ pc' = [pc EXCEPT ![c] = to]
    /\ beating' = [beating EXCEPT ![c] = @ \/ from = "hello"]
    /\ handle' = [handle EXCEPT ![c] = to = "up"]
    /\ UNCHANGED <<gateway, promises, guild, alive, lost, breaks, audio>>

OnHello(c) == Setup(c, "hello", "ready")
OnReady(c) == Setup(c, "ready", "discovery")
OnSessionDiscription(c) == Setup(c, "description", "up")

(* The voice server's datagram tells the bot its address. *)
DoIpDiscovery(c) ==
    /\ pc[c] = "discovery"
    /\ pc' = [pc EXCEPT ![c] = "description"]
    /\ UNCHANGED <<gateway, promises, guild, link, audio>>

(* Or it does not.  An address that is not resolved, a socket that is not    *)
(* connected and a datagram that is not sent are ignored, and a lost one is  *)
(* waited for without a timeout.  A receive that fails, or an answer without *)
(* an address, makes connect_udp throw, whose task nobody holds.             *)
DiscoveryFails(c) ==
    /\ pc[c] = "discovery" /\ breaks < MaxBreaks
    /\ breaks' = breaks + 1
    /\ \E end \in {"deaf", "thrown"} : pc' = [pc EXCEPT ![c] = end]
    /\ UNCHANGED <<gateway, promises, guild, alive, handle, beating, lost, audio>>

(* The web socket breaks.  It is connected again, but does not identify: the *)
(* set-up gets no further.  After that it would change nothing here.         *)
Break(c) ==
    /\ pc[c] \in Stages /\ ~lost[c] /\ breaks < MaxBreaks
    /\ breaks' = breaks + 1
    /\ lost' = [lost EXCEPT ![c] = TRUE]
    /\ UNCHANGED <<pc, gateway, promises, guild, alive, handle, beating, audio>>
-----------------------------------------------------------------------------
(* The connection is counted: the user and the heartbeats hold it, a         *)
(* playback does not.                                                        *)
Gone(c) == pc[c] = "up" /\ ~handle[c] /\ ~beating[c]

(* cancel_current_data: without a playback, or with a cancel pending, it is  *)
(* over at once.                                                             *)
CancelCurrentData(c) ==
    IF isPlaying[c] /\ ~isCanceled[c]
    THEN /\ cancels' = [cancels EXCEPT ![c] = @ + 1]
         /\ isCanceled' = [isCanceled EXCEPT ![c] = TRUE]
         /\ during' = [during EXCEPT ![c] = playback[c]]
    ELSE UNCHANGED <<cancels, isCanceled, during>>

Cancel(c) ==
    /\ handle[c] /\ isPlaying[c] /\ cancels[c] < MaxCancels
    /\ CancelCurrentData(c)
    /\ UNCHANGED <<pc, gateway, promises, guild, link, player, toPlay, isPlaying, done, plays,
                   playback>>

Close(c) ==
    /\ alive' = [alive EXCEPT ![c] = FALSE]
    /\ UNCHANGED connected

(* voice_connection::disconnect closes and lets go. *)
Disconnect(c) ==
    /\ handle[c]
    /\ Close(c) /\ CancelCurrentData(c)
    /\ handle' = [handle EXCEPT ![c] = FALSE]
    /\ UNCHANGED <<pc, gateway, promises, member, beating, lost, breaks, player, toPlay, isPlaying,
                   done, plays, playback>>

(* A beat after which the loop of the heartbeats finds is_alive false. *)
SendHeartbeat(c) ==
    /\ beating[c] /\ ~alive[c]
    /\ beating' = [beating EXCEPT ![c] = FALSE]
    /\ UNCHANGED <<pc, gateway, promises, guild, alive, handle, lost, breaks, audio>>

(* send_voice, send_async: first it is announced that the bot speaks. *)
SendVoice(c, n) ==
    /\ handle[c] /\ player[c] = "off" /\ plays < MaxPlays
    /\ player' = [player EXCEPT ![c] = "speaking"]
    /\ toPlay' = [toPlay EXCEPT ![c] = n]
    /\ plays' = plays + 1 /\ playback' = [playback EXCEPT ![c] = plays']
    /\ UNCHANGED <<pc, gateway, promises, guild, link, isPlaying, isCanceled, cancels, done, during>>

(* The head of the loop: the next frame is sent, or the playback is over,    *)
(* which is announced too.                                                   *)
Loop(c) ==
    /\ IF toPlay[c] > 0 /\ isCanceled[c]
       THEN /\ player' = [player EXCEPT ![c] = "canceling"]
            /\ isCanceled' = [isCanceled EXCEPT ![c] = FALSE]
            /\ UNCHANGED toPlay
       ELSE /\ IF toPlay[c] > 0
               THEN player' = [player EXCEPT ![c] = "frame"] /\ toPlay' = [toPlay EXCEPT ![c] = @ - 1]
               ELSE player' = [player EXCEPT ![c] = "ending"] /\ UNCHANGED toPlay
            /\ UNCHANGED isCanceled
    /\ isPlaying' = [isPlaying EXCEPT ![c] = player'[c] = "frame"]
    /\ UNCHANGED done

(* send_async waits for a source that has its next frame, or its end, not    *)
(* ready; what the source of send_voice has always is.                       *)
Await(c) ==
    /\ player' = [player EXCEPT ![c] = "source"]
    /\ isPlaying' = [isPlaying EXCEPT ![c] = TRUE]
    /\ UNCHANGED <<isCanceled, toPlay, done>>

Spoken(c) == player[c] = "speaking" /\ (Loop(c) \/ Await(c))

(* The frame is sent and its time is over. *)
Sent(c) == player[c] = "frame" /\ (Loop(c) \/ Await(c))

Arrived(c) == player[c] = "source" /\ Loop(c)

(* The source never gives another frame, nor its end. *)
Stall(c) ==
    /\ player[c] = "source"
    /\ player' = [player EXCEPT ![c] = "stalled"] /\ toPlay' = [toPlay EXCEPT ![c] = 0]
    /\ UNCHANGED <<pc, gateway, promises, guild, link, isPlaying, isCanceled, cancels, done, plays,
                   playback, during>>

(* cancel_promise.set_value() *)
Complete(c) == done' = [done EXCEPT ![c] = @ \cup {cancels[c]}]

Canceled(c) ==
    /\ player[c] = "canceling" /\ Complete(c)
    /\ player' = [player EXCEPT ![c] = "off"] /\ toPlay' = [toPlay EXCEPT ![c] = 0]
    /\ UNCHANGED <<isPlaying, isCanceled>>

Ended(c) ==
    /\ player[c] = "ending"
    /\ player' = [player EXCEPT ![c] = "off"]
    /\ isCanceled' = [isCanceled EXCEPT ![c] = FALSE]
    /\ IF isCanceled[c] THEN Complete(c) ELSE UNCHANGED done
    /\ UNCHANGED <<isPlaying, toPlay>>

Playback(c) ==
    /\ ~Gone(c)
    /\ Spoken(c) \/ Sent(c) \/ Arrived(c) \/ Canceled(c) \/ Ended(c)
    /\ UNCHANGED <<pc, gateway, promises, guild, link, cancels, plays, playback, during>>
-----------------------------------------------------------------------------
Shard == HandleServer \/ HandleState

SettingUp(c) ==
    \/ Dial(c) \/ OnHello(c) \/ OnReady(c) \/ OnSessionDiscription(c)
    \/ DoIpDiscovery(c) \/ DiscoveryFails(c)

Next ==
    \/ Admit \/ Drop \/ Move \/ Shard
    \/ \E c \in Calls :
        \/ Connect(c) \/ SettingUp(c) \/ Break(c)
        \/ Cancel(c) \/ Disconnect(c) \/ SendHeartbeat(c)
        \/ \E n \in 0..Frames : SendVoice(c, n)
        \/ Playback(c) \/ Stall(c)

Spec == Init /\ [][Next]_vars

(* The gateway answers and the thread goes on with what can go on; a source  *)
(* goes on or stalls.  Nothing makes the user call, play, cancel or          *)
(* disconnect, or a socket break.                                            *)
FairSpec ==
    /\ Spec /\ WF_vars(Admit) /\ WF_vars(Shard)
    /\ \A c \in Calls : WF_vars(SettingUp(c)) /\ WF_vars(Playback(c))
-----------------------------------------------------------------------------
(* A call goes to the voice server with what answered its own opcode 4,      *)
(* never with an endpoint or a session of an earlier call of the guild.      *)
FreshCredentials ==
    \A c \in Calls : pc[c] \in Stages \cup {"dial", "up"} =>
        endpoint[c] = answer[c] /\ session[c] = answer[c]

(* connect_voice comes to an end, whatever servers the guild is moved to and *)
(* whoever removes the bot, unless it found a promise that a                 *)
(* VOICE_SERVER_UPDATE nobody waited for left in the map, its web socket     *)
(* broke or its discovery failed: nothing in the code takes notice of these. *)
EveryConnectEnds ==
    \A c \in Calls :
        pc[c] = "endpoint" /\ endpointFor.of # Nobody
            ~> pc[c] \in {"up", "failed", "deaf", "thrown"} \/ lost[c]

(* A cancel that found a playback completes, also one by disconnecting, one  *)
(* that comes with the last frame and one made while the source keeps the    *)
(* loop waiting, unless the source never goes on (the loop looks for a       *)
(* cancel only when it has a frame) or the connection is gone.               *)
CancelsComplete ==
    \A c \in Calls : \A n \in 1..(MaxCancels + 1) :
        n <= cancels[c] ~> n \in done[c] \/ player[c] = "stalled" \/ Gone(c)

(* A playback is cut short only by a cancel made while it played: none stays *)
(* behind for the next one.                                                  *)
CutOnlyIfAsked == \A c \in Calls : player[c] = "canceling" => during[c] = playback[c]
=============================================================================
