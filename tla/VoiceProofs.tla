---------------------------- MODULE VoiceProofs ----------------------------
(* A theorem about Voice, for any number of calls and playbacks.             *)
EXTENDS Voice, TLAPS

(* A pending cancel belongs to the playback that runs, and only one that     *)
(* sends frames, or waits for one, can be cancelled: none stays behind for   *)
(* the next playback.                                                        *)
CancelInv ==
    /\ player \in [Calls -> Waits \cup {"off", "speaking", "frame", "canceling", "ending"}]
    /\ {isPlaying, isCanceled} \subseteq [Calls -> BOOLEAN]
    /\ {cancels, playback, during} \subseteq [Calls -> Nat]
    /\ toPlay \in [Calls -> Nat] /\ plays \in Nat
    /\ \A c \in Calls :
          /\ isPlaying[c] => player[c] \in Waits \cup {"frame"}
          /\ isCanceled[c] => /\ player[c] \in Waits \cup {"frame", "ending"}
                              /\ during[c] = playback[c]
    /\ CutOnlyIfAsked

LEMMA CancelKeeps ==
    ASSUME CancelInv, NEW c \in Calls, CancelCurrentData(c),
           UNCHANGED <<player, isPlaying, playback, toPlay, plays>>
    PROVE  CancelInv'
<1>1. CASE isPlaying[c] /\ ~isCanceled[c]
  <2>1. /\ cancels' = [cancels EXCEPT ![c] = @ + 1]
        /\ isCanceled' = [isCanceled EXCEPT ![c] = TRUE]
        /\ during' = [during EXCEPT ![c] = playback[c]]
    BY <1>1 DEF CancelCurrentData
  <2>2. player[c] \in Waits \cup {"frame"}
    BY <1>1 DEF CancelInv
  <2> QED
    BY <2>1, <2>2 DEF CancelInv, CutOnlyIfAsked, Waits
<1>2. CASE UNCHANGED <<cancels, isCanceled, during>>
  BY <1>2 DEF CancelInv, CutOnlyIfAsked
<1> QED
  BY <1>1, <1>2 DEF CancelCurrentData

(* The head of the loop takes the flag back as it reads it, or leaves it to  *)
(* the end of the playback.                                                  *)
LEMMA LoopKeeps ==
    ASSUME CancelInv, NEW c \in Calls, player[c] \in {"speaking", "frame", "source"}, Loop(c),
           UNCHANGED <<cancels, plays, playback, during>>
    PROVE  CancelInv'
<1> USE DEF Waits
<1>1. player[c] \in {"speaking", "frame", "source"} /\ Loop(c)
  OBVIOUS
<1>2. isPlaying' = [isPlaying EXCEPT ![c] = (player'[c] = "frame")]
  BY <1>1 DEF Loop
<1>3. CASE toPlay[c] > 0 /\ isCanceled[c]
  <2>1. /\ player' = [player EXCEPT ![c] = "canceling"]
        /\ isCanceled' = [isCanceled EXCEPT ![c] = FALSE] /\ toPlay' = toPlay
    BY <1>1, <1>3 DEF Loop
  <2> QED
    BY <1>2, <1>3, <2>1 DEF CancelInv, CutOnlyIfAsked
<1>4. CASE toPlay[c] > 0 /\ ~isCanceled[c]
  <2>1. /\ player' = [player EXCEPT ![c] = "frame"] /\ isCanceled' = isCanceled
        /\ toPlay' = [toPlay EXCEPT ![c] = @ - 1]
    BY <1>1, <1>4 DEF Loop
  <2> QED
    BY <1>2, <1>4, <2>1 DEF CancelInv, CutOnlyIfAsked
<1>5. CASE ~(toPlay[c] > 0)
  <2>1. /\ player' = [player EXCEPT ![c] = "ending"] /\ isCanceled' = isCanceled
        /\ toPlay' = toPlay
    BY <1>1, <1>5 DEF Loop
  <2> QED
    BY <1>2, <2>1 DEF CancelInv, CutOnlyIfAsked
<1> QED
  BY <1>3, <1>4, <1>5

(* While the loop waits for a frame, a cancel stays pending. *)
LEMMA AwaitKeeps ==
    ASSUME CancelInv, NEW c \in Calls, player[c] \in {"speaking", "frame"}, Await(c),
           UNCHANGED <<cancels, plays, playback, during>>
    PROVE  CancelInv'
<1>1. /\ player' = [player EXCEPT ![c] = "source"]
      /\ isPlaying' = [isPlaying EXCEPT ![c] = TRUE]
      /\ UNCHANGED <<isCanceled, toPlay>>
  BY DEF Await
<1> QED
  BY <1>1 DEF CancelInv, CutOnlyIfAsked, Waits

LEMMA StallKeeps == ASSUME CancelInv, NEW c \in Calls, Stall(c) PROVE CancelInv'
<1>1. /\ player[c] = "source" /\ player' = [player EXCEPT ![c] = "stalled"]
      /\ toPlay' = [toPlay EXCEPT ![c] = 0]
      /\ UNCHANGED <<isPlaying, isCanceled, cancels, plays, playback, during>>
  BY DEF Stall
<1> QED
  BY <1>1 DEF CancelInv, CutOnlyIfAsked, Waits

LEMMA PlaybackKeeps ==
    ASSUME CancelInv, NEW c \in Calls, Playback(c) PROVE CancelInv'
<1> USE DEF Waits
<1>1. UNCHANGED <<cancels, plays, playback, during>>
  BY DEF Playback
<1>2. CASE Spoken(c) \/ Sent(c) \/ Arrived(c)
  BY <1>1, <1>2, LoopKeeps, AwaitKeeps DEF Spoken, Sent, Arrived
<1>3. CASE Canceled(c)
  BY <1>1, <1>3 DEF Canceled, CancelInv, CutOnlyIfAsked
<1>4. CASE Ended(c)
  BY <1>1, <1>4 DEF Ended, CancelInv, CutOnlyIfAsked
<1> QED
  BY <1>2, <1>3, <1>4 DEF Playback

(* send_voice finds no cancel of an earlier playback. *)
LEMMA SendVoiceKeeps ==
    ASSUME CancelInv, NEW c \in Calls, NEW n \in 0..Frames, SendVoice(c, n) PROVE CancelInv'
<1>1. ~isCanceled[c] /\ ~isPlaying[c] /\ player[c] = "off"
  BY DEF SendVoice, CancelInv, Waits
<1>2. /\ player' = [player EXCEPT ![c] = "speaking"]
      /\ toPlay' = [toPlay EXCEPT ![c] = n]
      /\ plays' = plays + 1 /\ playback' = [playback EXCEPT ![c] = plays']
      /\ UNCHANGED <<isPlaying, isCanceled, cancels, during>>
  BY DEF SendVoice
<1> QED
  BY <1>1, <1>2 DEF CancelInv, CutOnlyIfAsked, Waits

(* However cancels, disconnects and the ends of playbacks interleave, a      *)
(* playback is cut short only by a cancel that was made while it played.     *)
THEOREM CutOnlyIfAskedAlways == Spec => []CutOnlyIfAsked
<1>1. Init => CancelInv
  BY DEF Init, CancelInv, CutOnlyIfAsked, Waits
<1>2. CancelInv /\ [Next]_vars => CancelInv'
  <2> SUFFICES ASSUME CancelInv, [Next]_vars PROVE CancelInv'
    OBVIOUS
  <2>1. CASE UNCHANGED audio
    BY <2>1 DEF audio, CancelInv, CutOnlyIfAsked
  <2>2. ASSUME NEW c \in Calls, Cancel(c) PROVE CancelInv'
    BY <2>2, CancelKeeps DEF Cancel
  <2>3. ASSUME NEW c \in Calls, Disconnect(c) PROVE CancelInv'
    BY <2>3, CancelKeeps DEF Disconnect
  <2>4. ASSUME NEW c \in Calls, NEW n \in 0..Frames, SendVoice(c, n) PROVE CancelInv'
    BY <2>4, SendVoiceKeeps
  <2>5. ASSUME NEW c \in Calls, Playback(c) PROVE CancelInv'
    BY <2>5, PlaybackKeeps
  <2>9. ASSUME NEW c \in Calls, Stall(c) PROVE CancelInv'
    BY <2>9, StallKeeps
  <2>6. CASE Admit \/ Drop \/ Move \/ Shard
    <3>1. UNCHANGED audio
      BY <2>6 DEF Admit, Drop, Move, Shard, HandleServer, HandleState, TakeEvent
    <3> QED
      BY <3>1, <2>1
  <2>7. ASSUME NEW c \in Calls, Connect(c) \/ SettingUp(c) \/ Break(c) \/ SendHeartbeat(c)
        PROVE  CancelInv'
    <3>1. UNCHANGED audio
      BY <2>7 DEF Connect, SettingUp, Dial, OnHello, OnReady, OnSessionDiscription, Setup, Break,
                  DoIpDiscovery, DiscoveryFails, SendHeartbeat
    <3> QED
      BY <3>1, <2>1
  <2>8. CASE UNCHANGED vars
    BY <2>8, <2>1 DEF vars
  <2> QED
    BY <2>2, <2>3, <2>4, <2>5, <2>6, <2>7, <2>8, <2>9 DEF Next
<1>3. CancelInv => CutOnlyIfAsked
  BY DEF CancelInv
<1> QED
  BY <1>1, <1>2, <1>3, PTL DEF Spec
-----------------------------------------------------------------------------
(* An event of a kind comes before the bot leaves its channel. *)
Ahead(kind) ==
    \E i \in DOMAIN events : events[i].kind = kind /\ \A j \in 1..i : ~events[j].leaves

CallTypes ==
    /\ pc \in [Calls -> Stages \cup Ends \cup {"new", "endpoint", "session", "dial"}]
    /\ connected \in BOOLEAN /\ inCall \in BOOLEAN /\ joins \in Nat
    /\ endpointFor \in Promise /\ sessionFor \in Promise
    /\ endpoint \in [Calls -> Nat] /\ session \in [Calls -> Nat] /\ answer \in [Calls -> Nat]
    /\ events \in Seq(Event) /\ asked \in Seq(Calls)

(* The gateway tells of one join at a time, up to its end; opcode 4 is sent  *)
(* when nothing of an earlier join is on its way.                            *)
OneJoin ==
    /\ \A i \in DOMAIN events : events[i].join = joins
    /\ events # <<>> \/ inCall => joins > 0
    /\ \A i \in DOMAIN events : events[i].leaves => i = Len(events) /\ ~inCall
    /\ asked # <<>> =>
          /\ events = <<>> /\ ~inCall /\ connected
          /\ \E c \in Calls : asked = <<c>> /\ pc[c] = "endpoint"
    /\ ~connected => events = <<>> /\ ~inCall

(* A call whose promise of the endpoint is in the map gets both answers of   *)
(* its own join.  Another one found an entry of operator[] and waits for     *)
(* ever, at "endpoint".                                                      *)
Served(c) ==
    /\ sessionFor.of = c
    /\ \/ pc[c] = "endpoint" /\ asked = <<c>> /\ sessionFor.value = 0
       \/ /\ pc[c] = "endpoint" /\ asked = <<>> /\ answer[c] = joins /\ Ahead("server")
          /\ IF sessionFor.value = 0 THEN Ahead("state") ELSE sessionFor.value = joins
       \/ /\ pc[c] = "session" /\ asked = <<>> /\ answer[c] = joins /\ Ahead("state")
          /\ endpoint[c] = answer[c]

FreshInv ==
    /\ CallTypes /\ OneJoin
    /\ endpointFor = NoPromise => sessionFor = NoPromise
    /\ \A c \in Calls : pc[c] = "session" => endpointFor.of = c
    /\ \A c \in Calls : endpointFor.of = c => Served(c)
    /\ FreshCredentials

(* What is left of the queue when its first event is taken. *)
LEMMA TailEvents ==
    ASSUME events \in Seq(Event), events # <<>>, events' = Tail(events)
    PROVE  /\ events' \in Seq(Event) /\ Head(events) \in Event /\ Head(events) = events[1]
           /\ Len(events') = Len(events) - 1 /\ DOMAIN events' = 1..Len(events')
           /\ DOMAIN events = 1..Len(events) /\ 1 \in DOMAIN events
           /\ \A i \in DOMAIN events' : events'[i] = events[i + 1] /\ i + 1 \in DOMAIN events
OBVIOUS

LEMMA AheadOfTail ==
    ASSUME events \in Seq(Event), events # <<>>, events' = Tail(events),
           NEW kind, Ahead(kind), Head(events).kind # kind
    PROVE  Ahead(kind)' /\ ~Head(events).leaves
<1>1. PICK i \in DOMAIN events : events[i].kind = kind /\ \A j \in 1..i : ~events[j].leaves
  BY DEF Ahead
<1>2. i \in 2..Len(events)
  BY <1>1, TailEvents
<1>3. i - 1 \in DOMAIN events' /\ events'[i - 1] = events[i]
  BY <1>2, TailEvents
<1>4. \A j \in 1..(i - 1) : events'[j] = events[j + 1] /\ j + 1 \in 1..i
  BY <1>2, TailEvents
<1>5. 1 \in 1..i
  BY <1>2
<1> QED
  BY <1>1, <1>3, <1>4, <1>5, TailEvents DEF Ahead

LEMMA OneJoinOfTail ==
    ASSUME FreshInv, events # <<>>, events' = Tail(events), connected' \in BOOLEAN,
           UNCHANGED <<asked, joins, inCall>>,
           connected' = connected \/ Head(events).leaves
    PROVE  OneJoin' /\ asked = <<>> /\ joins > 0 /\ Head(events).join = joins
<1> USE TailEvents DEF FreshInv, CallTypes
<1>1. asked = <<>> /\ joins > 0 /\ Head(events).join = joins /\ connected
  BY DEF OneJoin
<1>2. ASSUME NEW i \in DOMAIN events'
      PROVE  events'[i].join = joins' /\ (events'[i].leaves => i = Len(events') /\ ~inCall')
  <2>1. events'[i] = events[i + 1] /\ i + 1 \in DOMAIN events /\ Len(events') = Len(events) - 1
    OBVIOUS
  <2>2. events[i + 1].join = joins /\ (events[i + 1].leaves => i + 1 = Len(events) /\ ~inCall)
    BY <2>1 DEF OneJoin
  <2>3. i \in Nat /\ Len(events) \in Nat
    OBVIOUS
  <2> QED
    BY <2>1, <2>2, <2>3
<1>3. ~connected' => events' = <<>> /\ ~inCall'
  <2>1. SUFFICES ASSUME Head(events).leaves PROVE events' = <<>> /\ ~inCall
    BY <1>1
  <2>2. 1 = Len(events) /\ ~inCall
    BY <2>1 DEF OneJoin
  <2> QED
    BY <2>2
<1> QED
  BY <1>1, <1>2, <1>3 DEF OneJoin

LEMMA ConnectFresh == ASSUME FreshInv, NEW c \in Calls, Connect(c) PROVE FreshInv'
<1> USE VoiceAssumption DEF FreshInv
<1>1. CASE connected
  <2>1. /\ pc' = [pc EXCEPT ![c] = "refused"] /\ pc[c] = "new"
        /\ UNCHANGED <<guild, promises, asked, events, answer, joins, inCall>>
    BY <1>1 DEF Connect
  <2>2. CallTypes'
    BY <2>1 DEF CallTypes, guild, promises, Ends
  <2>3. OneJoin'
    BY <2>1 DEF CallTypes, OneJoin, guild
  <2>4. \A d \in Calls : endpointFor.of = d => d # c /\ Served(d)'
    BY <2>1 DEF CallTypes, Served, Ahead, promises
  <2>5. FreshCredentials' /\ \A d \in Calls : pc'[d] = "session" => endpointFor.of = d
    BY <2>1 DEF CallTypes, FreshCredentials, promises, Stages
  <2> QED
    BY <2>1, <2>2, <2>3, <2>4, <2>5 DEF promises
<1>2. CASE ~connected
  <2>1. /\ pc' = [pc EXCEPT ![c] = "endpoint"] /\ pc[c] = "new" /\ connected' = TRUE
        /\ endpointFor' = Insert(endpointFor, c) /\ sessionFor' = Insert(sessionFor, c)
        /\ asked' = Append(asked, c)
        /\ UNCHANGED <<endpoint, session, events, answer, joins, inCall>>
    BY <1>2 DEF Connect
  <2>2. events = <<>> /\ ~inCall /\ asked = <<>>
    BY <1>2 DEF OneJoin
  <2>3. asked' = <<c>>
    BY <2>1, <2>2
  <2>4. CallTypes'
    BY <2>1, <2>3 DEF CallTypes, Insert, Promise
  <2>5. OneJoin'
    BY <2>1, <2>2, <2>3 DEF CallTypes, OneJoin
  <2>6. ~Ahead("server") /\ ~Ahead("state")
    BY <2>2 DEF Ahead
  <2>7. \A d \in Calls : endpointFor.of # d /\ pc[d] # "session"
    BY <2>2, <2>6 DEF Served
  <2>8. \A d \in Calls : pc'[d] # "session"
    BY <2>1, <2>7 DEF CallTypes
  <2>9. CASE endpointFor = NoPromise
    <3>1. endpointFor' = [of |-> c, value |-> 0] /\ sessionFor' = [of |-> c, value |-> 0]
      BY <2>1, <2>9 DEF Insert
    <3>2. Served(c)' /\ endpointFor' # NoPromise
      BY <2>1, <2>3, <3>1 DEF CallTypes, Served, NoPromise
    <3> QED
      BY <2>1, <2>4, <2>5, <2>8, <3>1, <3>2 DEF CallTypes, FreshCredentials, Stages
  <2>10. CASE endpointFor # NoPromise
    BY <2>1, <2>4, <2>5, <2>7, <2>8, <2>10 DEF CallTypes, FreshCredentials, Stages, Insert
  <2> QED
    BY <2>9, <2>10
<1> QED
  BY <1>1, <1>2 DEF CallTypes

LEMMA AdmitFresh == ASSUME FreshInv, Admit PROVE FreshInv'
<1> USE VoiceAssumption DEF FreshInv
<1>1. PICK c \in Calls : asked = <<c>> /\ pc[c] = "endpoint"
  BY DEF Admit, OneJoin
<1> DEFINE state == [kind |-> "state", join |-> joins', leaves |-> FALSE]
           place == [kind |-> "server", join |-> joins', leaves |-> FALSE]
<1>2. /\ joins' = joins + 1 /\ inCall' = TRUE /\ asked' = <<>> /\ connected
      /\ answer' = [answer EXCEPT ![c] = joins']
      /\ events' = <<state, place>> \/ events' = <<place, state>>
      /\ UNCHANGED <<pc, promises, guild>>
  <2>1. Head(asked) = c /\ Tail(asked) = <<>> /\ events = <<>> /\ connected
    BY <1>1 DEF OneJoin
  <2>2. events \o <<state, place>> = <<state, place>> /\ events \o <<place, state>> = <<place, state>>
    BY <2>1
  <2> QED
    BY <2>1, <2>2 DEF Admit
<1>3. joins' \in Nat /\ joins' > 0 /\ state \in Event /\ place \in Event
  BY <1>2 DEF CallTypes, Event
<1>4. /\ state.kind = "state" /\ state.join = joins' /\ ~state.leaves
      /\ place.kind = "server" /\ place.join = joins' /\ ~place.leaves
  OBVIOUS
<1> HIDE DEF state, place
<1>5. /\ events' \in Seq(Event) /\ DOMAIN events' = 1..2
      /\ \A i \in 1..2 : events'[i] \in {state, place}
      /\ \E i \in 1..2 : events'[i] = state
      /\ \E i \in 1..2 : events'[i] = place
  <2>1. CASE events' = <<state, place>>
    <3>1. events'[1] = state /\ events'[2] = place /\ DOMAIN events' = 1..2
      BY <2>1
    <3> QED
      BY <1>3, <2>1, <3>1
  <2>2. CASE events' = <<place, state>>
    <3>1. events'[1] = place /\ events'[2] = state /\ DOMAIN events' = 1..2
      BY <2>2
    <3> QED
      BY <1>3, <2>2, <3>1
  <2> QED
    BY <1>2, <2>1, <2>2
<1>6. Ahead("server")' /\ Ahead("state")'
  BY <1>4, <1>5 DEF Ahead
<1>7. CallTypes'
  BY <1>2, <1>3, <1>5 DEF CallTypes, promises, guild
<1>8. OneJoin'
  BY <1>2, <1>3, <1>4, <1>5 DEF OneJoin, guild
<1>9. \A d \in Calls : pc[d] # "session"
  BY <1>1 DEF Served
<1>10. ASSUME NEW d \in Calls, endpointFor.of = d PROVE Served(d)'
  <2>1. d = c /\ sessionFor.of = c /\ sessionFor.value = 0
    BY <1>1, <1>10 DEF Served
  <2>2. answer'[c] = joins'
    BY <1>2 DEF CallTypes
  <2> QED
    BY <1>1, <1>2, <1>6, <2>1, <2>2 DEF Served, promises
<1>11. FreshCredentials'
  BY <1>1, <1>2 DEF CallTypes, FreshCredentials, promises, Stages
<1> QED
  BY <1>2, <1>7, <1>8, <1>9, <1>10, <1>11 DEF promises

LEMMA AppendFresh ==
    ASSUME FreshInv, inCall, NEW e \in Event, e.join = joins, events' = Append(events, e),
           inCall' = ~e.leaves, UNCHANGED <<pc, promises, guild, asked, answer, joins>>
    PROVE  FreshInv'
<1> USE DEF FreshInv, promises, guild
<1>1. asked = <<>> /\ joins > 0 /\ connected /\ \A i \in DOMAIN events : ~events[i].leaves
  BY DEF OneJoin
<1>2. /\ events' \in Seq(Event) /\ DOMAIN events' = 1..Len(events) + 1
      /\ Len(events') = Len(events) + 1 /\ DOMAIN events = 1..Len(events)
      /\ events'[Len(events) + 1] = e /\ \A i \in DOMAIN events : events'[i] = events[i]
  BY DEF CallTypes
<1>3. CallTypes'
  BY <1>2 DEF CallTypes, Event
<1>4. OneJoin'
  <2>1. ASSUME NEW i \in DOMAIN events'
        PROVE  events'[i].join = joins' /\ (events'[i].leaves => i = Len(events') /\ ~inCall')
    <3>1. CASE i = Len(events) + 1
      BY <1>2, <3>1
    <3>2. CASE i # Len(events) + 1
      <4>1. i \in DOMAIN events /\ events'[i] = events[i]
        BY <1>2, <3>2
      <4> QED
        BY <1>1, <4>1 DEF OneJoin
    <3> QED
      BY <3>1, <3>2
  <2> QED
    BY <1>1, <2>1 DEF OneJoin
<1>5. ASSUME NEW kind, Ahead(kind) PROVE Ahead(kind)'
  <2>1. PICK i \in DOMAIN events : events[i].kind = kind
    BY <1>5 DEF Ahead
  <2>2. i \in DOMAIN events' /\ \A j \in 1..i : j \in DOMAIN events
    BY <1>2, <2>1
  <2> QED
    BY <1>1, <1>2, <2>1, <2>2 DEF Ahead
<1>6. \A c \in Calls : endpointFor.of = c => Served(c)'
  BY <1>1, <1>5 DEF Served
<1> QED
  BY <1>3, <1>4, <1>6 DEF FreshCredentials

(* With both answers a call goes on, and both entries are gone. *)
LEMMA ProceedFresh ==
    ASSUME FreshInv, NEW c \in Calls, Proceed(c, joins, joins), answer[c] = joins,
           \A d \in Calls : pc[d] = "session" => c = d,
           asked = <<>>, events' \in Seq(Event), connected' \in BOOLEAN,
           UNCHANGED <<asked, answer, joins, inCall>>, OneJoin'
    PROVE  FreshInv'
<1> USE VoiceAssumption DEF FreshInv
<1>1. /\ pc' = [pc EXCEPT ![c] = "dial"]
      /\ endpoint' = [endpoint EXCEPT ![c] = joins] /\ session' = [session EXCEPT ![c] = joins]
      /\ endpointFor' = NoPromise /\ sessionFor' = NoPromise
  BY DEF Proceed
<1>2. CallTypes'
  BY <1>1 DEF CallTypes, NoPromise, Promise
<1>3. \A d \in Calls : pc'[d] # "session" /\ endpointFor'.of # d
  BY <1>1 DEF CallTypes, NoPromise
<1>4. FreshCredentials'
  BY <1>1 DEF CallTypes, FreshCredentials
<1> QED
  BY <1>1, <1>2, <1>3, <1>4

LEMMA ServerFresh == ASSUME FreshInv, HandleServer PROVE FreshInv'
<1> USE VoiceAssumption DEF FreshInv
<1> DEFINE e == Head(events).join
<1>0. PICK c : c = endpointFor.of
  OBVIOUS
<1>1. /\ events # <<>> /\ Head(events).kind = "server" /\ events' = Tail(events)
      /\ UNCHANGED <<asked, answer, joins, inCall, connected>>
  BY DEF HandleServer, TakeEvent, guild
<1>2. OneJoin' /\ asked = <<>> /\ joins > 0 /\ e = joins /\ events' \in Seq(Event)
  BY <1>1, OneJoinOfTail, TailEvents DEF CallTypes
<1>3. Ahead("state") => Ahead("state")'
  BY <1>1, AheadOfTail DEF CallTypes
<1> HIDE DEF e
<1>4. \A d \in Calls : pc[d] = "session" => c = d
  BY <1>0
<1>5. c \in Calls => Served(c) /\ sessionFor.of = c
  BY <1>0 DEF Served
<1>6. CASE c \in Calls /\ pc[c] = "endpoint" /\ sessionFor.value # 0
  <2>1. sessionFor.value = joins /\ answer[c] = joins
    BY <1>2, <1>5, <1>6 DEF Served
  <2>2. Proceed(c, joins, joins)
    BY <1>0, <1>2, <1>5, <1>6, <2>1 DEF HandleServer, e
  <2>3. connected' \in BOOLEAN
    BY <1>1 DEF CallTypes
  <2> QED
    BY <1>1, <1>2, <1>4, <1>6, <2>1, <2>2, <2>3, ProceedFresh
<1>7. CASE c \in Calls /\ pc[c] = "endpoint" /\ sessionFor.value = 0
  <2>1. /\ pc' = [pc EXCEPT ![c] = "session"]
        /\ endpoint' = [endpoint EXCEPT ![c] = e]
        /\ endpointFor' = [endpointFor EXCEPT !.value = e]
        /\ UNCHANGED <<session, sessionFor>>
    BY <1>0, <1>5, <1>7 DEF HandleServer, e
  <2>2. answer[c] = joins /\ Ahead("state")
    BY <1>2, <1>5, <1>7 DEF Served
  <2>3. endpointFor'.of = c /\ endpointFor' \in Promise /\ endpointFor' # NoPromise
    BY <1>0, <1>2, <1>7, <2>1 DEF CallTypes, Promise, NoPromise
  <2>4. CallTypes'
    BY <1>1, <1>2, <2>1, <2>3 DEF CallTypes
  <2>5. Served(c)'
    BY <1>1, <1>2, <1>3, <1>5, <1>7, <2>1, <2>2 DEF CallTypes, Served
  <2>6. FreshCredentials'
    BY <1>1, <1>7, <2>1 DEF CallTypes, FreshCredentials, Stages
  <2> QED
    BY <1>2, <1>4, <2>1, <2>3, <2>4, <2>5, <2>6 DEF CallTypes
<1>8. CASE ~(c \in Calls /\ pc[c] = "endpoint")
  <2>1. /\ endpointFor' = [of |-> c, value |-> e]
        /\ UNCHANGED <<pc, endpoint, session, sessionFor>>
    BY <1>0, <1>8 DEF HandleServer, CallTypes, Promise, e
  <2>2. endpointFor'.of = c /\ endpointFor' \in Promise /\ endpointFor' # NoPromise
    BY <1>0, <1>2, <2>1 DEF CallTypes, Promise, NoPromise
  <2>3. CallTypes'
    BY <1>1, <1>2, <2>1, <2>2 DEF CallTypes
  <2>4. c \in Calls => Served(c)'
    BY <1>1, <1>2, <1>3, <1>5, <1>8, <2>1 DEF Served
  <2> QED
    BY <1>1, <1>2, <1>4, <2>1, <2>2, <2>3, <2>4 DEF FreshCredentials
<1> QED
  BY <1>6, <1>7, <1>8

LEMMA StateFresh == ASSUME FreshInv, HandleState PROVE FreshInv'
<1> USE VoiceAssumption DEF FreshInv
<1> DEFINE c == sessionFor.of
           s == Head(events).join
<1>1. /\ events # <<>> /\ Head(events).kind = "state" /\ events' = Tail(events)
      /\ connected' = (connected /\ ~(member /\ Head(events).leaves))
      /\ UNCHANGED <<asked, answer, joins, inCall>>
  BY DEF HandleState, TakeEvent
<1>2. OneJoin' /\ asked = <<>> /\ joins > 0 /\ s = joins /\ events' \in Seq(Event)
  BY <1>1, OneJoinOfTail, TailEvents DEF CallTypes
<1>3. Ahead("server") => Ahead("server")'
  BY <1>1, AheadOfTail DEF CallTypes
<1> HIDE DEF c, s
<1>4. \A d \in Calls : endpointFor.of = d => Served(d) /\ c = d
  BY DEF c, Served
<1>5. CASE c \in Calls /\ pc[c] = "session"
  <2>1. endpoint[c] = joins /\ answer[c] = joins /\ endpointFor.of = c
    BY <1>4, <1>5 DEF Served
  <2>2. Proceed(c, joins, joins)
    BY <1>2, <1>5, <2>1 DEF HandleState, c, s
  <2> QED
    BY <1>1, <1>2, <1>4, <1>5, <2>1, <2>2, ProceedFresh
<1>6. CASE ~(c \in Calls /\ pc[c] = "session")
  <2>1. /\ sessionFor' = IF c = Nobody THEN NoPromise ELSE [of |-> c, value |-> s]
        /\ UNCHANGED <<pc, endpoint, session, endpointFor>>
    BY <1>6 DEF HandleState, CallTypes, Promise, c, s
  <2>2. sessionFor' \in Promise /\ sessionFor'.of = c /\ (c # Nobody => sessionFor'.value = joins)
    BY <1>2, <2>1 DEF CallTypes, Promise, NoPromise, c
  <2>3. CallTypes'
    BY <1>1, <1>2, <2>1, <2>2 DEF CallTypes
  <2>4. endpointFor = NoPromise => c = Nobody
    BY DEF NoPromise, c
  <2>5. ASSUME NEW d \in Calls, endpointFor.of = d PROVE Served(d)'
    <3>1. c = d /\ pc[d] = "endpoint" /\ answer[d] = joins /\ Ahead("server")
      BY <1>2, <1>4, <1>6, <2>5 DEF Served
    <3> QED
      BY <1>1, <1>2, <1>3, <2>1, <2>2, <3>1 DEF Served
  <2> QED
    BY <1>1, <1>2, <2>1, <2>3, <2>4, <2>5 DEF FreshCredentials
<1> QED
  BY <1>5, <1>6

LEMMA SetupFresh == ASSUME FreshInv, NEW c \in Calls, SettingUp(c) PROVE FreshInv'
<1> USE VoiceAssumption DEF FreshInv
<1>1. /\ UNCHANGED <<gateway, promises, guild>>
      /\ pc[c] \in Stages \cup {"dial"}
      /\ \E to \in Stages \cup Ends : pc' = [pc EXCEPT ![c] = to]
  BY DEF SettingUp, Dial, OnHello, OnReady, OnSessionDiscription, Setup, DoIpDiscovery,
         DiscoveryFails, Stages, Ends
<1>2. PICK to \in Stages \cup Ends : pc' = [pc EXCEPT ![c] = to]
  BY <1>1
<1>3. CallTypes'
  BY <1>1, <1>2 DEF CallTypes, gateway, promises, guild
<1>4. OneJoin'
  BY <1>1, <1>2 DEF CallTypes, OneJoin, gateway, guild, Stages, Ends
<1>5. \A d \in Calls : endpointFor.of = d => Served(d)'
  BY <1>1, <1>2 DEF CallTypes, Served, Ahead, gateway, promises, Stages, Ends
<1>6. FreshCredentials' /\ \A d \in Calls : pc'[d] = "session" => endpointFor.of = d
  BY <1>1, <1>2 DEF CallTypes, FreshCredentials, gateway, promises, Stages, Ends
<1> QED
  BY <1>1, <1>3, <1>4, <1>5, <1>6 DEF promises


(* Whatever calls, moves and removals interleave, a call goes to the voice   *)
(* server with the answers to its own opcode 4.                              *)
THEOREM FreshCredentialsAlways == Spec => []FreshCredentials
<1>1. Init => FreshInv
  <2> SUFFICES ASSUME Init PROVE FreshInv
    OBVIOUS
  <2>1. CallTypes
    <3>1. pc \in [Calls -> Stages \cup Ends \cup {"new", "endpoint", "session", "dial"}]
      BY DEF Init
    <3>2. endpointFor \in Promise /\ sessionFor \in Promise
      BY DEF Init, NoPromise, Promise
    <3>3. endpoint \in [Calls -> Nat] /\ session \in [Calls -> Nat] /\ answer \in [Calls -> Nat]
      BY DEF Init
    <3>4. events \in Seq(Event) /\ asked \in Seq(Calls)
      BY DEF Init
    <3> QED
      BY <3>1, <3>2, <3>3, <3>4 DEF Init, CallTypes
  <2>2. OneJoin
    BY DEF Init, OneJoin
  <2>3. FreshCredentials
    BY DEF Init, FreshCredentials, Stages
  <2>4. \A c \in Calls : pc[c] # "session" /\ endpointFor.of # c
    BY VoiceAssumption DEF Init, NoPromise
  <2> QED
    BY <2>1, <2>2, <2>3, <2>4 DEF Init, FreshInv
<1>2. FreshInv /\ [Next]_vars => FreshInv'
  <2> SUFFICES ASSUME FreshInv, [Next]_vars PROVE FreshInv'
    OBVIOUS
  <2>1. CASE UNCHANGED <<pc, gateway, promises, guild>>
    BY <2>1 DEF FreshInv, CallTypes, OneJoin, Served, Ahead, FreshCredentials, gateway, promises,
                guild
  <2>2. CASE Drop
    <3>1. [kind |-> "state", join |-> joins, leaves |-> TRUE] \in Event
      BY DEF FreshInv, CallTypes, Event
    <3> QED
      BY <2>2, <3>1, AppendFresh DEF Drop
  <2>3. CASE Move
    <3>1. [kind |-> "server", join |-> joins, leaves |-> FALSE] \in Event
      BY DEF FreshInv, CallTypes, Event
    <3> QED
      BY <2>3, <3>1, AppendFresh DEF Move
  <2>4. ASSUME NEW c \in Calls,
               Break(c) \/ Cancel(c) \/ SendHeartbeat(c) \/ Playback(c) \/ Stall(c)
                 \/ \E n \in 0..Frames : SendVoice(c, n)
        PROVE  FreshInv'
    BY <2>1, <2>4 DEF Break, Cancel, SendHeartbeat, Playback, SendVoice, Stall
  <2>5. ASSUME NEW c \in Calls, Disconnect(c) PROVE FreshInv'
    BY <2>1, <2>5 DEF Disconnect, Close, guild
  <2>6. CASE UNCHANGED vars
    BY <2>1, <2>6 DEF vars
  <2> QED
    BY <2>2, <2>3, <2>4, <2>5, <2>6, AdmitFresh, ConnectFresh, SetupFresh, ServerFresh, StateFresh
       DEF Next, Shard
<1>3. FreshInv => FreshCredentials
  BY DEF FreshInv
<1> QED
  BY <1>1, <1>2, <1>3, PTL DEF Spec
=============================================================================
