--------------------------- MODULE GatewayProofs ---------------------------
(* Theorems about GatewaySession, for any number of events and requests.     *)
EXTENDS GatewaySession, TLAPS

(* The heart: m_is_disconnected is never unset, so the beat that was past    *)
(* its test when it was set is the last one.                                 *)
LastBeat == late \in {0, 1} /\ (late = 1 => disconnected /\ beat # "send")

(* Once the shard is marked as disconnected, at most the beat that was       *)
(* already past its test of m_is_disconnected is sent.                       *)
THEOREM HeartStopsAlways == Spec => []HeartStops
<1>1. Init => LastBeat
  BY DEF Init, LastBeat
<1>2. LastBeat /\ [Next]_vars => LastBeat'
  <2> SUFFICES ASSUME LastBeat, [Next]_vars PROVE LastBeat'
    OBVIOUS
  <2> USE DEF LastBeat
  <2>1. CASE Network \/ Closed \/ Write \/ Drop \/ ReadThrows
    BY <2>1 DEF Network, Says, Dispatch, Ack, Request, AskToReconnect, FallSilent, Break, Closed,
                Write, Drop, ReadThrows, heart
  <2>2. CASE Read
    BY <2>2 DEF Read, HandleHello, HandleDispatch, HandleAck, HandleRequest, HandleReconnect,
                ReadFails, Reconnect, heart
  <2>3. CASE BeatCheck
    BY <2>3 DEF BeatCheck, Reconnect
  <2>4. CASE BeatSend
    BY <2>4 DEF BeatSend
  <2>5. CASE BeatClear
    BY <2>5 DEF BeatClear
  <2>6. CASE UNCHANGED vars
    BY <2>6 DEF vars, heart
  <2> QED
    BY <2>1, <2>2, <2>3, <2>4, <2>5, <2>6 DEF Next, Beat
<1>3. LastBeat => HeartStops
  BY DEF LastBeat, HeartStops
<1> QED
  BY <1>1, <1>2, <1>3, PTL DEF Spec
-----------------------------------------------------------------------------
Message == [op : {"hello", "ack", "heartbeat", "reconnect"}]
           \cup [op : {"dispatch"}, s : Nat, replay : BOOLEAN]

(* What beats name is bounded by m_seq_num, which is bounded by what the     *)
(* server has sent; the numbers on the way are bounded by that as well.      *)
Numbers ==
    /\ said \in Nat /\ seq \in Nat /\ beats \in Int \X Int
    /\ inbox \in Seq(Message)
    /\ \A i \in DOMAIN inbox : inbox[i].op = "dispatch" => inbox[i].s <= said
    /\ beats[1] <= beats[2] /\ beats[2] <= seq /\ seq <= said

LEMMA SaysKeepsInbox ==
    ASSUME Numbers, NEW m \in Message, inbox' = Append(inbox, m), said' \in Nat, said <= said',
           m.op = "dispatch" => m.s <= said'
    PROVE  /\ inbox' \in Seq(Message)
           /\ \A i \in DOMAIN inbox' : inbox'[i].op = "dispatch" => inbox'[i].s <= said'
<1>1. /\ inbox' \in Seq(Message) /\ Len(inbox') = Len(inbox) + 1
      /\ \A i \in 1..Len(inbox) : inbox'[i] = inbox[i]
      /\ inbox'[Len(inbox) + 1] = m
  BY DEF Numbers
<1>2. ASSUME NEW i \in DOMAIN inbox', inbox'[i].op = "dispatch" PROVE inbox'[i].s <= said'
  <2>1. CASE i = Len(inbox) + 1
    BY <1>1, <1>2, <2>1
  <2>2. CASE i \in 1..Len(inbox)
    <3>1. inbox[i] \in Message /\ inbox[i].op = "dispatch" /\ inbox[i].s <= said
      BY <1>1, <1>2, <2>2 DEF Numbers
    <3>2. inbox[i].s \in Nat
      BY <3>1 DEF Message
    <3> QED
      BY <1>1, <2>2, <3>1, <3>2 DEF Numbers
  <2> QED
    BY <1>1, <1>2, <2>1, <2>2 DEF Numbers
<1> QED
  BY <1>1, <1>2

LEMMA TakeKeepsInbox ==
    ASSUME Numbers, NEW op, Take(op)
    PROVE  /\ inbox' \in Seq(Message) /\ said' = said /\ Head(inbox) \in Message
           /\ \A i \in DOMAIN inbox' : inbox'[i].op = "dispatch" => inbox'[i].s <= said'
           /\ Head(inbox).op = op
           /\ op = "dispatch" => Head(inbox).s \in Nat /\ Head(inbox).s <= said
<1>1. inbox # <<>> /\ inbox' = Tail(inbox) /\ said' = said /\ Head(inbox).op = op
  BY DEF Take, server
<1>2. /\ inbox' \in Seq(Message) /\ Head(inbox) = inbox[1] /\ 1 \in DOMAIN inbox
      /\ inbox[1] \in Message
      /\ Len(inbox') = Len(inbox) - 1
      /\ \A i \in 1..Len(inbox') : inbox'[i] = inbox[i + 1] /\ i + 1 \in DOMAIN inbox
  BY <1>1 DEF Numbers
<1>3. op = "dispatch" => Head(inbox).s \in Nat /\ Head(inbox).s <= said
  BY <1>1, <1>2 DEF Numbers, Message
<1> QED
  BY <1>1, <1>2, <1>3 DEF Numbers

LEMMA NumbersStep == Numbers /\ [Next]_vars => Numbers'
<1> SUFFICES ASSUME Numbers, [Next]_vars PROVE Numbers'
  OBVIOUS
<1>1. ASSUME NEW m \in Message, Says(m), said' \in Nat, said <= said',
             m.op = "dispatch" => m.s <= said'
      PROVE  Numbers'
  <2>1. inbox' = Append(inbox, m) /\ seq' = seq /\ beats' = beats
    BY <1>1 DEF Says, loop, heart
  <2> QED
    BY <1>1, <2>1, SaysKeepsInbox DEF Numbers
<1>2. CASE Dispatch
  <2>1. PICK replay \in BOOLEAN : Says([op |-> "dispatch", s |-> said + 1, replay |-> replay])
    BY <1>2 DEF Dispatch
  <2>2. said' = said + 1 /\ said \in Nat
    BY <1>2 DEF Dispatch, Numbers
  <2> QED
    BY <1>1, <2>1, <2>2 DEF Message
<1>3. CASE Ack \/ Request \/ AskToReconnect
  <2>1. said' = said /\ said \in Nat
    BY <1>3 DEF Ack, Request, AskToReconnect, Numbers
  <2>2. \/ Says([op |-> "ack"]) \/ Says([op |-> "heartbeat"]) \/ Says([op |-> "reconnect"])
    BY <1>3 DEF Ack, Request, AskToReconnect
  <2> QED
    BY <1>1, <2>1, <2>2 DEF Message
<1>4. CASE UNCHANGED <<said, seq, beats, inbox>>
  BY <1>4 DEF Numbers
<1>5. CASE \/ FallSilent \/ Break \/ Closed \/ ReadFails \/ ReadThrows
         \/ BeatCheck \/ BeatClear \/ Write \/ Drop
  BY <1>4, <1>5 DEF FallSilent, Break, Closed, ReadFails, ReadThrows, BeatCheck, BeatClear, Write, Drop,
                    server, loop, heart
<1>6. CASE HandleHello \/ HandleAck \/ HandleRequest \/ HandleReconnect
  <2>1. PICK op : Take(op)
    BY <1>6 DEF HandleHello, HandleAck, HandleRequest, HandleReconnect
  <2>2. seq' = seq /\ beats' = beats
    BY <1>6 DEF HandleHello, HandleAck, HandleRequest, HandleReconnect, heart
  <2> QED
    BY <2>1, <2>2, TakeKeepsInbox DEF Numbers
<1>7. CASE HandleDispatch
  <2>1. Take("dispatch") /\ beats' = beats
    BY <1>7 DEF HandleDispatch, heart
  <2>2. seq' = Max2(Head(inbox).s, seq)
    BY <1>7, <2>1, TakeKeepsInbox DEF HandleDispatch, Seen, Max2, Numbers
  <2> QED
    BY <2>1, <2>2, TakeKeepsInbox DEF Numbers, Max2
<1>8. CASE BeatSend
  BY <1>8 DEF BeatSend, Numbers, server, loop
<1>9. CASE UNCHANGED vars
  BY <1>4, <1>9 DEF vars, server, loop, heart
<1> QED
  BY <1>2, <1>3, <1>5, <1>6, <1>7, <1>8, <1>9 DEF Next, Network, Read, Beat

(* Beats name ascending numbers, each of an event that the server has sent,  *)
(* however dispatches, replays and beats interleave.                         *)
THEOREM BeatsAscendAlways == Spec => []BeatsAscend
<1>1. Init => Numbers
  BY DEF Init, Numbers, Message, Null
<1>2. Numbers /\ [Next]_vars => Numbers'
  BY NumbersStep
<1>3. Numbers => BeatsAscend
  BY DEF Numbers, BeatsAscend
<1> QED
  BY <1>1, <1>2, <1>3, PTL DEF Spec
-----------------------------------------------------------------------------
Acks(i) == i \in DOMAIN inbox /\ inbox[i].op = "ack"

(* No beat of the timer is in the hands of a writer, unanswered, or answered *)
(* by an ack on its way.                                                     *)
NoneOut == outbox = <<>> /\ owed = 0 /\ \A i : ~Acks(i)

(* Until the server asks for beats at most one is out, and none when the     *)
(* timer may send the next: recived_ack is set by the answer to the last one *)
(* and cleared after a beat, and HELLO, which sends the first, comes once.   *)
OneOut ==
    /\ \A i : Acks(i) => outbox = <<>> /\ owed = 0 /\ \A j : Acks(j) => j = i
    /\ Len(outbox) + owed <= 1
    /\ beat \in {"none", "send"} \/ (ack /\ beat # "clear") => NoneOut
    /\ \A i \in DOMAIN inbox : /\ inbox[i].op = "hello" => i = 1 /\ beat = "none"
                              /\ inbox[i].op # "heartbeat"

(* What is out is the latest beat, and the server knows of no later one.     *)
Latest ==
    /\ \A i \in DOMAIN outbox : outbox[i] \in {Null, beats[2]}
    /\ lastBeat <= beats[2]

InOrder ==
    /\ Numbers /\ asked \in Nat /\ owed \in Nat /\ lastBeat \in Int /\ outbox \in Seq(Int)
    /\ asked = 0 => OneOut /\ Latest

LEMMA AppendInbox ==
    ASSUME Numbers, NEW m \in Message, inbox' = Append(inbox, m)
    PROVE  /\ Len(inbox) \in Nat /\ inbox'[Len(inbox) + 1] = m
           /\ \A i \in DOMAIN inbox' : i \in DOMAIN inbox \/ i = Len(inbox) + 1
           /\ \A i \in DOMAIN inbox : inbox'[i] = inbox[i] /\ i \in 1..Len(inbox)
BY DEF Numbers

LEMMA TailInbox ==
    ASSUME Numbers, inbox # <<>>, inbox' = Tail(inbox)
    PROVE  /\ Head(inbox) = inbox[1] /\ 1 \in DOMAIN inbox
           /\ \A i \in DOMAIN inbox' :
                  i \in Nat \ {0} /\ i + 1 \in DOMAIN inbox /\ inbox'[i] = inbox[i + 1]
BY DEF Numbers

(* What the server says: no second HELLO, no ack that it does not owe.       *)
LEMMA SaysKeepsOneOut ==
    ASSUME InOrder, OneOut, Latest, NEW m \in Message, Says(m), asked' = asked,
           m.op \notin {"hello", "heartbeat"},
           IF m.op = "ack" THEN owed > 0 /\ owed' = owed - 1 ELSE owed' = owed
    PROVE  OneOut' /\ Latest'
<1>1. /\ inbox' = Append(inbox, m) /\ lastBeat' = lastBeat /\ outbox' = outbox
      /\ ack' = ack /\ beat' = beat /\ beats' = beats
  BY DEF Says, heart
<1>2. /\ Len(inbox) \in Nat /\ inbox'[Len(inbox) + 1] = m
      /\ \A i \in DOMAIN inbox' : i \in DOMAIN inbox \/ i = Len(inbox) + 1
      /\ \A i \in DOMAIN inbox : inbox'[i] = inbox[i] /\ i \in 1..Len(inbox)
  BY <1>1, AppendInbox DEF InOrder
<1>3. Latest'
  BY <1>1 DEF Latest
<1>4. \A i \in DOMAIN inbox' : /\ inbox'[i].op = "hello" => i = 1 /\ beat' = "none"
                              /\ inbox'[i].op # "heartbeat"
  BY <1>1, <1>2 DEF OneOut
<1>5. /\ Len(outbox) \in Nat /\ owed \in Nat /\ (Len(outbox) = 0 => outbox = <<>>)
      /\ Len(outbox) + owed <= 1
  BY DEF InOrder, OneOut
<1>6. CASE m.op = "ack"
  <2>1. owed = 1 /\ owed' = 0 /\ outbox = <<>> /\ Len(outbox) = 0
    BY <1>5, <1>6
  <2>2. \A i : ~Acks(i)
    BY <2>1 DEF OneOut
  <2>3. \A i : Acks(i)' => i = Len(inbox) + 1
    BY <1>2, <2>2 DEF Acks
  <2>4. beat \notin {"none", "send"} /\ ~(ack /\ beat # "clear")
    BY <2>1 DEF OneOut, NoneOut
  <2> QED
    BY <1>1, <1>3, <1>4, <2>1, <2>3, <2>4 DEF OneOut
<1>7. CASE m.op # "ack"
  <2>1. \A i : Acks(i)' => Acks(i)
    BY <1>2, <1>7 DEF Acks
  <2>2. owed' = owed
    BY <1>7
  <2> QED
    BY <1>1, <1>3, <1>4, <2>1, <2>2 DEF OneOut, NoneOut
<1> QED
  BY <1>6, <1>7

(* What is left on the wire when a message other than an ack is taken.       *)
LEMMA TakeShiftsInbox ==
    ASSUME InOrder, OneOut, NEW op, Take(op)
    PROVE  /\ \A i : Acks(i)' => i \in Nat /\ Acks(i + 1)
           /\ \A i \in DOMAIN inbox' : inbox'[i].op \notin {"hello", "heartbeat"}
           /\ 1 \in DOMAIN inbox /\ inbox[1].op = op
           /\ server' = server /\ op # "heartbeat"
           /\ op = "hello" => beat = "none"
<1>1. inbox # <<>> /\ inbox' = Tail(inbox) /\ Head(inbox).op = op /\ server' = server
  BY DEF Take
<1>2. /\ Head(inbox) = inbox[1] /\ 1 \in DOMAIN inbox
      /\ \A i \in DOMAIN inbox' :
             i \in Nat \ {0} /\ i + 1 \in DOMAIN inbox /\ inbox'[i] = inbox[i + 1]
  BY <1>1, TailInbox DEF InOrder
<1>3. \A i \in DOMAIN inbox' : i + 1 # 1
  BY <1>2
<1> QED
  BY <1>1, <1>2, <1>3 DEF Acks, OneOut

LEMMA InOrderStep ==
    ASSUME InOrder, [Next]_vars
    PROVE  InOrder' /\ (asked = 0 => lastBeat <= lastBeat')
<1>1. Numbers'
  BY NumbersStep DEF InOrder
<1>2. /\ asked' \in Nat /\ owed' \in Nat /\ lastBeat' \in Int /\ outbox' \in Seq(Int)
      /\ asked' = 0 => asked = 0
  <2>0. asked \in Nat /\ owed \in Nat /\ lastBeat \in Int /\ outbox \in Seq(Int) /\ seq \in Int
    BY DEF InOrder, Numbers
  <2>1. CASE Network
    <3>1. outbox' = outbox /\ lastBeat' = lastBeat
      BY <2>1 DEF Network, Says, Dispatch, Ack, Request, AskToReconnect, FallSilent, Break, server
    <3>2. asked' \in {asked, asked + 1}
      BY <2>1 DEF Network, Dispatch, Ack, Request, AskToReconnect, FallSilent, Break, server
    <3>3. owed' = owed \/ (owed > 0 /\ owed' = owed - 1)
      BY <2>1 DEF Network, Dispatch, Ack, Request, AskToReconnect, FallSilent, Break, server
    <3> QED
      BY <2>0, <3>1, <3>2, <3>3
  <2>2. CASE Closed \/ Read \/ ReadThrows \/ Beat \/ Drop
    <3>1. asked' = asked /\ owed' = owed /\ lastBeat' = lastBeat
      BY <2>2 DEF Closed, Read, HandleHello, HandleDispatch, HandleAck, HandleRequest,
                  HandleReconnect, ReadFails, ReadThrows, Take, Beat, BeatCheck, BeatSend, BeatClear, Drop,
                  server
    <3>2. \/ outbox' = outbox \/ outbox' = Append(outbox, Null) \/ outbox' = Append(outbox, seq)
          \/ outbox # <<>> /\ outbox' = Tail(outbox)
      BY <2>2 DEF Closed, Read, HandleHello, HandleDispatch, HandleAck, HandleRequest,
                  HandleReconnect, ReadFails, ReadThrows, Beat, BeatCheck, BeatSend, BeatClear,
                  Drop, Send
    <3>3. outbox' \in Seq(Int)
      <4>1. Null \in Int
        BY DEF Null
      <4>2. Append(outbox, Null) \in Seq(Int) /\ Append(outbox, seq) \in Seq(Int)
        BY <2>0, <4>1
      <4>3. outbox # <<>> => Tail(outbox) \in Seq(Int)
        BY <2>0
      <4> QED
        BY <2>0, <3>2, <4>2, <4>3
    <3> QED
      BY <2>0, <3>1, <3>3
  <2>5. CASE Write
    <3>1. PICK i \in DOMAIN outbox :
            /\ outbox' = SubSeq(outbox, 1, i - 1) \o SubSeq(outbox, i + 1, Len(outbox))
            /\ lastBeat' = IF outbox[i] = Null THEN lastBeat ELSE outbox[i]
      BY <2>5 DEF Write
    <3>2. outbox[i] \in Int /\ i \in 1..Len(outbox) /\ Len(outbox) \in Nat
      BY <2>0, <3>1
    <3>3. SubSeq(outbox, 1, i - 1) \in Seq(Int) /\ SubSeq(outbox, i + 1, Len(outbox)) \in Seq(Int)
      BY <2>0, <3>2
    <3>4. owed' = owed + 1 /\ asked' = asked
      BY <2>5 DEF Write
    <3> QED
      BY <2>0, <3>1, <3>2, <3>3, <3>4
  <2>6. CASE UNCHANGED vars
    BY <2>0, <2>6 DEF vars, server
  <2> QED
    BY <2>1, <2>2, <2>5, <2>6 DEF Next
<1>3. ASSUME asked = 0 PROVE lastBeat <= lastBeat' /\ (asked' = 0 => OneOut' /\ Latest')
  <2>1. OneOut /\ Latest /\ owed \in Nat /\ lastBeat \in Int /\ beats[2] \in Int
        /\ outbox \in Seq(Int) /\ asked \in Nat
    BY <1>3 DEF InOrder, Numbers
  <2>2. CASE lastBeat' = lastBeat /\ outbox' = outbox /\ owed' = owed /\ inbox' = inbox
             /\ beat' = beat /\ ack' = ack /\ beats' = beats
    <3>1. \A i : Acks(i)' <=> Acks(i)
      BY <2>2 DEF Acks
    <3> QED
      BY <2>1, <2>2, <3>1 DEF OneOut, Latest, NoneOut
  <2>3. CASE FallSilent \/ Break \/ Closed \/ ReadFails \/ ReadThrows \/ UNCHANGED vars
    BY <2>2, <2>3 DEF FallSilent, Break, Closed, ReadFails, ReadThrows, server, heart, vars
  <2>4. CASE Dispatch \/ Ack \/ AskToReconnect
    <3>1. lastBeat' = lastBeat
      BY <2>4 DEF Dispatch, Ack, AskToReconnect, Says
    <3>2. CASE Dispatch
      <4>1. PICK replay \in BOOLEAN :
              Says([op |-> "dispatch", s |-> said + 1, replay |-> replay])
        BY <3>2 DEF Dispatch
      <4>2. [op |-> "dispatch", s |-> said + 1, replay |-> replay] \in Message
        BY DEF InOrder, Numbers, Message
      <4>3. asked' = asked /\ owed' = owed
        BY <3>2 DEF Dispatch
      <4> QED
        BY <2>1, <3>1, <4>1, <4>2, <4>3, SaysKeepsOneOut
    <3>3. CASE Ack
      <4>1. Says([op |-> "ack"]) /\ asked' = asked /\ owed > 0 /\ owed' = owed - 1
        BY <3>3 DEF Ack
      <4>2. [op |-> "ack"] \in Message
        BY DEF Message
      <4> QED
        BY <2>1, <3>1, <4>1, <4>2, SaysKeepsOneOut
    <3>4. CASE AskToReconnect
      <4>1. Says([op |-> "reconnect"]) /\ asked' = asked /\ owed' = owed
        BY <3>4 DEF AskToReconnect
      <4>2. [op |-> "reconnect"] \in Message
        BY DEF Message
      <4> QED
        BY <2>1, <3>1, <4>1, <4>2, SaysKeepsOneOut
    <3> QED
      BY <2>4, <3>2, <3>3, <3>4
  <2>5. CASE Request
    <3>1. asked' = asked + 1 /\ lastBeat' = lastBeat
      BY <2>5 DEF Request, Says
    <3> QED
      BY <2>1, <3>1
  <2>6. CASE HandleHello
    <3>1. /\ Take("hello") /\ outbox' = Append(outbox, Null)
          /\ ~ack' /\ beat' = "armed" /\ beats' = beats
      BY <2>6 DEF HandleHello, Send
    <3>2. NoneOut /\ beat = "none"
      BY <2>1, <3>1, TakeShiftsInbox DEF OneOut
    <3>3. lastBeat' = lastBeat /\ owed' = 0 /\ outbox' = <<Null>> /\ \A i : ~Acks(i)'
      BY <2>1, <3>1, <3>2, TakeShiftsInbox DEF NoneOut, server
    <3>4. \A i \in DOMAIN inbox' : inbox'[i].op \notin {"hello", "heartbeat"}
      BY <2>1, <3>1, TakeShiftsInbox
    <3>5. Len(outbox') = 1
      BY <3>3
    <3>6. OneOut'
      BY <3>1, <3>3, <3>4, <3>5 DEF OneOut
    <3>7. Latest'
      BY <2>1, <3>1, <3>3 DEF Latest
    <3> QED
      BY <2>1, <3>3, <3>6, <3>7
  <2>7. CASE HandleDispatch \/ HandleReconnect
    <3>1. PICK op : Take(op) /\ op # "ack"
      BY <2>7 DEF HandleDispatch, HandleReconnect
    <3>2. outbox' = outbox /\ beat' = beat /\ ack' = ack /\ beats' = beats
      BY <2>7 DEF HandleDispatch, HandleReconnect, heart
    <3>3. lastBeat' = lastBeat /\ owed' = owed
      BY <2>1, <3>1, TakeShiftsInbox DEF server
    <3>4. \A i : Acks(i)' => i \in Nat /\ Acks(i + 1)
      BY <2>1, <3>1, TakeShiftsInbox
    <3>5. \A i \in DOMAIN inbox' : inbox'[i].op \notin {"hello", "heartbeat"}
      BY <2>1, <3>1, TakeShiftsInbox
    <3>6. \A i : Acks(i)' => outbox' = <<>> /\ owed' = 0 /\ \A j : Acks(j)' => j = i
      <4> SUFFICES ASSUME NEW i, Acks(i)'
                   PROVE  outbox' = <<>> /\ owed' = 0 /\ \A j : Acks(j)' => j = i
        OBVIOUS
      <4>1. i \in Nat /\ Acks(i + 1) /\ outbox' = <<>> /\ owed' = 0
        BY <2>1, <3>2, <3>3, <3>4 DEF OneOut
      <4>2. ASSUME NEW j, Acks(j)' PROVE j = i
        <5>1. j \in Nat /\ Acks(j + 1)
          BY <3>4, <4>2
        <5>2. j + 1 = i + 1
          BY <2>1, <4>1, <5>1 DEF OneOut
        <5> QED
          BY <4>1, <5>1, <5>2
      <4> QED
        BY <4>1, <4>2
    <3>7. OneOut'
      BY <2>1, <3>2, <3>3, <3>4, <3>5, <3>6 DEF OneOut, NoneOut
    <3> QED
      BY <2>1, <3>2, <3>3, <3>7 DEF Latest
  <2>8. CASE HandleAck
    <3>1. Take("ack") /\ outbox' = outbox /\ beat' = beat /\ beats' = beats
      BY <2>8 DEF HandleAck
    <3>2. /\ \A i : Acks(i)' => i \in Nat /\ Acks(i + 1)
          /\ \A i \in DOMAIN inbox' : inbox'[i].op \notin {"hello", "heartbeat"}
          /\ 1 \in DOMAIN inbox /\ inbox[1].op = "ack" /\ lastBeat' = lastBeat /\ owed' = owed
      BY <2>1, <3>1, TakeShiftsInbox DEF server
    <3>3. Acks(1)
      BY <3>2 DEF Acks
    <3>4. outbox = <<>> /\ owed = 0 /\ \A j : Acks(j) => j = 1
      BY <2>1, <3>3 DEF OneOut
    <3>5. ASSUME NEW i, Acks(i)' PROVE FALSE
      <4>1. i \in Nat /\ Acks(i + 1)
        BY <3>2, <3>5
      <4>2. i + 1 = 1
        BY <3>4, <4>1
      <4>3. i \in DOMAIN inbox'
        BY <3>5 DEF Acks
      <4>4. i # 0
        BY <1>1, <4>3 DEF Numbers
      <4> QED
        BY <4>1, <4>2, <4>4
    <3>6. Len(outbox') + owed' <= 1 /\ outbox' = <<>> /\ owed' = 0
      BY <3>1, <3>2, <3>4
    <3>7. OneOut'
      BY <3>2, <3>5, <3>6 DEF OneOut, NoneOut
    <3> QED
      BY <2>1, <3>1, <3>2, <3>7 DEF Latest
  <2>9. CASE HandleRequest
    BY <2>1, <2>9, TakeShiftsInbox DEF HandleRequest
  <2>10. CASE BeatCheck \/ BeatClear
    <3>1. lastBeat' = lastBeat /\ outbox' = outbox /\ owed' = owed /\ inbox' = inbox
          /\ beats' = beats
      BY <2>10 DEF BeatCheck, BeatClear, server
    <3>2. /\ beat' # "none" /\ beat # "none"
          /\ beat' = "send" \/ ack' => beat = "armed" /\ ack
      BY <2>10 DEF BeatCheck, BeatClear
    <3>3. \A i : Acks(i)' <=> Acks(i)
      BY <3>1 DEF Acks
    <3> QED
      BY <2>1, <3>1, <3>2, <3>3 DEF OneOut, Latest, NoneOut
  <2>11. CASE BeatSend
    <3>1. /\ lastBeat' = lastBeat /\ owed' = owed /\ inbox' = inbox /\ beat = "send"
          /\ beat' = "clear" /\ outbox' = Append(outbox, seq) /\ beats' = <<beats[2], seq>>
      BY <2>11 DEF BeatSend, Send, server
    <3>2. NoneOut
      BY <2>1, <3>1 DEF OneOut
    <3>3. \A i : ~Acks(i)'
      BY <3>1, <3>2 DEF Acks, NoneOut
    <3>4. outbox' = <<seq>> /\ owed' = 0 /\ seq \in Nat /\ beats'[2] = seq /\ beats[2] <= seq
      BY <3>1, <3>2 DEF NoneOut, InOrder, Numbers
    <3>5. Len(outbox') = 1 /\ DOMAIN outbox' = {1} /\ outbox'[1] = seq
      BY <3>4
    <3>6. lastBeat' <= beats'[2]
      BY <2>1, <3>1, <3>4 DEF Latest
    <3>7. OneOut'
      BY <2>1, <3>1, <3>3, <3>4, <3>5 DEF OneOut
    <3>8. Latest'
      BY <3>4, <3>5, <3>6 DEF Latest
    <3> QED
      BY <2>1, <3>1, <3>7, <3>8
  <2>12. CASE Write
    <3>1. PICK i \in DOMAIN outbox :
            /\ outbox' = SubSeq(outbox, 1, i - 1) \o SubSeq(outbox, i + 1, Len(outbox))
            /\ lastBeat' = IF outbox[i] = Null THEN lastBeat ELSE outbox[i]
      BY <2>12 DEF Write
    <3>2. owed' = owed + 1 /\ inbox' = inbox /\ beat' = beat /\ ack' = ack /\ beats' = beats
      BY <2>12 DEF Write, heart
    <3>3. Len(outbox) = 1 /\ i = 1 /\ owed = 0 /\ outbox # <<>>
      <4>1. Len(outbox) + owed <= 1
        BY <2>1 DEF OneOut
      <4>2. Len(outbox) \in Nat /\ i \in 1..Len(outbox) /\ owed \in Nat
        BY <2>1, <3>1
      <4>3. Len(outbox) = 1 /\ i = 1 /\ owed = 0
        BY <4>1, <4>2
      <4>4. outbox # <<>>
        BY <3>1
      <4> QED
        BY <4>3, <4>4
    <3>4. outbox' = <<>>
      <4>1. SubSeq(outbox, 1, 0) = <<>> /\ SubSeq(outbox, 2, 1) = <<>>
        BY <2>1, <3>3
      <4> QED
        BY <3>1, <3>3, <4>1
    <3>5. lastBeat <= lastBeat' /\ lastBeat' <= beats[2]
      BY <2>1, <3>1 DEF Latest
    <3>6. ~NoneOut /\ \A j : ~Acks(j)
      BY <2>1, <3>3 DEF OneOut, NoneOut
    <3>7. \A j : ~Acks(j)'
      BY <3>2, <3>6 DEF Acks
    <3>8. Len(outbox') + owed' <= 1
      BY <3>2, <3>3, <3>4
    <3>9. OneOut'
      BY <2>1, <3>2, <3>6, <3>7, <3>8 DEF OneOut
    <3>10. Latest'
      BY <3>2, <3>4, <3>5 DEF Latest
    <3> QED
      BY <3>5, <3>9, <3>10
  <2>13. CASE Drop
    <3>1. /\ outbox # <<>> /\ outbox' = Tail(outbox)
          /\ lastBeat' = lastBeat /\ owed' = owed /\ inbox' = inbox /\ beat' = beat
          /\ ack' = ack /\ beats' = beats
      BY <2>13 DEF Drop, server, heart
    <3>2. Len(outbox) = 1 /\ owed = 0
      <4>1. Len(outbox) + owed <= 1
        BY <2>1 DEF OneOut
      <4>2. Len(outbox) \in Nat /\ Len(outbox) # 0 /\ owed \in Nat
        BY <2>1, <3>1
      <4>3. \A n \in Nat, k \in Nat : n # 0 /\ n + k <= 1 => n = 1 /\ k = 0
        OBVIOUS
      <4> QED
        BY <4>1, <4>2, <4>3
    <3>3. outbox' = <<>>
      BY <2>1, <3>1, <3>2
    <3>4. ~NoneOut /\ \A j : ~Acks(j)
      BY <2>1, <3>1 DEF OneOut, NoneOut
    <3>5. \A j : ~Acks(j)'
      BY <3>1, <3>4 DEF Acks
    <3>6. Len(outbox') + owed' <= 1
      BY <3>1, <3>2, <3>3
    <3>7. OneOut'
      BY <2>1, <3>1, <3>4, <3>5, <3>6 DEF OneOut
    <3> QED
      BY <2>1, <3>1, <3>3, <3>7 DEF Latest
  <2> QED
    BY <2>3, <2>4, <2>5, <2>6, <2>7, <2>8, <2>9, <2>10, <2>11, <2>12, <2>13
       DEF Next, Network, Read, Beat
<1> QED
  BY <1>1, <1>2, <1>3 DEF InOrder

(* Until the server asks for a beat of its own, beats reach it in the order  *)
(* of their numbers, however the writers are served, and however the answer  *)
(* to a beat races the handler of the timer, which clears recived_ack after  *)
(* the beat was given to the writer.                                         *)
THEOREM BeatsArriveInOrderAlways == Spec => BeatsArriveInOrder
<1>1. Init => InOrder
  BY DEF Init, InOrder, Numbers, OneOut, Latest, NoneOut, Acks, Message, Null
<1>2. InOrder /\ [Next]_vars => InOrder'
  BY InOrderStep
<1>3. InOrder /\ [Next]_vars => [asked = 0 => lastBeat <= lastBeat']_vars
  BY InOrderStep
<1> QED
  BY <1>1, <1>2, <1>3, PTL DEF Spec, BeatsArriveInOrder
=============================================================================
