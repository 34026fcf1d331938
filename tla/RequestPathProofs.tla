-------------------------- MODULE RequestPathProofs --------------------------
(* Theorems about the parts of the way of a request: AsyncQueue, for any     *)
(* producers, consumers and ring size, HttpConnection, for any requests,     *)
(* buckets and limits, Requests, for any slots and ids, Mentions, for any    *)
(* roles and users, and Settings, for chains of any length; and about the    *)
(* values that requests and answers carry, BigUint, Numbers and Permissions, *)
(* for words and bases of any size.                                          *)
EXTENDS MCRequestPath, SequenceTheorems, WellFoundedInduction, TLAPS

(* The queue, AsyncQueue. *)

Values == 1..MaxPushes

(* The ring counts as full with one value in it, so it never has more.       *)
OneInRing ==
    /\ tail \in {head, Succ(head)}
    /\ overflow # <<>> => ~IsEmpty
    /\ ~IsEmpty => ring[head] \in Values

(* What the queue holds, without counting around the ring.                   *)
InQueue == IF IsEmpty THEN overflow ELSE <<ring[head]>> \o overflow
Pushed(n) == [i \in 1..n |-> i]

NoDataBesideWaiters == stack # <<>> => IsEmpty /\ overflow = <<>>

QueueInv ==
    /\ QueueTypeOK
    /\ OneInRing
    /\ NoDataBesideWaiters
    /\ taken \o InQueue = Pushed(pushes)

LEMMA SuccBounds ==
    /\ \A i \in 0..RingSize - 1 : Succ(i) \in 0..RingSize - 1 /\ Succ(i) # i
    /\ \A i \in 0..RingSize - 1 : Succ(i) = IF i = RingSize - 1 THEN 0 ELSE i + 1
BY QueueAssumption DEF Succ

LEMMA ModBounds ==
    /\ \A i \in 0..RingSize - 1 : i % RingSize = i
    /\ 1 % RingSize = 1 /\ (0 - (RingSize - 1)) % RingSize = 1
<1>1. \A i \in 0..RingSize - 1 : i % RingSize = i
  BY QueueAssumption
<1>2. 1 % RingSize = 1
  BY <1>1, QueueAssumption
<1>3. (0 - (RingSize - 1)) % RingSize = 1
  BY QueueAssumption
<1> QED
  BY <1>1, <1>2, <1>3

LEMMA ContentsHeld ==
    ASSUME QueueTypeOK, OneInRing
    PROVE  Contents = InQueue
<1>1. CASE tail = head
  <2>1. RingCount = 0
    BY <1>1, ModBounds, QueueAssumption DEF RingCount, QueueTypeOK
  <2>2. overflow = <<>> /\ InQueue = <<>>
    BY <1>1 DEF OneInRing, IsEmpty, InQueue
  <2>3. [i \in 1..0 |-> ring[(head + i - 1) % RingSize]] = <<>>
    OBVIOUS
  <2> QED
    BY <2>1, <2>2, <2>3 DEF Contents
<1>2. CASE tail = Succ(head)
  <2>1. RingCount = 1
    <3>1. head \in 0..RingSize - 1 /\ RingSize \in Nat /\ RingSize > 1
      BY QueueAssumption DEF QueueTypeOK
    <3>2. tail = IF head = RingSize - 1 THEN 0 ELSE head + 1
      BY <1>2, <3>1, SuccBounds
    <3>3. tail - head \in {1, 0 - (RingSize - 1)}
      BY <3>1, <3>2
    <3> QED
      BY <3>3, ModBounds DEF RingCount
  <2>3. (head + 1 - 1) % RingSize = head
    <3>1. head + 1 - 1 = head /\ head \in 0..RingSize - 1
      BY QueueAssumption DEF QueueTypeOK
    <3> QED
      BY <3>1, ModBounds
  <2>4. ~IsEmpty
    BY <1>2, SuccBounds, QueueAssumption DEF QueueTypeOK, IsEmpty
  <2>2. [i \in 1..1 |-> ring[(head + i - 1) % RingSize]] = <<ring[head]>>
    BY <2>3
  <2> QED
    BY <2>1, <2>2, <2>4 DEF Contents, InQueue
<1> QED
  BY <1>1, <1>2 DEF OneInRing

LEMMA PushedNext ==
    ASSUME NEW n \in Nat
    PROVE  /\ Append(Pushed(n), n + 1) = Pushed(n + 1)
           /\ Pushed(n) \o <<n + 1>> = Pushed(n + 1)
BY DEF Pushed

LEMMA Associative ==
    \A s, t, u \in Seq(Values) : (s \o t) \o u = s \o (t \o u)
BY ConcatAssociative

LEMMA QueueInductive == QueueInv /\ [QueueNext]_queueVars => QueueInv'
<1> SUFFICES ASSUME QueueInv, [QueueNext]_queueVars PROVE QueueInv'
  OBVIOUS
<1> USE QueueAssumption DEF QueueInv
<1>0. /\ pushes \in Nat /\ head \in 0..RingSize - 1 /\ tail \in 0..RingSize - 1
      /\ taken \in Seq(Values) /\ overflow \in Seq(Values) /\ InQueue \in Seq(Values)
  <2>1. /\ pushes \in Nat /\ head \in 0..RingSize - 1 /\ tail \in 0..RingSize - 1
        /\ taken \in Seq(Values) /\ overflow \in Seq(Values)
    BY DEF QueueTypeOK, Values
  <2>2. ~IsEmpty => <<ring[head]>> \in Seq(Values)
    BY DEF OneInRing
  <2>3. ~IsEmpty => <<ring[head]>> \o overflow \in Seq(Values)
    BY <2>1, <2>2
  <2> QED
    BY <2>1, <2>3 DEF InQueue
<1>1. ASSUME NEW p \in Producers, PushToWaiter(p) PROVE QueueInv'
  <2>1. IsEmpty /\ overflow = <<>> /\ InQueue = <<>>
    BY <1>1 DEF PushToWaiter, NoDataBesideWaiters, InQueue
  <2>2. QueueTypeOK'
    <3>1. Head(stack) \in Consumers /\ Tail(stack) \in Seq(Consumers)
      BY <1>1 DEF PushToWaiter, QueueTypeOK
    <3>2. pushes + 1 \in 1..MaxPushes
      BY <1>1 DEF PushToWaiter, MayPush, QueueTypeOK
    <3>3. taken' \in Seq(1..MaxPushes)
      BY <1>1, <3>2 DEF PushToWaiter, QueueTypeOK
    <3>4. thing' \in [Consumers -> -1..MaxPushes]
      BY <1>1, <3>1, <3>2 DEF PushToWaiter, QueueTypeOK
    <3>5. resuming' \in [Producers -> SUBSET Consumers]
      BY <1>1, <3>1 DEF PushToWaiter, QueueTypeOK
    <3>6. /\ stack' = Tail(stack) /\ pushes' = pushes + 1
          /\ UNCHANGED <<ring, head, tail, overflow, at, canceling, cancels>>
      BY <1>1 DEF PushToWaiter
    <3>7. pushes' \in 0..MaxPushes /\ stack' \in Seq(Consumers)
      BY <3>1, <3>2, <3>6
    <3> QED
      BY <3>3, <3>4, <3>5, <3>6, <3>7 DEF QueueTypeOK
  <2>3. OneInRing' /\ NoDataBesideWaiters' /\ InQueue' = <<>>
    BY <1>1, <2>1 DEF PushToWaiter, OneInRing, NoDataBesideWaiters, IsEmpty, InQueue
  <2>4. (taken \o InQueue = Pushed(pushes))'
    <3>1. taken = Pushed(pushes)
      BY <1>0, <2>1
    <3>2. taken' = Append(taken, pushes + 1) /\ pushes' = pushes + 1
      BY <1>1 DEF PushToWaiter
    <3>3. taken' = Pushed(pushes')
      BY <1>0, <3>1, <3>2, PushedNext
    <3>4. taken' \in Seq(1..MaxPushes)
      BY <2>2 DEF QueueTypeOK
    <3> QED
      BY <2>3, <3>3, <3>4 DEF Pushed
  <2> QED
    BY <2>2, <2>3, <2>4
<1>2. ASSUME NEW p \in Producers, PushToRing(p) PROVE QueueInv'
  <2>1. tail = head /\ overflow = <<>> /\ InQueue = <<>>
    BY <1>0, <1>2, SuccBounds DEF PushToRing, IsFull, OneInRing, IsEmpty, InQueue
  <2>2. QueueTypeOK'
    <3>1. pushes + 1 \in 1..MaxPushes
      BY <1>2 DEF PushToRing, MayPush, QueueTypeOK
    <3>2. Succ(tail) \in 0..RingSize - 1
      BY <1>0, SuccBounds
    <3>3. ring' \in [0..RingSize - 1 -> 0..MaxPushes]
      BY <1>2, <3>1 DEF PushToRing, QueueTypeOK
    <3> QED
      BY <1>2, <3>1, <3>2, <3>3 DEF PushToRing, QueueTypeOK
  <2>3. ring'[head'] = pushes + 1 /\ pushes + 1 \in Values /\ ~IsEmpty'
    BY <1>0, <1>2, <2>1, SuccBounds DEF PushToRing, MayPush, QueueTypeOK, IsEmpty, Values
  <2>4. OneInRing' /\ NoDataBesideWaiters'
    BY <1>2, <2>1, <2>3 DEF PushToRing, OneInRing, NoDataBesideWaiters
  <2>5. InQueue' = <<pushes + 1>> /\ taken' = taken /\ pushes' = pushes + 1
    BY <1>2, <2>1, <2>3 DEF PushToRing, InQueue
  <2>6. (taken \o InQueue = Pushed(pushes))'
    BY <1>0, <2>1, <2>5, PushedNext
  <2> QED
    BY <2>2, <2>4, <2>6
<1>3. ASSUME NEW p \in Producers, PushToOverflow(p) PROVE QueueInv'
  <2>1. ~IsEmpty
    BY <1>0, <1>3, SuccBounds DEF PushToOverflow, IsFull, IsEmpty
  <2>2. QueueTypeOK'
    BY <1>3 DEF PushToOverflow, MayPush, QueueTypeOK
  <2>3. OneInRing' /\ NoDataBesideWaiters'
    BY <1>3, <2>1 DEF PushToOverflow, OneInRing, NoDataBesideWaiters, IsEmpty
  <2>4. ring[head] \in Values /\ pushes + 1 \in Values
    BY <1>0, <1>3, <2>1 DEF PushToOverflow, MayPush, OneInRing, QueueTypeOK, Values
  <2>5. InQueue' = InQueue \o <<pushes + 1>> /\ taken' = taken /\ pushes' = pushes + 1
    <3>1. InQueue' = <<ring[head]>> \o Append(overflow, pushes + 1)
      BY <1>3, <2>1 DEF PushToOverflow, InQueue, IsEmpty
    <3>2. Append(overflow, pushes + 1) = overflow \o <<pushes + 1>>
      BY <1>0, <2>4
    <3>3. <<ring[head]>> \in Seq(Values) /\ <<pushes + 1>> \in Seq(Values)
      BY <2>4
    <3>4. (<<ring[head]>> \o overflow) \o <<pushes + 1>>
            = <<ring[head]>> \o (overflow \o <<pushes + 1>>)
      BY <1>0, <3>3, Associative
    <3> QED
      BY <1>3, <2>1, <3>1, <3>2, <3>4 DEF PushToOverflow, InQueue
  <2>6. (taken \o InQueue = Pushed(pushes))'
    <3>1. <<pushes + 1>> \in Seq(Values)
      BY <2>4
    <3>2. taken \o (InQueue \o <<pushes + 1>>) = (taken \o InQueue) \o <<pushes + 1>>
      BY <1>0, <3>1, Associative
    <3> QED
      BY <1>0, <2>5, <3>2, PushedNext
  <2> QED
    BY <2>2, <2>3, <2>6
<1>4. ASSUME NEW c \in Consumers, PopRing(c) PROVE QueueInv'
  <2>1. /\ tail = Succ(head) /\ InQueue = <<ring[head]>> \o overflow /\ stack = <<>>
        /\ ring[head] \in Values /\ Succ(tail) # tail /\ head' = tail
    BY <1>0, <1>4, SuccBounds DEF PopRing, OneInRing, InQueue, NoDataBesideWaiters, IsEmpty
  <2>2. taken' = taken \o <<ring[head]>> /\ taken' \in Seq(Values)
    BY <1>0, <1>4, <2>1 DEF PopRing
  <2>3. taken' \o overflow = taken \o InQueue
    <3>1. <<ring[head]>> \in Seq(Values)
      BY <2>1
    <3>2. (taken \o <<ring[head]>>) \o overflow = taken \o (<<ring[head]>> \o overflow)
      BY <1>0, <3>1, Associative
    <3> QED
      BY <2>1, <2>2, <3>2
  <2>4. CASE overflow = <<>>
    <3>1. ring' = ring /\ tail' = tail /\ overflow' = <<>> /\ stack' = stack /\ pushes' = pushes
      BY <1>4, <2>4 DEF PopRing
    <3>2. IsEmpty' /\ InQueue' = <<>>
      BY <2>1, <3>1 DEF IsEmpty, InQueue
    <3>3. OneInRing' /\ NoDataBesideWaiters'
      BY <2>1, <3>1, <3>2 DEF OneInRing, NoDataBesideWaiters
    <3>4. QueueTypeOK'
      BY <1>4, <1>0, <2>1, <2>2, <2>4, <3>1 DEF PopRing, QueueTypeOK, Values
    <3>5. (taken \o InQueue = Pushed(pushes))'
      BY <2>3, <2>4, <3>1, <3>2
    <3> QED
      BY <3>3, <3>4, <3>5
  <2>5. CASE overflow # <<>>
    <3>1. Head(overflow) \in Values /\ Tail(overflow) \in Seq(Values)
      BY <1>0, <2>5
    <3>2. /\ ring' = [ring EXCEPT ![tail] = Head(overflow)] /\ tail' = Succ(tail)
          /\ overflow' = Tail(overflow) /\ stack' = stack /\ pushes' = pushes
      BY <1>4, <2>1, <2>5 DEF PopRing
    <3>3. ring'[head'] = Head(overflow) /\ ~IsEmpty'
      BY <1>0, <2>1, <3>2, SuccBounds DEF QueueTypeOK, IsEmpty
    <3>4. InQueue' = overflow
      <4>1. InQueue' = <<Head(overflow)>> \o Tail(overflow)
        BY <3>2, <3>3 DEF InQueue
      <4> QED
        BY <1>0, <2>5, <4>1
    <3>5. OneInRing' /\ NoDataBesideWaiters'
      BY <2>1, <3>1, <3>2, <3>3 DEF OneInRing, NoDataBesideWaiters
    <3>6. QueueTypeOK'
      <4>1. Succ(tail) \in 0..RingSize - 1
        BY <1>0, SuccBounds
      <4>2. ring' \in [0..RingSize - 1 -> 0..MaxPushes]
        <5>1. Head(overflow) \in 0..MaxPushes
          BY <3>1 DEF Values
        <5> QED
          BY <3>2, <5>1 DEF QueueTypeOK
      <4> QED
        BY <1>0, <1>4, <2>1, <2>2, <3>1, <3>2, <4>1, <4>2 DEF PopRing, QueueTypeOK, Values
    <3>7. (taken \o InQueue = Pushed(pushes))'
      BY <2>3, <3>2, <3>4
    <3> QED
      BY <3>5, <3>6, <3>7
  <2> QED
    BY <2>4, <2>5
<1>5. ASSUME NEW p \in Producers, Resume(p) PROVE QueueInv'
  <2>1. UNCHANGED <<ring, head, tail, overflow, stack, pushes, taken>>
    BY <1>5 DEF Resume
  <2>2. OneInRing' /\ NoDataBesideWaiters' /\ (taken \o InQueue = Pushed(pushes))'
    BY <2>1 DEF OneInRing, NoDataBesideWaiters, InQueue, IsEmpty
  <2>3. QueueTypeOK'
    <3>1. resuming' \in [Producers -> SUBSET Consumers]
      BY <1>5 DEF Resume, QueueTypeOK
    <3>2. at' \in [Consumers -> {"running", "parked", "stopped"}]
      BY <1>5 DEF Resume, QueueTypeOK
    <3>3. thing' \in [Consumers -> -1..MaxPushes]
      BY <1>5 DEF Resume, QueueTypeOK, None
    <3> QED
      BY <1>5, <3>1, <3>2, <3>3 DEF Resume, QueueTypeOK
  <2> QED
    BY <2>2, <2>3
<1>6. ASSUME NEW c \in Consumers, Park(c) PROVE QueueInv'
  <2>1. overflow = <<>> /\ UNCHANGED <<ring, head, tail, overflow, pushes, taken>>
    BY <1>6 DEF Park, OneInRing
  <2>2. OneInRing' /\ NoDataBesideWaiters' /\ (taken \o InQueue = Pushed(pushes))'
    BY <1>6, <2>1 DEF Park, OneInRing, NoDataBesideWaiters, InQueue, IsEmpty
  <2>3. QueueTypeOK'
    <3>1. stack' \in Seq(Consumers) /\ at' \in [Consumers -> {"running", "parked", "stopped"}]
      BY <1>6 DEF Park, QueueTypeOK
    <3> QED
      BY <1>6, <3>1 DEF Park, QueueTypeOK
  <2> QED
    BY <2>2, <2>3
<1>7. CASE CancelAll \/ CancelNext
  <2>1. UNCHANGED <<ring, head, tail, overflow, pushes, taken>> /\ stack' \in {stack, <<>>}
    BY <1>7 DEF CancelAll, CancelNext
  <2>2. OneInRing' /\ NoDataBesideWaiters' /\ (taken \o InQueue = Pushed(pushes))'
    BY <2>1 DEF OneInRing, NoDataBesideWaiters, InQueue, IsEmpty
  <2>3. ASSUME CancelAll PROVE QueueTypeOK'
    <3>1. <<>> \in Seq(Consumers) /\ cancels + 1 \in 0..MaxCancels
      BY <2>3 DEF CancelAll, QueueTypeOK
    <3>2. /\ canceling' = stack /\ stack' = <<>> /\ cancels' = cancels + 1
          /\ UNCHANGED <<ring, head, tail, overflow, thing, at, resuming, pushes, taken>>
      BY <2>3 DEF CancelAll
    <3> QED
      BY <3>1, <3>2 DEF QueueTypeOK
  <2>4. ASSUME CancelNext PROVE QueueTypeOK'
    <3>1. Head(canceling) \in Consumers /\ Tail(canceling) \in Seq(Consumers)
      BY <2>4 DEF CancelNext, QueueTypeOK
    <3>2. Canceled \in -1..MaxPushes
      BY QueueAssumption DEF Canceled
    <3>3. thing' \in [Consumers -> -1..MaxPushes]
      BY <2>4, <3>2 DEF CancelNext, QueueTypeOK
    <3>4. at' \in [Consumers -> {"running", "parked", "stopped"}]
      BY <2>4 DEF CancelNext, QueueTypeOK
    <3>5. /\ canceling' = Tail(canceling)
          /\ UNCHANGED <<ring, head, tail, overflow, stack, resuming, pushes, cancels, taken>>
      BY <2>4 DEF CancelNext
    <3> QED
      BY <3>1, <3>3, <3>4, <3>5 DEF QueueTypeOK
  <2> QED
    BY <1>7, <2>2, <2>3, <2>4
<1>8. CASE UNCHANGED queueVars
  BY <1>8 DEF queueVars, QueueTypeOK, OneInRing, NoDataBesideWaiters, InQueue, IsEmpty
<1> QED
  BY <1>1, <1>2, <1>3, <1>4, <1>5, <1>6, <1>7, <1>8 DEF QueueNext, Push, Consume

LEMMA QueueInvAlways == QueueSpec => []QueueInv
<1>1. QueueInit => QueueInv
  <2> SUFFICES ASSUME QueueInit PROVE QueueInv
    OBVIOUS
  <2>1. QueueTypeOK
    BY QueueAssumption DEF QueueInit, QueueTypeOK, None
  <2>2. OneInRing /\ NoDataBesideWaiters /\ InQueue = <<>>
    BY DEF QueueInit, OneInRing, NoDataBesideWaiters, InQueue, IsEmpty
  <2>3. taken \o InQueue = Pushed(pushes)
    BY <2>2 DEF QueueInit, Pushed
  <2> QED
    BY <2>1, <2>2, <2>3 DEF QueueInv
<1> QED
  BY <1>1, QueueInductive, PTL DEF QueueSpec

(* Whoever pushes, pops and cancels, in whatever order: the values leave the *)
(* queue in the order in which they entered it, each once, over the ring and *)
(* the overflow.                                                             *)
THEOREM FirstInFirstOut == QueueSpec => []Fifo
<1>1. QueueInv => Fifo
  BY ContentsHeld DEF QueueInv, Fifo, Pushed
<1> QED
  BY <1>1, QueueInvAlways, PTL

(* No coroutine sleeps beside a value: while one waits, the ring and the     *)
(* overflow are empty.                                                       *)
THEOREM NobodySleepsBesideData == QueueSpec => []WaiterMeansNoData
<1>1. QueueInv => WaiterMeansNoData
  BY ContentsHeld DEF QueueInv, NoDataBesideWaiters, WaiterMeansNoData, InQueue
<1> QED
  BY <1>1, QueueInvAlways, PTL
-----------------------------------------------------------------------------
(* The connection and its rate limiter, HttpConnection. *)

InHand == {"check", "due", "arm", "asleep", "clear", "limit", "write", "reconnect", "read", "flag",
           "retry"}

(* A bucket has no entry and no timer, or one of each and they agree. *)
Paired ==
    \A b \in Buckets :
        \/ entries[b] = <<>> /\ timers[b] = <<>>
        \/ \E e \in Entry : entries[b] = <<e>> /\ timers[b] = <<e.until>>

(* NeverSentWhileLimited keeps RateLimit off a bucket that has an entry;     *)
(* Paired lets each timer find the entry that it was made for.               *)
LimiterInv ==
    /\ TypeOK
    /\ <<>> \notin returning
    /\ pc \in InHand => cur \in Requests
    /\ Paired
    /\ NeverSentWhileLimited

LEMMA RemoveOnly == ASSUME NEW x PROVE SubSeq(<<x>>, 1, 0) \o SubSeq(<<x>>, 2, Len(<<x>>)) = <<>>
OBVIOUS

LEMMA ReplaceOnly ==
    ASSUME NEW e, NEW r
    PROVE  [<<e>> EXCEPT ![1].held = Append(@, r)] = <<[e EXCEPT !.held = Append(@, r)]>>
OBVIOUS

LEMMA AppendToEmpty == ASSUME NEW x PROVE Append(<<>>, x) = <<x>>
OBVIOUS

(* Entries are made by rate_limit, for a bucket that has none. *)
LEMMA RateLimitPairs ==
    ASSUME LimiterInv, NEW b \in Buckets, NEW t \in Time, NEW held \in Seq(Requests),
           entries[b] = <<>>, RateLimit(b, t, held)
    PROVE  /\ entries' \in [Buckets -> Seq(Entry)] /\ timers' \in [Buckets -> Seq(Time)]
           /\ Paired'
<1> DEFINE e == [until |-> t, held |-> held]
<1>1. e \in Entry /\ timers[b] = <<>>
  <2>1. e \in Entry
    BY DEF Entry
  <2>2. timers[b] = <<>>
    BY DEF LimiterInv, Paired
  <2> QED
    BY <2>1, <2>2
<1>2. entries' = [entries EXCEPT ![b] = <<e>>] /\ timers' = [timers EXCEPT ![b] = <<t>>]
  BY <1>1, AppendToEmpty DEF RateLimit
<1>3. <<e>> \in Seq(Entry) /\ <<t>> \in Seq(Time) /\ e.until = t
  BY <1>1
<1> HIDE DEF e
<1> QED
  BY <1>1, <1>2, <1>3 DEF Paired, LimiterInv, TypeOK

LEMMA LimiterInductive == LimiterInv /\ [Next]_vars => LimiterInv'
<1> SUFFICES ASSUME LimiterInv, [Next]_vars PROVE LimiterInv'
  OBVIOUS
<1> USE HttpAssumption DEF InHand
<1>0. cur \in Requests => bucket \in Buckets
  BY DEF bucket
<1>1. ASSUME NEW r \in Requests, Submit(r) PROVE LimiterInv'
  BY <1>1 DEF Submit, LimiterInv, TypeOK, Paired, NeverSentWhileLimited, bucket, sender, global,
              limiter, bounds
<1>2. ASSUME NEW t \in Time, SleepTill(t) PROVE LimiterInv'
  <2>1. limits' \in 0..MaxLimits /\ limits' \in 1..MaxLimits
    BY <1>2 DEF SleepTill, Limits, LimiterInv, TypeOK
  <2>2. storing' \subseteq [no : 1..MaxLimits, till : Time]
    BY <1>2, <2>1 DEF SleepTill, LimiterInv, TypeOK
  <2>3. TypeOK'
    BY <1>2, <2>1, <2>2 DEF SleepTill, LimiterInv, TypeOK, sender, limiter
  <2> QED
    BY <1>2, <2>3 DEF SleepTill, LimiterInv, Paired, NeverSentWhileLimited, bucket, sender, limiter
<1>3. CASE Wake \/ Write \/ Reconnect
  <2>1. UNCHANGED <<cur, returning, entries, timers>>
    BY <1>3 DEF Wake, Write, Reconnect, Goto, limiter
  <2>2. TypeOK'
    <3>1. 0 \in Time
      BY DEF Time
    <3> QED
      BY <1>3, <2>1, <3>1 DEF Wake, Write, Reconnect, Goto, LimiterInv, TypeOK, global, limiter,
                              bounds
  <2>3. NeverSentWhileLimited' /\ (pc \in InHand => cur \in Requests)'
    BY <1>3, <2>1 DEF Wake, Write, Reconnect, Goto, LimiterInv, NeverSentWhileLimited, bucket
  <2> QED
    BY <2>1, <2>2, <2>3 DEF LimiterInv, Paired
<1>4. CASE Pop
  <2>1. Head(queue) \in Requests /\ Tail(queue) \in Seq(Requests)
    BY <1>4 DEF Pop, LimiterInv, TypeOK
  <2>2. TypeOK'
    BY <1>4, <2>1 DEF Pop, LimiterInv, TypeOK, global, limiter, bounds
  <2> QED
    BY <1>4, <2>1, <2>2 DEF Pop, LimiterInv, Paired, NeverSentWhileLimited, limiter
<1>5. CASE Check \/ CheckDue \/ Arm \/ Clear
  BY <1>5 DEF Check, CheckDue, Arm, Clear, Goto, LimiterInv, TypeOK, Paired, NeverSentWhileLimited,
              bucket, global, limiter, bounds
<1>6. CASE PassLimiter
  BY <1>6 DEF PassLimiter, Goto, LimiterInv, TypeOK, Paired, NeverSentWhileLimited, bucket, global,
              limiter, bounds
<1>7. CASE Hold
  <2>1. PICK e \in Entry : entries[bucket] = <<e>> /\ timers[bucket] = <<e.until>>
    BY <1>0, <1>7 DEF Hold, LimiterInv, Paired
  <2> DEFINE f == [e EXCEPT !.held = Append(@, cur)]
  <2>2. cur \in Requests /\ e.held \in Seq(Requests) /\ e.until \in Time
    BY <1>7 DEF Hold, LimiterInv, Entry
  <2>3. f \in Entry /\ f.until = e.until
    <3>1. Append(e.held, cur) \in Seq(Requests)
      BY <2>2
    <3> QED
      BY <3>1 DEF Entry
  <2>4. [entries[bucket] EXCEPT ![1].held = Append(@, cur)] = <<f>>
    BY <2>1, ReplaceOnly
  <2>5. entries' = [entries EXCEPT ![bucket] = <<f>>] /\ timers' = timers
    BY <1>7, <2>4 DEF Hold
  <2>6. <<f>> \in Seq(Entry)
    BY <2>3
  <2> HIDE DEF f
  <2>7. entries' \in [Buckets -> Seq(Entry)] /\ Paired'
    BY <1>0, <2>1, <2>2, <2>3, <2>5, <2>6 DEF LimiterInv, TypeOK, Paired
  <2>8. TypeOK'
    BY <1>7, <2>5, <2>7 DEF Hold, Drop, LimiterInv, TypeOK, global, bounds
  <2> QED
    BY <1>7, <2>7, <2>8 DEF Hold, Drop, LimiterInv, NeverSentWhileLimited
<1>8. CASE Break
  <2>1. breaks' \in 0..MaxBreaks
    BY <1>8 DEF Break, Breaks, LimiterInv, TypeOK
  <2>2. executed' \in [Requests -> Nat]
    BY <1>8 DEF Break, LimiterInv, TypeOK
  <2> QED
    BY <1>8, <2>1, <2>2 DEF Break, Goto, LimiterInv, TypeOK, Paired, NeverSentWhileLimited, bucket,
                            global, limiter
<1>9. CASE Garble
  BY <1>9 DEF Garble, LimiterInv, TypeOK, Paired, NeverSentWhileLimited, global, limiter, bounds
<1>10. ASSUME NEW t \in Time, GlobalLimit(t) PROVE LimiterInv'
  <2>1. limits' \in 0..MaxLimits /\ wakeAt' \in Time /\ until' \in Time
    BY <1>10 DEF GlobalLimit, Limits, LimiterInv, TypeOK
  <2>2. /\ UNCHANGED <<now, status, queue, tries, cur, limited, storing, limitedTill, limiter>>
        /\ UNCHANGED <<executed, breaks>>
        /\ pc = "read" /\ pc' \in {"flag", "retry"}
    BY <1>10 DEF GlobalLimit
  <2> QED
    BY <2>1, <2>2 DEF LimiterInv, TypeOK, Paired, NeverSentWhileLimited, bucket, limiter
<1>11. ASSUME NEW t \in Time, BucketLimit(t) PROVE LimiterInv'
  <2>1. cur \in Requests /\ entries[bucket] = <<>> /\ <<cur>> \in Seq(Requests)
    BY <1>11 DEF BucketLimit, LimiterInv, NeverSentWhileLimited
  <2>2. /\ entries' \in [Buckets -> Seq(Entry)] /\ timers' \in [Buckets -> Seq(Time)]
        /\ Paired'
    BY <1>0, <1>11, <2>1, RateLimitPairs DEF BucketLimit
  <2> QED
    BY <1>11, <2>2 DEF BucketLimit, Limits, RateLimit, Drop, LimiterInv, TypeOK,
                       NeverSentWhileLimited, global
<1>12. CASE Finish
  <2>1. cur \in Requests /\ entries[bucket] = <<>> /\ <<>> \in Seq(Requests)
    BY <1>12 DEF Finish, LimiterInv, NeverSentWhileLimited
  <2>2. /\ entries' \in [Buckets -> Seq(Entry)] /\ timers' \in [Buckets -> Seq(Time)]
        /\ Paired' /\ returning' = returning
        /\ limits' \in 0..MaxLimits /\ breaks' = breaks
    <3>1. CASE UNCHANGED <<limiter, bounds>>
      BY <3>1 DEF limiter, bounds, LimiterInv, TypeOK, Paired
    <3>2. ASSUME NEW t \in Time, Limits(t), RateLimit(bucket, t, <<>>), UNCHANGED breaks
          PROVE  /\ entries' \in [Buckets -> Seq(Entry)] /\ timers' \in [Buckets -> Seq(Time)]
                 /\ Paired' /\ returning' = returning
                 /\ limits' \in 0..MaxLimits /\ breaks' = breaks
      <4>1. returning' = returning /\ limits' \in 0..MaxLimits
        BY <3>2 DEF RateLimit, Limits, LimiterInv, TypeOK
      <4> QED
        BY <1>0, <2>1, <3>2, <4>1, RateLimitPairs
    <3> QED
      BY <1>12, <3>1, <3>2 DEF Finish
  <2>3. status' \in [Requests -> {"new", "sent", "finished"}] /\ executed' \in [Requests -> Nat]
    BY <1>12, <2>1 DEF Finish, LimiterInv, TypeOK
  <2>4. TypeOK'
    BY <1>12, <2>2, <2>3 DEF Finish, Drop, LimiterInv, TypeOK, global
  <2> QED
    BY <1>12, <2>2, <2>4 DEF Finish, Drop, LimiterInv, NeverSentWhileLimited
<1>13. ASSUME NEW b \in Buckets, NEW i \in DOMAIN timers[b], Fire(b, i) PROVE LimiterInv'
  <2>1. PICK e \in Entry : entries[b] = <<e>> /\ timers[b] = <<e.until>>
    BY <1>13 DEF LimiterInv, Paired
  <2>2. i = 1
    BY <2>1
  <2>3. /\ timers' = [timers EXCEPT ![b] = <<>>] /\ entries' = [entries EXCEPT ![b] = <<>>]
        /\ returning' = returning \cup ({e.held} \ {<<>>})
    <3>1. SubSeq(timers[b], 1, i - 1) \o SubSeq(timers[b], i + 1, Len(timers[b])) = <<>>
      BY <2>1, <2>2, RemoveOnly
    <3>2. Head(entries[b]) = e /\ Tail(entries[b]) = <<>>
      BY <2>1
    <3> QED
      BY <1>13, <3>1, <3>2 DEF Fire
  <2>4. e.held \in Seq(Requests) /\ <<>> \in Seq(Entry) /\ <<>> \in Seq(Time)
    BY DEF Entry
  <2>5. Paired'
    BY <2>3 DEF Paired, LimiterInv, TypeOK
  <2>6. NeverSentWhileLimited'
    BY <1>0, <1>13, <2>3 DEF Fire, NeverSentWhileLimited, LimiterInv, TypeOK, sender, bucket
  <2>7. /\ returning' \subseteq Seq(Requests) /\ <<>> \notin returning'
        /\ entries' \in [Buckets -> Seq(Entry)] /\ timers' \in [Buckets -> Seq(Time)]
    BY <2>3, <2>4 DEF LimiterInv, TypeOK
  <2> QED
    BY <1>13, <2>5, <2>6, <2>7 DEF Fire, LimiterInv, TypeOK, sender, global, bounds
<1>14. ASSUME NEW s \in returning, GiveBack(s) PROVE LimiterInv'
  <2>1. s \in Seq(Requests) /\ s # <<>> /\ Head(s) \in Requests /\ Tail(s) \in Seq(Requests)
    BY DEF LimiterInv, TypeOK
  <2>2. queue' \in Seq(Requests)
    BY <1>14, <2>1 DEF GiveBack, LimiterInv, TypeOK
  <2>3. returning' \subseteq Seq(Requests) /\ <<>> \notin returning'
    BY <1>14, <2>1 DEF GiveBack, LimiterInv, TypeOK
  <2>4. TypeOK'
    BY <1>14, <2>2, <2>3 DEF GiveBack, LimiterInv, TypeOK, sender, global, bounds
  <2>5. UNCHANGED <<pc, cur, entries, timers>>
    BY <1>14 DEF GiveBack, sender
  <2> QED
    BY <2>3, <2>4, <2>5 DEF LimiterInv, Paired, NeverSentWhileLimited, bucket
<1>15. CASE Tick
  <2>1. TypeOK'
    BY <1>15 DEF Tick, LimiterInv, TypeOK, Time, sender, global, limiter, bounds
  <2> QED
    BY <1>15, <2>1 DEF Tick, LimiterInv, Paired, NeverSentWhileLimited, bucket, sender, limiter
<1>16. CASE UNCHANGED vars
  BY <1>16 DEF vars, LimiterInv, TypeOK, Paired, NeverSentWhileLimited, bucket, sender, global,
               limiter, bounds
<1>17. ASSUME NEW s \in storing, SetLimited(s) PROVE LimiterInv'
  <2>1. s.till \in Time /\ Later(s.till) \in Time
    BY DEF LimiterInv, TypeOK, Later
  <2>2. TypeOK'
    BY <1>17, <2>1 DEF SetLimited, LimiterInv, TypeOK, sender, limiter, bounds
  <2> QED
    BY <1>17, <2>2 DEF SetLimited, LimiterInv, Paired, NeverSentWhileLimited, bucket, sender, limiter
<1>18. CASE SetOwnLimit
  <2>1. Later(wakeAt) \in Time
    BY DEF LimiterInv, TypeOK, Later
  <2>2. TypeOK'
    BY <1>18, <2>1 DEF SetOwnLimit, Goto, LimiterInv, TypeOK, limiter, bounds
  <2> QED
    BY <1>18, <2>2 DEF SetOwnLimit, Goto, LimiterInv, Paired, NeverSentWhileLimited, bucket, limiter
<1>19. CASE Connect \/ ConnectFails \/ Reopen
  <2>1. /\ UNCHANGED <<cur, returning, entries, timers>>
        /\ pc \notin InHand /\ pc' \in {"pop", "connect", "reopen", "dead"}
    BY <1>19 DEF Connect, ConnectFails, Reopen, Goto, limiter
  <2>2. TypeOK'
    BY <1>19, <2>1 DEF Connect, ConnectFails, Reopen, Goto, LimiterInv, TypeOK, global, limiter, bounds
  <2> QED
    BY <2>1, <2>2 DEF LimiterInv, Paired, NeverSentWhileLimited
<1> QED
  BY <1>1, <1>2, <1>3, <1>4, <1>5, <1>6, <1>7, <1>8, <1>9, <1>10, <1>11, <1>12, <1>13, <1>14, <1>15,
     <1>16, <1>17, <1>18, <1>19 DEF Next, Send, FireAny, GiveBackAny

LEMMA LimiterHolds == Spec => []LimiterInv
<1>1. Init => LimiterInv
  <2> SUFFICES ASSUME Init PROVE LimiterInv
    OBVIOUS
  <2>1. <<>> \in Seq(Entry) /\ <<>> \in Seq(Time) /\ <<>> \in Seq(Requests)
    OBVIOUS
  <2>2. 0 \in Time /\ 0 \in 0..MaxLimits /\ 0 \in 0..MaxBreaks
    BY HttpAssumption DEF Time
  <2>3. TypeOK
    BY <2>1, <2>2 DEF Init, TypeOK
  <2>4. Paired
    BY DEF Init, Paired
  <2> QED
    BY <2>3, <2>4 DEF Init, LimiterInv, NeverSentWhileLimited, InHand
<1> QED
  BY <1>1, LimiterInductive, PTL DEF Spec

(* Every variable stays in its type: in particular the sender has a request  *)
(* in hand, and no timer handler ever has an empty list to give back.        *)
THEOREM TypeCorrect == Spec => []TypeOK
BY LimiterHolds, PTL DEF LimiterInv

(* rate_limit is never called for a bucket that has an entry, and each timer *)
(* that fires erases the entry that it was made for.                         *)
THEOREM OneEntryAlways == Spec => []OneEntryPerBucket
<1>1. LimiterInv => OneEntryPerBucket
  <2> SUFFICES ASSUME Paired, NEW b \in Buckets
               PROVE  /\ Len(entries[b]) <= 1
                      /\ timers[b] = [i \in DOMAIN entries[b] |-> entries[b][i].until]
    BY DEF LimiterInv, OneEntryPerBucket
  <2>1. CASE entries[b] = <<>> /\ timers[b] = <<>>
    BY <2>1
  <2>2. ASSUME NEW e \in Entry, entries[b] = <<e>>, timers[b] = <<e.until>>
        PROVE  /\ Len(entries[b]) <= 1
               /\ timers[b] = [i \in DOMAIN entries[b] |-> entries[b][i].until]
    BY <2>2
  <2> QED
    BY <2>1, <2>2 DEF Paired
<1> QED
  BY <1>1, LimiterHolds, PTL

(* A request is never on its way to Discord while its bucket is limited.     *)
THEOREM NeverSentAlways == Spec => []NeverSentWhileLimited
BY LimiterHolds, PTL DEF LimiterInv
-----------------------------------------------------------------------------
(* Where a request is, as sets: in the queue, in hand, in the entry of its   *)
(* bucket, or with a timer handler.                                          *)
Of(s) == {s[i] : i \in DOMAIN s}
Once(s) == \A i, j \in DOMAIN s : s[i] = s[j] => i = j

Held(b) == IF entries[b] = <<>> THEN <<>> ELSE entries[b][1].held
Queued(r) == r \in Of(queue)
IsHeld(r) == r \in Of(Held(BucketOf[r]))
Returning(r) == \E s \in returning : r \in Of(s)
Somewhere(r) == Queued(r) \/ cur = r \/ IsHeld(r) \/ Returning(r)

InOnePlace ==
    /\ Once(queue) /\ \A b \in Buckets : Once(Held(b)) /\ \A s \in returning : Once(s)
    /\ \A b \in Buckets : \A r \in Of(Held(b)) : BucketOf[r] = b
    /\ \A r \in Requests :
        /\ Queued(r) => cur # r /\ ~IsHeld(r) /\ ~Returning(r)
        /\ cur = r => ~IsHeld(r) /\ ~Returning(r)
        /\ IsHeld(r) => ~Returning(r)
        /\ \A s, t \in returning : r \in Of(s) \cap Of(t) => s = t

(* A request that is somewhere was not answered yet, and has been executed   *)
(* only on connections that broke.                                           *)
Counted ==
    \A r \in Requests :
        /\ Somewhere(r) => status[r] = "sent"
        /\ status[r] = "finished" => executed[r] >= 1 /\ executed[r] <= 1 + breaks
        /\ status[r] # "finished" => executed[r] <= breaks

OnceInv == InOnePlace /\ Counted

(* Of sequences of requests. *)
LEMMA OnceAppend ==
    ASSUME NEW s \in Seq(Requests), NEW r \in Requests, Once(s), r \notin Of(s)
    PROVE  Once(Append(s, r)) /\ Of(Append(s, r)) = Of(s) \cup {r}
<1>1. /\ DOMAIN s = 1..Len(s) /\ Len(s) \in Nat /\ DOMAIN Append(s, r) = 1..(Len(s) + 1)
      /\ \A i \in 1..Len(s) : Append(s, r)[i] = s[i]
      /\ Append(s, r)[Len(s) + 1] = r
  OBVIOUS
<1>2. Once(Append(s, r))
  <2> SUFFICES ASSUME NEW i \in 1..(Len(s) + 1), NEW j \in 1..(Len(s) + 1),
                      Append(s, r)[i] = Append(s, r)[j]
               PROVE  i = j
    BY <1>1 DEF Once
  <2>1. CASE i \in 1..Len(s) /\ j \in 1..Len(s)
    BY <1>1, <2>1 DEF Once
  <2>2. CASE i = Len(s) + 1 \/ j = Len(s) + 1
    BY <1>1, <2>2 DEF Of
  <2> QED
    BY <1>1, <2>1, <2>2
<1>3. Of(Append(s, r)) = Of(s) \cup {r}
  <2>1. ASSUME NEW x \in Of(Append(s, r)) PROVE x \in Of(s) \cup {r}
    <3>1. PICK i \in 1..(Len(s) + 1) : Append(s, r)[i] = x
      BY <1>1, <2>1 DEF Of
    <3> QED
      BY <1>1, <3>1 DEF Of
  <2>2. Of(s) \subseteq Of(Append(s, r)) /\ r \in Of(Append(s, r))
    BY <1>1 DEF Of
  <2> QED
    BY <2>1, <2>2
<1> QED
  BY <1>2, <1>3

LEMMA OnceTail ==
    ASSUME NEW s \in Seq(Requests), s # <<>>, Once(s)
    PROVE  /\ Once(Tail(s)) /\ Head(s) \notin Of(Tail(s)) /\ Head(s) \in Requests
           /\ Of(s) = Of(Tail(s)) \cup {Head(s)}
<1>1. /\ DOMAIN s = 1..Len(s) /\ Len(s) \in Nat /\ Len(s) > 0
      /\ DOMAIN Tail(s) = 1..(Len(s) - 1) /\ Head(s) = s[1] /\ Head(s) \in Requests
      /\ \A i \in 1..(Len(s) - 1) : Tail(s)[i] = s[i + 1]
  OBVIOUS
<1>2. Once(Tail(s)) /\ Head(s) \notin Of(Tail(s))
  BY <1>1 DEF Once, Of
<1>3. ASSUME NEW x \in Of(s) PROVE x \in Of(Tail(s)) \cup {Head(s)}
  <2>1. PICK i \in 1..Len(s) : s[i] = x
    BY <1>1, <1>3 DEF Of
  <2>2. CASE i = 1
    BY <1>1, <2>1, <2>2
  <2>3. CASE i # 1
    <3>1. i - 1 \in 1..(Len(s) - 1) /\ Tail(s)[i - 1] = x
      BY <1>1, <2>1, <2>3
    <3> QED
      BY <1>1, <3>1 DEF Of
  <2> QED
    BY <2>2, <2>3
<1>4. Of(Tail(s)) \cup {Head(s)} \subseteq Of(s)
  BY <1>1 DEF Of
<1> QED
  BY <1>1, <1>2, <1>3, <1>4

LEMMA OnceSmall ==
    /\ Of(<<>>) = {} /\ Once(<<>>)
    /\ \A r \in Requests : Of(<<r>>) = {r} /\ Once(<<r>>)
BY DEF Of, Once

(* The steps that move no request. *)
LEMMA OnceUntouched ==
    ASSUME LimiterInv, OnceInv,
           UNCHANGED <<queue, cur, entries, returning, status, executed, breaks>>
    PROVE  OnceInv'
BY DEF OnceInv, InOnePlace, Counted, Somewhere, Queued, IsHeld, Returning, Held

(* An entry is made with what is to be held, by a bucket that has none.      *)
LEMMA HeldAfterLimit ==
    ASSUME LimiterInv, NEW b \in Buckets, NEW t \in Time, NEW held \in Seq(Requests),
           entries[b] = <<>>, RateLimit(b, t, held)
    PROVE  /\ \A c \in Buckets : Held(c)' = IF c = b THEN held ELSE Held(c)
           /\ Held(b) = <<>> /\ returning' = returning
<1> DEFINE e == [until |-> t, held |-> held]
<1>1. entries' = [entries EXCEPT ![b] = <<e>>]
  BY AppendToEmpty DEF RateLimit
<1>2. <<e>> # <<>> /\ <<e>>[1] = e /\ e.held = held
  OBVIOUS
<1> HIDE DEF e
<1>3. \A c \in Buckets : entries'[c] = IF c = b THEN <<e>> ELSE entries[c]
  BY <1>1 DEF LimiterInv, TypeOK
<1> QED
  BY <1>2, <1>3 DEF Held, RateLimit

LEMMA OnceInductive == LimiterInv /\ OnceInv /\ [Next]_vars => OnceInv'
<1> SUFFICES ASSUME LimiterInv, OnceInv, [Next]_vars PROVE OnceInv'
  OBVIOUS
<1> USE HttpAssumption DEF InHand
<1>0. /\ cur \in Requests => bucket \in Buckets /\ bucket = BucketOf[cur]
      /\ \A r \in Requests : BucketOf[r] \in Buckets
  BY DEF bucket
<1>1. CASE \/ Connect \/ ConnectFails \/ Reopen \/ Check \/ CheckDue \/ Arm \/ Wake
           \/ Clear \/ PassLimiter \/ Write \/ Reconnect \/ SetOwnLimit \/ Tick \/ UNCHANGED vars
           \/ (\E t \in Time : SleepTill(t) \/ GlobalLimit(t)) \/ \E s \in storing : SetLimited(s)
  <2>1. UNCHANGED <<queue, cur, entries, returning, status, executed, breaks>>
    BY <1>1 DEF Connect, ConnectFails, Reopen, Check, CheckDue, Arm, Wake, Clear, PassLimiter, Write,
                Reconnect, SetOwnLimit, Tick, SleepTill, SetLimited, GlobalLimit, Goto, vars, sender,
                global, limiter, bounds
  <2> QED
    BY <2>1, OnceUntouched
<1>2. ASSUME NEW r \in Requests, Submit(r) PROVE OnceInv'
  <2>1. ~Somewhere(r) /\ status[r] = "new"
    BY <1>2 DEF Submit, OnceInv, Counted
  <2>2. Once(queue') /\ Of(queue') = Of(queue) \cup {r}
    BY <1>2, <2>1, OnceAppend DEF Submit, OnceInv, InOnePlace, LimiterInv, TypeOK, Somewhere, Queued
  <2>3. UNCHANGED <<cur, entries, returning, executed, breaks>>
    BY <1>2 DEF Submit, sender, limiter, bounds
  <2>4. InOnePlace'
    BY <2>1, <2>2, <2>3 DEF OnceInv, InOnePlace, Somewhere, Queued, IsHeld, Returning, Held
  <2>5. status' = [status EXCEPT ![r] = "sent"]
    BY <1>2 DEF Submit
  <2>6. Counted'
    BY <2>1, <2>2, <2>3, <2>5
       DEF OnceInv, Counted, Somewhere, Queued, IsHeld, Returning, Held, LimiterInv, TypeOK
  <2> QED
    BY <2>4, <2>6 DEF OnceInv
<1>3. CASE Pop
  <2>1. /\ cur' = Head(queue) /\ queue' = Tail(queue) /\ queue # <<>>
        /\ UNCHANGED <<entries, returning, status, executed, breaks>>
    BY <1>3 DEF Pop, limiter, bounds
  <2>2. /\ Once(queue') /\ cur' \notin Of(queue') /\ cur' \in Requests
        /\ Of(queue) = Of(queue') \cup {cur'}
    BY <2>1, OnceTail DEF OnceInv, InOnePlace, LimiterInv, TypeOK
  <2>3. InOnePlace'
    BY <2>1, <2>2 DEF OnceInv, InOnePlace, Queued, IsHeld, Returning, Held
  <2>4. Counted'
    BY <2>1, <2>2 DEF OnceInv, Counted, Somewhere, Queued, IsHeld, Returning, Held
  <2> QED
    BY <2>3, <2>4 DEF OnceInv
<1>4. CASE Hold
  <2>1. PICK e \in Entry : entries[bucket] = <<e>>
    BY <1>0, <1>4 DEF Hold, LimiterInv, Paired
  <2>2. cur \in Requests /\ e.held \in Seq(Requests) /\ Held(bucket) = e.held
    BY <1>4, <2>1 DEF Hold, LimiterInv, Entry, Held
  <2>3. cur \notin Of(e.held) /\ Once(e.held)
    BY <1>0, <2>2 DEF OnceInv, InOnePlace, IsHeld
  <2>4. \A c \in Buckets : Held(c)' = IF c = bucket THEN Append(e.held, cur) ELSE Held(c)
    <3>1. entries' = [entries EXCEPT ![bucket][1].held = Append(@, cur)]
      BY <1>4 DEF Hold
    <3>2. entries'[bucket] # <<>> /\ entries'[bucket][1].held = Append(e.held, cur)
      BY <1>0, <2>1, <2>2, <3>1 DEF LimiterInv, TypeOK, Entry
    <3>3. \A c \in Buckets : c # bucket => entries'[c] = entries[c]
      BY <3>1 DEF LimiterInv, TypeOK
    <3> QED
      BY <3>2, <3>3 DEF Held
  <2>5. Once(Append(e.held, cur)) /\ Of(Append(e.held, cur)) = Of(e.held) \cup {cur}
    BY <2>2, <2>3, OnceAppend
  <2>6. /\ cur' = NoRequest /\ cur' \notin Requests
        /\ UNCHANGED <<queue, returning, status, executed, breaks>>
    BY <1>4 DEF Hold, Drop, bounds
  <2>7. PICK k : k = cur
    OBVIOUS
  <2>8. \A r \in Requests : IsHeld(r)' <=> IsHeld(r) \/ r = k
    BY <1>0, <2>2, <2>4, <2>5, <2>7 DEF IsHeld
  <2>9. InOnePlace'
    <3>1. \A b \in Buckets : Once(Held(b)')
      BY <2>4, <2>5 DEF OnceInv, InOnePlace
    <3>2. \A b \in Buckets : \A r \in Of(Held(b)') : BucketOf[r] = b
      BY <1>0, <2>2, <2>4, <2>5 DEF OnceInv, InOnePlace
    <3> QED
      BY <2>6, <2>7, <2>8, <3>1, <3>2 DEF OnceInv, InOnePlace, Queued, Returning
  <2>10. Counted'
    BY <2>2, <2>6, <2>7, <2>8 DEF OnceInv, Counted, Somewhere, Queued, Returning
  <2> QED
    BY <2>9, <2>10 DEF OnceInv
<1>5. CASE Break
  <2>1. /\ cur \in Requests /\ UNCHANGED <<queue, cur, entries, returning, status>>
        /\ breaks' = breaks + 1 /\ \E n \in {0, 1} : executed' = [executed EXCEPT ![cur] = @ + n]
    BY <1>5 DEF Break, Breaks, Goto, LimiterInv, limiter
  <2>2. InOnePlace'
    BY <2>1 DEF OnceInv, InOnePlace, Queued, IsHeld, Returning, Held
  <2>3. status[cur] = "sent"
    BY <2>1 DEF OnceInv, Counted, Somewhere
  <2>4. Counted'
    <3>1. executed \in [Requests -> Nat] /\ breaks \in Nat
      BY DEF LimiterInv, TypeOK
    <3>2. PICK n \in {0, 1} : executed' = [executed EXCEPT ![cur] = @ + n]
      BY <2>1
    <3>3. \A r \in Requests : Somewhere(r)' <=> Somewhere(r)
      BY <2>1 DEF Somewhere, Queued, IsHeld, Returning, Held
    <3>4. \A r \in Requests : /\ executed'[r] \in Nat /\ executed[r] \in Nat
                              /\ executed'[r] = IF r = cur THEN executed[r] + n ELSE executed[r]
      BY <2>1, <3>1, <3>2
    <3>5. breaks' = breaks + 1 /\ status' = status
      BY <2>1
    <3>6. ASSUME NEW r \in Requests
          PROVE  /\ Somewhere(r)' => status[r] = "sent"
                 /\ status[r] = "finished" => executed'[r] >= 1 /\ executed'[r] <= 1 + breaks'
                 /\ status[r] # "finished" => executed'[r] <= breaks'
      <4>1. /\ Somewhere(r) => status[r] = "sent"
            /\ status[r] = "finished" => executed[r] >= 1 /\ executed[r] <= 1 + breaks
            /\ status[r] # "finished" => executed[r] <= breaks
        BY DEF OnceInv, Counted
      <4>2. r = cur => status[r] # "finished"
        BY <2>3
      <4>3. Somewhere(r)' => status[r] = "sent"
        BY <3>3, <4>1
      <4>4. CASE r = cur
        <5>1. executed'[r] = executed[r] + n /\ executed[r] \in Nat
          BY <3>4, <4>4
        <5>2. executed'[r] <= breaks'
          BY <3>1, <3>5, <4>1, <4>2, <4>4, <5>1
        <5> QED
          BY <4>2, <4>3, <4>4, <5>2
      <4>5. CASE r # cur
        <5>1. executed'[r] = executed[r] /\ executed[r] \in Nat
          BY <3>4, <4>5
        <5> QED
          BY <3>1, <3>5, <4>1, <4>3, <5>1
      <4> QED
        BY <4>4, <4>5
    <3> QED
      BY <3>5, <3>6 DEF Counted
  <2> QED
    BY <2>2, <2>4 DEF OnceInv
<1>6. ASSUME NEW t \in Time, BucketLimit(t) PROVE OnceInv'
  <2>1. cur \in Requests /\ entries[bucket] = <<>> /\ <<cur>> \in Seq(Requests)
    BY <1>6 DEF BucketLimit, LimiterInv, NeverSentWhileLimited
  <2>2. RateLimit(bucket, t, <<cur>>)
    BY <1>6 DEF BucketLimit
  <2>3. PICK k, b0 : k = cur /\ b0 = bucket
    OBVIOUS
  <2>4. /\ \A c \in Buckets : Held(c)' = IF c = b0 THEN <<k>> ELSE Held(c)
        /\ Held(b0) = <<>> /\ returning' = returning
    BY <1>0, <2>1, <2>2, <2>3, HeldAfterLimit
  <2>5. /\ cur' = NoRequest /\ cur' \notin Requests
        /\ UNCHANGED <<queue, status, executed, breaks>>
    BY <1>6 DEF BucketLimit, Drop
  <2>6. \A r \in Requests : IsHeld(r)' <=> IsHeld(r) \/ r = k
    BY <1>0, <2>1, <2>3, <2>4, OnceSmall DEF IsHeld, OnceInv, InOnePlace
  <2>7. InOnePlace'
    <3>1. \A b \in Buckets : Once(Held(b)')
      BY <2>1, <2>3, <2>4, OnceSmall DEF OnceInv, InOnePlace
    <3>2. \A b \in Buckets : \A r \in Of(Held(b)') : BucketOf[r] = b
      BY <1>0, <2>1, <2>3, <2>4, OnceSmall DEF OnceInv, InOnePlace
    <3> QED
      BY <2>3, <2>4, <2>5, <2>6, <3>1, <3>2 DEF OnceInv, InOnePlace, Queued, Returning
  <2>8. Counted'
    BY <2>1, <2>3, <2>4, <2>5, <2>6 DEF OnceInv, Counted, Somewhere, Queued, Returning
  <2> QED
    BY <2>7, <2>8 DEF OnceInv
<1>7. CASE Finish
  <2>1. cur \in Requests /\ entries[bucket] = <<>> /\ <<>> \in Seq(Requests)
    BY <1>7 DEF Finish, LimiterInv, NeverSentWhileLimited
  <2>2. \A c \in Buckets : Held(c)' = Held(c)
    <3>1. CASE UNCHANGED entries
      BY <3>1 DEF Held
    <3>2. ASSUME NEW t \in Time, RateLimit(bucket, t, <<>>)
          PROVE  \A c \in Buckets : Held(c)' = Held(c)
      <4>1. PICK b0 : b0 = bucket
        OBVIOUS
      <4> QED
        BY <1>0, <2>1, <3>2, <4>1, HeldAfterLimit
    <3> QED
      BY <1>7, <3>1, <3>2 DEF Finish, limiter
  <2>3. /\ executed' = [executed EXCEPT ![cur] = @ + 1]
        /\ status' = [status EXCEPT ![cur] = "finished"]
        /\ cur' = NoRequest /\ cur' \notin Requests
        /\ UNCHANGED <<queue, returning, breaks>>
    BY <1>7 DEF Finish, Drop, limiter, bounds, RateLimit
  <2>4. \A r \in Requests : IsHeld(r)' <=> IsHeld(r)
    BY <1>0, <2>2 DEF IsHeld
  <2>5. InOnePlace'
    BY <2>2, <2>3, <2>4 DEF OnceInv, InOnePlace, Queued, Returning
  <2>6. status[cur] = "sent" /\ ~Queued(cur) /\ ~IsHeld(cur) /\ ~Returning(cur)
    BY <2>1 DEF OnceInv, InOnePlace, Counted, Somewhere
  <2>7. PICK k : k = cur
    OBVIOUS
  <2>8. \A r \in Requests : Somewhere(r)' => Somewhere(r) /\ r # k
    BY <2>3, <2>4, <2>6, <2>7 DEF Somewhere, Queued, Returning
  <2>9. \A r \in Requests : r # k => executed'[r] = executed[r] /\ status'[r] = status[r]
    BY <2>3, <2>7 DEF LimiterInv, TypeOK
  <2>10. executed'[k] = executed[k] + 1 /\ status'[k] = "finished" /\ executed[k] \in Nat
    BY <2>1, <2>3, <2>7 DEF LimiterInv, TypeOK
  <2>11. executed[k] <= breaks /\ breaks \in Nat /\ breaks' = breaks /\ k \in Requests
    BY <2>1, <2>3, <2>6, <2>7 DEF OnceInv, Counted, LimiterInv, TypeOK
  <2>12. Counted'
    BY <2>8, <2>9, <2>10, <2>11 DEF OnceInv, Counted
  <2> QED
    BY <2>5, <2>12 DEF OnceInv
<1>8. CASE Garble
  <2>1. /\ cur' = NoRequest /\ cur' \notin Requests
        /\ UNCHANGED <<queue, entries, returning, status, executed, breaks>>
    BY <1>8 DEF Garble, limiter, bounds
  <2> QED
    BY <2>1 DEF OnceInv, InOnePlace, Counted, Somewhere, Queued, IsHeld, Returning, Held
<1>9. ASSUME NEW b \in Buckets, NEW i \in DOMAIN timers[b], Fire(b, i) PROVE OnceInv'
  <2>1. PICK e \in Entry : entries[b] = <<e>>
    BY <1>9 DEF LimiterInv, Paired
  <2>2. Head(entries[b]) = e /\ Tail(entries[b]) = <<>> /\ Held(b) = e.held
    BY <2>1 DEF Held
  <2>3. PICK h : h = e.held
    OBVIOUS
  <2>4. /\ \A c \in Buckets : Held(c)' = IF c = b THEN <<>> ELSE Held(c)
        /\ returning' = returning \cup ({h} \ {<<>>})
        /\ UNCHANGED <<queue, cur, status, executed, breaks>>
    <3>1. entries' = [entries EXCEPT ![b] = <<>>]
      BY <1>9, <2>2 DEF Fire
    <3>2. \A c \in Buckets : entries'[c] = IF c = b THEN <<>> ELSE entries[c]
      BY <3>1 DEF LimiterInv, TypeOK
    <3> QED
      BY <1>9, <2>2, <2>3, <3>2 DEF Fire, Held, sender, bounds
  <2>5. Once(h) /\ \A r \in Of(h) : BucketOf[r] = b
    BY <2>2, <2>3 DEF OnceInv, InOnePlace
  <2>6. \A r \in Requests : IsHeld(r) <=> r \in Of(h) \/ IsHeld(r)'
    BY <1>0, <2>2, <2>3, <2>4, <2>5, OnceSmall DEF IsHeld
  <2>7. \A r \in Requests : r \in Of(h) => ~IsHeld(r)'
    BY <1>0, <2>4, <2>5, OnceSmall DEF IsHeld
  <2>8. \A r \in Requests : Returning(r)' <=> Returning(r) \/ r \in Of(h)
    BY <2>4, OnceSmall DEF Returning
  <2>9. InOnePlace'
    <3>1. \A c \in Buckets : Once(Held(c)') /\ \A r \in Of(Held(c)') : BucketOf[r] = c
      BY <2>4, OnceSmall DEF OnceInv, InOnePlace
    <3>2. \A r \in Requests : \A s, t \in returning' : r \in Of(s) \cap Of(t) => s = t
      BY <2>4, <2>6 DEF OnceInv, InOnePlace, Returning
    <3>3. \A s \in returning' : Once(s)
      BY <2>4, <2>5 DEF OnceInv, InOnePlace
    <3> QED
      BY <2>4, <2>6, <2>7, <2>8, <3>1, <3>2, <3>3 DEF OnceInv, InOnePlace, Queued
  <2>10. Counted'
    BY <2>4, <2>6, <2>8 DEF OnceInv, Counted, Somewhere, Queued
  <2> QED
    BY <2>9, <2>10 DEF OnceInv
<1>10. ASSUME NEW s \in returning, GiveBack(s) PROVE OnceInv'
  <2>1. s \in Seq(Requests) /\ s # <<>> /\ Once(s)
    BY DEF LimiterInv, TypeOK, OnceInv, InOnePlace
  <2>2. PICK x, rest : x = Head(s) /\ rest = Tail(s)
    OBVIOUS
  <2>3. x \in Requests /\ Once(rest) /\ x \notin Of(rest) /\ Of(s) = Of(rest) \cup {x}
    BY <2>1, <2>2, OnceTail
  <2>4. /\ queue' = Append(queue, x) /\ returning' = (returning \ {s}) \cup ({rest} \ {<<>>})
        /\ UNCHANGED <<cur, entries, status, executed, breaks>>
    BY <1>10, <2>2 DEF GiveBack, sender, bounds
  <2>5. Returning(x) /\ ~Queued(x)
    BY <2>3 DEF Returning, OnceInv, InOnePlace
  <2>6. Once(queue') /\ Of(queue') = Of(queue) \cup {x}
    BY <2>3, <2>4, <2>5, OnceAppend DEF Queued, OnceInv, InOnePlace, LimiterInv, TypeOK
  <2>7. \A r \in Requests : Queued(r)' <=> Queued(r) \/ r = x
    BY <2>6 DEF Queued
  <2>8. \A r \in Requests : Returning(r)' => Returning(r) /\ r # x
    <3> SUFFICES ASSUME NEW r \in Requests, NEW u \in returning', r \in Of(u)
                 PROVE  Returning(r) /\ r # x
      BY DEF Returning
    <3>1. CASE u \in returning /\ u # s
      BY <2>3, <3>1 DEF Returning, OnceInv, InOnePlace
    <3>2. CASE u = rest
      BY <2>3, <3>2 DEF Returning
    <3> QED
      BY <2>4, <3>1, <3>2
  <2>9. InOnePlace'
    <3>1. \A r \in Requests : \A u, v \in returning' : r \in Of(u) \cap Of(v) => u = v
      <4> SUFFICES ASSUME NEW r \in Requests, NEW u \in returning', NEW v \in returning',
                          r \in Of(u), r \in Of(v)
                   PROVE  u = v
        OBVIOUS
      <4>1. CASE u = rest /\ v = rest
        BY <4>1
      <4>2. CASE u = rest /\ v \in returning \ {s}
        BY <2>3, <4>2 DEF OnceInv, InOnePlace
      <4>3. CASE v = rest /\ u \in returning \ {s}
        BY <2>3, <4>3 DEF OnceInv, InOnePlace
      <4>4. CASE u \in returning /\ v \in returning
        BY <4>4 DEF OnceInv, InOnePlace
      <4> QED
        BY <2>4, <4>1, <4>2, <4>3, <4>4
    <3>2. \A u \in returning' : Once(u)
      BY <2>3, <2>4 DEF OnceInv, InOnePlace
    <3>3. \A r \in Requests : IsHeld(r)' <=> IsHeld(r)
      BY <2>4 DEF IsHeld, Held
    <3>4. \A b \in Buckets : Once(Held(b)') /\ \A r \in Of(Held(b)') : BucketOf[r] = b
      BY <2>4 DEF Held, OnceInv, InOnePlace
    <3> QED
      BY <2>4, <2>5, <2>6, <2>7, <2>8, <3>1, <3>2, <3>3, <3>4 DEF OnceInv, InOnePlace
  <2>10. Counted'
    <3>1. \A r \in Requests : Somewhere(r)' => Somewhere(r)
      BY <2>4, <2>5, <2>7, <2>8 DEF Somewhere, IsHeld, Held
    <3> QED
      BY <2>4, <3>1 DEF OnceInv, Counted
  <2> QED
    BY <2>9, <2>10 DEF OnceInv
<1> QED
  BY <1>1, <1>2, <1>3, <1>4, <1>5, <1>6, <1>7, <1>8, <1>9, <1>10
     DEF Next, Send, FireAny, GiveBackAny

(* A request that was answered was carried out, and as often again as the    *)
(* connection broke at most: no queue, entry or timer ever holds it twice.   *)
THEOREM ExecutedOnceAlways == Spec => []ExecutedOnceUnlessBroken
<1>1. Init => OnceInv
  <2> SUFFICES ASSUME Init PROVE OnceInv
    OBVIOUS
  <2>1. /\ \A b \in Buckets : Held(b) = <<>>
        /\ queue = <<>> /\ returning = {} /\ cur \notin Requests /\ breaks = 0
        /\ \A r \in Requests : executed[r] = 0 /\ status[r] = "new" /\ BucketOf[r] \in Buckets
    BY HttpAssumption DEF Init, Held
  <2>2. \A r \in Requests : ~Somewhere(r)
    BY <2>1, OnceSmall DEF Somewhere, Queued, IsHeld, Returning
  <2>3. InOnePlace
    BY <2>1, <2>2, OnceSmall DEF InOnePlace, Somewhere
  <2>4. Counted
    BY <2>1, <2>2 DEF Counted
  <2> QED
    BY <2>3, <2>4 DEF OnceInv
<1>2. LimiterInv /\ OnceInv => ExecutedOnceUnlessBroken
  BY DEF LimiterInv, TypeOK, OnceInv, Counted, ExecutedOnceUnlessBroken
<1> QED
  BY <1>1, <1>2, LimiterHolds, OnceInductive, PTL DEF Spec
-----------------------------------------------------------------------------
(* The tables of requests and calls: the first number in a route is the id   *)
(* of the resource that the request is about; only an invite code can hold   *)
(* another one.                                                              *)

CallNumbers == Calls!Kinds \ {"Code"}

NoneRequests == {"get_voice_regions", "current_guilds", "create_dm", "create_group_dm",
    "get_invite", "delete_invite"}
WebhookRequests == {"get_webhook", "get_webhook_token", "execute_webhook", "modify_webhook"}
GuildRequests == {"get_guild", "add_role", "remove_role", "create_role", "delete_role",
    "modify_role", "kick_member", "ban_member", "modify_member", "change_my_nick", "unban_member",
    "create_text_channel", "create_voice_channel", "create_channel_catagory", "delete_emoji",
    "modify_emoji", "leave_guild", "modify_guild", "modify_channel_positions", "add_guild_member",
    "list_guild_members", "get_guild_integrations", "create_guild_integration",
    "get_guild_webhooks", "get_audit_log", "get_guild_channels"}
ChannelRequests == {"send_message", "send_guild_message", "send_message_with_file",
    "delete_message", "edit_message", "get_messages", "get_guild_messages", "delete_message_bulk",
    "add_reaction", "delete_own_reaction", "delete_user_reaction", "get_reactions",
    "delete_all_reactions", "delete_all_reactions_emoji", "typing_start",
    "delete_channel_permission", "delete_channel", "add_pinned_msg", "remove_pinned_msg",
    "edit_channel_permissions", "create_channel_invite", "get_message", "get_channel_webhooks",
    "create_webhook"}

About(q) ==
    IF q \in NoneRequests THEN "None"
    ELSE IF q \in WebhookRequests THEN "WebhookId"
    ELSE IF q \in GuildRequests THEN "GuildId" ELSE "ChannelId"

(* The first number in t is of that kind; with "None", t has no number but   *)
(* for the one in an invite code.                                            *)
Leads(t, kind) ==
    /\ DOMAIN t \subseteq Nat
    /\ IF kind = "None"
       THEN /\ \A i \in DOMAIN t : t[i] \notin CallNumbers
            /\ \A i, j \in DOMAIN t : t[i] = "Code" /\ t[j] = "Code" => i = j
       ELSE /\ kind \in CallNumbers
            /\ \E n \in DOMAIN t :
                  t[n] = kind /\ \A i \in DOMAIN t : i < n => t[i] \notin Calls!Kinds

(* What a bucket belongs to: itself, or to no guild, channel or webhook.     *)
Belongs(b) == IF b[1] \in {"none", "digits"} THEN <<"none">> ELSE b

(* get_major_param_id finds the number that leads. *)
LEMMA LeaderIsMajor ==
    ASSUME NEW t, NEW kind, NEW id, NEW code \in Nat, Leads(t, kind)
    PROVE  Belongs(Calls!MajorParam(t, id, code)) = IF kind = "None" THEN <<"none">> ELSE <<kind, id>>
<1> DEFINE nums == Calls!Numbered(t, code)
<1>1. CASE kind = "None"
  <2>1. \A i \in nums : t[i] = "Code" /\ i \in Nat
    BY <1>1 DEF Leads, Calls!Numbered, CallNumbers
  <2>2. \A i, j \in nums : i = j
    BY <1>1, <2>1 DEF Leads, Calls!Numbered
  <2>3. CASE nums = {}
    BY <1>1, <2>3 DEF Calls!MajorParam, Belongs
  <2>4. CASE nums # {}
    <3>1. PICK n \in nums : nums = {n}
      BY <2>2, <2>4
    <3>2. Calls!Min(nums) = n
      BY <2>1, <3>1 DEF Calls!Min
    <3>3. Calls!MajorParam(t, id, code) = <<"digits", code>>
      BY <2>1, <2>4, <3>1, <3>2 DEF Calls!MajorParam, Calls!IdOf
    <3> QED
      BY <1>1, <3>3 DEF Belongs
  <2> QED
    BY <2>3, <2>4
<1>2. CASE kind # "None"
  <2>1. PICK n \in DOMAIN t : t[n] = kind /\ \A i \in DOMAIN t : i < n => t[i] \notin Calls!Kinds
    BY <1>2 DEF Leads
  <2>2. kind \in CallNumbers /\ DOMAIN t \subseteq Nat
    BY <1>2 DEF Leads
  <2>3. n \in nums /\ \A i \in nums : n <= i
    BY <2>1, <2>2 DEF Calls!Numbered, CallNumbers
  <2>4. nums \subseteq Nat
    BY <2>2 DEF Calls!Numbered
  <2>5. Calls!Min(nums) = n
    BY <2>3, <2>4 DEF Calls!Min
  <2>6. Calls!MajorParam(t, id, code) = <<kind, id>>
    BY <2>1, <2>2, <2>3, <2>5 DEF Calls!MajorParam, Calls!IdOf, CallNumbers
  <2>7. kind \notin {"none", "digits"}
    BY <2>2 DEF CallNumbers, Calls!Kinds
  <2> QED
    BY <1>2, <2>6, <2>7 DEF Belongs
<1> QED
  BY <1>1, <1>2

Long(t) == DOMAIN t \subseteq Nat \ {0} /\ 2 \in DOMAIN t

LEMMA TuplesAreLong ==
    /\ \A a, b : Long(<<a, b>>)
    /\ \A a, b, c : Long(<<a, b, c>>)
    /\ \A a, b, c, d : Long(<<a, b, c, d>>)
    /\ \A a, b, c, d, e : Long(<<a, b, c, d, e>>)
    /\ \A a, b, c, d, e, f : Long(<<a, b, c, d, e, f>>)
    /\ \A a, b, c, d, e, f, g : Long(<<a, b, c, d, e, f, g>>)
<1>1. \A a, b : Long(<<a, b>>)
  BY DEF Long
<1>2. \A a, b, c : Long(<<a, b, c>>)
  BY DEF Long
<1>3. \A a, b, c, d : Long(<<a, b, c, d>>)
  BY DEF Long
<1>4. \A a, b, c, d, e : Long(<<a, b, c, d, e>>)
  BY DEF Long
<1>5. \A a, b, c, d, e, f : Long(<<a, b, c, d, e, f>>)
  BY DEF Long
<1>6. \A a, b, c, d, e, f, g : Long(<<a, b, c, d, e, f, g>>)
  BY DEF Long
<1> QED
  BY <1>1, <1>2, <1>3, <1>4, <1>5, <1>6

LEMMA SecondLeads ==
    ASSUME NEW t, Long(t), t[1] \notin Calls!Kinds, t[2] \in CallNumbers
    PROVE  Leads(t, t[2])
<1>1. \A i \in DOMAIN t : i < 2 => i = 1
  BY DEF Long
<1>2. t[2] # "None"
  BY DEF CallNumbers, Calls!Kinds
<1>3. 2 \in DOMAIN t /\ \A i \in DOMAIN t : i < 2 => t[i] \notin Calls!Kinds
  BY <1>1 DEF Long
<1>4. DOMAIN t \subseteq Nat
  BY DEF Long
<1> QED
  BY <1>2, <1>3, <1>4 DEF Leads

RoutesLead(f) == \A q \in DOMAIN f : Leads(f[q].path, About(q))

LEMMA JoinedLead ==
    ASSUME NEW f, NEW g, RoutesLead(f), RoutesLead(g)
    PROVE  RoutesLead(Calls!++(f, g))
BY DEF RoutesLead, Calls!++

LEMMA MemberRoutesLead == RoutesLead(Calls!MemberRoutes)
<1> SUFFICES ASSUME NEW q \in DOMAIN Calls!MemberRoutes
             PROVE  Leads(Calls!MemberRoutes[q].path, About(q))
  BY DEF RoutesLead
<1> DEFINE t == Calls!MemberRoutes[q].path
<1>1. Long(t)
  BY TuplesAreLong DEF Calls!MemberRoutes, Calls!Get, Calls!Put, Calls!Delete, Calls!Route,
    Calls!Member, Calls!Messages
<1>2. t[1] \notin Calls!Kinds
  BY DEF Calls!MemberRoutes, Calls!Get, Calls!Put, Calls!Delete, Calls!Route, Calls!Member,
         Calls!Messages, Calls!Kinds
<1>3. t[2] = About(q) /\ t[2] \in {"GuildId", "ChannelId", "WebhookId"}
  BY DEF Calls!MemberRoutes, Calls!Get, Calls!Put, Calls!Delete, Calls!Route, Calls!Member,
         Calls!Messages, About, NoneRequests, GuildRequests, WebhookRequests
<1> HIDE DEF t
<1>4. Leads(t, t[2])
  BY <1>1, <1>2, <1>3, SecondLeads DEF CallNumbers, Calls!Kinds
<1> QED
  BY <1>3, <1>4 DEF t

LEMMA ContentRoutesLead == RoutesLead(Calls!ContentRoutes)
<1> SUFFICES ASSUME NEW q \in DOMAIN Calls!ContentRoutes
             PROVE  Leads(Calls!ContentRoutes[q].path, About(q))
  BY DEF RoutesLead
<1> DEFINE t == Calls!ContentRoutes[q].path
<1>1. Long(t)
  BY TuplesAreLong DEF Calls!ContentRoutes, Calls!Delete, Calls!Route, Calls!Member, Calls!Messages,
    Calls!Message, Calls!Channels
<1>2. t[1] \notin Calls!Kinds
  BY DEF Calls!ContentRoutes, Calls!Delete, Calls!Route, Calls!Member, Calls!Messages,
         Calls!Message, Calls!Channels, Calls!Kinds
<1>3. t[2] = About(q) /\ t[2] \in {"GuildId", "ChannelId", "WebhookId"}
  BY DEF Calls!ContentRoutes, Calls!Delete, Calls!Route, Calls!Member, Calls!Messages,
         Calls!Message, Calls!Channels, About, NoneRequests, GuildRequests, WebhookRequests
<1> HIDE DEF t
<1>4. Leads(t, t[2])
  BY <1>1, <1>2, <1>3, SecondLeads DEF CallNumbers, Calls!Kinds
<1> QED
  BY <1>3, <1>4 DEF t

LEMMA ReactionRoutesLead == RoutesLead(Calls!ReactionRoutes)
<1> SUFFICES ASSUME NEW q \in DOMAIN Calls!ReactionRoutes
             PROVE  Leads(Calls!ReactionRoutes[q].path, About(q))
  BY DEF RoutesLead
<1> DEFINE t == Calls!ReactionRoutes[q].path
<1>1. Long(t)
  BY TuplesAreLong DEF Calls!ReactionRoutes, Calls!Get, Calls!Put, Calls!Delete, Calls!Route
<1>2. t[1] \notin Calls!Kinds
  BY DEF Calls!ReactionRoutes, Calls!Get, Calls!Put, Calls!Delete, Calls!Route, Calls!Kinds
<1>3. t[2] = About(q) /\ t[2] \in {"GuildId", "ChannelId", "WebhookId"}
  BY DEF Calls!ReactionRoutes, Calls!Get, Calls!Put, Calls!Delete, Calls!Route, About, NoneRequests,
         GuildRequests, WebhookRequests
<1> HIDE DEF t
<1>4. Leads(t, t[2])
  BY <1>1, <1>2, <1>3, SecondLeads DEF CallNumbers, Calls!Kinds
<1> QED
  BY <1>3, <1>4 DEF t

LEMMA ChannelRoutesLead == RoutesLead(Calls!ChannelRoutes)
<1> SUFFICES ASSUME NEW q \in DOMAIN Calls!ChannelRoutes
             PROVE  Leads(Calls!ChannelRoutes[q].path, About(q))
  BY DEF RoutesLead
<1> DEFINE t == Calls!ChannelRoutes[q].path
<1>1. Long(t)
  BY TuplesAreLong DEF Calls!ChannelRoutes, Calls!Put, Calls!Delete, Calls!Route, Calls!Member,
    Calls!Channels
<1>2. t[1] \notin Calls!Kinds
  BY DEF Calls!ChannelRoutes, Calls!Put, Calls!Delete, Calls!Route, Calls!Member, Calls!Channels,
         Calls!Kinds
<1>3. t[2] = About(q) /\ t[2] \in {"GuildId", "ChannelId", "WebhookId"}
  BY DEF Calls!ChannelRoutes, Calls!Put, Calls!Delete, Calls!Route, Calls!Member, Calls!Channels,
         About, NoneRequests, GuildRequests, WebhookRequests
<1> HIDE DEF t
<1>4. Leads(t, t[2])
  BY <1>1, <1>2, <1>3, SecondLeads DEF CallNumbers, Calls!Kinds
<1> QED
  BY <1>3, <1>4 DEF t

LEMMA WebhookRoutesLead == RoutesLead(Calls!WebhookRoutes)
<1> SUFFICES ASSUME NEW q \in DOMAIN Calls!WebhookRoutes
             PROVE  Leads(Calls!WebhookRoutes[q].path, About(q))
  BY DEF RoutesLead
<1> DEFINE t == Calls!WebhookRoutes[q].path
<1>1. Long(t)
  BY TuplesAreLong DEF Calls!WebhookRoutes, Calls!Get, Calls!Route, Calls!Channels
<1>2. t[1] \notin Calls!Kinds
  BY DEF Calls!WebhookRoutes, Calls!Get, Calls!Route, Calls!Channels, Calls!Kinds
<1>3. t[2] = About(q) /\ t[2] \in {"GuildId", "ChannelId", "WebhookId"}
  BY DEF Calls!WebhookRoutes, Calls!Get, Calls!Route, Calls!Channels, About, NoneRequests,
         GuildRequests, WebhookRequests
<1> HIDE DEF t
<1>4. Leads(t, t[2])
  BY <1>1, <1>2, <1>3, SecondLeads DEF CallNumbers, Calls!Kinds
<1> QED
  BY <1>3, <1>4 DEF t

LEMMA NobodyLeads ==
    /\ Leads(<<"voice", "regions">>, "None") /\ Leads(<<"users", "@me", "guilds">>, "None")
    /\ Leads(<<"users", "@me", "channels">>, "None") /\ Leads(<<"invites", "Code">>, "None")
    /\ Leads(<<>>, "None") /\ Leads(<<"Code">>, "None")
BY DEF Leads, CallNumbers, Calls!Kinds

LEMMA GuildRoutesLead == RoutesLead(Calls!GuildRoutes)
<1> SUFFICES ASSUME NEW q \in DOMAIN Calls!GuildRoutes
             PROVE  Leads(Calls!GuildRoutes[q].path, About(q))
  BY DEF RoutesLead
<1> DEFINE t == Calls!GuildRoutes[q].path
<1>1. CASE q \in {"delete_emoji", "modify_emoji", "delete_message_bulk"}
  <2>1. Long(t)
    BY <1>1, TuplesAreLong DEF Calls!GuildRoutes, Calls!Delete, Calls!Route
  <2>2. t[1] \notin Calls!Kinds
    BY <1>1 DEF Calls!GuildRoutes, Calls!Delete, Calls!Route, Calls!Kinds
  <2>3. t[2] = About(q) /\ t[2] \in {"GuildId", "ChannelId"}
    BY <1>1 DEF Calls!GuildRoutes, Calls!Delete, Calls!Route, About, NoneRequests, GuildRequests,
                WebhookRequests
  <2> HIDE DEF t
  <2>4. Leads(t, t[2])
    BY <2>1, <2>2, <2>3, SecondLeads DEF CallNumbers, Calls!Kinds
  <2> QED
    BY <2>3, <2>4 DEF t
<1>2. CASE q = "leave_guild"
  <2>1. t = <<"@me", "guilds", "GuildId">> /\ About(q) = "GuildId"
    BY <1>2 DEF Calls!GuildRoutes, Calls!Delete, Calls!Route, About, NoneRequests, GuildRequests,
                WebhookRequests
  <2>2. DOMAIN t = 1..3 /\ t[1] = "@me" /\ t[2] = "guilds" /\ t[3] = "GuildId"
    BY <2>1
  <2>3. \A i \in DOMAIN t : i < 3 => t[i] \notin Calls!Kinds
    <3>1. \A i \in 1..3 : i < 3 => i \in {1, 2}
      OBVIOUS
    <3> QED
      BY <2>2, <3>1 DEF Calls!Kinds
  <2>4. "GuildId" \in CallNumbers
    BY DEF CallNumbers, Calls!Kinds
  <2> HIDE DEF t
  <2> QED
    BY <2>1, <2>2, <2>3, <2>4 DEF Leads, t
<1>3. CASE q \in {"get_voice_regions", "current_guilds"}
  <2>1. q = "get_voice_regions" => t = <<"voice", "regions">>
    BY DEF Calls!GuildRoutes, Calls!Get, Calls!Route
  <2>2. q = "current_guilds" => t = <<"users", "@me", "guilds">>
    BY DEF Calls!GuildRoutes, Calls!Get, Calls!Route
  <2>3. About(q) = "None"
    BY <1>3 DEF About, NoneRequests
  <2> HIDE DEF t
  <2>4. Leads(t, "None")
    BY <1>3, <2>1, <2>2, NobodyLeads
  <2> QED
    BY <2>3, <2>4 DEF t
<1> QED
  BY <1>1, <1>2, <1>3 DEF Calls!GuildRoutes

LEMMA InviteRoutesLead == RoutesLead(Calls!InviteRoutes)
<1> SUFFICES ASSUME NEW q \in DOMAIN Calls!InviteRoutes
             PROVE  Leads(Calls!InviteRoutes[q].path, About(q))
  BY DEF RoutesLead
<1> DEFINE t == Calls!InviteRoutes[q].path
<1>1. CASE q \in NoneRequests
  <2>1. q \in {"create_dm", "create_group_dm"} => t = <<"users", "@me", "channels">>
    BY DEF Calls!InviteRoutes, Calls!Route
  <2>2. q \in {"get_invite", "delete_invite"} => t = <<"invites", "Code">>
    BY DEF Calls!InviteRoutes, Calls!Delete, Calls!Route
  <2>3. q \in {"create_dm", "create_group_dm", "get_invite", "delete_invite"}
    BY <1>1 DEF Calls!InviteRoutes, NoneRequests
  <2>4. About(q) = "None"
    BY <1>1 DEF About
  <2> HIDE DEF t
  <2>5. Leads(t, "None")
    BY <2>1, <2>2, <2>3, NobodyLeads
  <2> QED
    BY <2>4, <2>5 DEF t
<1>2. CASE q \notin NoneRequests
  <2>1. Long(t)
    BY <1>2, TuplesAreLong DEF Calls!InviteRoutes, Calls!Get, Calls!Delete, Calls!Route,
                               Calls!Message, NoneRequests
  <2>2. t[1] \notin Calls!Kinds
    BY <1>2 DEF Calls!InviteRoutes, Calls!Get, Calls!Delete, Calls!Route, Calls!Message,
                Calls!Kinds, NoneRequests
  <2>3. t[2] = About(q) /\ t[2] \in {"GuildId", "ChannelId"}
    BY <1>2 DEF Calls!InviteRoutes, Calls!Get, Calls!Delete, Calls!Route, Calls!Message, About,
                NoneRequests, GuildRequests, WebhookRequests
  <2> HIDE DEF t
  <2>4. Leads(t, t[2])
    BY <2>1, <2>2, <2>3, SecondLeads DEF CallNumbers, Calls!Kinds
  <2> QED
    BY <2>3, <2>4 DEF t
<1> QED
  BY <1>1, <1>2

LEMMA EveryRouteLeads == RoutesLead(Calls!Routes)
BY MemberRoutesLead, ContentRoutesLead, GuildRoutesLead, ReactionRoutesLead, ChannelRoutesLead,
   InviteRoutesLead, WebhookRoutesLead, JoinedLead DEF Calls!Routes

LEMMA RouteNames ==
    DOMAIN Calls!Routes =
        DOMAIN Calls!MemberRoutes \cup DOMAIN Calls!ContentRoutes \cup DOMAIN Calls!GuildRoutes
        \cup DOMAIN Calls!ReactionRoutes \cup DOMAIN Calls!ChannelRoutes
        \cup DOMAIN Calls!InviteRoutes \cup DOMAIN Calls!WebhookRoutes
BY DEF Calls!Routes, Calls!++

(* The calls of the cached library ask for a request that is about the same. *)
CallsLead(f) ==
    \A m \in DOMAIN f : f[m].request \in DOMAIN Calls!Routes /\ About(f[m].request) = f[m].about

LEMMA JoinedCallsLead ==
    ASSUME NEW f, NEW g, CallsLead(f), CallsLead(g)
    PROVE  CallsLead(Calls!++(f, g))
BY DEF CallsLead, Calls!++

LEMMA RequestsAreRoutes ==
    /\ NoneRequests \subseteq DOMAIN Calls!Routes /\ WebhookRequests \subseteq DOMAIN Calls!Routes
    /\ GuildRequests \subseteq DOMAIN Calls!Routes /\ ChannelRequests \subseteq DOMAIN Calls!Routes
<1>1. NoneRequests \subseteq DOMAIN Calls!Routes
  BY RouteNames DEF NoneRequests, Calls!MemberRoutes, Calls!ContentRoutes, Calls!GuildRoutes,
                     Calls!ReactionRoutes, Calls!ChannelRoutes, Calls!InviteRoutes,
                     Calls!WebhookRoutes
<1>2. WebhookRequests \subseteq DOMAIN Calls!Routes
  BY RouteNames DEF WebhookRequests, Calls!MemberRoutes, Calls!ContentRoutes, Calls!GuildRoutes,
                     Calls!ReactionRoutes, Calls!ChannelRoutes, Calls!InviteRoutes,
                     Calls!WebhookRoutes
<1>3. GuildRequests \subseteq DOMAIN Calls!Routes
  BY RouteNames DEF GuildRequests, Calls!MemberRoutes, Calls!ContentRoutes, Calls!GuildRoutes,
                     Calls!ReactionRoutes, Calls!ChannelRoutes, Calls!InviteRoutes,
                     Calls!WebhookRoutes
<1>4. ChannelRequests \subseteq DOMAIN Calls!Routes
  BY RouteNames DEF ChannelRequests, Calls!MemberRoutes, Calls!ContentRoutes, Calls!GuildRoutes,
                     Calls!ReactionRoutes, Calls!ChannelRoutes, Calls!InviteRoutes,
                     Calls!WebhookRoutes
<1> QED
  BY <1>1, <1>2, <1>3, <1>4

LEMMA CallLeads ==
    ASSUME NEW c,
           \/ c.about = "None" /\ c.request \in NoneRequests
           \/ c.about = "WebhookId" /\ c.request \in WebhookRequests
           \/ c.about = "GuildId" /\ c.request \in GuildRequests
           \/ c.about = "ChannelId" /\ c.request \in ChannelRequests
    PROVE  c.request \in DOMAIN Calls!Routes /\ About(c.request) = c.about
<1>1. c.request \in DOMAIN Calls!Routes
  BY RequestsAreRoutes
<1>2. /\ NoneRequests \cap (WebhookRequests \cup GuildRequests) = {}
      /\ WebhookRequests \cap GuildRequests = {}
  BY DEF NoneRequests, WebhookRequests, GuildRequests
<1>3. ChannelRequests \cap (NoneRequests \cup WebhookRequests \cup GuildRequests) = {}
  BY DEF NoneRequests, WebhookRequests, GuildRequests, ChannelRequests
<1> QED
  BY <1>1, <1>2, <1>3 DEF About

LEMMA SameLead ==
    /\ \A names : names \subseteq NoneRequests => CallsLead(Calls!Same("None", names))
    /\ \A names : names \subseteq WebhookRequests => CallsLead(Calls!Same("WebhookId", names))
    /\ \A names : names \subseteq GuildRequests => CallsLead(Calls!Same("GuildId", names))
    /\ \A names : names \subseteq ChannelRequests => CallsLead(Calls!Same("ChannelId", names))
BY CallLeads DEF CallsLead, Calls!Same, Calls!Call

LEMMA AllLead ==
    /\ \A request, names : request \in NoneRequests =>
           CallsLead(Calls!All("None", request, names))
    /\ \A request, names : request \in WebhookRequests =>
           CallsLead(Calls!All("WebhookId", request, names))
    /\ \A request, names : request \in GuildRequests =>
           CallsLead(Calls!All("GuildId", request, names))
    /\ \A request, names : request \in ChannelRequests =>
           CallsLead(Calls!All("ChannelId", request, names))
BY CallLeads DEF CallsLead, Calls!All, Calls!Call

LEMMA MemberCallsLead == CallsLead(Calls!MemberCalls)
BY SameLead, AllLead, JoinedCallsLead DEF Calls!MemberCalls, GuildRequests, ChannelRequests

LEMMA ContentCallsLead == CallsLead(Calls!ContentCalls)
BY SameLead, AllLead, JoinedCallsLead DEF Calls!ContentCalls, GuildRequests, ChannelRequests

LEMMA ReactionCallsLead == CallsLead(Calls!ReactionCalls)
BY SameLead, AllLead, JoinedCallsLead DEF Calls!ReactionCalls, NoneRequests, GuildRequests,
   ChannelRequests

LEMMA WebhookCallsLead == CallsLead(Calls!WebhookCalls)
BY SameLead, AllLead, JoinedCallsLead DEF Calls!WebhookCalls, NoneRequests, WebhookRequests,
   GuildRequests, ChannelRequests

LEMMA GuildMessageCallsLead == CallsLead(Calls!GuildMessageCalls)
BY SameLead, AllLead, JoinedCallsLead DEF Calls!GuildMessageCalls, ChannelRequests

LEMMA GuildPageCallsLead == CallsLead(Calls!GuildPageCalls)
BY SameLead, AllLead, JoinedCallsLead DEF Calls!GuildPageCalls, ChannelRequests

LEMMA TemplateCallsLead == CallsLead(Calls!TemplateCalls)
BY SameLead, AllLead, JoinedCallsLead DEF Calls!TemplateCalls, NoneRequests, WebhookRequests,
   GuildRequests

LEMMA WebhookClientCallsLead == CallsLead(Calls!WebhookClientCalls)
BY SameLead, AllLead, JoinedCallsLead DEF Calls!WebhookClientCalls, WebhookRequests

LEMMA EveryCallLeads == CallsLead(Calls!CachedCalls)
BY MemberCallsLead, ContentCallsLead, ReactionCallsLead, WebhookCallsLead, GuildMessageCallsLead,
   GuildPageCallsLead, TemplateCallsLead, WebhookClientCallsLead, JoinedCallsLead
   DEF Calls!CachedCalls

(* The calls of the cacheless library pass the id of what they are about     *)
(* first.                                                                    *)
ArgsLead(f) == \A m \in DOMAIN f : Leads(f[m].args, f[m].about)

LEMMA JoinedArgsLead ==
    ASSUME NEW f, NEW g, ArgsLead(f), ArgsLead(g)
    PROVE  ArgsLead(Calls!++(f, g))
BY DEF ArgsLead, Calls!++

Some(t) == DOMAIN t \subseteq Nat \ {0} /\ 1 \in DOMAIN t

LEMMA TuplesAreSome ==
    /\ \A a : Some(<<a>>)
    /\ \A a, b : Some(<<a, b>>)
    /\ \A a, b, c : Some(<<a, b, c>>)
    /\ \A a, b, c, d : Some(<<a, b, c, d>>)
<1>1. \A a : Some(<<a>>)
  BY DEF Some
<1>2. \A a, b : Some(<<a, b>>)
  BY DEF Some
<1>3. \A a, b, c : Some(<<a, b, c>>)
  BY DEF Some
<1>4. \A a, b, c, d : Some(<<a, b, c, d>>)
  BY DEF Some
<1> QED
  BY <1>1, <1>2, <1>3, <1>4

LEMMA FirstLeads ==
    ASSUME NEW t, Some(t), t[1] \in CallNumbers
    PROVE  Leads(t, t[1])
<1>1. \A i \in DOMAIN t : ~(i < 1)
  BY DEF Some
<1>2. t[1] # "None" /\ DOMAIN t \subseteq Nat /\ 1 \in DOMAIN t
  BY DEF CallNumbers, Calls!Kinds, Some
<1> QED
  BY <1>1, <1>2 DEF Leads

LEMMA IdsLead ==
    /\ Leads(Calls!G, "GuildId") /\ Leads(Calls!GU, "GuildId") /\ Leads(Calls!GE, "GuildId")
    /\ Leads(Calls!C, "ChannelId") /\ Leads(Calls!CM, "ChannelId") /\ Leads(Calls!CMR, "ChannelId")
    /\ Leads(<<"GuildId", "UserId", "RoleId">>, "GuildId")
    /\ Leads(<<"GuildId", "RoleId">>, "GuildId")
    /\ Leads(<<"ChannelId", "MessageId", "Reaction", "UserId">>, "ChannelId")
    /\ Leads(<<"ChannelId", "OverwriteId">>, "ChannelId")
    /\ Leads(<<"WebhookId">>, "WebhookId") /\ Leads(<<"WebhookId", "Token">>, "WebhookId")
<1>1. {"GuildId", "ChannelId", "WebhookId"} \subseteq CallNumbers
  BY DEF CallNumbers, Calls!Kinds
<1> DEFINE OK(t, kind) == Some(t) /\ t[1] = kind /\ kind \in CallNumbers
<1>2. \A t, kind : OK(t, kind) => Leads(t, kind)
  BY FirstLeads
<1>3. OK(Calls!G, "GuildId") /\ OK(Calls!GU, "GuildId") /\ OK(Calls!GE, "GuildId")
  BY <1>1, TuplesAreSome DEF Calls!G, Calls!GU, Calls!GE
<1>4. OK(Calls!C, "ChannelId") /\ OK(Calls!CM, "ChannelId") /\ OK(Calls!CMR, "ChannelId")
  BY <1>1, TuplesAreSome DEF Calls!C, Calls!CM, Calls!CMR
<1>5. /\ OK(<<"GuildId", "UserId", "RoleId">>, "GuildId") /\ OK(<<"GuildId", "RoleId">>, "GuildId")
      /\ OK(<<"ChannelId", "MessageId", "Reaction", "UserId">>, "ChannelId")
      /\ OK(<<"ChannelId", "OverwriteId">>, "ChannelId")
      /\ OK(<<"WebhookId">>, "WebhookId") /\ OK(<<"WebhookId", "Token">>, "WebhookId")
  BY <1>1, TuplesAreSome
<1> HIDE DEF OK
<1> QED
  BY <1>2, <1>3, <1>4, <1>5

LEMMA PassedLead ==
    ASSUME NEW about, NEW args, Leads(args, about)
    PROVE  /\ \A names : ArgsLead(Calls!PassAll(names, about, args))
           /\ \A request, names : ArgsLead(Calls!PassAs(request, names, about, args))
BY DEF ArgsLead, Calls!PassAll, Calls!PassAs, Calls!Pass

LEMMA CachelessMemberCallsLead == ArgsLead(Calls!CachelessMemberCalls)
BY IdsLead, NobodyLeads, PassedLead, JoinedArgsLead DEF Calls!CachelessMemberCalls

LEMMA CachelessContentCallsLead == ArgsLead(Calls!CachelessContentCalls)
BY IdsLead, NobodyLeads, PassedLead, JoinedArgsLead DEF Calls!CachelessContentCalls

LEMMA CachelessReactionCallsLead == ArgsLead(Calls!CachelessReactionCalls)
BY IdsLead, NobodyLeads, PassedLead, JoinedArgsLead DEF Calls!CachelessReactionCalls

LEMMA CachelessWebhookCallsLead == ArgsLead(Calls!CachelessWebhookCalls)
BY IdsLead, NobodyLeads, PassedLead, JoinedArgsLead DEF Calls!CachelessWebhookCalls

LEMMA CachelessTemplateCallsLead == ArgsLead(Calls!CachelessTemplateCalls)
BY IdsLead, NobodyLeads, PassedLead, JoinedArgsLead DEF Calls!CachelessTemplateCalls

LEMMA EveryArgsLead == ArgsLead(Calls!CachelessCalls)
BY CachelessMemberCallsLead, CachelessContentCallsLead, CachelessReactionCallsLead,
   CachelessWebhookCallsLead, CachelessTemplateCallsLead, JoinedArgsLead DEF Calls!CachelessCalls

(* The bucket that is cut out of the path of a call is what the call is      *)
(* about, or belongs to nothing when the call is about nothing.              *)
LEMMA BucketIsResource ==
    ASSUME NEW l \in {"cached", "cacheless"}, NEW i, NEW c \in Calls!CallsOf(l, i)
    PROVE  Belongs(Calls!Bucket(l, c)) = Calls!Resource(l, c)
<1>1. c.method \in DOMAIN Calls!MethodsOf(l) /\ c.code \in Nat
  <2>1. c.method \in DOMAIN Calls!MethodsOf(l) /\ c.code \in Codes \cup {0}
    BY DEF Calls!CallsOf
  <2>2. Codes \cup {0} \subseteq Nat
    BY CallsAssumption
  <2> QED
    BY <2>1, <2>2
<1> DEFINE m == Calls!MethodsOf(l)[c.method]
<1>2. Leads(Calls!Target(l, c.method), m.about)
  <2>1. CASE l = "cached"
    BY <1>1, <2>1, EveryCallLeads, EveryRouteLeads
       DEF CallsLead, RoutesLead, Calls!Target, Calls!MethodsOf, Calls!RoutesOf
  <2>2. CASE l = "cacheless"
    BY <1>1, <2>2, EveryArgsLead DEF ArgsLead, Calls!Target, Calls!MethodsOf
  <2> QED
    BY <2>1, <2>2
<1>3. Calls!Resource(l, c) = IF m.about = "None" THEN <<"none">> ELSE <<m.about, c.id>>
  BY DEF Calls!Resource
<1> HIDE DEF m
<1> QED
  BY <1>1, <1>2, <1>3, LeaderIsMajor DEF Calls!Bucket
-----------------------------------------------------------------------------
(* The requests of a bot, Requests, as the part "calls" of the path.         *)

(* The limiter holds the buckets of the calls that Discord refused, each of  *)
(* them belongs to what it refused, and every request alive is one of the    *)
(* calls.                                                                    *)
LimitsInv ==
    /\ lib \in {"cached", "cacheless"}
    /\ DOMAIN call = Slots /\ DOMAIN place = Slots
    /\ blocked = {refused[2] : refused \in exhausted}
    /\ \A refused \in exhausted : refused[1] = Belongs(refused[2])
    /\ \A i \in Slots : place[i] # "free" => call[i] \in Calls!CallsOf(lib, i)

LEMMA LimitsInductive == LimitsInv /\ [PathNext]_pathVars => LimitsInv'
<1> SUFFICES ASSUME LimitsInv, [PathNext]_pathVars PROVE LimitsInv'
  OBVIOUS
<1>1. ASSUME NEW i \in Slots, NEW c \in Calls!CallsOf(lib, i), Calls!Create(i, c) PROVE LimitsInv'
  BY <1>1 DEF Calls!Create, LimitsInv
<1>2. ASSUME NEW i \in Slots,
             \/ Calls!AwaitCreated(i) \/ Calls!AwaitSent(i) \/ Calls!ExecuteAndIgnore(i)
             \/ Calls!Resume(i) \/ \E s \in Statuses, b \in Calls!AllBodies : Calls!Answer(i, s, b)
      PROVE  LimitsInv'
  BY <1>2 DEF Calls!AwaitCreated, Calls!AwaitSent, Calls!ExecuteAndIgnore, Calls!Resume,
              Calls!Answer, LimitsInv
<1>3. ASSUME NEW i \in Slots, Calls!Limited(i) PROVE LimitsInv'
  <2>1. Belongs(Calls!Bucket(lib, call[i])) = Calls!Resource(lib, call[i])
    BY <1>3, BucketIsResource DEF Calls!Limited, LimitsInv
  <2>2. PICK r, b : r = Calls!Resource(lib, call[i]) /\ b = Calls!Bucket(lib, call[i])
    OBVIOUS
  <2>3. exhausted' = exhausted \cup {<<r, b>>} /\ blocked' = blocked \cup {b} /\ r = Belongs(b)
    BY <1>3, <2>1, <2>2 DEF Calls!Limited
  <2>4. blocked' = {refused[2] : refused \in exhausted'}
    <3>1. ASSUME NEW x \in blocked' PROVE \E refused \in exhausted' : x = refused[2]
      <4>1. CASE x \in blocked
        BY <2>3, <4>1 DEF LimitsInv
      <4>2. CASE x = b
        <5>1. <<r, b>> \in exhausted' /\ <<r, b>>[2] = x
          BY <2>3, <4>2
        <5> QED
          BY <5>1
      <4> QED
        BY <2>3, <4>1, <4>2
    <3>2. \A refused \in exhausted' : refused[2] \in blocked'
      BY <2>3 DEF LimitsInv
    <3> QED
      BY <3>1, <3>2
  <2>5. \A refused \in exhausted' : refused[1] = Belongs(refused[2])
    BY <2>3 DEF LimitsInv
  <2> QED
    BY <1>3, <2>4, <2>5 DEF Calls!Limited, LimitsInv
<1>4. ASSUME NEW b \in blocked, Calls!Reset(b) PROVE LimitsInv'
  <2>1. \A i \in Slots : place'[i] # "free" => place[i] # "free"
    BY <1>4 DEF Calls!Reset
  <2> QED
    BY <1>4, <2>1 DEF Calls!Reset, LimitsInv
<1>5. CASE Calls!ChannelGone
  BY <1>5 DEF Calls!ChannelGone, LimitsInv
<1>6. CASE UNCHANGED callVars
  BY <1>6 DEF callVars, LimitsInv
<1> QED
  BY <1>1, <1>2, <1>3, <1>4, <1>5, <1>6
     DEF PathNext, HttpStep, QueueStep, CallStep, MentionStep, SettingStep, Calls!Next,
         PermissionStep, NumberStep, pathVars

(* Whatever number an invite code holds, no limit leaks and none is missed,  *)
(* on every call of both libraries: whoever is held calls for the guild,     *)
(* channel or webhook that Discord refused, and a refused one holds all its  *)
(* calls.                                                                    *)
THEOREM LimitsApartAlways == PathSpec => []LimitsStayApart
<1>1. PathInit => LimitsInv
  BY DEF PathInit, Calls!Init, LimitsInv
<1>2. LimitsInv => LimitsStayApart
  <2> SUFFICES ASSUME LimitsInv, NEW i \in Slots, place[i] # "free",
                      NEW r, r = Calls!Resource(lib, call[i]),
                      NEW b, b = Calls!Bucket(lib, call[i])
               PROVE  /\ b \in blocked => \E refused \in exhausted : refused[1] = r
                      /\ (\E refused \in exhausted : refused[1] = r) /\ r # <<"none">> =>
                            b \in blocked
    BY DEF LimitsStayApart, Calls!LimitsStayApart
  <2>1. Belongs(b) = r
    BY BucketIsResource DEF LimitsInv
  <2>2. b \in blocked => \E refused \in exhausted : refused[1] = r
    BY <2>1 DEF LimitsInv
  <2>3. ASSUME NEW refused \in exhausted, refused[1] = r, r # <<"none">> PROVE b \in blocked
    <3>1. Belongs(refused[2]) = r /\ refused[2] \in blocked
      BY <2>3 DEF LimitsInv
    <3> QED
      BY <2>1, <2>3, <3>1 DEF Belongs
  <2> QED
    BY <2>2, <2>3
<1> QED
  BY <1>1, <1>2, LimitsInductive, PTL DEF PathSpec
-----------------------------------------------------------------------------
(* What OutcomeIsAnswer says of one coroutine.                               *)
Fits(l, m, s, b, known, u) ==
    /\ u = "value" => \/ s \in 200..299 \/ Calls!Unchecked(l, m)
                      \/ s \in (300..499) \ {400, 401, 403, 404, 405}
    /\ u = "threw" => s >= 300 \/ Calls!Unreadable(l, m, b, known)

(* An answer stays what it was; a coroutine gets something only after it.    *)
OutcomeInv ==
    /\ DOMAIN call = Slots /\ DOMAIN place = Slots /\ DOMAIN user = Slots
    /\ DOMAIN answers = Slots /\ DOMAIN body = Slots
    /\ channelKnown \in BOOLEAN
    /\ \A i \in Slots :
        /\ user[i] \in {"posted", "value", "threw"} => place[i] = "answered"
        /\ place[i] = "answered" => answers[i] \in Statuses
        /\ place[i] = "free" => user[i] = "none"
    /\ \A i \in Slots : Fits(lib, call[i].method, answers[i], body[i], channelKnown, user[i])

LEMMA OutcomesFit ==
    ASSUME NEW l, NEW m, NEW s \in Statuses, NEW b, NEW known, NEW u,
           u \in Calls!Outcomes(l, m, s, b, known)
    PROVE  Fits(l, m, s, b, known, u) /\ u \in {"value", "threw"}
<1>1. s \in 200..599
  BY CallsAssumption
<1>2. Calls!Throws(s) => s >= 300
  BY <1>1 DEF Calls!Throws
<1>3. ~Calls!Throws(s) /\ s \notin 200..299 => s \in (300..499) \ {400, 401, 403, 404, 405}
  BY <1>1 DEF Calls!Throws
<1>4. s \notin 200..299 => s >= 300
  BY <1>1
<1> QED
  BY <1>2, <1>3, <1>4 DEF Fits, Calls!Outcomes

LEMMA OutcomeInductive == OutcomeInv /\ [PathNext]_pathVars => OutcomeInv'
<1> SUFFICES ASSUME OutcomeInv, [PathNext]_pathVars PROVE OutcomeInv'
  OBVIOUS
<1>0. \A l, m, s, b, known, u : u \notin {"value", "threw"} => Fits(l, m, s, b, known, u)
  BY DEF Fits
<1>1. ASSUME NEW i \in Slots, NEW c \in Calls!CallsOf(lib, i), Calls!Create(i, c) PROVE OutcomeInv'
  BY <1>0, <1>1 DEF OutcomeInv, Calls!Create, Calls!Submitted
<1>2. ASSUME NEW i \in Slots, Calls!AwaitCreated(i) \/ Calls!ExecuteAndIgnore(i) PROVE OutcomeInv'
  BY <1>0, <1>2
     DEF OutcomeInv, Calls!AwaitCreated, Calls!ExecuteAndIgnore, Calls!Submitted
<1>3. ASSUME NEW i \in Slots, Calls!AwaitSent(i) \/ Calls!Resume(i) PROVE OutcomeInv'
  <2>1. PICK u : /\ user' = [user EXCEPT ![i] = u]
                 /\ IF place[i] = "answered" THEN u \in Calls!OutcomeOf(i) ELSE u = "waiting"
    BY <1>3 DEF Calls!AwaitSent, Calls!Resume, OutcomeInv
  <2>2. /\ UNCHANGED <<lib, call, place, answers, body, channelKnown>>
        /\ place[i] # "free"
    BY <1>3 DEF Calls!AwaitSent, Calls!Resume, OutcomeInv
  <2>3. /\ Fits(lib, call[i].method, answers[i], body[i], channelKnown, u)
        /\ place[i] # "answered" => u = "waiting"
    BY <1>0, <2>1, OutcomesFit DEF OutcomeInv, Calls!OutcomeOf
  <2>4. \A j \in Slots : user'[j] = IF j = i THEN u ELSE user[j]
    BY <2>1 DEF OutcomeInv
  <2> QED
    BY <2>1, <2>2, <2>3, <2>4 DEF OutcomeInv
<1>4. ASSUME NEW i \in Slots, NEW s \in Statuses, NEW b, Calls!Answer(i, s, b) PROVE OutcomeInv'
  BY <1>0, <1>4 DEF OutcomeInv, Calls!Answer
<1>5. ASSUME NEW i \in Slots, Calls!Limited(i) PROVE OutcomeInv'
  BY <1>5 DEF OutcomeInv, Calls!Limited
<1>6. ASSUME NEW b \in blocked, Calls!Reset(b) PROVE OutcomeInv'
  BY <1>6 DEF OutcomeInv, Calls!Reset
<1>7. CASE Calls!ChannelGone
  <2>1. \A l, m, s, b, u : Fits(l, m, s, b, TRUE, u) => Fits(l, m, s, b, FALSE, u)
    <3>1. \A l, m, b : Calls!Unreadable(l, m, b, TRUE) => Calls!Unreadable(l, m, b, FALSE)
      BY DEF Calls!Unreadable
    <3> SUFFICES ASSUME NEW l, NEW m, NEW s, NEW b, NEW u, Fits(l, m, s, b, TRUE, u)
                 PROVE  Fits(l, m, s, b, FALSE, u)
      OBVIOUS
    <3>2. Calls!Unreadable(l, m, b, TRUE) => Calls!Unreadable(l, m, b, FALSE)
      BY <3>1
    <3> QED
      BY <3>2 DEF Fits
  <2> QED
    BY <1>7, <2>1 DEF OutcomeInv, Calls!ChannelGone
<1>8. CASE UNCHANGED callVars
  BY <1>8 DEF OutcomeInv, callVars
<1> QED
  BY <1>1, <1>2, <1>3, <1>4, <1>5, <1>6, <1>7, <1>8
     DEF PathNext, HttpStep, QueueStep, CallStep, MentionStep, SettingStep, Calls!Next,
         PermissionStep, NumberStep, pathVars

(* What a coroutine gets is what Discord answered, in both libraries, for    *)
(* every status and for every order of answers, limits, resumptions and      *)
(* deleted channels, with the exceptions that OutcomeIsAnswer names.         *)
THEOREM OutcomeAlways == PathSpec => []OutcomeIsAnswer
<1>1. PathInit => OutcomeInv
  BY DEF PathInit, Calls!Init, OutcomeInv, Fits
<1>2. OutcomeInv => OutcomeIsAnswer
  BY DEF OutcomeInv, Fits, OutcomeIsAnswer, Calls!OutcomeIsAnswer
<1> QED
  BY <1>1, <1>2, OutcomeInductive, PTL DEF PathSpec
-----------------------------------------------------------------------------
(* Whom a message may mention, Mentions, as the part "mentions".             *)

MentionFlags == {"everyone", "roles", "users", "some_roles", "some_users"}

Built(ids) == [flags : SUBSET MentionFlags, roles_ids : Seq(ids), user_ids : Seq(UserIds)]

(* Nothing is allowed as a whole and listed, and nothing is listed without   *)
(* its flag.  The builder of the cacheless library has the same flags; users *)
(* that it puts among the roles are missing from its users ever after.       *)
MentionsInv ==
    /\ allowed \in Built(RoleIds) /\ allowedNc \in Built(RoleIds \cup UserIds)
    /\ "roles" \in allowed.flags => "some_roles" \notin allowed.flags
    /\ "users" \in allowed.flags => "some_users" \notin allowed.flags
    /\ "some_roles" \notin allowed.flags => allowed.roles_ids = <<>>
    /\ "some_users" \notin allowed.flags => allowed.user_ids = <<>>
    /\ allowedNc.flags = allowed.flags
    /\ IF allowedNc.user_ids = allowed.user_ids
       THEN allowedNc.roles_ids = allowed.roles_ids
       ELSE Len(allowedNc.user_ids) < Len(allowed.user_ids)

LEMMA AllowKeepsMentions ==
    ASSUME MentionsInv, NEW f \in {"everyone", "roles", "users"}, Allowing!Allow(f)
    PROVE  MentionsInv'
<1>1. /\ f \notin allowed.flags
      /\ f = "roles" => "some_roles" \notin allowed.flags
      /\ f = "users" => "some_users" \notin allowed.flags
      /\ allowed' = [allowed EXCEPT !.flags = allowed.flags \cup {f}]
      /\ allowedNc' = [allowedNc EXCEPT !.flags = allowedNc.flags \cup {f}]
  BY DEF Allowing!Allow, Allowing!CanAllow, Allowing!WithFlag, Allowing!AllowNc
<1>2. /\ allowed'.flags = allowed.flags \cup {f} /\ allowed'.roles_ids = allowed.roles_ids
      /\ allowed'.user_ids = allowed.user_ids /\ allowedNc'.flags = allowedNc.flags \cup {f}
      /\ allowedNc'.roles_ids = allowedNc.roles_ids /\ allowedNc'.user_ids = allowedNc.user_ids
  BY <1>1 DEF MentionsInv, Built
<1>3. allowed' \in Built(RoleIds) /\ allowedNc' \in Built(RoleIds \cup UserIds)
  BY <1>1 DEF MentionsInv, Built, MentionFlags
<1> QED
  BY <1>1, <1>2, <1>3 DEF MentionsInv

LEMMA AddRolesKeepsMentions ==
    ASSUME MentionsInv, NEW ids \in Seq(RoleIds), Allowing!AddSomeRoles(ids)
    PROVE  MentionsInv'
<1> DEFINE added == [flags |-> allowed.flags \cup {"some_roles"},
                     roles_ids |-> allowed.roles_ids \o ids, user_ids |-> allowed.user_ids]
           addedNc == [flags |-> allowedNc.flags \cup {"some_roles"},
                       roles_ids |-> allowedNc.roles_ids \o ids, user_ids |-> allowedNc.user_ids]
<1>1. "roles" \notin allowed.flags /\ allowed' = added /\ allowedNc' = addedNc
  BY DEF Allowing!AddSomeRoles, Allowing!CanAddRoles, Allowing!AddRoles, Allowing!AddRolesNc,
         Allowing!WithFlag, MentionsInv, Built
<1>2. /\ allowed.flags \in SUBSET MentionFlags /\ allowedNc.flags \in SUBSET MentionFlags
      /\ allowed.roles_ids \in Seq(RoleIds) /\ allowedNc.roles_ids \in Seq(RoleIds \cup UserIds)
      /\ allowed.user_ids \in Seq(UserIds) /\ allowedNc.user_ids \in Seq(UserIds)
  BY DEF MentionsInv, Built
<1>3. allowed.roles_ids \o ids \in Seq(RoleIds)
  BY <1>2
<1>4. allowedNc.roles_ids \o ids \in Seq(RoleIds \cup UserIds)
  BY <1>2
<1>5. added \in Built(RoleIds) /\ addedNc \in Built(RoleIds \cup UserIds)
  BY <1>2, <1>3, <1>4 DEF Built, MentionFlags
<1> QED
  BY <1>1, <1>5 DEF MentionsInv

LEMMA AddUsersKeepsMentions ==
    ASSUME MentionsInv, NEW ids \in Seq(UserIds), Allowing!AddSomeUsers(ids)
    PROVE  MentionsInv'
<1> DEFINE added == [flags |-> allowed.flags \cup {"some_users"},
                     roles_ids |-> allowed.roles_ids, user_ids |-> allowed.user_ids \o ids]
           first == [flags |-> allowedNc.flags \cup {"some_users"},
                     roles_ids |-> allowedNc.roles_ids, user_ids |-> allowedNc.user_ids \o ids]
           later == [flags |-> allowedNc.flags,
                     roles_ids |-> allowedNc.roles_ids \o ids, user_ids |-> allowedNc.user_ids]
<1>1. /\ "users" \notin allowed.flags /\ allowed' = added
      /\ allowedNc' = IF "some_users" \in allowedNc.flags THEN later ELSE first
  <2>1. "users" \notin allowed.flags /\ allowed' = added
    BY DEF Allowing!AddSomeUsers, Allowing!CanAddUsers, Allowing!AddUsers, Allowing!WithFlag,
           MentionsInv, Built
  <2>2. CASE "some_users" \in allowedNc.flags
    <3>1. allowedNc' = [allowedNc EXCEPT !.roles_ids = allowedNc.roles_ids \o ids]
      BY <2>2 DEF Allowing!AddSomeUsers, Allowing!AddUsersNc
    <3>2. allowedNc' = later
      BY <3>1 DEF MentionsInv, Built
    <3> HIDE DEF added, first, later
    <3> QED
      BY <2>1, <2>2, <3>2
  <2>3. CASE "some_users" \notin allowedNc.flags
    <3>1. allowedNc' = Allowing!AddUsers(allowedNc, ids)
      BY <2>3 DEF Allowing!AddSomeUsers, Allowing!AddUsersNc
    <3>2. allowedNc' = first
      BY <3>1 DEF Allowing!AddUsers, Allowing!WithFlag, MentionsInv, Built
    <3> HIDE DEF added, first, later
    <3> QED
      BY <2>1, <2>3, <3>2
  <2> QED
    BY <2>1, <2>2, <2>3
<1>2. /\ allowed.flags \in SUBSET MentionFlags /\ allowedNc.flags \in SUBSET MentionFlags
      /\ allowed.roles_ids \in Seq(RoleIds) /\ allowedNc.roles_ids \in Seq(RoleIds \cup UserIds)
      /\ allowed.user_ids \in Seq(UserIds) /\ allowedNc.user_ids \in Seq(UserIds)
  BY DEF MentionsInv, Built
<1>3. /\ allowed.user_ids \o ids \in Seq(UserIds)
      /\ Len(allowed.user_ids \o ids) = Len(allowed.user_ids) + Len(ids)
  BY <1>2
<1>4. allowedNc.user_ids \o ids \in Seq(UserIds)
  BY <1>2
<1>5. allowedNc.roles_ids \o ids \in Seq(RoleIds \cup UserIds)
  BY <1>2
<1>6. added \in Built(RoleIds) /\ first \in Built(RoleIds \cup UserIds)
      /\ later \in Built(RoleIds \cup UserIds)
  BY <1>2, <1>3, <1>4, <1>5 DEF Built, MentionFlags
<1>7. allowedNc.flags = allowed.flags
  BY DEF MentionsInv
<1>8. CASE "some_users" \notin allowedNc.flags
  <2>1. allowed.user_ids = <<>> /\ allowedNc' = first
    BY <1>1, <1>7, <1>8 DEF MentionsInv
  <2>2. allowedNc.user_ids = <<>> /\ allowedNc.roles_ids = allowed.roles_ids
    <3>1. ~(Len(allowedNc.user_ids) < 0)
      BY <1>2
    <3> QED
      BY <2>1, <3>1 DEF MentionsInv
  <2> QED
    BY <1>1, <1>6, <1>7, <2>1, <2>2 DEF MentionsInv
<1>9. CASE "some_users" \in allowedNc.flags
  <2>1. allowedNc' = later /\ allowedNc'.flags = allowed'.flags
    BY <1>1, <1>7, <1>9
  <2>2. IF allowedNc'.user_ids = allowed'.user_ids
        THEN allowedNc'.roles_ids = allowed'.roles_ids
        ELSE Len(allowedNc'.user_ids) < Len(allowed'.user_ids)
    <3>1. CASE ids = <<>>
      <4>1. /\ allowed.user_ids \o ids = allowed.user_ids
            /\ allowedNc.roles_ids \o ids = allowedNc.roles_ids
        BY <1>2, <3>1
      <4> QED
        BY <1>1, <2>1, <4>1 DEF MentionsInv
    <3>2. CASE ids # <<>>
      <4>1. Len(ids) \in Nat /\ Len(ids) # 0 /\ Len(allowed.user_ids) \in Nat
            /\ Len(allowedNc.user_ids) \in Nat
        BY <1>2, <3>2
      <4>2. Len(allowedNc.user_ids) <= Len(allowed.user_ids)
        BY <4>1 DEF MentionsInv
      <4>3. Len(allowedNc.user_ids) < Len(allowed.user_ids \o ids)
        BY <1>3, <4>1, <4>2
      <4>4. allowed'.user_ids = allowed.user_ids \o ids
            /\ allowedNc'.user_ids = allowedNc.user_ids
        BY <1>1, <2>1
      <4>5. allowedNc.user_ids # allowed.user_ids \o ids
        BY <4>1, <4>3
      <4> HIDE DEF added, later
      <4> QED
        BY <4>3, <4>4, <4>5
    <3> QED
      BY <3>1, <3>2
  <2>3. /\ allowed'.flags = allowed.flags \cup {"some_users"}
        /\ allowed'.roles_ids = allowed.roles_ids
    BY <1>1
  <2>4. allowed' \in Built(RoleIds) /\ allowedNc' \in Built(RoleIds \cup UserIds)
    BY <1>1, <1>6, <2>1
  <2> HIDE DEF added, later
  <2> QED
    BY <1>1, <2>1, <2>2, <2>3, <2>4 DEF MentionsInv
<1> QED
  BY <1>8, <1>9

LEMMA MentionsInductive == MentionsInv /\ [PathNext]_pathVars => MentionsInv'
<1> SUFFICES ASSUME MentionsInv, [PathNext]_pathVars PROVE MentionsInv'
  OBVIOUS
<1>1. CASE UNCHANGED mentionVars
  BY <1>1 DEF mentionVars, MentionsInv
<1>2. CASE Allowing!MentionsNext
  <2>1. ASSUME NEW S, NEW ids \in Allowing!Arguments(S) PROVE ids \in Seq(S)
    <3>1. CASE ids = <<>>
      BY <3>1
    <3>2. CASE ids \in {<<x>> : x \in S}
      <4>1. PICK x \in S : ids = <<x>>
        BY <3>2
      <4> QED
        BY <4>1
    <3>3. CASE ids \in {<<x, y>> : x, y \in S}
      <4>1. PICK x \in S, y \in S : ids = <<x, y>>
        BY <3>3
      <4> QED
        BY <4>1
    <3> QED
      BY <2>1, <3>1, <3>2, <3>3 DEF Allowing!Arguments
  <2>2. CASE Allowing!AddFirstUserRange
    BY <2>2 DEF Allowing!AddFirstUserRange, MentionsInv
  <2> QED
    BY <1>2, <2>1, <2>2, AllowKeepsMentions, AddRolesKeepsMentions, AddUsersKeepsMentions
       DEF Allowing!MentionsNext, Allowing!Everything
<1> QED
  BY <1>1, <1>2 DEF PathNext, HttpStep, QueueStep, CallStep, MentionStep, SettingStep,
     PermissionStep, NumberStep, pathVars

(* However an allowed_mentions is put together, but for a range of users to  *)
(* a builder that has none, the builder and the two plain records of the     *)
(* same content allow the same mentions, nothing is allowed as a whole and   *)
(* listed, and the cacheless library's builder says the same as long as it   *)
(* has the same users.                                                       *)
THEOREM MentionsAlwaysAgree == PathSpec => []MentionsAgree
<1>1. PathInit => MentionsInv
  BY DEF PathInit, Allowing!MentionsInit, Allowing!NoMentions, MentionsInv, Built, MentionFlags
<1>2. MentionsInv => MentionsAgree
  <2> SUFFICES ASSUME MentionsInv PROVE Allowing!MentionsAgree
    BY DEF MentionsAgree
  <2> DEFINE json == Allowing!ToJson(allowed)
             plain == Allowing!AsPlain(allowed)
             one == Allowing!ToJson1(plain)
             two == Allowing!ToJson2(Allowing!AsVariants(allowed))
             both(u) == Allowing!ToJson1([plain EXCEPT !.roles = TRUE, !.users = u])
  <2>1. allowed \in Built(RoleIds) /\ allowedNc \in Built(RoleIds \cup UserIds)
    BY DEF MentionsInv
  <2>2. one.parse = json.parse
    <3>1. one.parse = {f \in Allowing!Everything : plain[f]}
      BY DEF Allowing!ToJson1
    <3>2. \A f \in Allowing!Everything : plain[f] <=> f \in allowed.flags
      <4>1. plain["everyone"] <=> "everyone" \in allowed.flags
        BY DEF Allowing!AsPlain
      <4>2. plain["roles"] <=> "roles" \in allowed.flags
        BY DEF Allowing!AsPlain
      <4>3. plain["users"] <=> "users" \in allowed.flags
        BY DEF Allowing!AsPlain
      <4> HIDE DEF plain
      <4> QED
        BY <4>1, <4>2, <4>3 DEF Allowing!Everything
    <3>3. json.parse = allowed.flags \cap Allowing!Everything
      BY DEF Allowing!ToJson
    <3> HIDE DEF one, plain, json
    <3> QED
      BY <3>1, <3>2, <3>3
  <2>3. two.parse = json.parse
    <3> DEFINE variants == Allowing!AsVariants(allowed)
    <3>1. two.parse = {f \in Allowing!Everything : variants[f] = [all |-> TRUE]}
      BY DEF Allowing!ToJson2
    <3>2. variants["everyone"] = [all |-> TRUE] <=> "everyone" \in allowed.flags
      BY DEF Allowing!AsVariants
    <3>3. variants["roles"] = [all |-> TRUE] <=> "roles" \in allowed.flags
      BY DEF Allowing!AsVariants, MentionsInv
    <3>4. variants["users"] = [all |-> TRUE] <=> "users" \in allowed.flags
      BY DEF Allowing!AsVariants, MentionsInv
    <3>5. json.parse = allowed.flags \cap Allowing!Everything
      BY DEF Allowing!ToJson
    <3> HIDE DEF two, variants, json
    <3> QED
      BY <3>1, <3>2, <3>3, <3>4, <3>5 DEF Allowing!Everything
  <2>4. \A kind \in {"roles", "users"} : Allowing!Pings(one, kind) = Allowing!Pings(json, kind)
    <3>1. Allowing!IdsOf(<<>>) = {}
      BY DEF Allowing!IdsOf
    <3>2. Allowing!Pings(one, "roles") = Allowing!Pings(json, "roles")
      BY <2>1, <2>2, <3>1 DEF Allowing!Pings, Allowing!ToJson, Allowing!ToJson1, Allowing!AsPlain,
                              Allowing!ListIf, Allowing!Everything, MentionsInv
    <3>3. Allowing!Pings(one, "users") = Allowing!Pings(json, "users")
      BY <2>1, <2>2, <3>1 DEF Allowing!Pings, Allowing!ToJson, Allowing!ToJson1, Allowing!AsPlain,
                              Allowing!ListIf, Allowing!Everything, MentionsInv
    <3> QED
      BY <3>2, <3>3
  <2>5. \A kind \in {"roles", "users"} : Allowing!Pings(two, kind) = Allowing!Pings(json, kind)
    BY <2>1, <2>3 DEF Allowing!Pings, Allowing!ToJson, Allowing!ToJson2, Allowing!AsVariants,
                      Allowing!Held, Allowing!ListIf, Allowing!Everything, MentionsInv
  <2>6. \A kind \in {"roles", "users"} : kind \in json.parse => ~json[kind].given
    BY DEF Allowing!ToJson, Allowing!ListIf, MentionsInv
  <2>7. \A kind \in {"roles", "users"} : kind \in one.parse => ~one[kind].given
    BY DEF Allowing!ToJson1, Allowing!AsPlain, Allowing!ListIf
  <2>8. \A kind \in {"roles", "users"} : kind \in two.parse => ~two[kind].given
    BY DEF Allowing!ToJson2, Allowing!AsVariants, Allowing!Held, Allowing!ListIf
  <2>9. \A u \in BOOLEAN : \A kind \in {"roles", "users"} :
            kind \in both(u).parse => ~both(u)[kind].given
    <3> SUFFICES ASSUME NEW u \in BOOLEAN
                 PROVE  \A kind \in {"roles", "users"} :
                            kind \in both(u).parse => ~both(u)[kind].given
      OBVIOUS
    <3> DEFINE filled == [plain EXCEPT !.roles = TRUE, !.users = u]
    <3>1. filled["roles"] = TRUE /\ filled["users"] = u
      BY DEF Allowing!AsPlain
    <3>2. both(u) = Allowing!ToJson1(filled)
      OBVIOUS
    <3> HIDE DEF filled, both, plain
    <3> QED
      BY <3>1, <3>2 DEF Allowing!ToJson1, Allowing!ListIf
  <2>10. allowed.user_ids = allowedNc.user_ids => Allowing!ToJsonNc(allowedNc) = json
    <3>1. allowed.user_ids = allowedNc.user_ids => allowedNc = allowed
      BY <2>1 DEF MentionsInv, Built
    <3> QED
      BY <3>1 DEF Allowing!ToJsonNc
  <2> HIDE DEF json, one, two, both
  <2> QED
    BY <2>2, <2>3, <2>4, <2>5, <2>6, <2>7, <2>8, <2>9, <2>10
       DEF Allowing!MentionsAgree, json, one, two, both
<1> QED
  BY <1>1, <1>2, MentionsInductive, PTL DEF PathSpec
-----------------------------------------------------------------------------
(* The settings that a bot changes, Settings, as the part "settings".        *)

IsSequence(s) == \E S : s \in Seq(S)

(* Fields that are read from a key, as a kind of value.                      *)
Reads(fields, kind, k) == \E i \in DOMAIN fields : fields[i].key = k /\ fields[i].kind = kind

LEMMA ReadsTake ==
    ASSUME NEW form, NEW kind \in {"text", "number", "bool"}, NEW k, Reads(form.reads, kind, k)
    PROVE  Changing!Takes(form, kind, k)
BY DEF Reads, Changing!Takes, Changing!Outcome, Changing!Value

LEMMA ReadsHere ==
    ASSUME NEW fields, NEW i \in DOMAIN fields, NEW kind, NEW k,
           fields[i].key = k, fields[i].kind = kind
    PROVE  Reads(fields, kind, k)
BY DEF Reads

(* A list of fields that is put before or after another is read all the same. *)
LEMMA ReadsJoined ==
    ASSUME NEW s, NEW t, IsSequence(s), IsSequence(t)
    PROVE  /\ IsSequence(s \o t)
           /\ \A kind, k : Reads(s, kind, k) \/ Reads(t, kind, k) => Reads(s \o t, kind, k)
<1>1. PICK S : s \in Seq(S)
  BY DEF IsSequence
<1>2. PICK T : t \in Seq(T)
  BY DEF IsSequence
<1>3. s \in Seq(S \cup T) /\ t \in Seq(S \cup T)
  BY <1>1, <1>2
<1>4. s \o t \in Seq(S \cup T)
  BY <1>3
<1>5. ASSUME NEW kind, NEW k, Reads(s, kind, k) PROVE Reads(s \o t, kind, k)
  <2>1. PICK i \in DOMAIN s : s[i].key = k /\ s[i].kind = kind
    BY <1>5 DEF Reads
  <2>2. i \in DOMAIN (s \o t) /\ (s \o t)[i] = s[i]
    BY <1>3
  <2> QED
    BY <2>1, <2>2 DEF Reads
<1>6. ASSUME NEW kind, NEW k, Reads(t, kind, k) PROVE Reads(s \o t, kind, k)
  <2>1. PICK i \in DOMAIN t : t[i].key = k /\ t[i].kind = kind
    BY <1>6 DEF Reads
  <2>2. Len(s) + i \in DOMAIN (s \o t) /\ (s \o t)[Len(s) + i] = t[i]
    BY <1>3
  <2> QED
    BY <2>1, <2>2 DEF Reads
<1>7. IsSequence(s \o t)
  BY <1>4 DEF IsSequence
<1> QED
  BY <1>5, <1>6, <1>7

LEMMA FieldsAreFields ==
    ASSUME NEW kind, NEW k
    PROVE  /\ Changing!Must(kind, k).key = k /\ Changing!Must(kind, k).kind = kind
           /\ Changing!MustKeep(kind, k).key = k /\ Changing!MustKeep(kind, k).kind = kind
           /\ Changing!MustNull(kind, k).key = k /\ Changing!MustNull(kind, k).kind = kind
           /\ Changing!MayNull(kind, k).key = k /\ Changing!MayNull(kind, k).kind = kind
BY DEF Changing!Must, Changing!MustKeep, Changing!MustNull, Changing!MayNull, Changing!Field

LEMMA AllMust ==
    ASSUME NEW kind, NEW keys, IsSequence(keys)
    PROVE  /\ IsSequence(Changing!All(Changing!Must, kind, keys))
           /\ \A i \in DOMAIN keys : Reads(Changing!All(Changing!Must, kind, keys), kind, keys[i])
<1> DEFINE all == Changing!All(Changing!Must, kind, keys)
<1>1. PICK S : keys \in Seq(S)
  BY DEF IsSequence
<1>2. all = [i \in 1..Len(keys) |-> Changing!Must(kind, keys[i])] /\ Len(keys) \in Nat
  BY <1>1 DEF Changing!All
<1> HIDE DEF all
<1>3. all \in Seq({Changing!Must(kind, keys[i]) : i \in 1..Len(keys)})
  BY <1>2
<1>4. ASSUME NEW i \in DOMAIN keys PROVE Reads(all, kind, keys[i])
  BY <1>1, <1>2, FieldsAreFields, ReadsHere
<1> QED
  BY <1>3, <1>4 DEF all, IsSequence

LEMMA Tuples ==
    /\ \A a : IsSequence(<<a>>)
    /\ \A a, b : IsSequence(<<a, b>>)
    /\ \A a, b, c : IsSequence(<<a, b, c>>)
    /\ \A a, b, c, d : IsSequence(<<a, b, c, d>>)
    /\ \A a, b, c, d, e : IsSequence(<<a, b, c, d, e>>)
    /\ \A a, b, c, d, e, f, g, h : IsSequence(<<a, b, c, d, e, f, g, h>>)
    /\ \A a, b, c, d, e, f, g, h, i, j, k : IsSequence(<<a, b, c, d, e, f, g, h, i, j, k>>)
<1>1. ASSUME NEW a PROVE IsSequence(<<a>>)
  <2>1. <<a>> \in Seq({a})
    OBVIOUS
  <2> QED
    BY <2>1 DEF IsSequence
<1>2. ASSUME NEW a, NEW b PROVE IsSequence(<<a, b>>)
  <2>1. <<a, b>> \in Seq({a, b})
    OBVIOUS
  <2> QED
    BY <2>1 DEF IsSequence
<1>3. ASSUME NEW a, NEW b, NEW c PROVE IsSequence(<<a, b, c>>)
  <2>1. <<a, b, c>> \in Seq({a, b, c})
    OBVIOUS
  <2> QED
    BY <2>1 DEF IsSequence
<1>4. ASSUME NEW a, NEW b, NEW c, NEW d PROVE IsSequence(<<a, b, c, d>>)
  <2>1. <<a, b, c, d>> \in Seq({a, b, c, d})
    OBVIOUS
  <2> QED
    BY <2>1 DEF IsSequence
<1>5. ASSUME NEW a, NEW b, NEW c, NEW d, NEW e PROVE IsSequence(<<a, b, c, d, e>>)
  <2>1. <<a, b, c, d, e>> \in Seq({a, b, c, d, e})
    OBVIOUS
  <2> QED
    BY <2>1 DEF IsSequence
<1>6. ASSUME NEW a, NEW b, NEW c, NEW d, NEW e, NEW f, NEW g, NEW h
      PROVE  IsSequence(<<a, b, c, d, e, f, g, h>>)
  <2>1. <<a, b, c, d, e, f, g, h>> \in Seq({a, b, c, d, e, f, g, h})
    OBVIOUS
  <2> QED
    BY <2>1 DEF IsSequence
<1>7. ASSUME NEW a, NEW b, NEW c, NEW d, NEW e, NEW f, NEW g, NEW h, NEW i, NEW j, NEW k
      PROVE  IsSequence(<<a, b, c, d, e, f, g, h, i, j, k>>)
  <2>1. <<a, b, c, d, e, f, g, h, i, j, k>> \in Seq({a, b, c, d, e, f, g, h, i, j, k})
    OBVIOUS
  <2> QED
    BY <2>1 DEF IsSequence
<1> QED
  BY <1>1, <1>2, <1>3, <1>4, <1>5, <1>6, <1>7

(* Every setting of a guild that Discord sends back is read, by the library  *)
(* ...                                                                       *)
LEMMA GuildIsRead ==
    /\ \A k \in {"name", "icon", "splash", "owner_id", "afk_channel_id", "system_channel_id"} :
           Reads(Changing!GuildReads, "text", k)
    /\ \A k \in {"afk_timeout", "verification_level", "default_message_notifications",
                  "explicit_content_filter"} :
           Reads(Changing!GuildReads, "number", k)
<1> DEFINE first == <<Changing!MustNull("text", "id"), Changing!Must("text", "name"),
                      Changing!MustNull("text", "icon"), Changing!MustNull("text", "splash"),
                      Changing!MustNull("text", "owner_id"),
                      Changing!MayNull("text", "permissions"), Changing!Must("text", "region"),
                      Changing!MustNull("text", "afk_channel_id")>>
           levels == <<"afk_timeout", "verification_level", "default_message_notifications",
                       "explicit_content_filter">>
           second == Changing!All(Changing!Must, "number", levels)
           third == <<Changing!MustNull("list", "roles")>>
           lists == <<"emojis", "features">>
           fourth == Changing!All(Changing!Must, "list", lists)
           last == <<Changing!Must("number", "mfa_level"), Changing!Keep("text", "application_id"),
                     Changing!May("bool", "widget_enabled"),
                     Changing!Into("nothing", Changing!MayNull("text", "widget_channel_id")),
                     Changing!MustNull("text", "system_channel_id")>>
<1>1. \A k \in {"name", "icon", "splash", "owner_id", "afk_channel_id"} : Reads(first, "text", k)
  <2>1. /\ {2, 3, 4, 5, 8} \subseteq DOMAIN first
        /\ first[2] = Changing!Must("text", "name") /\ first[3] = Changing!MustNull("text", "icon")
        /\ first[4] = Changing!MustNull("text", "splash")
        /\ first[5] = Changing!MustNull("text", "owner_id")
        /\ first[8] = Changing!MustNull("text", "afk_channel_id")
    OBVIOUS
  <2> HIDE DEF first
  <2> QED
    BY <2>1, ReadsHere, FieldsAreFields
<1>2. \A k \in {"afk_timeout", "verification_level", "default_message_notifications",
                "explicit_content_filter"} : Reads(second, "number", k)
  <2>1. /\ IsSequence(levels) /\ {1, 2, 3, 4} \subseteq DOMAIN levels
        /\ levels[1] = "afk_timeout" /\ levels[2] = "verification_level"
        /\ levels[3] = "default_message_notifications" /\ levels[4] = "explicit_content_filter"
    BY Tuples
  <2> HIDE DEF levels
  <2> QED
    BY <2>1, AllMust
<1>3. Reads(last, "text", "system_channel_id")
  <2>1. 5 \in DOMAIN last /\ last[5] = Changing!MustNull("text", "system_channel_id")
    OBVIOUS
  <2> HIDE DEF last
  <2> QED
    BY <2>1, ReadsHere, FieldsAreFields
<1>4. /\ IsSequence(first) /\ IsSequence(levels) /\ IsSequence(third) /\ IsSequence(lists)
      /\ IsSequence(last)
  BY Tuples
<1>5. IsSequence(second) /\ IsSequence(fourth)
  BY <1>4, AllMust
<1>6. Changing!GuildReads = ((((first \o second) \o third) \o fourth) \o last)
  BY DEF Changing!GuildReads
<1> HIDE DEF first, second, third, fourth, last, levels, lists
<1> QED
  BY <1>1, <1>2, <1>3, <1>4, <1>5, <1>6, ReadsJoined

(* ... and by the cacheless library.                                         *)
LEMMA GuildNcIsRead ==
    /\ \A k \in {"name", "icon", "splash", "owner_id", "afk_channel_id", "system_channel_id"} :
           Reads(Changing!GuildReadsNc, "text", k)
    /\ \A k \in {"afk_timeout", "verification_level", "default_message_notifications",
                  "explicit_content_filter"} :
           Reads(Changing!GuildReadsNc, "number", k)
<1> DEFINE first == <<Changing!MustNull("text", "id"), Changing!Must("text", "name"),
                      Changing!MustNull("text", "icon"), Changing!MustNull("text", "splash"),
                      Changing!MustNull("text", "owner_id"),
                      Changing!MayNull("number", "permissions"), Changing!Must("text", "region"),
                      Changing!MustNull("text", "afk_channel_id"),
                      Changing!Must("number", "afk_timeout"),
                      Changing!May("bool", "embed_enabled"),
                      Changing!MayNull("text", "embed_channel_id")>>
           levels == <<"verification_level", "default_message_notifications",
                       "explicit_content_filter">>
           second == Changing!All(Changing!Must, "number", levels)
           third == <<Changing!MustNull("list", "roles")>>
           lists == <<"emojis", "features">>
           fourth == Changing!All(Changing!Must, "list", lists)
           last == <<Changing!Must("number", "mfa_level"), Changing!Keep("text", "application_id"),
                     Changing!May("bool", "widget_enabled"),
                     Changing!Into("nothing", Changing!MayNull("text", "widget_channel_id")),
                     Changing!MustNull("text", "system_channel_id")>>
<1>1. /\ \A k \in {"name", "icon", "splash", "owner_id", "afk_channel_id"} : Reads(first, "text", k)
      /\ Reads(first, "number", "afk_timeout")
  <2>1. /\ {2, 3, 4, 5, 8, 9} \subseteq DOMAIN first
        /\ first[2] = Changing!Must("text", "name") /\ first[3] = Changing!MustNull("text", "icon")
        /\ first[4] = Changing!MustNull("text", "splash")
        /\ first[5] = Changing!MustNull("text", "owner_id")
        /\ first[8] = Changing!MustNull("text", "afk_channel_id")
        /\ first[9] = Changing!Must("number", "afk_timeout")
    OBVIOUS
  <2> HIDE DEF first
  <2> QED
    BY <2>1, ReadsHere, FieldsAreFields
<1>2. \A k \in {"verification_level", "default_message_notifications",
                "explicit_content_filter"} : Reads(second, "number", k)
  <2>1. /\ IsSequence(levels) /\ {1, 2, 3} \subseteq DOMAIN levels
        /\ levels[1] = "verification_level" /\ levels[2] = "default_message_notifications"
        /\ levels[3] = "explicit_content_filter"
    BY Tuples
  <2> HIDE DEF levels
  <2> QED
    BY <2>1, AllMust
<1>3. Reads(last, "text", "system_channel_id")
  <2>1. 5 \in DOMAIN last /\ last[5] = Changing!MustNull("text", "system_channel_id")
    OBVIOUS
  <2> HIDE DEF last
  <2> QED
    BY <2>1, ReadsHere, FieldsAreFields
<1>4. /\ IsSequence(first) /\ IsSequence(levels) /\ IsSequence(third) /\ IsSequence(lists)
      /\ IsSequence(last)
  BY Tuples
<1>5. IsSequence(second) /\ IsSequence(fourth)
  BY <1>4, AllMust
<1>6. Changing!GuildReadsNc = ((((first \o second) \o third) \o fourth) \o last)
  BY DEF Changing!GuildReadsNc
<1> HIDE DEF first, second, third, fourth, last, levels, lists
<1> QED
  BY <1>1, <1>2, <1>3, <1>4, <1>5, <1>6, ReadsJoined

(* The same of a role, whose permissions are a text or a number.             *)
LEMMA RoleIsRead ==
    ASSUME NEW kind, NEW fields,
           fields = <<Changing!MustNull("text", "id"), Changing!Must("number", "position"),
                      Changing!MustNull(kind, "permissions")>>
                    \o Changing!All(Changing!Must, "bool", <<"hoist", "managed">>)
                    \o <<Changing!Must("text", "name"), Changing!Must("bool", "mentionable")>>
    PROVE  /\ Reads(fields, "text", "name") /\ Reads(fields, kind, "permissions")
           /\ Reads(fields, "bool", "hoist") /\ Reads(fields, "bool", "mentionable")
<1> DEFINE first == <<Changing!MustNull("text", "id"), Changing!Must("number", "position"),
                      Changing!MustNull(kind, "permissions")>>
           names == <<"hoist", "managed">>
           second == Changing!All(Changing!Must, "bool", names)
           last == <<Changing!Must("text", "name"), Changing!Must("bool", "mentionable")>>
<1>1. Reads(first, kind, "permissions")
  <2>1. 3 \in DOMAIN first /\ first[3] = Changing!MustNull(kind, "permissions")
    OBVIOUS
  <2> HIDE DEF first
  <2> QED
    BY <2>1, ReadsHere, FieldsAreFields
<1>2. Reads(second, "bool", "hoist")
  <2>1. IsSequence(names) /\ 1 \in DOMAIN names /\ names[1] = "hoist"
    BY Tuples
  <2> HIDE DEF names
  <2> QED
    BY <2>1, AllMust
<1>3. Reads(last, "text", "name") /\ Reads(last, "bool", "mentionable")
  <2>1. /\ {1, 2} \subseteq DOMAIN last
        /\ last[1] = Changing!Must("text", "name") /\ last[2] = Changing!Must("bool", "mentionable")
    OBVIOUS
  <2> HIDE DEF last
  <2> QED
    BY <2>1, ReadsHere, FieldsAreFields
<1>4. IsSequence(first) /\ IsSequence(names) /\ IsSequence(last)
  BY Tuples
<1>5. IsSequence(second)
  BY <1>4, AllMust
<1>6. fields = ((first \o second) \o last)
  OBVIOUS
<1> HIDE DEF first, second, last, names
<1> QED
  BY <1>1, <1>2, <1>3, <1>4, <1>5, <1>6, ReadsJoined

(* And of a webhook, which both libraries read alike.                        *)
LEMMA WebhookIsRead ==
    \A k \in {"name", "avatar", "channel_id"} : Reads(Changing!Webhook.reads, "text", k)
<1> DEFINE fields == <<Changing!MustNull("text", "id"), Changing!Must("number", "type"),
                       Changing!MayNull("text", "guild_id"),
                       Changing!MustNull("text", "channel_id"), Changing!MayNull("text", "name"),
                       Changing!MustKeep("text", "avatar"), Changing!MayNull("text", "token")>>
<1>1. Changing!Webhook.reads = fields
  BY DEF Changing!Webhook, Changing!Object, Changing!Part
<1>2. /\ {4, 5, 6} \subseteq DOMAIN fields
      /\ fields[4] = Changing!MustNull("text", "channel_id")
      /\ fields[5] = Changing!MayNull("text", "name")
      /\ fields[6] = Changing!MustKeep("text", "avatar")
  OBVIOUS
<1> HIDE DEF fields
<1> QED
  BY <1>1, <1>2, ReadsHere, FieldsAreFields

Things == {"guild", "role", "webhook"}

(* Whatever is set, apart from NotReadBack, comes back as what was sent.     *)
LEMMA SettingsAreRead ==
    ASSUME NEW o \in Things, NEW k \in DOMAIN Changing!SettingsOf[o],
           <<o, k>> \notin Changing!NotReadBack
    PROVE  /\ Changing!Takes(Changing!Forms[o], Changing!SettingsOf[o][k], k)
           /\ Changing!Takes(Changing!FormsNc[o], Changing!SettingsOfNc[o][k], k)
<1>1. CASE o = "guild"
  <2> DEFINE texts == {"name", "icon", "splash", "owner_id", "afk_channel_id", "system_channel_id"}
             numbers == {"afk_timeout", "verification_level", "default_message_notifications",
                         "explicit_content_filter"}
  <2>1. /\ Changing!SettingsOf[o] = Changing!GuildSettings
        /\ Changing!SettingsOfNc[o] = Changing!GuildSettings
        /\ Changing!Forms[o].reads = Changing!GuildReads
        /\ Changing!FormsNc[o].reads = Changing!GuildReadsNc
    BY <1>1 DEF Changing!SettingsOf, Changing!SettingsOfNc, Changing!GuildSettingsNc,
                Changing!Forms, Changing!FormsNc, Changing!GuildUpdate, Changing!GuildNc,
                Changing!Updated, Changing!Public, Changing!Object, Changing!Part
  <2>2. k \in texts \cup numbers
    BY <1>1, <2>1 DEF Changing!GuildSettings, Changing!NotReadBack
  <2>3. /\ k \in texts => Changing!GuildSettings[k] = "text"
        /\ k \in numbers => Changing!GuildSettings[k] = "number"
    BY DEF Changing!GuildSettings
  <2> QED
    BY <2>1, <2>2, <2>3, GuildIsRead, GuildNcIsRead, ReadsTake
<1>2. CASE o = "role"
  <2>1. /\ Changing!SettingsOf[o] = Changing!RoleSettings
        /\ Changing!SettingsOfNc[o] = Changing!RoleSettingsNc
        /\ Changing!Forms[o].reads = Changing!RoleReads
        /\ Changing!FormsNc[o].reads = Changing!RoleReadsNc
    BY <1>2 DEF Changing!SettingsOf, Changing!SettingsOfNc, Changing!Forms, Changing!FormsNc,
                Changing!Role, Changing!RoleNc, Changing!PublicBoth, Changing!Both, Changing!Part
  <2>2. k \in {"name", "permissions", "hoist", "mentionable"}
    BY <1>2, <2>1 DEF Changing!RoleSettings, Changing!NotReadBack
  <2>3. /\ Reads(Changing!RoleReads, "text", "name")
        /\ Reads(Changing!RoleReads, "text", "permissions")
        /\ Reads(Changing!RoleReads, "bool", "hoist")
        /\ Reads(Changing!RoleReads, "bool", "mentionable")
    BY RoleIsRead DEF Changing!RoleReads
  <2>4. /\ Reads(Changing!RoleReadsNc, "text", "name")
        /\ Reads(Changing!RoleReadsNc, "number", "permissions")
        /\ Reads(Changing!RoleReadsNc, "bool", "hoist")
        /\ Reads(Changing!RoleReadsNc, "bool", "mentionable")
    BY RoleIsRead DEF Changing!RoleReadsNc
  <2>5. /\ Changing!RoleSettings["name"] = "text" /\ Changing!RoleSettingsNc["name"] = "text"
        /\ Changing!RoleSettings["permissions"] = "text"
        /\ Changing!RoleSettingsNc["permissions"] = "number"
        /\ Changing!RoleSettings["hoist"] = "bool" /\ Changing!RoleSettingsNc["hoist"] = "bool"
        /\ Changing!RoleSettings["mentionable"] = "bool"
        /\ Changing!RoleSettingsNc["mentionable"] = "bool"
    BY DEF Changing!RoleSettings, Changing!RoleSettingsNc
  <2> QED
    BY <2>1, <2>2, <2>3, <2>4, <2>5, ReadsTake
<1>3. CASE o = "webhook"
  <2>1. /\ Changing!SettingsOf[o] = Changing!WebhookSettings
        /\ Changing!SettingsOfNc[o] = Changing!WebhookSettings
        /\ Changing!Forms[o] = Changing!Webhook /\ Changing!FormsNc[o] = Changing!Webhook
    BY <1>3 DEF Changing!SettingsOf, Changing!SettingsOfNc, Changing!WebhookSettingsNc,
                Changing!Forms, Changing!FormsNc, Changing!WebhookNc
  <2>2. k \in {"name", "avatar", "channel_id"} /\ Changing!WebhookSettings[k] = "text"
    BY <2>1 DEF Changing!WebhookSettings
  <2> QED
    BY <2>1, <2>2, WebhookIsRead, ReadsTake
<1> QED
  BY <1>1, <1>2, <1>3 DEF Things

(* The chain of calls has, of every key that was asked for, the value asked  *)
(* last behind all others of that key.                                       *)
SettingsInv ==
    /\ of \in Things
    /\ stuff \in Seq([vname : DOMAIN Changing!SettingsOf[of], n : Nat])
    /\ DOMAIN asked = {stuff[i].vname : i \in DOMAIN stuff}
    /\ \A k \in DOMAIN asked :
          \E i \in DOMAIN stuff :
              /\ stuff[i] = [vname |-> k, n |-> asked[k]]
              /\ \A j \in DOMAIN stuff : stuff[j].vname = k => j <= i

LEMMA SettingKeepsInv ==
    ASSUME SettingsInv, NEW k \in DOMAIN Changing!SettingsOf[of], NEW n \in Nat,
           Changing!Setting(k, n)
    PROVE  SettingsInv'
<1> DEFINE setting == [vname |-> k, n |-> n]
           S == [vname : DOMAIN Changing!SettingsOf[of], n : Nat]
<1>1. /\ stuff' = Append(stuff, setting) /\ of' = of
      /\ asked' = [x \in DOMAIN asked \cup {k} |-> IF x = k THEN n ELSE asked[x]]
  BY DEF Changing!Setting, Changing!WithSetting
<1>2. stuff \in Seq(S) /\ setting \in S
  BY DEF SettingsInv
<1>3. setting.vname = k
  OBVIOUS
<1> HIDE DEF setting, S
<1>4. /\ stuff' \in Seq(S) /\ Len(stuff) \in Nat /\ DOMAIN stuff = 1..Len(stuff)
      /\ DOMAIN stuff' = 1..(Len(stuff) + 1)
      /\ \A i \in DOMAIN stuff : stuff'[i] = stuff[i]
      /\ stuff'[Len(stuff) + 1] = setting
  BY <1>1, <1>2
<1>5. \A i \in DOMAIN stuff' : i \in DOMAIN stuff \/ i = Len(stuff) + 1
  BY <1>4
<1>6. \A i \in DOMAIN stuff : i \in DOMAIN stuff' /\ i <= Len(stuff) + 1
  BY <1>4
<1>7. DOMAIN asked' = {stuff'[i].vname : i \in DOMAIN stuff'}
  <2>1. DOMAIN asked' = DOMAIN asked \cup {k}
    BY <1>1
  <2>2. DOMAIN asked = {stuff[i].vname : i \in DOMAIN stuff}
    BY DEF SettingsInv
  <2>3. Len(stuff) + 1 \in DOMAIN stuff'
    BY <1>4
  <2> QED
    BY <1>3, <1>4, <1>5, <1>6, <2>1, <2>2, <2>3
<1>8. ASSUME NEW x \in DOMAIN asked'
      PROVE  \E i \in DOMAIN stuff' :
                 /\ stuff'[i] = [vname |-> x, n |-> asked'[x]]
                 /\ \A j \in DOMAIN stuff' : stuff'[j].vname = x => j <= i
  <2>1. CASE x = k
    <3>1. Len(stuff) + 1 \in DOMAIN stuff' /\ asked'[x] = n
      BY <1>1, <1>4, <1>8, <2>1
    <3>2. \A j \in DOMAIN stuff' : j <= Len(stuff) + 1
      BY <1>4
    <3> QED
      BY <1>4, <2>1, <3>1, <3>2 DEF setting
  <2>2. CASE x # k
    <3>1. x \in DOMAIN asked /\ asked'[x] = asked[x]
      BY <1>1, <1>8, <2>2
    <3>2. PICK i \in DOMAIN stuff :
              /\ stuff[i] = [vname |-> x, n |-> asked[x]]
              /\ \A j \in DOMAIN stuff : stuff[j].vname = x => j <= i
      BY <3>1 DEF SettingsInv
    <3> QED
      BY <1>3, <1>4, <1>5, <1>6, <2>2, <3>1, <3>2
  <2> QED
    BY <2>1, <2>2
<1>9. of \in Things
  BY DEF SettingsInv
<1> QED
  BY <1>1, <1>4, <1>7, <1>8, <1>9 DEF SettingsInv, S

LEMMA SettingsInductive == SettingsInv /\ [PathNext]_pathVars => SettingsInv'
<1> SUFFICES ASSUME SettingsInv, [PathNext]_pathVars PROVE SettingsInv'
  OBVIOUS
<1>1. CASE UNCHANGED settingVars
  BY <1>1 DEF settingVars, SettingsInv
<1>2. CASE Changing!SettingsNext
  <2>1. Len(stuff) + 1 \in Nat
    BY DEF SettingsInv
  <2> QED
    BY <1>2, <2>1, SettingKeepsInv DEF Changing!SettingsNext
<1> QED
  BY <1>1, <1>2 DEF PathNext, HttpStep, QueueStep, CallStep, MentionStep, SettingStep,
     PermissionStep, NumberStep, pathVars

(* However long a chain of settings is and whatever is set twice in it, the  *)
(* body has under each key what was asked for last, and both libraries read  *)
(* it as what was sent when Discord sends the object back, but for the keys  *)
(* of NotReadBack.                                                           *)
THEOREM SettingsAlwaysReadBack == PathSpec => []SettingsReadBack
<1>1. PathInit => SettingsInv
  BY DEF PathInit, Changing!SettingsInit, Changing!SettingsOf, SettingsInv, Things
<1>2. SettingsInv => SettingsReadBack
  <2> SUFFICES ASSUME SettingsInv PROVE Changing!SettingsReadBack
    BY DEF SettingsReadBack
  <2>1. DOMAIN asked = {stuff[i].vname : i \in DOMAIN stuff}
    BY DEF SettingsInv
  <2>2. ASSUME NEW k \in DOMAIN asked
        PROVE  k \in DOMAIN Changing!SettingsOf[of] /\ Changing!Body(stuff, k) = asked[k]
    <3>1. PICK i \in DOMAIN stuff :
              /\ stuff[i] = [vname |-> k, n |-> asked[k]]
              /\ \A j \in DOMAIN stuff : stuff[j].vname = k => j <= i
      BY <2>2 DEF SettingsInv
    <3> DEFINE T == {j \in DOMAIN stuff : stuff[j].vname = k}
    <3>2. i \in T /\ T \subseteq Nat /\ \A j \in T : j <= i
      BY <3>1 DEF SettingsInv
    <3> HIDE DEF T
    <3>3. Changing!Max(T) = i
      BY <3>2 DEF Changing!Max
    <3>4. Changing!Body(stuff, k) = stuff[i].n
      BY <3>3 DEF Changing!Body, T
    <3>5. stuff[i] \in [vname : DOMAIN Changing!SettingsOf[of], n : Nat]
      BY <3>1 DEF SettingsInv
    <3> QED
      BY <3>1, <3>4, <3>5
  <2> QED
    BY <2>1, <2>2, SettingsAreRead DEF Changing!SettingsReadBack, SettingsInv
<1> QED
  BY <1>1, <1>2, SettingsInductive, PTL DEF PathSpec

-----------------------------------------------------------------------------
(* Induction and recursion over the indices of a loop.                     *)

LEMMA Least == \A T \in SUBSET Nat : T # {} => \E x \in T : \A y \in T : x <= y
<1>1. \A T \in SUBSET Nat :
        T # {} => \E x \in T : \A y \in T : ~ (<<y, x>> \in OpToRel(<, Nat))
  BY NatLessThanWellFounded, WFMin
<1>2. \A x, y \in Nat : x < y => <<x, y>> \in OpToRel(<, Nat)
  BY DEF OpToRel
<1>3. \A x, y \in Nat : ~ (y < x) => x <= y
  OBVIOUS
<1> QED
  BY <1>1, <1>2, <1>3, Zenon

(* What holds at 0 and passes on from each index holds at all of them.     *)
LEMMA Induction ==
    ASSUME NEW n \in Nat, NEW S, 0 \in S, \A i \in 0..(n - 1) : i \in S => i + 1 \in S
    PROVE  \A i \in 0..n : i \in S
<1> SUFFICES ASSUME NEW j \in 0..n, j \notin S PROVE FALSE
  OBVIOUS
<1> DEFINE T == {i \in 0..n : i \notin S}
<1>1. T \in SUBSET Nat /\ T # {}
  OBVIOUS
<1>2. PICK x \in T : \A y \in T : x <= y
  <2> HIDE DEF T
  <2> QED
    BY <1>1, Least
<1>3. x # 0 /\ x - 1 \in 0..(n - 1) /\ x - 1 \notin T
  BY <1>2
<1> QED
  BY <1>2, <1>3

(* Also when it needs all the indices before.                              *)
LEMMA StrongInduction ==
    ASSUME NEW n \in Nat, NEW S, \A i \in 0..n : (\A j \in 0..(i - 1) : j \in S) => i \in S
    PROVE  \A i \in 0..n : i \in S
<1> SUFFICES ASSUME NEW j \in 0..n, j \notin S PROVE FALSE
  OBVIOUS
<1> DEFINE T == {i \in 0..n : i \notin S}
<1>1. T \in SUBSET Nat /\ T # {}
  OBVIOUS
<1>2. PICK x \in T : \A y \in T : x <= y
  <2> HIDE DEF T
  <2> QED
    BY <1>1, Least
<1>3. \A y \in 0..(x - 1) : y \in S
  BY <1>2
<1> QED
  BY <1>2, <1>3

(* A function that takes its values from earlier ones, and there is one.   *)
TakesFrom(f, n, V, first, from, step) ==
    f \in [0..n -> V] /\ f[0] = first /\ \A i \in 1..n : f[i] = step[<<i, f[from[i]]>>]

LEMMA RecursionFrom ==
    ASSUME NEW n \in Nat, NEW V, NEW first \in V, NEW from \in [1..n -> Nat],
           NEW step \in [(1..n) \X V -> V], \A i \in 1..n : from[i] < i
    PROVE  \E f : TakesFrom(f, n, V, first, from, step)
<1> DEFINE Takes(f, m) == TakesFrom(f, m, V, first, from, step)
           S == {m \in 0..n : \E f : Takes(f, m)}
<1>1. 0 \in S
  <2> DEFINE f == [i \in 0..0 |-> first]
  <2>1. Takes(f, 0)
    BY DEF TakesFrom
  <2> HIDE DEF f, Takes
  <2> QED
    BY <2>1
<1>2. ASSUME NEW m \in 0..(n - 1), m \in S PROVE m + 1 \in S
  <2>1. PICK f : Takes(f, m)
    BY <1>2
  <2>2. from[m + 1] \in 0..m /\ m + 1 \in 1..n
    OBVIOUS
  <2> DEFINE next == step[<<m + 1, f[from[m + 1]]>>]
             g == [i \in 0..(m + 1) |-> IF i <= m THEN f[i] ELSE next]
  <2>3. f \in [0..m -> V] /\ f[0] = first /\ \A i \in 1..m : f[i] = step[<<i, f[from[i]]>>]
    BY <2>1 DEF TakesFrom
  <2>4. next \in V
    <3>1. f[from[m + 1]] \in V
      BY <2>2, <2>3
    <3> QED
      BY <2>2, <3>1
  <2>5. g \in [0..(m + 1) -> V]
    BY <2>3, <2>4
  <2>6. \A i \in 0..m : g[i] = f[i]
    OBVIOUS
  <2>7. g[m + 1] = next
    OBVIOUS
  <2> HIDE DEF g
  <2>8. \A i \in 1..m : from[i] \in 0..m /\ i \in 0..m
    OBVIOUS
  <2>9. ASSUME NEW i \in 1..(m + 1) PROVE g[i] = step[<<i, g[from[i]]>>]
    <3>1. CASE i = m + 1
      BY <2>2, <2>6, <2>7, <3>1
    <3>2. CASE i # m + 1
      <4>1. i \in 1..m /\ g[i] = f[i] /\ g[from[i]] = f[from[i]]
        BY <2>6, <2>8, <3>2
      <4>2. f[i] = step[<<i, f[from[i]]>>]
        BY <2>3, <4>1
      <4> QED
        BY <4>1, <4>2
    <3> QED
      BY <3>1, <3>2
  <2>10. g[0] = first
    BY <2>3, <2>6
  <2>11. Takes(g, m + 1)
    BY <2>5, <2>9, <2>10 DEF TakesFrom
  <2>12. m + 1 \in 0..n
    OBVIOUS
  <2> HIDE DEF Takes
  <2> QED
    BY <2>11, <2>12
<1> HIDE DEF S, Takes
<1>3. \A m \in 0..n : m \in S
  BY <1>1, <1>2, Induction
<1>4. n \in S
  BY <1>3
<1> QED
  BY <1>4, Zenon DEF S, Takes

(* ... and one that takes each from the value before.                      *)
Takes(f, n, V, first, step) ==
    f \in [0..n -> V] /\ f[0] = first /\ \A i \in 1..n : f[i] = step[<<i, f[i - 1]>>]

LEMMA Recursion ==
    ASSUME NEW n \in Nat, NEW V, NEW first \in V, NEW step \in [(1..n) \X V -> V]
    PROVE  \E f : Takes(f, n, V, first, step)
<1> DEFINE from == [i \in 1..n |-> i - 1]
<1>1. from \in [1..n -> Nat] /\ \A i \in 1..n : from[i] < i
  OBVIOUS
<1>2. \A i \in 1..n : from[i] = i - 1
  OBVIOUS
<1> HIDE DEF from
<1>3. PICK f : TakesFrom(f, n, V, first, from, step)
  BY <1>1, RecursionFrom
<1>4. Takes(f, n, V, first, step)
  BY <1>2, <1>3 DEF Takes, TakesFrom
<1> QED
  BY <1>4, Zenon

-----------------------------------------------------------------------------
(* Powers and the numbers that digits stand for.                           *)

(* The function that is local to Power.                                    *)
Powers(b, n) == CHOOSE p : p = [k \in 0..n |-> IF k = 0 THEN 1 ELSE b * p[k - 1]]

LEMMA PowersAre ==
    ASSUME NEW b \in Nat, NEW n \in Nat
    PROVE  /\ Power(b, n) = Powers(b, n)[n]
           /\ Powers(b, n) \in [0..n -> Nat] /\ Powers(b, n)[0] = 1
           /\ \A k \in 1..n : Powers(b, n)[k] = b * Powers(b, n)[k - 1]
<1> DEFINE step == [x \in (1..n) \X Nat |-> b * x[2]]
           p == Powers(b, n)
<1>1. 1 \in Nat /\ step \in [(1..n) \X Nat -> Nat]
  OBVIOUS
<1>0. \A i \in 1..n, v \in Nat : step[<<i, v>>] = b * v
  OBVIOUS
<1> HIDE DEF step
<1>2. PICK g : Takes(g, n, Nat, 1, step)
  BY <1>1, Recursion
<1>3. ASSUME NEW i \in 1..n PROVE g[i] = b * g[i - 1]
  <2>1. g[i - 1] \in Nat
    BY <1>2 DEF Takes
  <2> QED
    BY <1>0, <1>2, <2>1 DEF Takes
<1>4. g = [k \in 0..n |-> IF k = 0 THEN 1 ELSE b * g[k - 1]]
  BY <1>2, <1>3 DEF Takes
<1>5. p = [k \in 0..n |-> IF k = 0 THEN 1 ELSE b * p[k - 1]]
  BY <1>4, Zenon DEF Powers
<1> HIDE DEF p
<1>6. p[0] = 1 /\ \A k \in 1..n : p[k] = b * p[k - 1]
  BY <1>5
<1> DEFINE S == {k \in 0..n : p[k] \in Nat}
<1>7. 0 \in S /\ \A i \in 0..(n - 1) : i \in S => i + 1 \in S
  BY <1>6
<1>8. \A k \in 0..n : k \in S
  <2> HIDE DEF S
  <2> QED
    BY <1>7, Induction
<1>9. Power(b, n) = Powers(b, n)[n]
  BY DEF Power, Powers
<1> QED
  BY <1>5, <1>6, <1>8, <1>9 DEF p

LEMMA PowerSteps ==
    ASSUME NEW b \in Nat, NEW n \in Nat
    PROVE  Power(b, 0) = 1 /\ Power(b, n) \in Nat /\ Power(b, n + 1) = b * Power(b, n)
<1> DEFINE p == Powers(b, n)
           q == Powers(b, n + 1)
<1>1. /\ Power(b, n) = p[n] /\ p[0] = 1 /\ p[n] \in Nat
      /\ \A k \in 1..n : p[k] = b * p[k - 1]
  BY PowersAre
<1>2. /\ Power(b, n + 1) = q[n + 1] /\ q[0] = 1
      /\ \A k \in 1..(n + 1) : q[k] = b * q[k - 1]
  <2>1. n + 1 \in Nat
    OBVIOUS
  <2> QED
    BY <2>1, PowersAre, Zenon
<1>3. Power(b, 0) = 1
  BY PowersAre
<1> HIDE DEF p, q
<1> DEFINE S == {k \in 0..n : p[k] = q[k]}
<1>4. 0 \in S /\ \A i \in 0..(n - 1) : i \in S => i + 1 \in S
  BY <1>1, <1>2
<1>5. \A k \in 0..n : k \in S
  <2> HIDE DEF S
  <2> QED
    BY <1>4, Induction
<1> QED
  BY <1>1, <1>2, <1>3, <1>5

LEMMA PowerIsNat == \A b, n \in Nat : Power(b, n) \in Nat
BY PowerSteps

LEMMA PowerAdds ==
    ASSUME NEW b \in Nat, NEW m \in Nat, NEW n \in Nat
    PROVE  Power(b, m + n) = Power(b, m) * Power(b, n)
<1> DEFINE S == {i \in 0..n : Power(b, m + i) = Power(b, m) * Power(b, i)}
<1>1. 0 \in S
  BY PowerSteps
<1>2. ASSUME NEW i \in 0..(n - 1), i \in S PROVE i + 1 \in S
  <2>1. Power(b, (m + i) + 1) = b * Power(b, m + i) /\ Power(b, i + 1) = b * Power(b, i)
    <3>1. m + i \in Nat /\ i \in Nat
      OBVIOUS
    <3>2. Power(b, (m + i) + 1) = b * Power(b, m + i)
      BY <3>1, PowerSteps, Zenon
    <3>3. Power(b, i + 1) = b * Power(b, i)
      BY <3>1, PowerSteps, Zenon
    <3> QED
      BY <3>2, <3>3
  <2>2. Power(b, m) \in Nat /\ Power(b, i) \in Nat
    <3>1. i \in Nat
      OBVIOUS
    <3> QED
      BY <3>1, PowerIsNat
  <2>3. Power(b, m + i) = Power(b, m) * Power(b, i)
    BY <1>2
  <2>4. b * (Power(b, m) * Power(b, i)) = Power(b, m) * (b * Power(b, i))
    <3>1. \A x, y \in Nat : b * (x * y) = x * (b * y)
      OBVIOUS
    <3> QED
      BY <2>2, <3>1
  <2>5. m + (i + 1) = (m + i) + 1 /\ i + 1 \in 0..n
    OBVIOUS
  <2>6. Power(b, m + (i + 1)) = Power(b, m) * Power(b, i + 1)
    BY <2>1, <2>3, <2>4, <2>5
  <2> QED
    BY <2>5, <2>6
<1>3. n \in S
  <2> HIDE DEF S
  <2> QED
    BY <1>1, <1>2, Induction
<1> QED
  BY <1>3

LEMMA PowerGrows ==
    ASSUME NEW b \in Nat, b > 1, NEW m \in Nat, NEW n \in Nat, m <= n
    PROVE  0 < Power(b, m) /\ Power(b, m) <= Power(b, n)
<1> DEFINE S == {i \in 0..n : Power(b, i) > 0}
<1>1. 0 \in S
  BY PowerSteps
<1>2. ASSUME NEW i \in 0..(n - 1), i \in S PROVE i + 1 \in S
  <2>1. Power(b, i + 1) = b * Power(b, i) /\ Power(b, i) \in Nat /\ Power(b, i) > 0
    BY <1>2, PowerSteps
  <2>2. \A x \in Nat : x > 0 => b * x > 0
    OBVIOUS
  <2> QED
    BY <2>1, <2>2
<1>3. \A i \in 0..n : Power(b, i) > 0 /\ Power(b, i) \in Nat
  <2>1. \A i \in 0..n : i \in S
    <3> HIDE DEF S
    <3> QED
      BY <1>1, <1>2, Induction
  <2> QED
    BY <2>1, PowerSteps
<1>4. Power(b, n) = Power(b, m) * Power(b, n - m)
  BY PowerAdds, m + (n - m) = n, n - m \in Nat
<1>5. \A x, y \in Nat : x > 0 /\ y > 0 => x <= x * y
  OBVIOUS
<1>6. m \in 0..n /\ n - m \in 0..n
  OBVIOUS
<1> QED
  BY <1>3, <1>4, <1>5, <1>6

-----------------------------------------------------------------------------
(* The number that the first n digits stand for.                           *)
Part(d, b, n) ==
    LET sum[i \in 0 .. n] == IF i = 0 THEN 0 ELSE sum[i - 1] + d[i] * Power(b, i - 1)
    IN  sum[n]

PartsOf(d, b, n) ==
    CHOOSE sum : sum = [i \in 0 .. n |-> IF i = 0 THEN 0
                                         ELSE sum[i - 1] + d[i] * Power(b, i - 1)]

LEMMA NumberIsPart == \A d, b : Number(d, b) = Part(d, b, Len(d))
BY Zenon DEF Number, Part

LEMMA PartsAre ==
    ASSUME NEW b \in Nat, NEW n \in Nat, NEW d, \A i \in 1..n : d[i] \in Int
    PROVE  /\ Part(d, b, n) = PartsOf(d, b, n)[n]
           /\ PartsOf(d, b, n) \in [0..n -> Int] /\ PartsOf(d, b, n)[0] = 0
           /\ \A i \in 1..n :
                PartsOf(d, b, n)[i] = PartsOf(d, b, n)[i - 1] + d[i] * Power(b, i - 1)
<1> DEFINE sum == PartsOf(d, b, n)
           add == [i \in 1..n |-> d[i] * Power(b, i - 1)]
           step == [x \in (1..n) \X Int |-> x[2] + add[x[1]]]
<1>1. \A i \in 1..n : add[i] \in Int /\ add[i] = d[i] * Power(b, i - 1)
  <2>1. \A i \in 1..n : Power(b, i - 1) \in Int
    BY PowerSteps, \A i \in 1..n : i - 1 \in Nat
  <2> QED
    BY <2>1
<1> HIDE DEF add
<1>2. 0 \in Int /\ step \in [(1..n) \X Int -> Int]
  BY <1>1
<1>3. \A i \in 1..n, v \in Int : step[<<i, v>>] = v + add[i]
  OBVIOUS
<1> HIDE DEF step
<1>4. PICK g : Takes(g, n, Int, 0, step)
  BY <1>2, Recursion
<1>5. ASSUME NEW i \in 1..n PROVE g[i] = g[i - 1] + d[i] * Power(b, i - 1)
  <2>1. g[i - 1] \in Int /\ g[i] = step[<<i, g[i - 1]>>]
    BY <1>4 DEF Takes
  <2> QED
    BY <1>1, <1>3, <2>1
<1>6. g = [i \in 0..n |-> IF i = 0 THEN 0 ELSE g[i - 1] + d[i] * Power(b, i - 1)]
  BY <1>4, <1>5 DEF Takes
<1>7. sum = [i \in 0..n |-> IF i = 0 THEN 0 ELSE sum[i - 1] + d[i] * Power(b, i - 1)]
  BY <1>6, Zenon DEF PartsOf
<1> HIDE DEF sum
<1>8. sum[0] = 0 /\ \A i \in 1..n : sum[i] = sum[i - 1] + add[i]
  BY <1>1, <1>7
<1> DEFINE S == {i \in 0..n : sum[i] \in Int}
<1>9. 0 \in S /\ \A i \in 0..(n - 1) : i \in S => i + 1 \in S
  BY <1>1, <1>8
<1>10. \A i \in 0..n : i \in S
  <2> HIDE DEF S
  <2> QED
    BY <1>9, Induction
<1>11. Part(d, b, n) = PartsOf(d, b, n)[n]
  BY Zenon DEF Part, PartsOf
<1>12. sum \in [0..n -> Int]
  BY <1>7, <1>10
<1> QED
  BY <1>1, <1>8, <1>11, <1>12 DEF sum

LEMMA PartSteps ==
    ASSUME NEW b \in Nat, NEW n \in Nat, NEW d, \A i \in 1..(n + 1) : d[i] \in Int
    PROVE  /\ Part(d, b, 0) = 0 /\ Part(d, b, n) \in Int
           /\ Part(d, b, n + 1) = Part(d, b, n) + d[n + 1] * Power(b, n)
<1> DEFINE p == PartsOf(d, b, n)
           q == PartsOf(d, b, n + 1)
<1>1. /\ Part(d, b, n) = p[n] /\ p[0] = 0 /\ p[n] \in Int
      /\ \A k \in 1..n : p[k] = p[k - 1] + d[k] * Power(b, k - 1)
  BY PartsAre
<1>2. /\ Part(d, b, n + 1) = q[n + 1] /\ q[0] = 0
      /\ \A k \in 1..(n + 1) : q[k] = q[k - 1] + d[k] * Power(b, k - 1)
  <2>1. n + 1 \in Nat
    OBVIOUS
  <2> QED
    BY <2>1, PartsAre
<1>3. Part(d, b, 0) = 0
  <2>1. 0 \in Nat /\ \A i \in 1..0 : d[i] \in Int
    OBVIOUS
  <2> QED
    BY <2>1, PartsAre
<1> HIDE DEF p, q
<1> DEFINE S == {k \in 0..n : p[k] = q[k]}
<1>4. 0 \in S /\ \A i \in 0..(n - 1) : i \in S => i + 1 \in S
  <2>1. ASSUME NEW i \in 0..(n - 1), i \in S PROVE i + 1 \in S
    <3>1. i + 1 \in 1..n /\ i + 1 \in 1..(n + 1) /\ (i + 1) - 1 = i
      OBVIOUS
    <3>2. p[i + 1] = p[i] + d[i + 1] * Power(b, i)
      BY <1>1, <3>1
    <3>3. q[i + 1] = q[i] + d[i + 1] * Power(b, i)
      BY <1>2, <3>1
    <3> QED
      BY <2>1, <3>1, <3>2, <3>3
  <2> QED
    BY <1>1, <1>2, <2>1
<1>5. \A k \in 0..n : k \in S
  <2> HIDE DEF S
  <2> QED
    BY <1>4, Induction
<1>6. n + 1 \in 1..(n + 1) /\ (n + 1) - 1 = n
  OBVIOUS
<1> QED
  BY <1>1, <1>2, <1>3, <1>5, <1>6

-----------------------------------------------------------------------------
(* Sums over the first digits.                                             *)

Ints(d, n)        == \A i \in 1..n : d[i] \in Int
DigitsOf(d, b, n) == \A i \in 1..n : d[i] \in 0..(b - 1)

LEMMA PartStep ==
    ASSUME NEW b \in Nat, NEW n \in Nat, NEW d, Ints(d, n), NEW i \in 0..(n - 1)
    PROVE  /\ Part(d, b, i) \in Int /\ Power(b, i) \in Nat /\ d[i + 1] \in Int
           /\ Part(d, b, i + 1) = Part(d, b, i) + d[i + 1] * Power(b, i)
<1>1. i \in Nat /\ i + 1 \in 1..n /\ \A j \in 1..(i + 1) : d[j] \in Int
  BY DEF Ints
<1>2. Power(b, i) \in Nat
  BY <1>1, PowerIsNat
<1>3. d[i + 1] \in Int
  BY <1>1 DEF Ints
<1>4. /\ Part(d, b, i) \in Int
      /\ Part(d, b, i + 1) = Part(d, b, i) + d[i + 1] * Power(b, i)
  BY <1>1, PartSteps
<1> QED
  BY <1>2, <1>3, <1>4

LEMMA PartNone == \A b \in Nat : \A d : Part(d, b, 0) = 0
<1> SUFFICES ASSUME NEW b \in Nat, NEW d PROVE Part(d, b, 0) = 0
  OBVIOUS
<1>1. 0 \in Nat /\ \A i \in 1..0 : d[i] \in Int
  OBVIOUS
<1> QED
  BY <1>1, PartsAre

LEMMA PartIsInt ==
    ASSUME NEW b \in Nat, NEW n \in Nat, NEW d, Ints(d, n)
    PROVE  \A i \in 0..n : Part(d, b, i) \in Int
<1>1. ASSUME NEW i \in 0..n PROVE Part(d, b, i) \in Int
  <2>1. i \in Nat /\ \A j \in 1..i : d[j] \in Int
    BY DEF Ints
  <2>2. Part(d, b, i) = PartsOf(d, b, i)[i] /\ PartsOf(d, b, i) \in [0..i -> Int]
    BY <2>1, PartsAre
  <2> QED
    BY <2>2
<1> QED
  BY <1>1

(* A loop that carries from column to column keeps the number.             *)
Carrying(x, y, c, b, n) ==
    /\ \A i \in 0..n : c[i] \in Int
    /\ \A i \in 1..n : x[i] + c[i - 1] = y[i] + b * c[i]

LEMMA PartCarries ==
    ASSUME NEW b \in Nat, NEW n \in Nat, NEW x, NEW y, NEW c,
           Ints(x, n), Ints(y, n), Carrying(x, y, c, b, n)
    PROVE  Part(x, b, n) + c[0] = Part(y, b, n) + c[n] * Power(b, n)
<1> DEFINE S == {i \in 0..n : Part(x, b, i) + c[0] = Part(y, b, i) + c[i] * Power(b, i)}
<1>1. 0 \in S
  <2>1. Part(x, b, 0) = 0 /\ Part(y, b, 0) = 0 /\ Power(b, 0) = 1
    BY PartNone, PowerSteps
  <2> QED
    BY <2>1 DEF Carrying
<1>2. ASSUME NEW i \in 0..(n - 1), i \in S PROVE i + 1 \in S
  <2>1. /\ Part(x, b, i) \in Int /\ Part(y, b, i) \in Int /\ Power(b, i) \in Nat
        /\ x[i + 1] \in Int /\ y[i + 1] \in Int
        /\ Part(x, b, i + 1) = Part(x, b, i) + x[i + 1] * Power(b, i)
        /\ Part(y, b, i + 1) = Part(y, b, i) + y[i + 1] * Power(b, i)
    BY PartStep
  <2>2. i \in Nat /\ i + 1 \in 1..n /\ i + 1 \in 0..n /\ i \in 0..n /\ (i + 1) - 1 = i
    OBVIOUS
  <2>3. c[i] \in Int /\ c[i + 1] \in Int /\ x[i + 1] + c[i] = y[i + 1] + b * c[i + 1]
    BY <2>2 DEF Carrying
  <2>4. Power(b, i + 1) = b * Power(b, i)
    BY <2>2, PowerSteps
  <2>6. Part(x, b, i) + c[0] = Part(y, b, i) + c[i] * Power(b, i)
    BY <1>2
  <2>7. x[i + 1] * Power(b, i) + c[i] * Power(b, i)
        = y[i + 1] * Power(b, i) + c[i + 1] * (b * Power(b, i))
    <3>1. (x[i + 1] + c[i]) * Power(b, i) = (y[i + 1] + b * c[i + 1]) * Power(b, i)
      BY <2>3
    <3>2. (x[i + 1] + c[i]) * Power(b, i) = x[i + 1] * Power(b, i) + c[i] * Power(b, i)
      BY <2>1, <2>3
    <3>3. (y[i + 1] + b * c[i + 1]) * Power(b, i)
          = y[i + 1] * Power(b, i) + c[i + 1] * (b * Power(b, i))
      BY <2>1, <2>3
    <3> QED
      BY <3>1, <3>2, <3>3
  <2>8. Part(x, b, i + 1) + c[0] = Part(y, b, i + 1) + c[i + 1] * Power(b, i + 1)
    <3> DEFINE X == x[i + 1] * Power(b, i)
               Y == y[i + 1] * Power(b, i)
               C == c[i] * Power(b, i)
               D == c[i + 1] * (b * Power(b, i))
    <3>1. X \in Int /\ Y \in Int /\ C \in Int /\ D \in Int /\ c[0] \in Int
      <4>1. c[0] \in Int
        BY DEF Carrying
      <4> QED
        BY <2>1, <2>3, <4>1
    <3>2. /\ Part(x, b, i + 1) = Part(x, b, i) + X /\ Part(y, b, i + 1) = Part(y, b, i) + Y
          /\ X + C = Y + D /\ Part(x, b, i) + c[0] = Part(y, b, i) + C
          /\ c[i + 1] * Power(b, i + 1) = D
      BY <2>1, <2>4, <2>6, <2>7
    <3> HIDE DEF X, Y, C, D
    <3> QED
      BY <2>1, <3>1, <3>2
  <2> QED
    BY <2>2, <2>8
<1>3. n \in S
  <2> HIDE DEF S
  <2>1. \A i \in 0..n : i \in S
    BY <1>1, <1>2, Induction, Zenon
  <2> QED
    BY <2>1
<1> QED
  BY <1>3

LEMMA PartAdds ==
    ASSUME NEW b \in Nat, NEW n \in Nat, NEW x, NEW y, NEW z, Ints(x, n), Ints(y, n),
           \A i \in 1..n : z[i] = x[i] + y[i]
    PROVE  Part(z, b, n) = Part(x, b, n) + Part(y, b, n)
<1> DEFINE S == {i \in 0..n : Part(z, b, i) = Part(x, b, i) + Part(y, b, i)}
<1>0. Ints(z, n)
  BY DEF Ints
<1>1. 0 \in S
  <2>1. Part(x, b, 0) = 0 /\ Part(y, b, 0) = 0 /\ Part(z, b, 0) = 0
    BY PartNone
  <2> QED
    BY <2>1
<1>2. ASSUME NEW i \in 0..(n - 1), i \in S PROVE i + 1 \in S
  <2>1. /\ Part(x, b, i) \in Int /\ Part(y, b, i) \in Int /\ Power(b, i) \in Nat
        /\ x[i + 1] \in Int /\ y[i + 1] \in Int
        /\ Part(x, b, i + 1) = Part(x, b, i) + x[i + 1] * Power(b, i)
        /\ Part(y, b, i + 1) = Part(y, b, i) + y[i + 1] * Power(b, i)
        /\ Part(z, b, i + 1) = Part(z, b, i) + z[i + 1] * Power(b, i)
    BY <1>0, PartStep
  <2>2. z[i + 1] = x[i + 1] + y[i + 1] /\ i + 1 \in 0..n
    OBVIOUS
  <2>3. (x[i + 1] + y[i + 1]) * Power(b, i) = x[i + 1] * Power(b, i) + y[i + 1] * Power(b, i)
    BY <2>1
  <2> QED
    BY <1>2, <2>1, <2>2, <2>3
<1>3. n \in S
  <2> HIDE DEF S
  <2> QED
    BY <1>1, <1>2, Induction
<1> QED
  BY <1>3

LEMMA PartScales ==
    ASSUME NEW b \in Nat, NEW n \in Nat, NEW k \in Int, NEW x, NEW z, Ints(x, n),
           \A i \in 1..n : z[i] = x[i] * k
    PROVE  Part(z, b, n) = Part(x, b, n) * k
<1> DEFINE S == {i \in 0..n : Part(z, b, i) = Part(x, b, i) * k}
<1>0. Ints(z, n)
  BY DEF Ints
<1>1. 0 \in S
  <2>1. Part(x, b, 0) = 0 /\ Part(z, b, 0) = 0
    BY PartNone
  <2> QED
    BY <2>1
<1>2. ASSUME NEW i \in 0..(n - 1), i \in S PROVE i + 1 \in S
  <2>1. /\ Part(x, b, i) \in Int /\ Power(b, i) \in Nat /\ x[i + 1] \in Int
        /\ Part(x, b, i + 1) = Part(x, b, i) + x[i + 1] * Power(b, i)
        /\ Part(z, b, i + 1) = Part(z, b, i) + z[i + 1] * Power(b, i)
    BY <1>0, PartStep
  <2>2. z[i + 1] = x[i + 1] * k /\ i + 1 \in 0..n
    OBVIOUS
  <2>3. Part(x, b, i) * k + (x[i + 1] * k) * Power(b, i)
        = (Part(x, b, i) + x[i + 1] * Power(b, i)) * k
    BY <2>1
  <2> QED
    BY <1>2, <2>1, <2>2, <2>3
<1>3. n \in S
  <2> HIDE DEF S
  <2> QED
    BY <1>1, <1>2, Induction
<1> QED
  BY <1>3

(* Digits behind m others count for Power(b, m) times as much.             *)
LEMMA PartShiftsBy ==
    ASSUME NEW b \in Nat, NEW m \in Nat, NEW n \in Nat, NEW x, NEW y, Ints(x, m + n),
           \A i \in 1..n : y[i] = x[m + i]
    PROVE  Part(x, b, m + n) = Part(x, b, m) + Power(b, m) * Part(y, b, n)
<1> DEFINE S == {i \in 0..n : Part(x, b, m + i) = Part(x, b, m) + Power(b, m) * Part(y, b, i)}
<1>0. Ints(y, n)
  <2>1. \A i \in 1..n : m + i \in 1..(m + n)
    OBVIOUS
  <2> QED
    BY <2>1 DEF Ints
<1>1. Part(x, b, m) \in Int /\ Power(b, m) \in Nat /\ m + n \in Nat
  <2>1. m \in 0..(m + n) /\ m + n \in Nat
    OBVIOUS
  <2> QED
    BY <2>1, PartIsInt, PowerSteps
<1>2. 0 \in S
  <2>1. Part(y, b, 0) = 0
    BY PartNone
  <2> QED
    BY <1>1, <2>1
<1>3. ASSUME NEW i \in 0..(n - 1), i \in S PROVE i + 1 \in S
  <2>1. m + i \in 0..((m + n) - 1)
    OBVIOUS
  <2>2. /\ Part(x, b, m + i) \in Int /\ Power(b, m + i) \in Nat /\ x[(m + i) + 1] \in Int
        /\ Part(x, b, (m + i) + 1) = Part(x, b, m + i) + x[(m + i) + 1] * Power(b, m + i)
    BY <1>1, <2>1, PartStep
  <2>3. /\ Part(y, b, i) \in Int /\ Power(b, i) \in Nat /\ y[i + 1] \in Int
        /\ Part(y, b, i + 1) = Part(y, b, i) + y[i + 1] * Power(b, i)
    BY <1>0, PartStep
  <2>4. Power(b, m + i) = Power(b, m) * Power(b, i)
    <3>1. i \in Nat
      OBVIOUS
    <3> QED
      BY <3>1, PowerAdds
  <2>5. (m + i) + 1 = m + (i + 1) /\ i + 1 \in 1..n /\ i + 1 \in 0..n
    OBVIOUS
  <2>6. y[i + 1] = x[(m + i) + 1]
    BY <2>5
  <2>7. Part(x, b, m + i) = Part(x, b, m) + Power(b, m) * Part(y, b, i)
    BY <1>3
  <2>8. Power(b, m) * (Part(y, b, i) + y[i + 1] * Power(b, i))
        = Power(b, m) * Part(y, b, i) + y[i + 1] * (Power(b, m) * Power(b, i))
    BY <1>1, <2>3
  <2>9. Part(x, b, m + (i + 1)) = Part(x, b, m) + Power(b, m) * Part(y, b, i + 1)
    BY <1>1, <2>2, <2>3, <2>4, <2>5, <2>6, <2>7, <2>8
  <2> QED
    BY <2>5, <2>9
<1>4. n \in S
  <2> HIDE DEF S
  <2> QED
    BY <1>2, <1>3, Induction
<1> QED
  BY <1>4
(* y goes on where the first m digits of x end.                            *)
Follows(y, x, m, n) == \A i \in 1..n : y[i] = x[m + i]

LEMMA PartShifts ==
    ASSUME NEW b \in Nat, NEW m \in Nat, NEW n \in Nat,
           NEW x, NEW y, Ints(x, m + n), Follows(y, x, m, n)
    PROVE  Part(x, b, m + n) = Part(x, b, m) + Power(b, m) * Part(y, b, n)
<1>1. \A i \in 1..n : y[i] = x[m + i]
  BY DEF Follows
<1> QED
  BY <1>1, PartShiftsBy

Agree(x, y, n) == \A i \in 1..n : x[i] = y[i]

LEMMA PartSame ==
    ASSUME NEW b \in Nat, NEW n \in Nat, NEW x, NEW y, Ints(x, n), Agree(x, y, n)
    PROVE  Part(x, b, n) = Part(y, b, n)
<1> DEFINE S == {i \in 0..n : Part(x, b, i) = Part(y, b, i)}
<1>0. Ints(y, n)
  BY DEF Ints, Agree
<1>1. 0 \in S
  BY PartNone
<1>2. ASSUME NEW i \in 0..(n - 1), i \in S PROVE i + 1 \in S
  <2>1. /\ Part(x, b, i + 1) = Part(x, b, i) + x[i + 1] * Power(b, i)
        /\ Part(y, b, i + 1) = Part(y, b, i) + y[i + 1] * Power(b, i)
    BY <1>0, PartStep
  <2>2. x[i + 1] = y[i + 1] /\ i + 1 \in 0..n
    BY DEF Agree
  <2> QED
    BY <1>2, <2>1, <2>2
<1>3. \A i \in 0..n : i \in S
  <2> HIDE DEF S
  <2> QED
    BY <1>1, <1>2, Induction, Zenon
<1> QED
  BY <1>3

LEMMA DigitsAreInts == \A d, b, n : b \in Nat /\ DigitsOf(d, b, n) => Ints(d, n)
BY DEF DigitsOf, Ints

LEMMA PartBound ==
    ASSUME NEW b \in Nat \ {0}, NEW n \in Nat, NEW d, DigitsOf(d, b, n)
    PROVE  \A i \in 0..n : 0 <= Part(d, b, i) /\ Part(d, b, i) < Power(b, i)
<1> DEFINE S == {i \in 0..n : 0 <= Part(d, b, i) /\ Part(d, b, i) < Power(b, i)}
<1>0. Ints(d, n) /\ b \in Nat
  BY DigitsAreInts
<1>1. 0 \in S
  <2>1. Part(d, b, 0) = 0 /\ Power(b, 0) = 1
    BY PartNone, PowerSteps
  <2> QED
    BY <2>1
<1>2. ASSUME NEW i \in 0..(n - 1), i \in S PROVE i + 1 \in S
  <2>1. /\ Part(d, b, i) \in Int /\ Power(b, i) \in Nat
        /\ Part(d, b, i + 1) = Part(d, b, i) + d[i + 1] * Power(b, i)
    BY <1>0, PartStep
  <2>2. i + 1 \in 1..n /\ i + 1 \in 0..n /\ i \in Nat
    OBVIOUS
  <2>3. d[i + 1] \in 0..(b - 1)
    BY <2>2 DEF DigitsOf
  <2>4. Power(b, i + 1) = b * Power(b, i)
    BY <2>2, PowerSteps
  <2>5. \A p \in Nat, w \in 0..(b - 1) : 0 <= w * p /\ w * p <= b * p - p
    <3> SUFFICES ASSUME NEW p \in Nat, NEW w \in 0..(b - 1)
                 PROVE  0 <= w * p /\ w * p <= b * p - p
      OBVIOUS
    <3>1. 0 <= w /\ 0 <= (b - 1) - w
      OBVIOUS
    <3>2. 0 <= ((b - 1) - w) * p /\ 0 <= w * p
      BY <3>1
    <3>3. ((b - 1) - w) * p = b * p - p - w * p
      OBVIOUS
    <3> QED
      BY <3>2, <3>3
  <2>6. 0 <= d[i + 1] * Power(b, i) /\ d[i + 1] * Power(b, i) <= b * Power(b, i) - Power(b, i)
    BY <2>1, <2>3, <2>5
  <2> DEFINE D == d[i + 1] * Power(b, i)
             P == b * Power(b, i)
  <2>7. D \in Int /\ P \in Int /\ Part(d, b, i + 1) = Part(d, b, i) + D
        /\ Power(b, i + 1) = P /\ 0 <= D /\ D <= P - Power(b, i)
    BY <2>1, <2>3, <2>4, <2>6
  <2> HIDE DEF D, P
  <2> QED
    BY <1>2, <2>1, <2>2, <2>7
<1>3. \A i \in 0..n : i \in S
  <2> HIDE DEF S
  <2> QED
    BY <1>1, <1>2, Induction, Zenon
<1> QED
  BY <1>3

(* A quotient and a remainder are what they are.                           *)
LEMMA OneQuotient ==
    ASSUME NEW m \in Nat, NEW r \in Int, NEW s \in Int, NEW q \in Int, NEW t \in Int,
           0 <= r, r < m, 0 <= s, s < m, r + q * m = s + t * m
    PROVE  r = s /\ q = t
<1>1. (q - t) * m = s - r
  OBVIOUS
<1>2. ~ (q - t >= 1)
  <2> SUFFICES ASSUME q - t >= 1 PROVE FALSE
    OBVIOUS
  <2>1. ((q - t) - 1) * m >= 0
    OBVIOUS
  <2>2. ((q - t) - 1) * m = (q - t) * m - m
    OBVIOUS
  <2> QED
    BY <1>1, <2>1, <2>2
<1>3. ~ (q - t <= -1)
  <2> SUFFICES ASSUME q - t <= -1 PROVE FALSE
    OBVIOUS
  <2>1. ((t - q) - 1) * m >= 0
    OBVIOUS
  <2>2. ((t - q) - 1) * m = 0 - ((q - t) * m) - m
    OBVIOUS
  <2> QED
    BY <1>1, <2>1, <2>2
<1> QED
  BY <1>1, <1>2, <1>3

LEMMA PartUnique ==
    ASSUME NEW b \in Nat \ {0}, NEW n \in Nat, NEW x, NEW y, DigitsOf(x, b, n),
           DigitsOf(y, b, n), Part(x, b, n) = Part(y, b, n)
    PROVE  Agree(x, y, n)
<1> DEFINE S == {i \in 0..n : Part(x, b, i) = Part(y, b, i) => \A j \in 1..i : x[j] = y[j]}
<1>0. Ints(x, n) /\ Ints(y, n) /\ b \in Nat
  BY DigitsAreInts
<1>1. 0 \in S
  OBVIOUS
<1>2. ASSUME NEW i \in 0..(n - 1), i \in S PROVE i + 1 \in S
  <2>1. /\ Part(x, b, i) \in Int /\ Power(b, i) \in Nat /\ x[i + 1] \in Int
        /\ Part(x, b, i + 1) = Part(x, b, i) + x[i + 1] * Power(b, i)
        /\ Part(y, b, i) \in Int /\ y[i + 1] \in Int
        /\ Part(y, b, i + 1) = Part(y, b, i) + y[i + 1] * Power(b, i)
    BY <1>0, PartStep
  <2>2. /\ 0 <= Part(x, b, i) /\ Part(x, b, i) < Power(b, i)
        /\ 0 <= Part(y, b, i) /\ Part(y, b, i) < Power(b, i)
    <3>1. i \in 0..n
      OBVIOUS
    <3> QED
      BY <3>1, PartBound
  <2>3. ASSUME Part(x, b, i + 1) = Part(y, b, i + 1)
        PROVE  \A j \in 1..(i + 1) : x[j] = y[j]
    <3>0. Part(x, b, i) + x[i + 1] * Power(b, i) = Part(y, b, i) + y[i + 1] * Power(b, i)
      BY <2>1, <2>3
    <3>1. Part(x, b, i) = Part(y, b, i) /\ x[i + 1] = y[i + 1]
      <4> DEFINE m == Power(b, i)
                 r == Part(x, b, i)
                 s == Part(y, b, i)
                 q == x[i + 1]
                 t == y[i + 1]
      <4>1. m \in Nat /\ r \in Int /\ s \in Int /\ q \in Int /\ t \in Int
        BY <2>1
      <4>2. 0 <= r /\ r < m /\ 0 <= s /\ s < m /\ r + q * m = s + t * m
        BY <2>2, <3>0
      <4> HIDE DEF m, r, s, q, t
      <4>3. r = s /\ q = t
        BY <4>1, <4>2, OneQuotient
      <4> QED
        BY <4>3 DEF r, s, q, t
    <3>2. \A j \in 1..i : x[j] = y[j]
      BY <1>2, <3>1
    <3> QED
      BY <3>1, <3>2
  <2> QED
    BY <2>3
<1>3. n \in S
  <2>1. \A i \in 0..n : i \in S
    <3> HIDE DEF S
    <3> QED
      BY <1>1, <1>2, Induction, Zenon
  <2> QED
    BY <2>1
<1> QED
  BY <1>3 DEF Agree

(* With a last digit that is not zero, it takes all the digits.            *)
LEMMA PartLeast ==
    ASSUME NEW b \in Nat \ {0}, NEW n \in Nat, n # 0, NEW d, DigitsOf(d, b, n), d[n] # 0
    PROVE  Part(d, b, n) >= Power(b, n - 1)
<1>0. Ints(d, n) /\ n - 1 \in 0..(n - 1) /\ (n - 1) + 1 = n /\ n - 1 \in 0..n
  BY DigitsAreInts
<1>1. /\ Part(d, b, n - 1) \in Int /\ Power(b, n - 1) \in Nat
      /\ Part(d, b, n) = Part(d, b, n - 1) + d[n] * Power(b, n - 1)
  <2>1. b \in Nat
    OBVIOUS
  <2>2. /\ Part(d, b, n - 1) \in Int /\ Power(b, n - 1) \in Nat
        /\ Part(d, b, (n - 1) + 1) = Part(d, b, n - 1) + d[(n - 1) + 1] * Power(b, n - 1)
    BY <1>0, <2>1, PartStep
  <2> QED
    BY <1>0, <2>2
<1>2. Part(d, b, n - 1) >= 0
  BY <1>0, PartBound
<1>3. d[n] \in Nat /\ d[n] >= 1
  BY DEF DigitsOf
<1>4. \A p \in Nat, w \in Nat : w >= 1 => w * p >= p
  OBVIOUS
<1> QED
  BY <1>1, <1>2, <1>3, <1>4

-----------------------------------------------------------------------------
(* Sequences of digits.                                                    *)

(* Digits of a base, and those that do not end with a zero.                *)
DigitSeq(b)  == Seq(0 .. (b - 1))
Proper(d, b) == d \in DigitSeq(b) /\ (Len(d) # 0 => d[Len(d)] # 0)

LEMMA LastOf ==
    ASSUME NEW n \in Nat, NEW S, S \subseteq 1..n, S # {}
    PROVE  Max(S) \in S /\ \A i \in S : i <= Max(S)
<1> DEFINE fromEnd == {n - i : i \in S}
<1>1. fromEnd \in SUBSET Nat /\ fromEnd # {}
  <2>1. \A i \in S : n - i \in Nat
    OBVIOUS
  <2> QED
    BY <2>1
<1>2. PICK least \in fromEnd : \A k \in fromEnd : least <= k
  <2> HIDE DEF fromEnd
  <2> QED
    BY <1>1, Least
<1>3. PICK end \in S : least = n - end
  BY <1>2
<1>4. S \subseteq Int /\ n \in Int
  OBVIOUS
<1>5. \A j \in S : n - j \in fromEnd
  OBVIOUS
<1>6. \A j \in S : end >= j
  <2> HIDE DEF fromEnd
  <2>1. \A j \in S : n - end <= n - j
    BY <1>2, <1>3, <1>5
  <2> SUFFICES ASSUME NEW j \in S PROVE end >= j
    OBVIOUS
  <2>2. n \in Int /\ j \in Int /\ end \in Int /\ n - end <= n - j
    BY <1>4, <2>1
  <2> QED
    BY <2>2
<1>7. Max(S) \in S /\ \A j \in S : Max(S) >= j
  BY <1>6 DEF Max
<1> QED
  BY <1>4, <1>7

LEMMA TrimIs ==
    ASSUME NEW V, NEW d \in Seq(V)
    PROVE  /\ Trim(d) \in Seq(V) /\ Len(Trim(d)) \in 0..Len(d)
           /\ \A i \in 1..Len(Trim(d)) : Trim(d)[i] = d[i]
           /\ \A i \in 1..Len(d) : i > Len(Trim(d)) => d[i] = 0
           /\ Len(Trim(d)) # 0 => Trim(d)[Len(Trim(d))] # 0
           /\ Len(d) # 0 /\ d[Len(d)] # 0 => Trim(d) = d
<1> DEFINE I == {i \in 1..Len(d) : d[i] # 0}
           m == IF I # {} THEN Max(I) ELSE 0
<1>1. Trim(d) = SubSeq(d, 1, m)
  BY DEF Trim, SelectLastInSeq
<1>2. /\ m \in 0..Len(d) /\ (m # 0 => d[m] # 0)
      /\ \A i \in 1..Len(d) : i > m => d[i] = 0
  <2>1. CASE I = {}
    BY <2>1
  <2>2. CASE I # {}
    <3>1. Max(I) \in I /\ \A i \in I : i <= Max(I)
      <4>1. I \subseteq 1..Len(d) /\ Len(d) \in Nat
        OBVIOUS
      <4> HIDE DEF I
      <4> QED
        BY <2>2, <4>1, LastOf
    <3>2. m = Max(I)
      BY <2>2
    <3> HIDE DEF m
    <3>3. m \in 1..Len(d) /\ d[m] # 0
      BY <3>1, <3>2
    <3>4. \A i \in 1..Len(d) : d[i] # 0 => i <= m
      BY <3>1, <3>2
    <3> QED
      BY <3>3, <3>4
  <2> QED
    BY <2>1, <2>2
<1> HIDE DEF m, I
<1>3. /\ SubSeq(d, 1, m) \in Seq(V) /\ Len(SubSeq(d, 1, m)) = m
      /\ \A i \in 1..m : SubSeq(d, 1, m)[i] = d[i]
  BY <1>2
<1>4. Len(d) # 0 /\ d[Len(d)] # 0 => SubSeq(d, 1, m) = d
  <2> SUFFICES ASSUME Len(d) # 0, d[Len(d)] # 0 PROVE SubSeq(d, 1, m) = d
    OBVIOUS
  <2>1. m = Len(d)
    BY <1>2
  <2> QED
    BY <2>1
<1> QED
  BY <1>1, <1>2, <1>3, <1>4

LEMMA SeqOfFunction ==
    ASSUME NEW n \in Nat, NEW V, NEW f \in [1..n -> V]
    PROVE  f \in Seq(V) /\ Len(f) = n
OBVIOUS

LEMMA DigitsOfSeq ==
    ASSUME NEW b \in Nat, NEW d \in DigitSeq(b)
    PROVE  DigitsOf(d, b, Len(d)) /\ Ints(d, Len(d)) /\ Len(d) \in Nat
BY DEF DigitSeq, DigitsOf, Ints

LEMMA NumberBound ==
    ASSUME NEW b \in Nat \ {0}, NEW d \in DigitSeq(b)
    PROVE  Number(d, b) \in Nat /\ Number(d, b) < Power(b, Len(d))
<1>1. DigitsOf(d, b, Len(d)) /\ Ints(d, Len(d)) /\ Len(d) \in Nat /\ b \in Nat
  BY DigitsOfSeq
<1>2. Len(d) \in 0..Len(d)
  BY <1>1
<1>3. Part(d, b, Len(d)) \in Int /\ 0 <= Part(d, b, Len(d)) /\ Part(d, b, Len(d)) < Power(b, Len(d))
  BY <1>1, <1>2, PartBound, PartIsInt
<1> QED
  BY <1>3, NumberIsPart

LEMMA NumberIsInt ==
    ASSUME NEW b \in Nat, NEW d \in Seq(Int)
    PROVE  Number(d, b) \in Int
<1>1. Ints(d, Len(d)) /\ Len(d) \in Nat /\ Len(d) \in 0..Len(d)
  BY DEF Ints
<1> QED
  BY <1>1, NumberIsPart, PartIsInt

LEMMA NumberLeast ==
    ASSUME NEW b \in Nat \ {0}, NEW d, Proper(d, b), Len(d) # 0
    PROVE  Number(d, b) >= Power(b, Len(d) - 1)
<1>1. d \in DigitSeq(b) /\ d[Len(d)] # 0
  BY DEF Proper
<1>2. DigitsOf(d, b, Len(d)) /\ Len(d) \in Nat
  BY <1>1, DigitsOfSeq
<1>3. Part(d, b, Len(d)) >= Power(b, Len(d) - 1)
  BY <1>1, <1>2, PartLeast
<1> QED
  BY <1>3, NumberIsPart

(* A number has one proper sequence of digits.                             *)
LEMMA Longest ==
    ASSUME NEW b \in Nat, b > 1, NEW x, NEW y, Proper(x, b), Proper(y, b), Len(x) < Len(y)
    PROVE  Number(x, b) < Number(y, b)
<1>1. x \in DigitSeq(b) /\ y \in DigitSeq(b) /\ Len(x) \in Nat /\ Len(y) \in Nat /\ b \in Nat \ {0}
  BY DigitsOfSeq DEF Proper
<1>2. Number(x, b) \in Nat /\ Number(x, b) < Power(b, Len(x)) /\ Number(y, b) \in Nat
  BY <1>1, NumberBound
<1>3. Len(y) # 0 /\ Len(y) - 1 \in Nat /\ Len(x) <= Len(y) - 1
  BY <1>1
<1>4. Number(y, b) >= Power(b, Len(y) - 1)
  BY <1>1, <1>3, NumberLeast
<1>5. Power(b, Len(x)) <= Power(b, Len(y) - 1)
  BY <1>1, <1>3, PowerGrows
<1>6. Power(b, Len(x)) \in Nat /\ Power(b, Len(y) - 1) \in Nat
  BY <1>1, <1>3, PowerIsNat
<1> QED
  BY <1>2, <1>4, <1>5, <1>6

LEMMA ProperUnique ==
    ASSUME NEW b \in Nat, b > 1, NEW x, NEW y, Proper(x, b), Proper(y, b),
           Number(x, b) = Number(y, b)
    PROVE  x = y
<1>1. x \in DigitSeq(b) /\ y \in DigitSeq(b) /\ b \in Nat \ {0}
  BY DEF Proper
<1>2. /\ DigitsOf(x, b, Len(x)) /\ DigitsOf(y, b, Len(y))
      /\ Len(x) \in Nat /\ Len(y) \in Nat
      /\ Number(x, b) \in Nat /\ Number(y, b) \in Nat
  BY <1>1, DigitsOfSeq, NumberBound
<1>3. Len(x) = Len(y)
  <2>1. ~ (Len(x) < Len(y))
    BY <1>2, Longest
  <2>2. ~ (Len(y) < Len(x))
    BY <1>2, Longest
  <2> QED
    BY <1>2, <2>1, <2>2
<1>4. Part(x, b, Len(x)) = Part(y, b, Len(x))
  BY <1>3, NumberIsPart
<1>5. Agree(x, y, Len(x))
  BY <1>1, <1>2, <1>3, <1>4, PartUnique
<1>6. \A i \in 1..Len(x) : x[i] = y[i]
  BY <1>5 DEF Agree
<1> QED
  <2> DEFINE V == 0..(b - 1)
  <2>1. x \in Seq(V) /\ y \in Seq(V)
    BY <1>1 DEF DigitSeq
  <2> HIDE DEF V
  <2> QED
    BY <1>3, <1>6, <2>1

-----------------------------------------------------------------------------
(* The numbers of sequences.                                               *)

(* Zeros behind the digits do not count.                                   *)
Blank(z, m, n) == \A i \in 1..n : i > m => z[i] = 0

LEMMA PartPadded ==
    ASSUME NEW b \in Nat, NEW n \in Nat, NEW m \in 0..n, NEW x, NEW z, Ints(x, m),
           Agree(x, z, m), Blank(z, m, n)
    PROVE  Part(z, b, n) = Part(x, b, m)
<1> DEFINE S == {i \in 0..(n - m) : Part(z, b, m + i) = Part(x, b, m)}
<1>0. Ints(z, n) /\ m \in Nat /\ n - m \in Nat
  <2>1. \A i \in 1..n : i <= m => i \in 1..m
    OBVIOUS
  <2> QED
    BY <2>1 DEF Ints, Agree, Blank
<1>1. 0 \in S
  <2>1. Part(z, b, m) = Part(x, b, m)
    BY <1>0, PartSame
  <2> QED
    BY <1>0, <2>1
<1>2. ASSUME NEW i \in 0..((n - m) - 1), i \in S PROVE i + 1 \in S
  <2>1. m + i \in 0..(n - 1) /\ (m + i) + 1 = m + (i + 1) /\ i + 1 \in 0..(n - m)
    OBVIOUS
  <2>2. /\ Part(z, b, m + i) \in Int /\ Power(b, m + i) \in Nat
        /\ Part(z, b, (m + i) + 1) = Part(z, b, m + i) + z[(m + i) + 1] * Power(b, m + i)
    BY <1>0, <2>1, PartStep
  <2>3. z[(m + i) + 1] = 0
    <3>1. (m + i) + 1 \in 1..n /\ (m + i) + 1 > m
      BY <2>1
    <3> QED
      BY <3>1 DEF Blank
  <2> QED
    BY <1>2, <2>1, <2>2, <2>3
<1>3. \A i \in 0..(n - m) : i \in S
  <2> HIDE DEF S
  <2> QED
    BY <1>0, <1>1, <1>2, Induction, Zenon
<1> QED
  BY <1>0, <1>3

LEMMA IntsOfSeq == \A d \in Seq(Int) : Ints(d, Len(d)) /\ Len(d) \in Nat
BY DEF Ints

LEMMA DigitsInInt == \A b \in Nat : \A d \in DigitSeq(b) : d \in Seq(Int) /\ d \in Seq(Nat)
BY DEF DigitSeq

LEMMA NumberNone == \A b \in Nat : Number(<<>>, b) = 0
<1>1. \A b \in Nat : Number(<<>>, b) = Part(<<>>, b, 0)
  BY NumberIsPart
<1> QED
  BY <1>1, PartNone

LEMMA NumberConcat ==
    ASSUME NEW b \in Nat, NEW d \in Seq(Int), NEW e \in Seq(Int)
    PROVE  Number(d \o e, b) = Number(d, b) + Power(b, Len(d)) * Number(e, b)
<1> DEFINE m == Len(d)
           n == Len(e)
           x == d \o e
<1>1. m \in Nat /\ n \in Nat /\ Len(x) = m + n
  OBVIOUS
<1>2. Ints(x, m + n) /\ Ints(d, m)
  BY DEF Ints
<1>3. Agree(d, x, m) /\ Follows(e, x, m, n)
  BY DEF Agree, Follows
<1>4. /\ Number(x, b) = Part(x, b, m + n)
      /\ Number(d, b) = Part(d, b, m) /\ Number(e, b) = Part(e, b, n)
  BY <1>1, NumberIsPart
<1> HIDE DEF m, n, x
<1>5. Part(x, b, m + n) = Part(x, b, m) + Power(b, m) * Part(e, b, n)
  BY <1>1, <1>2, <1>3, PartShifts
<1>6. Part(d, b, m) = Part(x, b, m)
  BY <1>1, <1>2, <1>3, PartSame
<1> QED
  BY <1>4, <1>5, <1>6 DEF x, m

LEMMA NumberOne == \A b \in Nat, w \in Int : Number(<<w>>, b) = w
<1> SUFFICES ASSUME NEW b \in Nat, NEW w \in Int PROVE Number(<<w>>, b) = w
  OBVIOUS
<1> DEFINE d == <<w>>
<1>1. Ints(d, 1) /\ d[1] = w /\ Len(d) = 1
  BY DEF Ints
<1> HIDE DEF d
<1>2. 1 \in Nat /\ 0 \in 0..(1 - 1) /\ 0 + 1 = 1
  OBVIOUS
<1>3. Part(d, b, 0 + 1) = Part(d, b, 0) + d[0 + 1] * Power(b, 0)
  BY <1>1, <1>2, PartStep
<1>4. Part(d, b, 0) = 0 /\ Power(b, 0) = 1
  BY PartNone, PowerSteps
<1>5. Part(d, b, 1) = w
  BY <1>1, <1>2, <1>3, <1>4
<1> QED
  BY <1>1, <1>5, NumberIsPart DEF d

LEMMA NumberAppend ==
    ASSUME NEW b \in Nat, NEW d \in Seq(Int), NEW w \in Int
    PROVE  Number(Append(d, w), b) = Number(d, b) + w * Power(b, Len(d))
<1>1. Append(d, w) = d \o <<w>> /\ <<w>> \in Seq(Int) /\ Len(d) \in Nat
  OBVIOUS
<1>2. Number(d \o <<w>>, b) = Number(d, b) + Power(b, Len(d)) * Number(<<w>>, b)
  BY <1>1, NumberConcat
<1>3. Power(b, Len(d)) \in Nat
  BY <1>1, PowerIsNat
<1> QED
  BY <1>1, <1>2, <1>3, NumberOne

LEMMA NumberZeros ==
    ASSUME NEW b \in Nat, NEW n \in Nat, NEW z \in Seq(Int), \A i \in 1..Len(z) : z[i] = 0
    PROVE  Number(z, b) = 0
<1>1. Ints(z, 0) /\ Len(z) \in Nat /\ 0 \in 0..Len(z)
  BY DEF Ints
<1>2. Agree(z, z, 0) /\ Blank(z, 0, Len(z))
  BY DEF Agree, Blank
<1>3. Part(z, b, Len(z)) = Part(z, b, 0)
  BY <1>1, <1>2, PartPadded
<1> QED
  BY <1>3, NumberIsPart, PartNone

LEMMA NumberTrim ==
    ASSUME NEW b \in Nat, NEW d \in Seq(Int)
    PROVE  Number(Trim(d), b) = Number(d, b)
<1>1. /\ Trim(d) \in Seq(Int) /\ Len(Trim(d)) \in 0..Len(d)
      /\ \A i \in 1..Len(Trim(d)) : Trim(d)[i] = d[i]
      /\ \A i \in 1..Len(d) : i > Len(Trim(d)) => d[i] = 0
  BY TrimIs
<1>2. Ints(Trim(d), Len(Trim(d))) /\ Len(d) \in Nat
  BY <1>1 DEF Ints
<1>3. Agree(Trim(d), d, Len(Trim(d))) /\ Blank(d, Len(Trim(d)), Len(d))
  BY <1>1 DEF Agree, Blank
<1>4. Part(d, b, Len(d)) = Part(Trim(d), b, Len(Trim(d)))
  BY <1>1, <1>2, <1>3, PartPadded
<1> QED
  BY <1>4, NumberIsPart

LEMMA TrimProper ==
    ASSUME NEW b \in Nat \ {0}, NEW d \in DigitSeq(b)
    PROVE  Proper(Trim(d), b) /\ Number(Trim(d), b) = Number(d, b)
<1>1. d \in Seq(Int) /\ b \in Nat
  BY DEF DigitSeq
<1>2. Trim(d) \in DigitSeq(b) /\ (Len(Trim(d)) # 0 => Trim(d)[Len(Trim(d))] # 0)
  BY TrimIs DEF DigitSeq
<1> QED
  BY <1>1, <1>2, NumberTrim DEF Proper

LEMMA ProperTrim == \A b \in Nat \ {0} : \A d : Proper(d, b) => Trim(d) = d
<1> SUFFICES ASSUME NEW b \in Nat \ {0}, NEW d, Proper(d, b) PROVE Trim(d) = d
  OBVIOUS
<1>1. d \in DigitSeq(b) /\ (Len(d) # 0 => d[Len(d)] # 0)
  BY DEF Proper
<1>2. /\ Len(d) # 0 /\ d[Len(d)] # 0 => Trim(d) = d
      /\ Trim(d) \in DigitSeq(b) /\ Len(Trim(d)) \in 0..Len(d)
  BY <1>1, TrimIs DEF DigitSeq
<1>3. CASE Len(d) = 0
  <2>1. Len(Trim(d)) = 0
    BY <1>2, <1>3
  <2> QED
    BY <1>1, <1>2, <1>3, <2>1 DEF DigitSeq
<1> QED
  BY <1>1, <1>2, <1>3

-----------------------------------------------------------------------------
(* The loops that carry.                                                   *)

CarriesOf(x, base, first) ==
    CHOOSE c : c = [i \in 0 .. Len(x) |-> IF i = 0 THEN first ELSE (x[i] + c[i - 1]) \div base]

LEMMA CarriesAre ==
    ASSUME NEW b \in Nat \ {0}, NEW x \in Seq(Int), NEW first \in Int
    PROVE  /\ Carries(x, b, first) \in [0..Len(x) -> Int]
           /\ Carries(x, b, first)[0] = first
           /\ \A i \in 1..Len(x) :
                Carries(x, b, first)[i] = (x[i] + Carries(x, b, first)[i - 1]) \div b
<1> DEFINE n == Len(x)
           c == Carries(x, b, first)
           step == [v \in (1..n) \X Int |-> (x[v[1]] + v[2]) \div b]
<1>1. n \in Nat /\ \A i \in 1..n : x[i] \in Int
  OBVIOUS
<1>2. \A i \in 1..n, v \in Int : (x[i] + v) \div b \in Int
  BY <1>1
<1>3. step \in [(1..n) \X Int -> Int]
  BY <1>2
<1>4. \A i \in 1..n, v \in Int : step[<<i, v>>] = (x[i] + v) \div b
  OBVIOUS
<1> HIDE DEF step
<1>5. PICK g : Takes(g, n, Int, first, step)
  <2> HIDE DEF n
  <2> QED
    BY <1>1, <1>3, Recursion
<1>6. ASSUME NEW i \in 1..n PROVE g[i] = (x[i] + g[i - 1]) \div b
  <2>0. i - 1 \in 0..n
    BY <1>1
  <2>1. g[i - 1] \in Int /\ g[i] = step[<<i, g[i - 1]>>]
    <3> HIDE DEF n
    <3> QED
      BY <1>5, <2>0 DEF Takes
  <2> QED
    BY <1>4, <2>1
<1>7. g = [i \in 0..Len(x) |-> IF i = 0 THEN first ELSE (x[i] + g[i - 1]) \div b]
  BY <1>5, <1>6 DEF Takes
<1>8. c = CarriesOf(x, b, first)
  BY Zenon DEF Carries, CarriesOf
<1>9. c = [i \in 0..Len(x) |-> IF i = 0 THEN first ELSE (x[i] + c[i - 1]) \div b]
  BY <1>7, <1>8, Zenon DEF CarriesOf
<1> HIDE DEF c
<1>10. c[0] = first /\ \A i \in 1..n : c[i] = (x[i] + c[i - 1]) \div b
  <2>1. c = [i \in 0..n |-> IF i = 0 THEN first ELSE (x[i] + c[i - 1]) \div b]
    BY <1>9
  <2> HIDE DEF n
  <2>2. 0 \in 0..n /\ \A i \in 1..n : i \in 0..n /\ i # 0
    BY <1>1
  <2> QED
    BY <2>1, <2>2
<1> DEFINE S == {i \in 0..n : c[i] \in Int}
<1>11. 0 \in S /\ \A i \in 0..(n - 1) : i \in S => i + 1 \in S
  <2>1. \A i \in 0..(n - 1) : i \in S => i + 1 \in S
    <3> SUFFICES ASSUME NEW i \in 0..(n - 1), i \in S PROVE i + 1 \in S
      OBVIOUS
    <3>1. n \in Nat
      BY <1>1
    <3> HIDE DEF n
    <3>2. i + 1 \in 1..n /\ (i + 1) - 1 = i /\ i + 1 \in 0..n
      BY <3>1
    <3>3. c[i] \in Int
      OBVIOUS
    <3>4. c[i + 1] = (x[i + 1] + c[i]) \div b
      BY <1>10, <3>2
    <3> QED
      BY <1>2, <3>2, <3>3, <3>4
  <2> QED
    BY <1>1, <1>10, <2>1
<1>12. \A i \in 0..n : i \in S
  <2> HIDE DEF S, n
  <2> QED
    BY <1>1, <1>11, Induction, Zenon
<1>13. c \in [0..n -> Int]
  BY <1>9, <1>12
<1> QED
  BY <1>10, <1>13 DEF c

(* They keep the number, in digits of the base and what is left to carry.  *)
LEMMA CarriedIs ==
    ASSUME NEW b \in Nat \ {0}, NEW x \in Seq(Int), NEW first \in Int
    PROVE  /\ Carried(x, b, first) \in DigitSeq(b)
           /\ Len(Carried(x, b, first)) = Len(x)
           /\ Overflow(x, b, first) \in Int
           /\ Number(x, b) + first
              = Number(Carried(x, b, first), b) + Overflow(x, b, first) * Power(b, Len(x))
<1> DEFINE n == Len(x)
           c == Carries(x, b, first)
           y == Carried(x, b, first)
<1>1. /\ c \in [0..n -> Int] /\ c[0] = first
      /\ \A i \in 1..n : c[i] = (x[i] + c[i - 1]) \div b
  BY CarriesAre
<1>2. n \in Nat /\ \A i \in 1..n : x[i] \in Int
  OBVIOUS
<1>3. y = [i \in 1..n |-> (x[i] + c[i - 1]) % b]
  BY DEF Carried
<1>4. Overflow(x, b, first) = c[n]
  BY DEF Overflow
<1> HIDE DEF c, y
<1>5. \A i \in 1..n : y[i] \in 0..(b - 1) /\ x[i] + c[i - 1] = y[i] + b * c[i]
  <2> SUFFICES ASSUME NEW i \in 1..n
               PROVE  y[i] \in 0..(b - 1) /\ x[i] + c[i - 1] = y[i] + b * c[i]
    OBVIOUS
  <2>0. i \in 0..n /\ i - 1 \in 0..n
    BY <1>2
  <2>1. c[i] \in Int /\ c[i - 1] \in Int /\ x[i] \in Int
    BY <1>1, <1>2, <2>0
  <2>2. y[i] = (x[i] + c[i - 1]) % b /\ c[i] = (x[i] + c[i - 1]) \div b
    BY <1>1, <1>3
  <2>3. \A t \in Int : t % b \in 0..(b - 1) /\ t = (t % b) + b * (t \div b)
    OBVIOUS
  <2>4. x[i] + c[i - 1] \in Int
    BY <2>1
  <2> QED
    BY <2>2, <2>3, <2>4
<1>6. y \in [1..n -> 0..(b - 1)]
  BY <1>3, <1>5
<1>7. y \in DigitSeq(b) /\ Len(y) = n
  BY <1>2, <1>6, SeqOfFunction DEF DigitSeq
<1>8. Ints(x, n) /\ Ints(y, n)
  BY <1>2, <1>5 DEF Ints
<1>9. Number(x, b) = Part(x, b, n) /\ Number(y, b) = Part(y, b, n)
  BY <1>7, NumberIsPart
<1> HIDE DEF n
<1>10. Carrying(x, y, c, b, n)
  BY <1>1, <1>5 DEF Carrying
<1>11. Part(x, b, n) + c[0] = Part(y, b, n) + c[n] * Power(b, n)
  BY <1>2, <1>8, <1>10, PartCarries
<1>12. c[n] \in Int
  BY <1>1, <1>2
<1> QED
  BY <1>1, <1>4, <1>7, <1>9, <1>11, <1>12 DEF n, y

(* What columns of natural numbers leave is one, and small if they are.    *)
Columns(x, limit) == \A i \in 1..Len(x) : x[i] \in 0..limit

LEMMA OverflowIs ==
    ASSUME NEW b \in Nat \ {0}, NEW x \in Seq(Nat), NEW first \in Nat
    PROVE  /\ Overflow(x, b, first) \in Nat
           /\ Columns(x, b * (b - 1)) /\ first < b => Overflow(x, b, first) < b
<1> DEFINE n == Len(x)
           c == Carries(x, b, first)
<1>1. x \in Seq(Int)
  OBVIOUS
<1>2. /\ c \in [0..n -> Int] /\ c[0] = first
      /\ \A i \in 1..n : c[i] = (x[i] + c[i - 1]) \div b
  BY <1>1, CarriesAre
<1>3. n \in Nat /\ \A i \in 1..n : x[i] \in Nat
  OBVIOUS
<1>4. Overflow(x, b, first) = c[n]
  BY DEF Overflow
<1> HIDE DEF c
<1> DEFINE S == {i \in 0..n : c[i] \in Nat}
<1>5. 0 \in S /\ \A i \in 0..(n - 1) : i \in S => i + 1 \in S
  <2>1. \A i \in 0..(n - 1) : i \in S => i + 1 \in S
    <3> SUFFICES ASSUME NEW i \in 0..(n - 1), i \in S PROVE i + 1 \in S
      OBVIOUS
    <3>1. i + 1 \in 1..n /\ (i + 1) - 1 = i /\ x[i + 1] \in Nat /\ c[i] \in Nat
      BY <1>3
    <3>2. c[i + 1] = (x[i + 1] + c[i]) \div b
      BY <1>2, <3>1
    <3>3. \A t \in Nat : t \div b \in Nat
      OBVIOUS
    <3>4. x[i + 1] + c[i] \in Nat
      BY <3>1
    <3>5. c[i + 1] \in Nat
      BY <3>2, <3>3, <3>4
    <3>6. i + 1 \in 0..n
      BY <1>3
    <3> QED
      BY <3>5, <3>6
  <2> QED
    BY <1>2, <1>3, <2>1
<1>6. \A i \in 0..n : i \in S
  <2> HIDE DEF S, n
  <2> QED
    BY <1>3, <1>5, Induction, Zenon
<1>7. \A i \in 0..n : c[i] \in Nat
  BY <1>6
<1>8. ASSUME Columns(x, b * (b - 1)), first < b PROVE c[n] < b
  <2> DEFINE T == {i \in 0..n : c[i] < b}
  <2>1. 0 \in T /\ \A i \in 0..(n - 1) : i \in T => i + 1 \in T
    <3>1. \A i \in 0..(n - 1) : i \in T => i + 1 \in T
      <4> SUFFICES ASSUME NEW i \in 0..(n - 1), i \in T PROVE i + 1 \in T
        OBVIOUS
      <4>1. i + 1 \in 1..n /\ (i + 1) - 1 = i /\ c[i] \in Nat /\ c[i] < b /\ i \in 0..n
        BY <1>3, <1>7
      <4>2. c[i + 1] = (x[i + 1] + c[i]) \div b
        BY <1>2, <4>1
      <4>3. x[i + 1] \in 0..(b * (b - 1))
        BY <1>8, <4>1 DEF Columns
      <4>4. \A t \in Nat : t < b * b => t \div b < b
        OBVIOUS
      <4>5. x[i + 1] + c[i] \in Nat /\ x[i + 1] + c[i] < b * b
        BY <4>1, <4>3
      <4>6. c[i + 1] < b /\ i + 1 \in 0..n
        BY <1>3, <4>1, <4>2, <4>4, <4>5
      <4> QED
        BY <4>6
    <3> QED
      BY <1>2, <1>3, <1>8, <3>1
  <2>2. \A i \in 0..n : i \in T
    <3> HIDE DEF T, n
    <3> QED
      BY <1>3, <2>1, Induction, Zenon
  <2> QED
    BY <1>3, <2>2
<1>9. c[n] \in Nat
  BY <1>3, <1>7
<1> QED
  BY <1>4, <1>8, <1>9

-----------------------------------------------------------------------------
(* The operations on big_uints.                                            *)

LEMMA RadixIs == Radix \in Nat /\ Radix > 1 /\ Radix \in Nat \ {0} /\ Ones = Radix - 1
<1>1. WordBits \in Nat /\ 1 \in Nat /\ 1 <= WordBits /\ 2 \in Nat
  BY BigUintAssumption
<1>2. Power(2, 1) <= Power(2, WordBits)
  BY <1>1, PowerGrows
<1>3. Power(2, 1) = 2
  <2>1. Power(2, 0 + 1) = 2 * Power(2, 0) /\ Power(2, 0) = 1
    BY PowerSteps
  <2> QED
    BY <2>1
<1>4. Power(2, WordBits) \in Nat
  BY <1>1, PowerIsNat
<1> QED
  BY <1>2, <1>3, <1>4 DEF Radix, Ones

LEMMA LongerIs ==
    ASSUME NEW a, NEW b, Len(a) \in Nat, Len(b) \in Nat
    PROVE  Longer(a, b) \in Nat /\ Len(a) <= Longer(a, b) /\ Len(b) <= Longer(a, b)
BY DEF Longer

Padded(a, n) == [i \in 1..n |-> At(a, i, 0)]

LEMMA PaddedIs ==
    ASSUME NEW b \in Nat, NEW a \in Seq(Int), NEW n \in Nat, Len(a) <= n
    PROVE  /\ Padded(a, n) \in [1..n -> Int]
           /\ Part(Padded(a, n), b, n) = Number(a, b)
<1> DEFINE m == Len(a)
           z == Padded(a, n)
<1>1. m \in 0..n /\ Ints(a, m) /\ DOMAIN a = 1..m
  BY DEF Ints
<1>2. \A i \in 1..n : At(a, i, 0) = IF i \in 1..m THEN a[i] ELSE 0
  BY <1>1 DEF At
<1>3. \A i \in 1..n : At(a, i, 0) \in Int
  BY <1>1, <1>2 DEF Ints
<1>4. z = [i \in 1..n |-> At(a, i, 0)]
  BY DEF Padded
<1>5. Agree(a, z, m) /\ Blank(z, m, n)
  BY <1>1, <1>2, <1>4 DEF Agree, Blank
<1>6. Number(a, b) = Part(a, b, m)
  BY NumberIsPart
<1>7. z \in [1..n -> Int]
  BY <1>3, <1>4
<1> HIDE DEF m, z
<1>8. Part(z, b, n) = Part(a, b, m)
  BY <1>1, <1>5, PartPadded
<1> QED
  BY <1>6, <1>7, <1>8 DEF z

LEMMA SumsAre ==
    ASSUME NEW b \in Nat, NEW x \in Seq(Int), NEW y \in Seq(Int)
    PROVE  /\ Sums(x, y) \in Seq(Int) /\ Differences(x, y) \in Seq(Int)
           /\ Len(Sums(x, y)) = Longer(x, y) /\ Len(Differences(x, y)) = Longer(x, y)
           /\ Number(Sums(x, y), b) = Number(x, b) + Number(y, b)
           /\ Number(Differences(x, y), b) = Number(x, b) - Number(y, b)
<1> DEFINE n == Longer(x, y)
           p == Padded(x, n)
           q == Padded(y, n)
           m == [i \in 1..n |-> q[i] * (-1)]
           s == Sums(x, y)
           d == Differences(x, y)
<1>1. n \in Nat /\ Len(x) <= n /\ Len(y) <= n
  BY LongerIs
<1>2. /\ p \in [1..n -> Int] /\ Part(p, b, n) = Number(x, b)
      /\ q \in [1..n -> Int] /\ Part(q, b, n) = Number(y, b)
  <2> HIDE DEF n
  <2> QED
    BY <1>1, PaddedIs
<1>3. /\ s = [i \in 1..n |-> p[i] + q[i]]
      /\ d = [i \in 1..n |-> p[i] - q[i]]
  BY DEF Sums, Differences, Padded
<1> HIDE DEF n, p, q, s, d
<1>4. s \in [1..n -> Int] /\ d \in [1..n -> Int] /\ m \in [1..n -> Int]
  BY <1>2, <1>3
<1>5. s \in Seq(Int) /\ Len(s) = n /\ d \in Seq(Int) /\ Len(d) = n
  BY <1>1, <1>4, SeqOfFunction
<1>6. Ints(p, n) /\ Ints(q, n) /\ Ints(m, n)
  BY <1>2, <1>4 DEF Ints
<1>7. \A i \in 1..n : s[i] = p[i] + q[i]
  BY <1>3
<1>8. \A i \in 1..n : d[i] = p[i] + m[i]
  BY <1>2, <1>3
<1>9. \A i \in 1..n : m[i] = q[i] * (-1)
  OBVIOUS
<1> HIDE DEF m
<1>10. Part(s, b, n) = Part(p, b, n) + Part(q, b, n)
  BY <1>1, <1>6, <1>7, PartAdds
<1>11. Part(d, b, n) = Part(p, b, n) + Part(m, b, n)
  BY <1>1, <1>6, <1>8, PartAdds
<1>12. Part(m, b, n) = Part(q, b, n) * (-1)
  BY <1>1, <1>6, <1>9, PartScales
<1>13. Number(s, b) = Part(s, b, n) /\ Number(d, b) = Part(d, b, n)
  BY <1>5, NumberIsPart
<1>14. Number(x, b) \in Int /\ Number(y, b) \in Int
  BY NumberIsInt
<1>15. /\ Number(s, b) = Number(x, b) + Number(y, b)
       /\ Number(d, b) = Number(x, b) - Number(y, b)
  BY <1>2, <1>10, <1>11, <1>12, <1>13, <1>14
<1> QED
  BY <1>5, <1>15 DEF s, d, n

(* The columns that digits make.                                           *)
LEMMA SumsColumns ==
    ASSUME NEW b \in Nat \ {0}, b > 1, NEW x \in DigitSeq(b), NEW y \in DigitSeq(b)
    PROVE  Sums(x, y) \in Seq(Nat) /\ Columns(Sums(x, y), b * (b - 1))
<1> DEFINE n == Longer(x, y)
<1>1. Len(x) \in Nat /\ Len(y) \in Nat
  BY DigitsOfSeq
<1>2. n \in Nat
  BY <1>1, LongerIs
<1>3. \A i \in 1..n : At(x, i, 0) \in 0..(b - 1) /\ At(y, i, 0) \in 0..(b - 1)
  BY DEF At, DigitSeq
<1>4. (b - 1) + (b - 1) <= b * (b - 1)
  OBVIOUS
<1>5. \A u, v \in 0..(b - 1) : u + v \in 0..(b * (b - 1))
  BY <1>4
<1>6. \A i \in 1..n : At(x, i, 0) + At(y, i, 0) \in 0..(b * (b - 1))
  BY <1>3, <1>5
<1>7. b * (b - 1) \in Nat
  OBVIOUS
<1>8. Sums(x, y) = [i \in 1..n |-> At(x, i, 0) + At(y, i, 0)]
  BY DEF Sums
<1> HIDE DEF n
<1> DEFINE s == Sums(x, y)
           top == b * (b - 1)
<1>9. s \in [1..n -> 0..top]
  BY <1>6, <1>8
<1> HIDE DEF s, top
<1>10. s \in Seq(0..top) /\ Len(s) = n
  BY <1>2, <1>9, SeqOfFunction
<1>11. s \in Seq(Nat) /\ Columns(s, top)
  BY <1>2, <1>9, <1>10 DEF Columns
<1> QED
  BY <1>11 DEF s, top

(* A big_uint that stands for a number.                                    *)
Is(a, n) == Proper(a, Radix) /\ Value(a) = n

LEMMA BigIs ==
    ASSUME NEW a, NEW n, Is(a, n)
    PROVE  /\ a \in DigitSeq(Radix) /\ a \in Seq(Int) /\ Len(a) \in Nat
           /\ n \in Nat /\ n = Number(a, Radix) /\ n < Power(Radix, Len(a))
           /\ Power(Radix, Len(a)) \in Nat
<1>1. a \in DigitSeq(Radix) /\ n = Number(a, Radix)
  BY DEF Is, Proper, Value
<1>2. a \in Seq(Int) /\ Len(a) \in Nat
  BY <1>1, RadixIs, DigitsInInt
<1> QED
  BY <1>1, <1>2, RadixIs, NumberBound, PowerIsNat

LEMMA IsUnique == \A a, b, n : Is(a, n) /\ Is(b, n) => a = b
BY RadixIs, ProperUnique DEF Is, Value

LEMMA TrimIsBig ==
    ASSUME NEW d \in DigitSeq(Radix)
    PROVE  Is(Trim(d), Number(d, Radix))
BY RadixIs, TrimProper DEF Is, Value

LEMMA NoneIs == Is(<<>>, 0)
<1>1. <<>> \in DigitSeq(Radix) /\ Len(<<>>) = 0
  BY DEF DigitSeq
<1> QED
  BY <1>1, RadixIs, NumberNone DEF Is, Proper, Value

(* Digits and one more of them.                                            *)
LEMMA DigitsAppend ==
    ASSUME NEW b \in Nat \ {0}, NEW d \in DigitSeq(b), NEW w \in 0..(b - 1)
    PROVE  /\ Append(d, w) \in DigitSeq(b)
           /\ Number(Append(d, w), b) = Number(d, b) + w * Power(b, Len(d))
<1>1. Append(d, w) \in DigitSeq(b)
  BY DEF DigitSeq
<1>2. d \in Seq(Int) /\ w \in Int /\ b \in Nat
  BY DEF DigitSeq
<1> QED
  BY <1>1, <1>2, NumberAppend

(* A column loop and what it carries out.                                  *)
LEMMA WholeRow ==
    ASSUME NEW x \in Seq(Nat), Columns(x, Radix * (Radix - 1))
    PROVE  LET row == Append(Carried(x, Radix, 0), Overflow(x, Radix, 0))
           IN  row \in DigitSeq(Radix) /\ Number(row, Radix) = Number(x, Radix)
<1> DEFINE y == Carried(x, Radix, 0)
           o == Overflow(x, Radix, 0)
<1>1. x \in Seq(Int) /\ 0 \in Nat /\ 0 \in Int /\ 0 < Radix /\ Len(x) \in Nat
  BY RadixIs
<1>2. /\ y \in DigitSeq(Radix) /\ Len(y) = Len(x)
      /\ Number(x, Radix) + 0 = Number(y, Radix) + o * Power(Radix, Len(x))
  BY <1>1, RadixIs, CarriedIs
<1>3. o \in Nat /\ o < Radix
  BY <1>1, RadixIs, OverflowIs
<1>4. o \in 0..(Radix - 1)
  BY <1>3, RadixIs
<1> HIDE DEF y, o
<1>5. /\ Append(y, o) \in DigitSeq(Radix)
      /\ Number(Append(y, o), Radix) = Number(y, Radix) + o * Power(Radix, Len(y))
  BY <1>2, <1>4, RadixIs, DigitsAppend
<1>6. Number(x, Radix) \in Int
  BY <1>1, RadixIs, NumberIsInt
<1>7. Number(Append(y, o), Radix) = Number(x, Radix)
  BY <1>2, <1>5, <1>6
<1> QED
  BY <1>5, <1>7 DEF y, o

LEMMA PlusIs ==
    ASSUME NEW a, NEW b, NEW m, NEW n, Is(a, m), Is(b, n)
    PROVE  Is(Plus(a, b), m + n)
<1> DEFINE x == Sums(a, b)
           row == Append(Carried(x, Radix, 0), Overflow(x, Radix, 0))
<1>1. /\ a \in DigitSeq(Radix) /\ a \in Seq(Int) /\ m = Number(a, Radix)
      /\ b \in DigitSeq(Radix) /\ b \in Seq(Int) /\ n = Number(b, Radix)
  BY BigIs
<1>2. Number(x, Radix) = m + n
  BY <1>1, RadixIs, SumsAre
<1>3. x \in Seq(Nat) /\ Columns(x, Radix * (Radix - 1))
  BY <1>1, RadixIs, SumsColumns
<1>4. Plus(a, b) = Trim(row)
  BY DEF Plus
<1> HIDE DEF x
<1>5. row \in DigitSeq(Radix) /\ Number(row, Radix) = Number(x, Radix)
  BY <1>3, WholeRow
<1> HIDE DEF row
<1> QED
  BY <1>2, <1>4, <1>5, TrimIsBig

LEMMA MinusIs ==
    ASSUME NEW a, NEW b, NEW m, NEW n, Is(a, m), Is(b, n), n <= m
    PROVE  Is(Minus(a, b), m - n)
<1> DEFINE x == Differences(a, b)
           y == Carried(x, Radix, 0)
           o == Overflow(x, Radix, 0)
           l == Longer(a, b)
<1>1. /\ a \in Seq(Int) /\ m = Number(a, Radix) /\ m \in Nat /\ Len(a) \in Nat
      /\ b \in Seq(Int) /\ n = Number(b, Radix) /\ n \in Nat /\ Len(b) \in Nat
      /\ m < Power(Radix, Len(a)) /\ Power(Radix, Len(a)) \in Nat
  BY BigIs
<1>2. x \in Seq(Int) /\ Len(x) = l /\ Number(x, Radix) = m - n
  BY <1>1, RadixIs, SumsAre
<1>3. l \in Nat /\ Len(a) <= l
  BY <1>1, LongerIs
<1>4. Power(Radix, Len(a)) <= Power(Radix, l) /\ Power(Radix, l) \in Nat
  BY <1>1, <1>3, RadixIs, PowerGrows, PowerIsNat
<1> HIDE DEF x, l
<1>5. /\ y \in DigitSeq(Radix) /\ Len(y) = l /\ o \in Int
      /\ Number(x, Radix) + 0 = Number(y, Radix) + o * Power(Radix, l)
  BY <1>2, RadixIs, CarriedIs
<1> HIDE DEF y, o
<1>6. Number(y, Radix) \in Nat /\ Number(y, Radix) < Power(Radix, l)
  BY <1>5, RadixIs, NumberBound
<1>7. Number(y, Radix) = m - n
  <2> DEFINE p == Power(Radix, l)
             r == Number(y, Radix)
  <2>1. p \in Nat /\ r \in Int /\ 0 <= r /\ r < p /\ m - n \in Int /\ 0 <= m - n /\ m - n < p
    BY <1>1, <1>4, <1>6
  <2>2. r + o * p = (m - n) + 0 * p
    BY <1>1, <1>2, <1>4, <1>5
  <2> HIDE DEF p, r
  <2>3. r = m - n
    <3>1. 0 \in Int /\ o \in Int
      BY <1>5
    <3> QED
      BY <2>1, <2>2, <3>1, OneQuotient
  <2> QED
    BY <2>3 DEF r
<1>8. Minus(a, b) = Trim(y)
  BY DEF Minus, x, y
<1> QED
  BY <1>5, <1>7, <1>8, TrimIsBig

LEMMA RowIs ==
    ASSUME NEW a \in DigitSeq(Radix), NEW w \in 0..Ones, NEW shift \in Nat
    PROVE  /\ Row(a, w, shift) \in DigitSeq(Radix)
           /\ Number(Row(a, w, shift), Radix) = (Number(a, Radix) * w) * Power(Radix, shift)
<1> DEFINE n == Len(a)
           x == [i \in 1..n |-> a[i] * w]
           z == [i \in 1..shift |-> 0]
           row == Append(Carried(x, Radix, 0), Overflow(x, Radix, 0))
<1>1. DigitsOf(a, Radix, n) /\ Ints(a, n) /\ n \in Nat
  BY RadixIs, DigitsOfSeq
<1>2. Row(a, w, shift) = z \o row
  BY DEF Row
<1>3. \A u, v \in 0..(Radix - 1) : u * v \in 0..(Radix * (Radix - 1))
  <2> SUFFICES ASSUME NEW u \in 0..(Radix - 1), NEW v \in 0..(Radix - 1)
               PROVE  u * v \in 0..(Radix * (Radix - 1))
    OBVIOUS
  <2>1. 0 <= u * v
    BY RadixIs
  <2>2. 0 <= (Radix - u) * (Radix - 1) /\ 0 <= u * ((Radix - 1) - v)
    BY RadixIs
  <2>3. Radix * (Radix - 1) - u * v
        = (Radix - u) * (Radix - 1) + u * ((Radix - 1) - v)
    BY RadixIs
  <2> QED
    BY <2>1, <2>2, <2>3, RadixIs
<1>4. \A i \in 1..n : a[i] \in 0..(Radix - 1)
  BY <1>1 DEF DigitsOf
<1>5. w \in 0..(Radix - 1) /\ w \in Int
  BY RadixIs
<1>6. \A i \in 1..n : a[i] * w \in 0..(Radix * (Radix - 1))
  BY <1>3, <1>4, <1>5
<1> DEFINE top == Radix * (Radix - 1)
<1>7. top \in Nat
  BY RadixIs
<1> HIDE DEF n, top
<1>8. x \in [1..n -> 0..top] /\ \A i \in 1..n : x[i] = a[i] * w
  BY <1>6 DEF top
<1> HIDE DEF x
<1>9. x \in Seq(0..top) /\ Len(x) = n
  BY <1>1, <1>8, SeqOfFunction
<1>10. x \in Seq(Nat) /\ Columns(x, top)
  BY <1>7, <1>8, <1>9 DEF Columns
<1>11. row \in DigitSeq(Radix) /\ Number(row, Radix) = Number(x, Radix)
  BY <1>10, WholeRow DEF top
<1>12. Number(x, Radix) = Number(a, Radix) * w
  <2>1. Part(x, Radix, n) = Part(a, Radix, n) * w
    BY <1>1, <1>5, <1>8, RadixIs, PartScales
  <2> QED
    BY <1>9, <2>1, NumberIsPart DEF n
<1> HIDE DEF row
<1>13. /\ z \in DigitSeq(Radix) /\ z \in Seq(Int) /\ Len(z) = shift
       /\ Number(z, Radix) = 0
  <2>1. z \in [1..shift -> 0..(Radix - 1)] /\ z \in [1..shift -> Int]
    BY RadixIs
  <2>2. \A i \in 1..shift : z[i] = 0
    OBVIOUS
  <2> HIDE DEF z
  <2>3. z \in Seq(0..(Radix - 1)) /\ z \in Seq(Int) /\ Len(z) = shift
    BY <2>1, SeqOfFunction
  <2>4. Number(z, Radix) = 0
    BY <2>2, <2>3, RadixIs, NumberZeros
  <2> QED
    BY <2>3, <2>4 DEF DigitSeq
<1> HIDE DEF z
<1>14. row \in Seq(Int)
  BY <1>11, RadixIs, DigitsInInt
<1>15. Number(z \o row, Radix) = Number(z, Radix) + Power(Radix, shift) * Number(row, Radix)
  BY <1>13, <1>14, RadixIs, NumberConcat
<1>16. z \o row \in DigitSeq(Radix)
  BY <1>11, <1>13 DEF DigitSeq
<1>17. Number(a, Radix) \in Nat /\ Power(Radix, shift) \in Nat
  BY RadixIs, NumberBound, PowerIsNat
<1>18. Number(z \o row, Radix) = (Number(a, Radix) * w) * Power(Radix, shift)
  BY <1>5, <1>11, <1>12, <1>13, <1>15, <1>17
<1> QED
  BY <1>2, <1>16, <1>18

LEMMA TimesWordIs ==
    ASSUME NEW a, NEW m, NEW w \in 0..Ones, Is(a, m)
    PROVE  Is(TimesWord(a, w), m * w)
<1>1. a \in DigitSeq(Radix) /\ m = Number(a, Radix) /\ m \in Nat /\ w \in Nat
  BY BigIs, RadixIs
<1>2. CASE a = <<>> \/ w = 0
  <2>1. m * w = 0
    BY <1>1, <1>2, RadixIs, NumberNone
  <2>2. TimesWord(a, w) = <<>>
    BY <1>2 DEF TimesWord
  <2> QED
    BY <2>1, <2>2, NoneIs
<1>3. CASE ~ (a = <<>> \/ w = 0)
  <2>1. TimesWord(a, w) = Trim(Row(a, w, 0))
    BY <1>3 DEF TimesWord
  <2>2. /\ Row(a, w, 0) \in DigitSeq(Radix)
        /\ Number(Row(a, w, 0), Radix) = (Number(a, Radix) * w) * Power(Radix, 0)
    BY <1>1, RowIs
  <2>3. Power(Radix, 0) = 1
    BY RadixIs, PowerSteps
  <2>4. Number(Row(a, w, 0), Radix) = m * w
    BY <1>1, <2>2, <2>3
  <2> QED
    BY <2>1, <2>2, <2>4, TrimIsBig
<1> QED
  BY <1>2, <1>3

Bigs == {d \in DigitSeq(Radix) : Proper(d, Radix)}

LEMMA BigsAre == \A a : a \in Bigs <=> Is(a, Number(a, Radix))
BY DEF Bigs, Is, Value, Proper

LEMMA BigsOf == \A a, n : Is(a, n) => a \in Bigs
BY DEF Bigs, Is, Value, Proper

(* The sums of the rows of a product.                                      *)
ProductsOf(a, b) ==
    CHOOSE sum : sum = [j \in 0 .. Len(b) |->
                          IF j = 0 THEN <<>> ELSE Plus(sum[j - 1], Trim(Row(a, b[j], j - 1)))]

LEMMA ProductsAre ==
    ASSUME NEW a \in DigitSeq(Radix), NEW b \in DigitSeq(Radix)
    PROVE  /\ ProductsOf(a, b)[0] = <<>>
           /\ \A j \in 1..Len(b) :
                /\ ProductsOf(a, b)[j - 1] \in Bigs
                /\ ProductsOf(a, b)[j]
                   = Plus(ProductsOf(a, b)[j - 1], Trim(Row(a, b[j], j - 1)))
<1> DEFINE n == Len(b)
           row == [j \in 1..n |-> Trim(Row(a, b[j], j - 1))]
           step == [v \in (1..n) \X Bigs |-> Plus(v[2], row[v[1]])]
           sum == ProductsOf(a, b)
<1>1. DigitsOf(b, Radix, n) /\ n \in Nat
  BY RadixIs, DigitsOfSeq
<1> HIDE DEF n
<1>2. \A j \in 1..n : row[j] \in Bigs
  <2> SUFFICES ASSUME NEW j \in 1..n PROVE row[j] \in Bigs
    OBVIOUS
  <2>1. b[j] \in 0..Ones /\ j - 1 \in Nat
    BY <1>1, RadixIs DEF DigitsOf
  <2>2. Row(a, b[j], j - 1) \in DigitSeq(Radix)
    BY <2>1, RowIs
  <2>3. Trim(Row(a, b[j], j - 1)) \in Bigs
    BY <2>2, TrimIsBig, BigsOf
  <2> QED
    BY <2>3
<1>3. \A d, e \in Bigs : Plus(d, e) \in Bigs
  BY BigsAre, BigsOf, PlusIs
<1>4. <<>> \in Bigs
  BY NoneIs, BigsOf
<1>5. \A j \in 1..n : row[j] = Trim(Row(a, b[j], j - 1))
  OBVIOUS
<1> HIDE DEF row
<1>6. step \in [(1..n) \X Bigs -> Bigs]
  BY <1>2, <1>3
<1>7. \A j \in 1..n, d \in Bigs : step[<<j, d>>] = Plus(d, row[j])
  OBVIOUS
<1> HIDE DEF step
<1>8. PICK g : Takes(g, n, Bigs, <<>>, step)
  BY <1>1, <1>4, <1>6, Recursion
<1>9. ASSUME NEW j \in 1..n
      PROVE  g[j - 1] \in Bigs /\ g[j] = Plus(g[j - 1], Trim(Row(a, b[j], j - 1)))
  <2>1. g[j - 1] \in Bigs /\ g[j] = step[<<j, g[j - 1]>>]
    BY <1>1, <1>8 DEF Takes
  <2> QED
    BY <1>5, <1>7, <2>1
<1>10. g = [j \in 0..n |-> IF j = 0 THEN <<>> ELSE Plus(g[j - 1], Trim(Row(a, b[j], j - 1)))]
  BY <1>1, <1>8, <1>9 DEF Takes
<1>11. sum = [j \in 0..n |-> IF j = 0 THEN <<>> ELSE Plus(sum[j - 1], Trim(Row(a, b[j], j - 1)))]
  BY <1>10, Zenon DEF ProductsOf, n
<1> HIDE DEF sum
<1>12. sum[0] = <<>> /\ \A j \in 1..n : sum[j] = Plus(sum[j - 1], Trim(Row(a, b[j], j - 1)))
  BY <1>1, <1>11
<1> DEFINE S == {j \in 0..n : sum[j] \in Bigs}
<1>13. 0 \in S /\ \A i \in 0..(n - 1) : i \in S => i + 1 \in S
  <2>1. ASSUME NEW i \in 0..(n - 1), i \in S PROVE i + 1 \in S
    <3>1. i + 1 \in 1..n /\ i + 1 \in 0..n /\ (i + 1) - 1 = i
      BY <1>1
    <3>2. sum[i + 1] = Plus(sum[i], row[i + 1])
      BY <1>5, <1>12, <3>1
    <3>3. sum[i] \in Bigs
      BY <2>1
    <3> QED
      BY <1>2, <1>3, <3>1, <3>2, <3>3
  <2> QED
    BY <1>1, <1>4, <1>12, <2>1
<1>14. \A i \in 0..n : i \in S
  <2> HIDE DEF S
  <2> QED
    BY <1>1, <1>13, Induction, Zenon
<1>15. \A j \in 1..n : sum[j - 1] \in Bigs
  <2>1. \A j \in 1..n : j - 1 \in 0..n
    BY <1>1
  <2> QED
    BY <1>14, <2>1
<1> QED
  BY <1>12, <1>15 DEF sum, n

LEMMA TimesIs ==
    ASSUME NEW a, NEW b, NEW m, NEW n, Is(a, m), Is(b, n)
    PROVE  Is(Times(a, b), m * n)
<1> DEFINE l == Len(b)
           sum == ProductsOf(a, b)
<1>1. /\ a \in DigitSeq(Radix) /\ m = Number(a, Radix) /\ m \in Nat
      /\ b \in DigitSeq(Radix) /\ n = Number(b, Radix) /\ n \in Nat
  BY BigIs
<1>2. DigitsOf(b, Radix, l) /\ Ints(b, l) /\ l \in Nat
  BY <1>1, RadixIs, DigitsOfSeq
<1>3. CASE a = <<>> \/ b = <<>>
  <2>1. m * n = 0
    BY <1>1, <1>3, RadixIs, NumberNone
  <2>2. Times(a, b) = <<>>
    BY <1>3 DEF Times
  <2> QED
    BY <2>1, <2>2, NoneIs
<1>4. CASE ~ (a = <<>> \/ b = <<>>)
  <2>1. Times(a, b) = sum[l]
    BY <1>4 DEF Times, ProductsOf
  <2>2. /\ sum[0] = <<>>
        /\ \A j \in 1..l : /\ sum[j - 1] \in Bigs
                             /\ sum[j] = Plus(sum[j - 1], Trim(Row(a, b[j], j - 1)))
    BY <1>1, ProductsAre
  <2>3. n = Part(b, Radix, l)
    BY <1>1, NumberIsPart
  <2> HIDE DEF l, sum
  <2> DEFINE S == {j \in 0..l : Is(sum[j], m * Part(b, Radix, j))}
  <2>4. 0 \in S
    <3>1. Part(b, Radix, 0) = 0 /\ m * 0 = 0
      BY <1>1, RadixIs, PartNone
    <3>2. Is(sum[0], m * Part(b, Radix, 0))
      BY <2>2, <3>1, NoneIs
    <3> QED
      BY <1>2, <3>2
  <2>5. ASSUME NEW i \in 0..(l - 1), i \in S PROVE i + 1 \in S
    <3>1. i + 1 \in 1..l /\ i + 1 \in 0..l /\ (i + 1) - 1 = i /\ i \in Nat
      BY <1>2
    <3>2. sum[i + 1] = Plus(sum[i], Trim(Row(a, b[i + 1], i)))
      BY <2>2, <3>1
    <3>3. b[i + 1] \in 0..Ones
      BY <1>2, <3>1, RadixIs DEF DigitsOf
    <3>4. /\ Row(a, b[i + 1], i) \in DigitSeq(Radix)
          /\ Number(Row(a, b[i + 1], i), Radix) = (m * b[i + 1]) * Power(Radix, i)
      BY <1>1, <3>1, <3>3, RowIs
    <3>5. Is(Trim(Row(a, b[i + 1], i)), (m * b[i + 1]) * Power(Radix, i))
      BY <3>4, TrimIsBig
    <3>6. Is(sum[i], m * Part(b, Radix, i))
      BY <2>5
    <3>7. Is(sum[i + 1], m * Part(b, Radix, i) + (m * b[i + 1]) * Power(Radix, i))
      BY <3>2, <3>5, <3>6, PlusIs
    <3>8. /\ Part(b, Radix, i) \in Int /\ Power(Radix, i) \in Nat /\ b[i + 1] \in Int
          /\ Part(b, Radix, i + 1) = Part(b, Radix, i) + b[i + 1] * Power(Radix, i)
      BY <1>2, RadixIs, PartStep
    <3>9. m * Part(b, Radix, i) + (m * b[i + 1]) * Power(Radix, i)
          = m * (Part(b, Radix, i) + b[i + 1] * Power(Radix, i))
      <4> DEFINE p == Part(b, Radix, i)
                 q == b[i + 1]
                 r == Power(Radix, i)
      <4>1. p \in Int /\ q \in Int /\ r \in Int /\ m \in Int
        BY <1>1, <3>8
      <4> HIDE DEF p, q, r
      <4>2. m * p + (m * q) * r = m * (p + q * r)
        BY <4>1
      <4> QED
        BY <4>2 DEF p, q, r
    <3>10. m * Part(b, Radix, i) + (m * b[i + 1]) * Power(Radix, i) = m * Part(b, Radix, i + 1)
      BY <3>8, <3>9
    <3>11. Is(sum[i + 1], m * Part(b, Radix, i + 1))
      BY <3>7, <3>10
    <3> QED
      BY <3>1, <3>11
  <2>6. \A j \in 0..l : j \in S
    <3> HIDE DEF S
    <3> QED
      BY <1>2, <2>4, <2>5, Induction, Zenon
  <2>7. Is(sum[l], m * Part(b, Radix, l))
    BY <1>2, <2>6
  <2> QED
    BY <2>1, <2>3, <2>7
<1> QED
  BY <1>3, <1>4

-----------------------------------------------------------------------------
(* Built-in integers.                                                      *)
LEMMA PowerOne == \A b \in Nat : Power(b, 0) = 1 /\ Power(b, 1) = b
<1> SUFFICES ASSUME NEW b \in Nat PROVE Power(b, 0) = 1 /\ Power(b, 1) = b
  OBVIOUS
<1>1. Power(b, 0 + 1) = b * Power(b, 0) /\ Power(b, 0) = 1
  BY PowerSteps
<1> QED
  BY <1>1

LEMMA NumberPair == \A b \in Nat, r, q \in Int : Number(<<r, q>>, b) = r + q * b
<1> SUFFICES ASSUME NEW b \in Nat, NEW r \in Int, NEW q \in Int
             PROVE  Number(<<r, q>>, b) = r + q * b
  OBVIOUS
<1> DEFINE d == <<r, q>>
<1>1. Ints(d, 2) /\ d[1] = r /\ d[2] = q /\ Len(d) = 2
  BY DEF Ints
<1> HIDE DEF d
<1>2. 2 \in Nat /\ 0 \in 0..(2 - 1) /\ 0 + 1 = 1 /\ 1 \in 0..(2 - 1) /\ 1 + 1 = 2
  OBVIOUS
<1>3. /\ Part(d, b, 0 + 1) = Part(d, b, 0) + d[0 + 1] * Power(b, 0)
      /\ Part(d, b, 1 + 1) = Part(d, b, 1) + d[1 + 1] * Power(b, 1)
  BY <1>1, <1>2, PartStep
<1>4. Part(d, b, 0) = 0 /\ Power(b, 0) = 1 /\ Power(b, 1) = b
  BY PartNone, PowerOne
<1>5. Part(d, b, 2) = r + q * b
  BY <1>1, <1>2, <1>3, <1>4
<1> QED
  BY <1>1, <1>5, NumberIsPart DEF d

LEMMA TwoWords ==
    ASSUME NEW n \in 0..(Width - 1)
    PROVE  /\ n % Radix \in 0..Ones /\ n \div Radix \in 0..Ones
           /\ n = (n % Radix) + (n \div Radix) * Radix
           /\ <<n % Radix, n \div Radix>> \in DigitSeq(Radix)
           /\ Number(<<n % Radix, n \div Radix>>, Radix) = n
<1> DEFINE r == n % Radix
           q == n \div Radix
<1>1. n \in Nat /\ n < Radix * Radix
  BY RadixIs DEF Width
<1>2. \A b \in Nat \ {0} : \A t \in Nat :
        t < b * b => t % b \in 0..(b - 1) /\ t \div b \in 0..(b - 1) /\ t = (t % b) + (t \div b) * b
  OBVIOUS
<1>3. r \in 0..Ones /\ q \in 0..Ones /\ n = r + q * Radix
  BY <1>1, <1>2, RadixIs
<1> HIDE DEF r, q
<1>4. Number(<<r, q>>, Radix) = n
  <2>1. r \in Int /\ q \in Int
    BY <1>3, RadixIs
  <2> QED
    BY <1>3, <2>1, RadixIs, NumberPair
<1>5. <<r, q>> \in DigitSeq(Radix)
  BY <1>3, RadixIs DEF DigitSeq
<1> QED
  BY <1>3, <1>4, <1>5 DEF r, q

LEMMA FromIntIs == ASSUME NEW n \in 0..(Width - 1) PROVE Is(FromInt(n), n)
BY TwoWords, TrimIsBig DEF FromInt

LEMMA EqualsIntIs ==
    ASSUME NEW a, NEW m, Is(a, m), NEW n \in 0..(Width - 1)
    PROVE  EqualsInt(a, n) <=> m = n
<1>1. /\ n % Radix \in 0..Ones /\ n \div Radix \in 0..Ones
      /\ n = (n % Radix) + (n \div Radix) * Radix
      /\ <<n % Radix, n \div Radix>> \in DigitSeq(Radix)
      /\ Number(<<n % Radix, n \div Radix>>, Radix) = n
  BY TwoWords
<1>2. n \in Nat /\ Radix \in Nat
  BY RadixIs DEF Width
<1>3. CASE n = 0
  <2>1. EqualsInt(a, n) <=> a = <<>> \/ a = <<0>>
    BY <1>3, RadixIs DEF EqualsInt
  <2>2. a # <<0>>
    BY DEF Is, Proper
  <2>3. m = Number(a, Radix)
    BY BigIs
  <2>4. a = <<>> => m = 0
    BY <2>3, RadixIs, NumberNone
  <2>5. m = 0 => a = <<>>
    BY NoneIs, IsUnique
  <2> QED
    BY <1>3, <2>1, <2>2, <2>4, <2>5
<1>4. CASE n # 0 /\ n < Radix
  <2>1. EqualsInt(a, n) <=> a = <<n>>
    BY <1>2, <1>4 DEF EqualsInt
  <2>2. <<n>> \in DigitSeq(Radix) /\ Len(<<n>>) = 1 /\ <<n>>[1] # 0
    BY <1>2, <1>4 DEF DigitSeq
  <2>3. Number(<<n>>, Radix) = n
    BY <1>2, NumberOne
  <2>4. Is(<<n>>, n)
    BY <2>2, <2>3 DEF Is, Proper, Value
  <2>5. a = <<n>> => m = n
    BY <2>3, BigIs
  <2>6. m = n => a = <<n>>
    BY <2>4, IsUnique
  <2> QED
    BY <2>1, <2>5, <2>6
<1>5. CASE n # 0 /\ n >= Radix
  <2> DEFINE r == n % Radix
             q == n \div Radix
  <2>1. EqualsInt(a, n) <=> a = <<r, q>>
    BY <1>2, <1>5 DEF EqualsInt
  <2>2. q # 0
    BY <1>1, <1>2, <1>5, RadixIs
  <2> HIDE DEF r, q
  <2>3. Is(<<r, q>>, n)
    <3>1. <<r, q>> \in DigitSeq(Radix) /\ Number(<<r, q>>, Radix) = n
      BY <1>1 DEF r, q
    <3>2. Len(<<r, q>>) = 2 /\ <<r, q>>[2] # 0
      BY <2>2
    <3> QED
      BY <3>1, <3>2 DEF Is, Proper, Value
  <2>4. a = <<r, q>> => m = n
    BY <2>3 DEF Is
  <2>5. m = n => a = <<r, q>>
    BY <2>3, IsUnique
  <2> QED
    BY <2>1, <2>4, <2>5
<1> QED
  BY <1>2, <1>3, <1>4, <1>5

-----------------------------------------------------------------------------
(* Strings of digits, most significant first.                              *)

(* The number of the first n digits, as from_chars reads them.             *)
Horner(s, b, n) ==
    LET h[i \in 0 .. n] == IF i = 0 THEN 0 ELSE h[i - 1] * b + s[i]
    IN  h[n]

HornersOf(s, b, n) ==
    CHOOSE h : h = [i \in 0 .. n |-> IF i = 0 THEN 0 ELSE h[i - 1] * b + s[i]]

LEMMA FromCharsIsHorner == \A s, b : FromChars(s, b) = Horner(s, b, Len(s))
BY Zenon DEF FromChars, Horner

LEMMA HornersAre ==
    ASSUME NEW b \in Nat, NEW n \in Nat, NEW s, Ints(s, n)
    PROVE  /\ Horner(s, b, n) = HornersOf(s, b, n)[n]
           /\ HornersOf(s, b, n) \in [0..n -> Int] /\ HornersOf(s, b, n)[0] = 0
           /\ \A i \in 1..n : HornersOf(s, b, n)[i] = HornersOf(s, b, n)[i - 1] * b + s[i]
<1> DEFINE h == HornersOf(s, b, n)
           step == [x \in (1..n) \X Int |-> x[2] * b + s[x[1]]]
<1>1. \A i \in 1..n : s[i] \in Int
  BY DEF Ints
<1>2. 0 \in Int /\ step \in [(1..n) \X Int -> Int]
  BY <1>1
<1>3. \A i \in 1..n, v \in Int : step[<<i, v>>] = v * b + s[i]
  OBVIOUS
<1> HIDE DEF step
<1>4. PICK g : Takes(g, n, Int, 0, step)
  BY <1>2, Recursion
<1>5. ASSUME NEW i \in 1..n PROVE g[i] = g[i - 1] * b + s[i]
  <2>1. g[i - 1] \in Int /\ g[i] = step[<<i, g[i - 1]>>]
    BY <1>4 DEF Takes
  <2> QED
    BY <1>3, <2>1
<1>6. g = [i \in 0..n |-> IF i = 0 THEN 0 ELSE g[i - 1] * b + s[i]]
  BY <1>4, <1>5 DEF Takes
<1>7. h = [i \in 0..n |-> IF i = 0 THEN 0 ELSE h[i - 1] * b + s[i]]
  BY <1>6, Zenon DEF HornersOf
<1> HIDE DEF h
<1>8. h[0] = 0 /\ \A i \in 1..n : h[i] = h[i - 1] * b + s[i]
  BY <1>7
<1> DEFINE S == {i \in 0..n : h[i] \in Int}
<1>9. 0 \in S /\ \A i \in 0..(n - 1) : i \in S => i + 1 \in S
  BY <1>1, <1>8
<1>10. \A i \in 0..n : i \in S
  <2> HIDE DEF S
  <2> QED
    BY <1>9, Induction, Zenon
<1>11. Horner(s, b, n) = HornersOf(s, b, n)[n]
  BY Zenon DEF Horner, HornersOf
<1>12. h \in [0..n -> Int]
  BY <1>7, <1>10
<1> QED
  BY <1>8, <1>11, <1>12 DEF h

LEMMA HornerSteps ==
    ASSUME NEW b \in Nat, NEW n \in Nat, NEW s, Ints(s, n + 1)
    PROVE  /\ Horner(s, b, n) \in Int
           /\ Horner(s, b, n + 1) = Horner(s, b, n) * b + s[n + 1]
<1> DEFINE p == HornersOf(s, b, n)
           q == HornersOf(s, b, n + 1)
<1>0. Ints(s, n) /\ n + 1 \in Nat
  BY DEF Ints
<1>1. /\ Horner(s, b, n) = p[n] /\ p[0] = 0 /\ p[n] \in Int
      /\ \A k \in 1..n : p[k] = p[k - 1] * b + s[k]
  <2>1. Horner(s, b, n) = p[n] /\ p[0] = 0
    BY <1>0, HornersAre
  <2>2. p \in [0..n -> Int]
    BY <1>0, HornersAre
  <2>3. \A k \in 1..n : p[k] = p[k - 1] * b + s[k]
    BY <1>0, HornersAre
  <2> HIDE DEF p
  <2> QED
    BY <2>1, <2>2, <2>3
<1>2. /\ Horner(s, b, n + 1) = q[n + 1] /\ q[0] = 0
      /\ \A k \in 1..(n + 1) : q[k] = q[k - 1] * b + s[k]
  <2>1. PICK m \in Nat : m = n + 1
    BY <1>0
  <2> DEFINE r == HornersOf(s, b, m)
  <2>2. Ints(s, m)
    BY <2>1
  <2>3. Horner(s, b, m) = r[m] /\ r[0] = 0
    BY <2>1, <2>2, HornersAre
  <2>4. \A k \in 1..m : r[k] = r[k - 1] * b + s[k]
    BY <2>1, <2>2, HornersAre
  <2> QED
    BY <2>1, <2>3, <2>4
<1> HIDE DEF p, q
<1> DEFINE S == {k \in 0..n : p[k] = q[k]}
<1>3. 0 \in S /\ \A i \in 0..(n - 1) : i \in S => i + 1 \in S
  <2>1. ASSUME NEW i \in 0..(n - 1), i \in S PROVE i + 1 \in S
    <3>1. i + 1 \in 1..n /\ i + 1 \in 1..(n + 1) /\ (i + 1) - 1 = i
      OBVIOUS
    <3>2. p[i + 1] = p[i] * b + s[i + 1]
      BY <1>1, <3>1
    <3>3. q[i + 1] = q[i] * b + s[i + 1]
      BY <1>2, <3>1
    <3> QED
      BY <2>1, <3>1, <3>2, <3>3
  <2> QED
    BY <1>1, <1>2, <2>1
<1>4. \A k \in 0..n : k \in S
  <2> HIDE DEF S
  <2> QED
    BY <1>3, Induction, Zenon
<1>5. n + 1 \in 1..(n + 1) /\ (n + 1) - 1 = n
  OBVIOUS
<1> QED
  BY <1>1, <1>2, <1>4, <1>5

LEMMA HornerStep ==
    ASSUME NEW b \in Nat, NEW n \in Nat, NEW s, Ints(s, n), NEW i \in 0..(n - 1)
    PROVE  /\ Horner(s, b, i) \in Int /\ s[i + 1] \in Int
           /\ Horner(s, b, i + 1) = Horner(s, b, i) * b + s[i + 1]
<1>1. i \in Nat /\ i + 1 \in 1..n
  OBVIOUS
<1>2. Ints(s, i + 1) /\ s[i + 1] \in Int
  BY <1>1 DEF Ints
<1> QED
  BY <1>1, <1>2, HornerSteps

LEMMA HornerNone == \A b \in Nat : \A s : Horner(s, b, 0) = 0
<1> SUFFICES ASSUME NEW b \in Nat, NEW s PROVE Horner(s, b, 0) = 0
  OBVIOUS
<1>1. 0 \in Nat /\ Ints(s, 0)
  BY DEF Ints
<1> QED
  BY <1>1, HornersAre

LEMMA HornerIsInt ==
    ASSUME NEW b \in Nat, NEW n \in Nat, NEW s, Ints(s, n)
    PROVE  Horner(s, b, n) \in Int
BY HornersAre

(* Digits read behind m others.                                            *)
LEMMA HornerSplit ==
    ASSUME NEW b \in Nat, NEW m \in Nat, NEW n \in Nat, NEW s, NEW t,
           Ints(s, m + n), Follows(t, s, m, n)
    PROVE  Horner(s, b, m + n) = Horner(s, b, m) * Power(b, n) + Horner(t, b, n)
<1> DEFINE S == {i \in 0..n :
                   Horner(s, b, m + i) = Horner(s, b, m) * Power(b, i) + Horner(t, b, i)}
<1>0. Ints(t, n) /\ m + n \in Nat
  <2>1. \A i \in 1..n : m + i \in 1..(m + n)
    OBVIOUS
  <2> QED
    BY <2>1 DEF Ints, Follows
<1>1. Horner(s, b, m) \in Int
  <2>1. Ints(s, m)
    BY DEF Ints
  <2> QED
    BY <2>1, HornerIsInt
<1>2. 0 \in S
  <2>1. Horner(t, b, 0) = 0 /\ Power(b, 0) = 1
    BY HornerNone, PowerOne
  <2> QED
    BY <1>1, <2>1
<1>3. ASSUME NEW i \in 0..(n - 1), i \in S PROVE i + 1 \in S
  <2>1. m + i \in 0..((m + n) - 1)
    OBVIOUS
  <2>2. /\ Horner(s, b, m + i) \in Int /\ s[(m + i) + 1] \in Int
        /\ Horner(s, b, (m + i) + 1) = Horner(s, b, m + i) * b + s[(m + i) + 1]
    BY <1>0, <2>1, HornerStep
  <2>3. /\ Horner(t, b, i) \in Int /\ t[i + 1] \in Int
        /\ Horner(t, b, i + 1) = Horner(t, b, i) * b + t[i + 1]
    BY <1>0, HornerStep
  <2>4. i \in Nat /\ (m + i) + 1 = m + (i + 1) /\ i + 1 \in 1..n /\ i + 1 \in 0..n
    OBVIOUS
  <2>5. Power(b, i + 1) = b * Power(b, i) /\ Power(b, i) \in Nat
    BY <2>4, PowerSteps
  <2>6. t[i + 1] = s[(m + i) + 1]
    BY <2>4 DEF Follows
  <2>7. Horner(s, b, m + i) = Horner(s, b, m) * Power(b, i) + Horner(t, b, i)
    BY <1>3
  <2>8. (Horner(s, b, m) * Power(b, i) + Horner(t, b, i)) * b
        = Horner(s, b, m) * (b * Power(b, i)) + Horner(t, b, i) * b
    <3> DEFINE p == Horner(s, b, m)
               q == Power(b, i)
               r == Horner(t, b, i)
    <3>1. p \in Int /\ q \in Int /\ r \in Int
      BY <1>1, <2>3, <2>5
    <3> HIDE DEF p, q, r
    <3>2. (p * q + r) * b = p * (b * q) + r * b
      BY <3>1
    <3> QED
      BY <3>2 DEF p, q, r
  <2> DEFINE x == Horner(s, b, m) * (b * Power(b, i))
             y == Horner(t, b, i) * b
  <2>9. x \in Int /\ y \in Int
    BY <1>1, <2>3, <2>5
  <2>10. Horner(s, b, (m + i) + 1) = (x + y) + s[(m + i) + 1]
    BY <2>2, <2>7, <2>8
  <2>11. Horner(s, b, m) * Power(b, i + 1) + Horner(t, b, i + 1) = x + (y + t[i + 1])
    BY <2>3, <2>5
  <2> HIDE DEF x, y
  <2>12. Horner(s, b, m + (i + 1)) = Horner(s, b, m) * Power(b, i + 1) + Horner(t, b, i + 1)
    BY <2>3, <2>4, <2>6, <2>9, <2>10, <2>11
  <2> QED
    BY <2>4, <2>12
<1>4. \A i \in 0..n : i \in S
  <2> HIDE DEF S
  <2> QED
    BY <1>2, <1>3, Induction, Zenon
<1> QED
  BY <1>4

(* The same digits, least significant first.                               *)
Flip(s, n) == [i \in 1..n |-> s[n + 1 - i]]

LEMMA FlipIs ==
    ASSUME NEW b \in Nat, NEW n \in Nat, NEW s, Ints(s, n)
    PROVE  Horner(s, b, n) = Part(Flip(s, n), b, n)
<1> DEFINE S == {i \in 0..n : Horner(s, b, i) = Part(Flip(s, i), b, i)}
<1>1. 0 \in S
  BY HornerNone, PartNone
<1>2. ASSUME NEW i \in 0..(n - 1), i \in S PROVE i + 1 \in S
  <2> DEFINE x == Flip(s, i + 1)
             y == Flip(s, i)
  <2>1. /\ Horner(s, b, i) \in Int /\ s[i + 1] \in Int
        /\ Horner(s, b, i + 1) = Horner(s, b, i) * b + s[i + 1]
    BY HornerStep
  <2>2. i \in Nat /\ i + 1 \in 0..n /\ i + 1 = 1 + i /\ 1 \in Nat /\ 1 \in 0..(1 + i)
    OBVIOUS
  <2>3. Ints(x, 1 + i) /\ x[1] = s[i + 1] /\ Follows(y, x, 1, i)
    <3>1. \A j \in 1..(i + 1) : (i + 1) + 1 - j \in 1..n
      OBVIOUS
    <3>2. \A j \in 1..(i + 1) : x[j] = s[(i + 1) + 1 - j]
      BY DEF Flip
    <3>3. \A j \in 1..i : y[j] = s[i + 1 - j]
      BY DEF Flip
    <3>4. \A j \in 1..(i + 1) : x[j] \in Int
      BY <3>1, <3>2 DEF Ints
    <3>5. \A j \in 1..i : 1 + j \in 1..(i + 1) /\ (i + 1) + 1 - (1 + j) = i + 1 - j
      OBVIOUS
    <3>6. 1 \in 1..(i + 1) /\ (i + 1) + 1 - 1 = i + 1
      OBVIOUS
    <3> HIDE DEF x, y
    <3>7. x[1] = s[i + 1]
      BY <3>2, <3>6
    <3>8. \A j \in 1..i : y[j] = x[1 + j]
      BY <3>2, <3>3, <3>5
    <3> QED
      BY <2>2, <3>4, <3>7, <3>8 DEF Ints, Follows
  <2> HIDE DEF x, y
  <2>4. Part(x, b, 1 + i) = Part(x, b, 1) + Power(b, 1) * Part(y, b, i)
    BY <2>2, <2>3, PartShifts
  <2>5. Part(x, b, 1) = x[1]
    <3>1. 0 \in 0..((1 + i) - 1) /\ 0 + 1 = 1 /\ 1 + i \in Nat
      BY <2>2
    <3>2. Part(x, b, 0 + 1) = Part(x, b, 0) + x[0 + 1] * Power(b, 0)
      BY <2>3, <3>1, PartStep
    <3> QED
      BY <2>1, <2>3, <3>1, <3>2, PartNone, PowerOne
  <2>6. Horner(s, b, i) = Part(y, b, i)
    BY <1>2 DEF y
  <2>7. Horner(s, b, i + 1) = Part(x, b, i + 1)
    BY <2>1, <2>2, <2>3, <2>4, <2>5, <2>6, PowerOne
  <2> QED
    BY <2>2, <2>7 DEF x
<1>3. \A i \in 0..n : i \in S
  <2> HIDE DEF S
  <2> QED
    BY <1>1, <1>2, Induction, Zenon
<1> QED
  BY <1>3

LEMMA HornerBound ==
    ASSUME NEW b \in Nat \ {0}, NEW n \in Nat, NEW s, DigitsOf(s, b, n)
    PROVE  0 <= Horner(s, b, n) /\ Horner(s, b, n) < Power(b, n)
<1>1. Ints(s, n) /\ b \in Nat /\ n \in 0..n
  BY DigitsAreInts
<1>2. DigitsOf(Flip(s, n), b, n)
  <2>1. \A j \in 1..n : n + 1 - j \in 1..n
    OBVIOUS
  <2>2. \A j \in 1..n : Flip(s, n)[j] = s[n + 1 - j]
    BY DEF Flip
  <2> QED
    BY <2>1, <2>2 DEF DigitsOf
<1> QED
  BY <1>1, <1>2, FlipIs, PartBound

LEMMA HornerZeros ==
    ASSUME NEW b \in Nat, NEW n \in Nat, NEW s, Blank(s, 0, n)
    PROVE  Horner(s, b, n) = 0
<1> DEFINE S == {i \in 0..n : Horner(s, b, i) = 0}
<1>0. Ints(s, n)
  BY DEF Ints, Blank
<1>1. 0 \in S
  BY HornerNone
<1>2. ASSUME NEW i \in 0..(n - 1), i \in S PROVE i + 1 \in S
  <2>1. Horner(s, b, i + 1) = Horner(s, b, i) * b + s[i + 1]
    BY <1>0, HornerStep
  <2>2. s[i + 1] = 0 /\ i + 1 \in 0..n
    BY DEF Blank
  <2> QED
    BY <1>2, <2>1, <2>2
<1>3. \A i \in 0..n : i \in S
  <2> HIDE DEF S
  <2> QED
    BY <1>1, <1>2, Induction, Zenon
<1> QED
  BY <1>3

(* The chunks of a string go on one behind another to its end.             *)
ChunkEnd(l, n, i) == IF i * n < l THEN i * n ELSE l

Cut(t, n, chunks, V) ==
    /\ Len(chunks) \in Nat
    /\ ChunkEnd(Len(t), n, 0) = 0 /\ ChunkEnd(Len(t), n, Len(chunks)) = Len(t)
    /\ \A i \in 1..Len(chunks) :
         /\ chunks[i] \in Seq(V) /\ Len(chunks[i]) \in 1..n
         /\ ChunkEnd(Len(t), n, i - 1) \in 0..Len(t) /\ ChunkEnd(Len(t), n, i) \in 0..Len(t)
         /\ ChunkEnd(Len(t), n, i) = ChunkEnd(Len(t), n, i - 1) + Len(chunks[i])
         /\ Follows(chunks[i], t, ChunkEnd(Len(t), n, i - 1), Len(chunks[i]))

LEMMA ChunksAre ==
    ASSUME NEW V, NEW t \in Seq(V), NEW n \in Nat \ {0}
    PROVE  Cut(t, n, Chunks(t, n), V)
<1> DEFINE l == Len(t)
           c == (l + n - 1) \div n
           e == [i \in 0..c |-> ChunkEnd(l, n, i)]
           f == [i \in 1..c |-> SubSeq(t, (i - 1) * n + 1, ChunkEnd(l, n, i))]
<1>1. l \in Nat /\ l + n - 1 \in Nat
  OBVIOUS
<1>2. c \in Nat /\ c * n <= l + n - 1 /\ l <= c * n
  <2>1. \A x \in Nat : x \div n \in Nat /\ (x \div n) * n <= x /\ x < (x \div n) * n + n
    OBVIOUS
  <2> DEFINE x == l + n - 1
  <2>2. x \in Nat /\ x = l + n - 1
    BY <1>1
  <2>3. c = x \div n
    OBVIOUS
  <2> HIDE DEF x, c
  <2>4. c \in Nat /\ c * n <= x /\ x < c * n + n
    BY <2>1, <2>2, <2>3
  <2>5. c * n \in Int
    BY <2>4
  <2> QED
    BY <1>1, <2>2, <2>4, <2>5
<1>3. Chunks(t, n) = f
  BY DEF Chunks, ChunkEnd
<1> HIDE DEF c, l
<1>4. ASSUME NEW i \in 1..c
      PROVE  /\ ChunkEnd(l, n, i - 1) = (i - 1) * n /\ (i - 1) * n \in 0..l
             /\ ChunkEnd(l, n, i) \in 0..l
             /\ ChunkEnd(l, n, i) - (i - 1) * n \in 1..n
  <2> DEFINE m == (i - 1) * n
             k == i * n
  <2>1. m \in Nat /\ k \in Nat /\ k = m + n
    BY <1>2
  <2>2. k <= l + n - 1
    <3>1. (c - i) * n >= 0
      BY <1>2
    <3>2. (c - i) * n = c * n - i * n /\ c * n \in Int
      BY <1>2
    <3> QED
      BY <1>1, <1>2, <3>1, <3>2
  <2> HIDE DEF m, k
  <2>3. m < l
    BY <1>1, <2>1, <2>2
  <2>4. ChunkEnd(l, n, i - 1) = m
    BY <2>3 DEF ChunkEnd, m
  <2>5. ChunkEnd(l, n, i) = IF k < l THEN k ELSE l
    BY DEF ChunkEnd, k
  <2>6. ChunkEnd(l, n, i) \in 0..l /\ ChunkEnd(l, n, i) - m \in 1..n
    BY <1>1, <2>1, <2>2, <2>3, <2>5
  <2> QED
    BY <1>1, <2>1, <2>3, <2>4, <2>6 DEF m
<1>5. ASSUME NEW i \in 1..c
      PROVE  /\ f[i] \in Seq(V) /\ Len(f[i]) = ChunkEnd(l, n, i) - (i - 1) * n
             /\ \A j \in 1..Len(f[i]) : f[i][j] = t[(i - 1) * n + j]
  <2> DEFINE p == (i - 1) * n
             q == ChunkEnd(l, n, i)
  <2>1. p \in 0..l /\ q \in 0..l /\ q - p \in 1..n
    BY <1>4
  <2>2. f[i] = SubSeq(t, p + 1, q)
    OBVIOUS
  <2> HIDE DEF p, q, f
  <2>3. p + 1 \in 1..Len(t) /\ q \in 1..Len(t)
    BY <1>1, <2>1 DEF l
  <2>4. SubSeq(t, p + 1, q) \in Seq(V) /\ Len(SubSeq(t, p + 1, q)) = q - p
    BY <2>1, <2>3
  <2>5. \A j \in 1..(q - p) : SubSeq(t, p + 1, q)[j] = t[p + j]
    BY <2>1, <2>3
  <2> QED
    BY <2>2, <2>4, <2>5 DEF p, q
<1>6. f \in [1..c -> Seq(V)]
  BY <1>5
<1> HIDE DEF f
<1>7. Len(f) = c
  BY <1>2, <1>6, SeqOfFunction
<1>8. ChunkEnd(l, n, 0) = 0
  <2>1. 0 * n = 0
    OBVIOUS
  <2> QED
    BY <1>1, <2>1 DEF ChunkEnd
<1>9. ChunkEnd(l, n, c) = l
  BY <1>1, <1>2 DEF ChunkEnd
<1>10. ASSUME NEW i \in 1..c
       PROVE  /\ f[i] \in Seq(V) /\ Len(f[i]) \in 1..n
              /\ ChunkEnd(l, n, i - 1) \in 0..l /\ ChunkEnd(l, n, i) \in 0..l
              /\ ChunkEnd(l, n, i) = ChunkEnd(l, n, i - 1) + Len(f[i])
              /\ Follows(f[i], t, ChunkEnd(l, n, i - 1), Len(f[i]))
  <2>1. Follows(f[i], t, ChunkEnd(l, n, i - 1), Len(f[i]))
    BY <1>4, <1>5 DEF Follows
  <2> DEFINE p == ChunkEnd(l, n, i - 1)
             q == ChunkEnd(l, n, i)
             k == Len(f[i])
  <2>2. p \in 0..l /\ q \in 0..l /\ k = q - p /\ q - p \in 1..n
    BY <1>4, <1>5
  <2> HIDE DEF p, q, k
  <2>3. p \in 0..l /\ q \in 0..l /\ k \in 1..n /\ q = p + k
    BY <1>1, <2>2
  <2> QED
    BY <1>5, <2>1, <2>3 DEF p, q, k
<1> QED
  BY <1>2, <1>3, <1>7, <1>8, <1>9, <1>10 DEF l, Cut

(* A string is read chunk by chunk.                                        *)
ReadsOf(chunks, b) ==
    CHOOSE read : read = [i \in 0 .. Len(chunks) |->
        IF i = 0 THEN <<>>
        ELSE Plus(TimesWord(read[i - 1], Power(b, Len(chunks[i]))),
                  FromInt(FromChars(chunks[i], b)))]

LEMMA ReadsAre ==
    ASSUME NEW b \in Nat, b > 1, NEW n \in Nat \ {0}, Power(b, n) < Radix,
           NEW t \in DigitSeq(b)
    PROVE  Is(ReadsOf(Chunks(t, n), b)[Len(Chunks(t, n))], FromChars(t, b))
<1> DEFINE V == 0 .. (b - 1)
           chunks == Chunks(t, n)
           c == Len(chunks)
           l == Len(t)
           e == [i \in 0..c |-> ChunkEnd(l, n, i)]
           word == [i \in 1..c |-> Power(b, Len(chunks[i]))]
           int == [i \in 1..c |-> FromChars(chunks[i], b)]
           next(i, d) == Plus(TimesWord(d, word[i]), FromInt(int[i]))
           step == [x \in (1..c) \X Bigs |-> next(x[1], x[2])]
           read == ReadsOf(chunks, b)
<1>1. t \in Seq(V) /\ l \in Nat
  BY DEF DigitSeq
<1>2. DigitsOf(t, b, l) /\ Ints(t, l)
  BY DigitsOfSeq
<1>3. /\ c \in Nat /\ ChunkEnd(l, n, 0) = 0 /\ ChunkEnd(l, n, c) = l
      /\ \A i \in 1..c :
           /\ chunks[i] \in Seq(V) /\ Len(chunks[i]) \in 1..n
           /\ ChunkEnd(l, n, i - 1) \in 0..l /\ ChunkEnd(l, n, i) \in 0..l
           /\ ChunkEnd(l, n, i) = ChunkEnd(l, n, i - 1) + Len(chunks[i])
           /\ Follows(chunks[i], t, ChunkEnd(l, n, i - 1), Len(chunks[i]))
  <2>1. Cut(t, n, chunks, V)
    <3> HIDE DEF V
    <3> QED
      BY <1>1, ChunksAre
  <2> QED
    BY <2>1 DEF Cut
<1> HIDE DEF chunks, c, l
<1>4. ASSUME NEW i \in 1..c
      PROVE  /\ word[i] = Power(b, Len(chunks[i])) /\ word[i] \in 0..Ones
             /\ int[i] = Horner(chunks[i], b, Len(chunks[i])) /\ int[i] \in 0..(Width - 1)
  <2>1. word[i] = Power(b, Len(chunks[i])) /\ int[i] = FromChars(chunks[i], b)
    OBVIOUS
  <2> DEFINE k == Len(chunks[i])
  <2>2. k \in Nat /\ k <= n /\ n \in Nat
    BY <1>3
  <2>3. chunks[i] \in DigitSeq(b)
    BY <1>3 DEF DigitSeq
  <2>4. DigitsOf(chunks[i], b, k) /\ Ints(chunks[i], k)
    BY <2>3, DigitsOfSeq
  <2> HIDE DEF k
  <2>5. 0 < Power(b, k) /\ Power(b, k) <= Power(b, n) /\ Power(b, k) \in Nat /\ Power(b, n) \in Nat
    BY <2>2, PowerGrows, PowerIsNat
  <2>6. /\ 0 <= Horner(chunks[i], b, k) /\ Horner(chunks[i], b, k) < Power(b, k)
        /\ Horner(chunks[i], b, k) \in Int
    BY <2>2, <2>4, HornerBound, HornerIsInt
  <2>7. FromChars(chunks[i], b) = Horner(chunks[i], b, k)
    BY FromCharsIsHorner DEF k
  <2>8. Radix <= Width /\ Width \in Nat
    BY RadixIs DEF Width
  <2>9. Power(b, k) \in 0..Ones
    BY <2>5, RadixIs
  <2>10. Horner(chunks[i], b, k) \in 0..(Width - 1)
    BY <2>5, <2>6, <2>8, RadixIs
  <2> QED
    BY <2>1, <2>7, <2>9, <2>10 DEF k
<1> HIDE DEF word, int
<1>5. ASSUME NEW i \in 1..c, NEW d, NEW m, Is(d, m)
      PROVE  Is(next(i, d), m * word[i] + int[i])
  <2>1. Is(TimesWord(d, word[i]), m * word[i])
    BY <1>4, <1>5, TimesWordIs
  <2>2. Is(FromInt(int[i]), int[i])
    BY <1>4, FromIntIs
  <2> QED
    BY <2>1, <2>2, PlusIs
<1>6. <<>> \in Bigs /\ \A i \in 1..c, d \in Bigs : next(i, d) \in Bigs
  <2>1. <<>> \in Bigs
    BY NoneIs, BigsOf
  <2>2. ASSUME NEW i \in 1..c, NEW d \in Bigs PROVE next(i, d) \in Bigs
    <3>1. Is(d, Number(d, Radix))
      BY BigsAre
    <3>2. Is(next(i, d), Number(d, Radix) * word[i] + int[i])
      BY <1>5, <3>1
    <3> QED
      BY <3>2, BigsOf
  <2> QED
    BY <2>1, <2>2
<1> HIDE DEF next
<1>7. step \in [(1..c) \X Bigs -> Bigs]
  BY <1>6
<1>8. \A i \in 1..c, d \in Bigs : step[<<i, d>>] = next(i, d)
  OBVIOUS
<1> HIDE DEF step
<1>9. PICK g : Takes(g, c, Bigs, <<>>, step)
  BY <1>3, <1>6, <1>7, Recursion
<1>10. ASSUME NEW i \in 1..c
       PROVE  g[i] = Plus(TimesWord(g[i - 1], Power(b, Len(chunks[i]))),
                          FromInt(FromChars(chunks[i], b)))
  <2>1. g[i - 1] \in Bigs /\ g[i] = step[<<i, g[i - 1]>>]
    BY <1>3, <1>9 DEF Takes
  <2>2. g[i] = next(i, g[i - 1])
    BY <1>8, <2>1
  <2> QED
    BY <2>2 DEF next, word, int
<1>11. g = [i \in 0 .. c |->
              IF i = 0 THEN <<>>
              ELSE Plus(TimesWord(g[i - 1], Power(b, Len(chunks[i]))),
                        FromInt(FromChars(chunks[i], b)))]
  BY <1>3, <1>9, <1>10 DEF Takes
<1>12. read = [i \in 0 .. c |->
                 IF i = 0 THEN <<>>
                 ELSE Plus(TimesWord(read[i - 1], Power(b, Len(chunks[i]))),
                           FromInt(FromChars(chunks[i], b)))]
  BY <1>11, Zenon DEF ReadsOf, c
<1> HIDE DEF read
<1>13. read[0] = <<>> /\ \A i \in 1..c : read[i] = next(i, read[i - 1])
  <2>1. read[0] = <<>>
    BY <1>3, <1>12
  <2>2. ASSUME NEW i \in 1..c PROVE read[i] = next(i, read[i - 1])
    <3>1. i \in 0..c /\ i # 0
      BY <1>3
    <3>2. read[i] = Plus(TimesWord(read[i - 1], Power(b, Len(chunks[i]))),
                         FromInt(FromChars(chunks[i], b)))
      BY <1>12, <3>1
    <3> QED
      BY <3>2 DEF next, word, int
  <2> QED
    BY <2>1, <2>2
<1> DEFINE S == {i \in 0..c : Is(read[i], Horner(t, b, ChunkEnd(l, n, i)))}
<1>14. 0 \in S
  BY <1>3, <1>13, HornerNone, NoneIs
<1>15. ASSUME NEW i \in 0..(c - 1), i \in S PROVE i + 1 \in S
  <2>1. i + 1 \in 1..c /\ i + 1 \in 0..c /\ (i + 1) - 1 = i
    BY <1>3
  <2> DEFINE m == ChunkEnd(l, n, i)
             k == Len(chunks[i + 1])
  <2>2. /\ m \in Nat /\ k \in Nat /\ m + k \in 0..l /\ ChunkEnd(l, n, i + 1) = m + k
        /\ Follows(chunks[i + 1], t, m, k)
    BY <1>1, <1>3, <2>1
  <2>3. Is(read[i], Horner(t, b, m))
    BY <1>15
  <2>4. word[i + 1] = Power(b, k) /\ int[i + 1] = Horner(chunks[i + 1], b, k)
    BY <1>4, <2>1
  <2> HIDE DEF m, k
  <2>5. read[i + 1] = next(i + 1, read[i])
    BY <1>13, <2>1
  <2>6. Is(read[i + 1], Horner(t, b, m) * word[i + 1] + int[i + 1])
    BY <1>5, <2>1, <2>3, <2>5
  <2>7. Ints(t, m + k)
    BY <1>1, <1>2, <2>2 DEF Ints
  <2>8. Horner(t, b, m + k) = Horner(t, b, m) * Power(b, k) + Horner(chunks[i + 1], b, k)
    <3> DEFINE u == chunks[i + 1]
    <3>1. m \in Nat /\ k \in Nat /\ Follows(u, t, m, k)
      BY <2>2
    <3> HIDE DEF u
    <3>2. Horner(t, b, m + k) = Horner(t, b, m) * Power(b, k) + Horner(u, b, k)
      BY <2>7, <3>1, HornerSplit
    <3> QED
      BY <3>2 DEF u
  <2>9. Is(read[i + 1], Horner(t, b, ChunkEnd(l, n, i + 1)))
    BY <2>2, <2>4, <2>6, <2>8
  <2> QED
    BY <2>1, <2>9
<1>16. \A i \in 0..c : i \in S
  <2> HIDE DEF S
  <2> QED
    BY <1>3, <1>14, <1>15, Induction, Zenon
<1>17. Is(read[c], Horner(t, b, l))
  BY <1>3, <1>16
<1> QED
  BY <1>17, FromCharsIsHorner DEF read, c, chunks, l

LEMMA ReadIs ==
    ASSUME NEW b \in Nat, b > 1, NEW n \in Nat \ {0}, Power(b, n) < Radix,
           NEW s \in DigitSeq(b)
    PROVE  Is(ReadChunks(s, b, n), FromChars(s, b))
<1> DEFINE I == {i \in 1..Len(s) : s[i] # 0}
           first == IF I # {} THEN Min(I) ELSE 0
           t == SubSeq(s, first, Len(s))
<1>1. Len(s) \in Nat /\ Ints(s, Len(s)) /\ DigitsOf(s, b, Len(s))
  BY DigitsOfSeq
<1>2. ReadChunks(s, b, n) = IF first = 0 THEN <<>> ELSE ReadsOf(Chunks(t, n), b)[Len(Chunks(t, n))]
  BY Zenon DEF ReadChunks, ReadsOf, SelectInSeq
<1>3. /\ first \in 0..Len(s)
      /\ first = 0 => Blank(s, 0, Len(s))
      /\ first # 0 => Blank(s, 0, first - 1)
  <2>1. CASE I = {}
    <3>1. Blank(s, 0, Len(s))
      BY <2>1 DEF Blank
    <3> QED
      BY <1>1, <2>1, <3>1
  <2>2. CASE I # {}
    <3>1. I \in SUBSET Nat /\ I \subseteq 1..Len(s)
      OBVIOUS
    <3>2. PICK x \in I : \A y \in I : x <= y
      <4> HIDE DEF I
      <4> QED
        BY <2>2, <3>1, Least
    <3>3. Min(I) \in I /\ \A y \in I : Min(I) <= y
      <4> HIDE DEF I
      <4> QED
        BY <3>2 DEF Min
    <3>4. first = Min(I)
      BY <2>2
    <3> HIDE DEF first
    <3>5. first \in 1..Len(s) /\ \A i \in 1..Len(s) : s[i] # 0 => first <= i
      BY <3>3, <3>4
    <3>6. Blank(s, 0, first - 1)
      BY <1>1, <3>5 DEF Blank
    <3> QED
      BY <1>1, <3>5, <3>6
  <2> QED
    BY <2>1, <2>2
<1>4. FromChars(s, b) = Horner(s, b, Len(s))
  BY FromCharsIsHorner
<1> HIDE DEF first
<1>5. CASE first = 0
  <2>1. Horner(s, b, Len(s)) = 0
    BY <1>1, <1>3, <1>5, HornerZeros
  <2> QED
    BY <1>2, <1>4, <1>5, <2>1, NoneIs
<1>6. CASE first # 0
  <2> DEFINE m == first - 1
             k == Len(s) - first + 1
  <2>1. m \in Nat /\ k \in Nat /\ m + k = Len(s)
    BY <1>1, <1>3, <1>6
  <2>2. t \in DigitSeq(b) /\ Len(t) = k /\ Follows(t, s, m, k)
    <3>1. first \in 1..Len(s) /\ Len(s) \in 1..Len(s)
      BY <1>1, <1>3, <1>6
    <3>2. t \in DigitSeq(b) /\ Len(t) = k
      BY <3>1 DEF DigitSeq
    <3>3. \A i \in 1..k : t[i] = s[m + i]
      BY <3>1
    <3> QED
      BY <3>2, <3>3 DEF Follows
  <2> HIDE DEF t, m, k
  <2>3. Is(ReadsOf(Chunks(t, n), b)[Len(Chunks(t, n))], FromChars(t, b))
    BY <2>2, ReadsAre
  <2>4. FromChars(t, b) = Horner(t, b, k)
    BY <2>2, FromCharsIsHorner
  <2>5. Ints(s, m + k)
    BY <1>1, <2>1
  <2>6. Horner(s, b, m + k) = Horner(s, b, m) * Power(b, k) + Horner(t, b, k)
    BY <2>1, <2>2, <2>5, HornerSplit
  <2>7. Horner(s, b, m) = 0
    BY <1>3, <1>6, <2>1, HornerZeros DEF m
  <2>8. Ints(t, k) /\ Power(b, k) \in Nat
    BY <2>1, <2>2, DigitsOfSeq, PowerIsNat
  <2>9. Horner(t, b, k) \in Int
    BY <2>1, <2>8, HornerIsInt
  <2>10. FromChars(s, b) = FromChars(t, b)
    BY <1>4, <2>1, <2>4, <2>6, <2>7, <2>8, <2>9
  <2> QED
    BY <1>2, <1>6, <2>3, <2>10
<1> QED
  BY <1>5, <1>6

(* A leading zero does not change the number.                              *)
LEMMA LeadingZero ==
    ASSUME NEW b \in Nat, b > 1, NEW s \in DigitSeq(b)
    PROVE  <<0>> \o s \in DigitSeq(b) /\ FromChars(<<0>> \o s, b) = FromChars(s, b)
<1> DEFINE t == <<0>> \o s
           n == Len(s)
<1>1. n \in Nat /\ Ints(s, n)
  BY DigitsOfSeq
<1>2. t \in DigitSeq(b) /\ Len(t) = 1 + n /\ t[1] = 0 /\ \A i \in 1..n : t[1 + i] = s[i]
  BY DEF DigitSeq
<1> HIDE DEF t, n
<1>3. Ints(t, 1 + n) /\ Follows(s, t, 1, n) /\ Blank(t, 0, 1) /\ 1 \in Nat
  BY <1>2, DigitsOfSeq DEF Follows, Blank
<1>4. Horner(t, b, 1 + n) = Horner(t, b, 1) * Power(b, n) + Horner(s, b, n)
  BY <1>1, <1>3, HornerSplit
<1>5. Horner(t, b, 1) = 0
  BY <1>3, HornerZeros
<1>6. Power(b, n) \in Nat /\ Horner(s, b, n) \in Int
  BY <1>1, PowerIsNat, HornerIsInt
<1>7. FromChars(t, b) = Horner(t, b, 1 + n) /\ FromChars(s, b) = Horner(s, b, n)
  BY <1>2, FromCharsIsHorner DEF n
<1>8. FromChars(t, b) = FromChars(s, b)
  BY <1>4, <1>5, <1>6, <1>7
<1> QED
  BY <1>2, <1>8 DEF t

(* A string backwards.                                                     *)
LEMMA ReverseIs ==
    ASSUME NEW b \in Nat \ {0}, NEW s \in DigitSeq(b)
    PROVE  /\ Reverse(s) \in DigitSeq(b) /\ Len(Reverse(s)) = Len(s)
           /\ \A i \in 1..Len(s) : Reverse(s)[i] = s[Len(s) + 1 - i]
           /\ Reverse(Reverse(s)) = s
           /\ Number(Reverse(s), b) = FromChars(s, b)
<1> DEFINE n == Len(s)
           r == Reverse(s)
<1>1. n \in Nat /\ Ints(s, n) /\ b \in Nat /\ s \in Seq(0..(b - 1))
  BY DigitsOfSeq DEF DigitSeq
<1>2. r = [i \in 1..n |-> s[(n - i) + 1]]
  BY DEF Reverse
<1> HIDE DEF r
<1>3. \A i \in 1..n : (n - i) + 1 \in 1..n /\ (n - i) + 1 = n + 1 - i
  BY <1>1
<1>4. \A i \in 1..n : s[i] \in 0..(b - 1)
  BY <1>1
<1>5. r \in [1..n -> 0..(b - 1)]
  BY <1>2, <1>3, <1>4
<1>6. r \in DigitSeq(b) /\ Len(r) = n
  BY <1>1, <1>5, SeqOfFunction DEF DigitSeq
<1>7. \A i \in 1..n : r[i] = s[n + 1 - i]
  BY <1>2, <1>3
<1>8. Reverse(r) = s
  <2>1. Reverse(r) = [i \in 1..n |-> r[(n - i) + 1]]
    BY <1>6 DEF Reverse
  <2>2. \A i \in 1..n : r[(n - i) + 1] = s[i]
    <3>1. \A i \in 1..n : n + 1 - ((n - i) + 1) = i
      BY <1>1
    <3>2. \A i \in 1..n : r[(n - i) + 1] = s[n + 1 - ((n - i) + 1)]
      BY <1>3, <1>7
    <3> QED
      BY <3>1, <3>2
  <2>3. s = [i \in 1..n |-> s[i]]
    BY <1>1
  <2> QED
    BY <2>1, <2>2, <2>3
<1>9. r = Flip(s, n)
  BY <1>2, <1>3 DEF Flip
<1>10. Number(r, b) = Part(r, b, n) /\ FromChars(s, b) = Horner(s, b, n)
  BY <1>6, NumberIsPart, FromCharsIsHorner
<1>11. Number(r, b) = FromChars(s, b)
  <2> HIDE DEF n
  <2> QED
    BY <1>1, <1>9, <1>10, FlipIs
<1> QED
  BY <1>6, <1>7, <1>8, <1>11 DEF r

LEMMA HornerSame ==
    ASSUME NEW b \in Nat, NEW n \in Nat, NEW s, NEW t, Ints(s, n), Agree(t, s, n)
    PROVE  Horner(s, b, n) = Horner(t, b, n)
<1>1. Follows(t, s, 0, n) /\ Ints(t, n) /\ 0 \in Nat
  BY DEF Follows, Agree, Ints
<1>2. Ints(s, 0 + n) /\ 0 + n = n
  OBVIOUS
<1>3. Horner(s, b, 0 + n) = Horner(s, b, 0) * Power(b, n) + Horner(t, b, n)
  BY <1>1, <1>2, HornerSplit
<1>4. Power(b, n) \in Nat /\ Horner(t, b, n) \in Int
  BY <1>1, PowerIsNat, HornerIsInt
<1> QED
  BY <1>2, <1>3, <1>4, HornerNone

LEMMA FromCharsAppend ==
    ASSUME NEW b \in Nat \ {0}, NEW s \in DigitSeq(b), NEW w \in 0..(b - 1)
    PROVE  /\ Append(s, w) \in DigitSeq(b)
           /\ FromChars(Append(s, w), b) = FromChars(s, b) * b + w
<1> DEFINE n == Len(s)
           t == Append(s, w)
<1>1. n \in Nat /\ Ints(s, n) /\ b \in Nat
  BY DigitsOfSeq
<1>2. t \in DigitSeq(b) /\ Len(t) = n + 1 /\ t[n + 1] = w /\ \A i \in 1..n : t[i] = s[i]
  BY DEF DigitSeq
<1> HIDE DEF t, n
<1>3. Ints(t, n + 1) /\ n \in 0..((n + 1) - 1) /\ n + 1 \in Nat
  BY <1>1, <1>2, DigitsOfSeq
<1>4. Agree(s, t, n) /\ Ints(t, n)
  BY <1>1, <1>2, <1>3 DEF Agree, Ints
<1>5. Horner(t, b, n + 1) = Horner(t, b, n) * b + w
  BY <1>1, <1>2, <1>3, HornerStep
<1>6. Horner(t, b, n) = Horner(s, b, n)
  BY <1>1, <1>4, HornerSame
<1>7. FromChars(t, b) = Horner(t, b, n + 1) /\ FromChars(s, b) = Horner(s, b, n)
  BY <1>2, FromCharsIsHorner DEF n
<1> QED
  BY <1>2, <1>5, <1>6, <1>7 DEF t

LEMMA FromCharsNone == \A b \in Nat : FromChars(<<>>, b) = 0
<1>1. \A b \in Nat : FromChars(<<>>, b) = Horner(<<>>, b, 0)
  BY FromCharsIsHorner
<1> QED
  BY <1>1, HornerNone

LEMMA Quotients ==
    ASSUME NEW b \in Nat, b > 1
    PROVE  \A i \in Nat :
             /\ i % b \in 0..(b - 1) /\ i \div b \in Nat /\ i = (i \div b) * b + (i % b)
             /\ i # 0 => i \div b < i
             /\ i < b => i % b = i /\ i \div b = 0
             /\ i >= b => i \div b # 0
<1> SUFFICES ASSUME NEW i \in Nat
             PROVE  /\ i % b \in 0..(b - 1) /\ i \div b \in Nat /\ i = (i \div b) * b + (i % b)
                    /\ i # 0 => i \div b < i
                    /\ i < b => i % b = i /\ i \div b = 0
                    /\ i >= b => i \div b # 0
  OBVIOUS
<1> DEFINE q == i \div b
           r == i % b
<1>1. q \in Nat /\ r \in 0..(b - 1) /\ i = q * b + r
  <2>1. i = q * b + (i % b)
    OBVIOUS
  <2> QED
    BY <2>1
<1> HIDE DEF q, r
<1>2. i # 0 => q < i
  <2> SUFFICES ASSUME i # 0, q >= i PROVE FALSE
    BY <1>1
  <2>1. q >= 1 /\ q * b >= q + q
    <3>1. (b - 2) * q >= 0
      BY <1>1
    <3>2. (b - 2) * q = q * b - (q + q)
      BY <1>1
    <3>3. q * b \in Int
      BY <1>1
    <3> QED
      BY <1>1, <3>1, <3>2, <3>3
  <2>2. q * b \in Int
    BY <1>1
  <2> QED
    BY <1>1, <2>1, <2>2
<1>3. i < b => q = 0 /\ r = i
  <2> SUFFICES ASSUME i < b PROVE q = 0 /\ r = i
    OBVIOUS
  <2>1. /\ 0 \in Int /\ i + 0 * b = r + q * b /\ b \in Nat
        /\ 0 <= i /\ 0 <= r /\ r < b /\ i \in Int /\ r \in Int
    BY <1>1
  <2>2. i = r /\ 0 = q
    BY <1>1, <2>1, OneQuotient
  <2> QED
    BY <2>2
<1>4. i >= b => q # 0
  BY <1>1
<1>5. i % b \in 0..(b - 1) /\ i \div b \in Nat
  BY <1>1 DEF q, r
<1>6. i = (i \div b) * b + (i % b)
  OBVIOUS
<1>7. i # 0 => i \div b < i
  BY <1>2 DEF q
<1>8. i < b => i % b = i /\ i \div b = 0
  BY <1>3 DEF q, r
<1>9. i >= b => i \div b # 0
  BY <1>4 DEF q
<1> QED
  BY <1>5, <1>6, <1>7, <1>8, <1>9

(* A string that stands for a number without leading zeros.                *)
Writes(s, b, n) == s \in DigitSeq(b) /\ FromChars(s, b) = n /\ (Len(s) # 0 => s[1] # 0)

DigitsInOf(m, b) ==
    CHOOSE digits : digits = [n \in 0 .. m |->
        IF n = 0 THEN <<>> ELSE Append(digits[n \div b], n % b)]

LEMMA DigitsInIs ==
    ASSUME NEW b \in Nat, b > 1, NEW m \in Nat
    PROVE  Writes(DigitsIn(m, b), b, m)
<1> DEFINE V == DigitSeq(b)
           from == [i \in 1..m |-> i \div b]
           step == [x \in (1..m) \X V |-> Append(x[2], x[1] % b)]
           digits == DigitsInOf(m, b)
<1>1. \A i \in 1..m : i % b \in 0..(b - 1) /\ i \div b \in 0..(i - 1)
  <2> SUFFICES ASSUME NEW i \in 1..m PROVE i % b \in 0..(b - 1) /\ i \div b \in 0..(i - 1)
    OBVIOUS
  <2>1. i \in Nat /\ i # 0
    OBVIOUS
  <2>2. i % b \in 0..(b - 1) /\ i \div b \in Nat /\ i \div b < i
    BY <2>1, Quotients
  <2> DEFINE q == i \div b
  <2>3. q \in Nat /\ q < i
    BY <2>2
  <2> HIDE DEF q
  <2>4. q \in 0..(i - 1)
    BY <2>1, <2>3
  <2> QED
    BY <2>2, <2>4 DEF q
<1>2. \A i \in 1..m, d \in V : Append(d, i % b) \in V
  BY <1>1 DEF DigitSeq
<1>3. from \in [1..m -> Nat] /\ (\A i \in 1..m : from[i] < i) /\ \A i \in 1..m : from[i] = i \div b
  BY <1>1
<1>4. <<>> \in V
  BY DEF DigitSeq
<1> HIDE DEF V, from
<1>5. step \in [(1..m) \X V -> V] /\ \A i \in 1..m, d \in V : step[<<i, d>>] = Append(d, i % b)
  BY <1>2
<1> HIDE DEF step
<1>6. PICK g : TakesFrom(g, m, V, <<>>, from, step)
  BY <1>3, <1>4, <1>5, RecursionFrom
<1>7. ASSUME NEW i \in 1..m PROVE g[i] = Append(g[i \div b], i % b)
  <2>1. i \div b \in 0..m
    BY <1>1
  <2>2. g[i \div b] \in V /\ g[i] = step[<<i, g[i \div b]>>]
    BY <1>3, <1>6, <2>1 DEF TakesFrom
  <2> QED
    BY <1>5, <2>2
<1>8. g = [n \in 0 .. m |-> IF n = 0 THEN <<>> ELSE Append(g[n \div b], n % b)]
  BY <1>6, <1>7 DEF TakesFrom
<1>9. digits = [n \in 0 .. m |-> IF n = 0 THEN <<>> ELSE Append(digits[n \div b], n % b)]
  BY <1>8, Zenon DEF DigitsInOf
<1>10. DigitsIn(m, b) = digits[m]
  BY Zenon DEF DigitsIn, DigitsInOf
<1> HIDE DEF digits
<1>11. digits[0] = <<>> /\ \A i \in 1..m : digits[i] = Append(digits[i \div b], i % b)
  <2>1. 0 \in 0..m /\ \A i \in 1..m : i \in 0..m /\ i # 0
    OBVIOUS
  <2> QED
    BY <1>9, <2>1, Zenon
<1> DEFINE S == {i \in 0..m : Writes(digits[i], b, i) /\ (i = 0 <=> digits[i] = <<>>)}
<1>12. ASSUME NEW i \in 0..m, \A j \in 0..(i - 1) : j \in S PROVE i \in S
  <2>1. CASE i = 0
    <3>1. Writes(<<>>, b, 0)
      BY <1>4, FromCharsNone DEF Writes, V
    <3> QED
      BY <1>11, <2>1, <3>1
  <2>2. CASE i # 0
    <3> DEFINE q == i \div b
               w == i % b
               d == digits[q]
    <3>1. i \in 1..m /\ i \in Nat
      BY <2>2
    <3>2. w \in 0..(b - 1) /\ q \in 0..(i - 1) /\ i = q * b + w /\ (q = 0 => w # 0)
      <4>1. w \in 0..(b - 1) /\ q \in Nat /\ i = q * b + w /\ q < i
        BY <2>2, <3>1, Quotients
      <4>2. q = 0 => w # 0
        BY <2>2, <4>1
      <4> QED
        BY <4>1, <4>2
    <3>3. digits[i] = Append(d, w)
      BY <1>11, <3>1
    <3> HIDE DEF q, w
    <3>4. /\ d \in DigitSeq(b) /\ FromChars(d, b) = q
          /\ (Len(d) # 0 => d[1] # 0) /\ (q = 0 <=> d = <<>>)
      BY <1>12, <3>2 DEF Writes
    <3> HIDE DEF d
    <3>5. Append(d, w) \in DigitSeq(b) /\ FromChars(Append(d, w), b) = i
      BY <3>2, <3>4, FromCharsAppend
    <3>6. Append(d, w) # <<>> /\ Append(d, w)[1] # 0
      <4>1. CASE d = <<>>
        BY <3>2, <3>4, <4>1 DEF DigitSeq
      <4>2. CASE d # <<>>
        <5>1. Len(d) \in Nat /\ Len(d) # 0 /\ d \in Seq(0..(b - 1))
          BY <3>4, <4>2 DEF DigitSeq
        <5>2. Append(d, w)[1] = d[1] /\ Len(Append(d, w)) = Len(d) + 1
          BY <5>1
        <5> QED
          BY <3>4, <5>1, <5>2
      <4> QED
        BY <4>1, <4>2
    <3> QED
      BY <2>2, <3>3, <3>5, <3>6 DEF Writes
  <2> QED
    BY <2>1, <2>2
<1>13. \A i \in 0..m : i \in S
  <2> HIDE DEF S
  <2> QED
    BY <1>12, StrongInduction, Zenon
<1> QED
  BY <1>10, <1>13

(* ... and the same digits the other way round.                            *)
LEMMA WritesProper ==
    ASSUME NEW b \in Nat, b > 1, NEW s, NEW n, Writes(s, b, n)
    PROVE  /\ Proper(Reverse(s), b) /\ Number(Reverse(s), b) = n
           /\ Reverse(Reverse(s)) = s
<1>1. s \in DigitSeq(b) /\ FromChars(s, b) = n /\ (Len(s) # 0 => s[1] # 0)
  BY DEF Writes
<1>2. /\ Reverse(s) \in DigitSeq(b) /\ Len(Reverse(s)) = Len(s) /\ Len(s) \in Nat
      /\ \A i \in 1..Len(s) : Reverse(s)[i] = s[Len(s) + 1 - i]
      /\ Reverse(Reverse(s)) = s
      /\ Number(Reverse(s), b) = FromChars(s, b)
  BY <1>1, ReverseIs, DigitsOfSeq
<1>3. Len(s) # 0 => Reverse(s)[Len(s)] = s[1]
  BY <1>2
<1> QED
  BY <1>1, <1>2, <1>3 DEF Proper

-----------------------------------------------------------------------------
(* Writing a number.                                                       *)

LEMMA TenIs == /\ Ten \in Nat /\ Ten > 1 /\ Ten \in Nat \ {0}
               /\ Base \in Nat /\ Base > 1
               /\ Chunk \in Nat \ {0} /\ BaseChunk \in Nat \ {0}
               /\ Power(Ten, Chunk) < Radix /\ Power(Base, BaseChunk) < Radix
BY BigUintAssumption

LEMMA DigitsCons ==
    ASSUME NEW b \in Nat \ {0}, NEW w \in 0..(b - 1), NEW d \in DigitSeq(b)
    PROVE  /\ <<w>> \o d \in DigitSeq(b) /\ Len(<<w>> \o d) = Len(d) + 1
           /\ Number(<<w>> \o d, b) = Number(d, b) * b + w
           /\ Len(d) # 0 => (<<w>> \o d)[Len(<<w>> \o d)] = d[Len(d)]
<1> DEFINE n == Len(d)
           t == <<w>> \o d
<1>1. n \in Nat /\ b \in Nat /\ w \in Int /\ d \in Seq(Int) /\ <<w>> \in Seq(Int)
  BY DigitsOfSeq DEF DigitSeq
<1>2. t \in DigitSeq(b) /\ Len(t) = n + 1 /\ (n # 0 => t[n + 1] = d[n])
  <2>1. d \in Seq(0..(b - 1)) /\ <<w>> \in Seq(0..(b - 1)) /\ Len(<<w>>) = 1
    BY DEF DigitSeq
  <2>2. t \in Seq(0..(b - 1)) /\ Len(t) = n + 1
    BY <2>1
  <2>3. \A i \in 1..n : t[1 + i] = d[i]
    BY <2>1
  <2>4. n # 0 => t[n + 1] = d[n]
    BY <1>1, <2>3
  <2> QED
    BY <2>2, <2>4 DEF DigitSeq
<1>3. Number(<<w>> \o d, b) = Number(<<w>>, b) + Power(b, Len(<<w>>)) * Number(d, b)
  BY <1>1, NumberConcat
<1>4. Number(<<w>>, b) = w /\ Len(<<w>>) = 1 /\ Power(b, 1) = b /\ Number(d, b) \in Int
  BY <1>1, NumberOne, PowerOne, NumberIsInt
<1>5. Number(<<w>> \o d, b) = Number(d, b) * b + w
  BY <1>1, <1>3, <1>4
<1> QED
  BY <1>2, <1>5

RestOf(m) ==
    CHOOSE rest : rest = [k \in 0 .. m |->
        IF k < Ten THEN <<k>> ELSE <<k % Ten>> \o rest[k \div Ten]]

(* The digits of a built-in integer, of which there is at least one.       *)
Spells(d, n) ==
    /\ d \in DigitSeq(Ten) /\ Len(d) # 0 /\ Number(d, Ten) = n
    /\ n # 0 => d[Len(d)] # 0

LEMMA DigitsAre ==
    ASSUME NEW m \in Nat
    PROVE  Spells(Digits(m), m)
<1> DEFINE V == DigitSeq(Ten)
           from == [i \in 1..m |-> i \div Ten]
           step == [x \in (1..m) \X V |->
                      IF x[1] < Ten THEN <<x[1]>> ELSE <<x[1] % Ten>> \o x[2]]
           rest == RestOf(m)
<1>1. \A i \in 1..m : i % Ten \in 0..(Ten - 1) /\ i \div Ten \in 0..(i - 1)
  <2> SUFFICES ASSUME NEW i \in 1..m
               PROVE  i % Ten \in 0..(Ten - 1) /\ i \div Ten \in 0..(i - 1)
    OBVIOUS
  <2>1. i \in Nat /\ i # 0
    OBVIOUS
  <2>2. i % Ten \in 0..(Ten - 1) /\ i \div Ten \in Nat /\ i \div Ten < i
    BY <2>1, TenIs, Quotients
  <2> DEFINE q == i \div Ten
  <2>3. q \in Nat /\ q < i
    BY <2>2
  <2> HIDE DEF q
  <2>4. q \in 0..(i - 1)
    BY <2>1, <2>3
  <2> QED
    BY <2>2, <2>4 DEF q
<1>2. \A i \in 1..m, d \in V : (IF i < Ten THEN <<i>> ELSE <<i % Ten>> \o d) \in V
  <2> SUFFICES ASSUME NEW i \in 1..m, NEW d \in V
               PROVE  (IF i < Ten THEN <<i>> ELSE <<i % Ten>> \o d) \in V
    OBVIOUS
  <2>1. i < Ten => <<i>> \in V
    BY TenIs DEF DigitSeq
  <2>2. <<i % Ten>> \o d \in V
    BY <1>1, TenIs, DigitsCons
  <2> QED
    BY <2>1, <2>2
<1>3. /\ from \in [1..m -> Nat] /\ \A i \in 1..m : from[i] < i
      /\ \A i \in 1..m : from[i] = i \div Ten
  BY <1>1
<1>4. <<0>> \in V
  BY TenIs DEF DigitSeq
<1> HIDE DEF V, from
<1>5. /\ step \in [(1..m) \X V -> V]
      /\ \A i \in 1..m, d \in V :
           step[<<i, d>>] = IF i < Ten THEN <<i>> ELSE <<i % Ten>> \o d
  BY <1>2
<1> HIDE DEF step
<1>6. PICK g : TakesFrom(g, m, V, <<0>>, from, step)
  BY <1>3, <1>4, <1>5, RecursionFrom
<1>7. ASSUME NEW i \in 1..m
      PROVE  g[i] = IF i < Ten THEN <<i>> ELSE <<i % Ten>> \o g[i \div Ten]
  <2>1. i \div Ten \in 0..m
    BY <1>1
  <2>2. g[i \div Ten] \in V /\ g[i] = step[<<i, g[i \div Ten]>>]
    BY <1>3, <1>6, <2>1 DEF TakesFrom
  <2> QED
    BY <1>5, <2>2
<1>8. g = [k \in 0 .. m |-> IF k < Ten THEN <<k>> ELSE <<k % Ten>> \o g[k \div Ten]]
  <2>1. g \in [0..m -> V] /\ g[0] = <<0>>
    BY <1>6 DEF TakesFrom
  <2>2. \A k \in 0..m : g[k] = IF k < Ten THEN <<k>> ELSE <<k % Ten>> \o g[k \div Ten]
    <3>1. g[0] = IF 0 < Ten THEN <<0>> ELSE <<0 % Ten>> \o g[0 \div Ten]
      BY <2>1, TenIs
    <3>2. \A k \in 0..m : k = 0 \/ k \in 1..m
      OBVIOUS
    <3> QED
      BY <1>7, <3>1, <3>2, Zenon
  <2>4. g = [k \in 0..m |-> g[k]]
    BY <2>1
  <2> QED
    BY <2>2, <2>4, Zenon
<1>9. rest = [k \in 0 .. m |-> IF k < Ten THEN <<k>> ELSE <<k % Ten>> \o rest[k \div Ten]]
  BY <1>8, Zenon DEF RestOf
<1>10. Digits(m) = rest[m]
  BY Zenon DEF Digits, RestOf
<1> HIDE DEF rest
<1>11. \A i \in 0..m : rest[i] = IF i < Ten THEN <<i>> ELSE <<i % Ten>> \o rest[i \div Ten]
  BY <1>9, Zenon
<1> DEFINE S == {i \in 0..m : Spells(rest[i], i)}
<1>12. ASSUME NEW i \in 0..m, \A j \in 0..(i - 1) : j \in S PROVE i \in S
  <2>1. CASE i < Ten
    <3>0. rest[i] = <<i>>
      BY <1>11, <2>1, Zenon
    <3>1. rest[i] = <<i>> /\ i \in Int
      BY <3>0
    <3>2. <<i>> \in DigitSeq(Ten) /\ Len(<<i>>) = 1 /\ <<i>>[1] = i
      BY <2>1, TenIs DEF DigitSeq
    <3>3. Number(<<i>>, Ten) = i
      BY <3>1, TenIs, NumberOne
    <3>4. Spells(<<i>>, i)
      BY <3>2, <3>3 DEF Spells
    <3> QED
      BY <3>1, <3>4
  <2>2. CASE ~ (i < Ten)
    <3> DEFINE q == i \div Ten
               w == i % Ten
               d == rest[q]
    <3>1. i \in 1..m /\ i \in Nat /\ i # 0 /\ i >= Ten
      BY <2>2, TenIs
    <3>2. w \in 0..(Ten - 1) /\ q \in 0..(i - 1) /\ i = q * Ten + w /\ q # 0
      <4>1. w \in 0..(Ten - 1) /\ i = q * Ten + w /\ q # 0
        BY <3>1, TenIs, Quotients
      <4> QED
        BY <1>1, <3>1, <4>1
    <3>3. rest[i] = <<w>> \o d
      BY <1>11, <2>2
    <3> HIDE DEF q, w
    <3>4. d \in DigitSeq(Ten) /\ Len(d) # 0 /\ Number(d, Ten) = q /\ d[Len(d)] # 0
      BY <1>12, <3>2 DEF Spells
    <3> HIDE DEF d
    <3>5. /\ <<w>> \o d \in DigitSeq(Ten) /\ Len(<<w>> \o d) = Len(d) + 1
          /\ Number(<<w>> \o d, Ten) = q * Ten + w
          /\ (<<w>> \o d)[Len(<<w>> \o d)] = d[Len(d)]
      BY <3>2, <3>4, TenIs, DigitsCons
    <3>6. Len(d) \in Nat
      BY <3>4, TenIs, DigitsOfSeq
    <3>7. Spells(<<w>> \o d, i)
      BY <3>2, <3>4, <3>5, <3>6 DEF Spells
    <3> QED
      BY <3>3, <3>7
  <2> QED
    BY <2>1, <2>2
<1>13. \A i \in 0..m : i \in S
  <2> HIDE DEF S
  <2> QED
    BY <1>12, StrongInduction, Zenon
<1> QED
  BY <1>10, <1>13

(* The last of the digits that a number needs is not zero.                 *)
LEMMA LastDigit ==
    ASSUME NEW b \in Nat \ {0}, NEW d \in DigitSeq(b), Len(d) # 0,
           Number(d, b) >= Power(b, Len(d) - 1)
    PROVE  Proper(d, b)
<1> DEFINE n == Len(d)
<1>1. DigitsOf(d, b, n) /\ Ints(d, n) /\ n \in Nat /\ b \in Nat
  BY DigitsOfSeq
<1>2. n - 1 \in 0..(n - 1) /\ n - 1 \in 0..n /\ (n - 1) + 1 = n
  BY <1>1
<1>3. Number(d, b) = Part(d, b, n)
  BY NumberIsPart
<1> HIDE DEF n
<1>4. /\ Part(d, b, n - 1) \in Int /\ Power(b, n - 1) \in Nat
      /\ Part(d, b, (n - 1) + 1) = Part(d, b, n - 1) + d[(n - 1) + 1] * Power(b, n - 1)
  <2>1. PICK k \in 0..(n - 1) : k = n - 1
    BY <1>2
  <2>2. /\ Part(d, b, k) \in Int /\ Power(b, k) \in Nat
        /\ Part(d, b, k + 1) = Part(d, b, k) + d[k + 1] * Power(b, k)
    BY <1>1, PartStep
  <2> QED
    BY <2>1, <2>2
<1>5. Part(d, b, n - 1) < Power(b, n - 1)
  BY <1>1, <1>2, PartBound
<1>6. d[n] # 0
  <2> SUFFICES ASSUME d[n] = 0 PROVE FALSE
    OBVIOUS
  <2>1. Part(d, b, n) = Part(d, b, n - 1)
    BY <1>2, <1>4
  <2>2. Part(d, b, n) >= Power(b, n - 1)
    BY <1>3 DEF n
  <2> QED
    BY <1>4, <1>5, <2>1, <2>2
<1> QED
  BY <1>6 DEF Proper, n

LEMMA ConcatLast ==
    ASSUME NEW V, NEW d \in Seq(V), NEW e \in Seq(V), Len(e) # 0
    PROVE  /\ d \o e \in Seq(V) /\ Len(d \o e) = Len(d) + Len(e)
           /\ (d \o e)[Len(d \o e)] = e[Len(e)]
<1>1. Len(d) \in Nat /\ Len(e) \in Nat
  OBVIOUS
<1>2. d \o e \in Seq(V) /\ Len(d \o e) = Len(d) + Len(e)
  OBVIOUS
<1>3. \A i \in 1..Len(e) : (d \o e)[Len(d) + i] = e[i]
  OBVIOUS
<1>4. Len(e) \in 1..Len(e)
  BY <1>1
<1>5. (d \o e)[Len(d) + Len(e)] = e[Len(e)]
  BY <1>3, <1>4
<1> QED
  BY <1>2, <1>5

(* What a loop over digits and its carry make.                             *)
LEMMA JoinedIs ==
    ASSUME NEW x \in Seq(Nat), NEW first \in Nat, NEW r,
           r = Carried(x, Ten, first) \o CarryDigits(Overflow(x, Ten, first))
    PROVE  /\ r \in DigitSeq(Ten) /\ Number(r, Ten) = Number(x, Ten) + first
           /\ Number(x, Ten) \in Int
           /\ Len(x) = 0 \/ Number(r, Ten) >= Power(Ten, Len(x) - 1) => Proper(r, Ten)
           /\ Number(r, Ten) < Power(Ten, Len(x)) => Len(r) = Len(x)
<1> DEFINE n == Len(x)
           y == Carried(x, Ten, first)
           o == Overflow(x, Ten, first)
           c == CarryDigits(o)
<1>1. x \in Seq(Int) /\ first \in Int /\ n \in Nat
  OBVIOUS
<1>2. /\ y \in DigitSeq(Ten) /\ Len(y) = n
      /\ Number(x, Ten) + first = Number(y, Ten) + o * Power(Ten, n)
  BY <1>1, TenIs, CarriedIs
<1>3. o \in Nat
  BY TenIs, OverflowIs
<1>4. Number(x, Ten) \in Int /\ Power(Ten, n) \in Nat /\ Power(Ten, n) > 0
  BY <1>1, TenIs, NumberIsInt, PowerIsNat, PowerGrows
<1> HIDE DEF y, o, n
<1>5. y \in Seq(Int) /\ Number(y, Ten) \in Nat
  BY <1>2, TenIs, DigitsInInt, NumberBound
<1>6. CASE o = 0
  <2>1. r = y
    <3>1. r = y \o <<>>
      BY <1>6 DEF CarryDigits, y, o
    <3> QED
      BY <1>5, <3>1
  <2>2. Number(r, Ten) = Number(x, Ten) + first
    BY <1>2, <1>4, <1>5, <1>6, <2>1
  <2>3. ASSUME n = 0 \/ Number(r, Ten) >= Power(Ten, n - 1) PROVE Proper(r, Ten)
    <3>1. CASE n = 0
      BY <1>2, <2>1, <3>1 DEF Proper
    <3>2. CASE n # 0
      BY <1>2, <2>1, <2>3, <3>2, TenIs, LastDigit
    <3> QED
      BY <3>1, <3>2
  <2> QED
    BY <1>2, <1>4, <2>1, <2>2, <2>3 DEF n
<1>7. CASE o # 0
  <2>1. c \in DigitSeq(Ten) /\ Len(c) # 0 /\ Number(c, Ten) = o /\ c[Len(c)] # 0
    <3>1. Spells(Digits(o), o)
      BY <1>3, DigitsAre
    <3> QED
      BY <1>7, <3>1 DEF CarryDigits, Spells
  <2>2. r = y \o c
    BY DEF y, o
  <2> HIDE DEF c
  <2>3. c \in Seq(Int) /\ Len(c) \in Nat
    BY <2>1, TenIs, DigitsInInt, DigitsOfSeq
  <2>4. Number(r, Ten) = Number(y, Ten) + Power(Ten, n) * o
    BY <1>2, <1>5, <2>1, <2>2, <2>3, TenIs, NumberConcat
  <2>5. r \in DigitSeq(Ten) /\ Len(r) = n + Len(c) /\ r[n + Len(c)] = c[Len(c)]
    <3>1. y \in Seq(0..(Ten - 1)) /\ c \in Seq(0..(Ten - 1)) /\ Len(c) # 0
      BY <1>2, <2>1 DEF DigitSeq
    <3>2. y \o c \in Seq(0..(Ten - 1)) /\ Len(y \o c) = Len(y) + Len(c)
      BY <3>1, ConcatLast
    <3>3. (y \o c)[Len(y \o c)] = c[Len(c)]
      BY <3>1, ConcatLast
    <3> QED
      BY <1>2, <2>2, <3>2, <3>3 DEF DigitSeq
  <2>6. Proper(r, Ten)
    BY <2>1, <2>5 DEF Proper
  <2>7. Number(r, Ten) = Number(x, Ten) + first
    BY <1>2, <1>3, <1>4, <1>5, <2>4
  <2>8. ~ (Number(r, Ten) < Power(Ten, n))
    <3>1. Power(Ten, n) * o >= Power(Ten, n)
      <4>1. \A p, q \in Nat : q # 0 => p * q >= p
        OBVIOUS
      <4> QED
        BY <1>3, <1>4, <1>7, <4>1
    <3>2. Power(Ten, n) * o \in Nat
      BY <1>3, <1>4
    <3> QED
      BY <1>4, <1>5, <2>4, <3>1, <3>2
  <2> QED
    BY <1>4, <2>5, <2>6, <2>7, <2>8 DEF n
<1> QED
  BY <1>6, <1>7

LEMMA AccPlusIntIs ==
    ASSUME NEW d, Proper(d, Ten), NEW n \in Nat
    PROVE  /\ Proper(AccPlusInt(d, n), Ten)
           /\ Number(AccPlusInt(d, n), Ten) = Number(d, Ten) + n
<1> DEFINE r == AccPlusInt(d, n)
<1>1. d \in DigitSeq(Ten) /\ d \in Seq(Nat) /\ Len(d) \in Nat
  BY TenIs, DigitsInInt, DigitsOfSeq DEF Proper
<1>2. r = Carried(d, Ten, n) \o CarryDigits(Overflow(d, Ten, n))
  BY DEF AccPlusInt
<1> HIDE DEF r
<1>3. /\ r \in DigitSeq(Ten) /\ Number(r, Ten) = Number(d, Ten) + n
      /\ Len(d) = 0 \/ Number(r, Ten) >= Power(Ten, Len(d) - 1) => Proper(r, Ten)
  BY <1>1, <1>2, JoinedIs
<1>4. Number(d, Ten) \in Nat
  BY <1>1, TenIs, NumberBound
<1>5. Len(d) # 0 => Number(r, Ten) >= Power(Ten, Len(d) - 1)
  <2> SUFFICES ASSUME Len(d) # 0 PROVE Number(r, Ten) >= Power(Ten, Len(d) - 1)
    OBVIOUS
  <2>1. Number(d, Ten) >= Power(Ten, Len(d) - 1)
    BY TenIs, NumberLeast
  <2>2. Len(d) - 1 \in Nat
    BY <1>1
  <2>3. Power(Ten, Len(d) - 1) \in Nat
    BY <2>2, TenIs, PowerIsNat
  <2> QED
    BY <1>3, <1>4, <2>1, <2>3
<1> QED
  BY <1>3, <1>5 DEF r

LEMMA AccPlusIs ==
    ASSUME NEW d \in DigitSeq(Ten), NEW e \in DigitSeq(Ten)
    PROVE  /\ AccPlus(d, e) \in DigitSeq(Ten)
           /\ Number(AccPlus(d, e), Ten) = Number(d, Ten) + Number(e, Ten)
           /\ Proper(d, Ten) /\ Len(e) <= Len(d) => Proper(AccPlus(d, e), Ten)
           /\ Proper(e, Ten) /\ Len(d) <= Len(e) => Proper(AccPlus(d, e), Ten)
           /\ Len(d) <= Len(e) /\ Number(d, Ten) + Number(e, Ten) < Power(Ten, Len(e))
              => Len(AccPlus(d, e)) = Len(e)
<1> DEFINE x == Sums(d, e)
           r == AccPlus(d, e)
           n == Longer(d, e)
<1>1. /\ d \in Seq(Int) /\ Len(d) \in Nat /\ Number(d, Ten) \in Nat
      /\ e \in Seq(Int) /\ Len(e) \in Nat /\ Number(e, Ten) \in Nat
  BY TenIs, DigitsInInt, DigitsOfSeq, NumberBound
<1>2. x \in Seq(Nat) /\ Len(x) = n /\ Number(x, Ten) = Number(d, Ten) + Number(e, Ten)
  BY <1>1, TenIs, SumsAre, SumsColumns
<1>3. r = Carried(x, Ten, 0) \o CarryDigits(Overflow(x, Ten, 0))
  BY DEF AccPlus
<1> HIDE DEF x, r
<1>4. /\ r \in DigitSeq(Ten) /\ Number(r, Ten) = Number(x, Ten) + 0
      /\ Number(x, Ten) \in Int
      /\ Len(x) = 0 \/ Number(r, Ten) >= Power(Ten, Len(x) - 1) => Proper(r, Ten)
      /\ Number(r, Ten) < Power(Ten, Len(x)) => Len(r) = Len(x)
  <2>1. 0 \in Nat
    OBVIOUS
  <2> QED
    BY <1>2, <1>3, <2>1, JoinedIs
<1>5. n = IF Len(d) < Len(e) THEN Len(e) ELSE Len(d)
  BY DEF Longer
<1> HIDE DEF n
<1>6. Number(r, Ten) = Number(d, Ten) + Number(e, Ten)
  BY <1>1, <1>2, <1>4
<1>7. ASSUME NEW f \in {d, e}, Proper(f, Ten), Len(f) = n PROVE Proper(r, Ten)
  <2>1. CASE n = 0
    BY <1>2, <1>4, <2>1
  <2>2. CASE n # 0
    <3>1. Number(f, Ten) >= Power(Ten, n - 1)
      BY <1>7, <2>2, TenIs, NumberLeast
    <3>2. n - 1 \in Nat
      BY <1>1, <1>5, <2>2
    <3>3. Power(Ten, n - 1) \in Nat
      BY <3>2, TenIs, PowerIsNat
    <3>4. Number(f, Ten) \in Nat /\ Number(f, Ten) <= Number(r, Ten)
      BY <1>1, <1>6
    <3>5. Number(r, Ten) >= Power(Ten, n - 1)
      BY <1>1, <1>6, <3>1, <3>3, <3>4
    <3> QED
      BY <1>2, <1>4, <3>5
  <2> QED
    BY <2>1, <2>2
<1>8. Proper(d, Ten) /\ Len(e) <= Len(d) => Proper(r, Ten)
  BY <1>1, <1>5, <1>7
<1>9. Proper(e, Ten) /\ Len(d) <= Len(e) => Proper(r, Ten)
  BY <1>1, <1>5, <1>7
<1>10. Len(d) <= Len(e) /\ Number(d, Ten) + Number(e, Ten) < Power(Ten, Len(e)) => Len(r) = Len(e)
  BY <1>1, <1>2, <1>4, <1>5, <1>6
<1> QED
  BY <1>4, <1>6, <1>8, <1>9, <1>10 DEF r

LEMMA AccShiftIs ==
    ASSUME NEW d, NEW m, Spells(d, m), NEW n \in Nat
    PROVE  /\ AccShift(d, n) \in DigitSeq(Ten) /\ Len(AccShift(d, n)) >= n + 1
           /\ Len(AccShift(d, n)) \in Nat
           /\ Number(AccShift(d, n), Ten) = m * Power(Ten, n)
           /\ m # 0 => Proper(AccShift(d, n), Ten)
<1> DEFINE z == [i \in 1..n |-> 0]
           r == AccShift(d, n)
           l == Len(d)
<1>1. d \in DigitSeq(Ten) /\ l # 0 /\ Number(d, Ten) = m /\ (m # 0 => d[l] # 0)
  BY DEF Spells
<1>2. d \in Seq(Int) /\ l \in Nat /\ m \in Nat
  BY <1>1, TenIs, DigitsInInt, DigitsOfSeq, NumberBound
<1>3. r = z \o d
  BY DEF AccShift
<1> HIDE DEF r
<1>4. z \in DigitSeq(Ten) /\ z \in Seq(Int) /\ Len(z) = n /\ Number(z, Ten) = 0
  <2>1. z \in [1..n -> 0..(Ten - 1)] /\ z \in [1..n -> Int]
    BY TenIs
  <2>2. \A i \in 1..n : z[i] = 0
    OBVIOUS
  <2> HIDE DEF z
  <2>3. z \in Seq(0..(Ten - 1)) /\ z \in Seq(Int) /\ Len(z) = n
    BY <2>1, SeqOfFunction
  <2>4. Number(z, Ten) = 0
    BY <2>2, <2>3, TenIs, NumberZeros
  <2> QED
    BY <2>3, <2>4 DEF DigitSeq
<1> HIDE DEF z
<1>5. Number(z \o d, Ten) = Number(z, Ten) + Power(Ten, n) * Number(d, Ten)
  BY <1>2, <1>4, TenIs, NumberConcat
<1>6. Power(Ten, n) \in Nat
  BY TenIs, PowerIsNat
<1>7. Number(r, Ten) = m * Power(Ten, n)
  BY <1>1, <1>2, <1>3, <1>4, <1>5, <1>6
<1>8. r \in DigitSeq(Ten) /\ Len(r) = n + l /\ r[n + l] = d[l]
  <2>1. z \in Seq(0..(Ten - 1)) /\ d \in Seq(0..(Ten - 1)) /\ Len(d) # 0
    BY <1>1, <1>4 DEF DigitSeq
  <2>2. z \o d \in Seq(0..(Ten - 1)) /\ Len(z \o d) = Len(z) + Len(d)
    BY <2>1, ConcatLast
  <2>3. (z \o d)[Len(z \o d)] = d[Len(d)]
    BY <2>1, ConcatLast
  <2> QED
    BY <1>3, <1>4, <2>2, <2>3 DEF DigitSeq
<1>9. m # 0 => Proper(r, Ten)
  BY <1>1, <1>8 DEF Proper
<1>10. n + l >= n + 1 /\ n + l \in Nat
  BY <1>1, <1>2
<1> QED
  BY <1>7, <1>8, <1>9, <1>10 DEF r

(* The digit of zero.                                                      *)
LEMMA DigitZero == Digits(0) = <<0>>
<1> DEFINE rest == RestOf(0)
<1>1. Digits(0) = rest[0]
  BY Zenon DEF Digits, RestOf
<1> DEFINE g == [k \in 0..0 |-> <<0>>]
<1>2. g = [k \in 0 .. 0 |-> IF k < Ten THEN <<k>> ELSE <<k % Ten>> \o g[k \div Ten]]
  <2>1. \A k \in 0..0 : k = 0 /\ k < Ten
    BY TenIs
  <2> QED
    BY <2>1
<1> HIDE DEF g
<1>3. rest = [k \in 0 .. 0 |-> IF k < Ten THEN <<k>> ELSE <<k % Ten>> \o rest[k \div Ten]]
  BY <1>2, Zenon DEF RestOf
<1> HIDE DEF rest
<1>4. 0 \in 0..0 /\ 0 < Ten
  BY TenIs
<1>5. rest[0] = <<0>>
  BY <1>3, <1>4, Zenon
<1> QED
  BY <1>1, <1>5

LEMMA ShiftZero == \A n \in Nat : Len(AccShift(<<0>>, n)) = n + 1
<1> SUFFICES ASSUME NEW n \in Nat PROVE Len(AccShift(<<0>>, n)) = n + 1
  OBVIOUS
<1> DEFINE z == [i \in 1..n |-> 0]
<1>1. z \in [1..n -> Int]
  OBVIOUS
<1> HIDE DEF z
<1>2. z \in Seq(Int) /\ Len(z) = n
  BY <1>1, SeqOfFunction
<1>3. <<0>> \in Seq(Int) /\ Len(<<0>>) = 1
  OBVIOUS
<1>4. Len(z \o <<0>>) = n + 1
  BY <1>2, <1>3
<1> QED
  BY <1>4 DEF AccShift, z

AccSumsOf(d, n) ==
    CHOOSE sum : sum = [i \in 0 .. Len(d) |->
        IF i = 0 THEN <<>> ELSE AccPlus(sum[i - 1], AccShift(Digits(d[i] * n), i - 1))]

(* A sum of so many shifted products: with no more digits than it needs,   *)
(* or than there are products.                                             *)
Tidy(s, i) == s \in DigitSeq(Ten) /\ (Proper(s, Ten) \/ Len(s) <= i)

LEMMA AccTimesIs ==
    ASSUME NEW d, Proper(d, Ten), NEW n \in Nat \ {0}
    PROVE  Proper(AccTimes(d, n), Ten) /\ Number(AccTimes(d, n), Ten) = Number(d, Ten) * n
<1> DEFINE V == DigitSeq(Ten)
           l == Len(d)
           row == [i \in 1..l |-> AccShift(Digits(d[i] * n), i - 1)]
           step == [x \in (1..l) \X V |-> AccPlus(x[2], row[x[1]])]
           sum == AccSumsOf(d, n)
<1>1. /\ d \in DigitSeq(Ten) /\ DigitsOf(d, Ten, l) /\ Ints(d, l) /\ l \in Nat
      /\ (l # 0 => d[l] # 0)
  BY TenIs, DigitsOfSeq DEF Proper
<1>2. Number(d, Ten) = Part(d, Ten, l)
  BY NumberIsPart
<1>3. AccTimes(d, n) = sum[l]
  BY Zenon DEF AccTimes, AccSumsOf
<1> HIDE DEF l
<1>4. ASSUME NEW i \in 1..l
      PROVE  /\ i - 1 \in Nat /\ d[i] \in Nat /\ d[i] * n \in Nat
             /\ Spells(Digits(d[i] * n), d[i] * n)
             /\ row[i] = AccShift(Digits(d[i] * n), i - 1) /\ row[i] \in V
  <2>1. i - 1 \in Nat /\ d[i] \in Nat
    BY <1>1, TenIs DEF DigitsOf
  <2>2. d[i] * n \in Nat
    BY <2>1
  <2>3. Spells(Digits(d[i] * n), d[i] * n)
    BY <2>2, DigitsAre
  <2>4. AccShift(Digits(d[i] * n), i - 1) \in V
    BY <2>1, <2>3, AccShiftIs
  <2> QED
    BY <2>1, <2>2, <2>3, <2>4
<1>5. <<>> \in V /\ \A s, t \in V : AccPlus(s, t) \in V
  BY AccPlusIs DEF DigitSeq
<1> HIDE DEF row
<1>6. step \in [(1..l) \X V -> V] /\ \A i \in 1..l, s \in V : step[<<i, s>>] = AccPlus(s, row[i])
  BY <1>4, <1>5
<1> HIDE DEF step
<1>7. PICK g : Takes(g, l, V, <<>>, step)
  <2> HIDE DEF V
  <2> QED
    BY <1>1, <1>5, <1>6, Recursion
<1>8. ASSUME NEW i \in 1..l PROVE g[i] = AccPlus(g[i - 1], AccShift(Digits(d[i] * n), i - 1))
  <2>1. i - 1 \in 0..l
    BY <1>1
  <2> HIDE DEF V
  <2>2. g[i - 1] \in V /\ g[i] = step[<<i, g[i - 1]>>]
    BY <1>7, <2>1 DEF Takes
  <2>3. g[i] = AccPlus(g[i - 1], row[i])
    BY <1>6, <2>2
  <2> QED
    BY <2>3, <1>4
<1>9. g = [i \in 0 .. l |->
             IF i = 0 THEN <<>> ELSE AccPlus(g[i - 1], AccShift(Digits(d[i] * n), i - 1))]
  <2> HIDE DEF V
  <2> QED
    BY <1>1, <1>7, <1>8 DEF Takes
<1>10. sum = [i \in 0 .. l |->
                IF i = 0 THEN <<>> ELSE AccPlus(sum[i - 1], AccShift(Digits(d[i] * n), i - 1))]
  BY <1>9, Zenon DEF AccSumsOf, l
<1> HIDE DEF sum, V
<1>11. sum[0] = <<>> /\ \A i \in 1..l : sum[i] = AccPlus(sum[i - 1], row[i])
  <2>1. 0 \in 0..l /\ \A i \in 1..l : i \in 0..l /\ i # 0
    BY <1>1
  <2>2. sum[0] = <<>>
    BY <1>10, <2>1, Zenon
  <2>3. \A i \in 1..l : sum[i] = AccPlus(sum[i - 1], AccShift(Digits(d[i] * n), i - 1))
    BY <1>10, <2>1, Zenon
  <2> QED
    BY <1>4, <2>2, <2>3
<1> DEFINE Good(i) == /\ sum[i] \in DigitSeq(Ten) /\ Number(sum[i], Ten) = Part(d, Ten, i) * n
                      /\ Tidy(sum[i], i)
                      /\ i # 0 => (d[i] # 0 => Proper(sum[i], Ten))
           S == {i \in 0..l : Good(i)}
<1>12. 0 \in S
  <2>1. Number(<<>>, Ten) = 0 /\ Part(d, Ten, 0) = 0 /\ 0 * n = 0
    BY TenIs, NumberNone, PartNone
  <2>2. Tidy(<<>>, 0) /\ <<>> \in DigitSeq(Ten)
    BY DEF Tidy, DigitSeq
  <2> QED
    BY <1>1, <1>11, <2>1, <2>2
<1>13. ASSUME NEW i \in 0..(l - 1), i \in S PROVE i + 1 \in S
  <2> DEFINE s == sum[i]
             e == row[i + 1]
             w == d[i + 1] * n
             p == Power(Ten, i)
  <2>1. i \in Nat /\ i + 1 \in 1..l /\ i + 1 \in 0..l /\ (i + 1) - 1 = i
    BY <1>1
  <2>2. sum[i + 1] = AccPlus(s, e)
    BY <1>11, <2>1
  <2>3. s \in DigitSeq(Ten) /\ Number(s, Ten) = Part(d, Ten, i) * n /\ Tidy(s, i)
    BY <1>13
  <2>4. e = AccShift(Digits(w), i) /\ Spells(Digits(w), w) /\ w \in Nat
    BY <1>4, <2>1
  <2>5. d[i + 1] \in Nat /\ (w = 0 <=> d[i + 1] = 0)
    <3>1. d[i + 1] \in Nat
      BY <1>4, <2>1
    <3>2. \A u \in Nat : u * n = 0 <=> u = 0
      OBVIOUS
    <3> QED
      BY <3>1, <3>2
  <2>6. /\ Part(d, Ten, i) \in Int /\ p \in Nat /\ d[i + 1] \in Int
        /\ Part(d, Ten, i + 1) = Part(d, Ten, i) + d[i + 1] * p
    BY <1>1, TenIs, PartStep
  <2>15. w * p = (d[i + 1] * p) * n
    <3> DEFINE u == d[i + 1]
    <3>1. u \in Int
      BY <2>6
    <3> HIDE DEF u, p
    <3>2. (u * n) * p = (u * p) * n
      BY <2>6, <3>1
    <3> QED
      BY <3>2 DEF u
  <2> HIDE DEF s, e, w, p
  <2>7. /\ e \in DigitSeq(Ten) /\ Len(e) >= i + 1 /\ Len(e) \in Nat
        /\ Number(e, Ten) = w * p /\ (w # 0 => Proper(e, Ten))
    BY <2>1, <2>4, AccShiftIs DEF p
  <2>8. /\ AccPlus(s, e) \in DigitSeq(Ten)
        /\ Number(AccPlus(s, e), Ten) = Number(s, Ten) + Number(e, Ten)
        /\ Proper(s, Ten) /\ Len(e) <= Len(s) => Proper(AccPlus(s, e), Ten)
        /\ Proper(e, Ten) /\ Len(s) <= Len(e) => Proper(AccPlus(s, e), Ten)
        /\ Len(s) <= Len(e) /\ Number(s, Ten) + Number(e, Ten) < Power(Ten, Len(e))
           => Len(AccPlus(s, e)) = Len(e)
    BY <2>3, <2>7, AccPlusIs
  <2>9. Number(sum[i + 1], Ten) = Part(d, Ten, i + 1) * n
    <3> DEFINE q == Part(d, Ten, i)
               u == d[i + 1] * p
    <3>1. q \in Int /\ u \in Int /\ n \in Int
      BY <2>6
    <3>2. Number(sum[i + 1], Ten) = q * n + u * n
      BY <2>2, <2>3, <2>7, <2>8, <2>15
    <3>3. Part(d, Ten, i + 1) = q + u
      BY <2>6
    <3> HIDE DEF q, u
    <3>4. q * n + u * n = (q + u) * n
      BY <3>1
    <3> QED
      BY <3>2, <3>3, <3>4
  <2>10. Len(s) \in Nat /\ (Proper(s, Ten) \/ Len(s) <= i)
    BY <2>3, TenIs, DigitsOfSeq DEF Tidy
  <2>11. ASSUME w # 0 PROVE Proper(AccPlus(s, e), Ten)
    BY <2>1, <2>7, <2>8, <2>10, <2>11
  <2>12. ASSUME w = 0 PROVE Tidy(AccPlus(s, e), i + 1)
    <3>0. Len(e) = i + 1
      <4>1. e = AccShift(<<0>>, i)
        BY <2>4, <2>12, DigitZero
      <4> QED
        BY <2>1, <4>1, ShiftZero
    <3>1. CASE Len(s) >= i + 2
      <4>1. Proper(s, Ten)
        BY <2>1, <2>10, <3>1
      <4>2. Len(e) <= Len(s)
        BY <2>1, <2>10, <3>0, <3>1
      <4> QED
        BY <2>8, <4>1, <4>2 DEF Tidy
    <3>2. CASE ~ (Len(s) >= i + 2)
      <4>1. Len(s) <= i + 1 /\ Len(s) <= Len(e) /\ Len(e) = i + 1
        BY <2>1, <2>10, <3>0, <3>2
      <4>2. Number(e, Ten) = 0
        BY <2>6, <2>7, <2>12 DEF p
      <4>3. Number(s, Ten) \in Nat /\ Number(s, Ten) < Power(Ten, Len(s))
        BY <2>3, TenIs, NumberBound
      <4>4. /\ Power(Ten, Len(s)) <= Power(Ten, Len(e))
            /\ Power(Ten, Len(s)) \in Nat /\ Power(Ten, Len(e)) \in Nat
        BY <2>7, <2>10, <4>1, TenIs, PowerGrows, PowerIsNat
      <4>5. Number(s, Ten) + Number(e, Ten) < Power(Ten, Len(e))
        BY <4>2, <4>3, <4>4
      <4>6. Len(AccPlus(s, e)) = i + 1
        BY <2>8, <4>1, <4>5
      <4> QED
        BY <2>1, <2>8, <4>6 DEF Tidy
    <3> QED
      BY <3>1, <3>2
  <2>13. Tidy(AccPlus(s, e), i + 1)
    BY <2>8, <2>11, <2>12 DEF Tidy
  <2>14. d[i + 1] # 0 => Proper(AccPlus(s, e), Ten)
    BY <2>5, <2>11 DEF w
  <2> QED
    BY <2>1, <2>2, <2>8, <2>9, <2>13, <2>14
<1>14. \A i \in 0..l : i \in S
  <2> HIDE DEF S
  <2> QED
    BY <1>1, <1>12, <1>13, Induction, Zenon
<1>15. Good(l)
  BY <1>1, <1>14
<1>16. Proper(sum[l], Ten)
  <2>1. CASE l = 0
    <3>1. Len(<<>>) = 0 /\ <<>> \in DigitSeq(Ten)
      BY DEF DigitSeq
    <3> QED
      BY <1>11, <2>1, <3>1 DEF Proper
  <2>2. CASE l # 0
    BY <1>1, <1>15, <2>2
  <2> QED
    BY <2>1, <2>2
<1> QED
  BY <1>2, <1>3, <1>15, <1>16

AccOf(a) ==
    CHOOSE acc : acc = [k \in 0 .. Len(a) |->
        IF k = 0 THEN <<>>
        ELSE AccPlusInt(AccTimes(acc[k - 1], Radix), a[Len(a) + 1 - k])]

(* All the words, from the last one to the first.                          *)
LEMMA AccIs ==
    ASSUME NEW a \in DigitSeq(Radix)
    PROVE  Proper(AccOf(a)[Len(a)], Ten) /\ Number(AccOf(a)[Len(a)], Ten) = Number(a, Radix)
<1> DEFINE V == {d \in DigitSeq(Ten) : Proper(d, Ten)}
           l == Len(a)
           s == Reverse(a)
           next(k, d) == AccPlusInt(AccTimes(d, Radix), s[k])
           step == [x \in (1..l) \X V |-> next(x[1], x[2])]
           acc == AccOf(a)
<1>1. /\ s \in DigitSeq(Radix) /\ Len(s) = l /\ l \in Nat
      /\ \A k \in 1..l : s[k] = a[l + 1 - k]
      /\ Number(a, Radix) = FromChars(s, Radix)
  <2>1. /\ s \in DigitSeq(Radix) /\ Len(s) = l /\ (\A k \in 1..l : s[k] = a[l + 1 - k])
        /\ Reverse(s) = a
    BY RadixIs, ReverseIs
  <2>2. Number(Reverse(s), Radix) = FromChars(s, Radix)
    BY <2>1, RadixIs, ReverseIs
  <2>3. l \in Nat
    BY RadixIs, DigitsOfSeq
  <2> QED
    BY <2>1, <2>2, <2>3
<1> HIDE DEF s
<1>2. DigitsOf(s, Radix, l) /\ Ints(s, l)
  BY <1>1, RadixIs, DigitsOfSeq
<1>3. FromChars(s, Radix) = Horner(s, Radix, l)
  BY <1>1, FromCharsIsHorner
<1> HIDE DEF l
<1>4. ASSUME NEW k \in 1..l, NEW d, Proper(d, Ten)
      PROVE  Proper(next(k, d), Ten) /\ Number(next(k, d), Ten) = Number(d, Ten) * Radix + s[k]
  <2>1. Proper(AccTimes(d, Radix), Ten) /\ Number(AccTimes(d, Radix), Ten) = Number(d, Ten) * Radix
    BY <1>4, RadixIs, AccTimesIs
  <2>2. s[k] \in Nat
    BY <1>2, RadixIs DEF DigitsOf
  <2> QED
    BY <2>1, <2>2, AccPlusIntIs
<1>5. \A d : d \in V <=> Proper(d, Ten)
  BY DEF Proper
<1>6. <<>> \in V /\ Proper(<<>>, Ten)
  <2>1. Len(<<>>) = 0 /\ <<>> \in DigitSeq(Ten)
    BY DEF DigitSeq
  <2> QED
    BY <2>1 DEF Proper
<1> HIDE DEF V, next
<1>7. \A k \in 1..l, d \in V : next(k, d) \in V
  BY <1>4, <1>5
<1>8. step \in [(1..l) \X V -> V] /\ \A k \in 1..l, d \in V : step[<<k, d>>] = next(k, d)
  BY <1>7
<1> HIDE DEF step
<1>9. PICK g : Takes(g, l, V, <<>>, step)
  BY <1>1, <1>6, <1>8, Recursion
<1>10. ASSUME NEW k \in 1..l PROVE g[k] = AccPlusInt(AccTimes(g[k - 1], Radix), a[l + 1 - k])
  <2>1. k - 1 \in 0..l
    BY <1>1
  <2>2. g[k - 1] \in V /\ g[k] = step[<<k, g[k - 1]>>]
    BY <1>9, <2>1 DEF Takes
  <2>3. g[k] = next(k, g[k - 1])
    BY <1>8, <2>2
  <2> QED
    BY <1>1, <2>3 DEF next
<1>11. g = [k \in 0 .. l |->
              IF k = 0 THEN <<>> ELSE AccPlusInt(AccTimes(g[k - 1], Radix), a[l + 1 - k])]
  BY <1>1, <1>9, <1>10 DEF Takes
<1>12. acc = [k \in 0 .. l |->
                IF k = 0 THEN <<>> ELSE AccPlusInt(AccTimes(acc[k - 1], Radix), a[l + 1 - k])]
  BY <1>11, Zenon DEF AccOf, l
<1> HIDE DEF acc
<1>13. acc[0] = <<>> /\ \A k \in 1..l : acc[k] = next(k, acc[k - 1])
  <2>1. 0 \in 0..l /\ \A k \in 1..l : k \in 0..l /\ k # 0
    BY <1>1
  <2>2. acc[0] = <<>>
    BY <1>12, <2>1, Zenon
  <2>3. \A k \in 1..l : acc[k] = AccPlusInt(AccTimes(acc[k - 1], Radix), a[l + 1 - k])
    BY <1>12, <2>1, Zenon
  <2> QED
    BY <1>1, <2>2, <2>3 DEF next
<1> DEFINE S == {k \in 0..l : Proper(acc[k], Ten) /\ Number(acc[k], Ten) = Horner(s, Radix, k)}
<1>14. 0 \in S
  BY <1>1, <1>6, <1>13, TenIs, RadixIs, NumberNone, HornerNone
<1>15. ASSUME NEW k \in 0..(l - 1), k \in S PROVE k + 1 \in S
  <2>1. k + 1 \in 1..l /\ k + 1 \in 0..l /\ (k + 1) - 1 = k
    BY <1>1
  <2>2. acc[k + 1] = next(k + 1, acc[k])
    BY <1>13, <2>1
  <2>3. Proper(acc[k], Ten) /\ Number(acc[k], Ten) = Horner(s, Radix, k)
    BY <1>15
  <2> DEFINE d == acc[k]
             i == k + 1
  <2>4. /\ Proper(acc[k + 1], Ten)
        /\ Number(acc[k + 1], Ten) = Horner(s, Radix, k) * Radix + s[k + 1]
    <3>1. i \in 1..l /\ acc[i] = next(i, d) /\ Proper(d, Ten)
      BY <2>1, <2>2, <2>3
    <3>2. Number(d, Ten) = Horner(s, Radix, k)
      BY <2>3
    <3> HIDE DEF d, i
    <3>3. Proper(next(i, d), Ten) /\ Number(next(i, d), Ten) = Number(d, Ten) * Radix + s[i]
      BY <1>4, <3>1
    <3>4. Proper(acc[i], Ten) /\ Number(acc[i], Ten) = Horner(s, Radix, k) * Radix + s[i]
      BY <3>1, <3>2, <3>3
    <3> QED
      BY <3>4 DEF i
  <2>5. Horner(s, Radix, k + 1) = Horner(s, Radix, k) * Radix + s[k + 1]
    <3>1. Ints(s, l) /\ l \in Nat /\ Radix \in Nat /\ k \in 0..(l - 1)
      BY <1>1, <1>2, RadixIs
    <3> QED
      BY <3>1, HornerStep
  <2> QED
    BY <2>1, <2>4, <2>5
<1>16. \A k \in 0..l : k \in S
  <2> HIDE DEF S
  <2> QED
    BY <1>1, <1>14, <1>15, Induction, Zenon
<1>17. Proper(acc[l], Ten) /\ Number(acc[l], Ten) = Horner(s, Radix, l)
  BY <1>1, <1>16
<1> QED
  BY <1>1, <1>3, <1>17 DEF acc, l

(* to_string writes the digits of the number, without leading zeros.       *)
LEMMA StringOfIs ==
    ASSUME NEW a, NEW n, Is(a, n)
    PROVE  /\ StringOf(a) = IF n = 0 THEN <<0>> ELSE DigitsIn(n, Ten)
           /\ StringOf(a) \in DigitSeq(Ten) /\ FromChars(StringOf(a), Ten) = n
<1> DEFINE d == AccOf(a)[Len(a)]
           s == DigitsIn(n, Ten)
<1>1. a \in DigitSeq(Radix) /\ n \in Nat /\ n = Number(a, Radix)
  BY BigIs
<1>2. StringOf(a) = IF a = <<>> THEN <<0>> ELSE Reverse(d)
  BY Zenon DEF StringOf, AccOf
<1>3. a = <<>> <=> n = 0
  <2>1. a = <<>> => n = 0
    BY <1>1, RadixIs, NumberNone
  <2>2. n = 0 => a = <<>>
    BY NoneIs, IsUnique
  <2> QED
    BY <2>1, <2>2
<1>4. Proper(d, Ten) /\ Number(d, Ten) = n
  BY <1>1, AccIs
<1> HIDE DEF d
<1>5. Writes(s, Ten, n)
  BY <1>1, TenIs, DigitsInIs
<1>6. Proper(Reverse(s), Ten) /\ Number(Reverse(s), Ten) = n /\ Reverse(Reverse(s)) = s
  BY <1>5, TenIs, WritesProper
<1>7. d = Reverse(s)
  BY <1>4, <1>6, TenIs, ProperUnique
<1>8. StringOf(a) = IF n = 0 THEN <<0>> ELSE s
  BY <1>2, <1>3, <1>6, <1>7
<1>9. <<0>> \in DigitSeq(Ten) /\ FromChars(<<0>>, Ten) = 0
  <2>1. <<>> \in DigitSeq(Ten) /\ <<0>> \o <<>> = <<0>>
    BY DEF DigitSeq
  <2>2. /\ <<0>> \o <<>> \in DigitSeq(Ten)
        /\ FromChars(<<0>> \o <<>>, Ten) = FromChars(<<>>, Ten)
    BY <2>1, TenIs, LeadingZero
  <2> QED
    BY <2>1, <2>2, TenIs, FromCharsNone
<1>10. s \in DigitSeq(Ten) /\ FromChars(s, Ten) = n
  BY <1>5 DEF Writes
<1> QED
  BY <1>8, <1>9, <1>10

-----------------------------------------------------------------------------
(* Numbers: whatever is done to a big_uint, it stands for what it should.  *)

LEMMA OperandsAre ==
    ASSUME NEW b \in Numbers
    PROVE  Is(b, Value(b))
<1>1. Words \subseteq 0..(Radix - 1)
  BY NumbersAssumption, RadixIs
<1>2. PICK d \in BoundedSeq(Words, 2) : b = Trim(d)
  BY DEF Numbers
<1>3. PICK m \in 0..2 : d \in [1..m -> Words]
  BY <1>2 DEF BoundedSeq, SeqOf
<1>4. d \in Seq(Words) /\ d \in Seq(0..(Radix - 1))
  <2> DEFINE V == 0..(Radix - 1)
  <2> HIDE DEF V
  <2>0. Words \subseteq V
    BY <1>1 DEF V
  <2>1. d \in [1..m -> V] /\ m \in Nat
    BY <1>3, <2>0
  <2>2. d \in Seq(Words) /\ d \in Seq(V)
    BY <1>3, <2>1, SeqOfFunction
  <2> QED BY <2>2 DEF V
<1>5. d \in DigitSeq(Radix)
  BY <1>4 DEF DigitSeq
<1>6. Is(b, Number(d, Radix))
  BY <1>2, <1>5, TrimIsBig
<1> QED BY <1>6 DEF Is

LEMMA WordsAre == \A n \in Words : n \in 0..Ones
BY NumbersAssumption

LEMMA NumberStarts == NumberInit => Is(number, exact)
BY NoneIs DEF NumberInit

LEMMA NumberSteps ==
    ASSUME Is(number, exact), [NumberNext]_numberVars
    PROVE  Is(number', exact')
<1>0. number \in DigitSeq(Radix) /\ exact \in Nat
  BY BigIs
<1>1. ASSUME NEW b \in Numbers, Add(b)
      PROVE  Is(number', exact')
  <2>1. Is(Plus(number, b), exact + Value(b))
    BY OperandsAre, PlusIs
  <2> QED BY <1>1, <2>1 DEF Add, Becomes
<1>2. ASSUME NEW b \in Numbers, Multiply(b)
      PROVE  Is(number', exact')
  <2>1. Is(Times(number, b), exact * Value(b))
    BY OperandsAre, TimesIs
  <2> QED BY <1>2, <2>1 DEF Multiply, Becomes
<1>3. ASSUME NEW b \in Numbers, Subtract(b)
      PROVE  Is(number', exact')
  <2>1. Value(b) <= exact
    BY <1>3 DEF Subtract
  <2>2. Is(Minus(number, b), exact - Value(b))
    BY <2>1, OperandsAre, MinusIs
  <2> QED BY <1>3, <2>2 DEF Subtract, Becomes
<1>4. ASSUME NEW n \in Words, Scale(n)
      PROVE  Is(number', exact')
  <2>1. Is(TimesWord(number, n), exact * n)
    BY WordsAre, TimesWordIs
  <2> QED BY <1>4, <2>1 DEF Scale, Becomes, TimesInt
<1>5. CASE UNCHANGED numberVars
  BY <1>5 DEF numberVars, Is, Value
<1> QED BY <1>1, <1>2, <1>3, <1>4, <1>5 DEF NumberNext

LEMMA ExactIs == ASSUME Is(number, exact) PROVE NumbersAreExact
<1> DEFINE s == StringOf(number)
           t == DigitsIn(exact, Base)
<1>0. number \in DigitSeq(Radix) /\ exact \in Nat /\ Proper(number, Radix)
  BY BigIs DEF Is
<1>1. Value(number) = exact
  BY DEF Is
<1>2. Trim(number) = number
  BY <1>0, RadixIs, ProperTrim
<1>3. \A n \in 0 .. Width - 1 : EqualsInt(number, n) <=> n = exact
  <2>1. ASSUME NEW n \in 0..(Width - 1)
        PROVE  EqualsInt(number, n) <=> n = exact
    BY EqualsIntIs
  <2> QED BY <2>1
<1>4. /\ s = IF exact = 0 THEN <<0>> ELSE DigitsIn(exact, Ten)
      /\ s \in DigitSeq(Ten) /\ FromChars(s, Ten) = exact
  BY StringOfIs
<1>5. Parse(s) = number
  <2>1. Is(ReadChunks(s, Ten, Chunk), FromChars(s, Ten))
    BY <1>4, TenIs, ReadIs
  <2> QED BY <1>4, <2>1, IsUnique DEF Parse
<1>6. Parse(<<0>> \o s) = number
  <2>1. <<0>> \o s \in DigitSeq(Ten) /\ FromChars(<<0>> \o s, Ten) = exact
    BY <1>4, TenIs, LeadingZero
  <2>2. Is(ReadChunks(<<0>> \o s, Ten, Chunk), FromChars(<<0>> \o s, Ten))
    BY <2>1, TenIs, ReadIs
  <2> QED BY <2>1, <2>2, IsUnique DEF Parse
<1>7. ParseBase(t) = number
  <2>1. t \in DigitSeq(Base) /\ FromChars(t, Base) = exact
    BY <1>0, TenIs, DigitsInIs DEF Writes
  <2>2. Is(ReadChunks(t, Base, BaseChunk), FromChars(t, Base))
    BY <2>1, TenIs, ReadIs
  <2> QED BY <2>1, <2>2, IsUnique DEF ParseBase
<1> QED BY <1>1, <1>2, <1>3, <1>4, <1>5, <1>6, <1>7 DEF NumbersAreExact

(* For words of any size, and any bases and chunks of digits that fit in one,*)
(* whatever numbers are added, multiplied and subtracted: a big_uint        *)
(* (common/big_uint.h) stands for the exact number in as few words as it needs,*)
(* equals that built-in number and no other, is written as the digits of that*)
(* number, and is read back from them.                                      *)
THEOREM NumbersAlwaysExact == NumberInit /\ [][NumberNext]_numberVars => []NumbersAreExact
<1>1. NumberInit => Is(number, exact)
  BY NumberStarts
<1>2. Is(number, exact) /\ [NumberNext]_numberVars => Is(number, exact)'
  <2> SUFFICES ASSUME Is(number, exact), [NumberNext]_numberVars
               PROVE  Is(number, exact)'
    OBVIOUS
  <2>1. Is(number', exact')
    BY NumberSteps
  <2> QED BY <2>1 DEF Is, Value
<1>3. Is(number, exact) => NumbersAreExact
  BY ExactIs
<1> QED BY <1>1, <1>2, <1>3, PTL

(* So it is on the way of a request, for whatever else happens there.        *)
THEOREM NumbersStayExact == PathSpec => []NumberIsExact
<1>1. PathInit => NumberInit
  BY DEF PathInit
<1>2. [PathNext]_pathVars => [NumberNext]_numberVars
  BY DEF PathNext, HttpStep, QueueStep, CallStep, MentionStep, SettingStep, PermissionStep,
         NumberStep, pathVars, valueVars
<1>3. NumbersAreExact => NumberIsExact
  BY DEF NumberIsExact
<1> QED
  BY <1>1, <1>2, <1>3, NumbersAlwaysExact, PTL DEF PathSpec

-----------------------------------------------------------------------------
(* Bits.                                                                   *)

LEMMA HalvesAgain ==
    ASSUME NEW n \in Nat, NEW p \in Nat \ {0}
    PROVE  (n \div p) \div 2 = n \div (2 * p)
<1> DEFINE q == n \div p
           r == n % p
           t == q \div 2
           s == q % 2
           u == n \div (2 * p)
           v == n % (2 * p)
<1>1. q \in Nat /\ r \in Nat /\ r < p /\ n = q * p + r
  OBVIOUS
<1>2. t \in Nat /\ s \in Nat /\ s < 2 /\ q = t * 2 + s
  BY <1>1
<1>3. 2 * p \in Nat \ {0}
  OBVIOUS
<1>4. u \in Nat /\ v \in Nat /\ v < 2 * p /\ n = u * (2 * p) + v
  <2> DEFINE pp == 2 * p
  <2>1. pp \in Nat \ {0}
    OBVIOUS
  <2> HIDE DEF pp
  <2>2. n \div pp \in Nat /\ n % pp \in Nat /\ n % pp < pp /\ n = (n \div pp) * pp + (n % pp)
    BY <2>1
  <2> QED BY <2>2 DEF pp
<1> HIDE DEF q, r, t, s, u, v
<1>5. s = 0 \/ s = 1
  BY <1>2
<1>6. s * p + r \in Nat /\ s * p + r < 2 * p
  BY <1>1, <1>5
<1>7. (s * p + r) + t * (2 * p) = v + u * (2 * p)
  <2>1. q * p = t * (2 * p) + s * p
    BY <1>1, <1>2
  <2> DEFINE a == t * (2 * p)
             b == s * p
             c == u * (2 * p)
             d == q * p
  <2>2. a \in Int /\ b \in Int /\ c \in Int /\ d \in Int
    BY <1>1, <1>2, <1>4
  <2>3. n = d + r /\ n = c + v /\ d = a + b
    BY <1>1, <1>4, <2>1
  <2> HIDE DEF a, b, c, d
  <2>4. (b + r) + a = v + c
    BY <1>1, <1>4, <2>2, <2>3
  <2> QED BY <2>4 DEF a, b, c
<1>8. t = u
  <2> DEFINE m == 2 * p
             x == s * p + r
  <2>1. m \in Nat /\ x \in Int /\ 0 <= x /\ x < m /\ x + t * m = v + u * m
    BY <1>3, <1>6, <1>7
  <2>2. 0 <= v /\ v < m /\ v \in Int /\ u \in Int /\ t \in Int
    BY <1>2, <1>4
  <2> HIDE DEF m, x
  <2> QED BY <2>1, <2>2, OneQuotient
<1> QED BY <1>8 DEF t, u, q

LEMMA BitsAre ==
    ASSUME NEW n \in Nat, NEW size \in Nat
    PROVE  /\ Bits(n, size) \in [1..size -> 0..1]
           /\ DigitsOf(Bits(n, size), 2, size) /\ Ints(Bits(n, size), size)
           /\ \A i \in 1..size : Bits(n, size)[i] = (n \div Power(2, i - 1)) % 2
<1>1. \A i \in 1..size : (n \div Power(2, i - 1)) % 2 \in 0..1
  <2> SUFFICES ASSUME NEW i \in 1..size PROVE (n \div Power(2, i - 1)) % 2 \in 0..1
    OBVIOUS
  <2>1. i - 1 \in Nat
    OBVIOUS
  <2>2. 0 < Power(2, i - 1) /\ Power(2, i - 1) \in Nat
    BY <2>1, PowerGrows, PowerIsNat
  <2> DEFINE p == Power(2, i - 1)
  <2>3. p \in Nat \ {0}
    BY <2>2
  <2> HIDE DEF p
  <2>4. n \div p \in Nat
    BY <2>3
  <2>5. (n \div p) % 2 \in 0..1
    BY <2>4
  <2> QED BY <2>5 DEF p
<1>2. Bits(n, size) = [i \in 1..size |-> (n \div Power(2, i - 1)) % 2]
  BY DEF Bits
<1> DEFINE B == Bits(n, size)
<1>3. B \in [1..size -> 0..1]
  BY <1>1, <1>2
<1>4. \A i \in 1..size : B[i] = (n \div Power(2, i - 1)) % 2
  BY <1>2
<1> HIDE DEF B
<1>5. DigitsOf(B, 2, size) /\ Ints(B, size)
  <2>1. \A i \in 1..size : B[i] \in 0..1
    BY <1>3
  <2> QED BY <2>1 DEF DigitsOf, Ints
<1> QED BY <1>3, <1>4, <1>5 DEF B

LEMMA BitsPart ==
    ASSUME NEW n \in Nat, NEW size \in Nat
    PROVE  Part(Bits(n, size), 2, size) + (n \div Power(2, size)) * Power(2, size) = n
<1> DEFINE B == Bits(n, size)
           S == {i \in Nat : Part(B, 2, i) + (n \div Power(2, i)) * Power(2, i) = n}
<1>1. Ints(B, size) /\ \A i \in 1..size : B[i] = (n \div Power(2, i - 1)) % 2
  BY BitsAre
<1>2. 0 \in S
  <2>1. Part(B, 2, 0) = 0
    BY PartNone
  <2>2. Power(2, 0) = 1
    BY PowerOne
  <2>3. Part(B, 2, 0) + (n \div Power(2, 0)) * Power(2, 0) = n
    BY <2>1, <2>2
  <2> QED BY <2>3
<1>3. ASSUME NEW i \in 0..(size - 1), i \in S
      PROVE  i + 1 \in S
  <2> DEFINE p == Power(2, i)
             q == n \div p
             a == Part(B, 2, i)
  <2>1. i \in Nat /\ i + 1 \in 1..size /\ (i + 1) - 1 = i
    OBVIOUS
  <2>2. p \in Nat \ {0}
    BY <2>1, PowerGrows, PowerIsNat
  <2>3. Power(2, i + 1) = 2 * p
    BY <2>1, PowerSteps
  <2>4. q \in Nat
    BY <2>2
  <2>5. B[i + 1] = q % 2
    BY <1>1, <2>1
  <2>6. a \in Int /\ Part(B, 2, i + 1) = a + B[i + 1] * p
    BY <1>1, <2>1, PartStep
  <2>7. a + q * p = n
    BY <1>3
  <2>8. n \div (2 * p) = q \div 2
    BY <2>2, HalvesAgain
  <2>9. q % 2 \in Nat /\ q \div 2 \in Nat /\ q = (q \div 2) * 2 + (q % 2)
    BY <2>4
  <2> HIDE DEF p, q, a, B
  <2> DEFINE r == q % 2
             t == q \div 2
  <2>10. r \in Nat /\ t \in Nat /\ q = t * 2 + r
    BY <2>9
  <2>11. Part(B, 2, i + 1) = a + r * p /\ n \div Power(2, i + 1) = t
    BY <2>3, <2>5, <2>6, <2>8
  <2> HIDE DEF r, t
  <2>12. (a + r * p) + t * (2 * p) = n
    <3>1. q * p = t * (2 * p) + r * p
      BY <2>2, <2>10
    <3> DEFINE x == q * p
               y == t * (2 * p)
               z == r * p
    <3>2. x \in Int /\ y \in Int /\ z \in Int
      BY <2>2, <2>4, <2>10
    <3>3. x = y + z /\ a + x = n
      BY <2>7, <3>1
    <3> HIDE DEF x, y, z
    <3>4. (a + z) + y = n
      BY <2>6, <3>2, <3>3
    <3> QED BY <3>4 DEF y, z
  <2>13. Part(B, 2, i + 1) + (n \div Power(2, i + 1)) * Power(2, i + 1) = n
    BY <2>3, <2>11, <2>12
  <2>14. i + 1 \in Nat
    BY <2>1
  <2> QED BY <2>13, <2>14
<1> HIDE DEF S
<1>4. \A i \in 0..size : i \in S
  BY <1>2, <1>3, Induction, Zenon
<1>5. size \in S
  BY <1>4
<1> QED BY <1>5 DEF S

LEMMA BitsSum ==
    ASSUME NEW n \in Nat, NEW size \in Nat, n < Power(2, size)
    PROVE  Part(Bits(n, size), 2, size) = n
<1> DEFINE p == Power(2, size)
           a == Part(Bits(n, size), 2, size)
<1>1. a + (n \div p) * p = n
  BY BitsPart
<1>2. p \in Nat \ {0} /\ n < p
  BY PowerGrows, PowerIsNat
<1>3. a \in Int
  <2>1. Ints(Bits(n, size), size) /\ size \in 0..size
    BY BitsAre
  <2> QED BY <2>1, PartIsInt
<1> HIDE DEF p, a
<1>4. n \div p = 0
  BY <1>2
<1>5. a + 0 * p = n
  BY <1>1, <1>4
<1>6. a = n
  BY <1>2, <1>3, <1>5
<1> QED BY <1>6 DEF a

-----------------------------------------------------------------------------
(* And and Or.                                                             *)

(* What they have in common: a bit that is k decides, 0 for And, 1 for Or. *)
Joint(m, n, size, k) ==
    [i \in 1..size |-> IF Bits(m, size)[i] = k THEN k ELSE Bits(n, size)[i]]
Join(m, n, size, k) == Number(Joint(m, n, size, k), 2)

Joined(m, n, size, k) ==
    /\ Joint(m, n, size, k) \in DigitSeq(2) /\ Len(Joint(m, n, size, k)) = size
    /\ Ints(Joint(m, n, size, k), size)
    /\ Join(m, n, size, k) = Part(Joint(m, n, size, k), 2, size)
    /\ Join(m, n, size, k) \in Nat /\ Join(m, n, size, k) < Power(2, size)

LEMMA JointIs ==
    ASSUME NEW m \in Nat, NEW n \in Nat, NEW size \in Nat, NEW k \in 0..1
    PROVE  Joined(m, n, size, k)
<1> DEFINE z == Joint(m, n, size, k)
<1>1. Bits(m, size) \in [1..size -> 0..1] /\ Bits(n, size) \in [1..size -> 0..1]
  BY BitsAre
<1>2. z \in [1..size -> 0..1]
  BY <1>1 DEF Joint
<1>3. Join(m, n, size, k) = Number(z, 2)
  BY DEF Join
<1> HIDE DEF z
<1>4. Ints(z, size)
  <2>1. \A i \in 1..size : z[i] \in 0..1
    BY <1>2
  <2> QED BY <2>1 DEF Ints
<1>5. z \in DigitSeq(2) /\ Len(z) = size
  <2> DEFINE V == 0..1
  <2> HIDE DEF V
  <2>1. z \in [1..size -> V]
    BY <1>2 DEF V
  <2>2. z \in Seq(V) /\ Len(z) = size
    BY <2>1, SeqOfFunction
  <2>3. V = 0..(2 - 1)
    BY DEF V
  <2> QED BY <2>2, <2>3 DEF DigitSeq
<1>6. Number(z, 2) = Part(z, 2, size)
  BY <1>5, NumberIsPart
<1>7. Number(z, 2) \in Nat /\ Number(z, 2) < Power(2, size)
  <2>1. 2 \in Nat \ {0}
    OBVIOUS
  <2> QED BY <1>5, <2>1, NumberBound
<1> QED BY <1>3, <1>4, <1>5, <1>6, <1>7 DEF z, Joined

LEMMA AndOrAre ==
    ASSUME NEW m \in Nat, NEW n \in Nat, NEW size \in Nat
    PROVE  And(m, n, size) = Join(m, n, size, 0) /\ Or(m, n, size) = Join(m, n, size, 1)
<1>1. \A i \in 1..size : Bits(m, size)[i] \in 0..1
  BY BitsAre
<1> DEFINE B == Bits(m, size)
           C == Bits(n, size)
<1>2. [i \in 1..size |-> IF B[i] = 1 THEN C[i] ELSE 0]
      = [i \in 1..size |-> IF B[i] = 0 THEN 0 ELSE C[i]]
  <2> HIDE DEF B, C
  <2>1. \A i \in 1..size : B[i] \in 0..1
    BY <1>1 DEF B
  <2>2. \A i \in 1..size : (IF B[i] = 1 THEN C[i] ELSE 0) = (IF B[i] = 0 THEN 0 ELSE C[i])
    BY <2>1
  <2> QED BY <2>2
<1>3. And(m, n, size) = Join(m, n, size, 0)
  BY <1>2 DEF And, Join, Joint
<1>4. Or(m, n, size) = Join(m, n, size, 1)
  BY DEF Or, Join, Joint
<1> QED BY <1>3, <1>4

LEMMA RadixPower ==
    /\ WordBits \in Nat /\ 2 * WordBits \in Nat /\ 2 * WordBits = WordBits + WordBits
    /\ Power(2, WordBits) = Radix /\ Power(2, 2 * WordBits) = Radix * Radix
<1>1. WordBits \in Nat /\ 2 * WordBits = WordBits + WordBits
  BY BigUintAssumption
<1>2. Power(2, WordBits + WordBits) = Power(2, WordBits) * Power(2, WordBits)
  <2>1. 2 \in Nat
    OBVIOUS
  <2> QED BY <1>1, <2>1, PowerAdds
<1> QED BY <1>1, <1>2 DEF Radix

(* The bits of two words: those of the first, then those of the second. *)
LEMMA BitsSplit ==
    ASSUME NEW r \in 0..Ones, NEW q \in 0..Ones
    PROVE  /\ r + q * Radix \in Nat /\ r + q * Radix < Radix * Radix
           /\ Agree(Bits(r + q * Radix, 2 * WordBits), Bits(r, WordBits), WordBits)
           /\ Follows(Bits(q, WordBits), Bits(r + q * Radix, 2 * WordBits), WordBits, WordBits)
<1> DEFINE n == r + q * Radix
           W == WordBits
           R == Radix
<1>1. W \in Nat /\ 2 * W \in Nat /\ 2 * W = W + W /\ Power(2, W) = R /\ Power(2, 2 * W) = R * R
  BY RadixPower
<1>2. R \in Nat /\ R > 1 /\ r \in Nat /\ r < R /\ q \in Nat /\ q <= R - 1
  BY RadixIs
<1>3. n \in Nat /\ n < R * R
  <2> HIDE DEF R
  <2>1. r + q * R \in Nat
    BY <1>2
  <2>2. q * R <= (R - 1) * R
    BY <1>2
  <2>3. (R - 1) * R = R * R - R
    BY <1>2
  <2> DEFINE a == q * R
             b == R * R
  <2>4. a \in Nat /\ b \in Nat
    BY <1>2
  <2>5. a <= b - R
    BY <2>2, <2>3
  <2> HIDE DEF a, b
  <2>6. r + a < b
    BY <1>2, <2>4, <2>5
  <2>7. r + q * R < R * R
    BY <2>6 DEF a, b
  <2> QED BY <2>1, <2>7 DEF R
<1> DEFINE x == Bits(n, 2 * W)
           y == [i \in 1..W |-> x[W + i]]
<1> HIDE DEF n
<1>4. x \in [1..(2 * W) -> 0..1] /\ Ints(x, 2 * W) /\ DigitsOf(x, 2, 2 * W)
  BY <1>1, <1>3, BitsAre
<1>5. Part(x, 2, 2 * W) = n
  BY <1>1, <1>3, BitsSum
<1>6. /\ Ints(x, W) /\ DigitsOf(x, 2, W) /\ DigitsOf(y, 2, W) /\ Ints(y, W)
      /\ Follows(y, x, W, W)
  <2> HIDE DEF x
  <2>1. \A i \in 1..W : x[i] \in 0..1 /\ x[W + i] \in 0..1
    <3>1. \A i \in 1..W : i \in 1..(2 * W) /\ W + i \in 1..(2 * W)
      BY <1>1
    <3> QED BY <1>4, <3>1
  <2> QED BY <2>1 DEF Ints, DigitsOf, Follows
<1>7. Part(x, 2, 2 * W) = Part(x, 2, W) + R * Part(y, 2, W)
  <2>1. Ints(x, W + W) /\ 2 \in Nat
    BY <1>1, <1>4
  <2> HIDE DEF x, y
  <2>2. Part(x, 2, W + W) = Part(x, 2, W) + Power(2, W) * Part(y, 2, W)
    BY <1>1, <1>6, <2>1, PartShifts
  <2> QED BY <1>1, <2>2
<1> HIDE DEF x, y
<1>8. /\ 0 <= Part(x, 2, W) /\ Part(x, 2, W) < R
      /\ Part(x, 2, W) \in Int /\ Part(y, 2, W) \in Int
  <2>1. 2 \in Nat \ {0} /\ W \in 0..W
    BY <1>1
  <2>2. 0 <= Part(x, 2, W) /\ Part(x, 2, W) < Power(2, W)
    BY <1>1, <1>6, <2>1, PartBound
  <2>3. Part(x, 2, W) \in Int /\ Part(y, 2, W) \in Int
    BY <1>1, <1>6, <2>1, PartIsInt
  <2> QED BY <1>1, <2>2, <2>3
<1>9. Part(x, 2, W) = r /\ Part(y, 2, W) = q
  <2> DEFINE u == Part(x, 2, W)
             v == Part(y, 2, W)
  <2>1. u + v * R = r + q * R
    <3>1. u + R * v = n
      BY <1>5, <1>7
    <3> HIDE DEF u, v, R
    <3>2. R * v = v * R
      BY <1>2, <1>8 DEF v
    <3> QED BY <3>1, <3>2 DEF n, R
  <2>2. 0 <= u /\ u < R /\ u \in Int /\ v \in Int /\ 0 <= r /\ r < R /\ r \in Int /\ q \in Int
    BY <1>2, <1>8
  <2> HIDE DEF u, v, R
  <2>3. u = r /\ v = q
    BY <1>2, <2>1, <2>2, OneQuotient
  <2> QED BY <2>3 DEF u, v
<1>10. r < Power(2, W) /\ q < Power(2, W) /\ r \in Nat /\ q \in Nat
  BY <1>1, <1>2
<1>11. Part(Bits(r, W), 2, W) = r /\ Part(Bits(q, W), 2, W) = q
  BY <1>1, <1>10, BitsSum
<1>12. DigitsOf(Bits(r, W), 2, W) /\ DigitsOf(Bits(q, W), 2, W)
  BY <1>1, <1>10, BitsAre
<1>13. 2 \in Nat \ {0}
  OBVIOUS
<1>14. Agree(x, Bits(r, W), W)
  BY <1>1, <1>6, <1>9, <1>11, <1>12, <1>13, PartUnique
<1>15. Agree(y, Bits(q, W), W)
  BY <1>1, <1>6, <1>9, <1>11, <1>12, <1>13, PartUnique
<1>16. Follows(Bits(q, W), x, W, W)
  BY <1>6, <1>15 DEF Follows, Agree
<1> QED BY <1>3, <1>14, <1>16 DEF x, n

Splits(r, q, s, t, k) ==
    /\ Join(r, s, WordBits, k) \in 0..Ones /\ Join(q, t, WordBits, k) \in 0..Ones
    /\ Join(r + q * Radix, s + t * Radix, 2 * WordBits, k)
       = Join(r, s, WordBits, k) + Join(q, t, WordBits, k) * Radix

LEMMA JoinSplit ==
    ASSUME NEW r \in 0..Ones, NEW q \in 0..Ones, NEW s \in 0..Ones, NEW t \in 0..Ones,
           NEW k \in 0..1
    PROVE  Splits(r, q, s, t, k)
<1> DEFINE m == r + q * Radix
           n == s + t * Radix
           W == WordBits
           x == Joint(m, n, 2 * W, k)
           y == Joint(r, s, W, k)
           z == Joint(q, t, W, k)
<1>1. W \in Nat /\ 2 * W \in Nat /\ 2 * W = W + W /\ Power(2, W) = Radix
  BY RadixPower
<1>2. /\ m \in Nat /\ n \in Nat
      /\ Agree(Bits(m, 2 * W), Bits(r, W), W) /\ Follows(Bits(q, W), Bits(m, 2 * W), W, W)
      /\ Agree(Bits(n, 2 * W), Bits(s, W), W) /\ Follows(Bits(t, W), Bits(n, 2 * W), W, W)
  BY BitsSplit
<1>3. r \in Nat /\ q \in Nat /\ s \in Nat /\ t \in Nat
  BY RadixIs
<1> HIDE DEF m, n
<1>4. Ints(x, 2 * W) /\ Join(m, n, 2 * W, k) = Part(x, 2, 2 * W)
  <2>1. Joined(m, n, 2 * W, k)
    BY <1>1, <1>2, JointIs
  <2> QED BY <2>1 DEF Joined
<1>5. /\ Ints(y, W) /\ Join(r, s, W, k) = Part(y, 2, W)
      /\ Join(r, s, W, k) \in Nat /\ Join(r, s, W, k) < Radix
  <2>1. W \in Nat
    BY <1>1
  <2> HIDE DEF W
  <2>2. Joined(r, s, W, k)
    BY <1>3, <2>1, JointIs
  <2> QED BY <1>1, <2>2 DEF Joined
<1>6. /\ Ints(z, W) /\ Join(q, t, W, k) = Part(z, 2, W)
      /\ Join(q, t, W, k) \in Nat /\ Join(q, t, W, k) < Radix
  <2>1. W \in Nat
    BY <1>1
  <2> HIDE DEF W
  <2>2. Joined(q, t, W, k)
    BY <1>3, <2>1, JointIs
  <2> QED BY <1>1, <2>2 DEF Joined
<1>7. Agree(y, x, W) /\ Follows(z, x, W, W)
  <2> DEFINE M == Bits(m, 2 * W)
             N == Bits(n, 2 * W)
  <2>1. \A i \in 1..W : /\ i \in 1..(2 * W) /\ W + i \in 1..(2 * W)
    BY <1>1
  <2>2. \A i \in 1..W : /\ M[i] = Bits(r, W)[i] /\ N[i] = Bits(s, W)[i]
                        /\ Bits(q, W)[i] = M[W + i] /\ Bits(t, W)[i] = N[W + i]
    BY <1>2 DEF Agree, Follows
  <2>3. /\ x = [i \in 1..(2 * W) |-> IF M[i] = k THEN k ELSE N[i]]
        /\ y = [i \in 1..W |-> IF Bits(r, W)[i] = k THEN k ELSE Bits(s, W)[i]]
        /\ z = [i \in 1..W |-> IF Bits(q, W)[i] = k THEN k ELSE Bits(t, W)[i]]
    BY DEF Joint
  <2> HIDE DEF M, N, x, y, z
  <2>4. \A i \in 1..W : y[i] = x[i] /\ z[i] = x[W + i]
    BY <2>1, <2>2, <2>3
  <2> QED BY <2>4 DEF Agree, Follows
<1> HIDE DEF x, y, z
<1>8. Part(x, 2, 2 * W) = Part(x, 2, W) + Radix * Part(z, 2, W)
  <2>1. Ints(x, W + W) /\ 2 \in Nat
    BY <1>1, <1>4
  <2>2. Part(x, 2, W + W) = Part(x, 2, W) + Power(2, W) * Part(z, 2, W)
    BY <1>1, <1>7, <2>1, PartShifts
  <2> QED BY <1>1, <2>2
<1>9. Part(y, 2, W) = Part(x, 2, W)
  <2>1. 2 \in Nat
    OBVIOUS
  <2> QED BY <1>1, <1>5, <1>7, <2>1, PartSame
<1> DEFINE u == Part(y, 2, W)
           v == Part(z, 2, W)
<1>10. Join(m, n, 2 * W, k) = u + Radix * v /\ u \in Nat /\ v \in Nat /\ u < Radix /\ v < Radix
  BY <1>4, <1>5, <1>6, <1>8, <1>9
<1>11. u = Join(r, s, W, k) /\ v = Join(q, t, W, k)
  BY <1>5, <1>6
<1> HIDE DEF u, v
<1>12. Join(m, n, 2 * W, k) = u + v * Radix /\ u \in 0..Ones /\ v \in 0..Ones
  BY <1>10, RadixIs
<1> QED BY <1>11, <1>12 DEF m, n, Splits

LEMMA NoBits == \A i \in 1..WordBits : Bits(0, WordBits)[i] = 0
<1> SUFFICES ASSUME NEW i \in 1..WordBits PROVE Bits(0, WordBits)[i] = 0
  OBVIOUS
<1>1. WordBits \in Nat /\ 0 \in Nat
  BY BigUintAssumption
<1>2. Bits(0, WordBits)[i] = (0 \div Power(2, i - 1)) % 2 /\ i - 1 \in Nat
  BY <1>1, BitsAre
<1>3. Power(2, i - 1) \in Nat /\ 0 < Power(2, i - 1)
  BY <1>2, PowerGrows, PowerIsNat
<1> DEFINE p == Power(2, i - 1)
<1> HIDE DEF p
<1>4. p \in Nat \ {0}
  BY <1>3 DEF p
<1>5. 0 \div p = 0
  BY <1>4
<1>6. (0 \div p) % 2 = 0
  BY <1>5
<1> QED BY <1>2, <1>6 DEF p

(* What Join puts together is what its bits are.                           *)
LEMMA JoinBits ==
    ASSUME NEW m \in Nat, NEW n \in Nat, NEW size \in Nat, NEW k \in 0..1
    PROVE  \A i \in 1..size :
             Bits(Join(m, n, size, k), size)[i]
             = IF Bits(m, size)[i] = k THEN k ELSE Bits(n, size)[i]
<1> DEFINE j == Join(m, n, size, k)
           z == Joint(m, n, size, k)
           B == Bits(j, size)
<1>1. /\ z \in DigitSeq(2) /\ Len(z) = size
      /\ j = Part(z, 2, size) /\ j \in Nat /\ j < Power(2, size)
  <2>1. Joined(m, n, size, k)
    BY JointIs
  <2> QED BY <2>1 DEF Joined
<1>2. z = [i \in 1..size |-> IF Bits(m, size)[i] = k THEN k ELSE Bits(n, size)[i]]
  BY DEF Joint
<1> HIDE DEF j, z
<1>3. DigitsOf(B, 2, size) /\ Part(B, 2, size) = j
  BY <1>1, BitsAre, BitsSum
<1> HIDE DEF B
<1>4. DigitsOf(z, 2, size)
  <2>1. 2 \in Nat
    OBVIOUS
  <2>2. DigitsOf(z, 2, Len(z))
    BY <1>1, <2>1, DigitsOfSeq
  <2> QED BY <1>1, <2>2
<1>5. Agree(B, z, size)
  <2>1. 2 \in Nat \ {0} /\ Part(B, 2, size) = Part(z, 2, size)
    BY <1>1, <1>3
  <2> QED BY <1>3, <1>4, <2>1, PartUnique
<1>6. \A i \in 1..size : B[i] = IF Bits(m, size)[i] = k THEN k ELSE Bits(n, size)[i]
  BY <1>2, <1>5 DEF Agree
<1> QED BY <1>6 DEF B, j

(* Every bit of n is one of m's.                                           *)
BitsWithin(n, m, size) == \A i \in 1..size : Bits(n, size)[i] = 1 => Bits(m, size)[i] = 1

LEMMA WithinIs ==
    ASSUME NEW m \in Nat, NEW n \in Nat, NEW size \in Nat, n < Power(2, size)
    PROVE  And(m, n, size) = n <=> BitsWithin(n, m, size)
<1> DEFINE M == Bits(m, size)
           N == Bits(n, size)
<1>1. 0 \in 0..1 /\ And(m, n, size) = Join(m, n, size, 0)
  BY AndOrAre
<1>2. \A i \in 1..size : Bits(Join(m, n, size, 0), size)[i] = IF M[i] = 0 THEN 0 ELSE N[i]
  BY <1>1, JoinBits
<1>3. (\A i \in 1..size : M[i] \in 0..1 /\ N[i] \in 0..1) /\ Part(N, 2, size) = n
  <2>1. M \in [1..size -> 0..1] /\ N \in [1..size -> 0..1]
    BY BitsAre
  <2> QED BY <2>1, BitsSum
<1>4. BitsWithin(n, m, size) <=> \A i \in 1..size : N[i] = 1 => M[i] = 1
  BY DEF BitsWithin
<1> DEFINE z == Joint(m, n, size, 0)
<1>5. Join(m, n, size, 0) = Part(z, 2, size) /\ Ints(z, size)
  <2>1. Joined(m, n, size, 0)
    BY <1>1, JointIs
  <2> QED BY <2>1 DEF Joined
<1>8. \A i \in 1..size : z[i] = IF M[i] = 0 THEN 0 ELSE N[i]
  BY DEF Joint
<1> HIDE DEF M, z
<1>6. ASSUME And(m, n, size) = n PROVE BitsWithin(n, m, size)
  <2>1. \A i \in 1..size : N[i] = IF M[i] = 0 THEN 0 ELSE N[i]
    BY <1>1, <1>2, <1>6
  <2> HIDE DEF N
  <2>2. \A i \in 1..size : N[i] = 1 => M[i] = 1
    BY <1>3, <2>1
  <2> QED BY <1>4, <2>2
<1> HIDE DEF N
<1>7. ASSUME BitsWithin(n, m, size) PROVE And(m, n, size) = n
  <2>1. Agree(z, N, size)
    BY <1>3, <1>4, <1>7, <1>8 DEF Agree
  <2>2. Part(z, 2, size) = Part(N, 2, size)
    <3>1. 2 \in Nat
      OBVIOUS
    <3> QED BY <1>5, <2>1, <3>1, PartSame
  <2> QED BY <1>1, <1>3, <1>5, <2>2
<1> QED BY <1>6, <1>7

(* What both are joined with alike keeps one within the other.             *)
LEMMA JoinKeeps ==
    ASSUME NEW m \in Nat, NEW n \in Nat, NEW x \in Nat, NEW size \in Nat, NEW k \in 0..1,
           BitsWithin(n, m, size)
    PROVE  BitsWithin(Join(n, x, size, k), Join(m, x, size, k), size)
<1> DEFINE M == Bits(m, size)
           N == Bits(n, size)
           X == Bits(x, size)
<1>1. \A i \in 1..size :
        /\ Bits(Join(m, x, size, k), size)[i] = (IF M[i] = k THEN k ELSE X[i])
        /\ Bits(Join(n, x, size, k), size)[i] = (IF N[i] = k THEN k ELSE X[i])
  <2>1. \A i \in 1..size :
          Bits(Join(m, x, size, k), size)[i] = IF M[i] = k THEN k ELSE X[i]
    BY JoinBits
  <2>2. \A i \in 1..size :
          Bits(Join(n, x, size, k), size)[i] = IF N[i] = k THEN k ELSE X[i]
    BY JoinBits
  <2> QED BY <2>1, <2>2
<1>2. \A i \in 1..size : M[i] \in 0..1 /\ N[i] \in 0..1 /\ (N[i] = 1 => M[i] = 1)
  <2>1. M \in [1..size -> 0..1] /\ N \in [1..size -> 0..1]
    BY BitsAre
  <2> QED BY <2>1 DEF BitsWithin
<1> HIDE DEF M, N, X
<1>3. \A i \in 1..size :
        (IF N[i] = k THEN k ELSE X[i]) = 1 => (IF M[i] = k THEN k ELSE X[i]) = 1
  BY <1>2
<1> QED BY <1>1, <1>3 DEF BitsWithin

LEMMA JoinZero ==
    ASSUME NEW n \in Nat
    PROVE  /\ Join(0, n, WordBits, 0) = 0
           /\ Join(0, 0, WordBits, 1) = 0
<1>1. WordBits \in Nat /\ 0 \in Nat /\ 0 \in 0..1 /\ 1 \in 0..1 /\ 2 \in Nat
  BY BigUintAssumption
<1>2. Power(2, WordBits) \in Nat /\ 0 < Power(2, WordBits)
  BY <1>1, PowerGrows, PowerIsNat
<1>3. \A i \in 1..WordBits : Bits(0, WordBits)[i] = 0
  BY NoBits
<1>4. ASSUME NEW z \in DigitSeq(2), Len(z) = WordBits, \A i \in 1..WordBits : z[i] = 0
      PROVE  Number(z, 2) = 0
  <2>1. z \in Seq(Int)
    BY <1>1, DigitsInInt
  <2> QED BY <1>1, <1>4, <2>1, NumberZeros
<1>5. Join(0, n, WordBits, 0) = 0
  <2> DEFINE z == Joint(0, n, WordBits, 0)
  <2>1. \A i \in 1..WordBits : z[i] = 0
    BY <1>3 DEF Joint
  <2>2. z \in DigitSeq(2) /\ Len(z) = WordBits
    <3>1. Joined(0, n, WordBits, 0)
      BY <1>1, JointIs
    <3> QED BY <3>1 DEF Joined
  <2> HIDE DEF z
  <2>3. Number(z, 2) = 0
    BY <1>4, <2>1, <2>2
  <2> QED BY <2>3 DEF Join, z
<1>6. Join(0, 0, WordBits, 1) = 0
  <2> DEFINE z == Joint(0, 0, WordBits, 1)
  <2>1. \A i \in 1..WordBits : z[i] = 0
    BY <1>3 DEF Joint
  <2>2. z \in DigitSeq(2) /\ Len(z) = WordBits
    <3>1. Joined(0, 0, WordBits, 1)
      BY <1>1, JointIs
    <3> QED BY <3>1 DEF Joined
  <2> HIDE DEF z
  <2>3. Number(z, 2) = 0
    BY <1>4, <2>1, <2>2
  <2> QED BY <2>3 DEF Join, z
<1> QED BY <1>5, <1>6

-----------------------------------------------------------------------------
(* Permissions: the words of a big_uint beside the bits of an integer.     *)

(* The two words that a number below Width has. *)
Pair(a, n) ==
    /\ Len(a) <= 2 /\ At(a, 1, 0) \in 0..Ones /\ At(a, 2, 0) \in 0..Ones
    /\ n = At(a, 1, 0) + At(a, 2, 0) * Radix

LEMMA PairIs ==
    ASSUME NEW a \in DigitSeq(Radix), Len(a) <= 2
    PROVE  Pair(a, Number(a, Radix))
<1> DEFINE R == Radix
           z == Padded(a, 2)
<1>1. R \in Nat /\ R > 1 /\ Ones = R - 1
  BY RadixIs
<1>2. a \in Seq(Int) /\ 2 \in Nat
  BY <1>1, DigitsInInt
<1>3. z \in [1..2 -> Int] /\ Part(z, R, 2) = Number(a, R)
  BY <1>1, <1>2, PaddedIs
<1>4. z[1] = At(a, 1, 0) /\ z[2] = At(a, 2, 0)
  BY DEF Padded
<1>5. At(a, 1, 0) \in 0..Ones /\ At(a, 2, 0) \in 0..Ones
  <2> DEFINE V == 0..Ones
  <2>1. a \in Seq(V) /\ 0 \in V
    BY <1>1 DEF DigitSeq
  <2> HIDE DEF V
  <2>2. \A i \in DOMAIN a : a[i] \in V
    BY <2>1
  <2>3. At(a, 1, 0) \in V /\ At(a, 2, 0) \in V
    BY <2>1, <2>2 DEF At
  <2> QED BY <2>3 DEF V
<1> HIDE DEF z, R
<1>6. Part(z, R, 2) = z[1] + z[2] * R
  <2>0. z[1] \in Int /\ z[2] \in Int
    BY <1>3
  <2>1. \A i \in 1..2 : z[i] \in Int
    BY <1>3
  <2>2. \A i \in 1..1 : z[i] \in Int
    BY <1>3
  <2>3. Part(z, R, 0) = 0 /\ Part(z, R, 0 + 1) = Part(z, R, 0) + z[0 + 1] * Power(R, 0)
    <3>1. 0 \in Nat /\ \A i \in 1..(0 + 1) : z[i] \in Int
      BY <2>2
    <3> QED BY <1>1, <3>1, PartSteps
  <2>4. Part(z, R, 1 + 1) = Part(z, R, 1) + z[1 + 1] * Power(R, 1)
    <3>1. 1 \in Nat /\ \A i \in 1..(1 + 1) : z[i] \in Int
      BY <2>1
    <3> QED BY <1>1, <3>1, PartSteps
  <2>5. Power(R, 0) = 1 /\ Power(R, 1) = R
    BY <1>1, PowerOne
  <2>6. Part(z, R, 1) = z[1]
    BY <2>0, <2>3, <2>5
  <2> QED BY <2>4, <2>5, <2>6
<1> QED BY <1>3, <1>4, <1>5, <1>6 DEF Pair, R

LEMMA PairOf ==
    ASSUME NEW a, NEW n, Is(a, n), n < Width
    PROVE  Pair(a, n)
<1>1. a \in DigitSeq(Radix) /\ n = Number(a, Radix) /\ Len(a) \in Nat
  BY BigIs
<1>2. Radix \in Nat /\ Radix > 1 /\ Radix \in Nat \ {0}
  BY RadixIs
<1>3. Len(a) <= 2
  <2> SUFFICES ASSUME Len(a) > 2 PROVE FALSE
    BY <1>1
  <2> DEFINE l == Len(a)
  <2>1. Proper(a, Radix) /\ l # 0 /\ l - 1 \in Nat /\ 2 <= l - 1
    BY <1>1 DEF Is
  <2>2. n >= Power(Radix, l - 1)
    BY <1>1, <1>2, <2>1, NumberLeast
  <2>3. Power(Radix, 2) = Radix * Radix
    <3>1. Power(Radix, 1 + 1) = Radix * Power(Radix, 1)
      BY <1>2, PowerSteps
    <3>2. Power(Radix, 1) = Radix
      BY <1>2, PowerOne
    <3> QED BY <3>1, <3>2
  <2> HIDE DEF l
  <2> DEFINE k == l - 1
  <2>4. k \in Nat /\ 2 <= k /\ 2 \in Nat /\ n >= Power(Radix, k)
    BY <2>1, <2>2
  <2> HIDE DEF k
  <2>5. Power(Radix, 2) <= Power(Radix, k)
    BY <1>2, <2>4, PowerGrows
  <2>6. Power(Radix, k) \in Nat
    BY <1>2, <2>4, PowerIsNat
  <2> DEFINE w == Radix * Radix
  <2>7. w \in Nat /\ n < w /\ n \in Nat /\ w <= Power(Radix, k)
    BY <1>2, <2>3, <2>5, BigIs DEF Width
  <2> HIDE DEF w
  <2> QED BY <2>4, <2>6, <2>7
<1> QED BY <1>1, <1>3, PairIs

(* What two words make. *)
LEMMA WordsMake ==
    ASSUME NEW z \in DigitSeq(Radix), Len(z) <= 2, NEW u, NEW v,
           u = At(z, 1, 0), v = At(z, 2, 0)
    PROVE  Is(Trim(z), u + v * Radix) /\ u + v * Radix < Width
<1>1. Pair(z, Number(z, Radix))
  BY PairIs
<1>2. Number(z, Radix) = u + v * Radix /\ u \in 0..Ones /\ v \in 0..Ones
  BY <1>1 DEF Pair
<1>3. Is(Trim(z), u + v * Radix)
  BY <1>2, TrimIsBig
<1>4. u + v * Radix < Radix * Radix
  BY <1>2, BitsSplit
<1> QED BY <1>3, <1>4 DEF Width

(* Word by word joined. *)
Columnwise(z, a, b, k) ==
    /\ z \in DigitSeq(Radix) /\ Len(z) <= 2
    /\ At(z, 1, 0) = Join(At(a, 1, 0), At(b, 1, 0), WordBits, k)
    /\ At(z, 2, 0) = Join(At(a, 2, 0), At(b, 2, 0), WordBits, k)

LEMMA ColumnsMake ==
    ASSUME NEW a, NEW m, Pair(a, m), NEW b, NEW n, Pair(b, n), NEW k \in 0..1,
           NEW z, Columnwise(z, a, b, k)
    PROVE  /\ Is(Trim(z), Join(m, n, 2 * WordBits, k))
           /\ Join(m, n, 2 * WordBits, k) < Width
<1> DEFINE r == At(a, 1, 0)
           q == At(a, 2, 0)
           s == At(b, 1, 0)
           t == At(b, 2, 0)
           u == Join(r, s, WordBits, k)
           v == Join(q, t, WordBits, k)
<1>1. /\ r \in 0..Ones /\ q \in 0..Ones /\ s \in 0..Ones /\ t \in 0..Ones
      /\ m = r + q * Radix /\ n = s + t * Radix
  BY DEF Pair
<1>2. z \in DigitSeq(Radix) /\ Len(z) <= 2 /\ u = At(z, 1, 0) /\ v = At(z, 2, 0)
  BY DEF Columnwise
<1>3. Is(Trim(z), u + v * Radix) /\ u + v * Radix < Width
  <2> HIDE DEF u, v
  <2> QED BY <1>2, WordsMake
<1> HIDE DEF r, q, s, t
<1>4. Splits(r, q, s, t, k)
  BY <1>1, JoinSplit
<1>5. Join(r + q * Radix, s + t * Radix, 2 * WordBits, k) = u + v * Radix
  BY <1>4 DEF Splits
<1> HIDE DEF u, v
<1> QED BY <1>1, <1>3, <1>5

LEMMA ColumnsAre ==
    ASSUME NEW a \in DigitSeq(Radix), Len(a) <= 2, NEW b \in DigitSeq(Radix), Len(b) <= 2,
           NEW k \in 0..1
    PROVE  Columnwise([i \in 1..Longer(a, b) |-> Join(At(a, i, 0), At(b, i, 0), WordBits, k)],
                      a, b, k)
<1> DEFINE l == Longer(a, b)
           z == [i \in 1..l |-> Join(At(a, i, 0), At(b, i, 0), WordBits, k)]
<1>1. Len(a) \in Nat /\ Len(b) \in Nat /\ DOMAIN a = 1..Len(a) /\ DOMAIN b = 1..Len(b)
  BY DEF DigitSeq
<1>2. l \in Nat /\ Len(a) <= l /\ Len(b) <= l /\ l <= 2
  BY <1>1 DEF Longer
<1>3. Radix \in Nat /\ Radix > 1 /\ Ones = Radix - 1
  BY RadixIs
<1>4. \A i \in Nat : At(a, i, 0) \in 0..Ones /\ At(b, i, 0) \in 0..Ones
  <2> DEFINE V == 0..Ones
  <2>1. a \in Seq(V) /\ b \in Seq(V) /\ 0 \in V
    BY <1>3 DEF DigitSeq
  <2> HIDE DEF V
  <2>2. (\A i \in DOMAIN a : a[i] \in V) /\ (\A i \in DOMAIN b : b[i] \in V)
    BY <2>1
  <2>3. \A i \in Nat : At(a, i, 0) \in V /\ At(b, i, 0) \in V
    BY <2>1, <2>2 DEF At
  <2> QED BY <2>3 DEF V
<1> HIDE DEF l
<1>5. \A i \in Nat : Join(At(a, i, 0), At(b, i, 0), WordBits, k) \in 0..Ones
  <2> SUFFICES ASSUME NEW i \in Nat
               PROVE  Join(At(a, i, 0), At(b, i, 0), WordBits, k) \in 0..Ones
    OBVIOUS
  <2> DEFINE r == At(a, i, 0)
             s == At(b, i, 0)
  <2>1. r \in 0..Ones /\ s \in 0..Ones
    BY <1>4
  <2> HIDE DEF r, s
  <2>2. Splits(r, r, s, s, k)
    BY <2>1, JoinSplit
  <2> QED BY <2>2 DEF Splits, r, s
<1>6. z \in DigitSeq(Radix) /\ Len(z) = l /\ DOMAIN z = 1..l
  <2> DEFINE V == 0..Ones
  <2>0. \A i \in 1..l : Join(At(a, i, 0), At(b, i, 0), WordBits, k) \in V
    <3>1. \A i \in 1..l : i \in Nat
      OBVIOUS
    <3>2. \A i \in Nat : Join(At(a, i, 0), At(b, i, 0), WordBits, k) \in V
      BY <1>5
    <3> HIDE DEF V
    <3> QED BY <3>1, <3>2, Zenon
  <2> HIDE DEF V
  <2>1. z \in [1..l -> V]
    BY <2>0
  <2> HIDE DEF z
  <2>2. z \in Seq(V) /\ Len(z) = l
    BY <1>2, <2>1, SeqOfFunction
  <2>3. DOMAIN z = 1..l
    BY <2>1
  <2>4. V = 0..(Radix - 1)
    BY <1>3 DEF V
  <2> QED BY <2>2, <2>3, <2>4 DEF DigitSeq
<1>7. \A i \in 1..2 : At(z, i, 0) = Join(At(a, i, 0), At(b, i, 0), WordBits, k)
  <2> SUFFICES ASSUME NEW i \in 1..2
               PROVE  At(z, i, 0) = Join(At(a, i, 0), At(b, i, 0), WordBits, k)
    OBVIOUS
  <2>1. CASE i \in 1..l
    BY <1>6, <2>1 DEF At
  <2>2. CASE i \notin 1..l
    <3>1. i \notin DOMAIN a /\ i \notin DOMAIN b
      BY <1>1, <1>2, <2>2
    <3>2. At(a, i, 0) = 0 /\ At(b, i, 0) = 0
      BY <3>1 DEF At
    <3>3. Join(0, 0, WordBits, k) = 0
      <4>1. k = 0 \/ k = 1
        OBVIOUS
      <4> QED BY <4>1, JoinZero
    <3>4. At(z, i, 0) = 0
      BY <1>6, <2>2 DEF At
    <3> QED BY <3>2, <3>3, <3>4
  <2> QED BY <2>1, <2>2
<1>8. 1 \in 1..2 /\ 2 \in 1..2
  OBVIOUS
<1> HIDE DEF z
<1>9. Columnwise(z, a, b, k)
  BY <1>2, <1>6, <1>7, <1>8 DEF Columnwise
<1> QED BY <1>9 DEF z, l

LEMMA WordAt ==
    ASSUME NEW a \in DigitSeq(Radix), NEW i \in Nat
    PROVE  At(a, i, 0) \in 0..Ones /\ At(a, i, 0) \in Nat
<1> DEFINE V == 0..Ones
<1>1. a \in Seq(V) /\ 0 \in V
  BY RadixIs DEF DigitSeq
<1> HIDE DEF V
<1>2. \A j \in DOMAIN a : a[j] \in V
  BY <1>1
<1>3. At(a, i, 0) \in V
  BY <1>1, <1>2 DEF At
<1> QED BY <1>3, RadixIs DEF V

LEMMA BitOperationsAre ==
    ASSUME NEW a, NEW b, NEW m, NEW n, Is(a, m), Is(b, n), m < Width, n < Width
    PROVE  /\ Is(BitAnd(a, b), And(m, n, 2 * WordBits)) /\ And(m, n, 2 * WordBits) < Width
           /\ Is(BitOr(a, b), Or(m, n, 2 * WordBits)) /\ Or(m, n, 2 * WordBits) < Width
<1> DEFINE l == Longer(a, b)
           x == [i \in 1..l |-> And(At(a, i, 0), At(b, i, 0), WordBits)]
           y == [i \in 1..l |-> Or(At(a, i, 0), At(b, i, 0), WordBits)]
           u == [i \in 1..l |-> Join(At(a, i, 0), At(b, i, 0), WordBits, 0)]
           v == [i \in 1..l |-> Join(At(a, i, 0), At(b, i, 0), WordBits, 1)]
<1>1. /\ a \in DigitSeq(Radix) /\ b \in DigitSeq(Radix) /\ m \in Nat /\ n \in Nat
      /\ Pair(a, m) /\ Pair(b, n)
  BY BigIs, PairOf
<1>2. Len(a) <= 2 /\ Len(b) <= 2
  BY <1>1 DEF Pair
<1>3. WordBits \in Nat /\ 2 * WordBits \in Nat /\ 0 \in 0..1 /\ 1 \in 0..1
  BY RadixPower
<1>4. Columnwise(u, a, b, 0) /\ Columnwise(v, a, b, 1)
  BY <1>1, <1>2, <1>3, ColumnsAre
<1>5. x = u /\ y = v
  <2>1. ASSUME NEW i \in 1..l
        PROVE  /\ And(At(a, i, 0), At(b, i, 0), WordBits)
                  = Join(At(a, i, 0), At(b, i, 0), WordBits, 0)
               /\ Or(At(a, i, 0), At(b, i, 0), WordBits)
                  = Join(At(a, i, 0), At(b, i, 0), WordBits, 1)
    <3> DEFINE s == At(a, i, 0)
               t == At(b, i, 0)
    <3>0. i \in Nat
      BY <2>1
    <3>1. s \in Nat /\ t \in Nat
      BY <1>1, <3>0, WordAt
    <3> HIDE DEF s, t
    <3>2. And(s, t, WordBits) = Join(s, t, WordBits, 0)
          /\ Or(s, t, WordBits) = Join(s, t, WordBits, 1)
      BY <1>3, <3>1, AndOrAre
    <3> QED BY <3>2 DEF s, t
  <2> HIDE DEF l
  <2> QED BY <2>1, Zenon
<1>6. And(m, n, 2 * WordBits) = Join(m, n, 2 * WordBits, 0)
      /\ Or(m, n, 2 * WordBits) = Join(m, n, 2 * WordBits, 1)
  BY <1>1, <1>3, AndOrAre
<1>7. BitAnd(a, b) = Trim(x) /\ BitOr(a, b) = Trim(y)
  BY DEF BitAnd, BitOr
<1> HIDE DEF x, y, u, v
<1>8. Is(Trim(u), Join(m, n, 2 * WordBits, 0)) /\ Join(m, n, 2 * WordBits, 0) < Width
  BY <1>1, <1>3, <1>4, ColumnsMake
<1>9. Is(Trim(v), Join(m, n, 2 * WordBits, 1)) /\ Join(m, n, 2 * WordBits, 1) < Width
  BY <1>1, <1>3, <1>4, ColumnsMake
<1> QED BY <1>5, <1>6, <1>7, <1>8, <1>9

(* What Without takes: with ones for the words that p has not.             *)
LEMMA ComplementIs ==
    ASSUME NEW p \in DigitSeq(Radix), Len(Complement(p)) = Len(p)
    PROVE  /\ DOMAIN Complement(p) = 1..Len(p)
           /\ \A i \in Nat \ {0} : At(Complement(p), i, Ones) = Ones - At(p, i, 0)
<1> DEFINE n == Len(p)
           V == 0..Ones
           d == [i \in 1..n |-> Ones - p[i]]
           c == Complement(p)
<1>1. Ones \in Nat /\ p \in Seq(V) /\ n \in Nat /\ DOMAIN p = 1..n
  BY RadixIs DEF DigitSeq
<1>2. \A i \in 1..n : p[i] \in V
  <2> HIDE DEF V
  <2> QED BY <1>1
<1>3. \A i \in 1..n : Ones - p[i] \in V
  BY <1>1, <1>2
<1>4. c = Trim(d)
  BY DEF Complement
<1>5. d \in Seq(V) /\ Len(d) = n
  <2> HIDE DEF n, V
  <2>1. d \in [1..n -> V]
    BY <1>3
  <2> HIDE DEF d
  <2> QED BY <1>1, <2>1, SeqOfFunction
<1>6. c \in Seq(V) /\ Len(c) = n
  <2> HIDE DEF V, d
  <2>1. Trim(d) \in Seq(V)
    BY <1>5, TrimIs
  <2> QED BY <1>4, <2>1
<1>7. \A i \in 1..n : c[i] = d[i]
  <2> HIDE DEF V, d
  <2>1. \A i \in 1..Len(Trim(d)) : Trim(d)[i] = d[i]
    BY <1>5, TrimIs
  <2> QED BY <1>4, <1>6, <2>1
<1>8. \A i \in 1..n : d[i] = Ones - p[i]
  OBVIOUS
<1> HIDE DEF n, V, d, c
<1>9. DOMAIN c = 1..n
  BY <1>1, <1>6
<1>10. \A i \in Nat \ {0} : At(c, i, Ones) = Ones - At(p, i, 0)
  <2> SUFFICES ASSUME NEW i \in Nat \ {0} PROVE At(c, i, Ones) = Ones - At(p, i, 0)
    OBVIOUS
  <2>1. CASE i \in 1..n
    BY <1>1, <1>7, <1>8, <1>9, <2>1 DEF At
  <2>2. CASE i \notin 1..n
    BY <1>1, <1>9, <2>2 DEF At
  <2> QED BY <2>1, <2>2
<1> QED BY <1>9, <1>10 DEF n, c

(* The words of the complement of a number of two words. *)
LEMMA ComplementPair ==
    ASSUME NEW p, NEW n \in Nat, Pair(p, n), n < Width
    PROVE  /\ Ones - At(p, 1, 0) \in 0..Ones /\ Ones - At(p, 2, 0) \in 0..Ones
           /\ Width - 1 - n = (Ones - At(p, 1, 0)) + (Ones - At(p, 2, 0)) * Radix
           /\ Width - 1 - n \in Nat
<1>0. Ones \in Nat /\ Radix = Ones + 1 /\ Radix \in Nat
  BY RadixIs
<1> DEFINE x == At(p, 1, 0)
           y == At(p, 2, 0)
<1>1. x \in 0..Ones /\ y \in 0..Ones /\ n = x + y * Radix
  BY DEF Pair
<1> HIDE DEF x, y
<1>2. Ones - x \in 0..Ones /\ Ones - y \in 0..Ones
  BY <1>0, <1>1
<1> DEFINE o == Ones
<1>3. Width = (o + 1) * (o + 1) /\ Radix = o + 1 /\ o \in Nat /\ x \in Nat /\ y \in Nat
  BY <1>0, <1>1 DEF Width
<1> HIDE DEF o
<1>4. (o + 1) * (o + 1) = o * (o + 1) + (o + 1)
  BY <1>3
<1>5. (o - y) * (o + 1) = o * (o + 1) - y * (o + 1)
  BY <1>3
<1> DEFINE e == o * (o + 1)
           f == y * (o + 1)
<1>6. e \in Int /\ f \in Int
  BY <1>3
<1>7. Width = e + (o + 1) /\ (o - y) * Radix = e - f /\ n = x + f
  BY <1>1, <1>3, <1>4, <1>5
<1> HIDE DEF e, f
<1>8. Width - 1 - n = (o - x) + (o - y) * Radix
  BY <1>3, <1>6, <1>7
<1>9. Width \in Nat /\ Width - 1 - n \in Nat
  BY <1>0 DEF Width
<1> QED BY <1>2, <1>8, <1>9 DEF x, y, o
LEMMA WithoutIs ==
    ASSUME NEW a, NEW p, NEW m, NEW n, Is(a, m), Is(p, n), m < Width, n < Width,
           Removable(a, p)
    PROVE  /\ Is(Without(a, p), And(m, Width - 1 - n, 2 * WordBits))
           /\ And(m, Width - 1 - n, 2 * WordBits) < Width
<1> DEFINE c == Complement(p)
           l == Longer(a, c)
           z == [i \in 1..l |-> And(At(a, i, Ones), At(c, i, Ones), WordBits)]
           s == Ones - At(p, 1, 0)
           t == Ones - At(p, 2, 0)
           b == <<s, t>>
           k == Width - 1 - n
<1>1. /\ a \in DigitSeq(Radix) /\ p \in DigitSeq(Radix) /\ m \in Nat /\ n \in Nat
      /\ Pair(a, m) /\ Pair(p, n) /\ Len(a) \in Nat /\ Len(p) \in Nat
  BY BigIs, PairOf
<1>2. Len(a) <= 2 /\ Len(c) = Len(p) /\ Len(p) <= Len(a)
  BY <1>1 DEF Pair, Removable
<1>3. /\ WordBits \in Nat /\ 2 * WordBits \in Nat /\ 0 \in 0..1
      /\ Ones \in Nat /\ Radix = Ones + 1 /\ Radix \in Nat
  BY RadixPower, RadixIs
<1>4. l = Len(a)
  BY <1>1, <1>2 DEF Longer
<1>5. \A i \in Nat \ {0} : At(c, i, Ones) = Ones - At(p, i, 0)
  BY <1>1, <1>2, ComplementIs
<1>6. \A i \in 1..l : At(a, i, Ones) = At(a, i, 0)
  <2>1. DOMAIN a = 1..l
    BY <1>1, <1>4 DEF DigitSeq
  <2> HIDE DEF l
  <2> QED BY <2>1 DEF At
<1>7. s \in 0..Ones /\ t \in 0..Ones /\ k = s + t * Radix /\ k \in Nat
  BY <1>1, ComplementPair
<1>8. Pair(b, k)
  <2> HIDE DEF s, t, k
  <2>1. Len(b) = 2 /\ DOMAIN b = 1..2 /\ b[1] = s /\ b[2] = t
    OBVIOUS
  <2>2. At(b, 1, 0) = s /\ At(b, 2, 0) = t
    <3> HIDE DEF b
    <3> QED BY <2>1 DEF At
  <2> QED BY <1>7, <2>1, <2>2 DEF Pair
<1>9. Columnwise(z, a, b, 0)
  <2> DEFINE w == [i \in 1..l |-> Join(At(a, i, 0), Ones - At(p, i, 0), WordBits, 0)]
  <2>1. ASSUME NEW i \in 1..l
        PROVE  /\ And(At(a, i, Ones), At(c, i, Ones), WordBits)
                  = Join(At(a, i, 0), Ones - At(p, i, 0), WordBits, 0)
               /\ Join(At(a, i, 0), Ones - At(p, i, 0), WordBits, 0) \in 0..Ones
    <3> DEFINE g == At(a, i, 0)
               h == At(p, i, 0)
               j == Ones - h
    <3>0. i \in Nat \ {0}
      BY <1>1, <1>4
    <3>1. g \in 0..Ones /\ h \in 0..Ones /\ g \in Nat /\ h \in Nat
      BY <1>1, <3>0, WordAt
    <3>2. At(a, i, Ones) = g /\ At(c, i, Ones) = j
      BY <1>5, <1>6, <2>1, <3>0
    <3> HIDE DEF g, h
    <3>3. j \in 0..Ones /\ j \in Nat
      BY <1>3, <3>1
    <3> HIDE DEF j
    <3>4. And(g, j, WordBits) = Join(g, j, WordBits, 0)
      BY <1>3, <3>1, <3>3, AndOrAre
    <3>5. Splits(g, g, j, j, 0)
      BY <1>3, <3>1, <3>3, JoinSplit
    <3>6. Join(g, j, WordBits, 0) \in 0..Ones
      BY <3>5 DEF Splits
    <3> QED BY <3>2, <3>4, <3>6 DEF g, h, j
  <2> HIDE DEF l
  <2>2. z = w
    BY <2>1, Zenon
  <2>3. w \in DigitSeq(Radix) /\ Len(w) = l /\ DOMAIN w = 1..l
    <3> DEFINE V == 0..Ones
    <3>1. \A i \in 1..l : Join(At(a, i, 0), Ones - At(p, i, 0), WordBits, 0) \in V
      BY <2>1
    <3> HIDE DEF V
    <3>2. w \in [1..l -> V]
      BY <3>1
    <3>3. DOMAIN w = 1..l
      OBVIOUS
    <3> HIDE DEF w
    <3>4. w \in Seq(V) /\ Len(w) = l
      BY <1>1, <1>4, <3>2, SeqOfFunction
    <3>5. V = 0..(Radix - 1)
      BY <1>3 DEF V
    <3> QED BY <3>3, <3>4, <3>5 DEF DigitSeq
  <2>4. ASSUME NEW i \in 1..2
        PROVE  At(w, i, 0) = Join(At(a, i, 0), Ones - At(p, i, 0), WordBits, 0)
    <3>1. CASE i \in 1..l
      BY <2>3, <3>1 DEF At
    <3>2. CASE i \notin 1..l
      <4>1. DOMAIN a = 1..l
        BY <1>1, <1>4 DEF DigitSeq
      <4>2. At(a, i, 0) = 0
        BY <3>2, <4>1 DEF At
      <4>3. At(w, i, 0) = 0
        BY <2>3, <3>2 DEF At
      <4> DEFINE j == Ones - At(p, i, 0)
      <4>4. j \in Nat
        <5>1. i \in Nat
          OBVIOUS
        <5>2. At(p, i, 0) \in 0..Ones
          BY <1>1, <5>1, WordAt
        <5> QED BY <1>3, <5>2
      <4> HIDE DEF j
      <4>5. Join(0, j, WordBits, 0) = 0
        BY <4>4, JoinZero
      <4> QED BY <4>2, <4>3, <4>5 DEF j
    <3> QED BY <3>1, <3>2
  <2>5. At(w, 1, 0) = Join(At(a, 1, 0), s, WordBits, 0)
    BY <2>4
  <2>6. At(w, 2, 0) = Join(At(a, 2, 0), t, WordBits, 0)
    BY <2>4
  <2>7. At(b, 1, 0) = s /\ At(b, 2, 0) = t
    <3> HIDE DEF s, t
    <3>1. DOMAIN b = 1..2 /\ b[1] = s /\ b[2] = t
      OBVIOUS
    <3> HIDE DEF b
    <3> QED BY <3>1 DEF At
  <2>8. Len(w) <= 2
    BY <1>2, <1>4, <2>3
  <2> HIDE DEF w, z, s, t, b
  <2> QED BY <2>2, <2>3, <2>5, <2>6, <2>7, <2>8 DEF Columnwise
<1>10. Without(a, p) = Trim(z)
  BY DEF Without, AndMissingOnes
<1>11. And(m, k, 2 * WordBits) = Join(m, k, 2 * WordBits, 0)
  <2> HIDE DEF k
  <2> QED BY <1>1, <1>3, <1>7, AndOrAre
<1> HIDE DEF z, b, k
<1>12. Is(Trim(z), Join(m, k, 2 * WordBits, 0)) /\ Join(m, k, 2 * WordBits, 0) < Width
  BY <1>1, <1>3, <1>8, <1>9, ColumnsMake
<1> QED BY <1>10, <1>11, <1>12 DEF k

(* Of any permissions and any that are removed: what is in the set and not *)
(* removed stays, although more may.                                       *)
LEMMA WithoutKeeps ==
    ASSUME NEW a, NEW p, NEW m, NEW n, Is(a, m), Is(p, n), m < Width, n < Width
    PROVE  \E v : /\ Is(Without(a, p), v) /\ v < Width
                  /\ BitsWithin(And(m, Width - 1 - n, 2 * WordBits), v, 2 * WordBits)
<1> DEFINE c == Complement(p)
           l == Longer(a, c)
           z == [i \in 1..l |-> And(At(a, i, Ones), At(c, i, Ones), WordBits)]
           k == Width - 1 - n
           word(i) == Ones - At(p, i, 0)
<1>1. /\ a \in DigitSeq(Radix) /\ p \in DigitSeq(Radix) /\ m \in Nat /\ n \in Nat
      /\ Pair(a, m) /\ Pair(p, n) /\ Len(a) \in 0..2 /\ Len(p) \in 0..2
      /\ DOMAIN a = 1..Len(a) /\ DOMAIN p = 1..Len(p)
  <2>1. a \in DigitSeq(Radix) /\ p \in DigitSeq(Radix) /\ m \in Nat /\ n \in Nat
        /\ Pair(a, m) /\ Pair(p, n) /\ Len(a) \in Nat /\ Len(p) \in Nat
    BY BigIs, PairOf
  <2>2. Len(a) <= 2 /\ Len(p) <= 2
    BY <2>1 DEF Pair
  <2>3. DOMAIN a = 1..Len(a) /\ DOMAIN p = 1..Len(p)
    <3> DEFINE V == 0..(Radix - 1)
    <3>1. a \in Seq(V) /\ p \in Seq(V)
      BY <2>1 DEF DigitSeq
    <3> HIDE DEF V
    <3> QED BY <3>1
  <2> QED BY <2>1, <2>2, <2>3
<1>2. /\ WordBits \in Nat /\ 2 * WordBits \in Nat /\ 2 * WordBits = WordBits + WordBits
      /\ Ones \in Nat /\ Radix = Ones + 1 /\ Radix \in Nat /\ Power(2, WordBits) = Radix
  BY RadixPower, RadixIs
<1>3. /\ c \in Seq(0..Ones) /\ Len(c) \in 0..Len(p) /\ DOMAIN c = 1..Len(c)
      /\ \A i \in 1..Len(c) : c[i] = word(i)
      /\ \A i \in 1..2 : i > Len(c) /\ i <= Len(p) => word(i) = 0
  <2> DEFINE V == 0..Ones
             d == [i \in 1..Len(p) |-> Ones - p[i]]
  <2>1. p \in Seq(V) /\ Len(p) \in Nat
    BY <1>1, <1>2 DEF DigitSeq
  <2>2. \A i \in 1..Len(p) : p[i] \in V
    <3> HIDE DEF V
    <3> QED BY <2>1
  <2>3. \A i \in 1..Len(p) : Ones - p[i] \in V /\ word(i) = Ones - p[i]
    BY <1>1, <1>2, <2>2 DEF At
  <2>4. c = Trim(d)
    BY DEF Complement
  <2>5. d \in Seq(V) /\ Len(d) = Len(p) /\ \A i \in 1..Len(p) : d[i] = word(i)
    <3> HIDE DEF V
    <3>1. d \in [1..Len(p) -> V] /\ \A i \in 1..Len(p) : d[i] = word(i)
      BY <2>3
    <3> HIDE DEF d
    <3> QED BY <2>1, <3>1, SeqOfFunction
  <2> HIDE DEF d, c
  <2>6. /\ c \in Seq(V) /\ Len(c) \in 0..Len(d)
        /\ \A i \in 1..Len(c) : c[i] = d[i]
        /\ \A i \in 1..Len(d) : i > Len(c) => d[i] = 0
    <3> HIDE DEF V
    <3> QED BY <2>4, <2>5, TrimIs
  <2>7. DOMAIN c = 1..Len(c)
    BY <2>6
  <2>8. \A i \in 1..Len(c) : i \in 1..Len(p)
    BY <2>1, <2>5, <2>6
  <2>9. \A i \in 1..2 : i > Len(c) /\ i <= Len(p) => i \in 1..Len(d)
    BY <2>1, <2>5
  <2> HIDE DEF word
  <2> QED BY <2>5, <2>6, <2>7, <2>8, <2>9 DEF V
<1>4. l \in 0..2 /\ Len(a) <= l
  BY <1>1, <1>3 DEF Longer
<1>5. \A i \in 1..2 : /\ At(a, i, 0) \in 0..Ones /\ word(i) \in 0..Ones
                      /\ i > Len(a) => At(a, i, 0) = 0
                      /\ i <= Len(a) => At(a, i, Ones) = At(a, i, 0)
                      /\ i \in 1..Len(c) => At(c, i, Ones) = word(i)
                      /\ i > Len(p) => word(i) = Ones /\ At(c, i, Ones) = Ones
  <2> SUFFICES ASSUME NEW i \in 1..2
               PROVE  /\ At(a, i, 0) \in 0..Ones /\ word(i) \in 0..Ones
                      /\ i > Len(a) => At(a, i, 0) = 0
                      /\ i <= Len(a) => At(a, i, Ones) = At(a, i, 0)
                      /\ i \in 1..Len(c) => At(c, i, Ones) = word(i)
                      /\ i > Len(p) => word(i) = Ones /\ At(c, i, Ones) = Ones
    OBVIOUS
  <2>0. i \in Nat
    OBVIOUS
  <2>1. At(a, i, 0) \in 0..Ones /\ At(p, i, 0) \in 0..Ones
    BY <1>1, <2>0, WordAt
  <2>2. word(i) \in 0..Ones
    BY <1>2, <2>1
  <2>3. i > Len(a) => i \notin DOMAIN a
    BY <1>1
  <2>4. i <= Len(a) => i \in DOMAIN a
    BY <1>1
  <2>5. i > Len(p) => i \notin DOMAIN p /\ i \notin DOMAIN c
    BY <1>1, <1>3
  <2>6. i \in 1..Len(c) => i \in DOMAIN c /\ c[i] = word(i)
    BY <1>3
  <2>7. i > Len(p) => word(i) = Ones
    BY <1>2, <2>5 DEF At
  <2> HIDE DEF word, c
  <2> QED BY <2>1, <2>2, <2>3, <2>4, <2>5, <2>6, <2>7 DEF At
<1> HIDE DEF c, l
<1>6. /\ z \in DigitSeq(Radix) /\ Len(z) = l /\ DOMAIN z = 1..l
  <2> DEFINE V == 0..Ones
  <2>1. \A i \in 1..l : And(At(a, i, Ones), At(c, i, Ones), WordBits) \in V
    <3> SUFFICES ASSUME NEW i \in 1..l
                 PROVE  And(At(a, i, Ones), At(c, i, Ones), WordBits) \in V
      OBVIOUS
    <3> DEFINE x == At(a, i, Ones)
               y == At(c, i, Ones)
    <3>1. x \in Nat /\ y \in Nat
      <4>1. \A j \in DOMAIN a : a[j] \in Nat
        <5>1. a \in Seq(Int) /\ \A j \in DOMAIN a : At(a, j, 0) = a[j] /\ j \in Nat
          BY <1>1, BigIs DEF At
        <5>2. \A j \in DOMAIN a : At(a, j, 0) \in Nat
          BY <1>1, <5>1, WordAt
        <5> QED BY <5>1, <5>2
      <4>2. \A j \in DOMAIN c : c[j] \in Nat
        <5>1. V \subseteq Nat /\ c \in Seq(V)
          BY <1>2, <1>3
        <5> HIDE DEF V
        <5>2. \A j \in DOMAIN c : c[j] \in V
          BY <5>1
        <5> QED BY <5>1, <5>2
      <4> QED BY <1>2, <4>1, <4>2 DEF At
    <3> HIDE DEF x, y
    <3>2. 0 \in 0..1
      OBVIOUS
    <3>3. And(x, y, WordBits) \in Nat /\ And(x, y, WordBits) < Radix
      <4>1. Joined(x, y, WordBits, 0)
        BY <1>2, <3>1, <3>2, JointIs
      <4>2. And(x, y, WordBits) = Join(x, y, WordBits, 0)
        BY <1>2, <3>1, AndOrAre
      <4> QED BY <1>2, <4>1, <4>2 DEF Joined
    <3>4. And(x, y, WordBits) \in 0..Ones
      BY <1>2, <3>3
    <3> QED BY <3>4 DEF x, y
  <2> HIDE DEF V
  <2>2. z \in [1..l -> V] /\ l \in Nat
    BY <1>4, <2>1
  <2>3. DOMAIN z = 1..l
    OBVIOUS
  <2> HIDE DEF z
  <2>4. z \in Seq(V) /\ Len(z) = l
    BY <2>2, SeqOfFunction
  <2>5. V = 0..(Radix - 1)
    BY <1>2 DEF V
  <2> QED BY <2>3, <2>4, <2>5 DEF DigitSeq
<1>7. \A i \in 1..l : z[i] = And(At(a, i, Ones), At(c, i, Ones), WordBits)
  OBVIOUS
<1> HIDE DEF z
<1>8. ASSUME NEW j \in 1..2, NEW i \in 1..WordBits,
             Bits(At(a, j, 0), WordBits)[i] = 1, Bits(word(j), WordBits)[i] = 1
      PROVE  Bits(At(z, j, 0), WordBits)[i] = 1
  <2>1. j <= Len(a)
    <3>1. j > Len(a) => At(a, j, 0) = 0
      BY <1>5
    <3>2. At(a, j, 0) # 0
      BY <1>8, NoBits
    <3> QED BY <1>1, <3>1, <3>2
  <2>2. word(j) # 0
    BY <1>8, NoBits
  <2>3. At(c, j, Ones) = word(j)
    <3>1. j <= Len(p) => j \in 1..Len(c)
      <4> HIDE DEF word
      <4> QED BY <1>1, <1>3, <2>2
    <3>2. j > Len(p) => word(j) = Ones /\ At(c, j, Ones) = Ones
      BY <1>5
    <3>3. j \in 1..Len(c) => At(c, j, Ones) = word(j)
      BY <1>5
    <3> HIDE DEF word
    <3> QED BY <1>1, <3>1, <3>2, <3>3
  <2>4. At(z, j, 0) = And(At(a, j, 0), word(j), WordBits)
    <3>1. j \in 1..l
      BY <1>1, <1>4, <2>1
    <3>2. At(a, j, Ones) = At(a, j, 0)
      BY <1>5, <2>1
    <3> QED BY <1>6, <1>7, <2>3, <3>1, <3>2 DEF At
  <2> DEFINE x == At(a, j, 0)
             y == word(j)
  <2>5. x \in Nat /\ y \in Nat
    BY <1>2, <1>5
  <2> HIDE DEF x, y
  <2>6. And(x, y, WordBits) = Join(x, y, WordBits, 0)
    BY <1>2, <2>5, AndOrAre
  <2>7. 0 \in 0..1
    OBVIOUS
  <2>8. Bits(Join(x, y, WordBits, 0), WordBits)[i]
        = IF Bits(x, WordBits)[i] = 0 THEN 0 ELSE Bits(y, WordBits)[i]
    BY <1>2, <2>5, <2>7, JoinBits
  <2>9. Bits(x, WordBits)[i] = 1 /\ Bits(y, WordBits)[i] = 1
    BY <1>8 DEF x, y
  <2>10. Bits(And(x, y, WordBits), WordBits)[i] = 1
    BY <2>6, <2>8, <2>9
  <2> QED BY <2>4, <2>10 DEF x, y
<1> DEFINE v == At(z, 1, 0) + At(z, 2, 0) * Radix
<1>9. Is(Trim(z), v) /\ v < Width
  <2>1. Len(z) <= 2
    BY <1>4, <1>6
  <2> QED BY <1>6, <2>1, WordsMake
<1>10. Without(a, p) = Trim(z)
  BY DEF Without, AndMissingOnes, z, l, c
<1>11. k = word(1) + word(2) * Radix /\ k \in Nat
  BY <1>1, ComplementPair
<1>12. BitsWithin(And(m, k, 2 * WordBits), v, 2 * WordBits)
  <2> DEFINE a1 == At(a, 1, 0)
             a2 == At(a, 2, 0)
             z1 == At(z, 1, 0)
             z2 == At(z, 2, 0)
             k1 == word(1)
             k2 == word(2)
             S  == 2 * WordBits
  <2>1. /\ a1 \in 0..Ones /\ a2 \in 0..Ones /\ z1 \in 0..Ones /\ z2 \in 0..Ones
        /\ k1 \in 0..Ones /\ k2 \in 0..Ones
    BY <1>5, <1>6, WordAt
  <2>2. m = a1 + a2 * Radix
    BY <1>1 DEF Pair
  <2> HIDE DEF v, k, word
  <2>3. /\ \A i \in 1..WordBits : Bits(a1, WordBits)[i] = 1 /\ Bits(k1, WordBits)[i] = 1
                                   => Bits(z1, WordBits)[i] = 1
        /\ \A i \in 1..WordBits : Bits(a2, WordBits)[i] = 1 /\ Bits(k2, WordBits)[i] = 1
                                   => Bits(z2, WordBits)[i] = 1
    BY <1>8
  <2>4. v = z1 + z2 * Radix /\ k = k1 + k2 * Radix
    BY <1>11 DEF v
  <2> HIDE DEF a1, a2, z1, z2, k1, k2
  <2>5. /\ Agree(Bits(m, S), Bits(a1, WordBits), WordBits)
        /\ Follows(Bits(a2, WordBits), Bits(m, S), WordBits, WordBits)
    BY <2>1, <2>2, BitsSplit
  <2>6. /\ Agree(Bits(k, S), Bits(k1, WordBits), WordBits)
        /\ Follows(Bits(k2, WordBits), Bits(k, S), WordBits, WordBits)
    BY <2>1, <2>4, BitsSplit
  <2>7. /\ Agree(Bits(v, S), Bits(z1, WordBits), WordBits)
        /\ Follows(Bits(z2, WordBits), Bits(v, S), WordBits, WordBits)
    BY <2>1, <2>4, BitsSplit
  <2>8. \A i \in 1..S : Bits(And(m, k, S), S)[i]
                        = IF Bits(m, S)[i] = 0 THEN 0 ELSE Bits(k, S)[i]
    <3>1. 0 \in 0..1 /\ S \in Nat
      BY <1>2
    <3> HIDE DEF S
    <3>2. And(m, k, S) = Join(m, k, S, 0)
      BY <1>1, <1>11, <3>1, AndOrAre
    <3> QED BY <1>1, <1>11, <3>1, <3>2, JoinBits
  <2>9. \A i \in 1..S : Bits(m, S)[i] \in 0..1
    <3>1. Bits(m, S) \in [1..S -> 0..1]
      BY <1>1, <1>2, BitsAre
    <3> QED BY <3>1
  <2>10. ASSUME NEW i \in 1..S, Bits(And(m, k, S), S)[i] = 1 PROVE Bits(v, S)[i] = 1
    <3>1. Bits(m, S)[i] = 1 /\ Bits(k, S)[i] = 1
      BY <2>8, <2>9, <2>10
    <3>2. CASE i \in 1..WordBits
      BY <2>3, <2>5, <2>6, <2>7, <3>1, <3>2 DEF Agree
    <3>3. CASE i \notin 1..WordBits
      <4> DEFINE h == i - WordBits
      <4>1. h \in 1..WordBits /\ i = WordBits + h
        BY <1>2, <3>3
      <4> HIDE DEF h
      <4> QED BY <2>3, <2>5, <2>6, <2>7, <3>1, <4>1 DEF Follows
    <3> QED BY <3>2, <3>3
  <2> QED BY <2>10 DEF BitsWithin
<1> QED BY <1>9, <1>10, <1>12 DEF k

(* What the integer has the big_uint has too, and it has no more while what *)
(* was removed was Removable; both have few enough bits for two words.     *)
PermissionsAre(v) ==
    /\ Is(perm, v) /\ v < Width
    /\ flags \in Nat /\ flags < Width /\ intact \in BOOLEAN
    /\ BitsWithin(flags, v, 2 * WordBits)
    /\ intact => v = flags
PermissionsInvariant == \E v : PermissionsAre(v)

LEMMA OperandIs ==
    ASSUME NEW p \in Operands
    PROVE  Is(p, Flags(p)) /\ Flags(p) < Width
<1>1. p \in DigitSeq(Radix) /\ Trim(p) = p /\ Value(p) < Width
  BY PermissionsAssumption DEF DigitSeq, Ones
<1>2. Is(Trim(p), Number(p, Radix))
  BY <1>1, TrimIsBig
<1> QED BY <1>1, <1>2 DEF Flags, Value

LEMMA PermissionsStart == PermissionsInit => PermissionsInvariant
<1>1. 0 < Width
  BY RadixIs DEF Width
<1>2. BitsWithin(0, 0, 2 * WordBits)
  BY DEF BitsWithin
<1>3. PermissionsInit => PermissionsAre(0)
  BY <1>1, <1>2, NoneIs DEF PermissionsInit, PermissionsAre
<1> QED BY <1>3 DEF PermissionsInvariant

(* What is joined with both, or removed from both, keeps them so.          *)
LEMMA JoinedKeep ==
    ASSUME NEW a, NEW v, NEW f \in Nat, NEW p, NEW n, Is(a, v), Is(p, n),
           v < Width, n < Width, f < Width, BitsWithin(f, v, 2 * WordBits)
    PROVE  /\ Is(BitAnd(a, p), And(v, n, 2 * WordBits)) /\ And(v, n, 2 * WordBits) < Width
           /\ Is(BitOr(a, p), Or(v, n, 2 * WordBits)) /\ Or(v, n, 2 * WordBits) < Width
           /\ And(f, n, 2 * WordBits) \in Nat /\ And(f, n, 2 * WordBits) < Width
           /\ Or(f, n, 2 * WordBits) \in Nat /\ Or(f, n, 2 * WordBits) < Width
           /\ BitsWithin(And(f, n, 2 * WordBits), And(v, n, 2 * WordBits), 2 * WordBits)
           /\ BitsWithin(Or(f, n, 2 * WordBits), Or(v, n, 2 * WordBits), 2 * WordBits)
<1>1. v \in Nat /\ n \in Nat /\ 2 * WordBits \in Nat /\ 0 \in 0..1 /\ 1 \in 0..1
      /\ Power(2, 2 * WordBits) = Width
  BY BigIs, RadixPower DEF Width
<1> DEFINE S == 2 * WordBits
<1> HIDE DEF S
<1>2. /\ And(f, n, S) = Join(f, n, S, 0) /\ Or(f, n, S) = Join(f, n, S, 1)
      /\ And(v, n, S) = Join(v, n, S, 0) /\ Or(v, n, S) = Join(v, n, S, 1)
  BY <1>1, AndOrAre DEF S
<1>3. Joined(f, n, S, 0) /\ Joined(f, n, S, 1)
  BY <1>1, JointIs DEF S
<1>4. /\ BitsWithin(Join(f, n, S, 0), Join(v, n, S, 0), S)
      /\ BitsWithin(Join(f, n, S, 1), Join(v, n, S, 1), S)
  BY <1>1, JoinKeeps DEF S
<1>5. /\ Is(BitAnd(a, p), And(v, n, S)) /\ And(v, n, S) < Width
      /\ Is(BitOr(a, p), Or(v, n, S)) /\ Or(v, n, S) < Width
  BY BitOperationsAre DEF S
<1> QED BY <1>1, <1>2, <1>3, <1>4, <1>5 DEF Joined, S

LEMMA RemovedKeep ==
    ASSUME NEW a, NEW v, NEW f \in Nat, NEW p, NEW n, Is(a, v), Is(p, n),
           v < Width, n < Width, f < Width, BitsWithin(f, v, 2 * WordBits)
    PROVE  /\ WithoutFlags(f, n) \in Nat /\ WithoutFlags(f, n) < Width
           /\ \E w : /\ Is(Without(a, p), w) /\ w < Width
                     /\ BitsWithin(WithoutFlags(f, n), w, 2 * WordBits)
                     /\ v = f /\ Removable(a, p) => w = WithoutFlags(f, n)
<1> DEFINE S == 2 * WordBits
           k == Width - 1 - n
<1>1. /\ v \in Nat /\ n \in Nat /\ S \in Nat /\ 0 \in 0..1 /\ Power(2, S) = Width
  BY BigIs, RadixPower DEF Width
<1>2. k \in Nat
  BY <1>1, PairOf, ComplementPair
<1>3. WithoutFlags(f, n) = And(f, k, S)
  BY DEF WithoutFlags
<1>4. PICK w : /\ Is(Without(a, p), w) /\ w < Width
               /\ BitsWithin(And(v, k, S), w, S)
  BY WithoutKeeps
<1>5. Removable(a, p) => Is(Without(a, p), And(v, k, S))
  BY WithoutIs
<1> HIDE DEF S, k
<1>6. Removable(a, p) => w = And(v, k, S)
  BY <1>4, <1>5 DEF Is
<1>7. /\ And(f, k, S) = Join(f, k, S, 0) /\ And(v, k, S) = Join(v, k, S, 0)
      /\ BitsWithin(Join(f, k, S, 0), Join(v, k, S, 0), S)
  <2>1. BitsWithin(f, v, S)
    BY DEF S
  <2> QED BY <1>1, <1>2, <2>1, AndOrAre, JoinKeeps
<1>8. And(f, k, S) \in Nat /\ And(f, k, S) < Width
  <2>1. Joined(f, k, S, 0)
    BY <1>1, <1>2, JointIs
  <2> QED BY <1>1, <1>7, <2>1 DEF Joined
<1>9. BitsWithin(And(f, k, S), w, S)
  BY <1>4, <1>7 DEF BitsWithin
<1>10. v = f /\ Removable(a, p) => w = And(f, k, S)
  BY <1>6
<1>11. BitsWithin(WithoutFlags(f, n), w, 2 * WordBits)
  BY <1>3, <1>9 DEF S
<1> QED BY <1>3, <1>4, <1>8, <1>10, <1>11

LEMMA PermissionsStep ==
    ASSUME PermissionsInvariant, [PermissionsNext]_permissionVars
    PROVE  \E v : PermissionsAre(v)'
<1>0. PICK v : PermissionsAre(v)
  BY DEF PermissionsInvariant
<1>0a. /\ Is(perm, v) /\ v < Width /\ flags \in Nat /\ flags < Width /\ intact \in BOOLEAN
       /\ BitsWithin(flags, v, 2 * WordBits) /\ (intact => v = flags)
  BY <1>0 DEF PermissionsAre
<1>0b. ASSUME NEW w, Is(perm', w), w < Width, flags' \in Nat, flags' < Width,
              intact' \in BOOLEAN, BitsWithin(flags', w, 2 * WordBits), intact' => w = flags'
       PROVE  \E x : PermissionsAre(x)'
  BY <1>0b DEF PermissionsAre, Is, Value, BitsWithin
<1>1. ASSUME NEW p \in Operands, AddPermissions(p) PROVE \E x : PermissionsAre(x)'
  <2>1. /\ Is(perm', Or(v, Flags(p), 2 * WordBits)) /\ Or(v, Flags(p), 2 * WordBits) < Width
        /\ flags' \in Nat /\ flags' < Width
        /\ BitsWithin(flags', Or(v, Flags(p), 2 * WordBits), 2 * WordBits)
    BY <1>0a, <1>1, OperandIs, JoinedKeep DEF AddPermissions, With, WithFlags
  <2>2. intact' = intact /\ (intact' => Or(v, Flags(p), 2 * WordBits) = flags')
    BY <1>0a, <1>1 DEF AddPermissions, WithFlags
  <2> QED BY <1>0a, <1>0b, <2>1, <2>2
<1>2. ASSUME NEW p \in Operands, RemovePermissions(p) PROVE \E x : PermissionsAre(x)'
  <2>1. /\ perm' = Without(perm, p) /\ flags' = WithoutFlags(flags, Flags(p))
        /\ intact' = (intact /\ Removable(perm, p))
    BY <1>2 DEF RemovePermissions
  <2>2. /\ flags' \in Nat /\ flags' < Width
        /\ \E w : /\ Is(perm', w) /\ w < Width /\ BitsWithin(flags', w, 2 * WordBits)
                  /\ v = flags /\ Removable(perm, p) => w = flags'
    BY <1>0a, <2>1, OperandIs, RemovedKeep
  <2>3. intact' \in BOOLEAN /\ (intact' => v = flags /\ Removable(perm, p))
    BY <1>0a, <2>1 DEF Removable
  <2> QED BY <1>0b, <2>2, <2>3
<1>3. ASSUME NEW p \in Operands, Intersection(p) PROVE \E x : PermissionsAre(x)'
  <2>1. /\ Is(perm', And(v, Flags(p), 2 * WordBits)) /\ And(v, Flags(p), 2 * WordBits) < Width
        /\ flags' \in Nat /\ flags' < Width
        /\ BitsWithin(flags', And(v, Flags(p), 2 * WordBits), 2 * WordBits)
    BY <1>0a, <1>3, OperandIs, JoinedKeep DEF Intersection, Common, CommonFlags
  <2>2. intact' = intact /\ (intact' => And(v, Flags(p), 2 * WordBits) = flags')
    BY <1>0a, <1>3 DEF Intersection, CommonFlags
  <2> QED BY <1>0a, <1>0b, <2>1, <2>2
<1>4. ASSUME NEW allow \in Operands, NEW deny \in Operands, CombinedPermissions(allow, deny)
      PROVE  \E x : PermissionsAre(x)'
  <2> DEFINE a == With(perm, allow)
             f == WithFlags(flags, Flags(allow))
             m == Or(v, Flags(allow), 2 * WordBits)
  <2>1. /\ Is(a, m) /\ m < Width /\ f \in Nat /\ f < Width /\ BitsWithin(f, m, 2 * WordBits)
    BY <1>0a, OperandIs, JoinedKeep DEF With, WithFlags
  <2>2. intact => m = f
    BY <1>0a DEF WithFlags
  <2>3. /\ perm' = Without(a, deny) /\ flags' = WithoutFlags(f, Flags(deny))
        /\ intact' = (intact /\ Removable(a, deny))
    BY <1>4 DEF CombinedPermissions
  <2> HIDE DEF a, f, m
  <2>4. /\ flags' \in Nat /\ flags' < Width
        /\ \E w : /\ Is(perm', w) /\ w < Width /\ BitsWithin(flags', w, 2 * WordBits)
                  /\ m = f /\ Removable(a, deny) => w = flags'
    BY <2>1, <2>3, OperandIs, RemovedKeep
  <2>5. intact' \in BOOLEAN /\ (intact' => m = f /\ Removable(a, deny))
    BY <1>0a, <2>2, <2>3 DEF Removable
  <2> QED BY <1>0b, <2>4, <2>5
<1>5. CASE SendAndRead
  <2> DEFINE s == StringOf(perm)
  <2>1. s \in DigitSeq(Ten) /\ FromChars(s, Ten) = v
    BY <1>0a, StringOfIs
  <2> HIDE DEF s
  <2>2. Is(ReadChunks(s, Ten, Chunk), FromChars(s, Ten))
    BY <2>1, TenIs, ReadIs
  <2>3. Is(Parse(s), v)
    BY <2>1, <2>2 DEF Parse
  <2>4. perm' = Parse(s) /\ flags' = flags /\ intact' = intact
    BY <1>5 DEF SendAndRead, s
  <2>5. Is(perm', v)
    BY <2>3, <2>4
  <2> QED BY <1>0a, <1>0b, <2>4, <2>5
<1>6. CASE UNCHANGED permissionVars
  <2>1. perm' = perm /\ flags' = flags /\ intact' = intact
    BY <1>6 DEF permissionVars
  <2>2. Is(perm', v)
    BY <1>0a, <2>1
  <2> QED BY <1>0a, <1>0b, <2>1, <2>2
<1> QED BY <1>1, <1>2, <1>3, <1>4, <1>5, <1>6 DEF PermissionsNext

LEMMA AnswersAgree ==
    ASSUME NEW a, NEW m, Is(a, m), m < Width, NEW p, NEW n, Is(p, n), n < Width
    PROVE  /\ Has(a, p) <=> HasFlags(m, n)
           /\ HasInt(a, n) <=> HasFlags(m, n)
<1> DEFINE k == And(m, n, 2 * WordBits)
<1>1. Is(BitAnd(a, p), k) /\ k < Width
  BY BitOperationsAre
<1>2. n \in 0..(Width - 1)
  <2>1. n \in Nat /\ Width \in Nat
    BY BigIs, RadixIs DEF Width
  <2> QED BY <2>1
<1>3. Is(FromInt(n), n)
  BY <1>2, FromIntIs
<1>4. Is(BitAnd(a, FromInt(n)), k)
  BY <1>3, BitOperationsAre
<1>5. HasFlags(m, n) <=> k = n
  BY DEF HasFlags
<1> HIDE DEF k
<1>6. Has(a, p) <=> k = n
  <2>1. BitAnd(a, p) = p => k = n
    BY <1>1 DEF Is
  <2>2. k = n => BitAnd(a, p) = p
    BY <1>1, IsUnique
  <2> QED BY <2>1, <2>2 DEF Has
<1>7. HasInt(a, n) <=> k = n
  BY <1>2, <1>4, EqualsIntIs DEF HasInt
<1> QED BY <1>5, <1>6, <1>7

LEMMA PermissionsInvariantAgrees == PermissionsInvariant => PermissionsAgree
<1> SUFFICES ASSUME NEW v, PermissionsAre(v) PROVE PermissionsAgree
  BY DEF PermissionsInvariant
<1> DEFINE S == 2 * WordBits
<1>1. /\ Is(perm, v) /\ v < Width /\ v \in Nat /\ flags \in Nat /\ flags < Width
      /\ BitsWithin(flags, v, S) /\ (intact => v = flags)
      /\ S \in Nat /\ Power(2, S) = Width
  BY BigIs, RadixPower DEF PermissionsAre, Width
<1>2. Value(perm) = v
  BY <1>1 DEF Is
<1>3. CommonFlags(Value(perm), flags) = flags
  <2>1. And(v, flags, S) = flags
    <3> HIDE DEF S
    <3> QED BY <1>1, WithinIs
  <2> QED BY <1>2, <2>1 DEF CommonFlags
<1>4. ASSUME NEW p \in Operands
      PROVE  /\ HasFlags(flags, Flags(p)) => Has(perm, p) /\ HasInt(perm, Flags(p))
             /\ intact /\ (Has(perm, p) \/ HasInt(perm, Flags(p))) => HasFlags(flags, Flags(p))
  <2> DEFINE n == Flags(p)
  <2>1. Is(p, n) /\ n < Width /\ n \in Nat
    BY OperandIs, BigIs
  <2> HIDE DEF n
  <2>2. /\ Has(perm, p) <=> HasFlags(v, n)
        /\ HasInt(perm, n) <=> HasFlags(v, n)
    BY <1>1, <2>1, AnswersAgree
  <2>3. HasFlags(flags, n) => HasFlags(v, n)
    <3>1. HasFlags(flags, n) <=> BitsWithin(n, flags, S)
      BY <1>1, <2>1, WithinIs DEF HasFlags
    <3>2. HasFlags(v, n) <=> BitsWithin(n, v, S)
      BY <1>1, <2>1, WithinIs DEF HasFlags
    <3>3. BitsWithin(n, flags, S) => BitsWithin(n, v, S)
      <4> HIDE DEF S
      <4> QED BY <1>1 DEF BitsWithin
    <3> QED BY <3>1, <3>2, <3>3
  <2>4. intact => (HasFlags(v, n) => HasFlags(flags, n))
    BY <1>1
  <2> QED BY <2>2, <2>3, <2>4 DEF n
<1> QED BY <1>1, <1>2, <1>3, <1>4 DEF PermissionsAgree

(* For words of any size and any permissions of at most two of them, whatever*)
(* is added, removed and combined, sent and read, with no restriction on   *)
(* what is removed: permission, which is a big_uint, has every bit that    *)
(* cacheless::permission has, which is an integer; and only those, with the*)
(* same answers from has_permission, while what was removed was Removable. *)
THEOREM PermissionsAlwaysAgree ==
    PermissionsInit /\ [][PermissionsNext]_permissionVars => []PermissionsAgree
<1>1. PermissionsInit => PermissionsInvariant
  BY PermissionsStart
<1>2. PermissionsInvariant /\ [PermissionsNext]_permissionVars => PermissionsInvariant'
  <2> SUFFICES ASSUME PermissionsInvariant, [PermissionsNext]_permissionVars
               PROVE  PermissionsInvariant'
    OBVIOUS
  <2>1. \E v : PermissionsAre(v)'
    BY PermissionsStep
  <2> QED BY <2>1 DEF PermissionsInvariant
<1>3. PermissionsInvariant => PermissionsAgree
  BY PermissionsInvariantAgrees
<1> QED BY <1>1, <1>2, <1>3, PTL

(* So do the permissions on the way of a request.                            *)
THEOREM PermissionsStayAlike == PathSpec => []PermissionsMatch
<1>1. PathInit => PermissionsInit
  BY DEF PathInit
<1>2. [PathNext]_pathVars => [PermissionsNext]_permissionVars
  BY DEF PathNext, HttpStep, QueueStep, CallStep, MentionStep, SettingStep, PermissionStep,
         NumberStep, pathVars, valueVars
<1>3. PermissionsAgree => PermissionsMatch
  BY DEF PermissionsMatch
<1> QED
  BY <1>1, <1>2, <1>3, PermissionsAlwaysAgree, PTL DEF PathSpec
=============================================================================
