---------------------------- MODULE ClientProofs ----------------------------
(* Theorems about Client, for any number of shards, callers and calls.       *)
EXTENDS Client, TLAPS

(* A call of rate_limit_global that is under way has reached the shards      *)
(* before todo; those from todo on still have what they agreed on before.    *)
LimitsInv ==
    /\ lock \in Callers \cup {Nobody}
    /\ todo \in [Callers -> 0..NumShards] /\ deadline \in [Callers -> Int]
    /\ until \in [Shards -> Int]
    /\ \A c \in Callers : todo[c] # 0 <=> lock = c
    /\ LimitsAgree
    /\ \A c \in Callers : todo[c] # 0 =>
          /\ \A s \in Shards : s < todo[c] => until[s] = deadline[c]
          /\ \A s, r \in Shards : s >= todo[c] /\ r >= todo[c] => until[s] = until[r]

LEMMA SleepTillKeeps == ASSUME LimitsInv, NEW c \in Callers, SleepTill(c) PROVE LimitsInv'
<1> USE ClientAssumption DEF Shards
<1>1. lock = c /\ todo[c] \in Shards /\ Nobody # c
  BY DEF LimitsInv, SleepTill
<1>2. until' = [until EXCEPT ![todo[c]] = deadline[c]] /\ until' \in [Shards -> Int]
  BY <1>1 DEF LimitsInv, SleepTill
<1>3. CASE todo[c] < NumShards
  <2>1. todo' = [todo EXCEPT ![c] = @ + 1] /\ lock' = lock /\ deadline' = deadline
    BY <1>3 DEF SleepTill
  <2> QED
    BY <1>1, <1>2, <1>3, <2>1 DEF LimitsInv, LimitsAgree
<1>4. CASE todo[c] = NumShards
  <2>1. /\ todo' = [todo EXCEPT ![c] = 0] /\ lock' = Nobody
        /\ deadline' = [deadline EXCEPT ![c] = 0]
    BY <1>4 DEF SleepTill
  <2>2. \A s \in Shards : until'[s] = deadline[c]
    BY <1>1, <1>2, <1>4 DEF LimitsInv
  <2> QED
    BY <1>1, <1>2, <2>1, <2>2 DEF LimitsInv, LimitsAgree
<1> QED
  BY <1>1, <1>3, <1>4

LEMMA RateLimitKeeps ==
    ASSUME LimitsInv, NEW c \in Callers, NEW t \in Deadlines, RateLimitGlobal(c, t) PROVE LimitsInv'
<1> USE ClientAssumption DEF Shards
<1>1. CASE lock = Nobody /\ lastLimit - now < 3
  <2>1. /\ lock' = c /\ todo' = [todo EXCEPT ![c] = 1] /\ until' = until
        /\ deadline' = [deadline EXCEPT ![c] = t]
    BY <1>1 DEF RateLimitGlobal
  <2> QED
    BY <1>1, <2>1 DEF LimitsInv, LimitsAgree
<1>2. CASE UNCHANGED <<lock, todo, deadline, until>>
  BY <1>2 DEF LimitsInv, LimitsAgree
<1> QED
  BY <1>1, <1>2 DEF RateLimitGlobal

(* Whoever calls rate_limit_global at the same time, all connections have    *)
(* the same global limit whenever no call is under way.                      *)
THEOREM LimitsAgreeAlways == Spec => []LimitsAgree
<1>1. Init => LimitsInv
  BY ClientAssumption DEF Init, LimitsInv, LimitsAgree, Shards
<1>2. LimitsInv /\ [Next]_vars => LimitsInv'
  <2> SUFFICES ASSUME LimitsInv, [Next]_vars PROVE LimitsInv'
    OBVIOUS
  <2>1. CASE UNCHANGED limits
    BY <2>1 DEF limits, LimitsInv, LimitsAgree
  <2>2. CASE Tick \/ DoIdentifies \/ \E s \in Shards : Hello(s) \/ Invalidate(s)
    BY <2>1, <2>2 DEF Tick, DoIdentifies, Identify, TasksDone, NextWave, Written, Hello, Invalidate,
                      limits
  <2>3. CASE \E w \in waits : QueueToIdentify(w) \/ IdentifyAgain(w)
    BY <2>1, <2>3 DEF QueueToIdentify, IdentifyAgain
  <2>4. CASE UNCHANGED vars
    BY <2>1, <2>4 DEF vars
  <2> QED
    BY <2>2, <2>3, <2>4, SleepTillKeeps, RateLimitKeeps DEF Next
<1>3. LimitsInv => LimitsAgree
  BY DEF LimitsInv
<1> QED
  BY <1>1, <1>2, <1>3, PTL DEF Spec
-----------------------------------------------------------------------------
Start == [shard : Shards, at : Nat, by : {"start", "queue"}]

(* do_identifies only goes forward, and only a shard that had its HELLO can  *)
(* wait to be identified again.                                              *)
StartsInv ==
    /\ now \in Nat /\ turn \in 1..(NumShards + 1)
    /\ starts \in Seq(Start)
    /\ \A w \in waits : w.shard \in Shards \cap hello
    /\ \A i \in DOMAIN starts : starts[i].by = "start" => starts[i].shard < turn
    /\ IdentifiedOnceAfterHello

(* send_identity for a shard that is greeted and, at the start, the next. *)
LEMMA OneMore ==
    ASSUME StartsInv, NEW s \in Shards, NEW by \in {"start", "queue"}, SendIdentity(s, by),
           s \in hello, hello' = hello,
           turn' \in 1..(NumShards + 1), by = "start" => s = turn /\ turn' = turn + 1,
           by = "queue" => turn' = turn
    PROVE  /\ starts' \in Seq(Start)
           /\ \A i \in DOMAIN starts' : starts'[i].by = "start" => starts'[i].shard < turn'
           /\ IdentifiedOnceAfterHello'
<1> DEFINE x == [shard |-> s, at |-> now, by |-> by]
           n == Len(starts)
<1>1. x \in Start /\ x.shard = s /\ x.by = by
  BY DEF Start, StartsInv
<1>2. starts' = Append(starts, x) /\ n \in Nat /\ DOMAIN starts = 1..n
  BY DEF SendIdentity, StartsInv
<1>3. /\ starts' \in Seq(Start) /\ DOMAIN starts' = 1..(n + 1)
      /\ starts'[n + 1] = x /\ \A i \in 1..n : starts'[i] = starts[i]
  BY <1>1, <1>2 DEF StartsInv
<1> HIDE DEF x, n
<1>4. turn \in Nat /\ turn' \in Nat /\ turn <= turn' /\ \A i \in 1..n : starts[i].shard \in Nat
  <2>1. turn \in Nat /\ turn' \in Nat /\ turn <= turn'
    BY ClientAssumption DEF StartsInv
  <2>2. \A i \in 1..n : starts[i] \in Start
    BY <1>2 DEF StartsInv
  <2> QED
    BY <2>1, <2>2 DEF Start, Shards
<1>5. \A i \in DOMAIN starts' : starts'[i].by = "start" => starts'[i].shard < turn'
  BY <1>1, <1>2, <1>3, <1>4 DEF StartsInv
<1>6. \A i \in DOMAIN starts' : starts'[i].shard \in hello'
  BY <1>1, <1>2, <1>3 DEF StartsInv, IdentifiedOnceAfterHello
<1>7. ASSUME NEW i \in 1..n, starts[i].by = "start" PROVE starts[i].shard < turn
  BY <1>2, <1>7 DEF StartsInv
<1>8. ASSUME NEW i \in DOMAIN starts', NEW j \in DOMAIN starts',
             starts'[i].by = "start", starts'[j].by = "start", starts'[i].shard = starts'[j].shard
      PROVE  i = j
  <2>1. CASE i \in 1..n /\ j \in 1..n
    BY <1>2, <1>3, <1>8, <2>1 DEF StartsInv, IdentifiedOnceAfterHello
  <2>2. CASE i \in 1..n /\ j = n + 1
    BY <1>1, <1>3, <1>4, <1>7, <1>8, <2>2
  <2>3. CASE i = n + 1 /\ j \in 1..n
    BY <1>1, <1>3, <1>4, <1>7, <1>8, <2>3
  <2> QED
    BY <1>2, <1>3, <1>8, <2>1, <2>2, <2>3
<1> QED
  BY <1>3, <1>5, <1>6, <1>8 DEF IdentifiedOnceAfterHello

LEMMA StartsInductive == StartsInv /\ [Next]_vars => StartsInv'
<1> USE ClientAssumption
<1> SUFFICES ASSUME StartsInv, [Next]_vars PROVE StartsInv'
  OBVIOUS
<1>1. CASE UNCHANGED <<now, turn, starts, waits, hello>>
  BY <1>1 DEF StartsInv, IdentifiedOnceAfterHello
<1>2. CASE Tick
  BY <1>2 DEF Tick, StartsInv, IdentifiedOnceAfterHello, starting, requeue
<1>3. ASSUME NEW s \in Shards, Hello(s) PROVE StartsInv'
  BY <1>3 DEF Hello, StartsInv, IdentifiedOnceAfterHello, starting, requeue
<1>4. CASE Identify
  <2>1. turn \in Shards /\ turn \in hello /\ turn' = turn + 1 /\ SendIdentity(turn, "start")
        /\ turn' \in 1..(NumShards + 1)
    BY <1>4 DEF Identify, StartsInv, Shards
  <2>2. UNCHANGED <<now, waits, hello>>
    BY <1>4 DEF Identify, requeue
  <2> QED
    BY <2>1, <2>2, OneMore DEF StartsInv
<1>5. ASSUME NEW w \in waits, IdentifyAgain(w) PROVE StartsInv'
  <2>1. w.shard \in Shards /\ w.shard \in hello /\ SendIdentity(w.shard, "queue")
    BY <1>5 DEF IdentifyAgain, StartsInv
  <2>2. UNCHANGED <<now, hello, turn>> /\ waits' \subseteq waits
    BY <1>5 DEF IdentifyAgain, starting
  <2> QED
    BY <2>1, <2>2, OneMore DEF StartsInv
<1>6. ASSUME NEW s \in Shards, Invalidate(s) PROVE StartsInv'
  <2>1. /\ UNCHANGED <<now, hello, turn, starts>>
        /\ waits' = waits \cup {[shard |-> s, at |-> now + Gap, kind |-> "opcode9"]}
    BY <1>6 DEF Invalidate, starting
  <2>2. s \in hello
    BY <1>6 DEF Invalidate, StartsInv, IdentifiedOnceAfterHello
  <2> QED
    BY <2>1, <2>2 DEF StartsInv, IdentifiedOnceAfterHello
<1>7. ASSUME NEW w \in waits, QueueToIdentify(w) PROVE StartsInv'
  <2>1. UNCHANGED <<now, hello, turn, starts>>
    BY <1>7 DEF QueueToIdentify, starting
  <2>2. \A v \in waits' : v \in waits \/ v.shard = w.shard
    BY <1>7 DEF QueueToIdentify
  <2> QED
    BY <1>7, <2>1, <2>2 DEF StartsInv, IdentifiedOnceAfterHello
<1>8. CASE TasksDone \/ NextWave \/ \E s \in Shards : Written(s)
  BY <1>1, <1>8 DEF TasksDone, NextWave, Written, starting, requeue
<1>9. CASE \E c \in Callers : SleepTill(c) \/ \E t \in Deadlines : RateLimitGlobal(c, t)
  BY <1>1, <1>9 DEF SleepTill, RateLimitGlobal, starting, requeue
<1>10. CASE UNCHANGED vars
  BY <1>1, <1>10 DEF vars, starting, requeue
<1> QED
  BY <1>2, <1>3, <1>4, <1>5, <1>6, <1>7, <1>8, <1>9, <1>10 DEF Next, DoIdentifies

LEMMA StartsAtFirst == Init => StartsInv
BY ClientAssumption DEF Init, StartsInv, IdentifiedOnceAfterHello

(* No shard is identified before its HELLO, and the start identifies none    *)
(* twice, in any number of waves and with sessions becoming invalid.         *)
THEOREM IdentifiedOnceAlways == Spec => []IdentifiedOnceAfterHello
<1>1. StartsInv => IdentifiedOnceAfterHello
  BY DEF StartsInv
<1> QED
  BY <1>1, StartsAtFirst, StartsInductive, PTL DEF Spec
-----------------------------------------------------------------------------
(* The starts of do_identifies up to a shard are a pause ago at t. *)
PausedSince(m, t) ==
    \A i \in DOMAIN starts : starts[i].by = "start" /\ starts[i].shard <= m => starts[i].at + Gap <= t

(* Between waves every start lies before the timer's pause; in a wave, which *)
(* began after m shards, the starts of those are a pause ago.                *)
WavesInv ==
    /\ StartsInv
    /\ waveEnd \in Nat /\ phase \in {"hello", "tasks", "timer", "done"}
    /\ \A i \in DOMAIN starts : starts[i].at <= now
    /\ phase \in {"tasks", "timer"} /\ turn <= NumShards => (turn - 1) % MaxConcurrency = 0
    /\ phase = "timer" => PausedSince(NumShards, waveEnd)
    /\ phase = "hello" =>
          \E m \in 0..(turn - 1) :
              m % MaxConcurrency = 0 /\ turn - 1 < m + MaxConcurrency /\ PausedSince(m, now)
    /\ StartsInWaves

(* The remainder of a division is determined by what it is a remainder of. *)
LEMMA OneRemainder ==
    ASSUME NEW k \in Nat \ {0}, NEW q \in Int, NEW p \in Int, NEW r \in 0..(k - 1),
           NEW t \in 0..(k - 1), k * q + r = k * p + t
    PROVE  r = t
<1>1. CASE q = p
  BY <1>1
<1>2. CASE q > p
  <2>1. k * (q - p) >= k
    BY <1>2
  <2> QED
    BY <2>1
<1>3. CASE q < p
  <2>1. k * (p - q) >= k
    BY <1>3
  <2> QED
    BY <2>1
<1> QED
  BY <1>1, <1>2, <1>3

LEMMA Division ==
    ASSUME NEW k \in Nat \ {0}, NEW m \in Nat
    PROVE  m = k * (m \div k) + (m % k) /\ m % k \in 0..(k - 1) /\ m \div k \in Nat
OBVIOUS

(* A wave further there is the end of a wave again. *)
LEMMA NextEnd ==
    ASSUME NEW k \in Nat \ {0}, NEW m \in Nat, m % k = 0 PROVE (m + k) % k = 0
<1>1. m + k \in Nat
  OBVIOUS
<1>2. PICK q, r : q = (m + k) \div k /\ r = (m + k) % k
  OBVIOUS
<1>3. q \in Nat /\ r \in 0..(k - 1) /\ m + k = k * q + r
  BY <1>1, <1>2, Division
<1>4. PICK p : p = m \div k
  OBVIOUS
<1>5. p \in Nat /\ m = k * p
  BY <1>4, Division
<1>6. k * (p + 1) = k * p + k
  BY <1>5
<1>7. k * q + r = k * (p + 1) + 0 /\ p + 1 \in Int /\ 0 \in 0..(k - 1)
  BY <1>3, <1>5, <1>6
<1> QED
  BY <1>2, <1>3, <1>7, OneRemainder

(* A start that do_identifies makes: those of a wave ago are a pause ago.    *)
LEMMA IdentifyKeepsWaves == ASSUME WavesInv, StartsInv', Identify PROVE WavesInv'
<1> USE ClientAssumption
<1> DEFINE x == [shard |-> turn, at |-> now, by |-> "start"]
           n == Len(starts)
<1>1. PICK m \in 0..(turn - 1) :
          m % MaxConcurrency = 0 /\ turn - 1 < m + MaxConcurrency /\ PausedSince(m, now)
  BY DEF WavesInv, Identify
<1>2. /\ starts' = Append(starts, x) /\ n \in Nat /\ DOMAIN starts = 1..n
      /\ turn' = turn + 1 /\ turn <= NumShards /\ UNCHANGED <<now, waveEnd>>
      /\ turn \in Nat /\ now \in Nat /\ starts \in Seq(Start)
  BY DEF Identify, SendIdentity, WavesInv, StartsInv
<1>3. x.shard = turn /\ x.at = now /\ x.by = "start"
  OBVIOUS
<1>4. DOMAIN starts' = 1..(n + 1) /\ starts'[n + 1] = x /\ \A i \in 1..n : starts'[i] = starts[i]
  BY <1>2
<1>5. \A i \in 1..n : starts[i].shard \in Nat /\ starts[i].at \in Nat
  <2>1. \A i \in 1..n : starts[i] \in Start
    BY <1>2
  <2> QED
    BY <2>1 DEF Start, Shards
<1> HIDE DEF x, n
<1>6. \A i \in DOMAIN starts' : starts'[i].at <= now'
  BY <1>2, <1>3, <1>4 DEF WavesInv
<1>7. \A i \in 1..n : starts[i].by = "start" => starts[i].shard < turn
  BY <1>2 DEF WavesInv, StartsInv
<1>8. \A i \in 1..n : starts[i].by = "start" /\ starts[i].shard <= m => starts[i].at + Gap <= now
  BY <1>1, <1>2 DEF PausedSince
<1>9. StartsInWaves'
  <2> SUFFICES ASSUME NEW i \in 1..(n + 1), NEW j \in 1..(n + 1),
                      starts'[i].by = "start", starts'[j].by = "start",
                      starts'[j].shard = starts'[i].shard + MaxConcurrency
               PROVE  starts'[j].at - starts'[i].at >= Gap
    BY <1>4 DEF StartsInWaves
  <2>1. CASE i \in 1..n /\ j \in 1..n
    BY <1>2, <1>4, <2>1 DEF WavesInv, StartsInWaves
  <2>2. CASE i \in 1..n /\ j = n + 1
    <3>1. starts[i].shard <= m
      BY <1>1, <1>2, <1>3, <1>4, <1>5, <2>2
    <3>2. starts[i].at + Gap <= now /\ starts[i].at \in Nat /\ Gap \in Nat
      BY <1>4, <1>5, <1>8, <2>2, <3>1
    <3>3. starts'[j].at = now /\ starts'[i].at = starts[i].at
      BY <1>3, <1>4, <2>2
    <3> QED
      BY <1>2, <3>2, <3>3
  <2>3. CASE i = n + 1
    BY <1>2, <1>3, <1>4, <1>5, <1>7, <2>3
  <2> QED
    BY <1>2, <2>1, <2>2, <2>3
<1>10. phase' = IF turn % MaxConcurrency = 0 \/ turn = NumShards THEN "tasks" ELSE "hello"
  BY DEF Identify
<1>11. phase' = "tasks" /\ turn' <= NumShards => (turn' - 1) % MaxConcurrency = 0
  BY <1>2, <1>10
<1>12. CASE phase' = "hello"
  <2>1. turn # m + MaxConcurrency
    BY <1>1, <1>2, <1>10, <1>12, NextEnd
  <2>2. m \in 0..(turn' - 1) /\ turn' - 1 < m + MaxConcurrency
    <3>1. MaxConcurrency \in Nat /\ m \in Nat /\ m <= turn - 1 /\ turn - 1 < m + MaxConcurrency
      BY <1>1, <1>2
    <3> QED
      BY <1>2, <2>1, <3>1
  <2>3. PausedSince(m, now)'
    <3> SUFFICES ASSUME NEW i \in 1..(n + 1), starts'[i].by = "start", starts'[i].shard <= m
                 PROVE  starts'[i].at + Gap <= now'
      BY <1>4 DEF PausedSince
    <3>1. i \in 1..n
      BY <1>1, <1>2, <1>3, <1>4
    <3> QED
      BY <1>2, <1>4, <1>8, <3>1
  <2> QED
    BY <1>1, <1>2, <1>6, <1>9, <1>12, <2>2, <2>3 DEF WavesInv
<1>13. CASE phase' = "tasks"
  BY <1>2, <1>6, <1>9, <1>11, <1>13 DEF WavesInv
<1> QED
  BY <1>10, <1>12, <1>13

(* A start from the queue is none of do_identifies. *)
LEMMA QueuedKeepsWaves ==
    ASSUME WavesInv, StartsInv', NEW s, SendIdentity(s, "queue"), UNCHANGED <<now, starting>>
    PROVE  WavesInv'
<1> USE ClientAssumption DEF starting
<1> DEFINE x == [shard |-> s, at |-> now, by |-> "queue"]
           n == Len(starts)
<1>1. /\ starts' = Append(starts, x) /\ n \in Nat /\ DOMAIN starts = 1..n
      /\ now \in Nat /\ starts \in Seq(Start)
  BY DEF SendIdentity, WavesInv, StartsInv
<1>2. x.at = now /\ x.by # "start"
  OBVIOUS
<1>3. DOMAIN starts' = 1..(n + 1) /\ starts'[n + 1] = x /\ \A i \in 1..n : starts'[i] = starts[i]
  BY <1>1
<1> HIDE DEF x, n
<1>4. \A i \in DOMAIN starts' : starts'[i].at <= now'
  BY <1>1, <1>2, <1>3 DEF WavesInv
<1>5. \A i \in DOMAIN starts' : starts'[i].by = "start" => i \in DOMAIN starts /\ starts'[i] = starts[i]
  BY <1>1, <1>2, <1>3
<1>6. StartsInWaves'
  BY <1>5 DEF WavesInv, StartsInWaves
<1>7. ASSUME NEW m, NEW t, PausedSince(m, t)
      PROVE  \A i \in DOMAIN starts' :
                starts'[i].by = "start" /\ starts'[i].shard <= m => starts'[i].at + Gap <= t
  BY <1>5, <1>7 DEF PausedSince
<1>8. phase = "timer" => PausedSince(NumShards, waveEnd)'
  BY <1>7 DEF WavesInv, PausedSince
<1>9. CASE phase = "hello"
  <2>1. PICK m \in 0..(turn - 1) :
            m % MaxConcurrency = 0 /\ turn - 1 < m + MaxConcurrency /\ PausedSince(m, now)
    BY <1>9 DEF WavesInv
  <2>2. PausedSince(m, now)'
    BY <1>7, <2>1 DEF PausedSince
  <2> QED
    BY <1>4, <1>6, <1>9, <2>1, <2>2 DEF WavesInv
<1>10. CASE phase # "hello"
  BY <1>4, <1>6, <1>8, <1>10 DEF WavesInv
<1> QED
  BY <1>9, <1>10

(* The end of the timer: all starts are a pause ago. *)
LEMMA NextWaveKeepsWaves == ASSUME WavesInv, StartsInv', NextWave PROVE WavesInv'
<1> USE ClientAssumption
<1>1. /\ phase = "timer" /\ now >= waveEnd /\ waveEnd' = 0 /\ waveEnd \in Nat
      /\ phase' = IF turn > NumShards THEN "done" ELSE "hello"
      /\ UNCHANGED <<now, turn, starts>> /\ turn \in 1..(NumShards + 1) /\ starts \in Seq(Start)
      /\ now \in Nat
  BY DEF NextWave, WavesInv, StartsInv
<1>2. \A i \in DOMAIN starts : starts[i].by = "start" => starts[i].shard < turn
  BY DEF WavesInv, StartsInv
<1>3. \A i \in DOMAIN starts : starts[i].shard \in Nat /\ starts[i].at \in Nat
                               /\ starts[i].shard <= NumShards
  <2>1. \A i \in DOMAIN starts : starts[i] \in Start
    BY <1>1
  <2> QED
    BY <2>1 DEF Start, Shards
<1>4. \A i \in DOMAIN starts : starts[i].by = "start" => starts[i].at + Gap <= now
  BY <1>1, <1>3 DEF WavesInv, PausedSince
<1>5. StartsInWaves' /\ \A i \in DOMAIN starts' : starts'[i].at <= now'
  BY <1>1 DEF WavesInv, StartsInWaves
<1>6. CASE turn > NumShards
  BY <1>1, <1>5, <1>6 DEF WavesInv
<1>7. CASE turn <= NumShards
  <2>1. turn - 1 \in 0..(turn' - 1) /\ (turn - 1) % MaxConcurrency = 0
        /\ turn' - 1 < (turn - 1) + MaxConcurrency
    BY <1>1, <1>7 DEF WavesInv
  <2>2. PausedSince(turn - 1, now)'
    BY <1>1, <1>4 DEF PausedSince
  <2>3. PICK m : m = turn - 1
    OBVIOUS
  <2>4. m \in 0..(turn' - 1) /\ m % MaxConcurrency = 0 /\ turn' - 1 < m + MaxConcurrency
        /\ PausedSince(m, now)'
    BY <1>1, <2>1, <2>2, <2>3 DEF PausedSince
  <2> QED
    BY <1>1, <1>5, <1>7, <2>4 DEF WavesInv
<1> QED
  BY <1>1, <1>6, <1>7

(* All other steps leave the starts alone. *)
LEMMA NoStartKeepsWaves ==
    ASSUME WavesInv, StartsInv', UNCHANGED starts, TasksDone \/ UNCHANGED starting,
           now' = now \/ now' = now + 1
    PROVE  WavesInv'
<1> USE ClientAssumption
<1>1. now \in Nat /\ now' \in Nat /\ now <= now' /\ starts \in Seq(Start)
  BY DEF WavesInv, StartsInv
<1>2. \A i \in DOMAIN starts : starts[i].at \in Nat
  <2>1. \A i \in DOMAIN starts : starts[i] \in Start
    BY <1>1
  <2> QED
    BY <2>1 DEF Start
<1>3. StartsInWaves' /\ \A i \in DOMAIN starts' : starts'[i].at <= now'
  BY <1>1, <1>2 DEF WavesInv, StartsInWaves
<1>4. CASE TasksDone
  <2>1. phase = "tasks" /\ phase' = "timer" /\ waveEnd' = now + Gap /\ UNCHANGED <<now, turn>>
    BY <1>4 DEF TasksDone
  <2>2. PausedSince(NumShards, waveEnd)'
    <3>1. \A i \in DOMAIN starts : starts[i].at + Gap <= now + Gap
      BY <1>1, <1>2 DEF WavesInv
    <3> QED
      BY <2>1, <3>1 DEF PausedSince
  <2>3. waveEnd' \in Nat
    BY <1>1, <2>1
  <2> QED
    BY <1>3, <2>1, <2>2, <2>3 DEF WavesInv
<1>5. CASE UNCHANGED starting /\ phase = "hello"
  <2>1. PICK m \in 0..(turn - 1) :
            m % MaxConcurrency = 0 /\ turn - 1 < m + MaxConcurrency /\ PausedSince(m, now)
    BY <1>5 DEF WavesInv
  <2>2. PausedSince(m, now)'
    <3>1. \A i \in DOMAIN starts :
              starts[i].by = "start" /\ starts[i].shard <= m => starts[i].at + Gap <= now'
      BY <1>1, <1>2, <2>1 DEF PausedSince
    <3> QED
      BY <3>1 DEF PausedSince
  <2> QED
    BY <1>3, <1>5, <2>1, <2>2 DEF WavesInv, starting
<1>6. CASE UNCHANGED starting /\ phase # "hello"
  <2>1. phase = "timer" => PausedSince(NumShards, waveEnd)'
    BY <1>6 DEF WavesInv, PausedSince, starting
  <2> QED
    BY <1>3, <1>6, <2>1 DEF WavesInv, starting
<1> QED
  BY <1>4, <1>5, <1>6

(* However late a HELLO comes and however long the frames take, two shards   *)
(* that are MaxConcurrency apart start at least the pause apart, for any     *)
(* number of shards and any MaxConcurrency.                                  *)
THEOREM StartsInWavesAlways == Spec => []StartsInWaves
<1> USE ClientAssumption
<1>1. Init => WavesInv
  <2> SUFFICES ASSUME Init PROVE WavesInv
    OBVIOUS
  <2>1. 0 % MaxConcurrency = 0
    OBVIOUS
  <2>2. StartsInWaves /\ \A m, t : PausedSince(m, t)
    BY DEF Init, StartsInWaves, PausedSince
  <2>3. \E m \in 0..(turn - 1) :
            m % MaxConcurrency = 0 /\ turn - 1 < m + MaxConcurrency /\ PausedSince(m, now)
    BY <2>1, <2>2 DEF Init
  <2> QED
    BY <2>2, <2>3, StartsAtFirst DEF Init, WavesInv
<1>2. WavesInv /\ [Next]_vars => WavesInv'
  <2> SUFFICES ASSUME WavesInv, [Next]_vars PROVE WavesInv'
    OBVIOUS
  <2>1. StartsInv /\ StartsInv'
    BY StartsInductive DEF WavesInv
  <2>2. CASE Identify
    BY <2>1, <2>2, IdentifyKeepsWaves
  <2>3. CASE NextWave
    BY <2>1, <2>3, NextWaveKeepsWaves
  <2>4. ASSUME NEW w \in waits, IdentifyAgain(w) PROVE WavesInv'
    BY <2>1, <2>4, QueuedKeepsWaves DEF IdentifyAgain
  <2>5. CASE TasksDone
    BY <2>1, <2>5, NoStartKeepsWaves DEF TasksDone
  <2>6. CASE Tick \/ \E s \in Shards : Written(s) \/ Hello(s) \/ Invalidate(s)
    BY <2>1, <2>6, NoStartKeepsWaves DEF Tick, Written, Hello, Invalidate
  <2>7. CASE \E w \in waits : QueueToIdentify(w)
    BY <2>1, <2>7, NoStartKeepsWaves DEF QueueToIdentify
  <2>8. CASE \E c \in Callers : SleepTill(c) \/ \E t \in Deadlines : RateLimitGlobal(c, t)
    BY <2>1, <2>8, NoStartKeepsWaves DEF SleepTill, RateLimitGlobal
  <2>9. CASE UNCHANGED vars
    BY <2>1, <2>9, NoStartKeepsWaves DEF vars
  <2> QED
    BY <2>2, <2>3, <2>4, <2>5, <2>6, <2>7, <2>8, <2>9 DEF Next, DoIdentifies
<1>3. WavesInv => StartsInWaves
  BY DEF WavesInv
<1> QED
  BY <1>1, <1>2, <1>3, PTL DEF Spec
=============================================================================
