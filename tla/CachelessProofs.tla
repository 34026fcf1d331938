--------------------------- MODULE CachelessProofs ---------------------------
(* Theorems about the parts of the cacheless library that keep state:        *)
(* CachelessHttp, for any requests, buckets and limits, CachelessGateway,    *)
(* for any shards, pauses and failures, and CachelessEvents; and about the   *)
(* objects of both libraries, for any number of updates.                     *)
EXTENDS MCCacheless, FiniteSetTheorems, SequenceTheorems, WellFoundedInduction, TLAPS

Typed ==
    /\ bucket \in [Requests -> Buckets]
    /\ now \in 0..MaxTime /\ wake \in 0..MaxTime /\ limits \in Nat
    /\ queue \in Seq(Requests)
    /\ phase \in {"connect", "dead", "pop", "waiting", "check", "write", "read", "sleep",
                 "done", "notify"}
    /\ cur \in Requests \cup {NoRequest}
    /\ (cur = NoRequest) <=> phase \in {"connect", "dead", "pop", "waiting"}
    /\ entries \in Seq(Entry)
    /\ timers \subseteq [at : 0..MaxTime, no : Nat] /\ IsFiniteSet(timers)
    /\ \A t \in timers : t.no < limits
    /\ releasing \subseteq Seq(Requests) \ {<<>>}
    /\ executed \in [Requests -> Nat]
    /\ co \in [Requests -> {"new", "sent", "checked", "parked", "posted", "resumed"}]

(* As many entries as timers have come due by x, and they are the first.     *)
(* It is not so for an x in the past: there may be a timer that is late.     *)
Due(x) == {t \in timers : t.at <= x}
Punctual ==
    \A x \in Nat : x >= now =>
        /\ Cardinality(Due(x)) \in Nat /\ Cardinality(Due(x)) <= Len(entries)
        /\ \A i \in DOMAIN entries : entries[i].until <= x <=> i <= Cardinality(Due(x))

LimitsInv == Typed /\ Punctual

(* A sequence of entries with one more. *)
LEMMA Inserted ==
    ASSUME NEW s \in Seq(Entry), NEW e \in Entry, NEW p \in 1..(Len(s) + 1)
    PROVE  /\ InsertAt(s, p, e) \in Seq(Entry) /\ Len(InsertAt(s, p, e)) = Len(s) + 1
           /\ \A i \in 1..(p - 1) : InsertAt(s, p, e)[i] = s[i]
           /\ InsertAt(s, p, e)[p] = e
           /\ \A i \in (p + 1)..(Len(s) + 1) : InsertAt(s, p, e)[i] = s[i - 1]
<1> DEFINE a == SubSeq(s, 1, p - 1)
           z == SubSeq(s, p, Len(s))
<1>0. Len(s) \in Nat /\ p \in Nat
  OBVIOUS
<1>1. /\ a \in Seq(Entry) /\ Len(a) = p - 1 /\ \A i \in 1..(p - 1) : a[i] = s[i]
  OBVIOUS
<1>2. /\ z \in Seq(Entry) /\ Len(z) = Len(s) + 1 - p
      /\ \A i \in 1..(Len(s) + 1 - p) : z[i] = s[p + i - 1]
  OBVIOUS
<1>3. InsertAt(s, p, e) = (a \o <<e>>) \o z
  BY DEF InsertAt
<1> HIDE DEF a, z
<1>4. /\ a \o <<e>> \in Seq(Entry) /\ Len(a \o <<e>>) = p /\ (a \o <<e>>)[p] = e
      /\ \A i \in 1..(p - 1) : (a \o <<e>>)[i] = s[i]
  BY <1>1
<1>5. PICK b, c : b = a \o <<e>> /\ c = b \o z
  OBVIOUS
<1>6. b \in Seq(Entry) /\ Len(b) = p /\ b[p] = e /\ \A i \in 1..(p - 1) : b[i] = s[i]
  BY <1>4, <1>5, Zenon
<1>7. /\ c \in Seq(Entry) /\ Len(c) = Len(s) + 1
      /\ \A i \in 1..p : c[i] = b[i]
      /\ \A i \in (p + 1)..(Len(s) + 1) : c[i] = z[i - p]
  <2>1. Len(b) + Len(z) = Len(s) + 1
    BY <1>0, <1>2, <1>6
  <2>2. /\ b \o z \in Seq(Entry) /\ Len(b \o z) = Len(b) + Len(z)
        /\ \A i \in 1..(Len(b) + Len(z)) :
              (b \o z)[i] = IF i <= Len(b) THEN b[i] ELSE z[i - Len(b)]
    BY <1>2, <1>6, ConcatProperties, Zenon
  <2>3. /\ c \in Seq(Entry) /\ Len(c) = Len(b) + Len(z)
        /\ \A i \in 1..(Len(b) + Len(z)) : c[i] = IF i <= Len(b) THEN b[i] ELSE z[i - Len(b)]
    BY <1>5, <2>2, Zenon
  <2> QED
    BY <1>0, <1>6, <2>1, <2>3
<1>8. \A i \in (p + 1)..(Len(s) + 1) : c[i] = s[i - 1]
  <2> SUFFICES ASSUME NEW i \in (p + 1)..(Len(s) + 1) PROVE c[i] = s[i - 1]
    OBVIOUS
  <2>1. i - p \in 1..(Len(s) + 1 - p) /\ p + (i - p) - 1 = i - 1
    BY <1>0
  <2> QED
    BY <1>2, <1>7, <2>1
<1>9. InsertAt(s, p, e) = c
  BY <1>3, <1>5, Zenon
<1>10. c[p] = e /\ \A i \in 1..(p - 1) : c[i] = s[i]
  BY <1>0, <1>6, <1>7
<1> QED
  BY <1>7, <1>8, <1>9, <1>10, Zenon

(* rate_limit_id keeps the order of the entries and of the timers one.       *)
LEMMA Limited ==
    ASSUME LimitsInv, cur \in Requests, NEW t \in 0..MaxTime, t >= now, NEW rs \in Seq(Requests),
           RateLimitId(t, rs), limits' = limits + 1, now' = now
    PROVE  /\ \E p \in 1..(Len(entries) + 1) :
                  /\ Len(entries') = Len(entries) + 1
                  /\ entries'[p].requests = rs
                  /\ \A i \in 1..(Len(entries) + 1) :
                        i # p => entries'[i] = entries[IF i < p THEN i ELSE i - 1]
           /\ entries' \in Seq(Entry)
           /\ timers' \subseteq [at : 0..MaxTime, no : Nat] /\ IsFiniteSet(timers')
           /\ \A u \in timers' : u.no < limits'
           /\ Punctual'
<1> USE CachelessHttpAssumption
<1> DEFINE made == [id |-> bucket[cur], until |-> t, requests |-> rs]
           u == [at |-> t, no |-> limits]
           k == Cardinality(Due(t))
           n == Len(entries)
<1>1. made \in Entry /\ made.until = t /\ made.requests = rs
  BY DEF Entry, LimitsInv, Typed
<1>2. u \in [at : 0..MaxTime, no : Nat] /\ u.at = t /\ u.no = limits /\ u \notin timers
  BY DEF LimitsInv, Typed
<1>3. k \in 0..n /\ n \in Nat /\ t \in Nat /\ DOMAIN entries = 1..n
      /\ \A i \in 1..n : entries[i].until <= t <=> i <= k
  <2>1. n \in Nat /\ t \in Nat /\ DOMAIN entries = 1..n
    BY DEF LimitsInv, Typed
  <2>2. k \in Nat /\ k <= n /\ \A i \in DOMAIN entries : entries[i].until <= t <=> i <= k
    BY <2>1 DEF LimitsInv, Punctual
  <2> QED
    BY <2>1, <2>2
<1>4. 1 + Cardinality({i \in DOMAIN entries : entries[i].until <= t}) = k + 1
  <2> HIDE DEF k, n
  <2>1. {i \in DOMAIN entries : entries[i].until <= t} = 1..k
    BY <1>3
  <2>2. Cardinality(1..k) = k
    BY <1>3, FS_Interval
  <2>3. k + 1 = 1 + k
    BY <1>3
  <2> QED
    BY <2>1, <2>2, <2>3
<1>5. /\ entries' = InsertAt(entries, k + 1, made) /\ timers' = timers \cup {u}
  BY <1>1, <1>4 DEF RateLimitId, InsertSorted
<1> HIDE DEF made, u, k, n
<1>6. /\ entries' \in Seq(Entry) /\ Len(entries') = n + 1 /\ DOMAIN entries' = 1..(n + 1)
      /\ \A i \in 1..(n + 1) :
            entries'[i] = IF i < k + 1 THEN entries[i]
                          ELSE IF i = k + 1 THEN made ELSE entries[i - 1]
  <2>1. entries \in Seq(Entry) /\ n = Len(entries) /\ k + 1 \in 1..(n + 1)
    BY <1>3 DEF LimitsInv, Typed, n
  <2>2. k + 1 \in 1..(Len(entries) + 1)
    BY <2>1
  <2>3. PICK pos, c : pos = k + 1 /\ c = InsertAt(entries, pos, made)
    OBVIOUS
  <2>4. /\ c \in Seq(Entry) /\ Len(c) = Len(entries) + 1 /\ c[pos] = made
        /\ \A i \in 1..(pos - 1) : c[i] = entries[i]
        /\ \A i \in (pos + 1)..(Len(entries) + 1) : c[i] = entries[i - 1]
    <3>1. entries \in Seq(Entry) /\ made \in Entry /\ pos \in 1..(Len(entries) + 1)
      BY <1>1, <2>1, <2>2, <2>3, Zenon
    <3>2. c = InsertAt(entries, pos, made)
      BY <2>3
    <3> HIDE <2>3
    <3>3. /\ InsertAt(entries, pos, made) \in Seq(Entry)
          /\ Len(InsertAt(entries, pos, made)) = Len(entries) + 1
          /\ \A i \in 1..(pos - 1) : InsertAt(entries, pos, made)[i] = entries[i]
          /\ InsertAt(entries, pos, made)[pos] = made
          /\ \A i \in (pos + 1)..(Len(entries) + 1) :
                InsertAt(entries, pos, made)[i] = entries[i - 1]
      BY <3>1, Inserted
    <3> QED
      BY <3>2, <3>3, Zenon
  <2>5. entries' = c
    BY <1>5, <2>3, Zenon
  <2> QED
    BY <1>3, <2>1, <2>3, <2>4, <2>5
<1>7. /\ timers' \subseteq [at : 0..MaxTime, no : Nat] /\ IsFiniteSet(timers')
      /\ \A v \in timers' : v.no < limits'
  <2>1. IsFiniteSet(timers')
    BY <1>5, FS_AddElement DEF LimitsInv, Typed
  <2>2. \A v \in timers : v.no \in Nat
    BY DEF LimitsInv, Typed
  <2> QED
    BY <1>2, <1>5, <2>1, <2>2 DEF LimitsInv, Typed
<1>8. ASSUME NEW x \in Nat, x >= now
      PROVE  /\ Cardinality(Due(x)') \in Nat /\ Cardinality(Due(x)') <= n + 1
             /\ \A i \in 1..(n + 1) : entries'[i].until <= x <=> i <= Cardinality(Due(x)')
  <2> DEFINE m == Cardinality(Due(x))
  <2>1. m \in 0..n /\ \A i \in 1..n : entries[i].until <= x <=> i <= m
    BY <1>3, <1>8 DEF LimitsInv, Punctual, n
  <2>2. \A i \in 1..n : entries[i].until \in Nat
    <3>1. \A i \in 1..n : entries[i] \in Entry
      BY <1>3 DEF LimitsInv, Typed, n
    <3> QED
      BY <3>1 DEF Entry
  <2>3. CASE t <= x
    <3>1. Due(x)' = Due(x) \cup {u} /\ u \notin Due(x)
      BY <1>2, <1>5, <2>3 DEF Due
    <3>2. IsFiniteSet(Due(x))
      BY FS_Subset DEF Due, LimitsInv, Typed
    <3>3. Cardinality(Due(x)') = m + 1
      BY <3>1, <3>2, FS_AddElement
    <3> HIDE DEF m
    <3>4. k <= m
      BY <1>3, <2>1, <2>2, <2>3
    <3>5. \A i \in 1..(n + 1) : entries'[i].until <= x <=> i <= m + 1
      <4> SUFFICES ASSUME NEW i \in 1..(n + 1) PROVE entries'[i].until <= x <=> i <= m + 1
        OBVIOUS
      <4>1. CASE i < k + 1
        BY <1>3, <1>6, <2>1, <3>4, <4>1
      <4>2. CASE i = k + 1
        BY <1>1, <1>3, <1>6, <2>1, <2>3, <3>4, <4>2
      <4>3. CASE i > k + 1
        <5>1. i - 1 \in 1..n /\ entries'[i] = entries[i - 1]
          BY <1>3, <1>6, <4>3
        <5> QED
          BY <2>1, <5>1
      <4> QED
        BY <1>3, <4>1, <4>2, <4>3
    <3> QED
      BY <1>3, <2>1, <3>3, <3>5
  <2>4. CASE ~(t <= x)
    <3>1. Due(x)' = Due(x)
      BY <1>2, <1>5, <2>4 DEF Due
    <3>2. Cardinality(Due(x)') = m
      BY <3>1
    <3> HIDE DEF m
    <3>3. m <= k
      <4>1. CASE m = 0
        BY <1>3, <4>1
      <4>2. CASE m # 0
        <5>1. m \in 1..n /\ entries[m].until <= x /\ entries[m].until \in Nat
          BY <1>3, <2>1, <2>2, <4>2
        <5>2. entries[m].until <= t
          BY <1>3, <1>8, <2>4, <5>1
        <5> QED
          BY <1>3, <5>1, <5>2
      <4> QED
        BY <4>1, <4>2
    <3>4. \A i \in 1..(n + 1) : entries'[i].until <= x <=> i <= m
      <4> SUFFICES ASSUME NEW i \in 1..(n + 1) PROVE entries'[i].until <= x <=> i <= m
        OBVIOUS
      <4>1. CASE i < k + 1
        BY <1>3, <1>6, <2>1, <4>1
      <4>2. CASE i = k + 1
        BY <1>1, <1>3, <1>6, <2>1, <2>4, <3>3, <4>2
      <4>3. CASE i > k + 1
        <5>1. i - 1 \in 1..n /\ entries'[i] = entries[i - 1] /\ i - 1 > m
          BY <1>3, <1>6, <2>1, <3>3, <4>3
        <5> QED
          BY <2>1, <5>1
      <4> QED
        BY <1>3, <4>1, <4>2, <4>3
    <3> QED
      BY <1>3, <2>1, <3>2, <3>4
  <2> QED
    BY <2>3, <2>4
<1>9. Punctual'
  <2> SUFFICES ASSUME NEW x \in Nat, x >= now
               PROVE  /\ Cardinality(Due(x)') \in Nat /\ Cardinality(Due(x)') <= Len(entries')
                      /\ \A i \in DOMAIN entries' :
                             entries'[i].until <= x <=> i <= Cardinality(Due(x)')
    BY DEF Punctual
  <2> QED
    BY <1>6, <1>8
<1>10. k + 1 \in 1..(Len(entries) + 1) /\ entries'[k + 1].requests = rs
       /\ Len(entries') = Len(entries) + 1
       /\ \A i \in 1..(Len(entries) + 1) :
              i # k + 1 => entries'[i] = entries[IF i < k + 1 THEN i ELSE i - 1]
  <2>1. k + 1 \in 1..(n + 1) /\ Len(entries) = n
    BY <1>3 DEF n
  <2>2. entries'[k + 1] = made
    BY <1>6, <2>1
  <2>3. ASSUME NEW i \in 1..(n + 1), i # k + 1
        PROVE  entries'[i] = entries[IF i < k + 1 THEN i ELSE i - 1]
    BY <1>3, <1>6, <2>3
  <2> QED
    BY <1>1, <1>6, <2>1, <2>2, <2>3
<1> QED
  BY <1>6, <1>7, <1>9, <1>10

LEMMA PunctualUntouched ==
    ASSUME LimitsInv, UNCHANGED timers, now' >= now, now' \in Nat, Len(entries') = Len(entries),
           entries' \in Seq(Entry),
           \A i \in DOMAIN entries : entries'[i].until = entries[i].until
    PROVE  Punctual'
<1>1. DOMAIN entries' = DOMAIN entries
  BY DEF LimitsInv, Typed
<1>2. now \in Nat /\ \A x \in Nat : Due(x)' = Due(x)
  BY CachelessHttpAssumption DEF LimitsInv, Typed, Due
<1>3. \A x \in Nat : x >= now' => x >= now
  BY <1>2
<1> QED
  BY <1>1, <1>2, <1>3 DEF LimitsInv, Punctual

(* A finite set without one of its members has one member fewer.             *)
LEMMA OneFewer ==
    ASSUME NEW S, IsFiniteSet(S), NEW s \in S
    PROVE  /\ Cardinality(S) \in Nat /\ Cardinality(S) # 0
           /\ Cardinality(S \ {s}) = Cardinality(S) - 1
<1>1. Cardinality(S) \in Nat
  BY FS_CardinalityType
<1>2. S # {} /\ Cardinality(S) # 0
  BY FS_EmptySet, Zenon
<1>3. Cardinality(S \ {s}) = Cardinality(S) - 1
  BY FS_RemoveElement, Zenon
<1> QED
  BY <1>1, <1>2, <1>3

(* A timer that is due takes out the first entry, which is due as well.      *)
LEMMA FireKeeps ==
    ASSUME LimitsInv, NEW t \in timers, Fire(t)
    PROVE  LimitsInv' /\ entries # <<>> /\ Head(entries).until <= now
<1> USE CachelessHttpAssumption
<1>1. /\ t.at <= now /\ timers' = timers \ {t} /\ entries' = Tail(entries)
      /\ releasing' = releasing \cup ({entries[1].requests} \ {<<>>})
      /\ UNCHANGED <<bucket, now, queue, connection, executed, co>>
  BY DEF Fire
<1>2. now \in Nat /\ t \in Due(now) /\ \A x \in Nat : IsFiniteSet(Due(x))
  BY <1>1, FS_Subset DEF LimitsInv, Typed, Due
<1> DEFINE n == Len(entries)
           k(x) == Cardinality(Due(x))
<1>3. n \in Nat /\ DOMAIN entries = 1..n
  BY DEF LimitsInv, Typed
<1>4. \A x \in Nat :
        x >= now => k(x) \in 0..n /\ \A i \in 1..n : entries[i].until <= x <=> i <= k(x)
  BY <1>3 DEF LimitsInv, Punctual
<1>5. k(now) # 0
  BY <1>2, FS_EmptySet
<1>6. k(now) \in 1..n /\ 1 \in 1..n
  BY <1>2, <1>3, <1>4, <1>5
<1>7. entries # <<>> /\ Head(entries) = entries[1] /\ entries[1].until <= now
  BY <1>2, <1>3, <1>4, <1>6
<1>8. entries \in Seq(Entry) /\ entries[1] \in Entry
  BY <1>3, <1>6 DEF LimitsInv, Typed
<1>9. /\ entries' \in Seq(Entry) /\ Len(entries') = n - 1 /\ DOMAIN entries' = 1..(n - 1)
      /\ \A i \in 1..(n - 1) : entries'[i] = entries[i + 1]
  BY <1>1, <1>7, <1>8
<1>10. ASSUME NEW x \in Nat, x >= now
       PROVE  /\ Cardinality(Due(x)') \in Nat /\ Cardinality(Due(x)') <= n - 1
              /\ \A i \in 1..(n - 1) : entries'[i].until <= x <=> i <= Cardinality(Due(x)')
  <2>1. t \in Due(x)
    <3>1. t.at \in Nat
      BY DEF LimitsInv, Typed
    <3> QED
      BY <1>1, <1>2, <1>10, <3>1 DEF Due
  <2>2. Due(x)' = Due(x) \ {t}
    BY <1>1 DEF Due
  <2>3. Cardinality(Due(x)') = k(x) - 1 /\ k(x) # 0
    <3>1. IsFiniteSet(Due(x))
      BY <1>2, <1>10
    <3>2. Cardinality(Due(x) \ {t}) = Cardinality(Due(x)) - 1 /\ Cardinality(Due(x)) # 0
      BY <2>1, <3>1, OneFewer, Zenon
    <3> QED
      BY <2>2, <3>2, Zenon
  <2>4. k(x) \in 1..n /\ \A i \in 1..n : entries[i].until <= x <=> i <= k(x)
    BY <1>3, <1>4, <1>10, <2>3
  <2> HIDE DEF k, n
  <2>5. \A i \in 1..(n - 1) : i + 1 \in 1..n /\ (i + 1 <= k(x) <=> i <= k(x) - 1)
    BY <1>3, <2>4
  <2>6. ASSUME NEW i \in 1..(n - 1) PROVE entries'[i].until <= x <=> i <= k(x) - 1
    <3>1. i + 1 \in 1..n /\ entries'[i] = entries[i + 1]
      BY <1>9, <2>5
    <3> QED
      BY <2>4, <2>5, <3>1
  <2> QED
    BY <1>3, <2>3, <2>4, <2>6
<1>11. Punctual'
  BY <1>1, <1>9, <1>10 DEF Punctual
<1>12. Typed'
  <2>1. IsFiniteSet(timers')
    BY <1>1, FS_RemoveElement DEF LimitsInv, Typed
  <2>2. entries[1].requests \in Seq(Requests)
    BY <1>8 DEF Entry
  <2> QED
    BY <1>1, <1>9, <2>1, <2>2 DEF LimitsInv, Typed, connection
<1> QED
  BY <1>7, <1>11, <1>12 DEF LimitsInv

(* What a step that shortens the entries may do. *)
ReleasesDue == entries # <<>> /\ Len(entries') < Len(entries) => Head(entries).until <= now

(* A request goes to the consumer that waits, or into the queue. *)
LEMMA Pushed ==
    ASSUME LimitsInv, NEW r \in Requests, Push(r)
    PROVE  /\ queue' \in Seq(Requests) /\ cur' \in Requests \cup {NoRequest}
           /\ phase' \in {"connect", "dead", "pop", "waiting", "check", "write", "read",
                           "sleep", "done", "notify"}
           /\ (cur' = NoRequest) <=> phase' \in {"connect", "dead", "pop", "waiting"}
<1>1. queue \in Seq(Requests) /\ Append(queue, r) \in Seq(Requests) /\ r # NoRequest
  BY CachelessHttpAssumption DEF LimitsInv, Typed
<1>2. CASE phase = "waiting"
  BY <1>1, <1>2 DEF Push
<1>3. CASE phase # "waiting"
  BY <1>1, <1>3 DEF Push, LimitsInv, Typed
<1> QED
  BY <1>2, <1>3

LEMMA LimitsInductive == LimitsInv /\ [Next]_vars => LimitsInv' /\ ReleasesDue
<1> SUFFICES ASSUME LimitsInv, [Next]_vars PROVE LimitsInv' /\ ReleasesDue
  OBVIOUS
<1> USE CachelessHttpAssumption
<1>0. /\ MaxTime \in Nat /\ now \in Nat /\ entries \in Seq(Entry) /\ Len(entries) \in Nat
      /\ \A d \in Delays : now + d <= MaxTime => now + d \in 0..MaxTime /\ now + d >= now
  BY DEF LimitsInv, Typed
<1>1. ASSUME UNCHANGED <<entries, timers>>, now' >= now, now' \in Nat, Typed'
      PROVE  LimitsInv' /\ ReleasesDue
  BY <1>0, <1>1, PunctualUntouched DEF LimitsInv, ReleasesDue
<1>2. CASE Tick
  <2>1. now' = now + 1 /\ now + 1 <= MaxTime
    <3>1. wake > now \/ \E t \in timers : t.at > now
      BY <1>2 DEF Tick
    <3>2. wake \in 0..MaxTime /\ \A t \in timers : t.at \in 0..MaxTime
      BY DEF LimitsInv, Typed
    <3> QED
      BY <1>0, <1>2, <3>1, <3>2 DEF Tick
  <2>2. Typed'
    BY <1>0, <1>2, <2>1 DEF Tick, LimitsInv, Typed, connection, limited
  <2> QED
    BY <1>0, <1>1, <1>2, <2>1, <2>2 DEF Tick, limited
<1>3. CASE Break \/ (\E r \in Requests : Await(r) \/ Suspend(r) \/ Resume(r))
           \/ Connect \/ Pop \/ Write \/ WriteThrows \/ Unreadable \/ ReadFails
           \/ Wake \/ SetDone \/ Notify \/ UNCHANGED vars
  <2>1. UNCHANGED <<now, entries, timers>>
    BY <1>3 DEF Break, Await, Suspend, Resume, Connect, Pop, Write, WriteThrows, Unreadable,
                ReadFails, Wake, SetDone, Notify, connection, limited, vars
  <2>2. CASE Break \/ (\E r \in Requests : Await(r) \/ Suspend(r) \/ Resume(r))
             \/ UNCHANGED vars
    <3>1. Typed'
      BY <2>2 DEF Break, Await, Suspend, Resume, connection, limited, vars, LimitsInv, Typed
    <3> QED
      BY <1>0, <1>1, <2>1, <3>1
  <2>3. CASE Pop
    <3>1. queue \in Seq(Requests)
      BY DEF LimitsInv, Typed
    <3>2. queue # <<>> => Head(queue) \in Requests /\ Tail(queue) \in Seq(Requests)
      BY <3>1
    <3>3. Typed'
      BY <2>3, <3>2 DEF Pop, limited, LimitsInv, Typed
    <3> QED
      BY <1>0, <1>1, <2>1, <3>3
  <2>4. CASE Write \/ Wake \/ SetDone
    <3>1. CASE Write
      <4>1. Typed'
        BY <3>1, SMTT(30) DEF Write, limited, LimitsInv, Typed
      <4> QED
        BY <1>0, <1>1, <2>1, <4>1
    <3>2. CASE Wake
      BY <1>0, <1>1, <2>1, <3>2 DEF Wake, limited, LimitsInv, Typed
    <3>3. CASE SetDone
      BY <1>0, <1>1, <2>1, <3>3 DEF SetDone, limited, LimitsInv, Typed
    <3> QED
      BY <2>4, <3>1, <3>2, <3>3
  <2>5. CASE ReadFails
    <3>1. cur \in Requests /\ executed \in [Requests -> Nat]
      BY <2>5 DEF ReadFails, LimitsInv, Typed
    <3>2. executed' \in [Requests -> Nat]
      BY <2>5, <3>1 DEF ReadFails
    <3>3. /\ phase' = "done"
          /\ UNCHANGED <<bucket, now, queue, cur, wake, limits, limited, releasing, co>>
      BY <2>5 DEF ReadFails
    <3>4. Typed'
      BY <3>1, <3>2, <3>3 DEF limited, LimitsInv, Typed
    <3> QED
      BY <1>0, <1>1, <2>1, <3>4
  <2>6. CASE Notify
    <3>1. Typed'
      BY <2>6 DEF Notify, limited, LimitsInv, Typed
    <3> QED
      BY <1>0, <1>1, <2>1, <3>1
  <2>7. CASE Connect
    <3>1. phase = "connect" /\ phase' \in {"pop", "dead"} /\ cur' = cur
      BY <2>7 DEF Connect
    <3>2. Typed'
      BY <2>7, <3>1 DEF Connect, limited, LimitsInv, Typed
    <3> QED
      BY <1>0, <1>1, <2>1, <3>2
  <2>8. CASE WriteThrows \/ Unreadable
    <3>1. /\ phase' = "dead" /\ cur' = NoRequest
          /\ UNCHANGED <<bucket, now, queue, wake, limits, limited, releasing, executed, co>>
      BY <2>8 DEF WriteThrows, Unreadable, Throw
    <3>2. Typed'
      BY <3>1 DEF limited, LimitsInv, Typed
    <3> QED
      BY <1>0, <1>1, <2>1, <3>2
  <2> QED
    BY <1>3, <2>2, <2>3, <2>4, <2>5, <2>6, <2>7, <2>8
<1>4. ASSUME NEW r \in Requests, Send(r) PROVE LimitsInv' /\ ReleasesDue
  <2>1. UNCHANGED <<now, entries, timers>>
    BY <1>4 DEF Send, limited
  <2>2. Push(r)
    BY <1>4 DEF Send
  <2>3. Typed'
    BY <1>4, <2>2, Pushed DEF Send, limited, LimitsInv, Typed
  <2> QED
    BY <1>0, <1>1, <2>1, <2>3
<1>5. ASSUME NEW rs \in releasing, Resend(rs) PROVE LimitsInv' /\ ReleasesDue
  <2>1. UNCHANGED <<now, entries, timers>>
    BY <1>5 DEF Resend, limited
  <2>2. rs \in Seq(Requests) /\ rs # <<>> /\ Head(rs) \in Requests /\ Tail(rs) \in Seq(Requests)
    BY DEF LimitsInv, Typed
  <2>3. Push(Head(rs)) /\ releasing' = (releasing \ {rs}) \cup ({Tail(rs)} \ {<<>>})
    BY <1>5 DEF Resend
  <2>4. Typed'
    BY <1>5, <2>2, <2>3, Pushed DEF Resend, limited, LimitsInv, Typed
  <2> QED
    BY <1>0, <1>1, <2>1, <2>4
<1>6. CASE CheckRateLimit
  <2>1. CASE EntryOf(bucket[cur]) = {}
    <3>1. UNCHANGED <<now, entries, timers>>
      BY <1>6, <2>1 DEF CheckRateLimit
    <3>2. Typed'
      BY <1>6, <2>1 DEF CheckRateLimit, LimitsInv, Typed
    <3> QED
      BY <1>0, <1>1, <3>1, <3>2
  <2>2. CASE EntryOf(bucket[cur]) # {}
    <3>1. PICK i \in DOMAIN entries :
              /\ entries' = [entries EXCEPT ![i].requests = Append(@, cur)]
              /\ phase' = "pop" /\ cur' = NoRequest
      BY <1>6, <2>2 DEF CheckRateLimit, EntryOf
    <3>2. UNCHANGED <<bucket, now, queue, wake, limits, timers, releasing, executed, co>>
      BY <1>6 DEF CheckRateLimit
    <3>3. cur \in Requests
      BY <1>6 DEF CheckRateLimit, LimitsInv, Typed
    <3>4. PICK e : e = [entries[i] EXCEPT !.requests = Append(@, cur)]
      OBVIOUS
    <3>5. entries[i] \in Entry
      BY <1>0
    <3>6. e \in Entry /\ e.until = entries[i].until
      <4>1. Append(entries[i].requests, cur) \in Seq(Requests)
        BY <3>3, <3>5 DEF Entry
      <4> QED
        BY <3>4, <3>5, <4>1 DEF Entry
    <3>7. entries' = [entries EXCEPT ![i] = e]
      BY <3>1, <3>4
    <3>8. entries' \in Seq(Entry) /\ Len(entries') = Len(entries)
          /\ \A j \in DOMAIN entries : entries'[j].until = entries[j].until
      BY <1>0, <3>6, <3>7
    <3>9. Typed' /\ now' \in Nat /\ now' >= now
      BY <1>0, <3>1, <3>2, <3>8 DEF LimitsInv, Typed
    <3> QED
      BY <1>0, <3>2, <3>8, <3>9, PunctualUntouched DEF LimitsInv, ReleasesDue
  <2> QED
    BY <2>1, <2>2
<1>7. ASSUME NEW final \in BOOLEAN, Answered(final) PROVE LimitsInv' /\ ReleasesDue
  <2>1. cur \in Requests /\ executed' = [executed EXCEPT ![cur] = @ + 1] /\ phase' = "done"
        /\ UNCHANGED <<bucket, now, queue, cur, wake, releasing, co>>
    BY <1>7 DEF Answered, LimitsInv, Typed
  <2>2. CASE UNCHANGED <<limits, limited>>
    <3>1. Typed'
      <4>1. executed' \in [Requests -> Nat]
        BY <2>1 DEF LimitsInv, Typed
      <4>2. limits' = limits /\ entries' = entries /\ timers' = timers
        BY <2>2 DEF limited
      <4> QED
        BY <2>1, <4>1, <4>2 DEF LimitsInv, Typed
    <3> QED
      BY <1>0, <1>1, <2>1, <2>2, <3>1 DEF limited
  <2>3. ASSUME NEW d \in Delays, now + d <= MaxTime, RateLimitId(now + d, <<>>),
               limits' = limits + 1
        PROVE  LimitsInv' /\ ReleasesDue
    <3>1. now + d \in 0..MaxTime /\ now + d >= now /\ <<>> \in Seq(Requests) /\ now' = now
      BY <1>0, <2>1, <2>3
    <3>2. /\ Len(entries') = Len(entries) + 1 /\ entries' \in Seq(Entry)
          /\ timers' \subseteq [at : 0..MaxTime, no : Nat] /\ IsFiniteSet(timers')
          /\ \A u \in timers' : u.no < limits'
          /\ Punctual'
      BY <2>1, <2>3, <3>1, Limited
    <3>3. Typed'
      <4>1. limits' \in Nat /\ executed' \in [Requests -> Nat]
        BY <2>1, <2>3 DEF LimitsInv, Typed
      <4> QED
        BY <2>1, <3>1, <3>2, <4>1 DEF LimitsInv, Typed
    <3> QED
      BY <1>0, <3>2, <3>3 DEF LimitsInv, ReleasesDue
  <2> QED
    BY <1>7, <2>2, <2>3 DEF Answered
<1>8. ASSUME NEW d \in Delays, now + d <= MaxTime, Refused(now + d) PROVE LimitsInv' /\ ReleasesDue
  <2>1. cur \in Requests /\ phase' = "pop" /\ cur' = NoRequest /\ limits' = limits + 1
        /\ UNCHANGED <<bucket, now, queue, wake, releasing, executed, co>>
        /\ RateLimitId(now + d, <<cur>>)
    BY <1>8 DEF Refused, LimitsInv, Typed
  <2>2. now + d \in 0..MaxTime /\ now + d >= now /\ <<cur>> \in Seq(Requests) /\ now' = now
    BY <1>0, <1>8, <2>1
  <2>3. /\ Len(entries') = Len(entries) + 1 /\ entries' \in Seq(Entry)
        /\ timers' \subseteq [at : 0..MaxTime, no : Nat] /\ IsFiniteSet(timers')
        /\ \A u \in timers' : u.no < limits'
        /\ Punctual'
    BY <2>1, <2>2, Limited
  <2>4. Typed'
    <3>1. limits' \in Nat
      BY <2>1 DEF LimitsInv, Typed
    <3> QED
      BY <2>1, <2>3, <3>1 DEF LimitsInv, Typed
  <2> QED
    BY <1>0, <2>3, <2>4 DEF LimitsInv, ReleasesDue
<1>9. ASSUME NEW d \in Delays, now + d <= MaxTime, RefusedGlobally(now + d)
      PROVE  LimitsInv' /\ ReleasesDue
  <2>1. Typed' /\ UNCHANGED <<now, limited>>
    <3>1. /\ phase = "read" /\ phase' = "sleep" /\ limits' = limits + 1 /\ wake' = now + d
          /\ UNCHANGED <<bucket, now, queue, cur, entries, timers, releasing, executed, co>>
      BY <1>9 DEF RefusedGlobally, limited
    <3>2. limits' \in Nat /\ wake' \in 0..MaxTime
      BY <1>0, <1>9, <3>1 DEF LimitsInv, Typed
    <3>3. \A u \in timers' : u.no < limits'
      <4>1. limits \in Nat /\ \A u \in timers : u.no \in Nat /\ u.no < limits
        BY DEF LimitsInv, Typed
      <4> QED
        BY <3>1, <4>1
    <3>4. Typed'
      BY <3>1, <3>2, <3>3, SMTT(30) DEF LimitsInv, Typed
    <3> QED
      BY <3>1, <3>4 DEF limited
  <2> QED
    BY <1>0, <1>1, <2>1 DEF limited
<1>10. ASSUME NEW t \in timers, Fire(t) PROVE LimitsInv' /\ ReleasesDue
  BY <1>10, FireKeeps DEF ReleasesDue
<1> QED
  BY <1>2, <1>3, <1>4, <1>5, <1>6, <1>7, <1>8, <1>9, <1>10 DEF Next, Sending, Coroutine

LEMMA LimitsAtFirst == Init => LimitsInv
<1> SUFFICES ASSUME Init PROVE LimitsInv
  OBVIOUS
<1>1. Typed
  BY CachelessHttpAssumption, FS_EmptySet DEF Init, Typed
<1>2. Punctual
  <2>1. \A x : Due(x) = {}
    BY DEF Init, Due
  <2>2. Cardinality({}) = 0 /\ entries = <<>>
    BY FS_EmptySet DEF Init
  <2> QED
    BY <2>1, <2>2 DEF Punctual
<1> QED
  BY <1>1, <1>2 DEF LimitsInv

(* Whatever timers overlap and however late they run, for any buckets and    *)
(* ends: the entry that goes is due.                                         *)
THEOREM NeverReleasedEarlyAlways == Spec => NeverReleasedEarly
<1>1. LimitsInv /\ [Next]_vars => [ReleasesDue]_vars
  BY LimitsInductive
<1> QED
  BY <1>1, LimitsAtFirst, LimitsInductive, PTL DEF Spec, NeverReleasedEarly, ReleasesDue
-----------------------------------------------------------------------------
Of(s) == {s[i] : i \in DOMAIN s}
Once(s) == \A i, j \in DOMAIN s : s[i] = s[j] => i = j

Queued(r) == r \in Of(queue)
Waits(r) == \E i \in DOMAIN entries : r \in Of(entries[i].requests)
Returning(r) == \E s \in releasing : r \in Of(s)
Somewhere(r) == Queued(r) \/ cur = r \/ Waits(r) \/ Returning(r)

WaitsOnce ==
    /\ \A i \in DOMAIN entries : Once(entries[i].requests)
    /\ \A r \in Requests : \A i, j \in DOMAIN entries :
          r \in Of(entries[i].requests) /\ r \in Of(entries[j].requests) => i = j

InOnePlace ==
    /\ Once(queue) /\ WaitsOnce /\ \A s \in releasing : Once(s)
    /\ \A r \in Requests :
        /\ Queued(r) => cur # r /\ ~Waits(r) /\ ~Returning(r)
        /\ cur = r => ~Waits(r) /\ ~Returning(r)
        /\ Waits(r) => ~Returning(r)
        /\ \A s, t \in releasing : r \in Of(s) /\ r \in Of(t) => s = t

(* A request that is still to be sent was not executed, and only the one in  *)
(* hand may have been answered.                                              *)
Answering == phase \in {"done", "notify"}
Counted ==
    \A r \in Requests :
        /\ executed[r] <= 1
        /\ Queued(r) \/ Waits(r) \/ Returning(r) => executed[r] = 0
        /\ cur = r /\ ~Answering => executed[r] = 0
        /\ co[r] = "new" => ~Somewhere(r) /\ executed[r] = 0

OnceInv == InOnePlace /\ Counted

(* Of sequences of requests. *)
LEMMA OnceAppend ==
    ASSUME NEW s \in Seq(Requests), NEW r \in Requests, Once(s), r \notin Of(s)
    PROVE  Once(Append(s, r)) /\ Of(Append(s, r)) = Of(s) \cup {r}
<1>1. /\ DOMAIN s = 1..Len(s) /\ Len(s) \in Nat /\ DOMAIN Append(s, r) = 1..(Len(s) + 1)
      /\ \A i \in 1..Len(s) : Append(s, r)[i] = s[i]
      /\ Append(s, r)[Len(s) + 1] = r
  OBVIOUS
<1>2. Once(Append(s, r))
  <2> SUFFICES ASSUME NEW i \in 1..(Len(s) + 1), NEW j \in 1..(Len(s) + 1),
                      Append(s, r)[i] = Append(s, r)[j]
               PROVE  i = j
    BY <1>1 DEF Once
  <2>1. CASE i \in 1..Len(s) /\ j \in 1..Len(s)
    BY <1>1, <2>1 DEF Once
  <2>2. CASE i = Len(s) + 1 \/ j = Len(s) + 1
    BY <1>1, <2>2 DEF Of
  <2> QED
    BY <1>1, <2>1, <2>2
<1>3. Of(Append(s, r)) = Of(s) \cup {r}
  <2>1. ASSUME NEW x \in Of(Append(s, r)) PROVE x \in Of(s) \cup {r}
    <3>1. PICK i \in 1..(Len(s) + 1) : Append(s, r)[i] = x
      BY <1>1, <2>1 DEF Of
    <3> QED
      BY <1>1, <3>1 DEF Of
  <2>2. Of(s) \subseteq Of(Append(s, r)) /\ r \in Of(Append(s, r))
    BY <1>1 DEF Of
  <2> QED
    BY <2>1, <2>2
<1> QED
  BY <1>2, <1>3

LEMMA OnceTail ==
    ASSUME NEW s \in Seq(Requests), s # <<>>, Once(s)
    PROVE  /\ Once(Tail(s)) /\ Head(s) \notin Of(Tail(s)) /\ Head(s) \in Requests
           /\ Of(s) = Of(Tail(s)) \cup {Head(s)}
<1>1. /\ DOMAIN s = 1..Len(s) /\ Len(s) \in Nat /\ Len(s) > 0
      /\ DOMAIN Tail(s) = 1..(Len(s) - 1) /\ Head(s) = s[1] /\ Head(s) \in Requests
      /\ \A i \in 1..(Len(s) - 1) : Tail(s)[i] = s[i + 1]
  OBVIOUS
<1>2. Once(Tail(s)) /\ Head(s) \notin Of(Tail(s))
  BY <1>1 DEF Once, Of
<1>3. ASSUME NEW x \in Of(s) PROVE x \in Of(Tail(s)) \cup {Head(s)}
  <2>1. PICK i \in 1..Len(s) : s[i] = x
    BY <1>1, <1>3 DEF Of
  <2>2. CASE i = 1
    BY <1>1, <2>1, <2>2
  <2>3. CASE i # 1
    <3>1. i - 1 \in 1..(Len(s) - 1) /\ Tail(s)[i - 1] = x
      BY <1>1, <2>1, <2>3
    <3> QED
      BY <1>1, <3>1 DEF Of
  <2> QED
    BY <2>2, <2>3
<1>4. Of(Tail(s)) \cup {Head(s)} \subseteq Of(s)
  BY <1>1 DEF Of
<1> QED
  BY <1>1, <1>2, <1>3, <1>4

LEMMA OnceSmall ==
    /\ Of(<<>>) = {} /\ Once(<<>>)
    /\ \A r \in Requests : Of(<<r>>) = {r} /\ Once(<<r>>)
BY DEF Of, Once

(* The steps that move no request. *)
LEMMA OnceUntouched ==
    ASSUME OnceInv, UNCHANGED <<queue, cur, entries, releasing, executed>>,
           \A r \in Requests : co'[r] = "new" => co[r] = "new",
           Answering => Answering'
    PROVE  OnceInv'
BY DEF OnceInv, InOnePlace, WaitsOnce, Counted, Somewhere, Queued, Waits, Returning

(* An entry is inserted with what waits in it. *)
LEMMA OnceInserted ==
    ASSUME LimitsInv, WaitsOnce, NEW rs \in Seq(Requests), Once(rs),
           \A r \in Of(rs) : ~Waits(r),
           NEW p \in 1..(Len(entries) + 1), Len(entries') = Len(entries) + 1,
           entries' \in Seq(Entry),
           entries'[p].requests = rs,
           \A i \in 1..(Len(entries) + 1) :
               i # p => entries'[i] = entries[IF i < p THEN i ELSE i - 1]
    PROVE  WaitsOnce' /\ \A r \in Requests : Waits(r)' <=> Waits(r) \/ r \in Of(rs)
<1> DEFINE n == Len(entries)
           old(i) == IF i < p THEN i ELSE i - 1
<1>1. n \in Nat /\ p \in 1..(n + 1) /\ DOMAIN entries = 1..n /\ DOMAIN entries' = 1..(n + 1)
  BY DEF LimitsInv, Typed
<1> HIDE DEF n
<1>2. \A i \in 1..(n + 1) : i # p => entries'[i] = entries[old(i)] /\ old(i) \in 1..n
  <2>1. \A i \in 1..(n + 1) : i # p => entries'[i] = entries[old(i)]
    BY DEF n
  <2>2. \A i \in 1..(n + 1) : i # p => old(i) \in 1..n
    BY <1>1
  <2> QED
    BY <2>1, <2>2
<1>3. \A i, j \in 1..(n + 1) : i # p /\ j # p /\ old(i) = old(j) => i = j
  BY <1>1
<1>4. \A k \in 1..n : \E i \in 1..(n + 1) : i # p /\ old(i) = k
  <2> SUFFICES ASSUME NEW k \in 1..n PROVE \E i \in 1..(n + 1) : i # p /\ old(i) = k
    OBVIOUS
  <2>1. CASE k < p
    <3>1. k \in 1..(n + 1) /\ k # p /\ old(k) = k
      BY <1>1, <2>1
    <3> QED
      BY <3>1
  <2>2. CASE k >= p
    <3>1. k + 1 \in 1..(n + 1) /\ k + 1 # p /\ old(k + 1) = k
      BY <1>1, <2>2
    <3> QED
      BY <3>1
  <2> QED
    BY <1>1, <2>1, <2>2
<1> HIDE DEF old
<1>5. \A i \in 1..(n + 1) : i # p => \A r \in Of(entries'[i].requests) : Waits(r)
  BY <1>1, <1>2 DEF Waits
<1>6. ASSUME NEW r \in Requests PROVE Waits(r)' <=> Waits(r) \/ r \in Of(rs)
  <2>1. ASSUME Waits(r)' PROVE Waits(r) \/ r \in Of(rs)
    BY <1>1, <1>5, <2>1 DEF Waits
  <2>2. ASSUME Waits(r) PROVE Waits(r)'
    <3>1. PICK k \in 1..n : r \in Of(entries[k].requests)
      BY <1>1, <2>2 DEF Waits
    <3>2. PICK i \in 1..(n + 1) : i # p /\ old(i) = k
      BY <1>4
    <3>3. r \in Of(entries'[i].requests)
      BY <1>2, <3>1, <3>2
    <3> QED
      BY <1>1, <3>3 DEF Waits
  <2>3. r \in Of(rs) => Waits(r)'
    BY <1>1 DEF Waits
  <2> QED
    BY <2>1, <2>2, <2>3
<1>7. \A i \in 1..(n + 1) : Once(entries'[i].requests)
  BY <1>1, <1>2 DEF WaitsOnce
<1>8. ASSUME NEW r \in Requests, NEW i \in 1..(n + 1), NEW j \in 1..(n + 1),
             r \in Of(entries'[i].requests), r \in Of(entries'[j].requests)
      PROVE  i = j
  <2>1. CASE i = p \/ j = p
    BY <1>5, <1>8, <2>1
  <2>2. CASE i # p /\ j # p
    <3>1. old(i) = old(j)
      BY <1>1, <1>2, <1>8, <2>2 DEF WaitsOnce
    <3> QED
      BY <1>3, <2>2, <3>1
  <2> QED
    BY <2>1, <2>2
<1> QED
  BY <1>1, <1>6, <1>7, <1>8 DEF WaitsOnce

(* A request that was nowhere, or in the hands of a timer, is pushed.        *)
LEMMA OncePushed ==
    ASSUME LimitsInv, Once(queue), NEW r \in Requests, Push(r), ~Queued(r), cur # r
    PROVE  /\ Once(queue')
           /\ \/ cur' = r /\ phase' = "check" /\ queue' = queue /\ cur = NoRequest
              \/ Of(queue') = Of(queue) \cup {r} /\ UNCHANGED <<cur, phase>>
<1>1. CASE phase = "waiting"
  BY <1>1 DEF Push, LimitsInv, Typed
<1>2. CASE phase # "waiting"
  <2>1. queue' = Append(queue, r) /\ UNCHANGED <<cur, phase>> /\ queue \in Seq(Requests)
    BY <1>2 DEF Push, LimitsInv, Typed
  <2> QED
    BY <2>1, OnceAppend DEF Queued
<1> QED
  BY <1>1, <1>2

LEMMA OnceSent == ASSUME LimitsInv, OnceInv, NEW r \in Requests, Send(r) PROVE OnceInv'
<1> USE CachelessHttpAssumption
<1>1. ~Somewhere(r) /\ executed[r] = 0
  BY DEF Send, OnceInv, Counted
<1>2. /\ Push(r) /\ co' = [co EXCEPT ![r] = "sent"] /\ UNCHANGED <<entries, releasing, executed>>
  BY DEF Send, limited
<1>3. /\ Once(queue')
      /\ \/ cur' = r /\ phase' = "check" /\ queue' = queue /\ cur = NoRequest
         \/ Of(queue') = Of(queue) \cup {r} /\ UNCHANGED <<cur, phase>>
  BY <1>1, <1>2, OncePushed DEF OnceInv, InOnePlace, Somewhere
<1>4. \A q \in Requests : (Waits(q)' <=> Waits(q)) /\ (Returning(q)' <=> Returning(q))
  BY <1>2 DEF Waits, Returning
<1>5. InOnePlace'
  BY <1>1, <1>2, <1>3, <1>4 DEF OnceInv, InOnePlace, WaitsOnce, Somewhere, Queued
<1>6. \A q \in Requests : co'[q] = "new" => co[q] = "new" /\ q # r
  BY <1>2 DEF LimitsInv, Typed
<1>7. \A q \in Requests : Queued(q)' \/ cur' = q => Queued(q) \/ cur = q \/ q = r
  BY <1>3 DEF Queued
<1>8. Counted'
  <2> SUFFICES ASSUME NEW q \in Requests
               PROVE  /\ executed[q] <= 1
                      /\ Queued(q)' \/ Waits(q)' \/ Returning(q)' => executed[q] = 0
                      /\ cur' = q /\ ~Answering' => executed[q] = 0
                      /\ co'[q] = "new" => ~Somewhere(q)' /\ executed[q] = 0
    BY <1>2 DEF Counted
  <2>1. Queued(q)' => Queued(q) \/ q = r
    BY <1>3 DEF Queued
  <2>2. cur' = q /\ ~Answering' => q = r \/ (cur = q /\ ~Answering)
    BY <1>3 DEF Answering
  <2> QED
    BY <1>1, <1>4, <1>6, <1>7, <2>1, <2>2 DEF OnceInv, Counted, Somewhere
<1> QED
  BY <1>5, <1>8 DEF OnceInv

LEMMA OnceResent == ASSUME LimitsInv, OnceInv, NEW s \in releasing, Resend(s) PROVE OnceInv'
<1> USE CachelessHttpAssumption
<1>1. s \in Seq(Requests) /\ s # <<>> /\ Once(s)
  BY DEF LimitsInv, Typed, OnceInv, InOnePlace
<1>2. PICK x, rest : x = Head(s) /\ rest = Tail(s)
  OBVIOUS
<1>3. x \in Requests /\ Once(rest) /\ x \notin Of(rest) /\ Of(s) = Of(rest) \cup {x}
  BY <1>1, <1>2, OnceTail
<1>4. /\ Push(x) /\ releasing' = (releasing \ {s}) \cup ({rest} \ {<<>>})
      /\ UNCHANGED <<entries, executed, co>>
  BY <1>2 DEF Resend, limited
<1>5. Returning(x) /\ ~Queued(x) /\ cur # x /\ ~Waits(x) /\ executed[x] = 0 /\ co[x] # "new"
  BY <1>3 DEF Returning, OnceInv, InOnePlace, Counted, Somewhere
<1>6. /\ Once(queue')
      /\ \/ cur' = x /\ phase' = "check" /\ queue' = queue /\ cur = NoRequest
         \/ Of(queue') = Of(queue) \cup {x} /\ UNCHANGED <<cur, phase>>
  BY <1>3, <1>4, <1>5, OncePushed DEF OnceInv, InOnePlace
<1>7. \A r \in Requests : Waits(r)' <=> Waits(r)
  BY <1>4 DEF Waits
<1>8. \A r \in Requests : Returning(r)' => Returning(r) /\ r # x
  <2> SUFFICES ASSUME NEW r \in Requests, NEW u \in releasing', r \in Of(u)
               PROVE  Returning(r) /\ r # x
    BY DEF Returning
  <2>1. CASE u \in releasing /\ u # s
    BY <1>3, <2>1 DEF Returning, OnceInv, InOnePlace
  <2>2. CASE u = rest
    BY <1>3, <2>2 DEF Returning
  <2> QED
    BY <1>4, <2>1, <2>2
<1>9. \A r \in Requests : \A u, v \in releasing' : r \in Of(u) /\ r \in Of(v) => u = v
  <2> SUFFICES ASSUME NEW r \in Requests, NEW u \in releasing', NEW v \in releasing',
                      r \in Of(u), r \in Of(v)
               PROVE  u = v
    OBVIOUS
  <2>1. CASE u = rest /\ v = rest
    BY <2>1
  <2>2. CASE u = rest /\ v \in releasing \ {s}
    BY <1>3, <2>2 DEF OnceInv, InOnePlace
  <2>3. CASE v = rest /\ u \in releasing \ {s}
    BY <1>3, <2>3 DEF OnceInv, InOnePlace
  <2>4. CASE u \in releasing /\ v \in releasing
    BY <2>4 DEF OnceInv, InOnePlace
  <2> QED
    BY <1>4, <2>1, <2>2, <2>3, <2>4
<1>10. \A u \in releasing' : Once(u)
  BY <1>3, <1>4 DEF OnceInv, InOnePlace
<1>11. WaitsOnce'
  BY <1>4 DEF OnceInv, InOnePlace, WaitsOnce
<1>12. \A r \in Requests : Queued(r)' => Queued(r) \/ r = x
  BY <1>6 DEF Queued
<1>13. \A r \in Requests : cur' = r => cur = r \/ r = x
  BY <1>6
<1>14. \A r \in Requests : Queued(r)' => cur' # r
  BY <1>5, <1>6 DEF Queued, OnceInv, InOnePlace
<1>15. InOnePlace'
  BY <1>5, <1>6, <1>7, <1>8, <1>9, <1>10, <1>11, <1>12, <1>13, <1>14 DEF OnceInv, InOnePlace
<1>16. Counted'
  <2> SUFFICES ASSUME NEW q \in Requests
               PROVE  /\ executed[q] <= 1
                      /\ Queued(q)' \/ Waits(q)' \/ Returning(q)' => executed[q] = 0
                      /\ cur' = q /\ ~Answering' => executed[q] = 0
                      /\ co[q] = "new" => ~Somewhere(q)' /\ executed[q] = 0
    BY <1>4 DEF Counted
  <2>1. cur' = q /\ ~Answering' => q = x \/ (cur = q /\ ~Answering)
    BY <1>6 DEF Answering
  <2> QED
    BY <1>5, <1>7, <1>8, <1>12, <1>13, <2>1 DEF OnceInv, Counted, Somewhere
<1> QED
  BY <1>15, <1>16 DEF OnceInv

(* A timer takes the requests of an entry. *)
LEMMA OnceFired == ASSUME LimitsInv, OnceInv, NEW t \in timers, Fire(t) PROVE OnceInv'
<1>1. entries # <<>> /\ entries \in Seq(Entry)
  BY FireKeeps DEF LimitsInv, Typed
<1> DEFINE n == Len(entries)
<1>2. PICK h : h = entries[1].requests
  OBVIOUS
<1>3. /\ n \in Nat /\ 1 \in 1..n /\ DOMAIN entries = 1..n
      /\ DOMAIN entries' = 1..(n - 1) /\ \A i \in 1..(n - 1) : entries'[i] = entries[i + 1]
  BY <1>1 DEF Fire
<1>4. /\ releasing' = releasing \cup ({h} \ {<<>>})
      /\ UNCHANGED <<queue, cur, phase, executed, co>>
  BY <1>2 DEF Fire, connection
<1> HIDE DEF n
<1>5. \A i \in 1..(n - 1) : i + 1 \in 1..n /\ i + 1 # 1
  BY <1>3
<1>6. Once(h) /\ \A r \in Requests : r \in Of(h) => Waits(r)
  BY <1>2, <1>3 DEF Waits, OnceInv, InOnePlace, WaitsOnce
<1>7. \A r \in Requests : Waits(r)' => Waits(r) /\ r \notin Of(h)
  BY <1>2, <1>3, <1>5 DEF Waits, OnceInv, InOnePlace, WaitsOnce
<1>8. \A r \in Requests : Returning(r)' <=> Returning(r) \/ r \in Of(h)
  BY <1>4, OnceSmall DEF Returning
<1>9. WaitsOnce'
  <2>1. \A i \in 1..(n - 1) : Once(entries'[i].requests)
    BY <1>3, <1>5 DEF OnceInv, InOnePlace, WaitsOnce
  <2>2. ASSUME NEW r \in Requests, NEW i \in 1..(n - 1), NEW j \in 1..(n - 1),
               r \in Of(entries'[i].requests), r \in Of(entries'[j].requests)
        PROVE  i = j
    <3>1. i + 1 = j + 1
      BY <1>3, <1>5, <2>2 DEF OnceInv, InOnePlace, WaitsOnce
    <3> QED
      BY <1>3, <3>1
  <2> QED
    BY <1>3, <2>1, <2>2 DEF WaitsOnce
<1>10. \A r \in Requests : \A u, v \in releasing' : r \in Of(u) /\ r \in Of(v) => u = v
  BY <1>4, <1>6 DEF OnceInv, InOnePlace, Returning
<1>11. \A u \in releasing' : Once(u)
  BY <1>4, <1>6 DEF OnceInv, InOnePlace
<1>12. InOnePlace'
  BY <1>4, <1>6, <1>7, <1>8, <1>9, <1>10, <1>11 DEF OnceInv, InOnePlace, Queued
<1>13. Counted'
  BY <1>4, <1>6, <1>7, <1>8 DEF OnceInv, Counted, Somewhere, Queued, Answering
<1> QED
  BY <1>12, <1>13 DEF OnceInv

(* The request in hand goes to the end of an entry. *)
LEMMA OnceChecked == ASSUME LimitsInv, OnceInv, CheckRateLimit PROVE OnceInv'
<1>1. CASE EntryOf(bucket[cur]) = {}
  <2>1. UNCHANGED <<queue, cur, entries, releasing, executed, co>> /\ ~Answering
    BY <1>1 DEF CheckRateLimit, Answering
  <2> QED
    BY <2>1, OnceUntouched
<1>2. CASE EntryOf(bucket[cur]) # {}
  <2>1. PICK i \in DOMAIN entries : entries' = [entries EXCEPT ![i].requests = Append(@, cur)]
    BY <1>2 DEF CheckRateLimit, EntryOf
  <2>2. /\ cur' = NoRequest /\ cur' \notin Requests /\ ~Answering
        /\ UNCHANGED <<queue, releasing, executed, co>>
    BY <1>2, CachelessHttpAssumption DEF CheckRateLimit, Answering
  <2>3. PICK k, w : k = cur /\ w = entries[i].requests
    OBVIOUS
  <2>4. cur \in Requests /\ entries \in Seq(Entry) /\ entries[i] \in Entry
    BY DEF CheckRateLimit, LimitsInv, Typed
  <2>5. k \in Requests /\ w \in Seq(Requests)
    BY <2>3, <2>4 DEF Entry
  <2>6. Once(w) /\ k \notin Of(w)
    BY <2>3, <2>5 DEF OnceInv, InOnePlace, WaitsOnce, Waits
  <2>7. Once(Append(w, k)) /\ Of(Append(w, k)) = Of(w) \cup {k}
    BY <2>5, <2>6, OnceAppend
  <2>8. /\ DOMAIN entries' = DOMAIN entries /\ entries'[i].requests = Append(w, k)
        /\ \A j \in DOMAIN entries : j # i => entries'[j] = entries[j]
    BY <2>1, <2>3, <2>4 DEF Entry
  <2>9. ~Waits(k)
    BY <2>3, <2>5 DEF OnceInv, InOnePlace
  <2>10. \A r \in Requests : Waits(r)' <=> Waits(r) \/ r = k
    <3>1. \A r \in Requests :
              r \in Of(entries'[i].requests) <=> r \in Of(entries[i].requests) \/ r = k
      BY <2>3, <2>7, <2>8
    <3>2. \A r \in Requests : Waits(r)' <=> \E j \in DOMAIN entries : r \in Of(entries'[j].requests)
      BY <2>8 DEF Waits
    <3>3. \A r \in Requests : \A j \in DOMAIN entries :
              r \in Of(entries'[j].requests) <=> r \in Of(entries[j].requests) \/ (j = i /\ r = k)
      BY <2>8, <3>1
    <3> QED
      BY <3>2, <3>3 DEF Waits
  <2>11. WaitsOnce'
    <3>1. \A j \in DOMAIN entries : Once(entries'[j].requests)
      BY <2>7, <2>8 DEF OnceInv, InOnePlace, WaitsOnce
    <3>2. ASSUME NEW r \in Requests, NEW j \in DOMAIN entries, NEW l \in DOMAIN entries,
                 r \in Of(entries'[j].requests), r \in Of(entries'[l].requests)
          PROVE  j = l
      <4>1. \A m \in DOMAIN entries :
                r \in Of(entries'[m].requests) => r \in Of(entries[m].requests) \/ (m = i /\ r = k)
        BY <2>3, <2>7, <2>8
      <4>2. r = k => \A m \in DOMAIN entries : r \notin Of(entries[m].requests)
        BY <2>9 DEF Waits
      <4> QED
        BY <3>2, <4>1, <4>2 DEF OnceInv, InOnePlace, WaitsOnce
    <3> QED
      BY <2>8, <3>1, <3>2 DEF WaitsOnce
  <2>12. InOnePlace'
    BY <2>2, <2>3, <2>5, <2>10, <2>11 DEF OnceInv, InOnePlace, Queued, Returning
  <2>13. Counted'
    BY <2>2, <2>3, <2>5, <2>10 DEF OnceInv, Counted, Somewhere, Queued, Returning
  <2> QED
    BY <2>12, <2>13 DEF OnceInv
<1> QED
  BY <1>1, <1>2

(* The next request is taken in hand. *)
LEMMA OncePopped == ASSUME LimitsInv, OnceInv, Pop PROVE OnceInv'
<1>1. UNCHANGED <<entries, releasing, executed, co>> /\ cur = NoRequest /\ ~Answering
  BY DEF Pop, LimitsInv, Typed, limited, Answering
<1>2. CASE queue = <<>>
  BY <1>1, <1>2, OnceUntouched DEF Pop
<1>3. CASE queue # <<>>
  <2>1. cur' = Head(queue) /\ queue' = Tail(queue) /\ queue \in Seq(Requests)
    BY <1>3 DEF Pop, LimitsInv, Typed
  <2>2. /\ Once(queue') /\ cur' \notin Of(queue') /\ cur' \in Requests
        /\ Of(queue) = Of(queue') \cup {cur'}
    BY <1>3, <2>1, OnceTail DEF OnceInv, InOnePlace
  <2>3. InOnePlace'
    BY <1>1, <2>2 DEF OnceInv, InOnePlace, WaitsOnce, Queued, Waits, Returning
  <2>4. Counted'
    BY <1>1, <2>2 DEF OnceInv, Counted, Somewhere, Queued, Waits, Returning
  <2> QED
    BY <2>3, <2>4 DEF OnceInv
<1> QED
  BY <1>2, <1>3

(* The request in hand is executed, and stays in hand until it is answered.  *)
LEMMA OnceExecuted ==
    ASSUME LimitsInv, OnceInv, cur \in Requests, ~Answering, phase' = "done",
           UNCHANGED <<queue, cur, releasing, co>>, WaitsOnce',
           \A r \in Requests : Waits(r)' <=> Waits(r),
           executed' \in {executed, [executed EXCEPT ![cur] = @ + 1]}
    PROVE  OnceInv'
<1>1. InOnePlace'
  BY DEF OnceInv, InOnePlace, Queued, Returning
<1>2. executed[cur] = 0 /\ ~Queued(cur) /\ ~Waits(cur) /\ ~Returning(cur) /\ co[cur] # "new"
  BY DEF OnceInv, InOnePlace, Counted, Somewhere
<1>3. Answering' /\ \A r \in Requests : r # cur => executed'[r] = executed[r]
  BY DEF Answering, LimitsInv, Typed
<1>4. executed'[cur] <= 1
  BY <1>2 DEF LimitsInv, Typed
<1>5. Counted'
  BY <1>2, <1>3, <1>4 DEF OnceInv, Counted, Somewhere, Queued, Returning
<1> QED
  BY <1>1, <1>5 DEF OnceInv

LEMMA OnceAnswered ==
    ASSUME LimitsInv, OnceInv, NEW final \in BOOLEAN, Answered(final) PROVE OnceInv'
<1> USE CachelessHttpAssumption
<1>1. /\ cur \in Requests /\ ~Answering /\ phase' = "done"
      /\ UNCHANGED <<now, queue, cur, releasing, co>>
      /\ executed' = [executed EXCEPT ![cur] = @ + 1]
  BY DEF Answered, LimitsInv, Typed, Answering
<1>2. WaitsOnce' /\ \A r \in Requests : Waits(r)' <=> Waits(r)
  <2>1. CASE UNCHANGED <<limits, limited>>
    BY <2>1 DEF limited, OnceInv, InOnePlace, WaitsOnce, Waits
  <2>2. ASSUME NEW d \in Delays, now + d <= MaxTime, RateLimitId(now + d, <<>>),
               limits' = limits + 1
        PROVE  WaitsOnce' /\ \A r \in Requests : Waits(r)' <=> Waits(r)
    <3>1. now + d \in 0..MaxTime /\ now + d >= now /\ <<>> \in Seq(Requests)
      BY <2>2 DEF LimitsInv, Typed
    <3>2. PICK p \in 1..(Len(entries) + 1) :
              /\ Len(entries') = Len(entries) + 1 /\ entries'[p].requests = <<>>
              /\ \A i \in 1..(Len(entries) + 1) :
                    i # p => entries'[i] = entries[IF i < p THEN i ELSE i - 1]
      BY <1>1, <2>2, <3>1, Limited
    <3>3. entries' \in Seq(Entry)
      BY <1>1, <2>2, <3>1, Limited
    <3> QED
      BY <3>1, <3>2, <3>3, OnceSmall, OnceInserted DEF OnceInv, InOnePlace
  <2> QED
    BY <2>1, <2>2 DEF Answered
<1> QED
  BY <1>1, <1>2, OnceExecuted

(* A refused request moves from the hand to its entry. *)
LEMMA OnceRefused ==
    ASSUME LimitsInv, OnceInv, NEW d \in Delays, now + d <= MaxTime, Refused(now + d)
    PROVE  OnceInv'
<1> USE CachelessHttpAssumption
<1>1. /\ cur \in Requests /\ ~Answering /\ cur' = NoRequest /\ cur' \notin Requests
      /\ UNCHANGED <<now, queue, releasing, executed, co>> /\ limits' = limits + 1
      /\ RateLimitId(now + d, <<cur>>)
  BY DEF Refused, LimitsInv, Typed, Answering
<1>2. PICK k : k = cur
  OBVIOUS
<1>3. /\ now + d \in 0..MaxTime /\ now + d >= now
      /\ k \in Requests /\ <<k>> \in Seq(Requests) /\ RateLimitId(now + d, <<k>>)
  BY <1>1, <1>2 DEF LimitsInv, Typed
<1>4. PICK p \in 1..(Len(entries) + 1) :
          /\ Len(entries') = Len(entries) + 1 /\ entries'[p].requests = <<k>>
          /\ \A i \in 1..(Len(entries) + 1) :
                i # p => entries'[i] = entries[IF i < p THEN i ELSE i - 1]
  BY <1>1, <1>3, Limited
<1>5. entries' \in Seq(Entry)
  BY <1>1, <1>3, Limited
<1>6. ~Waits(k) /\ ~Queued(k) /\ ~Returning(k) /\ executed[k] = 0 /\ co[k] # "new"
  BY <1>1, <1>2 DEF OnceInv, InOnePlace, Counted, Somewhere
<1>7. WaitsOnce' /\ \A r \in Requests : Waits(r)' <=> Waits(r) \/ r \in Of(<<k>>)
  <2>1. WaitsOnce /\ Once(<<k>>) /\ \A r \in Of(<<k>>) : ~Waits(r)
    BY <1>3, <1>6, OnceSmall DEF OnceInv, InOnePlace
  <2> QED
    BY <1>3, <1>4, <1>5, <2>1, OnceInserted
<1>8. \A r \in Requests : Waits(r)' <=> Waits(r) \/ r = k
  BY <1>3, <1>7, OnceSmall
<1>9. InOnePlace'
  BY <1>1, <1>6, <1>7, <1>8 DEF OnceInv, InOnePlace, Queued, Returning
<1>10. Counted'
  BY <1>1, <1>6, <1>8 DEF OnceInv, Counted, Somewhere, Queued, Returning
<1> QED
  BY <1>9, <1>10 DEF OnceInv

(* An answered request is nowhere any more. *)
LEMMA OnceNotified == ASSUME LimitsInv, OnceInv, Notify PROVE OnceInv'
<1>1. /\ cur' = NoRequest /\ cur' \notin Requests
      /\ UNCHANGED <<queue, entries, releasing, executed>>
  BY CachelessHttpAssumption DEF Notify, limited
<1>2. \A r \in Requests : co'[r] = "new" => co[r] = "new"
  BY DEF Notify, LimitsInv, Typed
<1>3. InOnePlace'
  BY <1>1 DEF OnceInv, InOnePlace, WaitsOnce, Queued, Waits, Returning
<1>4. Counted'
  BY <1>1, <1>2 DEF OnceInv, Counted, Somewhere, Queued, Waits, Returning
<1> QED
  BY <1>3, <1>4 DEF OnceInv

(* A request dropped with start_sending is nowhere either. *)
LEMMA OnceThrown == ASSUME LimitsInv, OnceInv, WriteThrows \/ Unreadable PROVE OnceInv'
<1>1. /\ cur' = NoRequest /\ cur' \notin Requests
      /\ UNCHANGED <<queue, entries, releasing, executed, co>>
  BY CachelessHttpAssumption DEF WriteThrows, Unreadable, Throw, limited
<1>2. InOnePlace'
  BY <1>1 DEF OnceInv, InOnePlace, WaitsOnce, Queued, Waits, Returning
<1>3. Counted'
  BY <1>1 DEF OnceInv, Counted, Somewhere, Queued, Waits, Returning
<1> QED
  BY <1>2, <1>3 DEF OnceInv

LEMMA OnceInductive == LimitsInv /\ OnceInv /\ [Next]_vars => OnceInv'
<1> SUFFICES ASSUME LimitsInv, OnceInv, [Next]_vars PROVE OnceInv'
  OBVIOUS
<1>1. CASE \/ Tick \/ Break \/ Connect \/ Write \/ Wake \/ SetDone \/ UNCHANGED vars
           \/ \E r \in Requests : Await(r) \/ Suspend(r) \/ Resume(r)
           \/ \E t \in 0..MaxTime : RefusedGlobally(t)
  <2>1. UNCHANGED <<queue, cur, entries, releasing, executed>>
    BY <1>1 DEF Tick, Break, Connect, Write, Wake, SetDone, Await, Suspend, Resume, RefusedGlobally,
                vars, connection, limited
  <2>2. \A r \in Requests : co'[r] = "new" => co[r] = "new"
    BY <1>1 DEF Tick, Break, Connect, Write, Wake, SetDone, Await, Suspend, Resume, RefusedGlobally,
                vars, LimitsInv, Typed
  <2>3. Answering => Answering'
    BY <1>1 DEF Tick, Break, Connect, Write, Wake, SetDone, Await, Suspend, Resume, RefusedGlobally,
                vars, connection, Answering
  <2> QED
    BY <2>1, <2>2, <2>3, OnceUntouched
<1>2. CASE ReadFails
  <2>1. /\ cur \in Requests /\ ~Answering /\ phase' = "done"
        /\ UNCHANGED <<queue, cur, entries, releasing, co>>
        /\ executed' \in {executed, [executed EXCEPT ![cur] = @ + 1]}
    BY <1>2 DEF ReadFails, LimitsInv, Typed, Answering, limited
  <2>2. WaitsOnce' /\ \A r \in Requests : Waits(r)' <=> Waits(r)
    BY <2>1 DEF OnceInv, InOnePlace, WaitsOnce, Waits
  <2> QED
    BY <2>1, <2>2, OnceExecuted
<1>3. \A d \in Delays : now + d <= MaxTime => now + d \in 0..MaxTime
  BY CachelessHttpAssumption DEF LimitsInv, Typed
<1> QED
  BY <1>1, <1>2, <1>3, OnceSent, OnceResent, OnceFired, OnceChecked, OncePopped, OnceAnswered,
     OnceRefused, OnceNotified, OnceThrown DEF Next, Sending, Coroutine

(* No request is executed twice, for any requests and buckets, through any   *)
(* limits, broken connections and timers that take out one another's entry.  *)
THEOREM ExecutedAtMostOnceAlways == Spec => []ExecutedAtMostOnce
<1>1. Init => OnceInv
  <2> SUFFICES ASSUME Init PROVE OnceInv
    OBVIOUS
  <2>1. /\ queue = <<>> /\ entries = <<>> /\ releasing = {} /\ cur \notin Requests
        /\ \A r \in Requests : executed[r] = 0
    BY CachelessHttpAssumption DEF Init
  <2>2. \A r \in Requests : ~Somewhere(r)
    BY <2>1, OnceSmall DEF Somewhere, Queued, Waits, Returning
  <2>3. WaitsOnce
    BY <2>1 DEF WaitsOnce
  <2> QED
    BY <2>1, <2>2, <2>3, OnceSmall DEF OnceInv, InOnePlace, Counted, Somewhere
<1>2. OnceInv => ExecutedAtMostOnce
  BY DEF OnceInv, Counted, ExecutedAtMostOnce
<1> QED
  BY <1>1, <1>2, LimitsAtFirst, LimitsInductive, OnceInductive, PTL DEF Spec
-----------------------------------------------------------------------------
(* The right to identify, of CachelessGateway. *)

Chains == {t \in waits : t.kind = "chain"}
ChainWrites == {w \in writes : w.kind = "chain"}

(* Where the right to identify is; nobody waits for it while it is free.     *)
RightInv ==
    /\ noOne \in BOOLEAN
    /\ noOne => Chains = {} /\ ChainWrites = {} /\ stack = <<>>
    /\ ~noOne => \/ ChainWrites = {} /\ \E t \in Chains : Chains = {t}
                 \/ Chains = {} /\ \E w \in ChainWrites : ChainWrites = {w}

(* What a step that neither takes nor passes the right may do. *)
LEMMA RightUntouched ==
    ASSUME RightInv, UNCHANGED <<noOne, stack, Chains, ChainWrites>> PROVE RightInv'
BY DEF RightInv

(* A HELLO takes the right if it is free. *)
LEMMA HelloKeeps == ASSUME RightInv, NEW s \in Shards, Hello(s) PROVE RightInv'
<1>1. QueueToIdentify(s) /\ writes' = writes
  BY DEF Hello
<1>2. CASE noOne
  <2> DEFINE t == TimerAt(s, last + Gap, "chain")
  <2>1. noOne' = FALSE /\ waits' = waits \cup {t} /\ t.kind = "chain"
    BY <1>1, <1>2 DEF QueueToIdentify, TimerAt
  <2>2. Chains' = {t} /\ ChainWrites' = {}
    BY <1>1, <1>2, <2>1 DEF RightInv, Chains, ChainWrites
  <2> QED
    BY <2>1, <2>2 DEF RightInv
<1>3. CASE ~noOne
  BY <1>1, <1>3 DEF RightInv, QueueToIdentify, Chains, ChainWrites
<1> QED
  BY <1>2, <1>3

(* The timer of the shard with the right becomes a write. *)
LEMMA IdentifyKeeps == ASSUME RightInv, NEW t \in waits, Identify(t) PROVE RightInv'
<1> DEFINE w == [shard |-> t.shard, kind |-> t.kind]
<1>1. /\ waits' = waits \ {t} /\ writes' = writes \cup {w} /\ w.kind = t.kind
      /\ UNCHANGED <<noOne, stack>> /\ t.kind \in {"chain", "reserved"}
  BY DEF Identify, SendThing, chain
<1> HIDE DEF w
<1>2. CASE t.kind = "chain"
  <2>1. ~noOne /\ Chains = {t} /\ ChainWrites = {}
    BY <1>2 DEF RightInv, Chains
  <2>2. Chains' = {} /\ ChainWrites' = {w}
    BY <1>1, <1>2, <2>1 DEF Chains, ChainWrites
  <2> QED
    BY <1>1, <2>1, <2>2 DEF RightInv
<1>3. CASE t.kind = "reserved"
  BY <1>1, <1>3, RightUntouched DEF Chains, ChainWrites
<1> QED
  BY <1>1, <1>2, <1>3

(* notify_identified passes the right on, or frees it. *)
LEMMA WrittenKeeps == ASSUME RightInv, NEW w \in writes, Written(w) PROVE RightInv'
<1>1. writes' = writes \ {w}
  BY DEF Written
<1>2. CASE w.kind = "chain"
  <2>1. ~noOne /\ Chains = {} /\ ChainWrites = {w}
    BY <1>2 DEF RightInv, ChainWrites
  <2>2. ChainWrites' = {}
    BY <1>1, <2>1 DEF ChainWrites
  <2>3. NotifyIdentified
    BY <1>2 DEF Written
  <2>4. CASE stack # <<>>
    <3> DEFINE t == TimerAt(stack[Len(stack)], clock + Gap, "chain")
    <3>1. waits' = waits \cup {t} /\ noOne' = noOne /\ t.kind = "chain"
      BY <2>3, <2>4 DEF NotifyIdentified, TimerAt
    <3> HIDE DEF t
    <3>2. Chains' = {t}
      BY <2>1, <3>1 DEF Chains
    <3> QED
      BY <2>1, <2>2, <3>1, <3>2 DEF RightInv
  <2>5. CASE stack = <<>>
    BY <2>1, <2>2, <2>3, <2>5 DEF NotifyIdentified, RightInv, Chains
  <2> QED
    BY <2>4, <2>5
<1>3. CASE w.kind # "chain"
  BY <1>1, <1>3, RightUntouched DEF Written, chain, Chains, ChainWrites
<1> QED
  BY <1>2, <1>3

(* Opcode 9 sets timers, but not those of the shards that are queued. *)
LEMMA InvalidKeeps ==
    ASSUME RightInv,
           \/ \E s \in Shards, kind \in {"invalid", "resumable"} : InvalidSession(s, kind)
           \/ \E t \in waits : AfterInvalid(t)
    PROVE  RightInv'
<1>1. ASSUME NEW s \in Shards, NEW kind \in {"invalid", "resumable"}, InvalidSession(s, kind)
      PROVE  RightInv'
  <2>1. /\ waits' = waits \cup {TimerAt(s, clock + Gap, kind)}
        /\ TimerAt(s, clock + Gap, kind).kind # "chain"
        /\ UNCHANGED <<noOne, stack, writes>>
    BY <1>1 DEF InvalidSession, chain, TimerAt
  <2> QED
    BY <2>1, RightUntouched DEF Chains, ChainWrites
<1>2. ASSUME NEW t \in waits, AfterInvalid(t) PROVE RightInv'
  <2>1. t.kind # "chain" /\ UNCHANGED <<noOne, stack, writes>>
    BY <1>2 DEF AfterInvalid
  <2>2. TimerAt(t.shard, last', "reserved").kind # "chain"
    BY DEF TimerAt
  <2>3. waits' \in {waits \ {t}, (waits \ {t}) \cup {TimerAt(t.shard, last', "reserved")}}
    BY <1>2 DEF AfterInvalid
  <2>4. Chains' = Chains
    BY <2>1, <2>2, <2>3 DEF Chains
  <2> QED
    BY <2>1, <2>4, RightUntouched DEF ChainWrites
<1> QED
  BY <1>1, <1>2

(* Whatever HELLOs, ends of writes and invalid sessions interleave, and for  *)
(* any number of shards: at most one shard has the right to identify, and if *)
(* none has it, none is queued for it.                                       *)
THEOREM RightInOnePlace == GatewaySpec => []OneIdentifies
<1>1. GatewayInit => RightInv
  BY DEF GatewayInit, RightInv, Chains, ChainWrites
<1>2. RightInv /\ [GatewayNext]_gatewayVars => RightInv'
  <2> SUFFICES ASSUME RightInv, [GatewayNext]_gatewayVars PROVE RightInv'
    OBVIOUS
  <2>1. CASE UNCHANGED <<noOne, stack, waits, writes>>
    BY <2>1, RightUntouched DEF Chains, ChainWrites
  <2>2. CASE GatewayTick \/ UNCHANGED gatewayVars
    BY <2>1, <2>2 DEF GatewayTick, gatewayVars, chain
  <2>3. ASSUME NEW s \in Shards,
               Open(s) \/ Ack(s) \/ SendHeartbeat(s) \/ Opcode7(s) \/ ReadError(s)
        PROVE  RightInv'
    BY <2>1, <2>3 DEF Open, Ack, SendHeartbeat, Opcode7, ReadError, chain
  <2> QED
    BY <2>2, <2>3, HelloKeeps, IdentifyKeeps, WrittenKeeps, InvalidKeeps DEF GatewayNext
<1>3. RightInv => OneIdentifies
  <2> SUFFICES ASSUME RightInv PROVE OneIdentifies
    OBVIOUS
  <2>1. SUFFICES /\ Cardinality(Chains) + Cardinality(ChainWrites) = IF noOne THEN 0 ELSE 1
                 /\ noOne => stack = <<>>
    BY DEF OneIdentifies, Chains, ChainWrites
  <2>2. Cardinality({}) = 0 /\ \A x : Cardinality({x}) = 1
    BY FS_EmptySet, FS_Singleton
  <2>3. CASE noOne
    BY <2>2, <2>3 DEF RightInv
  <2>4. CASE ~noOne
    <3>1. \/ ChainWrites = {} /\ \E t : Chains = {t}
          \/ Chains = {} /\ \E w : ChainWrites = {w}
      BY <2>4 DEF RightInv
    <3>2. \/ Cardinality(ChainWrites) = 0 /\ Cardinality(Chains) = 1
          \/ Cardinality(Chains) = 0 /\ Cardinality(ChainWrites) = 1
      BY <2>2, <3>1, Zenon
    <3> QED
      BY <2>4, <3>2
  <2> QED
    BY <2>3, <2>4
<1> QED
  BY <1>1, <1>2, <1>3, PTL DEF GatewaySpec
-----------------------------------------------------------------------------
(* The events, CachelessEvents: each handler against the payload it is for.  *)

Wanted(callback) == Events!PayloadFields[callback] \ Events!LeftOut[callback]

(* The callback that is called gets all that its payload has. *)
Filled(c) ==
    \/ c = Events!Nothing
    \/ /\ c.callback \in DOMAIN Events!PayloadFields
       /\ c.fields = Wanted(c.callback)

Fills(handler) == \A scope \in DOMAIN handler : Filled(handler[scope])

(* The payloads, looked up; the fields that no handler fills.                *)
LEMMA PayloadOf ==
    /\ \A c \in DOMAIN Events!ChannelPayloads :
          c \in DOMAIN Events!PayloadFields /\ Events!PayloadFields[c] = {"channel"}
    /\ \A c \in DOMAIN Events!GuildPayloads :
          c \in DOMAIN Events!PayloadFields /\ Events!PayloadFields[c] = Events!GuildPayloads[c]
    /\ \A c \in DOMAIN Events!PresencePayload :
          c \in DOMAIN Events!PayloadFields /\ Events!PayloadFields[c] = Events!PresencePayload[c]
    /\ \A c \in DOMAIN Events!MessagePayloads :
          c \in DOMAIN Events!PayloadFields /\ Events!PayloadFields[c] = Events!MessagePayloads[c]
<1>1. DOMAIN Events!ChannelPayloads \cap DOMAIN Events!GuildPayloads = {}
  BY DEF Events!ChannelPayloads, Events!GuildPayloads
<1>2. DOMAIN Events!ChannelPayloads \cap DOMAIN Events!MessagePayloads = {}
  BY DEF Events!ChannelPayloads, Events!MessagePayloads
<1>3. DOMAIN Events!GuildPayloads \cap DOMAIN Events!MessagePayloads = {}
  BY DEF Events!GuildPayloads, Events!MessagePayloads
<1>4. DOMAIN Events!PresencePayload = {"on_presence_update"}
  BY DEF Events!PresencePayload
<1>5. /\ "on_presence_update" \notin DOMAIN Events!ChannelPayloads
      /\ "on_presence_update" \notin DOMAIN Events!GuildPayloads
      /\ "on_presence_update" \notin DOMAIN Events!MessagePayloads
  BY DEF Events!ChannelPayloads, Events!GuildPayloads, Events!MessagePayloads
<1>6. \A c \in DOMAIN Events!ChannelPayloads : Events!ChannelPayloads[c] = {"channel"}
  BY DEF Events!ChannelPayloads
<1> QED
  BY <1>1, <1>2, <1>3, <1>4, <1>5, <1>6 DEF Events!PayloadFields, Events!++

LEMMA LeftOutOf ==
    ASSUME NEW c \in DOMAIN Events!PayloadFields,
           c \notin {"on_guild_reaction_add", "on_dm_reaction_add", "on_guild_typing_start",
                     "on_dm_typing_start", "on_guild_member_update"}
    PROVE  Events!LeftOut[c] = {}
BY DEF Events!LeftOut, Events!Callbacks

LEMMA CallFilled ==
    ASSUME NEW callback, NEW fields, callback \in DOMAIN Events!PayloadFields,
           fields = Wanted(callback)
    PROVE  Filled(Events!Call(callback, fields))
BY DEF Filled, Events!Call

LEMMA NothingFilled == Filled(Events!Nothing) /\ Fills(Events!Always(Events!Nothing))
BY DEF Filled, Fills, Events!Always

LEMMA HandlerFills ==
    /\ \A c : Filled(c) => Fills(Events!Always(c))
    /\ \A c, d : Filled(c) /\ Filled(d) => Fills(Events!InGuild(c, d))
BY DEF Fills, Events!Always, Events!InGuild

LEMMA ChannelsFill ==
    ASSUME NEW text \in DOMAIN Events!ChannelPayloads, NEW dm \in DOMAIN Events!ChannelPayloads,
           NEW voice \in DOMAIN Events!ChannelPayloads,
           NEW category \in DOMAIN Events!ChannelPayloads
    PROVE  Fills(Events!ByType(text, dm, voice, category))
<1>1. \A c \in DOMAIN Events!ChannelPayloads : Filled(Events!Call(c, {"channel"}))
  <2> SUFFICES ASSUME NEW c \in DOMAIN Events!ChannelPayloads
               PROVE  Filled(Events!Call(c, {"channel"}))
    OBVIOUS
  <2>1. Events!LeftOut[c] = {}
    BY PayloadOf, LeftOutOf DEF Events!ChannelPayloads
  <2> QED
    BY <2>1, PayloadOf, CallFilled DEF Wanted
<1> QED
  BY <1>1, NothingFilled DEF Fills, Events!ByType

LEMMA ChannelHandlersFill ==
    Fills(Events!ChannelCreate) /\ Fills(Events!ChannelUpdate) /\ Fills(Events!ChannelDelete)
BY ChannelsFill DEF Events!ChannelCreate, Events!ChannelUpdate, Events!ChannelDelete,
                    Events!ChannelPayloads

LEMMA GuildHandlersFill ==
    /\ Fills(Events!GuildCreate)
    /\ Fills(Events!GuildDelete)
    /\ Fills(Events!Ready)
    /\ Fills(Events!MemberAdd)
    /\ Fills(Events!MemberRemove)
    /\ Fills(Events!MemberUpdate)
    /\ Fills(Events!BanAdd)
    /\ Fills(Events!BanRemove)
    /\ Fills(Events!EmojiUpdate)
    /\ Fills(Events!RoleCreate)
    /\ Fills(Events!RoleUpdate)
    /\ Fills(Events!RoleDelete)
<1>1. Fills(Events!GuildCreate)
  <2>1. /\ "on_guild_ready" \in DOMAIN Events!PayloadFields
        /\ Wanted("on_guild_ready") = {"guild"}
    BY PayloadOf DEF Events!GuildPayloads, Events!LeftOut, Events!Callbacks, Wanted
  <2> QED
    BY <2>1, CallFilled, HandlerFills DEF Events!GuildCreate
<1>2. Fills(Events!GuildDelete)
  <2>1. /\ "on_guild_remove" \in DOMAIN Events!PayloadFields
        /\ Wanted("on_guild_remove") = {"guild"}
    BY PayloadOf DEF Events!GuildPayloads, Events!LeftOut, Events!Callbacks, Wanted
  <2> QED
    BY <2>1, CallFilled, HandlerFills DEF Events!GuildDelete
<1>3. Fills(Events!Ready)
  <2>1. /\ "on_ready" \in DOMAIN Events!PayloadFields
        /\ Wanted("on_ready") = {}
    BY PayloadOf DEF Events!GuildPayloads, Events!LeftOut, Events!Callbacks, Wanted
  <2> QED
    BY <2>1, CallFilled, HandlerFills DEF Events!Ready
<1>4. Fills(Events!MemberAdd)
  <2>1. /\ "on_guild_member_add" \in DOMAIN Events!PayloadFields
        /\ Wanted("on_guild_member_add") = {"guild_id", "member"}
    BY PayloadOf DEF Events!GuildPayloads, Events!LeftOut, Events!Callbacks, Wanted
  <2> QED
    BY <2>1, CallFilled, HandlerFills DEF Events!MemberAdd
<1>5. Fills(Events!MemberRemove)
  <2>1. /\ "on_guild_member_remove" \in DOMAIN Events!PayloadFields
        /\ Wanted("on_guild_member_remove") = {"guild_id", "member"}
    BY PayloadOf DEF Events!GuildPayloads, Events!LeftOut, Events!Callbacks, Wanted
  <2> QED
    BY <2>1, CallFilled, HandlerFills DEF Events!MemberRemove
<1>6. Fills(Events!MemberUpdate)
  <2>1. /\ "on_guild_member_update" \in DOMAIN Events!PayloadFields
        /\ Wanted("on_guild_member_update") = {"guild_id", "user", "roles", "nick"}
    BY PayloadOf DEF Events!GuildPayloads, Events!LeftOut, Events!Callbacks, Wanted
  <2> QED
    BY <2>1, CallFilled, HandlerFills DEF Events!MemberUpdate
<1>7. Fills(Events!BanAdd)
  <2>1. /\ "on_ban_add" \in DOMAIN Events!PayloadFields
        /\ Wanted("on_ban_add") = {"user", "guild_id"}
    BY PayloadOf DEF Events!GuildPayloads, Events!LeftOut, Events!Callbacks, Wanted
  <2> QED
    BY <2>1, CallFilled, HandlerFills DEF Events!BanAdd
<1>8. Fills(Events!BanRemove)
  <2>1. /\ "on_ban_remove" \in DOMAIN Events!PayloadFields
        /\ Wanted("on_ban_remove") = {"user", "guild_id"}
    BY PayloadOf DEF Events!GuildPayloads, Events!LeftOut, Events!Callbacks, Wanted
  <2> QED
    BY <2>1, CallFilled, HandlerFills DEF Events!BanRemove
<1>9. Fills(Events!EmojiUpdate)
  <2>1. /\ "on_emoji_update" \in DOMAIN Events!PayloadFields
        /\ Wanted("on_emoji_update") = {"guild_id", "emojis"}
    BY PayloadOf DEF Events!GuildPayloads, Events!LeftOut, Events!Callbacks, Wanted
  <2> QED
    BY <2>1, CallFilled, HandlerFills DEF Events!EmojiUpdate
<1>10. Fills(Events!RoleCreate)
  <2>1. /\ "on_role_create" \in DOMAIN Events!PayloadFields
        /\ Wanted("on_role_create") = {"guild_id", "role"}
    BY PayloadOf DEF Events!GuildPayloads, Events!LeftOut, Events!Callbacks, Wanted
  <2> QED
    BY <2>1, CallFilled, HandlerFills DEF Events!RoleCreate
<1>11. Fills(Events!RoleUpdate)
  <2>1. /\ "on_role_update" \in DOMAIN Events!PayloadFields
        /\ Wanted("on_role_update") = {"guild_id", "role"}
    BY PayloadOf DEF Events!GuildPayloads, Events!LeftOut, Events!Callbacks, Wanted
  <2> QED
    BY <2>1, CallFilled, HandlerFills DEF Events!RoleUpdate
<1>12. Fills(Events!RoleDelete)
  <2>1. /\ "on_role_delete" \in DOMAIN Events!PayloadFields
        /\ Wanted("on_role_delete") = {"guild_id", "role_id"}
    BY PayloadOf DEF Events!GuildPayloads, Events!LeftOut, Events!Callbacks, Wanted
  <2> QED
    BY <2>1, CallFilled, HandlerFills DEF Events!RoleDelete
<1> QED
  BY <1>1, <1>2, <1>3, <1>4, <1>5, <1>6, <1>7, <1>8, <1>9, <1>10, <1>11, <1>12

LEMMA PresenceFills == Fills(Events!PresenceUpdate)
<1>1. /\ "on_presence_update" \in DOMAIN Events!PayloadFields
      /\ Wanted("on_presence_update") =
            {"user_id", "game", "guild_id", "status", "activities", "client_status"}
  BY PayloadOf DEF Events!PresencePayload, Events!LeftOut, Events!Callbacks, Wanted
<1> QED
  BY <1>1, CallFilled, HandlerFills DEF Events!PresenceUpdate

LEMMA MessageHandlersFill ==
    /\ Fills(Events!MessageUpdate)
    /\ Fills(Events!MessageCreate)
    /\ Fills(Events!MessageDelete)
    /\ Fills(Events!MessageDeleteBulk)
    /\ Fills(Events!ReactionAdd)
    /\ Fills(Events!ReactionRemove)
    /\ Fills(Events!ReactionRemoveAll)
    /\ Fills(Events!TypingStart)
<1>1. Fills(Events!MessageCreate)
  <2>1. /\ "on_guild_text_msg" \in DOMAIN Events!PayloadFields
        /\ Wanted("on_guild_text_msg") = {"msg"}
    BY PayloadOf DEF Events!MessagePayloads, Events!LeftOut, Events!Callbacks, Wanted
  <2>2. /\ "on_dm_msg" \in DOMAIN Events!PayloadFields
        /\ Wanted("on_dm_msg") = {"msg"}
    BY PayloadOf DEF Events!MessagePayloads, Events!LeftOut, Events!Callbacks, Wanted
  <2> QED
    BY <2>1, <2>2, CallFilled, HandlerFills DEF Events!MessageCreate
<1>2. Fills(Events!MessageDelete)
  <2>1. /\ "on_guild_msg_delete" \in DOMAIN Events!PayloadFields
        /\ Wanted("on_guild_msg_delete") = {"id", "guild_id", "channel_id"}
    BY PayloadOf DEF Events!MessagePayloads, Events!LeftOut, Events!Callbacks, Wanted
  <2>2. /\ "on_dm_msg_delete" \in DOMAIN Events!PayloadFields
        /\ Wanted("on_dm_msg_delete") = {"id", "channel_id"}
    BY PayloadOf DEF Events!MessagePayloads, Events!LeftOut, Events!Callbacks, Wanted
  <2> QED
    BY <2>1, <2>2, CallFilled, HandlerFills DEF Events!MessageDelete
<1>3. Fills(Events!MessageDeleteBulk)
  <2>1. /\ "on_message_bulk_delete" \in DOMAIN Events!PayloadFields
        /\ Wanted("on_message_bulk_delete") = {"ids", "channel_id", "guild_id"}
    BY PayloadOf DEF Events!MessagePayloads, Events!LeftOut, Events!Callbacks, Wanted
  <2>2. /\ "on_dm_message_bulk_delete" \in DOMAIN Events!PayloadFields
        /\ Wanted("on_dm_message_bulk_delete") = {"ids", "channel_id"}
    BY PayloadOf DEF Events!MessagePayloads, Events!LeftOut, Events!Callbacks, Wanted
  <2> QED
    BY <2>1, <2>2, CallFilled, HandlerFills DEF Events!MessageDeleteBulk
<1>4. Fills(Events!ReactionAdd)
  <2>1. /\ "on_guild_reaction_add" \in DOMAIN Events!PayloadFields
        /\ Wanted("on_guild_reaction_add") =
              {"channel_id", "emoji", "guild_id", "message_id", "member"}
    BY PayloadOf DEF Events!MessagePayloads, Events!LeftOut, Events!Callbacks, Wanted
  <2>2. /\ "on_dm_reaction_add" \in DOMAIN Events!PayloadFields
        /\ Wanted("on_dm_reaction_add") = {"channel_id", "emoji", "message_id", "user_id"}
    BY PayloadOf DEF Events!MessagePayloads, Events!LeftOut, Events!Callbacks, Wanted
  <2> QED
    BY <2>1, <2>2, CallFilled, HandlerFills DEF Events!ReactionAdd
<1>5. Fills(Events!ReactionRemove)
  <2>1. /\ "on_guild_reaction_remove" \in DOMAIN Events!PayloadFields
        /\ Wanted("on_guild_reaction_remove") =
              {"channel_id", "emoji", "user_id", "message_id", "guild_id"}
    BY PayloadOf DEF Events!MessagePayloads, Events!LeftOut, Events!Callbacks, Wanted
  <2>2. /\ "on_dm_reaction_remove" \in DOMAIN Events!PayloadFields
        /\ Wanted("on_dm_reaction_remove") = {"channel_id", "emoji", "message_id", "user_id"}
    BY PayloadOf DEF Events!MessagePayloads, Events!LeftOut, Events!Callbacks, Wanted
  <2> QED
    BY <2>1, <2>2, CallFilled, HandlerFills DEF Events!ReactionRemove
<1>6. Fills(Events!ReactionRemoveAll)
  <2>1. /\ "on_guild_reaction_remove_all" \in DOMAIN Events!PayloadFields
        /\ Wanted("on_guild_reaction_remove_all") = {"channel_id", "message_id", "guild_id"}
    BY PayloadOf DEF Events!MessagePayloads, Events!LeftOut, Events!Callbacks, Wanted
  <2>2. /\ "on_dm_reaction_remove_all" \in DOMAIN Events!PayloadFields
        /\ Wanted("on_dm_reaction_remove_all") = {"channel_id", "message_id"}
    BY PayloadOf DEF Events!MessagePayloads, Events!LeftOut, Events!Callbacks, Wanted
  <2> QED
    BY <2>1, <2>2, CallFilled, HandlerFills DEF Events!ReactionRemoveAll
<1>7. Fills(Events!TypingStart)
  <2>1. /\ "on_guild_typing_start" \in DOMAIN Events!PayloadFields
        /\ Wanted("on_guild_typing_start") = {"channel_id", "guild_id", "member"}
    BY PayloadOf DEF Events!MessagePayloads, Events!LeftOut, Events!Callbacks, Wanted
  <2>2. /\ "on_dm_typing_start" \in DOMAIN Events!PayloadFields
        /\ Wanted("on_dm_typing_start") = {"user_id", "channel_id"}
    BY PayloadOf DEF Events!MessagePayloads, Events!LeftOut, Events!Callbacks, Wanted
  <2> QED
    BY <2>1, <2>2, CallFilled, HandlerFills DEF Events!TypingStart
<1>8. Fills(Events!MessageUpdate)
  BY NothingFilled, HandlerFills DEF Events!MessageUpdate
<1> QED
  BY <1>1, <1>2, <1>3, <1>4, <1>5, <1>6, <1>7, <1>8

LEMMA EveryHandlerFills == \A t : Fills(Events!Handlers[Events!ToEventName(t)])
<1>1. /\ Fills(Events!GuildUpdate) /\ Fills(Events!GuildMembersChunk)
      /\ Fills(Events!GuildIntegrationsUpdate)
  BY NothingFilled DEF Events!GuildUpdate, Events!GuildMembersChunk,
                       Events!GuildIntegrationsUpdate
<1>2. \A n \in DOMAIN Events!Handlers : Fills(Events!Handlers[n])
  BY <1>1, NothingFilled, ChannelHandlersFill, GuildHandlersFill, PresenceFills,
     MessageHandlersFill DEF Events!Handlers
<1>3. \A t : Events!ToEventName(t) \in DOMAIN Events!Handlers
  BY DEF Events!ToEventName, Events!KnownNames, Events!Handlers
<1> QED
  BY <1>2, <1>3

(* Whatever event comes, whatever it brings, and whatever callbacks are set, *)
(* the callback that is called gets all the fields that its payload has, but *)
(* for those of LeftOut.                                                     *)
THEOREM PayloadsAlwaysFilled == PartsSpec => []PayloadsFilled
<1> DEFINE Inv == Filled(call)
<1>1. PartsInit => Inv
  BY DEF PartsInit, Events!Init, Filled
<1>2. Inv /\ [PartsNext]_partVars => Inv'
  <2> SUFFICES ASSUME Inv, [PartsNext]_partVars PROVE Inv'
    OBVIOUS
  <2>1. ASSUME NEW t \in Events!Sent, NEW s \in Seqs, NEW brings \in SUBSET Events!Shapes,
               Events!Opcode0(t, s, brings)
        PROVE  Inv'
    <3> DEFINE handler == Events!Handlers[Events!ToEventName(t)]
    <3>1. Fills(handler)
      BY EveryHandlerFills
    <3>2. \E scope \in DOMAIN handler : call' \in {handler[scope], Events!Nothing}
      BY <2>1 DEF Events!Opcode0
    <3> QED
      BY <3>1, <3>2, NothingFilled DEF Fills
  <2>2. CASE UNCHANGED eventsVars
    BY <2>2 DEF eventsVars
  <2> QED
  BY <2>1, <2>2 DEF PartsNext, HttpStep, GatewayStep, EventsStep, ObjectsStep, AuditStep,
                      Events!Next, partVars
<1>3. Inv => PayloadsFilled
  BY DEF Filled, Wanted, PayloadsFilled, Events!PayloadsFilled, Events!Nothing, Events!Call
<1> QED
  BY <1>1, <1>2, <1>3, PTL DEF PartsSpec

-----------------------------------------------------------------------------
(* How a from_json reads.                                                  *)

IsSequence(s) == \E S : s \in Seq(S)

LEMMA Least == \A T \in SUBSET Nat : T # {} => \E x \in T : \A y \in T : x <= y
<1>1. \A T \in SUBSET Nat :
        T # {} => \E x \in T : \A y \in T : ~ (<<y, x>> \in OpToRel(<, Nat))
  BY NatLessThanWellFounded, WFMin
<1>2. \A x, y \in Nat : x < y => <<x, y>> \in OpToRel(<, Nat)
  BY DEF OpToRel
<1>3. \A x, y \in Nat : ~ (y < x) => x <= y
  OBVIOUS
<1> QED
  BY <1>1, <1>2, <1>3, Zenon

LEMMA LastOfSome ==
    ASSUME NEW n \in Nat, NEW S, S \subseteq 1..n, S # {}
    PROVE  Max(S) \in S
<1> DEFINE fromEnd == {n - i : i \in S}
<1>1. fromEnd \in SUBSET Nat /\ fromEnd # {}
  <2>1. \A i \in S : n - i \in Nat
    OBVIOUS
  <2> QED
    BY <2>1
<1>2. PICK least \in fromEnd : \A k \in fromEnd : least <= k
  <2> HIDE DEF fromEnd
  <2> QED
    BY <1>1, Least
<1>3. PICK end \in S : least = n - end
  BY <1>2
<1>4. S \subseteq Int /\ n \in Int
  OBVIOUS
<1>5. \A j \in S : n - j \in fromEnd
  OBVIOUS
<1>6. \A j \in S : end >= j
  <2> HIDE DEF fromEnd
  <2>1. \A j \in S : n - end <= n - j
    BY <1>2, <1>3, <1>5
  <2> SUFFICES ASSUME NEW j \in S PROVE end >= j
    OBVIOUS
  <2>2. n \in Int /\ j \in Int /\ end \in Int /\ n - end <= n - j
    BY <1>4, <2>1
  <2> QED
    BY <2>2
<1> QED
  BY <1>6 DEF Max

(* What a from_json does.                                                    *)
Reading(fields, old, json) ==
    LET r == ReadInto(fields, old, json)
        Does(f) == Outcome(f, json[f.key])
    IN  /\ r.threw <=> \E f \in Range(fields) : Does(f) = "throws"
        /\ DOMAIN r.obj = DOMAIN old
        /\ ~ r.threw => \A m \in DOMAIN old :
             \/ \E f \in Range(fields) :
                  f.member = m /\ Does(f) # "keeps" /\ r.obj[m] = json[f.key].v
             \/ /\ \A f \in Range(fields) : f.member = m => Does(f) = "keeps"
                /\ r.obj[m] = old[m]

LEMMA ReadOf ==
    ASSUME NEW fields, IsSequence(fields), NEW old, NEW json
    PROVE  Reading(fields, old, json)
<1> DEFINE r == ReadInto(fields, old, json)
           Does(f) == Outcome(f, json[f.key])
           bad == {i \in DOMAIN fields : Does(fields[i]) = "throws"}
           read == IF bad = {} THEN DOMAIN fields ELSE 1 .. Min(bad) - 1
           fills(m) == {i \in read : fields[i].member = m /\ Does(fields[i]) # "keeps"}
           new == [m \in DOMAIN old |->
                     IF fills(m) = {} THEN old[m] ELSE json[fields[Max(fills(m))].key].v]
<1>1. r = [threw |-> bad # {}, obj |-> new]
  BY DEF ReadInto
<1>2. PICK n \in Nat : DOMAIN fields = 1..n
  BY DEF IsSequence
<1>3. r.threw <=> \E f \in Range(fields) : Does(f) = "throws"
  <2> HIDE DEF Does, new, r
  <2> QED
    BY <1>1 DEF Range
<1>4. DOMAIN r.obj = DOMAIN old
  <2> HIDE DEF Does, bad, fills, r
  <2> QED
    BY <1>1
<1>5. ASSUME ~ r.threw, NEW m \in DOMAIN old
      PROVE  \/ \E f \in Range(fields) :
                  f.member = m /\ Does(f) # "keeps" /\ r.obj[m] = json[f.key].v
             \/ /\ \A f \in Range(fields) : f.member = m => Does(f) = "keeps"
                /\ r.obj[m] = old[m]
  <2>1. bad = {} /\ r.obj[m] = new[m]
    <3> HIDE DEF Does, bad, fills, r, new
    <3> QED
      BY <1>1, <1>5
  <2>2. read = 1..n
    <3> HIDE DEF Does, bad
    <3> QED
      BY <2>1, <1>2
  <2> HIDE DEF Does, bad, r, read
  <2>3. CASE fills(m) = {}
    <3>1. new[m] = old[m]
      BY <2>3
    <3>2. \A i \in 1..n : fields[i].member = m => Does(fields[i]) = "keeps"
      BY <2>2, <2>3
    <3> QED
      BY <1>2, <2>1, <3>1, <3>2 DEF Range
  <2>4. CASE fills(m) # {}
    <3> DEFINE i == Max(fills(m))
    <3>1. fills(m) \subseteq 1..n
      BY <2>2
    <3>2. i \in fills(m)
      <4> HIDE DEF fills
      <4> QED
        BY <2>4, <3>1, LastOfSome
    <3>3. new[m] = json[fields[i].key].v
      BY <2>4
    <3> HIDE DEF new, i
    <3>4. i \in 1..n /\ fields[i].member = m /\ Does(fields[i]) # "keeps"
      BY <2>2, <3>2
    <3> QED
      BY <1>2, <2>1, <3>3, <3>4 DEF Range
  <2> QED
    BY <2>3, <2>4
<1> QED
  BY <1>3, <1>4, <1>5 DEF Reading

(* What a form has to be, for its objects to tell what an update said, ...   *)
FilledBy(f, m) ==
    /\ \E g \in Range(f.reads) : g.member = m
    /\ \A g \in Range(f.reads) : g.member = m =>
          g.key = m /\ (f.inPlace => g.gone # "keeps" /\ g.null # "keeps")

(* What becomes of a field whose key is missing, null or of another kind.    *)
Oddly(g, how) ==
    CASE how = "gone" -> g.gone
      [] how = "null" -> g.null
      [] OTHER        -> IF g.kind \in {"any", "odd"} THEN "takes" ELSE "throws"

Throws(reads, k, how) == \E g \in Range(reads) : g.key = k /\ Oddly(g, how) = "throws"

LEMMA Outcomes ==
    ASSUME NEW g, NEW n, NEW odd, NEW how, NEW k
    PROVE  /\ k # odd => Outcome(g, Says(n, odd, how, k)) = "takes"
           /\ k = odd => Outcome(g, Says(n, odd, how, k)) = Oddly(g, how)
           /\ Outcome(g, Says(n, odd, how, k)) = "keeps" =>
                 /\ Says(n, odd, how, k).v = Default
                 /\ g.gone = "keeps" \/ g.null = "keeps"
<1>1. k # odd => Outcome(g, Says(n, odd, how, k)) = "takes"
  BY DEF Outcome, Says, Value
<1>2. \A v : v \in {Gone, Null, Odd} => v.v = Default
  BY DEF Gone, Null, Odd, Value
<1>3. /\ Outcome(g, Gone) = g.gone /\ Outcome(g, Null) = g.null
      /\ Outcome(g, Odd) = IF g.kind \in {"any", "odd"} THEN "takes" ELSE "throws"
  BY DEF Outcome, Gone, Null, Odd, Value
<1>4. k = odd => Says(n, odd, how, k) = IF how = "gone" THEN Gone
                                       ELSE IF how = "null" THEN Null ELSE Odd
  BY DEF Says
<1>5. Oddly(g, how) = IF how = "gone" THEN g.gone ELSE IF how = "null" THEN g.null
                      ELSE Outcome(g, Odd)
  BY <1>3 DEF Oddly
<1> QED
  BY <1>1, <1>2, <1>3, <1>4, <1>5

Telling(f, old, blank, json, n, odd, how) ==
    LET r == After(f, old, blank, json)
    IN  /\ r.threw <=> Throws(f.reads, odd, how)
        /\ DOMAIN r.obj = DOMAIN blank
        /\ ~ r.threw =>
             \A m \in DOMAIN blank : FilledBy(f, m) /\ blank[m] = Default =>
                 r.obj[m] = Says(n, odd, how, m).v

LEMMA UpdateTells ==
    ASSUME NEW f, IsSequence(f.reads), NEW old, NEW blank, DOMAIN old = DOMAIN blank,
           NEW json, NEW n, NEW odd, NEW how,
           \A k \in Keys(f.reads) : json[k] = Says(n, odd, how, k)
    PROVE  Telling(f, old, blank, json, n, odd, how)
<1> DEFINE was == IF f.inPlace THEN old ELSE blank
           read == ReadInto(f.reads, was, json)
           r == After(f, old, blank, json)
<1>1. \A g \in Range(f.reads) : json[g.key] = Says(n, odd, how, g.key)
  BY DEF Keys, Range
<1>2. DOMAIN was = DOMAIN blank
  OBVIOUS
<1>3. /\ read.threw <=> \E g \in Range(f.reads) : Outcome(g, json[g.key]) = "throws"
      /\ DOMAIN read.obj = DOMAIN was
      /\ ~ read.threw => \A m \in DOMAIN was :
           \/ \E g \in Range(f.reads) :
                g.member = m /\ Outcome(g, json[g.key]) # "keeps" /\ read.obj[m] = json[g.key].v
           \/ /\ \A g \in Range(f.reads) : g.member = m => Outcome(g, json[g.key]) = "keeps"
              /\ read.obj[m] = was[m]
  <2>1. Reading(f.reads, was, json)
    BY ReadOf
  <2> QED
    BY <2>1 DEF Reading
<1>4. /\ r.threw = read.threw
      /\ r.obj = read.obj \/ r.obj = old
      /\ ~ r.threw => r.obj = read.obj
  BY DEF After
<1> HIDE DEF r, read
<1>5. r.threw <=> Throws(f.reads, odd, how)
  BY <1>1, <1>3, <1>4, Outcomes DEF Throws
<1>6. DOMAIN r.obj = DOMAIN blank
  BY <1>2, <1>3, <1>4
<1>7. ASSUME ~ r.threw, NEW m \in DOMAIN blank, FilledBy(f, m), blank[m] = Default
      PROVE  r.obj[m] = Says(n, odd, how, m).v
  <2>1. CASE \E g \in Range(f.reads) : g.member = m /\ read.obj[m] = json[g.key].v
    BY <1>1, <1>4, <1>7, <2>1 DEF FilledBy
  <2>2. CASE /\ \A g \in Range(f.reads) : g.member = m => Outcome(g, json[g.key]) = "keeps"
             /\ read.obj[m] = was[m]
    <3>1. PICK g \in Range(f.reads) : g.member = m /\ g.key = m
      BY <1>7 DEF FilledBy
    <3>2. Outcome(g, Says(n, odd, how, m)) = "keeps"
      BY <1>1, <2>2, <3>1
    <3>3. Says(n, odd, how, m).v = Default /\ (g.gone = "keeps" \/ g.null = "keeps")
      BY <3>2, Outcomes
    <3>4. ~ f.inPlace
      BY <1>7, <3>1, <3>3 DEF FilledBy
    <3> QED
      BY <1>4, <1>7, <2>2, <3>3, <3>4
  <2> QED
    BY <1>2, <1>3, <1>4, <1>7, <2>1, <2>2
<1> QED
  BY <1>5, <1>6, <1>7 DEF r, Telling

-----------------------------------------------------------------------------
(* The fields of every from_json and to_json, as a table.                  *)

Table(s, S) == IsSequence(s) /\ Range(s) = S

LEMMA Joined ==
    \A s, t, S, T : Table(s, S) /\ Table(t, T) => Table(s \o t, S \cup T)
<1> SUFFICES ASSUME NEW s, NEW t, IsSequence(s), IsSequence(t)
             PROVE  Table(s \o t, Range(s) \cup Range(t))
  BY DEF Table
<1>1. PICK S : s \in Seq(S)
  BY DEF IsSequence
<1>2. PICK T : t \in Seq(T)
  BY DEF IsSequence
<1>3. s \in Seq(S \cup T) /\ t \in Seq(S \cup T)
  BY <1>1, <1>2
<1>4. s \o t \in Seq(S \cup T)
  BY <1>3
<1>5. \A i \in DOMAIN s : i \in DOMAIN (s \o t) /\ (s \o t)[i] = s[i]
  BY <1>3
<1>6. \A i \in DOMAIN t : Len(s) + i \in DOMAIN (s \o t) /\ (s \o t)[Len(s) + i] = t[i]
  BY <1>3
<1>7. \A i \in DOMAIN (s \o t) : (i \in DOMAIN s /\ (s \o t)[i] = s[i])
         \/ (i - Len(s) \in DOMAIN t /\ (s \o t)[i] = t[i - Len(s)])
  BY <1>3
<1>8. Range(s \o t) \subseteq Range(s) \cup Range(t)
  BY <1>7 DEF Range
<1>9. Range(s) \subseteq Range(s \o t)
  BY <1>5 DEF Range
<1>10. Range(t) \subseteq Range(s \o t)
  BY <1>6 DEF Range
<1> QED
  BY <1>4, <1>8, <1>9, <1>10 DEF IsSequence, Table

LEMMA Tuple1 == \A a : Table(<<a>>, {a})
<1> SUFFICES ASSUME NEW a
             PROVE  Table(<<a>>, {a})
  OBVIOUS
<1>1. <<a>> \in Seq({a})
  OBVIOUS
<1>2. DOMAIN <<a>> = 1..1
  OBVIOUS
<1>3. Range(<<a>>) = {a}
  BY <1>2 DEF Range
<1> QED
  BY <1>1, <1>3 DEF Table, IsSequence

LEMMA Tuple2 == \A a, b : Table(<<a, b>>, {a, b})
<1> SUFFICES ASSUME NEW a, NEW b
             PROVE  Table(<<a, b>>, {a, b})
  OBVIOUS
<1>1. <<a, b>> \in Seq({a, b})
  OBVIOUS
<1>2. DOMAIN <<a, b>> = 1..2
  OBVIOUS
<1>3. Range(<<a, b>>) = {a, b}
  BY <1>2 DEF Range
<1> QED
  BY <1>1, <1>3 DEF Table, IsSequence

LEMMA Tuple3 == \A a, b, c : Table(<<a, b, c>>, {a, b, c})
<1> SUFFICES ASSUME NEW a, NEW b, NEW c
             PROVE  Table(<<a, b, c>>, {a, b, c})
  OBVIOUS
<1>1. <<a, b, c>> \in Seq({a, b, c})
  OBVIOUS
<1>2. DOMAIN <<a, b, c>> = 1..3
  OBVIOUS
<1>3. Range(<<a, b, c>>) = {a, b, c}
  BY <1>2 DEF Range
<1> QED
  BY <1>1, <1>3 DEF Table, IsSequence

LEMMA Tuple4 == \A a, b, c, d : Table(<<a, b, c, d>>, {a, b, c, d})
<1> SUFFICES ASSUME NEW a, NEW b, NEW c, NEW d
             PROVE  Table(<<a, b, c, d>>, {a, b, c, d})
  OBVIOUS
<1>1. <<a, b, c, d>> \in Seq({a, b, c, d})
  OBVIOUS
<1>2. DOMAIN <<a, b, c, d>> = 1..4
  OBVIOUS
<1>3. Range(<<a, b, c, d>>) = {a, b, c, d}
  BY <1>2 DEF Range
<1> QED
  BY <1>1, <1>3 DEF Table, IsSequence

LEMMA Tuple5 == \A a, b, c, d, e : Table(<<a, b, c, d, e>>, {a, b, c, d, e})
<1> SUFFICES ASSUME NEW a, NEW b, NEW c, NEW d, NEW e
             PROVE  Table(<<a, b, c, d, e>>, {a, b, c, d, e})
  OBVIOUS
<1>1. <<a, b, c, d, e>> \in Seq({a, b, c, d, e})
  OBVIOUS
<1>2. DOMAIN <<a, b, c, d, e>> = 1..5
  OBVIOUS
<1>3. Range(<<a, b, c, d, e>>) = {a, b, c, d, e}
  BY <1>2 DEF Range
<1> QED
  BY <1>1, <1>3 DEF Table, IsSequence

LEMMA Tuple6 == \A a, b, c, d, e, f : Table(<<a, b, c, d, e, f>>, {a, b, c, d, e, f})
<1> SUFFICES ASSUME NEW a, NEW b, NEW c, NEW d, NEW e, NEW f
             PROVE  Table(<<a, b, c, d, e, f>>, {a, b, c, d, e, f})
  OBVIOUS
<1>1. <<a, b, c, d, e, f>> \in Seq({a, b, c, d, e, f})
  OBVIOUS
<1>2. DOMAIN <<a, b, c, d, e, f>> = 1..6
  OBVIOUS
<1>3. Range(<<a, b, c, d, e, f>>) = {a, b, c, d, e, f}
  BY <1>2 DEF Range
<1> QED
  BY <1>1, <1>3 DEF Table, IsSequence

LEMMA Tuple7 == \A a, b, c, d, e, f, g : Table(<<a, b, c, d, e, f, g>>, {a, b, c, d, e, f, g})
<1> SUFFICES ASSUME NEW a, NEW b, NEW c, NEW d, NEW e, NEW f, NEW g
             PROVE  Table(<<a, b, c, d, e, f, g>>, {a, b, c, d, e, f, g})
  OBVIOUS
<1>1. <<a, b, c, d, e, f, g>> \in Seq({a, b, c, d, e, f, g})
  OBVIOUS
<1>2. DOMAIN <<a, b, c, d, e, f, g>> = 1..7
  OBVIOUS
<1>3. Range(<<a, b, c, d, e, f, g>>) = {a, b, c, d, e, f, g}
  BY <1>2 DEF Range
<1> QED
  BY <1>1, <1>3 DEF Table, IsSequence

LEMMA Tuple8 ==
    \A a, b, c, d, e, f, g, h : Table(<<a, b, c, d, e, f, g, h>>, {a, b, c, d, e, f, g, h})
<1> SUFFICES ASSUME NEW a, NEW b, NEW c, NEW d, NEW e, NEW f, NEW g, NEW h
             PROVE  Table(<<a, b, c, d, e, f, g, h>>, {a, b, c, d, e, f, g, h})
  OBVIOUS
<1>1. <<a, b, c, d, e, f, g, h>> \in Seq({a, b, c, d, e, f, g, h})
  OBVIOUS
<1>2. DOMAIN <<a, b, c, d, e, f, g, h>> = 1..8
  OBVIOUS
<1>3. Range(<<a, b, c, d, e, f, g, h>>) = {a, b, c, d, e, f, g, h}
  BY <1>2 DEF Range
<1> QED
  BY <1>1, <1>3 DEF Table, IsSequence

LEMMA Tuple9 ==
    \A a, b, c, d, e, f, g, h, i : Table(<<a, b, c, d, e, f, g, h, i>>, {a, b, c, d, e, f, g, h, i})
<1> SUFFICES ASSUME NEW a, NEW b, NEW c, NEW d, NEW e, NEW f, NEW g, NEW h, NEW i
             PROVE  Table(<<a, b, c, d, e, f, g, h, i>>, {a, b, c, d, e, f, g, h, i})
  OBVIOUS
<1>1. <<a, b, c, d, e, f, g, h, i>> \in Seq({a, b, c, d, e, f, g, h, i})
  OBVIOUS
<1>2. DOMAIN <<a, b, c, d, e, f, g, h, i>> = 1..9
  OBVIOUS
<1>3. Range(<<a, b, c, d, e, f, g, h, i>>) = {a, b, c, d, e, f, g, h, i}
  BY <1>2 DEF Range
<1> QED
  BY <1>1, <1>3 DEF Table, IsSequence

LEMMA Tuple11 ==
    \A a, b, c, d, e, f, g, h, i, j, k :
        Table(<<a, b, c, d, e, f, g, h, i, j, k>>, {a, b, c, d, e, f, g, h, i, j, k})
<1> SUFFICES ASSUME NEW a, NEW b, NEW c, NEW d, NEW e, NEW f, NEW g, NEW h, NEW i, NEW j, NEW k
             PROVE  Table(<<a, b, c, d, e, f, g, h, i, j, k>>, {a, b, c, d, e, f, g, h, i, j, k})
  OBVIOUS
<1>1. <<a, b, c, d, e, f, g, h, i, j, k>> \in Seq({a, b, c, d, e, f, g, h, i, j, k})
  OBVIOUS
<1>2. DOMAIN <<a, b, c, d, e, f, g, h, i, j, k>> = 1..11
  OBVIOUS
<1>3. Range(<<a, b, c, d, e, f, g, h, i, j, k>>) = {a, b, c, d, e, f, g, h, i, j, k}
  BY <1>2 DEF Range
<1> QED
  BY <1>1, <1>3 DEF Table, IsSequence

(* All of one sort.                                                          *)
LEMMA Mapped ==
    ASSUME NEW keys, NEW K, Table(keys, K), NEW F, NEW s, s = [i \in DOMAIN keys |-> F[keys[i]]]
    PROVE  Table(s, {F[k] : k \in K})
<1>1. PICK n \in Nat : DOMAIN keys = 1..n
  BY DEF Table, IsSequence
<1>2. s \in Seq({F[k] : k \in K})
  BY <1>1 DEF Table, Range
<1>3. DOMAIN s = 1..n /\ \A i \in 1..n : s[i] = F[keys[i]]
  BY <1>1
<1>4. Range(s) = {F[k] : k \in K}
  BY <1>1, <1>3 DEF Table, Range
<1> QED
  BY <1>2, <1>4 DEF Table, IsSequence

LEMMA AllTables ==
    \A kind, keys, K : Table(keys, K) =>
        /\ Table(All(Must, kind, keys), {Must(kind, k) : k \in K})
        /\ Table(All(MustNull, kind, keys), {MustNull(kind, k) : k \in K})
        /\ Table(All(MayNull, kind, keys), {MayNull(kind, k) : k \in K})
        /\ Table(All(May, kind, keys), {May(kind, k) : k \in K})
        /\ Table(All(IfThere, kind, keys), {IfThere(kind, k) : k \in K})
        /\ Table(All(Writes, kind, keys), {Writes(kind, k) : k \in K})
        /\ Table(All(WritesSet, kind, keys), {WritesSet(kind, k) : k \in K})
<1> SUFFICES ASSUME NEW kind, NEW keys, NEW K, Table(keys, K)
             PROVE
               /\ Table(All(Must, kind, keys), {Must(kind, k) : k \in K})
               /\ Table(All(MustNull, kind, keys), {MustNull(kind, k) : k \in K})
               /\ Table(All(MayNull, kind, keys), {MayNull(kind, k) : k \in K})
               /\ Table(All(May, kind, keys), {May(kind, k) : k \in K})
               /\ Table(All(IfThere, kind, keys), {IfThere(kind, k) : k \in K})
               /\ Table(All(Writes, kind, keys), {Writes(kind, k) : k \in K})
               /\ Table(All(WritesSet, kind, keys), {WritesSet(kind, k) : k \in K})
  OBVIOUS
<1>0. \A i \in DOMAIN keys : keys[i] \in K
  BY DEF Table, Range
<1>1. Table(All(Must, kind, keys), {Must(kind, k) : k \in K})
  <2> DEFINE F == [k \in K |-> Must(kind, k)]
  <2>1. All(Must, kind, keys) = [i \in DOMAIN keys |-> F[keys[i]]]
    BY <1>0 DEF All
  <2>2. {F[k] : k \in K} = {Must(kind, k) : k \in K}
    OBVIOUS
  <2> HIDE DEF F
  <2> QED
    BY <2>1, <2>2, Mapped
<1>2. Table(All(MustNull, kind, keys), {MustNull(kind, k) : k \in K})
  <2> DEFINE F == [k \in K |-> MustNull(kind, k)]
  <2>1. All(MustNull, kind, keys) = [i \in DOMAIN keys |-> F[keys[i]]]
    BY <1>0 DEF All
  <2>2. {F[k] : k \in K} = {MustNull(kind, k) : k \in K}
    OBVIOUS
  <2> HIDE DEF F
  <2> QED
    BY <2>1, <2>2, Mapped
<1>3. Table(All(MayNull, kind, keys), {MayNull(kind, k) : k \in K})
  <2> DEFINE F == [k \in K |-> MayNull(kind, k)]
  <2>1. All(MayNull, kind, keys) = [i \in DOMAIN keys |-> F[keys[i]]]
    BY <1>0 DEF All
  <2>2. {F[k] : k \in K} = {MayNull(kind, k) : k \in K}
    OBVIOUS
  <2> HIDE DEF F
  <2> QED
    BY <2>1, <2>2, Mapped
<1>4. Table(All(May, kind, keys), {May(kind, k) : k \in K})
  <2> DEFINE F == [k \in K |-> May(kind, k)]
  <2>1. All(May, kind, keys) = [i \in DOMAIN keys |-> F[keys[i]]]
    BY <1>0 DEF All
  <2>2. {F[k] : k \in K} = {May(kind, k) : k \in K}
    OBVIOUS
  <2> HIDE DEF F
  <2> QED
    BY <2>1, <2>2, Mapped
<1>5. Table(All(IfThere, kind, keys), {IfThere(kind, k) : k \in K})
  <2> DEFINE F == [k \in K |-> IfThere(kind, k)]
  <2>1. All(IfThere, kind, keys) = [i \in DOMAIN keys |-> F[keys[i]]]
    BY <1>0 DEF All
  <2>2. {F[k] : k \in K} = {IfThere(kind, k) : k \in K}
    OBVIOUS
  <2> HIDE DEF F
  <2> QED
    BY <2>1, <2>2, Mapped
<1>6. Table(All(Writes, kind, keys), {Writes(kind, k) : k \in K})
  <2> DEFINE F == [k \in K |-> Writes(kind, k)]
  <2>1. All(Writes, kind, keys) = [i \in DOMAIN keys |-> F[keys[i]]]
    BY <1>0 DEF All
  <2>2. {F[k] : k \in K} = {Writes(kind, k) : k \in K}
    OBVIOUS
  <2> HIDE DEF F
  <2> QED
    BY <2>1, <2>2, Mapped
<1>7. Table(All(WritesSet, kind, keys), {WritesSet(kind, k) : k \in K})
  <2> DEFINE F == [k \in K |-> WritesSet(kind, k)]
  <2>1. All(WritesSet, kind, keys) = [i \in DOMAIN keys |-> F[keys[i]]]
    BY <1>0 DEF All
  <2>2. {F[k] : k \in K} = {WritesSet(kind, k) : k \in K}
    OBVIOUS
  <2> HIDE DEF F
  <2> QED
    BY <2>1, <2>2, Mapped
<1> QED
  BY <1>1, <1>2, <1>3, <1>4, <1>5, <1>6, <1>7

(* What the fields are.                                                      *)
IsField(f, member, key, kind, gone, null) ==
    f.member = member /\ f.key = key /\ f.kind = kind /\ f.gone = gone /\ f.null = null

LEMMA FieldFacts ==
    /\ \A kind, k :
         /\ IsField(Must(kind, k), k, k, kind, "throws", "throws")
         /\ \A m : IsField(Into(m, Must(kind, k)), m, k, kind, "throws", "throws")
         /\ IsField(MustKeep(kind, k), k, k, kind, "throws", "keeps")
         /\ \A m : IsField(Into(m, MustKeep(kind, k)), m, k, kind, "throws", "keeps")
         /\ IsField(MustNull(kind, k), k, k, kind, "throws", "default")
         /\ \A m : IsField(Into(m, MustNull(kind, k)), m, k, kind, "throws", "default")
         /\ IsField(May(kind, k), k, k, kind, "default", "throws")
         /\ \A m : IsField(Into(m, May(kind, k)), m, k, kind, "default", "throws")
         /\ IsField(MayNull(kind, k), k, k, kind, "default", "default")
         /\ \A m : IsField(Into(m, MayNull(kind, k)), m, k, kind, "default", "default")
         /\ IsField(IfThere(kind, k), k, k, kind, "keeps", "throws")
         /\ \A m : IsField(Into(m, IfThere(kind, k)), m, k, kind, "keeps", "throws")
         /\ IsField(Keep(kind, k), k, k, kind, "keeps", "keeps")
         /\ \A m : IsField(Into(m, Keep(kind, k)), m, k, kind, "keeps", "keeps")
    /\ \A k : IsField(Present(k), "nothing", k, "any", "throws", "default")
    /\ \A kind, k, gone, null : IsField(Field(kind, k, gone, null), k, k, kind, gone, null)
BY DEF Must, MustKeep, MustNull, May, MayNull, IfThere, Keep, Present, Into, Field, IsField

LEMMA EmbedReadsFields ==
    Table(EmbedReads,
      {MayNull("text", k) : k \in {"title", "description", "url"}}
      \cup {MayNull("number", "color")}
      \cup {MayNull("object", k) : k \in {"footer", "image", "author", "thumbnail", "video",
           "provider"}}
      \cup {IfThere("list", "fields")})
<1>1. Table(All(MayNull, "text", <<"title", "description", "url">>), {MayNull("text", k) : k
            \in {"title", "description", "url"}})
  <2>1. Table(<<"title", "description", "url">>, {"title", "description", "url"})
    BY Tuple3
  <2> QED
    BY <2>1, AllTables
<1>2. Table(<<MayNull("number", "color")>>, {MayNull("number", "color")})
  BY Tuple1
<1>3. Table(All(MayNull, "object", <<"footer", "image", "author", "thumbnail", "video",
            "provider">>), {MayNull("object", k) : k \in {"footer", "image", "author",
            "thumbnail", "video", "provider"}})
  <2>1. Table(<<"footer", "image", "author", "thumbnail", "video", "provider">>, {"footer",
              "image", "author", "thumbnail", "video", "provider"})
    BY Tuple6
  <2> QED
    BY <2>1, AllTables
<1>4. Table(<<IfThere("list", "fields")>>, {IfThere("list", "fields")})
  BY Tuple1
<1> QED
  BY <1>1, <1>2, <1>3, <1>4, Joined DEF EmbedReads, EmbedObjects

LEMMA EmbedWritesFields ==
    Table(EmbedWrites,
      {WritesSet("text", k) : k \in {"title", "description", "url"}}
      \cup {WritesSet("object", k) : k \in {"author", "footer", "provider", "video"}}
      \cup {WritesSet("list", "fields"), WritesSet("number", "color")}
      \cup {WritesSet("object", k) : k \in {"image", "thumbnail"}})
<1>1. Table(All(WritesSet, "text", <<"title", "description", "url">>), {WritesSet("text", k) :
            k \in {"title", "description", "url"}})
  <2>1. Table(<<"title", "description", "url">>, {"title", "description", "url"})
    BY Tuple3
  <2> QED
    BY <2>1, AllTables
<1>2. Table(All(WritesSet, "object", <<"author", "footer", "provider", "video">>),
            {WritesSet("object", k) : k \in {"author", "footer", "provider", "video"}})
  <2>1. Table(<<"author", "footer", "provider", "video">>, {"author", "footer", "provider",
              "video"})
    BY Tuple4
  <2> QED
    BY <2>1, AllTables
<1>3. Table(<<WritesSet("list", "fields"), WritesSet("number", "color")>>, {WritesSet("list",
            "fields"), WritesSet("number", "color")})
  BY Tuple2
<1>4. Table(All(WritesSet, "object", <<"image", "thumbnail">>), {WritesSet("object", k) : k \in
            {"image", "thumbnail"}})
  <2>1. Table(<<"image", "thumbnail">>, {"image", "thumbnail"})
    BY Tuple2
  <2> QED
    BY <2>1, AllTables
<1> QED
  BY <1>1, <1>2, <1>3, <1>4, Joined DEF EmbedWrites

LEMMA UserReadsFields ==
    Table(UserReads,
      {MustNull("text", "id"), Must("text", "username"), May("bool", "bot"), May("text",
      "discriminator"), MustNull("text", "avatar"), May("number", "flags"),
      Into("public_flags", May("number", "flags")), Into("premium_type", May("number",
      "flags")), May("bool", "system")})
BY Tuple9 DEF UserReads

LEMMA UserReadsNcFields ==
    Table(UserReadsNc,
      {MustNull("text", "id"), Must("text", "username"), May("bool", "bot"), May("text",
      "discriminator"), MustNull("text", "avatar")})
BY Tuple5 DEF UserReadsNc

LEMMA MemberReadsFields ==
    Table(MemberReads,
      Range(UserReads)
      \cup {Keep("text", "nick"), MustNull("list", "roles")}
      \cup {Must("bool", k) : k \in {"deaf", "mute"}})
<1>1. Table(UserReads, Range(UserReads))
  BY UserReadsFields DEF Table
<1>2. Table(<<Keep("text", "nick"), MustNull("list", "roles")>>, {Keep("text", "nick"),
            MustNull("list", "roles")})
  BY Tuple2
<1>3. Table(All(Must, "bool", <<"deaf", "mute">>), {Must("bool", k) : k \in {"deaf", "mute"}})
  <2>1. Table(<<"deaf", "mute">>, {"deaf", "mute"})
    BY Tuple2
  <2> QED
    BY <2>1, AllTables
<1> QED
  BY <1>1, <1>2, <1>3, Joined DEF MemberReads

LEMMA MemberReadsNcFields ==
    Table(MemberReadsNc,
      Range(UserReadsNc)
      \cup {Keep("text", "nick"), Must("list", "roles")}
      \cup {Must("bool", k) : k \in {"deaf", "mute"}})
<1>1. Table(UserReadsNc, Range(UserReadsNc))
  BY UserReadsNcFields DEF Table
<1>2. Table(<<Keep("text", "nick"), Must("list", "roles")>>, {Keep("text", "nick"),
            Must("list", "roles")})
  BY Tuple2
<1>3. Table(All(Must, "bool", <<"deaf", "mute">>), {Must("bool", k) : k \in {"deaf", "mute"}})
  <2>1. Table(<<"deaf", "mute">>, {"deaf", "mute"})
    BY Tuple2
  <2> QED
    BY <2>1, AllTables
<1> QED
  BY <1>1, <1>2, <1>3, Joined DEF MemberReadsNc

LEMMA MemberUpdateReadsFields ==
    Table(MemberUpdateReads,
      Range(UserReads)
      \cup {MustNull("list", "roles"), Keep("text", "nick")})
<1>1. Table(UserReads, Range(UserReads))
  BY UserReadsFields DEF Table
<1>2. Table(<<MustNull("list", "roles"), Keep("text", "nick")>>, {MustNull("list", "roles"),
            Keep("text", "nick")})
  BY Tuple2
<1> QED
  BY <1>1, <1>2, Joined DEF MemberUpdateReads

LEMMA RoleReadsFields ==
    Table(RoleReads,
      {MustNull("text", "id"), Must("number", "position"), MustNull("text", "permissions")}
      \cup {Must("bool", k) : k \in {"hoist", "managed"}}
      \cup {Must("text", "name"), Must("bool", "mentionable")})
<1>1. Table(<<MustNull("text", "id"), Must("number", "position"), MustNull("text",
            "permissions")>>, {MustNull("text", "id"), Must("number", "position"),
            MustNull("text", "permissions")})
  BY Tuple3
<1>2. Table(All(Must, "bool", <<"hoist", "managed">>), {Must("bool", k) : k \in {"hoist",
            "managed"}})
  <2>1. Table(<<"hoist", "managed">>, {"hoist", "managed"})
    BY Tuple2
  <2> QED
    BY <2>1, AllTables
<1>3. Table(<<Must("text", "name"), Must("bool", "mentionable")>>, {Must("text", "name"),
            Must("bool", "mentionable")})
  BY Tuple2
<1> QED
  BY <1>1, <1>2, <1>3, Joined DEF RoleReads

LEMMA RoleReadsNcFields ==
    Table(RoleReadsNc,
      {MustNull("text", "id"), Must("number", "position"), MustNull("number", "permissions")}
      \cup {Must("bool", k) : k \in {"hoist", "managed"}}
      \cup {Must("text", "name"), Must("bool", "mentionable")})
<1>1. Table(<<MustNull("text", "id"), Must("number", "position"), MustNull("number",
            "permissions")>>, {MustNull("text", "id"), Must("number", "position"),
            MustNull("number", "permissions")})
  BY Tuple3
<1>2. Table(All(Must, "bool", <<"hoist", "managed">>), {Must("bool", k) : k \in {"hoist",
            "managed"}})
  <2>1. Table(<<"hoist", "managed">>, {"hoist", "managed"})
    BY Tuple2
  <2> QED
    BY <2>1, AllTables
<1>3. Table(<<Must("text", "name"), Must("bool", "mentionable")>>, {Must("text", "name"),
            Must("bool", "mentionable")})
  BY Tuple2
<1> QED
  BY <1>1, <1>2, <1>3, Joined DEF RoleReadsNc

LEMMA RoleWritesFields ==
    Table(RoleWrites,
      {Writes("number", "position"), Writes("text", "permissions"), Writes("text", "id")}
      \cup {Writes("bool", k) : k \in {"hoist", "mentionable"}}
      \cup {Writes("text", "name"), Writes("bool", "managed")})
<1>1. Table(<<Writes("number", "position"), Writes("text", "permissions"), Writes("text",
            "id")>>, {Writes("number", "position"), Writes("text", "permissions"),
            Writes("text", "id")})
  BY Tuple3
<1>2. Table(All(Writes, "bool", <<"hoist", "mentionable">>), {Writes("bool", k) : k \in
            {"hoist", "mentionable"}})
  <2>1. Table(<<"hoist", "mentionable">>, {"hoist", "mentionable"})
    BY Tuple2
  <2> QED
    BY <2>1, AllTables
<1>3. Table(<<Writes("text", "name"), Writes("bool", "managed")>>, {Writes("text", "name"),
            Writes("bool", "managed")})
  BY Tuple2
<1> QED
  BY <1>1, <1>2, <1>3, Joined DEF RoleWrites

LEMMA RoleWritesNcFields ==
    Table(RoleWritesNc,
      {Writes("number", "position"), Writes("number", "permissions"), Writes("text", "id")}
      \cup {Writes("bool", k) : k \in {"hoist", "mentionable"}}
      \cup {Writes("text", "name"), Writes("bool", "managed")})
<1>1. Table(<<Writes("number", "position"), Writes("number", "permissions"), Writes("text",
            "id")>>, {Writes("number", "position"), Writes("number", "permissions"),
            Writes("text", "id")})
  BY Tuple3
<1>2. Table(All(Writes, "bool", <<"hoist", "mentionable">>), {Writes("bool", k) : k \in
            {"hoist", "mentionable"}})
  <2>1. Table(<<"hoist", "mentionable">>, {"hoist", "mentionable"})
    BY Tuple2
  <2> QED
    BY <2>1, AllTables
<1>3. Table(<<Writes("text", "name"), Writes("bool", "managed")>>, {Writes("text", "name"),
            Writes("bool", "managed")})
  BY Tuple2
<1> QED
  BY <1>1, <1>2, <1>3, Joined DEF RoleWritesNc

LEMMA OverwriteReadsFields ==
    Table(OverwriteReads,
      {MustNull("text", "id"), Must("number", "type")}
      \cup {MustNull("text", k) : k \in {"allow", "deny"}})
<1>1. Table(<<MustNull("text", "id"), Must("number", "type")>>, {MustNull("text", "id"),
            Must("number", "type")})
  BY Tuple2
<1>2. Table(All(MustNull, "text", <<"allow", "deny">>), {MustNull("text", k) : k \in {"allow",
            "deny"}})
  <2>1. Table(<<"allow", "deny">>, {"allow", "deny"})
    BY Tuple2
  <2> QED
    BY <2>1, AllTables
<1> QED
  BY <1>1, <1>2, Joined DEF OverwriteReads

LEMMA OverwriteReadsNcFields ==
    Table(OverwriteReadsNc,
      {MustNull("text", "id"), Must("text", "type")}
      \cup {Must("number", k) : k \in {"allow", "deny"}})
<1>1. Table(<<MustNull("text", "id"), Must("text", "type")>>, {MustNull("text", "id"),
            Must("text", "type")})
  BY Tuple2
<1>2. Table(All(Must, "number", <<"allow", "deny">>), {Must("number", k) : k \in {"allow",
            "deny"}})
  <2>1. Table(<<"allow", "deny">>, {"allow", "deny"})
    BY Tuple2
  <2> QED
    BY <2>1, AllTables
<1> QED
  BY <1>1, <1>2, Joined DEF OverwriteReadsNc

LEMMA OverwriteWritesFields ==
    Table(OverwriteWrites,
      {Writes("text", "id"), Writes("number", "type")}
      \cup {Writes("text", k) : k \in {"allow", "deny"}})
<1>1. Table(<<Writes("text", "id"), Writes("number", "type")>>, {Writes("text", "id"),
            Writes("number", "type")})
  BY Tuple2
<1>2. Table(All(Writes, "text", <<"allow", "deny">>), {Writes("text", k) : k \in {"allow",
            "deny"}})
  <2>1. Table(<<"allow", "deny">>, {"allow", "deny"})
    BY Tuple2
  <2> QED
    BY <2>1, AllTables
<1> QED
  BY <1>1, <1>2, Joined DEF OverwriteWrites

LEMMA OverwriteWritesNcFields ==
    Table(OverwriteWritesNc,
      {Writes("text", "id"), Writes("text", "type")}
      \cup {Writes("number", k) : k \in {"allow", "deny"}})
<1>1. Table(<<Writes("text", "id"), Writes("text", "type")>>, {Writes("text", "id"),
            Writes("text", "type")})
  BY Tuple2
<1>2. Table(All(Writes, "number", <<"allow", "deny">>), {Writes("number", k) : k \in {"allow",
            "deny"}})
  <2>1. Table(<<"allow", "deny">>, {"allow", "deny"})
    BY Tuple2
  <2> QED
    BY <2>1, AllTables
<1> QED
  BY <1>1, <1>2, Joined DEF OverwriteWritesNc

LEMMA PartialEmojiReadsFields ==
    Table(PartialEmojiReads,
      {MayNull("text", "id"), May("text", "name"), May("bool", "animated")})
BY Tuple3 DEF PartialEmojiReads

LEMMA GuildReadsFields ==
    Table(GuildReads,
      {MustNull("text", "id"), Must("text", "name"), MustNull("text", "icon"), MustNull("text",
      "splash"), MustNull("text", "owner_id"), MayNull("text", "permissions"), Must("text",
      "region"), MustNull("text", "afk_channel_id")}
      \cup {Must("number", k) : k \in {"afk_timeout", "verification_level",
           "default_message_notifications", "explicit_content_filter"}}
      \cup {MustNull("list", "roles")}
      \cup {Must("list", k) : k \in {"emojis", "features"}}
      \cup {Must("number", "mfa_level"), Keep("text", "application_id"), May("bool",
           "widget_enabled"), Into("nothing", MayNull("text", "widget_channel_id")),
           MustNull("text", "system_channel_id")})
<1>1. Table(<<MustNull("text", "id"), Must("text", "name"), MustNull("text", "icon"),
            MustNull("text", "splash"), MustNull("text", "owner_id"), MayNull("text",
            "permissions"), Must("text", "region"), MustNull("text", "afk_channel_id")>>,
            {MustNull("text", "id"), Must("text", "name"), MustNull("text", "icon"),
            MustNull("text", "splash"), MustNull("text", "owner_id"), MayNull("text",
            "permissions"), Must("text", "region"), MustNull("text", "afk_channel_id")})
  BY Tuple8
<1>2. Table(All(Must, "number", <<"afk_timeout", "verification_level",
            "default_message_notifications", "explicit_content_filter">>), {Must("number", k) :
            k \in {"afk_timeout", "verification_level", "default_message_notifications",
            "explicit_content_filter"}})
  <2>1. Table(<<"afk_timeout", "verification_level", "default_message_notifications",
              "explicit_content_filter">>, {"afk_timeout", "verification_level",
              "default_message_notifications", "explicit_content_filter"})
    BY Tuple4
  <2> QED
    BY <2>1, AllTables
<1>3. Table(<<MustNull("list", "roles")>>, {MustNull("list", "roles")})
  BY Tuple1
<1>4. Table(All(Must, "list", <<"emojis", "features">>), {Must("list", k) : k \in {"emojis",
            "features"}})
  <2>1. Table(<<"emojis", "features">>, {"emojis", "features"})
    BY Tuple2
  <2> QED
    BY <2>1, AllTables
<1>5. Table(<<Must("number", "mfa_level"), Keep("text", "application_id"), May("bool",
            "widget_enabled"), Into("nothing", MayNull("text", "widget_channel_id")),
            MustNull("text", "system_channel_id")>>, {Must("number", "mfa_level"), Keep("text",
            "application_id"), May("bool", "widget_enabled"), Into("nothing", MayNull("text",
            "widget_channel_id")), MustNull("text", "system_channel_id")})
  BY Tuple5
<1> QED
  BY <1>1, <1>2, <1>3, <1>4, <1>5, Joined DEF GuildReads

LEMMA GuildReadsNcFields ==
    Table(GuildReadsNc,
      {MustNull("text", "id"), Must("text", "name"), MustNull("text", "icon"), MustNull("text",
      "splash"), MustNull("text", "owner_id"), MayNull("number", "permissions"), Must("text",
      "region"), MustNull("text", "afk_channel_id"), Must("number", "afk_timeout"), May("bool",
      "embed_enabled"), MayNull("text", "embed_channel_id")}
      \cup {Must("number", k) : k \in {"verification_level", "default_message_notifications",
           "explicit_content_filter"}}
      \cup {MustNull("list", "roles")}
      \cup {Must("list", k) : k \in {"emojis", "features"}}
      \cup {Must("number", "mfa_level"), Keep("text", "application_id"), May("bool",
           "widget_enabled"), Into("nothing", MayNull("text", "widget_channel_id")),
           MustNull("text", "system_channel_id")})
<1>1. Table(<<MustNull("text", "id"), Must("text", "name"), MustNull("text", "icon"),
            MustNull("text", "splash"), MustNull("text", "owner_id"), MayNull("number",
            "permissions"), Must("text", "region"), MustNull("text", "afk_channel_id"),
            Must("number", "afk_timeout"), May("bool", "embed_enabled"), MayNull("text",
            "embed_channel_id")>>, {MustNull("text", "id"), Must("text", "name"),
            MustNull("text", "icon"), MustNull("text", "splash"), MustNull("text", "owner_id"),
            MayNull("number", "permissions"), Must("text", "region"), MustNull("text",
            "afk_channel_id"), Must("number", "afk_timeout"), May("bool", "embed_enabled"),
            MayNull("text", "embed_channel_id")})
  BY Tuple11
<1>2. Table(All(Must, "number", <<"verification_level", "default_message_notifications",
            "explicit_content_filter">>), {Must("number", k) : k \in {"verification_level",
            "default_message_notifications", "explicit_content_filter"}})
  <2>1. Table(<<"verification_level", "default_message_notifications",
              "explicit_content_filter">>, {"verification_level",
              "default_message_notifications", "explicit_content_filter"})
    BY Tuple3
  <2> QED
    BY <2>1, AllTables
<1>3. Table(<<MustNull("list", "roles")>>, {MustNull("list", "roles")})
  BY Tuple1
<1>4. Table(All(Must, "list", <<"emojis", "features">>), {Must("list", k) : k \in {"emojis",
            "features"}})
  <2>1. Table(<<"emojis", "features">>, {"emojis", "features"})
    BY Tuple2
  <2> QED
    BY <2>1, AllTables
<1>5. Table(<<Must("number", "mfa_level"), Keep("text", "application_id"), May("bool",
            "widget_enabled"), Into("nothing", MayNull("text", "widget_channel_id")),
            MustNull("text", "system_channel_id")>>, {Must("number", "mfa_level"), Keep("text",
            "application_id"), May("bool", "widget_enabled"), Into("nothing", MayNull("text",
            "widget_channel_id")), MustNull("text", "system_channel_id")})
  BY Tuple5
<1> QED
  BY <1>1, <1>2, <1>3, <1>4, <1>5, Joined DEF GuildReadsNc

LEMMA WholeGuildReadsFields ==
    Table(WholeGuildReads,
      Range(GuildReads)
      \cup {Must("bool", k) : k \in {"large", "unavailable"}}
      \cup {Must("number", "member_count"), Must("list", "voice_states")})
<1>1. Table(GuildReads, Range(GuildReads))
  BY GuildReadsFields DEF Table
<1>2. Table(All(Must, "bool", <<"large", "unavailable">>), {Must("bool", k) : k \in {"large",
            "unavailable"}})
  <2>1. Table(<<"large", "unavailable">>, {"large", "unavailable"})
    BY Tuple2
  <2> QED
    BY <2>1, AllTables
<1>3. Table(<<Must("number", "member_count"), Must("list", "voice_states")>>, {Must("number",
            "member_count"), Must("list", "voice_states")})
  BY Tuple2
<1> QED
  BY <1>1, <1>2, <1>3, Joined DEF WholeGuildReads

LEMMA WholeGuildReadsNcFields ==
    Table(WholeGuildReadsNc,
      Range(GuildReadsNc)
      \cup {Must("bool", k) : k \in {"large", "unavailable"}}
      \cup {Must("number", "member_count"), Must("list", "voice_states"), MustNull("list",
           "channels")})
<1>1. Table(GuildReadsNc, Range(GuildReadsNc))
  BY GuildReadsNcFields DEF Table
<1>2. Table(All(Must, "bool", <<"large", "unavailable">>), {Must("bool", k) : k \in {"large",
            "unavailable"}})
  <2>1. Table(<<"large", "unavailable">>, {"large", "unavailable"})
    BY Tuple2
  <2> QED
    BY <2>1, AllTables
<1>3. Table(<<Must("number", "member_count"), Must("list", "voice_states"), MustNull("list",
            "channels")>>, {Must("number", "member_count"), Must("list", "voice_states"),
            MustNull("list", "channels")})
  BY Tuple3
<1> QED
  BY <1>1, <1>2, <1>3, Joined DEF WholeGuildReadsNc

LEMMA IntegrationReadsFields ==
    Table(IntegrationReads,
      {Must("bool", k) : k \in {"enabled", "syncing"}}
      \cup {MustNull("text", "role_id"), MayNull("bool", "enable_emoticons"),
           Present("expire_behavior"), Must("number", "expire_grace_period"), Must("object",
           "user"), Present("synced_at")})
<1>1. Table(All(Must, "bool", <<"enabled", "syncing">>), {Must("bool", k) : k \in {"enabled",
            "syncing"}})
  <2>1. Table(<<"enabled", "syncing">>, {"enabled", "syncing"})
    BY Tuple2
  <2> QED
    BY <2>1, AllTables
<1>2. Table(<<MustNull("text", "role_id"), MayNull("bool", "enable_emoticons"),
            Present("expire_behavior"), Must("number", "expire_grace_period"), Must("object",
            "user"), Present("synced_at")>>, {MustNull("text", "role_id"), MayNull("bool",
            "enable_emoticons"), Present("expire_behavior"), Must("number",
            "expire_grace_period"), Must("object", "user"), Present("synced_at")})
  BY Tuple6
<1> QED
  BY <1>1, <1>2, Joined DEF IntegrationReads

LEMMA PartialIntegrationFields ==
    Table(PartialIntegration.reads,
      {MustNull("text", "id")}
      \cup {Must("text", k) : k \in {"name", "type"}}
      \cup {Must("object", "account")})
<1>1. Table(<<MustNull("text", "id")>>, {MustNull("text", "id")})
  BY Tuple1
<1>2. Table(All(Must, "text", <<"name", "type">>), {Must("text", k) : k \in {"name", "type"}})
  <2>1. Table(<<"name", "type">>, {"name", "type"})
    BY Tuple2
  <2> QED
    BY <2>1, AllTables
<1>3. Table(<<Must("object", "account")>>, {Must("object", "account")})
  BY Tuple1
<1> QED
  BY <1>1, <1>2, <1>3, Joined DEF PartialIntegration, Object, Part

LEMMA IntegrationAccountFields ==
    Table(IntegrationAccount.reads,
      {Must("text", k) : k \in {"id", "name"}})
<1>1. Table(<<"id", "name">>, {"id", "name"})
  BY Tuple2
<1> QED
  BY <1>1, AllTables DEF IntegrationAccount, Object, Part

LEMMA TemplateFields ==
    Table(Template.reads,
      {Must("text", k) : k \in {"code", "name"}}
      \cup {MayNull("text", "discription"), Must("number", "usage_count"), MustNull("text",
           "creator_id"), Must("object", "creator"), Present("created_at"),
           Present("updated_at"), MustNull("text", "source_guild_id"), MayNull("bool",
           "is_dirty")})
<1>1. Table(All(Must, "text", <<"code", "name">>), {Must("text", k) : k \in {"code", "name"}})
  <2>1. Table(<<"code", "name">>, {"code", "name"})
    BY Tuple2
  <2> QED
    BY <2>1, AllTables
<1>2. Table(<<MayNull("text", "discription"), Must("number", "usage_count"), MustNull("text",
            "creator_id"), Must("object", "creator"), Present("created_at"),
            Present("updated_at"), MustNull("text", "source_guild_id"), MayNull("bool",
            "is_dirty")>>, {MayNull("text", "discription"), Must("number", "usage_count"),
            MustNull("text", "creator_id"), Must("object", "creator"), Present("created_at"),
            Present("updated_at"), MustNull("text", "source_guild_id"), MayNull("bool",
            "is_dirty")})
  BY Tuple8
<1> QED
  BY <1>1, <1>2, Joined DEF Template, Object, Part

LEMMA ChannelReadsFields ==
    Table(ChannelReads,
      {MustNull("text", "id"), May("text", "name"), May("number", "type")})
BY Tuple3 DEF ChannelReads

LEMMA ChannelReadsNcFields ==
    Table(ChannelReadsNc,
      {MustNull("text", "id"), May("text", "name")})
BY Tuple2 DEF ChannelReadsNc

LEMMA GuildChannelReadsFields ==
    Table(GuildChannelReads,
      Range(ChannelReads)
      \cup {MayNull("text", "guild_id"), May("bool", "nsfw"), Must("number", "position"),
           Must("list", "permission_overwrites"), MayNull("text", "parent_id")})
<1>1. Table(ChannelReads, Range(ChannelReads))
  BY ChannelReadsFields DEF Table
<1>2. Table(<<MayNull("text", "guild_id"), May("bool", "nsfw"), Must("number", "position"),
            Must("list", "permission_overwrites"), MayNull("text", "parent_id")>>,
            {MayNull("text", "guild_id"), May("bool", "nsfw"), Must("number", "position"),
            Must("list", "permission_overwrites"), MayNull("text", "parent_id")})
  BY Tuple5
<1> QED
  BY <1>1, <1>2, Joined DEF GuildChannelReads

LEMMA GuildChannelReadsNcFields ==
    Table(GuildChannelReadsNc,
      Range(ChannelReadsNc)
      \cup {MayNull("text", "guild_id"), May("bool", "nsfw"), Must("number", "position"),
           Must("list", "permission_overwrites"), MayNull("text", "parent_id")})
<1>1. Table(ChannelReadsNc, Range(ChannelReadsNc))
  BY ChannelReadsNcFields DEF Table
<1>2. Table(<<MayNull("text", "guild_id"), May("bool", "nsfw"), Must("number", "position"),
            Must("list", "permission_overwrites"), MayNull("text", "parent_id")>>,
            {MayNull("text", "guild_id"), May("bool", "nsfw"), Must("number", "position"),
            Must("list", "permission_overwrites"), MayNull("text", "parent_id")})
  BY Tuple5
<1> QED
  BY <1>1, <1>2, Joined DEF GuildChannelReadsNc

LEMMA TextChannelReadsFields ==
    Table(TextChannelReads,
      Range(GuildChannelReads)
      \cup {MustNull("text", "topic")})
<1>1. Table(GuildChannelReads, Range(GuildChannelReads))
  BY GuildChannelReadsFields DEF Table
<1>2. Table(<<MustNull("text", "topic")>>, {MustNull("text", "topic")})
  BY Tuple1
<1> QED
  BY <1>1, <1>2, Joined DEF TextChannelReads

LEMMA TextChannelReadsNcFields ==
    Table(TextChannelReadsNc,
      Range(GuildChannelReadsNc)
      \cup {MustNull("text", "topic"), MayNull("text", "last_message_id")})
<1>1. Table(GuildChannelReadsNc, Range(GuildChannelReadsNc))
  BY GuildChannelReadsNcFields DEF Table
<1>2. Table(<<MustNull("text", "topic"), MayNull("text", "last_message_id")>>,
            {MustNull("text", "topic"), MayNull("text", "last_message_id")})
  BY Tuple2
<1> QED
  BY <1>1, <1>2, Joined DEF TextChannelReadsNc

LEMMA VoiceChannelReadsFields ==
    Table(VoiceChannelReads,
      Range(GuildChannelReads)
      \cup {Must("number", k) : k \in {"user_limit", "bitrate"}})
<1>1. Table(GuildChannelReads, Range(GuildChannelReads))
  BY GuildChannelReadsFields DEF Table
<1>2. Table(All(Must, "number", <<"user_limit", "bitrate">>), {Must("number", k) : k \in
            {"user_limit", "bitrate"}})
  <2>1. Table(<<"user_limit", "bitrate">>, {"user_limit", "bitrate"})
    BY Tuple2
  <2> QED
    BY <2>1, AllTables
<1> QED
  BY <1>1, <1>2, Joined DEF VoiceChannelReads

LEMMA VoiceChannelReadsNcFields ==
    Table(VoiceChannelReadsNc,
      Range(GuildChannelReadsNc)
      \cup {Must("number", k) : k \in {"user_limit", "bitrate"}})
<1>1. Table(GuildChannelReadsNc, Range(GuildChannelReadsNc))
  BY GuildChannelReadsNcFields DEF Table
<1>2. Table(All(Must, "number", <<"user_limit", "bitrate">>), {Must("number", k) : k \in
            {"user_limit", "bitrate"}})
  <2>1. Table(<<"user_limit", "bitrate">>, {"user_limit", "bitrate"})
    BY Tuple2
  <2> QED
    BY <2>1, AllTables
<1> QED
  BY <1>1, <1>2, Joined DEF VoiceChannelReadsNc

LEMMA DmChannelReadsFields ==
    Table(DmChannelReads,
      Range(ChannelReads)
      \cup {MustNull("list", "recipients"), MustNull("text", "last_message_id")})
<1>1. Table(ChannelReads, Range(ChannelReads))
  BY ChannelReadsFields DEF Table
<1>2. Table(<<MustNull("list", "recipients"), MustNull("text", "last_message_id")>>,
            {MustNull("list", "recipients"), MustNull("text", "last_message_id")})
  BY Tuple2
<1> QED
  BY <1>1, <1>2, Joined DEF DmChannelReads

LEMMA DmChannelReadsNcFields ==
    Table(DmChannelReadsNc,
      Range(ChannelReadsNc)
      \cup {MustNull("list", "recipients"), MustNull("text", "last_message_id")})
<1>1. Table(ChannelReadsNc, Range(ChannelReadsNc))
  BY ChannelReadsNcFields DEF Table
<1>2. Table(<<MustNull("list", "recipients"), MustNull("text", "last_message_id")>>,
            {MustNull("list", "recipients"), MustNull("text", "last_message_id")})
  BY Tuple2
<1> QED
  BY <1>1, <1>2, Joined DEF DmChannelReadsNc

LEMMA MessageReadsFields ==
    Table(MessageReads,
      {MustNull("text", "author")}
      \cup {MustNull("text", k) : k \in {"id", "channel_id"}}
      \cup {Must("text", "content"), Must("bool", "mention_everyone"), Present("timestamp"),
           Must("bool", "tts"), MustNull("list", "attachments"), MayNull("list", "reactions"),
           MustNull("list", "embeds"), Must("number", "type"), May("object",
           "message_reference")})
<1>1. Table(<<MustNull("text", "author")>>, {MustNull("text", "author")})
  BY Tuple1
<1>2. Table(All(MustNull, "text", <<"id", "channel_id">>), {MustNull("text", k) : k \in {"id",
            "channel_id"}})
  <2>1. Table(<<"id", "channel_id">>, {"id", "channel_id"})
    BY Tuple2
  <2> QED
    BY <2>1, AllTables
<1>3. Table(<<Must("text", "content"), Must("bool", "mention_everyone"), Present("timestamp"),
            Must("bool", "tts"), MustNull("list", "attachments"), MayNull("list", "reactions"),
            MustNull("list", "embeds"), Must("number", "type"), May("object",
            "message_reference")>>, {Must("text", "content"), Must("bool", "mention_everyone"),
            Present("timestamp"), Must("bool", "tts"), MustNull("list", "attachments"),
            MayNull("list", "reactions"), MustNull("list", "embeds"), Must("number", "type"),
            May("object", "message_reference")})
  BY Tuple9
<1> QED
  BY <1>1, <1>2, <1>3, Joined DEF MessageReads

LEMMA MessageReadsNcFields ==
    Table(MessageReadsNc,
      {MustNull("text", "author")}
      \cup {MustNull("text", k) : k \in {"id", "channel_id"}}
      \cup {Must("text", "content"), Must("bool", "mention_everyone"), Present("timestamp"),
           Must("bool", "tts"), Must("list", "attachments"), May("list", "reactions")})
<1>1. Table(<<MustNull("text", "author")>>, {MustNull("text", "author")})
  BY Tuple1
<1>2. Table(All(MustNull, "text", <<"id", "channel_id">>), {MustNull("text", k) : k \in {"id",
            "channel_id"}})
  <2>1. Table(<<"id", "channel_id">>, {"id", "channel_id"})
    BY Tuple2
  <2> QED
    BY <2>1, AllTables
<1>3. Table(<<Must("text", "content"), Must("bool", "mention_everyone"), Present("timestamp"),
            Must("bool", "tts"), Must("list", "attachments"), May("list", "reactions")>>,
            {Must("text", "content"), Must("bool", "mention_everyone"), Present("timestamp"),
            Must("bool", "tts"), Must("list", "attachments"), May("list", "reactions")})
  BY Tuple6
<1> QED
  BY <1>1, <1>2, <1>3, Joined DEF MessageReadsNc

LEMMA MsgUpdateReadsFields ==
    Table(MsgUpdateReads,
      {IfThere("text", "author")}
      \cup {MustNull("text", k) : k \in {"id", "channel_id"}}
      \cup {May("text", "content"), May("bool", "mention_everyone"), May("bool", "tts"),
           MayNull("bool", "mention_everyone")}
      \cup {May("list", k) : k \in {"attachments", "reactions"}})
<1>1. Table(<<IfThere("text", "author")>>, {IfThere("text", "author")})
  BY Tuple1
<1>2. Table(All(MustNull, "text", <<"id", "channel_id">>), {MustNull("text", k) : k \in {"id",
            "channel_id"}})
  <2>1. Table(<<"id", "channel_id">>, {"id", "channel_id"})
    BY Tuple2
  <2> QED
    BY <2>1, AllTables
<1>3. Table(<<May("text", "content"), May("bool", "mention_everyone"), May("bool", "tts"),
            MayNull("bool", "mention_everyone")>>, {May("text", "content"), May("bool",
            "mention_everyone"), May("bool", "tts"), MayNull("bool", "mention_everyone")})
  BY Tuple4
<1>4. Table(All(May, "list", <<"attachments", "reactions">>), {May("list", k) : k \in
            {"attachments", "reactions"}})
  <2>1. Table(<<"attachments", "reactions">>, {"attachments", "reactions"})
    BY Tuple2
  <2> QED
    BY <2>1, AllTables
<1> QED
  BY <1>1, <1>2, <1>3, <1>4, Joined DEF MsgUpdateReads

LEMMA MessageReferenceFields ==
    Table(MessageReference.reads,
      {MayNull("text", k) : k \in {"guild_id", "channel_id", "message_id"}})
<1>1. Table(<<"guild_id", "channel_id", "message_id">>, {"guild_id", "channel_id",
            "message_id"})
  BY Tuple3
<1> QED
  BY <1>1, AllTables DEF MessageReference, Object, Part

LEMMA AttachmentReadsFields ==
    Table(AttachmentReads,
      {MustNull("text", "id"), Must("text", "filename"), Must("number", "size")}
      \cup {Must("text", k) : k \in {"url", "proxy_url"}})
<1>1. Table(<<MustNull("text", "id"), Must("text", "filename"), Must("number", "size")>>,
            {MustNull("text", "id"), Must("text", "filename"), Must("number", "size")})
  BY Tuple3
<1>2. Table(All(Must, "text", <<"url", "proxy_url">>), {Must("text", k) : k \in {"url",
            "proxy_url"}})
  <2>1. Table(<<"url", "proxy_url">>, {"url", "proxy_url"})
    BY Tuple2
  <2> QED
    BY <2>1, AllTables
<1> QED
  BY <1>1, <1>2, Joined DEF AttachmentReads

LEMMA ReactionReadsFields ==
    Table(ReactionReads,
      {Must("number", "count"), Must("bool", "me"), Must("object", "emoji")})
BY Tuple3 DEF ReactionReads

LEMMA VoiceStateReadsFields ==
    Table(VoiceStateReads,
      {MustNull("text", k) : k \in {"channel_id", "user_id"}}
      \cup {Must("text", "session_id")}
      \cup {Must("bool", k) : k \in {"deaf", "mute", "self_deaf", "self_mute", "suppress"}}
      \cup {MayNull("object", "member")})
<1>1. Table(All(MustNull, "text", <<"channel_id", "user_id">>), {MustNull("text", k) : k \in
            {"channel_id", "user_id"}})
  <2>1. Table(<<"channel_id", "user_id">>, {"channel_id", "user_id"})
    BY Tuple2
  <2> QED
    BY <2>1, AllTables
<1>2. Table(<<Must("text", "session_id")>>, {Must("text", "session_id")})
  BY Tuple1
<1>3. Table(All(Must, "bool", <<"deaf", "mute", "self_deaf", "self_mute", "suppress">>),
            {Must("bool", k) : k \in {"deaf", "mute", "self_deaf", "self_mute", "suppress"}})
  <2>1. Table(<<"deaf", "mute", "self_deaf", "self_mute", "suppress">>, {"deaf", "mute",
              "self_deaf", "self_mute", "suppress"})
    BY Tuple5
  <2> QED
    BY <2>1, AllTables
<1>4. Table(<<MayNull("object", "member")>>, {MayNull("object", "member")})
  BY Tuple1
<1> QED
  BY <1>1, <1>2, <1>3, <1>4, Joined DEF VoiceStateReads

LEMMA VoiceStateReadsNcFields ==
    Table(VoiceStateReadsNc,
      {MustNull("text", k) : k \in {"channel_id", "user_id"}}
      \cup {Must("text", "session_id")}
      \cup {Must("bool", k) : k \in {"deaf", "mute", "self_deaf", "self_mute", "suppress"}}
      \cup {IfThere("object", "member"), Field("text", "guild_id", "keeps", "default")})
<1>1. Table(All(MustNull, "text", <<"channel_id", "user_id">>), {MustNull("text", k) : k \in
            {"channel_id", "user_id"}})
  <2>1. Table(<<"channel_id", "user_id">>, {"channel_id", "user_id"})
    BY Tuple2
  <2> QED
    BY <2>1, AllTables
<1>2. Table(<<Must("text", "session_id")>>, {Must("text", "session_id")})
  BY Tuple1
<1>3. Table(All(Must, "bool", <<"deaf", "mute", "self_deaf", "self_mute", "suppress">>),
            {Must("bool", k) : k \in {"deaf", "mute", "self_deaf", "self_mute", "suppress"}})
  <2>1. Table(<<"deaf", "mute", "self_deaf", "self_mute", "suppress">>, {"deaf", "mute",
              "self_deaf", "self_mute", "suppress"})
    BY Tuple5
  <2> QED
    BY <2>1, AllTables
<1>4. Table(<<IfThere("object", "member"), Field("text", "guild_id", "keeps", "default")>>,
            {IfThere("object", "member"), Field("text", "guild_id", "keeps", "default")})
  BY Tuple2
<1> QED
  BY <1>1, <1>2, <1>3, <1>4, Joined DEF VoiceStateReadsNc

LEMMA VoiceState2Fields ==
    Table(VoiceState2.reads,
      Range(VoiceStateReads)
      \cup {MustNull("text", "guild_id")})
<1>1. Table(VoiceStateReads, Range(VoiceStateReads))
  BY VoiceStateReadsFields DEF Table
<1>2. Table(<<MustNull("text", "guild_id")>>, {MustNull("text", "guild_id")})
  BY Tuple1
<1> QED
  BY <1>1, <1>2, Joined DEF VoiceState2, Object, Part

LEMMA VoiceState2NcFields ==
    Table(VoiceState2Nc.reads,
      Range(VoiceStateReadsNc)
      \cup {MustNull("text", "guild_id")})
<1>1. Table(VoiceStateReadsNc, Range(VoiceStateReadsNc))
  BY VoiceStateReadsNcFields DEF Table
<1>2. Table(<<MustNull("text", "guild_id")>>, {MustNull("text", "guild_id")})
  BY Tuple1
<1> QED
  BY <1>1, <1>2, Joined DEF VoiceState2Nc, Public, Object, Part

LEMMA VoiceRegionFields ==
    Table(VoiceRegion.reads,
      {Must("text", k) : k \in {"id", "name"}}
      \cup {Must("bool", k) : k \in {"vip", "optimal", "depricated", "custom"}})
<1>1. Table(All(Must, "text", <<"id", "name">>), {Must("text", k) : k \in {"id", "name"}})
  <2>1. Table(<<"id", "name">>, {"id", "name"})
    BY Tuple2
  <2> QED
    BY <2>1, AllTables
<1>2. Table(All(Must, "bool", <<"vip", "optimal", "depricated", "custom">>), {Must("bool", k) :
            k \in {"vip", "optimal", "depricated", "custom"}})
  <2>1. Table(<<"vip", "optimal", "depricated", "custom">>, {"vip", "optimal", "depricated",
              "custom"})
    BY Tuple4
  <2> QED
    BY <2>1, AllTables
<1> QED
  BY <1>1, <1>2, Joined DEF VoiceRegion, Object, Part

LEMMA ActivityReadsFields ==
    Table(ActivityReads,
      {Must("text", "name"), Must("number", "type")})
BY Tuple2 DEF ActivityReads

LEMMA PresenceReadsFields ==
    Table(PresenceReads,
      {MustNull("text", "user"), Must("number", "status"), MustKeep("object", "game")})
BY Tuple3 DEF PresenceReads

LEMMA ClientStatusNcFields ==
    Table(ClientStatusNc.reads,
      {IfThere("text", k) : k \in {"desktop", "mobile", "web"}})
<1>1. Table(<<"desktop", "mobile", "web">>, {"desktop", "mobile", "web"})
  BY Tuple3
<1> QED
  BY <1>1, AllTables DEF ClientStatusNc, Public, Object, Part

LEMMA InviteGuildFields ==
    Table(InviteGuild.reads,
      {MustNull("text", "id")}
      \cup {Must("text", k) : k \in {"name", "splash", "icon"}})
<1>1. Table(<<MustNull("text", "id")>>, {MustNull("text", "id")})
  BY Tuple1
<1>2. Table(All(Must, "text", <<"name", "splash", "icon">>), {Must("text", k) : k \in {"name",
            "splash", "icon"}})
  <2>1. Table(<<"name", "splash", "icon">>, {"name", "splash", "icon"})
    BY Tuple3
  <2> QED
    BY <2>1, AllTables
<1> QED
  BY <1>1, <1>2, Joined DEF InviteGuild, Object, Part

LEMMA InviteChannelFields ==
    Table(InviteChannel.reads,
      {MustNull("text", "id"), Must("text", "name"), Must("number", "type")})
BY Tuple3 DEF InviteChannel, Object, Part

LEMMA InviteFields ==
    Table(Invite.reads,
      {Must("text", "code")}
      \cup {Must("object", k) : k \in {"guild", "channel"}})
<1>1. Table(<<Must("text", "code")>>, {Must("text", "code")})
  BY Tuple1
<1>2. Table(All(Must, "object", <<"guild", "channel">>), {Must("object", k) : k \in {"guild",
            "channel"}})
  <2>1. Table(<<"guild", "channel">>, {"guild", "channel"})
    BY Tuple2
  <2> QED
    BY <2>1, AllTables
<1> QED
  BY <1>1, <1>2, Joined DEF Invite, Object, Part

LEMMA InviteMetadataFields ==
    Table(InviteMetadata.reads,
      {Must("number", "max_uses")})
BY Tuple1 DEF InviteMetadata, Object, Part

LEMMA WebhookFields ==
    Table(Webhook.reads,
      {MustNull("text", "id"), Must("number", "type"), MayNull("text", "guild_id"),
      MustNull("text", "channel_id"), MayNull("text", "name"), MustKeep("text", "avatar"),
      MayNull("text", "token")})
BY Tuple7 DEF Webhook, Object, Part

LEMMA UnavailableGuildNcFields ==
    Table(UnavailableGuildNc.reads,
      {MustNull("text", "guild_id"), Must("bool", "unavailable")})
BY Tuple2 DEF UnavailableGuildNc, Public, Object, Part

LEMMA EntryInfoReadsFields ==
    Table(EntryInfoReads,
      {MayNull("text", k) : k \in {"delete_member_days", "members_removed", "channel_id",
      "message_id", "count", "id", "type", "role_name"}})
<1>1. Table(<<"delete_member_days", "members_removed", "channel_id", "message_id", "count",
            "id", "type", "role_name">>, {"delete_member_days", "members_removed",
            "channel_id", "message_id", "count", "id", "type", "role_name"})
  BY Tuple8
<1> QED
  BY <1>1, AllTables DEF EntryInfoReads

LEMMA EntryRestFields ==
    Table(EntryRest,
      {May("list", "changes")}
      \cup {MustNull("text", k) : k \in {"user_id", "id"}}
      \cup {Must("number", "action_type"), MayNull("object", "options"), MayNull("text",
           "reason")})
<1>1. Table(<<May("list", "changes")>>, {May("list", "changes")})
  BY Tuple1
<1>2. Table(All(MustNull, "text", <<"user_id", "id">>), {MustNull("text", k) : k \in
            {"user_id", "id"}})
  <2>1. Table(<<"user_id", "id">>, {"user_id", "id"})
    BY Tuple2
  <2> QED
    BY <2>1, AllTables
<1>3. Table(<<Must("number", "action_type"), MayNull("object", "options"), MayNull("text",
            "reason")>>, {Must("number", "action_type"), MayNull("object", "options"),
            MayNull("text", "reason")})
  BY Tuple3
<1> QED
  BY <1>1, <1>2, <1>3, Joined DEF EntryRest

LEMMA EntryReadsFields ==
    Table(EntryReads,
      {MayNull("text", "target_id")}
      \cup Range(EntryRest))
<1>1. Table(<<MayNull("text", "target_id")>>, {MayNull("text", "target_id")})
  BY Tuple1
<1>2. Table(EntryRest, Range(EntryRest))
  BY EntryRestFields DEF Table
<1> QED
  BY <1>1, <1>2, Joined DEF EntryReads

LEMMA AuditLogReadsFields ==
    Table(AuditLogReads,
      {Must("list", k) : k \in {"webhooks", "users", "integrations", "audit_log_entries"}})
<1>1. Table(<<"webhooks", "users", "integrations", "audit_log_entries">>, {"webhooks", "users",
            "integrations", "audit_log_entries"})
  BY Tuple4
<1> QED
  BY <1>1, AllTables DEF AuditLogReads

LEMMA LogEntryFields ==
    Table(LogEntry.reads,
      {Into("m_target_id", MayNull("text", "target_id"))}
      \cup Range(EntryRest)
      \cup {Into("target_id", MustNull("text", "id"))})
<1>1. Table(<<Into("m_target_id", MayNull("text", "target_id"))>>, {Into("m_target_id",
            MayNull("text", "target_id"))})
  BY Tuple1
<1>2. Table(EntryRest, Range(EntryRest))
  BY EntryRestFields DEF Table
<1>3. Table(<<Into("target_id", MustNull("text", "id"))>>, {Into("target_id", MustNull("text",
            "id"))})
  BY Tuple1
<1> QED
  BY <1>1, <1>2, <1>3, Joined DEF LogEntry, Object, Part

LEMMA ChangedRoleFields ==
    ASSUME NEW permissions
    PROVE  Table(ChangedRoleReads(permissions),
      {MayNull("text", "name"), Field(permissions, "permissions", "keeps", "default"),
      MayNull("text", "id"), May("number", "color"), May("number", "position")}
      \cup {MayNull("bool", k) : k \in {"hoist", "managed", "mentionable"}})
<1>1. Table(<<MayNull("text", "name"), Field(permissions, "permissions", "keeps", "default"),
            MayNull("text", "id"), May("number", "color"), May("number", "position")>>,
            {MayNull("text", "name"), Field(permissions, "permissions", "keeps", "default"),
            MayNull("text", "id"), May("number", "color"), May("number", "position")})
  BY Tuple5
<1>2. Table(All(MayNull, "bool", <<"hoist", "managed", "mentionable">>), {MayNull("bool", k) :
            k \in {"hoist", "managed", "mentionable"}})
  <2>1. Table(<<"hoist", "managed", "mentionable">>, {"hoist", "managed", "mentionable"})
    BY Tuple3
  <2> QED
    BY <2>1, AllTables
<1> QED
  BY <1>1, <1>2, Joined DEF ChangedRoleReads

-----------------------------------------------------------------------------
(* What every form shows and reads.                                        *)

Tells(f, but) == IsSequence(f.reads) /\ \A m \in f.shows \ but : FilledBy(f, m)

LEMMA MembersOf == \A s : Members(s) = {g.member : g \in Range(s)}
BY DEF Members, Range

LEMMA UserTells == Tells(User, {"public_flags", "premium_type"})
BY UserReadsFields, FieldFacts
   DEF Tells, FilledBy, Table, IsField, User, Both, UserShows, Part

LEMMA MemberTells == Tells(Member, {"public_flags", "premium_type", "joined_at"})
BY MemberReadsFields, UserReadsFields, FieldFacts
   DEF Tells, FilledBy, Table, IsField, Member, Object, MemberShows, UserShows, Part

LEMMA MemberUpdateTells == Tells(MemberUpdate, {"public_flags", "premium_type", "nick"})
<1>1. /\ MemberUpdate.shows = UserShows \cup {"nick", "roles"}
      /\ MemberUpdate.reads = MemberUpdateReads
  BY DEF MemberUpdate, Updated, Object, Part
<1> QED
  BY <1>1, MemberUpdateReadsFields, UserReadsFields, FieldFacts
     DEF Tells, FilledBy, Table, IsField, UserShows

LEMMA RoleTells == Tells(Role, {})
BY RoleReadsFields, FieldFacts
   DEF Tells, FilledBy, Table, IsField, Role, Both, RoleShows, Part

LEMMA OverwriteTells == Tells(Overwrite, {})
BY OverwriteReadsFields, FieldFacts
   DEF Tells, FilledBy, Table, IsField, Overwrite, Both, OverwriteShows, Part

LEMMA PartialEmojiTells == Tells(PartialEmoji, {})
BY PartialEmojiReadsFields, FieldFacts
   DEF Tells, FilledBy, Table, IsField, PartialEmoji, Object, Part

LEMMA EmojiTells == Tells(Emoji, {"roles", "user_id"})
BY PartialEmojiReadsFields, FieldFacts
   DEF Tells, FilledBy, Table, IsField, Emoji, Object, Part

LEMMA GuildUpdateTells == Tells(GuildUpdate, {})
BY GuildReadsFields, FieldFacts
   DEF Tells, FilledBy, Table, IsField, GuildUpdate, Updated, Object, GuildShows, Part

LEMMA WholeGuildTells == Tells(WholeGuild, {"joined_at"})
<1> DEFINE new == {"large", "unavailable", "member_count", "voice_states"}
<1>1. /\ WholeGuild.shows = GuildShows \cup new \cup {"joined_at"}
      /\ WholeGuild.reads = WholeGuildReads /\ ~ WholeGuild.inPlace
  BY DEF WholeGuild, Object, WholeGuildShows, Part
<1>2. \A m \in GuildShows :
        /\ \E g \in Range(GuildReads) : g.member = m
        /\ \A g \in Range(GuildReads) : g.member = m => g.key = m
  BY GuildUpdateTells DEF Tells, FilledBy, GuildUpdate, Updated, Object, Part
<1>3. \A g \in Range(GuildReads) : g.member \notin new
  BY GuildReadsFields, FieldFacts DEF Table, IsField
<1>4. IsSequence(WholeGuildReads) /\ Range(GuildReads) \subseteq Range(WholeGuildReads)
  BY WholeGuildReadsFields DEF Table
<1>5. \A g \in Range(WholeGuildReads) \ Range(GuildReads) : g.key = g.member /\ g.member \in new
  BY WholeGuildReadsFields, FieldFacts DEF Table, IsField
<1>6. \A m \in new : \E g \in Range(WholeGuildReads) : g.member = m
  BY WholeGuildReadsFields, FieldFacts DEF Table, IsField
<1> QED
  BY <1>1, <1>2, <1>3, <1>4, <1>5, <1>6 DEF Tells, FilledBy

LEMMA IntegrationTells == Tells(Integration, {"id", "name", "type", "account", "synced_at"})
BY IntegrationReadsFields, FieldFacts
   DEF Tells, FilledBy, Table, IsField, Integration, Object, IntegrationShows, Part

LEMMA PartialIntegrationTells == Tells(PartialIntegration, {})
<1>1. PartialIntegration.shows = {"id", "name", "type", "account"}
      /\ ~ PartialIntegration.inPlace
  BY DEF PartialIntegration, Object, Part
<1> QED
  BY <1>1, PartialIntegrationFields, FieldFacts DEF Tells, FilledBy, Table, IsField

LEMMA IntegrationAccountTells == Tells(IntegrationAccount, {})
<1>1. IntegrationAccount.shows = {"id", "name"}
      /\ ~ IntegrationAccount.inPlace
  BY DEF IntegrationAccount, Object, Part
<1> QED
  BY <1>1, IntegrationAccountFields, FieldFacts DEF Tells, FilledBy, Table, IsField

LEMMA TemplateTells == Tells(Template, {"created_at", "updated_at"})
<1>1. Template.shows = {"code", "name", "discription", "usage_count", "creator_id", "creator",
                        "created_at",
                      "updated_at", "source_guild_id", "is_dirty"}
      /\ ~ Template.inPlace
  BY DEF Template, Object, Part
<1> QED
  BY <1>1, TemplateFields, FieldFacts DEF Tells, FilledBy, Table, IsField

LEMMA PartialChannelTells == Tells(PartialChannel, {})
BY ChannelReadsFields, FieldFacts
   DEF Tells, FilledBy, Table, IsField, PartialChannel, Both, Part

LEMMA CatagoryTells == Tells(Catagory, {})
BY GuildChannelReadsFields, ChannelReadsFields, FieldFacts
   DEF Tells, FilledBy, Table, IsField, Catagory, Updated, Object, GuildChannelShows, Part

LEMMA TextChannelTells == Tells(TextChannel, {})
BY TextChannelReadsFields, GuildChannelReadsFields, ChannelReadsFields, FieldFacts
   DEF Tells, FilledBy, Table, IsField, TextChannel, Updated, Object, GuildChannelShows, Part

LEMMA VoiceChannelTells == Tells(VoiceChannel, {})
BY VoiceChannelReadsFields, GuildChannelReadsFields, ChannelReadsFields, FieldFacts
   DEF Tells, FilledBy, Table, IsField, VoiceChannel, Updated, Object, GuildChannelShows, Part

LEMMA DmChannelTells == Tells(DmChannel, {"last_pin_timestamp"})
BY DmChannelReadsFields, ChannelReadsFields, FieldFacts
   DEF Tells, FilledBy, Table, IsField, DmChannel, Both, DmChannelShows, Part

LEMMA MessageTells == Tells(Message, {})
BY MessageReadsFields, FieldFacts
   DEF Tells, FilledBy, Table, IsField, Message, Object, MessageShows, Part

LEMMA MsgUpdateTells == Tells(MsgUpdate, {})
BY MsgUpdateReadsFields, FieldFacts
   DEF Tells, FilledBy, Table, IsField, MsgUpdate, Object, Part

LEMMA MessageReferenceTells == Tells(MessageReference, {})
<1>1. MessageReference.shows = {"guild_id", "channel_id", "message_id"}
      /\ ~ MessageReference.inPlace
  BY DEF MessageReference, Object, Part
<1> QED
  BY <1>1, MessageReferenceFields, FieldFacts DEF Tells, FilledBy, Table, IsField

LEMMA AttachmentTells == Tells(Attachment, {"width", "height"})
BY AttachmentReadsFields, FieldFacts
   DEF Tells, FilledBy, Table, IsField, Attachment, Object, Part

LEMMA ReactionTells == Tells(Reaction, {})
BY ReactionReadsFields, FieldFacts
   DEF Tells, FilledBy, Table, IsField, Reaction, Object, Part

LEMMA VoiceStateTells == Tells(VoiceState, {})
BY VoiceStateReadsFields, FieldFacts
   DEF Tells, FilledBy, Table, IsField, VoiceState, Object, Part

LEMMA VoiceState2Tells == Tells(VoiceState2, {})
BY VoiceState2Fields, VoiceStateReadsFields, FieldFacts
   DEF Tells, FilledBy, Table, IsField, VoiceState2, VoiceState, Object, Part

LEMMA VoiceRegionTells == Tells(VoiceRegion, {})
<1>1. VoiceRegion.shows = {"id", "name", "vip", "optimal", "depricated", "custom"}
      /\ ~ VoiceRegion.inPlace
  BY DEF VoiceRegion, Object, Part
<1> QED
  BY <1>1, VoiceRegionFields, FieldFacts DEF Tells, FilledBy, Table, IsField

LEMMA ActivityTells == Tells(Activity, {"url"})
BY ActivityReadsFields, FieldFacts
   DEF Tells, FilledBy, Table, IsField, Activity, Object, Part

LEMMA PartialPresenceTells == Tells(PartialPresence, {})
BY PresenceReadsFields, FieldFacts
   DEF Tells, FilledBy, Table, IsField, PartialPresence, Object, Part

LEMMA InviteGuildTells == Tells(InviteGuild, {})
<1>1. InviteGuild.shows = {"id", "name", "splash", "icon"}
      /\ ~ InviteGuild.inPlace
  BY DEF InviteGuild, Object, Part
<1> QED
  BY <1>1, InviteGuildFields, FieldFacts DEF Tells, FilledBy, Table, IsField

LEMMA InviteChannelTells == Tells(InviteChannel, {})
BY InviteChannelFields, FieldFacts
   DEF Tells, FilledBy, Table, IsField, InviteChannel, Object, Part

LEMMA InviteTells == Tells(Invite, {})
<1>1. Invite.shows = {"code", "guild", "channel"}
      /\ ~ Invite.inPlace
  BY DEF Invite, Object, Part
<1> QED
  BY <1>1, InviteFields, FieldFacts DEF Tells, FilledBy, Table, IsField

LEMMA InviteMetadataTells == Tells(InviteMetadata, {"user", "uses"})
BY InviteMetadataFields, FieldFacts
   DEF Tells, FilledBy, Table, IsField, InviteMetadata, Object, Part

LEMMA WebhookTells == Tells(Webhook, {})
BY WebhookFields, FieldFacts
   DEF Tells, FilledBy, Table, IsField, Webhook, Object, Part

LEMMA ChangedRoleTells == Tells(ChangedRole, {})
BY ChangedRoleFields, MembersOf, FieldFacts
   DEF Tells, FilledBy, Table, IsField, ChangedRole, Object, Part

LEMMA EntryInfoTells == Tells(EntryInfo, {})
BY EntryInfoReadsFields, MembersOf, FieldFacts
   DEF Tells, FilledBy, Table, IsField, EntryInfo, Object, Part

LEMMA LogEntryTells == Tells(LogEntry, {"target_id"})
BY LogEntryFields, EntryRestFields, EntryReadsFields, MembersOf, FieldFacts
   DEF Tells, FilledBy, Table, IsField, LogEntry, Object, Part

LEMMA AuditLogTells == Tells(AuditLog, {})
BY AuditLogReadsFields, MembersOf, FieldFacts
   DEF Tells, FilledBy, Table, IsField, AuditLog, Object, Part

LEMMA ClientStatusNcTells == Tells(ClientStatusNc, {})
<1>1. ClientStatusNc.shows = Members(ClientStatusNc.reads)
      /\ ~ ClientStatusNc.inPlace
  BY DEF ClientStatusNc, Public, Object, Part
<1> QED
  BY <1>1, ClientStatusNcFields, MembersOf, FieldFacts DEF Tells, FilledBy, Table, IsField

LEMMA UnavailableGuildNcTells == Tells(UnavailableGuildNc, {})
BY UnavailableGuildNcFields, MembersOf, FieldFacts
   DEF Tells, FilledBy, Table, IsField, UnavailableGuildNc, Public, Object, Part

AlikeReads(reads, readsNc, but) ==
    /\ \A g \in Range(reads), h \in Range(readsNc) : g.key = h.key =>
          /\ g.key \in but \/ (g.null = "throws" <=> h.null = "throws")
          /\ g.kind \in {"any", "odd"} <=> h.kind \in {"any", "odd"}
    /\ \A g \in Range(reads) \cup Range(readsNc) : g.key # "none"

OwnKeys(reads) ==
    IsSequence(reads) /\ \A g \in Range(reads) : g.member \in {g.key, "nothing"}

LEMMA UserAlike ==
    AlikeReads(UserReads, UserReadsNc, {}) /\ OwnKeys(UserReadsNc)
BY UserReadsFields, UserReadsNcFields, FieldFacts DEF AlikeReads, OwnKeys, Table, IsField

LEMMA MemberAlike ==
    AlikeReads(MemberReads, MemberReadsNc, {"roles"}) /\ OwnKeys(MemberReadsNc)
BY MemberReadsFields, UserReadsFields, MemberReadsNcFields, UserReadsNcFields, FieldFacts
   DEF AlikeReads, OwnKeys, Table, IsField

LEMMA RoleAlike ==
    AlikeReads(RoleReads, RoleReadsNc, {}) /\ OwnKeys(RoleReadsNc)
BY RoleReadsFields, RoleReadsNcFields, FieldFacts DEF AlikeReads, OwnKeys, Table, IsField

LEMMA OverwriteAlike ==
    AlikeReads(OverwriteReads, OverwriteReadsNc, {"allow", "deny"}) /\ OwnKeys(OverwriteReadsNc)
BY OverwriteReadsFields, OverwriteReadsNcFields, FieldFacts DEF AlikeReads, OwnKeys, Table, IsField

LEMMA GuildUpdateAlike ==
    AlikeReads(GuildReads, GuildReadsNc, {}) /\ OwnKeys(GuildReadsNc)
BY GuildReadsFields, GuildReadsNcFields, FieldFacts DEF AlikeReads, OwnKeys, Table, IsField

LEMMA GuildAlike ==
    AlikeReads(WholeGuildReads, WholeGuildReadsNc, {}) /\ OwnKeys(WholeGuildReadsNc)
BY WholeGuildReadsFields, GuildReadsFields, WholeGuildReadsNcFields, GuildReadsNcFields,
   FieldFacts
   DEF AlikeReads, OwnKeys, Table, IsField

LEMMA ChannelAlike ==
    AlikeReads(ChannelReads, ChannelReadsNc, {}) /\ OwnKeys(ChannelReadsNc)
BY ChannelReadsFields, ChannelReadsNcFields, FieldFacts DEF AlikeReads, OwnKeys, Table, IsField

LEMMA CatagoryAlike ==
    AlikeReads(GuildChannelReads, GuildChannelReadsNc, {}) /\ OwnKeys(GuildChannelReadsNc)
BY GuildChannelReadsFields, GuildChannelReadsNcFields, ChannelReadsFields, ChannelReadsNcFields,
   FieldFacts
   DEF AlikeReads, OwnKeys, Table, IsField

LEMMA TextChannelAlike ==
    AlikeReads(TextChannelReads, TextChannelReadsNc, {}) /\ OwnKeys(TextChannelReadsNc)
BY TextChannelReadsFields, TextChannelReadsNcFields, GuildChannelReadsFields,
   GuildChannelReadsNcFields, ChannelReadsFields, ChannelReadsNcFields, FieldFacts
   DEF AlikeReads, OwnKeys, Table, IsField

LEMMA VoiceChannelAlike ==
    AlikeReads(VoiceChannelReads, VoiceChannelReadsNc, {}) /\ OwnKeys(VoiceChannelReadsNc)
BY VoiceChannelReadsFields, VoiceChannelReadsNcFields, GuildChannelReadsFields,
   GuildChannelReadsNcFields, ChannelReadsFields, ChannelReadsNcFields, FieldFacts
   DEF AlikeReads, OwnKeys, Table, IsField

LEMMA DmChannelAlike ==
    AlikeReads(DmChannelReads, DmChannelReadsNc, {}) /\ OwnKeys(DmChannelReadsNc)
BY DmChannelReadsFields, DmChannelReadsNcFields, ChannelReadsFields, ChannelReadsNcFields,
   FieldFacts
   DEF AlikeReads, OwnKeys, Table, IsField

LEMMA MessageAlike ==
    /\ AlikeReads(MessageReads, MessageReadsNc, {"attachments", "reactions"})
    /\ OwnKeys(MessageReadsNc)
BY MessageReadsFields, MessageReadsNcFields, FieldFacts DEF AlikeReads, OwnKeys, Table, IsField

LEMMA VoiceStateAlike ==
    AlikeReads(VoiceStateReads, VoiceStateReadsNc, {"member"}) /\ OwnKeys(VoiceStateReadsNc)
BY VoiceStateReadsFields, VoiceStateReadsNcFields, FieldFacts
   DEF AlikeReads, OwnKeys, Table, IsField

LEMMA VoiceState2Alike ==
    AlikeReads(VoiceState2.reads, VoiceState2Nc.reads, {"member"}) /\ OwnKeys(VoiceState2Nc.reads)
BY VoiceState2Fields, VoiceState2NcFields, VoiceStateReadsFields, VoiceStateReadsNcFields,
   FieldFacts
   DEF AlikeReads, OwnKeys, Table, IsField

LEMMA ChangedRoleAlike ==
    /\ AlikeReads(ChangedRoleReads("text"), ChangedRoleReads("number"), {})
    /\ OwnKeys(ChangedRoleReads("number"))
BY ChangedRoleFields, FieldFacts DEF AlikeReads, OwnKeys, Table, IsField

LEMMA AuditLogEntryAlike ==
    AlikeReads(LogEntry.reads, EntryReads, {}) /\ OwnKeys(EntryReads)
BY LogEntryFields, EntryReadsFields, EntryRestFields, FieldFacts
   DEF AlikeReads, OwnKeys, Table, IsField

-----------------------------------------------------------------------------
(* What every form writes.                                                 *)

LEMMA Tuple0 == Table(<<>>, {})
<1>1. <<>> \in Seq({}) /\ DOMAIN <<>> = {}
  OBVIOUS
<1> QED
  BY <1>1 DEF Table, IsSequence, Range

(* What a to_json writes.                                                    *)
IsWritten(w, key, kind, always) ==
    w.member = key /\ w.key = key /\ w.kind = kind /\ w.always = always

LEMMA WriteFacts ==
    \A kind, k : /\ IsWritten(Writes(kind, k), k, kind, TRUE)
                 /\ IsWritten(WritesSet(kind, k), k, kind, FALSE)
BY DEF IsWritten, Writes, WritesSet

Sends(f, but) ==
    /\ IsSequence(f.reads) /\ IsSequence(f.writes)
    /\ \A w \in Range(f.writes) : w.member = w.key /\ w.kind \notin {"gone", "null"}
    /\ \A g \in Range(f.reads) :
         /\ g.gone = "throws" => \E w \in Range(f.writes) : w.key = g.key /\ w.always
         /\ \A w \in Range(f.writes) : w.key = g.key =>
              g.kind \in {w.kind, "any"} /\ (w.kind = "object" => g.null # "throws")
    /\ \E g \in Range(f.reads) : g.gone # "keeps"
    /\ \A m \in f.shows \ but :
         /\ \E g \in Range(f.reads) : g.member = m
         /\ \A g \in Range(f.reads) : g.member = m => g.key = m
         /\ \E w \in Range(f.writes) : w.key = m

LEMMA OptionalsDo ==
    ASSUME NEW texts, NEW numbers, NEW T, NEW N, Table(texts, T), Table(numbers, N), T \cap N = {},
           T # {}
    PROVE  Tells(Optionals(texts, numbers), {}) /\ Sends(Optionals(texts, numbers), {})
<1> DEFINE f == Optionals(texts, numbers)
<1>1. Table(f.reads, {MayNull("text", k) : k \in T} \cup {MayNull("number", k) : k \in N})
  <2>1. Table(All(MayNull, "text", texts), {MayNull("text", k) : k \in T})
    BY AllTables
  <2>2. Table(All(MayNull, "number", numbers), {MayNull("number", k) : k \in N})
    BY AllTables
  <2> QED
    BY <2>1, <2>2, Joined DEF Optionals, Built, Part
<1>2. Table(f.writes, {WritesSet("text", k) : k \in T} \cup {WritesSet("number", k) : k \in N})
  <2>1. Table(All(WritesSet, "text", texts), {WritesSet("text", k) : k \in T})
    BY AllTables
  <2>2. Table(All(WritesSet, "number", numbers), {WritesSet("number", k) : k \in N})
    BY AllTables
  <2> QED
    BY <2>1, <2>2, Joined DEF Optionals, Built, Part
<1>3. f.shows = {g.member : g \in Range(f.reads)} /\ ~ f.inPlace
  BY MembersOf DEF Optionals, Built, Part
<1> HIDE DEF f
<1>4. \A g \in Range(f.reads) :
        /\ g.member = g.key /\ g.gone # "throws"
        /\ (g.key \in T /\ g.kind = "text") \/ (g.key \in N /\ g.kind = "number")
  BY <1>1, FieldFacts DEF Table, IsField
<1>5. \A w \in Range(f.writes) :
        /\ w.member = w.key
        /\ (w.key \in T /\ w.kind = "text") \/ (w.key \in N /\ w.kind = "number")
  BY <1>2, WriteFacts DEF Table, IsWritten
<1>6. \A k \in T \cup N : \E w \in Range(f.writes) : w.key = k
  BY <1>2, WriteFacts DEF Table, IsWritten
<1>7. Tells(f, {})
  BY <1>1, <1>3, <1>4 DEF Tells, FilledBy, Table
<1>8. \E g \in Range(f.reads) : g.gone # "keeps"
  BY <1>1, FieldFacts DEF Table, IsField
<1>9. Sends(f, {})
  BY <1>1, <1>2, <1>3, <1>4, <1>5, <1>6, <1>8 DEF Sends, Table
<1> QED
  BY <1>7, <1>9 DEF f

LEMMA ImageDoes == Tells(Image, {}) /\ Sends(Image, {})
<1>1. /\ Table(<<"url", "proxy_url">>, {"url", "proxy_url"})
      /\ Table(<<"height", "width">>, {"height", "width"})
  BY Tuple2, Tuple2
<1> QED
  BY <1>1, OptionalsDo DEF Image

LEMMA ThumbnailDoes == Tells(Thumbnail, {}) /\ Sends(Thumbnail, {})
<1>1. /\ Table(<<"url", "proxy_url">>, {"url", "proxy_url"})
      /\ Table(<<"height", "width">>, {"height", "width"})
  BY Tuple2, Tuple2
<1> QED
  BY <1>1, OptionalsDo DEF Thumbnail

LEMMA VideoDoes == Tells(Video, {}) /\ Sends(Video, {})
<1>1. Table(<<"url">>, {"url"}) /\ Table(<<"height", "width">>, {"height", "width"})
  BY Tuple1, Tuple2
<1> QED
  BY <1>1, OptionalsDo DEF Video

LEMMA ProviderDoes == Tells(Provider, {}) /\ Sends(Provider, {})
<1>1. Table(<<"name", "url">>, {"name", "url"}) /\ Table(<<>>, {})
  BY Tuple2, Tuple0
<1> QED
  BY <1>1, OptionalsDo DEF Provider

LEMMA AuthorDoes == Tells(Author, {}) /\ Sends(Author, {})
<1>1. /\ Table(<<"name", "url", "icon_url", "proxy_icon_url">>,
               {"name", "url", "icon_url", "proxy_icon_url"})
      /\ Table(<<>>, {})
  BY Tuple4, Tuple0
<1> QED
  BY <1>1, OptionalsDo DEF Author

LEMMA FooterReadsFields ==
    Table(Footer.reads,
      {Must("text", "text")}
      \cup {MayNull("text", k) : k \in {"icon_url", "proxy_icon_url"}})
<1>1. Table(<<Must("text", "text")>>, {Must("text", "text")})
  BY Tuple1
<1>2. Table(All(MayNull, "text", <<"icon_url", "proxy_icon_url">>), {MayNull("text", k) : k \in
            {"icon_url", "proxy_icon_url"}})
  <2>1. Table(<<"icon_url", "proxy_icon_url">>, {"icon_url", "proxy_icon_url"})
    BY Tuple2
  <2> QED
    BY <2>1, AllTables
<1> QED
  BY <1>1, <1>2, Joined DEF Footer, Built, Part

LEMMA FooterWritesFields ==
    Table(Footer.writes,
      {Writes("text", "text")}
      \cup {WritesSet("text", k) : k \in {"icon_url", "proxy_icon_url"}})
<1>1. Table(<<Writes("text", "text")>>, {Writes("text", "text")})
  BY Tuple1
<1>2. Table(All(WritesSet, "text", <<"icon_url", "proxy_icon_url">>), {WritesSet("text", k) : k
            \in {"icon_url", "proxy_icon_url"}})
  <2>1. Table(<<"icon_url", "proxy_icon_url">>, {"icon_url", "proxy_icon_url"})
    BY Tuple2
  <2> QED
    BY <2>1, AllTables
<1> QED
  BY <1>1, <1>2, Joined DEF Footer, Built, Part

LEMMA FooterDoes == Tells(Footer, {}) /\ Sends(Footer, {})
<1>1. Footer.shows = Members(Footer.reads) /\ ~ Footer.inPlace
  BY DEF Footer, Built, Part
<1> QED
  BY <1>1, FooterReadsFields, FooterWritesFields, MembersOf, FieldFacts, WriteFacts
     DEF Tells, FilledBy, Sends, Table, IsField, IsWritten

LEMMA EmbedFieldReadsFields ==
    Table(EmbedField.reads,
      {Must("text", k) : k \in {"name", "value"}}
      \cup {MayNull("bool", "inline")})
<1>1. Table(All(Must, "text", <<"name", "value">>), {Must("text", k) : k \in {"name",
            "value"}})
  <2>1. Table(<<"name", "value">>, {"name", "value"})
    BY Tuple2
  <2> QED
    BY <2>1, AllTables
<1>2. Table(<<MayNull("bool", "inline")>>, {MayNull("bool", "inline")})
  BY Tuple1
<1> QED
  BY <1>1, <1>2, Joined DEF EmbedField, Built, Part

LEMMA EmbedFieldWritesFields ==
    Table(EmbedField.writes,
      {Writes("text", k) : k \in {"name", "value"}}
      \cup {WritesSet("bool", "inline")})
<1>1. Table(All(Writes, "text", <<"name", "value">>), {Writes("text", k) : k \in {"name",
            "value"}})
  <2>1. Table(<<"name", "value">>, {"name", "value"})
    BY Tuple2
  <2> QED
    BY <2>1, AllTables
<1>2. Table(<<WritesSet("bool", "inline")>>, {WritesSet("bool", "inline")})
  BY Tuple1
<1> QED
  BY <1>1, <1>2, Joined DEF EmbedField, Built, Part

LEMMA EmbedFieldDoes == Tells(EmbedField, {}) /\ Sends(EmbedField, {})
<1>1. EmbedField.shows = Members(EmbedField.reads) /\ ~ EmbedField.inPlace
  BY DEF EmbedField, Built, Part
<1> QED
  BY <1>1, EmbedFieldReadsFields, EmbedFieldWritesFields, MembersOf, FieldFacts, WriteFacts
     DEF Tells, FilledBy, Sends, Table, IsField, IsWritten

LEMMA EmbedDoes == Tells(Embed, {"timestamp"}) /\ Sends(Embed, {"timestamp"})
<1>1. /\ Embed.reads = EmbedReads /\ Embed.writes = EmbedWrites /\ ~ Embed.inPlace
      /\ Embed.shows = EmbedShows
  BY DEF Embed, Part
<1>2. EmbedShows = {"title", "description", "url", "timestamp", "color", "fields"}
                     \cup {"footer", "image", "author", "thumbnail", "video", "provider"}
  BY Tuple6 DEF EmbedShows, EmbedObjects, Table
<1> QED
  BY <1>1, <1>2, EmbedReadsFields, EmbedWritesFields, FieldFacts, WriteFacts
     DEF Tells, FilledBy, Sends, Table, IsField, IsWritten

LEMMA PartialChannelWritesFields ==
    Table(PartialChannel.writes,
      {Writes("text", k) : k \in {"id", "name"}})
<1>1. Table(<<"id", "name">>, {"id", "name"})
  BY Tuple2
<1> QED
  BY <1>1, AllTables DEF PartialChannel, Both, Part

LEMMA PartialChannelNcWritesFields ==
    Table(PartialChannelNc.writes,
      {Writes("text", k) : k \in {"id", "name"}})
<1>1. Table(<<"id", "name">>, {"id", "name"})
  BY Tuple2
<1> QED
  BY <1>1, AllTables DEF PartialChannelNc, PublicBoth, Both, Part

LEMMA RoleSends == Sends(Role, {})
<1>1. Role.shows = RoleShows /\ Role.reads = RoleReads /\ Role.writes = RoleWrites
  BY DEF Role, Both, Part
<1> QED
  BY <1>1, RoleReadsFields, RoleWritesFields, MembersOf, FieldFacts, WriteFacts
     DEF RoleShows, Sends, Table, IsField, IsWritten

LEMMA OverwriteSends == Sends(Overwrite, {})
<1>1. /\ Overwrite.shows = OverwriteShows
      /\ Overwrite.reads = OverwriteReads
      /\ Overwrite.writes = OverwriteWrites
  BY DEF Overwrite, Both, Part
<1> QED
  BY <1>1, OverwriteReadsFields, OverwriteWritesFields, MembersOf, FieldFacts, WriteFacts
     DEF OverwriteShows, Sends, Table, IsField, IsWritten

LEMMA PartialChannelSends == Sends(PartialChannel, {"type"})
<1>1. PartialChannel.shows = {"id", "name", "type"} /\ PartialChannel.reads = ChannelReads
  BY DEF PartialChannel, Both, Part
<1> QED
  BY <1>1, ChannelReadsFields, PartialChannelWritesFields, MembersOf, FieldFacts, WriteFacts
     DEF Sends, Table, IsField, IsWritten

LEMMA RoleNcSends == Sends(RoleNc, {})
<1>1. /\ RoleNc.shows = Members(RoleReadsNc)
      /\ RoleNc.reads = RoleReadsNc
      /\ RoleNc.writes = RoleWritesNc
  BY DEF RoleNc, PublicBoth, Both, Part
<1> QED
  BY <1>1, RoleReadsNcFields, RoleWritesNcFields, MembersOf, FieldFacts, WriteFacts
     DEF Sends, Table, IsField, IsWritten

LEMMA OverwriteNcSends == Sends(OverwriteNc, {})
<1>1. /\ OverwriteNc.shows = Members(OverwriteReadsNc)
      /\ OverwriteNc.reads = OverwriteReadsNc
      /\ OverwriteNc.writes = OverwriteWritesNc
  BY DEF OverwriteNc, PublicBoth, Both, Part
<1> QED
  BY <1>1, OverwriteReadsNcFields, OverwriteWritesNcFields, MembersOf, FieldFacts, WriteFacts
     DEF Sends, Table, IsField, IsWritten

LEMMA PartialChannelNcSends == Sends(PartialChannelNc, {})
<1>1. PartialChannelNc.shows = Members(ChannelReadsNc) /\ PartialChannelNc.reads = ChannelReadsNc
  BY DEF PartialChannelNc, PublicBoth, Both, Part
<1> QED
  BY <1>1, ChannelReadsNcFields, PartialChannelNcWritesFields, MembersOf, FieldFacts, WriteFacts
     DEF Sends, Table, IsField, IsWritten

-----------------------------------------------------------------------------
(* What is written and read again.                                         *)

LEMMA WrittenOf ==
    ASSUME NEW toJson, IsSequence(toJson), \A w \in Range(toJson) : w.member = w.key,
           NEW old, NEW k
    PROVE  \/ /\ WrittenAs(toJson, old, k) = Gone
              /\ \A w \in Range(toJson) : w.key = k => ~ w.always /\ old[k] = Default
           \/ \E w \in Range(toJson) :
                /\ w.key = k
                /\ \/ WrittenAs(toJson, old, k) = Value(w.kind, old[k])
                   \/ w.kind = "object" /\ old[k] = Hollow /\ WrittenAs(toJson, old, k) = Null
<1> DEFINE chosen == {i \in DOMAIN toJson : toJson[i].key = k
                        /\ (toJson[i].always \/ old[toJson[i].member] # Default)}
<1>1. \A i \in DOMAIN toJson : toJson[i] \in Range(toJson) /\ toJson[i].member = toJson[i].key
  BY DEF Range
<1>2. CASE chosen = {}
  <2>1. WrittenAs(toJson, old, k) = Gone
    BY <1>2 DEF WrittenAs
  <2>2. \A i \in DOMAIN toJson : toJson[i].key = k => ~ toJson[i].always /\ old[k] = Default
    BY <1>1, <1>2
  <2> QED
    BY <2>1, <2>2 DEF Range
<1>3. CASE chosen # {}
  <2> DEFINE i == CHOOSE i \in chosen : TRUE
  <2>1. i \in chosen
    BY <1>3
  <2>2. WrittenAs(toJson, old, k) =
          IF toJson[i].kind = "object" /\ old[toJson[i].member] = Hollow THEN Null
          ELSE Value(toJson[i].kind, old[toJson[i].member])
    BY <1>3 DEF WrittenAs
  <2> HIDE DEF i
  <2> QED
    BY <1>1, <2>1, <2>2
<1> QED
  BY <1>2, <1>3

(* What is written is read as it was.                                        *)
LEMMA SentComesBack ==
    ASSUME NEW f, NEW but, Sends(f, but), NEW blank, NEW old, DOMAIN old = DOMAIN blank,
           f.shows \subseteq DOMAIN blank, \A m \in DOMAIN blank : blank[m] = Default
    PROVE  LET r == ReadInto(f.reads, blank, [k \in Keys(f.reads) |-> WrittenAs(f.writes, old, k)])
           IN  /\ ~ r.threw
               /\ \A m \in f.shows \ but :
                    r.obj[m] = old[m] \/ (old[m] = Hollow /\ r.obj[m] = Default)
<1> DEFINE json == [k \in Keys(f.reads) |-> WrittenAs(f.writes, old, k)]
           r == ReadInto(f.reads, blank, json)
           Does(g) == Outcome(g, json[g.key])
<1>1. \A g \in Range(f.reads) : json[g.key] = WrittenAs(f.writes, old, g.key)
  BY DEF Keys, Range
<1>2. /\ r.threw <=> \E g \in Range(f.reads) : Does(g) = "throws"
      /\ ~ r.threw => \A m \in DOMAIN blank :
           \/ \E g \in Range(f.reads) :
                g.member = m /\ Does(g) # "keeps" /\ r.obj[m] = json[g.key].v
           \/ /\ \A g \in Range(f.reads) : g.member = m => Does(g) = "keeps"
              /\ r.obj[m] = blank[m]
  <2>1. Reading(f.reads, blank, json)
    BY ReadOf DEF Sends
  <2> QED
    BY <2>1 DEF Reading
<1> HIDE DEF json, r
<1>3. \A k : \/ /\ WrittenAs(f.writes, old, k) = Gone
                /\ \A w \in Range(f.writes) : w.key = k => ~ w.always /\ old[k] = Default
             \/ \E w \in Range(f.writes) :
                  /\ w.key = k
                  /\ \/ WrittenAs(f.writes, old, k) = Value(w.kind, old[k])
                     \/ w.kind = "object" /\ old[k] = Hollow /\ WrittenAs(f.writes, old, k) = Null
  BY WrittenOf DEF Sends
<1>4. ASSUME NEW g \in Range(f.reads)
      PROVE  \/ /\ json[g.key] = Gone /\ Does(g) = g.gone /\ g.gone # "throws"
                /\ \A w \in Range(f.writes) : w.key = g.key => old[g.key] = Default
             \/ json[g.key].v = old[g.key] /\ Does(g) = "takes"
             \/ json[g.key].v = Default /\ old[g.key] = Hollow /\ Does(g) # "throws"
  <2>1. CASE /\ WrittenAs(f.writes, old, g.key) = Gone
             /\ \A w \in Range(f.writes) : w.key = g.key => ~ w.always /\ old[g.key] = Default
    <3>1. json[g.key] = Gone
      BY <1>1, <2>1
    <3>2. Outcome(g, Gone) = g.gone
      BY DEF Outcome, Gone, Value
    <3> QED
      BY <2>1, <3>1, <3>2 DEF Sends
  <2>2. ASSUME NEW w \in Range(f.writes), w.key = g.key,
               WrittenAs(f.writes, old, g.key) = Value(w.kind, old[g.key])
        PROVE  json[g.key].v = old[g.key] /\ Does(g) = "takes"
    <3>1. json[g.key] = Value(w.kind, old[g.key])
      BY <1>1, <2>2
    <3>2. w.kind \notin {"gone", "null"} /\ g.kind \in {w.kind, "any"}
      BY <2>2 DEF Sends
    <3>3. /\ Outcome(g, Value(w.kind, old[g.key])) = "takes"
          /\ Value(w.kind, old[g.key]).v = old[g.key]
      BY <3>2 DEF Outcome, Value
    <3> QED
      BY <3>1, <3>3
  <2>3. ASSUME NEW w \in Range(f.writes), w.key = g.key, w.kind = "object",
               old[g.key] = Hollow, WrittenAs(f.writes, old, g.key) = Null
        PROVE  json[g.key].v = Default /\ Does(g) # "throws"
    <3>1. json[g.key] = Null /\ g.null # "throws"
      BY <1>1, <2>3 DEF Sends
    <3>2. Outcome(g, Null) = g.null /\ Null.v = Default
      BY DEF Outcome, Null, Value
    <3> QED
      BY <3>1, <3>2
  <2> QED
    BY <1>3, <2>1, <2>2, <2>3
<1>5. ~ r.threw
  BY <1>2, <1>4
<1>6. ASSUME NEW m \in f.shows \ but
      PROVE  r.obj[m] = old[m] \/ (old[m] = Hollow /\ r.obj[m] = Default)
  <2>1. /\ \E g \in Range(f.reads) : g.member = m
        /\ \A g \in Range(f.reads) : g.member = m => g.key = m
        /\ \E w \in Range(f.writes) : w.key = m
    BY <1>6 DEF Sends
  <2>2. blank[m] = Default /\ Gone.v = Default
    BY <1>6 DEF Gone, Value
  <2> HIDE DEF Does
  <2>3. CASE \E g \in Range(f.reads) :
                g.member = m /\ Does(g) # "keeps" /\ r.obj[m] = json[g.key].v
    <3>1. PICK g \in Range(f.reads) : g.key = m /\ r.obj[m] = json[m].v
      BY <2>1, <2>3
    <3>2. CASE json[m] = Gone /\ old[m] = Default
      BY <2>2, <3>1, <3>2
    <3>3. CASE json[m].v = old[m] \/ (json[m].v = Default /\ old[m] = Hollow)
      BY <3>1, <3>3
    <3> QED
      BY <1>4, <2>1, <3>1, <3>2, <3>3
  <2>4. CASE /\ \A g \in Range(f.reads) : g.member = m => Does(g) = "keeps"
             /\ r.obj[m] = blank[m]
    BY <1>4, <2>1, <2>2, <2>4
  <2> QED
    BY <1>2, <1>5, <1>6, <2>3, <2>4
<1> QED
  BY <1>5, <1>6 DEF r, json

-----------------------------------------------------------------------------
(* The objects by their names.                                             *)

LEMMA NamesAre ==
    Names = {"footer", "image", "thumbnail", "video", "provider", "author", "field", "embed",
             "user", "member", "member_update", "role", "overwrite", "partial_emoji", "emoji",
             "guild_update", "guild", "integration", "partial_integration", "integration_account",
             "template", "channel", "catagory", "text_channel", "voice_channel", "dm_channel",
             "message", "msg_update", "message_reference", "attachment", "reaction",
             "voice_state", "voice_state2", "voice_region", "activity", "presence",
             "invite_guild", "invite_channel", "invite", "invite_metadata", "webhook",
             "changed_role", "entry_info", "audit_log_entry", "audit_log", "client_status",
             "unavailable_guild"}
BY DEF Names, Pairs

(* The forms of the two libraries.                                           *)
LEMMA PairsAre ==
    /\ Pairs["footer"][1] = Footer /\ Pairs["footer"][2] = FooterNc
    /\ Pairs["image"][1] = Image /\ Pairs["image"][2] = ImageNc
    /\ Pairs["thumbnail"][1] = Thumbnail /\ Pairs["thumbnail"][2] = ThumbnailNc
    /\ Pairs["video"][1] = Video /\ Pairs["video"][2] = VideoNc
    /\ Pairs["provider"][1] = Provider /\ Pairs["provider"][2] = ProviderNc
    /\ Pairs["author"][1] = Author /\ Pairs["author"][2] = AuthorNc
    /\ Pairs["field"][1] = EmbedField /\ Pairs["field"][2] = EmbedFieldNc
    /\ Pairs["embed"][1] = Embed /\ Pairs["embed"][2] = EmbedNc
    /\ Pairs["user"][1] = User /\ Pairs["user"][2] = UserNc
    /\ Pairs["member"][1] = Member /\ Pairs["member"][2] = MemberNc
    /\ Pairs["member_update"][1] = MemberUpdate /\ Pairs["member_update"][2] = MemberUpdate
    /\ Pairs["role"][1] = Role /\ Pairs["role"][2] = RoleNc
    /\ Pairs["overwrite"][1] = Overwrite /\ Pairs["overwrite"][2] = OverwriteNc
    /\ Pairs["partial_emoji"][1] = PartialEmoji /\ Pairs["partial_emoji"][2] = PartialEmojiNc
    /\ Pairs["emoji"][1] = Emoji /\ Pairs["emoji"][2] = EmojiNc
    /\ Pairs["guild_update"][1] = GuildUpdate /\ Pairs["guild_update"][2] = GuildNc
    /\ Pairs["guild"][1] = WholeGuild /\ Pairs["guild"][2] = WholeGuildNc
    /\ Pairs["integration"][1] = Integration /\ Pairs["integration"][2] = IntegrationNc
    /\ Pairs["partial_integration"][1] = PartialIntegration
    /\ Pairs["partial_integration"][2] = PartialIntegrationNc
    /\ Pairs["integration_account"][1] = IntegrationAccount
    /\ Pairs["integration_account"][2] = IntegrationAccountNc
    /\ Pairs["template"][1] = Template /\ Pairs["template"][2] = Template
    /\ Pairs["channel"][1] = PartialChannel /\ Pairs["channel"][2] = PartialChannelNc
    /\ Pairs["catagory"][1] = Catagory /\ Pairs["catagory"][2] = CatagoryNc
    /\ Pairs["text_channel"][1] = TextChannel /\ Pairs["text_channel"][2] = TextChannelNc
    /\ Pairs["voice_channel"][1] = VoiceChannel /\ Pairs["voice_channel"][2] = VoiceChannelNc
    /\ Pairs["dm_channel"][1] = DmChannel /\ Pairs["dm_channel"][2] = DmChannelNc
    /\ Pairs["message"][1] = Message /\ Pairs["message"][2] = MessageNc
    /\ Pairs["msg_update"][1] = MsgUpdate /\ Pairs["msg_update"][2] = MsgUpdateNc
    /\ Pairs["message_reference"][1] = MessageReference
    /\ Pairs["message_reference"][2] = MessageReference
    /\ Pairs["attachment"][1] = Attachment /\ Pairs["attachment"][2] = AttachmentNc
    /\ Pairs["reaction"][1] = Reaction /\ Pairs["reaction"][2] = ReactionNc
    /\ Pairs["voice_state"][1] = VoiceState /\ Pairs["voice_state"][2] = VoiceStateNc
    /\ Pairs["voice_state2"][1] = VoiceState2 /\ Pairs["voice_state2"][2] = VoiceState2Nc
    /\ Pairs["voice_region"][1] = VoiceRegion /\ Pairs["voice_region"][2] = VoiceRegionNc
    /\ Pairs["activity"][1] = Activity /\ Pairs["activity"][2] = ActivityNc
    /\ Pairs["presence"][1] = PartialPresence /\ Pairs["presence"][2] = PartialPresenceNc
    /\ Pairs["invite_guild"][1] = InviteGuild /\ Pairs["invite_guild"][2] = InviteGuildNc
    /\ Pairs["invite_channel"][1] = InviteChannel /\ Pairs["invite_channel"][2] = InviteChannelNc
    /\ Pairs["invite"][1] = Invite /\ Pairs["invite"][2] = InviteNc
    /\ Pairs["invite_metadata"][1] = InviteMetadata
    /\ Pairs["invite_metadata"][2] = InviteMetadataNc
    /\ Pairs["webhook"][1] = Webhook /\ Pairs["webhook"][2] = WebhookNc
    /\ Pairs["changed_role"][1] = ChangedRole /\ Pairs["changed_role"][2] = ChangedRoleNc
    /\ Pairs["entry_info"][1] = EntryInfo /\ Pairs["entry_info"][2] = EntryInfoNc
    /\ Pairs["audit_log_entry"][1] = LogEntry /\ Pairs["audit_log_entry"][2] = LogEntryNc
    /\ Pairs["audit_log"][1] = AuditLog /\ Pairs["audit_log"][2] = AuditLogNc
    /\ Pairs["client_status"][1] = ClientStatusNc /\ Pairs["client_status"][2] = ClientStatusNc
    /\ Pairs["unavailable_guild"][1] = UnavailableGuildNc
    /\ Pairs["unavailable_guild"][2] = UnavailableGuildNc
<1>1. Pairs["footer"][1] = Footer /\ Pairs["footer"][2] = FooterNc
  BY DEF Pairs
<1>2. Pairs["image"][1] = Image /\ Pairs["image"][2] = ImageNc
  BY DEF Pairs
<1>3. Pairs["thumbnail"][1] = Thumbnail /\ Pairs["thumbnail"][2] = ThumbnailNc
  BY DEF Pairs
<1>4. Pairs["video"][1] = Video /\ Pairs["video"][2] = VideoNc
  BY DEF Pairs
<1>5. Pairs["provider"][1] = Provider /\ Pairs["provider"][2] = ProviderNc
  BY DEF Pairs
<1>6. Pairs["author"][1] = Author /\ Pairs["author"][2] = AuthorNc
  BY DEF Pairs
<1>7. Pairs["field"][1] = EmbedField /\ Pairs["field"][2] = EmbedFieldNc
  BY DEF Pairs
<1>8. Pairs["embed"][1] = Embed /\ Pairs["embed"][2] = EmbedNc
  BY DEF Pairs
<1>9. Pairs["user"][1] = User /\ Pairs["user"][2] = UserNc
  BY DEF Pairs
<1>10. Pairs["member"][1] = Member /\ Pairs["member"][2] = MemberNc
  BY DEF Pairs
<1>11. Pairs["member_update"][1] = MemberUpdate /\ Pairs["member_update"][2] = MemberUpdate
  BY DEF Pairs
<1>12. Pairs["role"][1] = Role /\ Pairs["role"][2] = RoleNc
  BY DEF Pairs
<1>13. Pairs["overwrite"][1] = Overwrite /\ Pairs["overwrite"][2] = OverwriteNc
  BY DEF Pairs
<1>14. Pairs["partial_emoji"][1] = PartialEmoji /\ Pairs["partial_emoji"][2] = PartialEmojiNc
  BY DEF Pairs
<1>15. Pairs["emoji"][1] = Emoji /\ Pairs["emoji"][2] = EmojiNc
  BY DEF Pairs
<1>16. Pairs["guild_update"][1] = GuildUpdate /\ Pairs["guild_update"][2] = GuildNc
  BY DEF Pairs
<1>17. Pairs["guild"][1] = WholeGuild /\ Pairs["guild"][2] = WholeGuildNc
  BY DEF Pairs
<1>18. Pairs["integration"][1] = Integration /\ Pairs["integration"][2] = IntegrationNc
  BY DEF Pairs
<1>19. /\ Pairs["partial_integration"][1] = PartialIntegration
       /\ Pairs["partial_integration"][2] = PartialIntegrationNc
  BY DEF Pairs
<1>20. /\ Pairs["integration_account"][1] = IntegrationAccount
       /\ Pairs["integration_account"][2] = IntegrationAccountNc
  BY DEF Pairs
<1>21. Pairs["template"][1] = Template /\ Pairs["template"][2] = Template
  BY DEF Pairs
<1>22. Pairs["channel"][1] = PartialChannel /\ Pairs["channel"][2] = PartialChannelNc
  BY DEF Pairs
<1>23. Pairs["catagory"][1] = Catagory /\ Pairs["catagory"][2] = CatagoryNc
  BY DEF Pairs
<1>24. Pairs["text_channel"][1] = TextChannel /\ Pairs["text_channel"][2] = TextChannelNc
  BY DEF Pairs
<1>25. Pairs["voice_channel"][1] = VoiceChannel /\ Pairs["voice_channel"][2] = VoiceChannelNc
  BY DEF Pairs
<1>26. Pairs["dm_channel"][1] = DmChannel /\ Pairs["dm_channel"][2] = DmChannelNc
  BY DEF Pairs
<1>27. Pairs["message"][1] = Message /\ Pairs["message"][2] = MessageNc
  BY DEF Pairs
<1>28. Pairs["msg_update"][1] = MsgUpdate /\ Pairs["msg_update"][2] = MsgUpdateNc
  BY DEF Pairs
<1>29. /\ Pairs["message_reference"][1] = MessageReference
       /\ Pairs["message_reference"][2] = MessageReference
  BY DEF Pairs
<1>30. Pairs["attachment"][1] = Attachment /\ Pairs["attachment"][2] = AttachmentNc
  BY DEF Pairs
<1>31. Pairs["reaction"][1] = Reaction /\ Pairs["reaction"][2] = ReactionNc
  BY DEF Pairs
<1>32. Pairs["voice_state"][1] = VoiceState /\ Pairs["voice_state"][2] = VoiceStateNc
  BY DEF Pairs
<1>33. Pairs["voice_state2"][1] = VoiceState2 /\ Pairs["voice_state2"][2] = VoiceState2Nc
  BY DEF Pairs
<1>34. Pairs["voice_region"][1] = VoiceRegion /\ Pairs["voice_region"][2] = VoiceRegionNc
  BY DEF Pairs
<1>35. Pairs["activity"][1] = Activity /\ Pairs["activity"][2] = ActivityNc
  BY DEF Pairs
<1>36. Pairs["presence"][1] = PartialPresence /\ Pairs["presence"][2] = PartialPresenceNc
  BY DEF Pairs
<1>37. Pairs["invite_guild"][1] = InviteGuild /\ Pairs["invite_guild"][2] = InviteGuildNc
  BY DEF Pairs
<1>38. Pairs["invite_channel"][1] = InviteChannel /\ Pairs["invite_channel"][2] = InviteChannelNc
  BY DEF Pairs
<1>39. Pairs["invite"][1] = Invite /\ Pairs["invite"][2] = InviteNc
  BY DEF Pairs
<1>40. /\ Pairs["invite_metadata"][1] = InviteMetadata
       /\ Pairs["invite_metadata"][2] = InviteMetadataNc
  BY DEF Pairs
<1>41. Pairs["webhook"][1] = Webhook /\ Pairs["webhook"][2] = WebhookNc
  BY DEF Pairs
<1>42. Pairs["changed_role"][1] = ChangedRole /\ Pairs["changed_role"][2] = ChangedRoleNc
  BY DEF Pairs
<1>43. Pairs["entry_info"][1] = EntryInfo /\ Pairs["entry_info"][2] = EntryInfoNc
  BY DEF Pairs
<1>44. Pairs["audit_log_entry"][1] = LogEntry /\ Pairs["audit_log_entry"][2] = LogEntryNc
  BY DEF Pairs
<1>45. Pairs["audit_log"][1] = AuditLog /\ Pairs["audit_log"][2] = AuditLogNc
  BY DEF Pairs
<1>46. Pairs["client_status"][1] = ClientStatusNc /\ Pairs["client_status"][2] = ClientStatusNc
  BY DEF Pairs
<1>47. /\ Pairs["unavailable_guild"][1] = UnavailableGuildNc
       /\ Pairs["unavailable_guild"][2] = UnavailableGuildNc
  BY DEF Pairs
<1> QED
  BY <1>1, <1>2, <1>3, <1>4, <1>5, <1>6, <1>7, <1>8, <1>9, <1>10, <1>11, <1>12, <1>13, <1>14,
     <1>15, <1>16, <1>17, <1>18, <1>19, <1>20, <1>21, <1>22, <1>23, <1>24, <1>25, <1>26, <1>27,
     <1>28, <1>29, <1>30, <1>31, <1>32, <1>33, <1>34, <1>35, <1>36, <1>37, <1>38, <1>39, <1>40,
     <1>41, <1>42, <1>43, <1>44, <1>45, <1>46, <1>47

(* What NothingStale needs of a form.                                        *)
NameTells(n) ==
    /\ IsSequence(Pairs[n][1].reads)
    /\ \A m \in Pairs[n][1].shows : <<n, m>> \in Unfaithful \/ FilledBy(Pairs[n][1], m)

LEMMA AllTell == \A n \in Names : NameTells(n)
<1>1. \A n \in {"footer", "image", "thumbnail", "video", "provider", "author", "field", "role",
                "overwrite", "partial_emoji", "guild_update", "partial_integration",
                "integration_account", "channel", "catagory", "text_channel", "voice_channel",
                "message", "msg_update", "message_reference", "reaction", "voice_state",
                "voice_state2", "voice_region", "presence", "invite_guild", "invite_channel",
                "invite", "webhook", "changed_role", "entry_info", "audit_log", "client_status",
                "unavailable_guild"} : Tells(Pairs[n][1], {})
  BY PairsAre, FooterDoes, ImageDoes, ThumbnailDoes, VideoDoes, ProviderDoes, AuthorDoes,
               EmbedFieldDoes, RoleTells, OverwriteTells, PartialEmojiTells, GuildUpdateTells,
               PartialIntegrationTells, IntegrationAccountTells, PartialChannelTells,
               CatagoryTells, TextChannelTells, VoiceChannelTells, MessageTells, MsgUpdateTells,
               MessageReferenceTells, ReactionTells, VoiceStateTells, VoiceState2Tells,
               VoiceRegionTells, PartialPresenceTells, InviteGuildTells, InviteChannelTells,
               InviteTells, WebhookTells, ChangedRoleTells, EntryInfoTells, AuditLogTells,
               ClientStatusNcTells, UnavailableGuildNcTells
<1>2. NameTells("embed")
  <2>1. Tells(Pairs["embed"][1], {"timestamp"})
    BY PairsAre, EmbedDoes
  <2>2. \A m \in {"timestamp"} : <<"embed", m>> \in Unfaithful
    BY DEF Unfaithful
  <2> QED
    BY <2>1, <2>2 DEF Tells, NameTells
<1>3. NameTells("user")
  <2>1. Tells(Pairs["user"][1], {"public_flags", "premium_type"})
    BY PairsAre, UserTells
  <2>2. \A m \in {"public_flags", "premium_type"} : <<"user", m>> \in Unfaithful
    BY DEF Unfaithful
  <2> QED
    BY <2>1, <2>2 DEF Tells, NameTells
<1>4. NameTells("member")
  <2>1. Tells(Pairs["member"][1], {"public_flags", "premium_type", "joined_at"})
    BY PairsAre, MemberTells
  <2>2. \A m \in {"public_flags", "premium_type", "joined_at"} : <<"member", m>> \in Unfaithful
    BY DEF Unfaithful
  <2> QED
    BY <2>1, <2>2 DEF Tells, NameTells
<1>5. NameTells("member_update")
  <2>1. Tells(Pairs["member_update"][1], {"public_flags", "premium_type", "nick"})
    BY PairsAre, MemberUpdateTells
  <2>2. \A m \in {"public_flags", "premium_type", "nick"} : <<"member_update", m>> \in Unfaithful
    BY DEF Unfaithful
  <2> QED
    BY <2>1, <2>2 DEF Tells, NameTells
<1>6. NameTells("emoji")
  <2>1. Tells(Pairs["emoji"][1], {"roles", "user_id"})
    BY PairsAre, EmojiTells
  <2>2. \A m \in {"roles", "user_id"} : <<"emoji", m>> \in Unfaithful
    BY DEF Unfaithful
  <2> QED
    BY <2>1, <2>2 DEF Tells, NameTells
<1>7. NameTells("guild")
  <2>1. Tells(Pairs["guild"][1], {"joined_at"})
    BY PairsAre, WholeGuildTells
  <2>2. \A m \in {"joined_at"} : <<"guild", m>> \in Unfaithful
    BY DEF Unfaithful
  <2> QED
    BY <2>1, <2>2 DEF Tells, NameTells
<1>8. NameTells("integration")
  <2>1. Tells(Pairs["integration"][1], {"id", "name", "type", "account", "synced_at"})
    BY PairsAre, IntegrationTells
  <2>2. \A m \in {"id", "name", "type", "account", "synced_at"} :
          <<"integration", m>> \in Unfaithful
    BY DEF Unfaithful
  <2> QED
    BY <2>1, <2>2 DEF Tells, NameTells
<1>9. NameTells("template")
  <2>1. Tells(Pairs["template"][1], {"created_at", "updated_at"})
    BY PairsAre, TemplateTells
  <2>2. \A m \in {"created_at", "updated_at"} : <<"template", m>> \in Unfaithful
    BY DEF Unfaithful
  <2> QED
    BY <2>1, <2>2 DEF Tells, NameTells
<1>10. NameTells("dm_channel")
  <2>1. Tells(Pairs["dm_channel"][1], {"last_pin_timestamp"})
    BY PairsAre, DmChannelTells
  <2>2. \A m \in {"last_pin_timestamp"} : <<"dm_channel", m>> \in Unfaithful
    BY DEF Unfaithful
  <2> QED
    BY <2>1, <2>2 DEF Tells, NameTells
<1>11. NameTells("attachment")
  <2>1. Tells(Pairs["attachment"][1], {"width", "height"})
    BY PairsAre, AttachmentTells
  <2>2. \A m \in {"width", "height"} : <<"attachment", m>> \in Unfaithful
    BY DEF Unfaithful
  <2> QED
    BY <2>1, <2>2 DEF Tells, NameTells
<1>12. NameTells("activity")
  <2>1. Tells(Pairs["activity"][1], {"url"})
    BY PairsAre, ActivityTells
  <2>2. \A m \in {"url"} : <<"activity", m>> \in Unfaithful
    BY DEF Unfaithful
  <2> QED
    BY <2>1, <2>2 DEF Tells, NameTells
<1>13. NameTells("invite_metadata")
  <2>1. Tells(Pairs["invite_metadata"][1], {"user", "uses"})
    BY PairsAre, InviteMetadataTells
  <2>2. \A m \in {"user", "uses"} : <<"invite_metadata", m>> \in Unfaithful
    BY DEF Unfaithful
  <2> QED
    BY <2>1, <2>2 DEF Tells, NameTells
<1>14. NameTells("audit_log_entry")
  <2>1. Tells(Pairs["audit_log_entry"][1], {"target_id"})
    BY PairsAre, LogEntryTells
  <2>2. \A m \in {"target_id"} : <<"audit_log_entry", m>> \in Unfaithful
    BY DEF Unfaithful
  <2> QED
    BY <2>1, <2>2 DEF Tells, NameTells
<1>0. \A n : Tells(Pairs[n][1], {}) => NameTells(n)
  BY DEF Tells, NameTells
<1> HIDE DEF NameTells
<1> QED
  BY NamesAre, <1>0, <1>1, <1>2, <1>3, <1>4, <1>5, <1>6, <1>7, <1>8, <1>9, <1>10, <1>11,
                             <1>12, <1>13, <1>14

-----------------------------------------------------------------------------
(* The two libraries beside each other.                                    *)

(* What LibrariesReadAlike needs of the two forms of an object: either they  *)
(* read the same fields, or ...                                              *)
ReadTheSame(f, g) == f.reads = g.reads /\ f.inPlace = g.inPlace /\ (f.inPlace => f = g)

BothFill(f, g, apart) ==
    \A m \in f.shows \cap g.shows : m \in apart \/ (FilledBy(f, m) /\ FilledBy(g, m))

NameAlike(n) ==
    \/ ReadTheSame(Pairs[n][1], Pairs[n][2])
    \/ \E but, apart :
         /\ IsSequence(Pairs[n][2].reads)
         /\ AlikeReads(Pairs[n][1].reads, Pairs[n][2].reads, but)
         /\ \A k \in but : <<n, k>> \in NullTakenByOne
         /\ BothFill(Pairs[n][1], Pairs[n][2], apart)
         /\ \A m \in apart : <<n, m>> \in ShownApart

LEMMA FillBoth ==
    ASSUME NEW f, NEW g, NEW but, NEW apart, Tells(f, but), OwnKeys(g.reads),
           g.shows = Members(g.reads), ~ g.inPlace, "nothing" \notin f.shows,
           \A h \in Range(g.reads) : h.key \in but => h.key \in apart
    PROVE  BothFill(f, g, apart)
BY MembersOf DEF BothFill, Tells, OwnKeys, FilledBy

LEMMA UserFills == BothFill(User, UserNc, {})
<1>1. UserNc.reads = UserReadsNc /\ UserNc.shows = Members(UserReadsNc) /\ ~ UserNc.inPlace
  BY DEF UserNc, PublicBoth, Both, Part
<1>2. "nothing" \notin User.shows
  BY DEF User, Both, Part, UserShows
<1>3. \A h \in Range(UserReadsNc) : h.key \in {"public_flags", "premium_type"} => h.key \in {}
  BY UserReadsFields, UserReadsNcFields, FieldFacts
     DEF Table, IsField
<1> QED
  BY <1>1, <1>2, <1>3, UserTells, UserAlike, FillBoth

LEMMA MemberFills == BothFill(Member, MemberNc, {})
<1>1. /\ MemberNc.reads = MemberReadsNc
      /\ MemberNc.shows = Members(MemberReadsNc)
      /\ ~ MemberNc.inPlace
  BY DEF MemberNc, Public, Object, Part
<1>2. "nothing" \notin Member.shows
  BY DEF Member, Object, Part, MemberShows, UserShows
<1>3. \A h \in Range(MemberReadsNc) :
        h.key \in {"public_flags", "premium_type", "joined_at"} => h.key \in {}
  BY MemberReadsFields, UserReadsFields, MemberReadsNcFields, UserReadsNcFields, FieldFacts
     DEF Table, IsField
<1> QED
  BY <1>1, <1>2, <1>3, MemberTells, MemberAlike, FillBoth

LEMMA RoleFills == BothFill(Role, RoleNc, {})
<1>1. RoleNc.reads = RoleReadsNc /\ RoleNc.shows = Members(RoleReadsNc) /\ ~ RoleNc.inPlace
  BY DEF RoleNc, PublicBoth, Both, Part
<1>2. "nothing" \notin Role.shows
  BY DEF Role, Both, Part, RoleShows
<1>3. \A h \in Range(RoleReadsNc) : h.key \in {} => h.key \in {}
  OBVIOUS
<1> QED
  BY <1>1, <1>2, <1>3, RoleTells, RoleAlike, FillBoth

LEMMA OverwriteFills == BothFill(Overwrite, OverwriteNc, {})
<1>1. /\ OverwriteNc.reads = OverwriteReadsNc
      /\ OverwriteNc.shows = Members(OverwriteReadsNc)
      /\ ~ OverwriteNc.inPlace
  BY DEF OverwriteNc, PublicBoth, Both, Part
<1>2. "nothing" \notin Overwrite.shows
  BY DEF Overwrite, Both, Part, OverwriteShows
<1>3. \A h \in Range(OverwriteReadsNc) : h.key \in {} => h.key \in {}
  OBVIOUS
<1> QED
  BY <1>1, <1>2, <1>3, OverwriteTells, OverwriteAlike, FillBoth

LEMMA GuildUpdateFills == BothFill(GuildUpdate, GuildNc, {})
<1>1. GuildNc.reads = GuildReadsNc /\ GuildNc.shows = Members(GuildReadsNc) /\ ~ GuildNc.inPlace
  BY DEF GuildNc, Public, Object, Part
<1>2. "nothing" \notin GuildUpdate.shows
  BY DEF GuildUpdate, Updated, Object, Part, GuildShows
<1>3. \A h \in Range(GuildReadsNc) : h.key \in {} => h.key \in {}
  OBVIOUS
<1> QED
  BY <1>1, <1>2, <1>3, GuildUpdateTells, GuildUpdateAlike, FillBoth

LEMMA GuildFills == BothFill(WholeGuild, WholeGuildNc, {})
<1>1. /\ WholeGuildNc.reads = WholeGuildReadsNc
      /\ WholeGuildNc.shows = Members(WholeGuildReadsNc)
      /\ ~ WholeGuildNc.inPlace
  BY DEF WholeGuildNc, Public, Object, Part
<1>2. "nothing" \notin WholeGuild.shows
  BY DEF WholeGuild, Object, Part, WholeGuildShows, GuildShows
<1>3. \A h \in Range(WholeGuildReadsNc) : h.key \in {"joined_at"} => h.key \in {}
  BY WholeGuildReadsFields, GuildReadsFields, WholeGuildReadsNcFields, GuildReadsNcFields,
     FieldFacts
     DEF Table, IsField
<1> QED
  BY <1>1, <1>2, <1>3, WholeGuildTells, GuildAlike, FillBoth

LEMMA ChannelFills == BothFill(PartialChannel, PartialChannelNc, {})
<1>1. /\ PartialChannelNc.reads = ChannelReadsNc
      /\ PartialChannelNc.shows = Members(ChannelReadsNc)
      /\ ~ PartialChannelNc.inPlace
  BY DEF PartialChannelNc, PublicBoth, Both, Part
<1>2. "nothing" \notin PartialChannel.shows
  BY DEF PartialChannel, Both, Part
<1>3. \A h \in Range(ChannelReadsNc) : h.key \in {} => h.key \in {}
  OBVIOUS
<1> QED
  BY <1>1, <1>2, <1>3, PartialChannelTells, ChannelAlike, FillBoth

LEMMA CatagoryFills == BothFill(Catagory, CatagoryNc, {})
<1>1. /\ CatagoryNc.reads = GuildChannelReadsNc
      /\ CatagoryNc.shows = Members(GuildChannelReadsNc)
      /\ ~ CatagoryNc.inPlace
  BY DEF CatagoryNc, Public, Object, Part
<1>2. "nothing" \notin Catagory.shows
  BY DEF Catagory, Updated, Object, Part, GuildChannelShows
<1>3. \A h \in Range(GuildChannelReadsNc) : h.key \in {} => h.key \in {}
  OBVIOUS
<1> QED
  BY <1>1, <1>2, <1>3, CatagoryTells, CatagoryAlike, FillBoth

LEMMA TextChannelFills == BothFill(TextChannel, TextChannelNc, {})
<1>1. /\ TextChannelNc.reads = TextChannelReadsNc
      /\ TextChannelNc.shows = Members(TextChannelReadsNc)
      /\ ~ TextChannelNc.inPlace
  BY DEF TextChannelNc, Public, Object, Part
<1>2. "nothing" \notin TextChannel.shows
  BY DEF TextChannel, Updated, Object, Part, GuildChannelShows
<1>3. \A h \in Range(TextChannelReadsNc) : h.key \in {} => h.key \in {}
  OBVIOUS
<1> QED
  BY <1>1, <1>2, <1>3, TextChannelTells, TextChannelAlike, FillBoth

LEMMA VoiceChannelFills == BothFill(VoiceChannel, VoiceChannelNc, {})
<1>1. /\ VoiceChannelNc.reads = VoiceChannelReadsNc
      /\ VoiceChannelNc.shows = Members(VoiceChannelReadsNc)
      /\ ~ VoiceChannelNc.inPlace
  BY DEF VoiceChannelNc, Public, Object, Part
<1>2. "nothing" \notin VoiceChannel.shows
  BY DEF VoiceChannel, Updated, Object, Part, GuildChannelShows
<1>3. \A h \in Range(VoiceChannelReadsNc) : h.key \in {} => h.key \in {}
  OBVIOUS
<1> QED
  BY <1>1, <1>2, <1>3, VoiceChannelTells, VoiceChannelAlike, FillBoth

LEMMA DmChannelFills == BothFill(DmChannel, DmChannelNc, {})
<1>1. /\ DmChannelNc.reads = DmChannelReadsNc
      /\ DmChannelNc.shows = Members(DmChannelReadsNc)
      /\ ~ DmChannelNc.inPlace
  BY DEF DmChannelNc, PublicBoth, Both, Part
<1>2. "nothing" \notin DmChannel.shows
  BY DEF DmChannel, Both, Part, DmChannelShows
<1>3. \A h \in Range(DmChannelReadsNc) : h.key \in {"last_pin_timestamp"} => h.key \in {}
  BY DmChannelReadsFields, DmChannelReadsNcFields, ChannelReadsFields, ChannelReadsNcFields,
     FieldFacts
     DEF Table, IsField
<1> QED
  BY <1>1, <1>2, <1>3, DmChannelTells, DmChannelAlike, FillBoth

LEMMA MessageFills == BothFill(Message, MessageNc, {})
<1>1. /\ MessageNc.reads = MessageReadsNc
      /\ MessageNc.shows = Members(MessageReadsNc)
      /\ ~ MessageNc.inPlace
  BY DEF MessageNc, Public, Object, Part
<1>2. "nothing" \notin Message.shows
  BY DEF Message, Object, Part, MessageShows
<1>3. \A h \in Range(MessageReadsNc) : h.key \in {} => h.key \in {}
  OBVIOUS
<1> QED
  BY <1>1, <1>2, <1>3, MessageTells, MessageAlike, FillBoth

LEMMA VoiceStateFills == BothFill(VoiceState, VoiceStateNc, {})
<1>1. /\ VoiceStateNc.reads = VoiceStateReadsNc
      /\ VoiceStateNc.shows = Members(VoiceStateReadsNc)
      /\ ~ VoiceStateNc.inPlace
  BY DEF VoiceStateNc, Public, Object, Part
<1>2. "nothing" \notin VoiceState.shows
  BY DEF VoiceState, Object, Part
<1>3. \A h \in Range(VoiceStateReadsNc) : h.key \in {} => h.key \in {}
  OBVIOUS
<1> QED
  BY <1>1, <1>2, <1>3, VoiceStateTells, VoiceStateAlike, FillBoth

LEMMA VoiceState2Fills == BothFill(VoiceState2, VoiceState2Nc, {})
<1>1. VoiceState2Nc.shows = Members(VoiceState2Nc.reads) /\ ~ VoiceState2Nc.inPlace
  BY DEF VoiceState2Nc, Public, Object, Part
<1>2. "nothing" \notin VoiceState2.shows
  BY DEF VoiceState2, Object, Part, VoiceState
<1>3. \A h \in Range(VoiceState2Nc.reads) : h.key \in {} => h.key \in {}
  OBVIOUS
<1> QED
  BY <1>1, <1>2, <1>3, VoiceState2Tells, VoiceState2Alike, FillBoth

LEMMA ChangedRoleFills == BothFill(ChangedRole, ChangedRoleNc, {})
<1>1. /\ ChangedRoleNc.reads = ChangedRoleReads("number")
      /\ ChangedRoleNc.shows = Members(ChangedRoleReads("number"))
      /\ ~ ChangedRoleNc.inPlace
  BY DEF ChangedRoleNc, Object, Part
<1>2. "nothing" \notin ChangedRole.shows
  BY ChangedRoleFields, FieldFacts, MembersOf
     DEF ChangedRole, Object, Part, Table, IsField
<1>3. \A h \in Range(ChangedRoleReads("number")) : h.key \in {} => h.key \in {}
  OBVIOUS
<1> QED
  BY <1>1, <1>2, <1>3, ChangedRoleTells, ChangedRoleAlike, FillBoth

LEMMA AuditLogEntryFills == BothFill(LogEntry, LogEntryNc, {"target_id"})
<1>1. /\ LogEntryNc.reads = EntryReads
      /\ LogEntryNc.shows = Members(EntryReads)
      /\ ~ LogEntryNc.inPlace
  BY DEF LogEntryNc, Public, Object, Part
<1>2. "nothing" \notin LogEntry.shows
  BY LogEntryFields, EntryReadsFields, EntryRestFields, FieldFacts, MembersOf
     DEF LogEntry, Object, Part, Table, IsField
<1>3. \A h \in Range(EntryReads) : h.key \in {"target_id"} => h.key \in {"target_id"}
  BY LogEntryFields, EntryReadsFields, EntryRestFields, FieldFacts
     DEF Table, IsField
<1> QED
  BY <1>1, <1>2, <1>3, LogEntryTells, AuditLogEntryAlike, FillBoth

LEMMA AllAlike == \A n \in Names : NameAlike(n)
<1>1. NameAlike("user")
  <2>1. Pairs["user"][1] = User /\ Pairs["user"][2] = UserNc
    BY PairsAre
  <2>2. User.reads = UserReads /\ UserNc.reads = UserReadsNc
    BY DEF User, UserNc, Both, PublicBoth, Part
  <2> QED
    BY <2>1, <2>2, UserAlike, UserFills DEF NameAlike, OwnKeys
<1>2. NameAlike("member")
  <2>1. Pairs["member"][1] = Member /\ Pairs["member"][2] = MemberNc
    BY PairsAre
  <2>2. Member.reads = MemberReads /\ MemberNc.reads = MemberReadsNc
    BY DEF Member, MemberNc, Object, Public, Part
  <2>3. \A k \in {"roles"} : <<"member", k>> \in NullTakenByOne
    BY DEF NullTakenByOne
  <2> QED
    BY <2>1, <2>2, <2>3, MemberAlike, MemberFills DEF NameAlike, OwnKeys
<1>3. NameAlike("role")
  <2>1. Pairs["role"][1] = Role /\ Pairs["role"][2] = RoleNc
    BY PairsAre
  <2>2. Role.reads = RoleReads /\ RoleNc.reads = RoleReadsNc
    BY DEF Role, RoleNc, Both, PublicBoth, Part
  <2> QED
    BY <2>1, <2>2, RoleAlike, RoleFills DEF NameAlike, OwnKeys
<1>4. NameAlike("overwrite")
  <2>1. Pairs["overwrite"][1] = Overwrite /\ Pairs["overwrite"][2] = OverwriteNc
    BY PairsAre
  <2>2. Overwrite.reads = OverwriteReads /\ OverwriteNc.reads = OverwriteReadsNc
    BY DEF Overwrite, OverwriteNc, Both, PublicBoth, Part
  <2>3. \A k \in {"allow", "deny"} : <<"overwrite", k>> \in NullTakenByOne
    BY DEF NullTakenByOne
  <2> QED
    BY <2>1, <2>2, <2>3, OverwriteAlike, OverwriteFills DEF NameAlike, OwnKeys
<1>5. NameAlike("guild_update")
  <2>1. Pairs["guild_update"][1] = GuildUpdate /\ Pairs["guild_update"][2] = GuildNc
    BY PairsAre
  <2>2. GuildUpdate.reads = GuildReads /\ GuildNc.reads = GuildReadsNc
    BY DEF GuildUpdate, GuildNc, Updated, Object, Public, Part
  <2> QED
    BY <2>1, <2>2, GuildUpdateAlike, GuildUpdateFills DEF NameAlike, OwnKeys
<1>6. NameAlike("guild")
  <2>1. Pairs["guild"][1] = WholeGuild /\ Pairs["guild"][2] = WholeGuildNc
    BY PairsAre
  <2>2. WholeGuild.reads = WholeGuildReads /\ WholeGuildNc.reads = WholeGuildReadsNc
    BY DEF WholeGuild, WholeGuildNc, Object, Public, Part
  <2> QED
    BY <2>1, <2>2, GuildAlike, GuildFills DEF NameAlike, OwnKeys
<1>7. NameAlike("channel")
  <2>1. Pairs["channel"][1] = PartialChannel /\ Pairs["channel"][2] = PartialChannelNc
    BY PairsAre
  <2>2. PartialChannel.reads = ChannelReads /\ PartialChannelNc.reads = ChannelReadsNc
    BY DEF PartialChannel, PartialChannelNc, Both, PublicBoth, Part
  <2> QED
    BY <2>1, <2>2, ChannelAlike, ChannelFills DEF NameAlike, OwnKeys
<1>8. NameAlike("catagory")
  <2>1. Pairs["catagory"][1] = Catagory /\ Pairs["catagory"][2] = CatagoryNc
    BY PairsAre
  <2>2. Catagory.reads = GuildChannelReads /\ CatagoryNc.reads = GuildChannelReadsNc
    BY DEF Catagory, CatagoryNc, Updated, Object, Public, Part
  <2> QED
    BY <2>1, <2>2, CatagoryAlike, CatagoryFills DEF NameAlike, OwnKeys
<1>9. NameAlike("text_channel")
  <2>1. Pairs["text_channel"][1] = TextChannel /\ Pairs["text_channel"][2] = TextChannelNc
    BY PairsAre
  <2>2. TextChannel.reads = TextChannelReads /\ TextChannelNc.reads = TextChannelReadsNc
    BY DEF TextChannel, TextChannelNc, Updated, Object, Public, Part
  <2> QED
    BY <2>1, <2>2, TextChannelAlike, TextChannelFills DEF NameAlike, OwnKeys
<1>10. NameAlike("voice_channel")
  <2>1. Pairs["voice_channel"][1] = VoiceChannel /\ Pairs["voice_channel"][2] = VoiceChannelNc
    BY PairsAre
  <2>2. VoiceChannel.reads = VoiceChannelReads /\ VoiceChannelNc.reads = VoiceChannelReadsNc
    BY DEF VoiceChannel, VoiceChannelNc, Updated, Object, Public, Part
  <2> QED
    BY <2>1, <2>2, VoiceChannelAlike, VoiceChannelFills DEF NameAlike, OwnKeys
<1>11. NameAlike("dm_channel")
  <2>1. Pairs["dm_channel"][1] = DmChannel /\ Pairs["dm_channel"][2] = DmChannelNc
    BY PairsAre
  <2>2. DmChannel.reads = DmChannelReads /\ DmChannelNc.reads = DmChannelReadsNc
    BY DEF DmChannel, DmChannelNc, Both, PublicBoth, Part
  <2> QED
    BY <2>1, <2>2, DmChannelAlike, DmChannelFills DEF NameAlike, OwnKeys
<1>12. NameAlike("message")
  <2>1. Pairs["message"][1] = Message /\ Pairs["message"][2] = MessageNc
    BY PairsAre
  <2>2. Message.reads = MessageReads /\ MessageNc.reads = MessageReadsNc
    BY DEF Message, MessageNc, Object, Public, Part
  <2>3. \A k \in {"attachments", "reactions"} : <<"message", k>> \in NullTakenByOne
    BY DEF NullTakenByOne
  <2> QED
    BY <2>1, <2>2, <2>3, MessageAlike, MessageFills DEF NameAlike, OwnKeys
<1>13. NameAlike("voice_state")
  <2>1. Pairs["voice_state"][1] = VoiceState /\ Pairs["voice_state"][2] = VoiceStateNc
    BY PairsAre
  <2>2. VoiceState.reads = VoiceStateReads /\ VoiceStateNc.reads = VoiceStateReadsNc
    BY DEF VoiceState, VoiceStateNc, Object, Public, Part
  <2>3. \A k \in {"member"} : <<"voice_state", k>> \in NullTakenByOne
    BY DEF NullTakenByOne
  <2> QED
    BY <2>1, <2>2, <2>3, VoiceStateAlike, VoiceStateFills DEF NameAlike, OwnKeys
<1>14. NameAlike("voice_state2")
  <2>1. Pairs["voice_state2"][1] = VoiceState2 /\ Pairs["voice_state2"][2] = VoiceState2Nc
    BY PairsAre
  <2>2. \A k \in {"member"} : <<"voice_state2", k>> \in NullTakenByOne
    BY DEF NullTakenByOne
  <2> QED
    BY <2>1, <2>2, VoiceState2Alike, VoiceState2Fills DEF NameAlike, OwnKeys
<1>15. NameAlike("changed_role")
  <2>1. Pairs["changed_role"][1] = ChangedRole /\ Pairs["changed_role"][2] = ChangedRoleNc
    BY PairsAre
  <2>2. /\ ChangedRole.reads = ChangedRoleReads("text")
        /\ ChangedRoleNc.reads = ChangedRoleReads("number")
    BY DEF ChangedRole, ChangedRoleNc, Object, Part
  <2> QED
    BY <2>1, <2>2, ChangedRoleAlike, ChangedRoleFills DEF NameAlike, OwnKeys
<1>16. NameAlike("audit_log_entry")
  <2>1. Pairs["audit_log_entry"][1] = LogEntry /\ Pairs["audit_log_entry"][2] = LogEntryNc
    BY PairsAre
  <2>2. LogEntryNc.reads = EntryReads
    BY DEF LogEntry, LogEntryNc, Object, Public, Part
  <2>3. \A m \in {"target_id"} : <<"audit_log_entry", m>> \in ShownApart
    BY DEF ShownApart
  <2> QED
    BY <2>1, <2>2, <2>3, AuditLogEntryAlike, AuditLogEntryFills DEF NameAlike, OwnKeys
<1>17. \A n \in {"footer", "image", "thumbnail", "video", "provider", "author", "field", "embed",
                 "member_update", "partial_emoji", "emoji", "integration", "partial_integration",
                 "integration_account", "template", "msg_update", "message_reference",
                 "attachment", "reaction", "voice_region", "activity", "presence", "invite_guild",
                 "invite_channel", "invite", "invite_metadata", "webhook", "entry_info",
                 "audit_log", "client_status", "unavailable_guild"} :
        ReadTheSame(Pairs[n][1], Pairs[n][2])
  <2>1. ReadTheSame(Pairs["footer"][1], Pairs["footer"][2])
    <3>1. ReadTheSame(Footer, FooterNc)
      BY DEF ReadTheSame, Footer, FooterNc, Public, Object, Part
    <3> QED
      BY <3>1, PairsAre
  <2>2. ReadTheSame(Pairs["image"][1], Pairs["image"][2])
    <3>1. ReadTheSame(Image, ImageNc)
      BY DEF ReadTheSame, Image, ImageNc, Public, Object, Part
    <3> QED
      BY <3>1, PairsAre
  <2>3. ReadTheSame(Pairs["thumbnail"][1], Pairs["thumbnail"][2])
    <3>1. ReadTheSame(Thumbnail, ThumbnailNc)
      BY DEF ReadTheSame, Thumbnail, ThumbnailNc, Public, Object, Part
    <3> QED
      BY <3>1, PairsAre
  <2>4. ReadTheSame(Pairs["video"][1], Pairs["video"][2])
    <3>1. ReadTheSame(Video, VideoNc)
      BY DEF ReadTheSame, Video, VideoNc, Public, Object, Part
    <3> QED
      BY <3>1, PairsAre
  <2>5. ReadTheSame(Pairs["provider"][1], Pairs["provider"][2])
    <3>1. ReadTheSame(Provider, ProviderNc)
      BY DEF ReadTheSame, Provider, ProviderNc, Public, Object, Part
    <3> QED
      BY <3>1, PairsAre
  <2>6. ReadTheSame(Pairs["author"][1], Pairs["author"][2])
    <3>1. ReadTheSame(Author, AuthorNc)
      BY DEF ReadTheSame, Author, AuthorNc, Public, Object, Part
    <3> QED
      BY <3>1, PairsAre
  <2>7. ReadTheSame(Pairs["field"][1], Pairs["field"][2])
    <3>1. ReadTheSame(EmbedField, EmbedFieldNc)
      BY DEF ReadTheSame, EmbedField, EmbedFieldNc, Public, Object, Part
    <3> QED
      BY <3>1, PairsAre
  <2>8. ReadTheSame(Pairs["embed"][1], Pairs["embed"][2])
    <3>1. ReadTheSame(Embed, EmbedNc)
      BY DEF ReadTheSame, Embed, EmbedNc, EmbedReadsNc, Public, Object, Part
    <3> QED
      BY <3>1, PairsAre
  <2>9. ReadTheSame(Pairs["member_update"][1], Pairs["member_update"][2])
    BY PairsAre DEF ReadTheSame
  <2>10. ReadTheSame(Pairs["partial_emoji"][1], Pairs["partial_emoji"][2])
    <3>1. ReadTheSame(PartialEmoji, PartialEmojiNc)
      BY DEF ReadTheSame, PartialEmoji, PartialEmojiNc, Public, Object, Part
    <3> QED
      BY <3>1, PairsAre
  <2>11. ReadTheSame(Pairs["emoji"][1], Pairs["emoji"][2])
    <3>1. ReadTheSame(Emoji, EmojiNc)
      BY DEF ReadTheSame, Emoji, EmojiNc, Public, Object, Part
    <3> QED
      BY <3>1, PairsAre
  <2>12. ReadTheSame(Pairs["integration"][1], Pairs["integration"][2])
    <3>1. ReadTheSame(Integration, IntegrationNc)
      BY DEF ReadTheSame, Integration, IntegrationNc, Public, Object, Part
    <3> QED
      BY <3>1, PairsAre
  <2>13. ReadTheSame(Pairs["partial_integration"][1], Pairs["partial_integration"][2])
    <3>1. ReadTheSame(PartialIntegration, PartialIntegrationNc)
      BY DEF ReadTheSame, PartialIntegration, PartialIntegrationNc, Public, Object, Part
    <3> QED
      BY <3>1, PairsAre
  <2>14. ReadTheSame(Pairs["integration_account"][1], Pairs["integration_account"][2])
    <3>1. ReadTheSame(IntegrationAccount, IntegrationAccountNc)
      BY DEF ReadTheSame, IntegrationAccount, IntegrationAccountNc, Public, Object, Part
    <3> QED
      BY <3>1, PairsAre
  <2>15. ReadTheSame(Pairs["template"][1], Pairs["template"][2])
    BY PairsAre DEF ReadTheSame
  <2>16. ReadTheSame(Pairs["msg_update"][1], Pairs["msg_update"][2])
    <3>1. ReadTheSame(MsgUpdate, MsgUpdateNc)
      BY DEF ReadTheSame, MsgUpdate, MsgUpdateNc, Public, Object, Part
    <3> QED
      BY <3>1, PairsAre
  <2>17. ReadTheSame(Pairs["message_reference"][1], Pairs["message_reference"][2])
    BY PairsAre DEF ReadTheSame
  <2>18. ReadTheSame(Pairs["attachment"][1], Pairs["attachment"][2])
    <3>1. ReadTheSame(Attachment, AttachmentNc)
      BY DEF ReadTheSame, Attachment, AttachmentNc, Public, Object, Part
    <3> QED
      BY <3>1, PairsAre
  <2>19. ReadTheSame(Pairs["reaction"][1], Pairs["reaction"][2])
    <3>1. ReadTheSame(Reaction, ReactionNc)
      BY DEF ReadTheSame, Reaction, ReactionNc, Public, Object, Part
    <3> QED
      BY <3>1, PairsAre
  <2>20. ReadTheSame(Pairs["voice_region"][1], Pairs["voice_region"][2])
    <3>1. ReadTheSame(VoiceRegion, VoiceRegionNc)
      BY DEF ReadTheSame, VoiceRegion, VoiceRegionNc, Public, Object, Part
    <3> QED
      BY <3>1, PairsAre
  <2>21. ReadTheSame(Pairs["activity"][1], Pairs["activity"][2])
    <3>1. ReadTheSame(Activity, ActivityNc)
      BY DEF ReadTheSame, Activity, ActivityNc, Public, Object, Part
    <3> QED
      BY <3>1, PairsAre
  <2>22. ReadTheSame(Pairs["presence"][1], Pairs["presence"][2])
    <3>1. ReadTheSame(PartialPresence, PartialPresenceNc)
      BY DEF ReadTheSame, PartialPresence, PartialPresenceNc, Public, Object, Part
    <3> QED
      BY <3>1, PairsAre
  <2>23. ReadTheSame(Pairs["invite_guild"][1], Pairs["invite_guild"][2])
    <3>1. ReadTheSame(InviteGuild, InviteGuildNc)
      BY DEF ReadTheSame, InviteGuild, InviteGuildNc, Public, Object, Part
    <3> QED
      BY <3>1, PairsAre
  <2>24. ReadTheSame(Pairs["invite_channel"][1], Pairs["invite_channel"][2])
    <3>1. ReadTheSame(InviteChannel, InviteChannelNc)
      BY DEF ReadTheSame, InviteChannel, InviteChannelNc, Public, Object, Part
    <3> QED
      BY <3>1, PairsAre
  <2>25. ReadTheSame(Pairs["invite"][1], Pairs["invite"][2])
    <3>1. ReadTheSame(Invite, InviteNc)
      BY DEF ReadTheSame, Invite, InviteNc, Public, Object, Part
    <3> QED
      BY <3>1, PairsAre
  <2>26. ReadTheSame(Pairs["invite_metadata"][1], Pairs["invite_metadata"][2])
    <3>1. ReadTheSame(InviteMetadata, InviteMetadataNc)
      BY DEF ReadTheSame, InviteMetadata, InviteMetadataNc, Public, Object, Part
    <3> QED
      BY <3>1, PairsAre
  <2>27. ReadTheSame(Pairs["webhook"][1], Pairs["webhook"][2])
    <3>1. ReadTheSame(Webhook, WebhookNc)
      BY DEF ReadTheSame, Webhook, WebhookNc, Public, Object, Part
    <3> QED
      BY <3>1, PairsAre
  <2>28. ReadTheSame(Pairs["entry_info"][1], Pairs["entry_info"][2])
    <3>1. ReadTheSame(EntryInfo, EntryInfoNc)
      BY DEF ReadTheSame, EntryInfo, EntryInfoNc, Public, Object, Part
    <3> QED
      BY <3>1, PairsAre
  <2>29. ReadTheSame(Pairs["audit_log"][1], Pairs["audit_log"][2])
    <3>1. ReadTheSame(AuditLog, AuditLogNc)
      BY DEF ReadTheSame, AuditLog, AuditLogNc, Public, Object, Part
    <3> QED
      BY <3>1, PairsAre
  <2>30. ReadTheSame(Pairs["client_status"][1], Pairs["client_status"][2])
    BY PairsAre DEF ReadTheSame
  <2>31. ReadTheSame(Pairs["unavailable_guild"][1], Pairs["unavailable_guild"][2])
    BY PairsAre DEF ReadTheSame
  <2> QED
    BY <2>1, <2>2, <2>3, <2>4, <2>5, <2>6, <2>7, <2>8, <2>9, <2>10, <2>11, <2>12, <2>13,
                 <2>14, <2>15, <2>16, <2>17, <2>18, <2>19, <2>20, <2>21, <2>22, <2>23, <2>24,
                 <2>25, <2>26, <2>27, <2>28, <2>29, <2>30, <2>31
<1>18. \A n : ReadTheSame(Pairs[n][1], Pairs[n][2]) => NameAlike(n)
  BY DEF NameAlike
<1> HIDE DEF NameAlike
<1> QED
  BY NamesAre, <1>1, <1>2, <1>3, <1>4, <1>5, <1>6, <1>7, <1>8, <1>9, <1>10, <1>11, <1>12,
                       <1>13, <1>14, <1>15, <1>16, <1>17, <1>18

(* What WrittenReadsBack needs of a form that is written.                    *)
NameSends(n, f) ==
    f.writes # <<>> =>
        \E but : Sends(f, but) /\ \A m \in but : <<n, m>> \in NotSent

LEMMA AllSend ==
    \A n \in SentAndRead : NameSends(n, Pairs[n][1]) /\ NameSends(n, Pairs[n][2])
<1>1. NameSends("footer", Footer) /\ NameSends("footer", FooterNc)
  <2>1. FooterNc = Footer
    BY DEF FooterNc
  <2>2. Sends(Footer, {}) /\ Sends(FooterNc, {})
    BY <2>1, FooterDoes
  <2> QED
    BY <2>2 DEF NameSends
<1>2. NameSends("image", Image) /\ NameSends("image", ImageNc)
  <2>1. ImageNc = Image
    BY DEF Image, ImageNc
  <2>2. Sends(Image, {}) /\ Sends(ImageNc, {})
    BY <2>1, ImageDoes
  <2> QED
    BY <2>2 DEF NameSends
<1>3. NameSends("thumbnail", Thumbnail) /\ NameSends("thumbnail", ThumbnailNc)
  <2>1. ThumbnailNc = Thumbnail
    BY DEF Thumbnail, ThumbnailNc
  <2>2. Sends(Thumbnail, {}) /\ Sends(ThumbnailNc, {})
    BY <2>1, ThumbnailDoes
  <2> QED
    BY <2>2 DEF NameSends
<1>4. NameSends("video", Video) /\ NameSends("video", VideoNc)
  <2>1. VideoNc = Video
    BY DEF Video, VideoNc
  <2>2. Sends(Video, {}) /\ Sends(VideoNc, {})
    BY <2>1, VideoDoes
  <2> QED
    BY <2>2 DEF NameSends
<1>5. NameSends("provider", Provider) /\ NameSends("provider", ProviderNc)
  <2>1. ProviderNc = Provider
    BY DEF Provider, ProviderNc
  <2>2. Sends(Provider, {}) /\ Sends(ProviderNc, {})
    BY <2>1, ProviderDoes
  <2> QED
    BY <2>2 DEF NameSends
<1>6. NameSends("author", Author) /\ NameSends("author", AuthorNc)
  <2>1. AuthorNc = Author
    BY DEF Author, AuthorNc
  <2>2. Sends(Author, {}) /\ Sends(AuthorNc, {})
    BY <2>1, AuthorDoes
  <2> QED
    BY <2>2 DEF NameSends
<1>7. NameSends("field", EmbedField) /\ NameSends("field", EmbedFieldNc)
  <2>1. EmbedFieldNc = EmbedField
    BY DEF EmbedFieldNc
  <2>2. Sends(EmbedField, {}) /\ Sends(EmbedFieldNc, {})
    BY <2>1, EmbedFieldDoes
  <2> QED
    BY <2>2 DEF NameSends
<1>8. NameSends("embed", Embed) /\ NameSends("embed", EmbedNc)
  <2>1. EmbedNc.reads = Embed.reads /\ EmbedNc.writes = Embed.writes /\ EmbedNc.shows = Embed.shows
    BY DEF Embed, EmbedNc, EmbedReadsNc, EmbedWritesNc, Part
  <2>2. \A m \in {"timestamp"} : <<"embed", m>> \in NotSent
    BY DEF NotSent
  <2>3. Sends(Embed, {"timestamp"}) /\ Sends(EmbedNc, {"timestamp"})
    BY <2>1, EmbedDoes DEF Sends
  <2> QED
    BY <2>2, <2>3 DEF NameSends
<1>9. NameSends("member", Member) /\ NameSends("member", MemberNc)
  BY DEF NameSends, Member, MemberNc, Object, Public, Part
<1>10. NameSends("member_update", MemberUpdate) /\ NameSends("member_update", MemberUpdate)
  BY DEF NameSends, MemberUpdate, Updated, Object, Public, Part
<1>11. NameSends("role", Role) /\ NameSends("role", RoleNc)
  <2>1. Sends(Role, {}) /\ Sends(RoleNc, {})
    BY RoleSends, RoleNcSends
  <2> QED
    BY <2>1 DEF NameSends
<1>12. NameSends("overwrite", Overwrite) /\ NameSends("overwrite", OverwriteNc)
  <2>1. Sends(Overwrite, {}) /\ Sends(OverwriteNc, {})
    BY OverwriteSends, OverwriteNcSends
  <2> QED
    BY <2>1 DEF NameSends
<1>13. NameSends("partial_emoji", PartialEmoji) /\ NameSends("partial_emoji", PartialEmojiNc)
  BY DEF NameSends, PartialEmoji, PartialEmojiNc, Object, Public, Part
<1>14. NameSends("emoji", Emoji) /\ NameSends("emoji", EmojiNc)
  BY DEF NameSends, Emoji, EmojiNc, Object, Public, Part
<1>15. NameSends("guild_update", GuildUpdate) /\ NameSends("guild_update", GuildNc)
  BY DEF NameSends, GuildUpdate, GuildNc, Updated, Object, Public, Part
<1>16. NameSends("guild", WholeGuild) /\ NameSends("guild", WholeGuildNc)
  BY DEF NameSends, WholeGuild, WholeGuildNc, Object, Public, Part
<1>17. NameSends("integration", Integration) /\ NameSends("integration", IntegrationNc)
  BY DEF NameSends, Integration, IntegrationNc, Object, Public, Part
<1>18. /\ NameSends("partial_integration", PartialIntegration)
       /\ NameSends("partial_integration", PartialIntegrationNc)
  BY DEF NameSends, PartialIntegration, PartialIntegrationNc, Object, Public, Part
<1>19. /\ NameSends("integration_account", IntegrationAccount)
       /\ NameSends("integration_account", IntegrationAccountNc)
  BY DEF NameSends, IntegrationAccount, IntegrationAccountNc, Object, Public, Part
<1>20. NameSends("template", Template) /\ NameSends("template", Template)
  BY DEF NameSends, Template, Object, Public, Part
<1>21. NameSends("channel", PartialChannel) /\ NameSends("channel", PartialChannelNc)
  <2>1. \A m \in {"type"} : <<"channel", m>> \in NotSent
    BY DEF NotSent
  <2>2. Sends(PartialChannel, {"type"}) /\ Sends(PartialChannelNc, {})
    BY PartialChannelSends, PartialChannelNcSends
  <2> QED
    BY <2>1, <2>2 DEF NameSends
<1>22. NameSends("catagory", Catagory) /\ NameSends("catagory", CatagoryNc)
  BY DEF NameSends, Catagory, CatagoryNc, Updated, Object, Public, Part
<1>23. NameSends("text_channel", TextChannel) /\ NameSends("text_channel", TextChannelNc)
  BY DEF NameSends, TextChannel, TextChannelNc, Updated, Object, Public, Part
<1>24. NameSends("voice_channel", VoiceChannel) /\ NameSends("voice_channel", VoiceChannelNc)
  BY DEF NameSends, VoiceChannel, VoiceChannelNc, Updated, Object, Public, Part
<1>25. NameSends("message", Message) /\ NameSends("message", MessageNc)
  BY DEF NameSends, Message, MessageNc, Object, Public, Part
<1>26. NameSends("msg_update", MsgUpdate) /\ NameSends("msg_update", MsgUpdateNc)
  BY DEF NameSends, MsgUpdate, MsgUpdateNc, Object, Public, Part
<1>27. /\ NameSends("message_reference", MessageReference)
       /\ NameSends("message_reference", MessageReference)
  BY DEF NameSends, MessageReference, Object, Public, Part
<1>28. NameSends("attachment", Attachment) /\ NameSends("attachment", AttachmentNc)
  BY DEF NameSends, Attachment, AttachmentNc, Object, Public, Part
<1>29. NameSends("reaction", Reaction) /\ NameSends("reaction", ReactionNc)
  BY DEF NameSends, Reaction, ReactionNc, Object, Public, Part
<1>30. NameSends("voice_state", VoiceState) /\ NameSends("voice_state", VoiceStateNc)
  BY DEF NameSends, VoiceState, VoiceStateNc, Object, Public, Part
<1>31. NameSends("voice_state2", VoiceState2) /\ NameSends("voice_state2", VoiceState2Nc)
  BY DEF NameSends, VoiceState2, VoiceState2Nc, Object, Public, Part
<1>32. NameSends("voice_region", VoiceRegion) /\ NameSends("voice_region", VoiceRegionNc)
  BY DEF NameSends, VoiceRegion, VoiceRegionNc, Object, Public, Part
<1>33. NameSends("activity", Activity) /\ NameSends("activity", ActivityNc)
  BY DEF NameSends, Activity, ActivityNc, Object, Public, Part
<1>34. NameSends("presence", PartialPresence) /\ NameSends("presence", PartialPresenceNc)
  BY DEF NameSends, PartialPresence, PartialPresenceNc, Object, Public, Part
<1>35. NameSends("invite_guild", InviteGuild) /\ NameSends("invite_guild", InviteGuildNc)
  BY DEF NameSends, InviteGuild, InviteGuildNc, Object, Public, Part
<1>36. NameSends("invite_channel", InviteChannel) /\ NameSends("invite_channel", InviteChannelNc)
  BY DEF NameSends, InviteChannel, InviteChannelNc, Object, Public, Part
<1>37. NameSends("invite", Invite) /\ NameSends("invite", InviteNc)
  BY DEF NameSends, Invite, InviteNc, Object, Public, Part
<1>38. /\ NameSends("invite_metadata", InviteMetadata)
       /\ NameSends("invite_metadata", InviteMetadataNc)
  BY DEF NameSends, InviteMetadata, InviteMetadataNc, Object, Public, Part
<1>39. NameSends("webhook", Webhook) /\ NameSends("webhook", WebhookNc)
  BY DEF NameSends, Webhook, WebhookNc, Object, Public, Part
<1>40. NameSends("changed_role", ChangedRole) /\ NameSends("changed_role", ChangedRoleNc)
  BY DEF NameSends, ChangedRole, ChangedRoleNc, Object, Public, Part
<1>41. NameSends("entry_info", EntryInfo) /\ NameSends("entry_info", EntryInfoNc)
  BY DEF NameSends, EntryInfo, EntryInfoNc, Object, Public, Part
<1>42. NameSends("audit_log_entry", LogEntry) /\ NameSends("audit_log_entry", LogEntryNc)
  BY DEF NameSends, LogEntry, LogEntryNc, Object, Public, Part
<1>43. NameSends("audit_log", AuditLog) /\ NameSends("audit_log", AuditLogNc)
  BY DEF NameSends, AuditLog, AuditLogNc, Object, Public, Part
<1>44. NameSends("client_status", ClientStatusNc) /\ NameSends("client_status", ClientStatusNc)
  BY DEF NameSends, ClientStatusNc, Object, Public, Part
<1>45. /\ NameSends("unavailable_guild", UnavailableGuildNc)
       /\ NameSends("unavailable_guild", UnavailableGuildNc)
  BY DEF NameSends, UnavailableGuildNc, Object, Public, Part
<1> HIDE DEF NameSends
<1>46. SentAndRead = Names \ {"user", "dm_channel"}
  BY DEF SentAndRead
<1> QED
  BY NamesAre, PairsAre, <1>1, <1>2, <1>3, <1>4, <1>5, <1>6, <1>7, <1>8, <1>9, <1>10,
                                 <1>11, <1>12, <1>13, <1>14, <1>15, <1>16, <1>17, <1>18, <1>19,
                                 <1>20, <1>21, <1>22, <1>23, <1>24, <1>25, <1>26, <1>27, <1>28,
                                 <1>29, <1>30, <1>31, <1>32, <1>33, <1>34, <1>35, <1>36, <1>37,
                                 <1>38, <1>39, <1>40, <1>41, <1>42, <1>43, <1>44, <1>45, <1>46

-----------------------------------------------------------------------------
(* An object while it is updated.                                          *)

(* What the forms of an object are.                                          *)
LEMMA FormFacts ==
    ASSUME NEW name, NEW lib, NEW nc
    PROVE  LET both == FormOf(name, lib, nc)
           IN  /\ both.name = name /\ both.lib = lib /\ both.nc = nc
               /\ \A f \in {lib, nc} : /\ Keys(f.reads) \subseteq both.keys
                                       /\ f.shows \subseteq DOMAIN both.blank
               /\ \A m \in DOMAIN both.blank : both.blank[m] = Default
<1> DEFINE both == FormOf(name, lib, nc)
           keys == UNION {Keys(f.reads) \cup f.shows \cup Keys(f.writes) : f \in {lib, nc}}
<1>1. /\ both.name = name /\ both.lib = lib /\ both.nc = nc /\ both.keys = keys
      /\ both.blank = [m \in keys \cup Members(lib.reads \o nc.reads) |-> Default]
  BY DEF FormOf
<1>2. \A f \in {lib, nc} : Keys(f.reads) \subseteq keys /\ f.shows \subseteq keys
  OBVIOUS
<1> HIDE DEF both, keys
<1>3. \A f \in {lib, nc} : Keys(f.reads) \subseteq both.keys /\ f.shows \subseteq DOMAIN both.blank
  BY <1>1, <1>2
<1>4. \A m \in DOMAIN both.blank : both.blank[m] = Default
  BY <1>1
<1> QED
  BY <1>1, <1>3, <1>4 DEF both

(* Two forms that read the same fields read the same, ...                    *)
LEMMA SameAfter ==
    ASSUME NEW f, NEW g, ReadTheSame(f, g), NEW old, NEW oldNc, f = g => old = oldNc,
           NEW blank, NEW json
    PROVE  LET r == After(f, old, blank, json)
               s == After(g, oldNc, blank, json)
           IN  r.threw = s.threw /\ (~ r.threw => r.obj = s.obj)
BY DEF After, ReadTheSame

(* ... and two that are alike refuse the same.                               *)
LEMMA ThrowTogether ==
    ASSUME NEW f, NEW g, NEW but, AlikeReads(f.reads, g.reads, but), NEW k, NEW how,
           k \in (Keys(f.reads) \cap Keys(g.reads)) \cup {"none"},
           how = "null" => k \notin but,
           how = "gone" => ~ Needed(f.reads, k) /\ ~ Needed(g.reads, k)
    PROVE  Throws(f.reads, k, how) <=> Throws(g.reads, k, how)
<1>1. \A s : Needed(s, k) <=> \E h \in Range(s) : h.key = k /\ h.gone = "throws"
  BY DEF Needed, Range
<1>2. \A s : k \in Keys(s) <=> \E h \in Range(s) : h.key = k
  BY DEF Keys, Range
<1>3. k = "none" => ~ Throws(f.reads, k, how) /\ ~ Throws(g.reads, k, how)
  BY DEF Throws, AlikeReads
<1>4. CASE k # "none"
  <2>1. PICK a \in Range(f.reads), b \in Range(g.reads) : a.key = k /\ b.key = k
    BY <1>2, <1>4
  <2>2. CASE how = "gone"
    BY <1>1, <2>2 DEF Throws, Oddly
  <2>3. CASE how = "null"
    BY <2>1, <2>3 DEF Throws, Oddly, AlikeReads
  <2>4. CASE how \notin {"gone", "null"}
    <3>1. \A h : Oddly(h, how) = IF h.kind \in {"any", "odd"} THEN "takes" ELSE "throws"
      BY <2>4 DEF Oddly
    <3> QED
      BY <2>1, <3>1 DEF Throws, AlikeReads
  <2> QED
    BY <2>2, <2>3, <2>4
<1> QED
  BY <1>3, <1>4

ObjectsInv ==
    /\ \E n \in Names : form = FormOf(n, Pairs[n][1], Pairs[n][2])
    /\ update \in Nat
    /\ DOMAIN obj = DOMAIN form.blank /\ DOMAIN objNc = DOMAIN form.blank
    /\ form.lib = form.nc => obj = objNc
    /\ NothingStale /\ LibrariesReadAlike

LEMMA ObjectsStart == ObjectsInit => ObjectsInv
<1> SUFFICES ASSUME ObjectsInit PROVE ObjectsInv
  OBVIOUS
<1>1. NothingStale /\ LibrariesReadAlike
  BY DEF ObjectsInit, NothingStale, LibrariesReadAlike
<1> QED
  BY <1>1 DEF ObjectsInit, ObjectsInv

LEMMA UpdateReads ==
    ASSUME ObjectsInv, NEW k, NEW what, k = "none" \/ what \in {"gone", "null", "wrong"},
           Update(k, what)
    PROVE  ObjectsInv'
<1> DEFINE f == form.lib
           g == form.nc
           json == [key \in form.keys |-> Says(update + 1, k, what, key)]
           r == After(f, obj, form.blank, json)
           s == After(g, objNc, form.blank, json)
<1>1. PICK n \in Names : form = FormOf(n, Pairs[n][1], Pairs[n][2])
  BY DEF ObjectsInv
<1>2. /\ form.name = n /\ f = Pairs[n][1] /\ g = Pairs[n][2]
      /\ Keys(f.reads) \subseteq form.keys /\ Keys(g.reads) \subseteq form.keys
      /\ f.shows \subseteq DOMAIN form.blank /\ g.shows \subseteq DOMAIN form.blank
      /\ \A m \in DOMAIN form.blank : form.blank[m] = Default
  BY <1>1, FormFacts
<1>3. /\ update' = update + 1 /\ oddKey' = k /\ oddity' = what /\ form' = form
      /\ obj' = r.obj /\ failed' = r.threw /\ objNc' = s.obj /\ failedNc' = s.threw
  BY DEF Update
<1>4. what = "gone" => ~ Needed(f.reads, k) /\ ~ Needed(g.reads, k)
  BY DEF Update
<1>5. NameTells(n) /\ NameAlike(n)
  BY AllTell, AllAlike
<1>6. IsSequence(f.reads) /\ IsSequence(g.reads)
  BY <1>2, <1>5 DEF NameTells, NameAlike, ReadTheSame
<1>7. /\ DOMAIN obj = DOMAIN form.blank /\ DOMAIN objNc = DOMAIN form.blank
      /\ f = g => obj = objNc
      /\ update \in Nat
  BY DEF ObjectsInv
<1>8. /\ r.threw <=> Throws(f.reads, k, what)
      /\ DOMAIN r.obj = DOMAIN form.blank
      /\ ~ r.threw =>
            \A m \in f.shows : FilledBy(f, m) => r.obj[m] = Says(update + 1, k, what, m).v
  <2>1. /\ r.threw <=> Throws(f.reads, k, what)
        /\ DOMAIN r.obj = DOMAIN form.blank
        /\ ~ r.threw =>
             \A m \in DOMAIN form.blank : FilledBy(f, m) /\ form.blank[m] = Default =>
                 r.obj[m] = Says(update + 1, k, what, m).v
    <3>1. /\ IsSequence(f.reads) /\ DOMAIN obj = DOMAIN form.blank
          /\ \A key \in Keys(f.reads) : json[key] = Says(update + 1, k, what, key)
      BY <1>2, <1>6, <1>7
    <3> HIDE DEF f, json
    <3>2. Telling(f, obj, form.blank, json, update + 1, k, what)
      BY <3>1, UpdateTells
    <3> QED
      BY <3>2 DEF Telling
  <2> HIDE DEF r
  <2> QED
    BY <1>2, <2>1
<1>9. /\ s.threw <=> Throws(g.reads, k, what)
      /\ DOMAIN s.obj = DOMAIN form.blank
      /\ ~ s.threw =>
            \A m \in g.shows : FilledBy(g, m) => s.obj[m] = Says(update + 1, k, what, m).v
  <2>1. /\ s.threw <=> Throws(g.reads, k, what)
        /\ DOMAIN s.obj = DOMAIN form.blank
        /\ ~ s.threw =>
             \A m \in DOMAIN form.blank : FilledBy(g, m) /\ form.blank[m] = Default =>
                 s.obj[m] = Says(update + 1, k, what, m).v
    <3>1. /\ IsSequence(g.reads) /\ DOMAIN objNc = DOMAIN form.blank
          /\ \A key \in Keys(g.reads) : json[key] = Says(update + 1, k, what, key)
      BY <1>2, <1>6, <1>7
    <3> HIDE DEF g, json
    <3>2. Telling(g, objNc, form.blank, json, update + 1, k, what)
      BY <3>1, UpdateTells
    <3> QED
      BY <3>2 DEF Telling
  <2> HIDE DEF s
  <2> QED
    BY <1>2, <2>1
<1>10. f = g => r = s
  BY <1>7
<1> HIDE DEF r, s, f, g, json
<1>11. NothingStale'
  <2>1. \A m \in f.shows : <<n, m>> \in Unfaithful \/ FilledBy(f, m)
    BY <1>2, <1>5 DEF NameTells
  <2>2. form'.lib = f /\ form'.name = n
    BY <1>2, <1>3 DEF f
  <2> QED
    BY <1>3, <1>8, <2>1, <2>2 DEF NothingStale
<1>12. LibrariesReadAlike'
  <2> SUFFICES ASSUME k \in (Keys(f.reads) \cap Keys(g.reads)) \cup {"none"},
                      ~ (what = "null" /\ <<n, k>> \in NullTakenByOne)
               PROVE  /\ r.threw <=> s.threw
                      /\ ~ r.threw => \A m \in f.shows \cap g.shows :
                           <<n, m>> \in ShownApart \/ r.obj[m] = s.obj[m]
    <3>1. form'.lib = f /\ form'.nc = g /\ form'.name = n
      BY <1>2, <1>3 DEF f, g
    <3> QED
      BY <1>3, <3>1 DEF LibrariesReadAlike, ReadByBoth
  <2>1. CASE ReadTheSame(f, g)
    <3>1. r.threw = s.threw /\ (~ r.threw => r.obj = s.obj)
      BY <1>7, <2>1, SameAfter DEF r, s
    <3> QED
      BY <3>1
  <2>2. ASSUME NEW but, NEW apart, AlikeReads(f.reads, g.reads, but),
               \A key \in but : <<n, key>> \in NullTakenByOne,
               BothFill(f, g, apart), \A m \in apart : <<n, m>> \in ShownApart
        PROVE  /\ r.threw <=> s.threw
               /\ ~ r.threw => \A m \in f.shows \cap g.shows :
                    <<n, m>> \in ShownApart \/ r.obj[m] = s.obj[m]
    <3>1. r.threw <=> s.threw
      <4>1. what = "null" => k \notin but
        BY <2>2
      <4> QED
        BY <1>4, <1>8, <1>9, <2>2, <4>1, ThrowTogether
    <3> QED
      BY <1>8, <1>9, <2>2, <3>1 DEF BothFill
  <2> QED
    BY <1>2, <1>5, <2>1, <2>2 DEF NameAlike
<1>13. form'.lib = form'.nc => obj' = objNc'
  BY <1>3, <1>10 DEF f, g
<1> QED
  BY <1>1, <1>3, <1>7, <1>8, <1>9, <1>11, <1>12, <1>13 DEF ObjectsInv

LEMMA SetKeeps == ASSUME ObjectsInv, NEW m, NEW v, Set(m, v) PROVE ObjectsInv'
<1>1. update' = 0 /\ form' = form
  BY DEF Set
<1>2. NothingStale' /\ LibrariesReadAlike'
  BY <1>1 DEF NothingStale, LibrariesReadAlike
<1>3. DOMAIN obj' = DOMAIN obj /\ DOMAIN objNc' = DOMAIN objNc
  BY DEF Set
<1>4. form.lib = form.nc => obj' = objNc'
  BY DEF Set, ObjectsInv
<1> QED
  BY <1>1, <1>2, <1>3, <1>4 DEF ObjectsInv

LEMMA ObjectsKept == ObjectsInv /\ UNCHANGED objectVars => ObjectsInv'
<1> SUFFICES ASSUME ObjectsInv, UNCHANGED objectVars PROVE ObjectsInv'
  OBVIOUS
<1>1. /\ form' = form /\ obj' = obj /\ objNc' = objNc /\ update' = update
      /\ oddKey' = oddKey /\ oddity' = oddity /\ failed' = failed /\ failedNc' = failedNc
  BY DEF objectVars
<1>2. NothingStale'
  BY <1>1 DEF ObjectsInv, NothingStale
<1>3. LibrariesReadAlike'
  BY <1>1 DEF ObjectsInv, LibrariesReadAlike, ReadByBoth
<1> QED
  BY <1>1, <1>2, <1>3 DEF ObjectsInv

LEMMA WrittenIsRead == ObjectsInv => WrittenReadsBack
<1> SUFFICES ASSUME ObjectsInv, form.name \in SentAndRead
             PROVE  /\ form.lib.writes # <<>> => ReadsBack(form.lib, obj)
                    /\ form.nc.writes # <<>> => ReadsBack(form.nc, objNc)
  BY DEF WrittenReadsBack
<1>1. PICK n \in Names : form = FormOf(n, Pairs[n][1], Pairs[n][2])
  BY DEF ObjectsInv
<1>2. /\ form.name = n /\ form.lib = Pairs[n][1] /\ form.nc = Pairs[n][2]
      /\ \A f \in {form.lib, form.nc} : f.shows \subseteq DOMAIN form.blank
      /\ \A m \in DOMAIN form.blank : form.blank[m] = Default
  BY <1>1, FormFacts
<1>3. NameSends(n, form.lib) /\ NameSends(n, form.nc)
  BY <1>2, AllSend
<1>4. ASSUME NEW f \in {form.lib, form.nc}, NEW o, DOMAIN o = DOMAIN form.blank,
             NameSends(n, f), f.writes # <<>>
      PROVE  ReadsBack(f, o)
  <2>1. PICK but : Sends(f, but) /\ \A m \in but : <<n, m>> \in NotSent
    BY <1>4 DEF NameSends
  <2> DEFINE r == ReadInto(f.reads, form.blank,
                           [k \in Keys(f.reads) |-> WrittenAs(f.writes, o, k)])
  <2>2. /\ ~ r.threw
        /\ \A m \in f.shows \ but : r.obj[m] = o[m] \/ (o[m] = Hollow /\ r.obj[m] = Default)
    BY <1>2, <1>4, <2>1, SentComesBack
  <2>3. ThrowsOnNull(f.reads)
    BY <2>1 DEF Sends, ThrowsOnNull, Range
  <2>4. \A m \in f.shows : \/ <<form.name, m>> \in NotSent
                           \/ r.obj[m] = o[m]
                           \/ (o[m] = Hollow /\ r.obj[m] = Default)
    BY <1>2, <2>1, <2>2
  <2> QED
    BY <2>2, <2>3, <2>4 DEF ReadsBack
<1> QED
  BY <1>3, <1>4 DEF ObjectsInv

-----------------------------------------------------------------------------
(* A change of the audit log.                                              *)

Sendable == {Gone, Null} \cup {Value(kind, <<v>>) : kind \in Kinds \ {"null"}, v \in {1, 2}}

AuditInv ==
    /\ \E key : \E old, new \in Sendable : sent = [key |-> key, old |-> old, new |-> new]
    /\ told = Change(sent) /\ toldNc = ChangeNc(sent)

LEMMA AuditStart == AuditInit => AuditInv
<1> SUFFICES ASSUME AuditInit PROVE AuditInv
  OBVIOUS
<1>1. PICK key \in Keywords :
         sent = Nothing(key) /\ told = Change(Nothing(key)) /\ toldNc = ChangeNc(Nothing(key))
  BY DEF AuditInit
<1>2. Gone \in Sendable
  BY DEF Sendable
<1>3. sent = [key |-> key, old |-> Gone, new |-> Gone]
  BY <1>1 DEF Nothing
<1> QED
  BY <1>1, <1>2, <1>3 DEF AuditInv

LEMMA GivesReads ==
    ASSUME AuditInv, NEW side \in {"old", "new"}, NEW kind \in Kinds, NEW v \in {1, 2},
           Gives(side, kind, v)
    PROVE  AuditInv'
<1>0. PICK key : \E old, new \in Sendable : sent = [key |-> key, old |-> old, new |-> new]
  BY DEF AuditInv
<1>1. PICK old \in Sendable, new \in Sendable : sent = [key |-> key, old |-> old, new |-> new]
  BY <1>0
<1> DEFINE value == IF kind = "null" THEN Null ELSE Value(kind, <<v>>)
<1>2. value \in Sendable
  BY DEF Sendable
<1> HIDE DEF value
<1>3. sent' = [sent EXCEPT ![side] = value] /\ told' = Change(sent') /\ toldNc' = ChangeNc(sent')
  BY DEF Gives, Reads, value
<1>4. \E k : \E o, n \in Sendable : sent' = [key |-> k, old |-> o, new |-> n]
  <2>1. CASE side = "old"
    <3>1. sent' = [key |-> key, old |-> value, new |-> new]
      BY <1>1, <1>3, <2>1
    <3> QED
      BY <1>2, <3>1
  <2>2. CASE side = "new"
    <3>1. sent' = [key |-> key, old |-> old, new |-> value]
      BY <1>1, <1>3, <2>2
    <3> QED
      BY <1>2, <3>1
  <2> QED
    BY <2>1, <2>2
<1> QED
  BY <1>3, <1>4 DEF AuditInv

LEMMA AuditKeeps == ASSUME AuditInv, AuditNext PROVE AuditInv'
BY GivesReads DEF AuditNext

LEMMA TypeOfType == TypeOfKey("type") = "string"
<1>1. /\ DOMAIN KeysOfType = {"number", "string", "boolean", "snowflake",
                              "permission_overwrites", "changed_role"}
      /\ "type" \in KeysOfType["string"]
  BY DEF KeysOfType
<1>2. \A t \in DOMAIN KeysOfType : "type" \in KeysOfType[t] => t = "string"
  BY <1>1 DEF KeysOfType
<1> QED
  BY <1>1, <1>2 DEF TypeOfKey

(* What a variant holds after its value was read, if that did not throw.     *)
LEMMA ReadIsTold ==
    ASSUME NEW key, TypeOfKey(key) # "unknown", NEW value \in Sendable,
           ReadValue(key, value) # Thrown
    PROVE  \/ key = "type" /\ value.kind \notin {"text", "number"}
           \/ LET r == ReadValue(key, value)
              IN  /\ r.type = TypeOfKey(key) /\ r.v = value.v
                  /\ r.has => value.kind # "gone"
<1> DEFINE type == TypeOfKey(key)
           r == ReadValue(key, value)
<1>1. type \in {"number", "string", "boolean", "snowflake", "permission_overwrites",
                "changed_role"}
  <2>1. DOMAIN KeysOfType = {"number", "string", "boolean", "snowflake",
                              "permission_overwrites", "changed_role"}
    BY DEF KeysOfType
  <2> QED
    BY <2>1 DEF TypeOfKey
<1>2. ChangeTypes[type] \in {"number", "bool", "text", "list", "object"}
  BY <1>1 DEF ChangeTypes
<1>3. value.kind \in {"gone", "null"} => value.v = Default
  BY DEF Sendable, Gone, Null, Value, Kinds
<1>4. CASE key = "type" /\ value.kind \in {"text", "number"}
  <2>1. r = Hold("string", value.v)
    BY <1>4, TypeOfType DEF ReadValue, ReadTypeValue
  <2> QED
    BY <1>4, <2>1, TypeOfType DEF Hold
<1> HIDE DEF type
<1>5. \A v : /\ Hold(type, v).type = type /\ Hold(type, v).v = v
             /\ HoldNone(type).type = type /\ HoldNone(type).v = Default /\ ~ HoldNone(type).has
  BY DEF Hold, HoldNone
<1>6. CASE key # "type" /\ type \in {"snowflake", "permission_overwrites"}
  <2>1. r = ReadThere(type, value)
    BY <1>1, <1>6 DEF ReadValue, type
  <2>2. CASE value.kind = "gone"
    BY <1>2, <1>3, <1>5, <2>1, <2>2 DEF ReadThere, type
  <2>3. CASE value.kind = "null" /\ type = "snowflake"
    BY <1>2, <1>3, <1>5, <2>1, <2>3 DEF ReadThere, type
  <2>4. CASE value.kind = ChangeTypes[type]
    BY <1>2, <1>5, <2>1, <2>4 DEF ReadThere, type
  <2>5. CASE /\ value.kind \notin {"gone", ChangeTypes[type]}
             /\ ~ (value.kind = "null" /\ type = "snowflake")
    BY <2>1, <2>5 DEF ReadThere
  <2> QED
    BY <2>2, <2>3, <2>4, <2>5
<1>7. CASE key # "type" /\ type \notin {"snowflake", "permission_overwrites"}
  <2>1. r = ReadOptional(type, value)
    BY <1>1, <1>7 DEF ReadValue, type
  <2>2. CASE value.kind \in {"gone", "null"}
    BY <1>2, <1>3, <1>5, <2>1, <2>2 DEF ReadOptional, type
  <2>3. CASE value.kind = ChangeTypes[type]
    BY <1>2, <1>5, <2>1, <2>3 DEF ReadOptional, type
  <2>4. CASE value.kind = "bool" /\ type = "number"
    BY <1>2, <1>5, <2>1, <2>4 DEF ReadOptional, ChangeTypes, type
  <2>5. CASE /\ value.kind \notin {"gone", "null", ChangeTypes[type]}
             /\ ~ (value.kind = "bool" /\ type = "number")
    BY <2>1, <2>5 DEF ReadOptional
  <2> QED
    BY <2>2, <2>3, <2>4, <2>5
<1> QED
  BY <1>4, <1>6, <1>7

LEMMA ToldAsSent == AuditInv => ChangesAreTold
<1> SUFFICES ASSUME AuditInv PROVE ChangesAreTold
  OBVIOUS
<1>0. PICK key : \E old, new \in Sendable : sent = [key |-> key, old |-> old, new |-> new]
  BY DEF AuditInv
<1>1. PICK old \in Sendable, new \in Sendable : sent = [key |-> key, old |-> old, new |-> new]
  BY <1>0
<1>2. /\ told = [key |-> key, type |-> TypeOfKey(key),
                 old |-> ReadValue(key, old), new |-> ReadValue(key, new)]
      /\ toldNc = told
  BY <1>1 DEF AuditInv, Change, ChangeNc
<1>3. ASSUME told.type # "unknown", ~ Threw(told), NEW side \in {"old", "new"}
      PROVE  LET value == Getter(told, side)
             IN  Untold(side) \/ /\ value # Thrown
                                 /\ value.v = sent[side].v
                                 /\ value.has => sent[side].kind # "gone"
  <2>1. /\ told[side] = ReadValue(key, sent[side]) /\ told[side] # Thrown
        /\ sent[side] \in Sendable /\ sent.key = key /\ told.type = TypeOfKey(key)
    BY <1>1, <1>2, <1>3 DEF Threw
  <2>2. \/ Untold(side)
        \/ /\ told[side].type = told.type /\ told[side].v = sent[side].v
           /\ told[side].has => sent[side].kind # "gone"
    BY <1>3, <2>1, ReadIsTold DEF Untold
  <2> QED
    BY <2>1, <2>2 DEF Getter
<1> QED
  BY <1>2, <1>3 DEF ChangesAreTold, GetterNc

PartsInv == ObjectsInv /\ AuditInv

LEMMA PartsKeep == PartsSpec => []PartsInv
<1>1. PartsInit => PartsInv
  BY ObjectsStart, AuditStart DEF PartsInit, PartsInv
<1>2. PartsInv /\ [PartsNext]_partVars => PartsInv'
  <2> SUFFICES ASSUME PartsInv, [PartsNext]_partVars PROVE PartsInv'
    OBVIOUS
  <2>1. CASE UNCHANGED <<objectVars, auditVars>>
    BY <2>1, ObjectsKept DEF PartsInv, AuditInv, auditVars
  <2>2. CASE ObjectsStep
    <3>1. AuditInv'
      BY <2>2 DEF ObjectsStep, PartsInv, AuditInv, auditVars
    <3>2. ObjectsInv'
      BY <2>2, UpdateReads, SetKeeps DEF ObjectsStep, ObjectsNext, PartsInv
    <3> QED
      BY <3>1, <3>2 DEF PartsInv
  <2>3. CASE AuditStep
    BY <2>3, ObjectsKept, AuditKeeps DEF AuditStep, PartsInv
  <2> QED
    BY <2>1, <2>2, <2>3 DEF PartsNext, HttpStep, GatewayStep, EventsStep, partVars
<1> QED
  BY <1>1, <1>2, PTL DEF PartsSpec

(* The objects of both libraries, whatever updates they were read from:      *)
(* after one that was read, every accessor tells what it said, ...           *)
THEOREM NeverStale == PartsSpec => []NothingStale
BY PartsKeep, PTL DEF PartsInv, ObjectsInv

(* ... what is written and read again is the same object, but for objects    *)
(* and parts of which nothing was set, ...                                   *)
THEOREM AlwaysReadsBack == PartsSpec => []WrittenReadsBack
<1>1. PartsInv => WrittenReadsBack
  BY WrittenIsRead DEF PartsInv
<1> QED
  BY <1>1, PartsKeep, PTL

(* ... and the two libraries read alike.                                     *)
THEOREM AlwaysReadAlike == PartsSpec => []LibrariesReadAlike
BY PartsKeep, PTL DEF PartsInv, ObjectsInv

(* The getters of a change of the audit log tell what Discord sent.          *)
THEOREM ChangesAlwaysTold == PartsSpec => []ChangesAreTold
<1>1. PartsInv => ChangesAreTold
  BY ToldAsSent DEF PartsInv
<1> QED
  BY <1>1, PartsKeep, PTL
=============================================================================
