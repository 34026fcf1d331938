-------------------------- MODULE AsyncMutexProofs --------------------------
(* Theorems about AsyncMutex and AsyncMutexOvertaking, for any coroutines.   *)
EXTENDS AsyncMutexOvertaking, Sequences, TLAPS

(* Type correctness is not inductive alone: that TakeStack moves a pointer,  *)
(* and not the word `unlocked', into m_waiters rests on ownership.           *)
Ownership == TypeOK /\ MutualExclusion /\ UnlockAsserts

LEMMA OwnershipInductive == Ownership /\ [Next]_vars => Ownership'
<1> SUFFICES ASSUME Ownership, [Next]_vars PROVE Ownership'
  OBVIOUS
<1> USE TwoWords DEF Ownership, TypeOK, Word, Link, MutualExclusion, UnlockAsserts, Owns
<1>1. ASSUME NEW c \in Coroutines, TryLock(c) PROVE Ownership'
  BY <1>1 DEF TryLock
<1>2. ASSUME NEW c \in Coroutines, StartLock(c) PROVE Ownership'
  BY <1>2 DEF StartLock
<1>3. ASSUME NEW c \in Coroutines, Acquire(c) PROVE Ownership'
  BY <1>3 DEF Acquire
<1>4. ASSUME NEW c \in Coroutines, Push(c) PROVE Ownership'
  BY <1>4 DEF Push
<1>5. ASSUME NEW c \in Coroutines, Retry(c) PROVE Ownership'
  BY <1>5 DEF Retry
<1>6. ASSUME NEW c \in Coroutines, UnlockFree(c) PROVE Ownership'
  BY <1>6 DEF UnlockFree
<1>7. ASSUME NEW c \in Coroutines, UnlockContended(c) PROVE Ownership'
  BY <1>7 DEF UnlockContended
<1>8. ASSUME NEW c \in Coroutines, TakeStack(c) PROVE Ownership'
  BY <1>8 DEF TakeStack
<1>9. ASSUME NEW c \in Coroutines, UnlockListed(c) PROVE Ownership'
  BY <1>9 DEF UnlockListed
<1>10. ASSUME NEW c \in Coroutines, Pass(c) PROVE Ownership'
  BY <1>10 DEF Pass
<1>11. CASE UNCHANGED vars
  BY <1>11 DEF vars
<1> QED
  BY <1>1, <1>2, <1>3, <1>4, <1>5, <1>6, <1>7, <1>8, <1>9, <1>10, <1>11
  DEF Next, LockStep, UnlockStep

LEMMA OwnershipHolds == Spec => []Ownership
<1>1. Init => Ownership
  BY TwoWords DEF Init, Ownership, TypeOK, Word, Link, MutualExclusion, UnlockAsserts, Owns
<1> QED
  BY <1>1, OwnershipInductive, PTL DEF Spec

(* Every variable stays in its type; in particular m_waiters never receives  *)
(* the word `unlocked' as if it were a pointer.                              *)
THEOREM TypeCorrect == Spec => []TypeOK
BY OwnershipHolds, PTL DEF Ownership

(* At most one coroutine owns the lock, and none owns a free one, however    *)
(* many coroutines lock and unlock in whatever order.                        *)
THEOREM MutuallyExclusive == Spec => []MutualExclusion
BY OwnershipHolds, PTL DEF Ownership

(* Neither assert of unlock can fail. *)
THEOREM AssertsHold == Spec => []UnlockAsserts
BY OwnershipHolds, PTL DEF Ownership
-----------------------------------------------------------------------------
LEMMA LinksInductive == Ownership /\ WaitersLinkedOnce /\ [Next]_vars => WaitersLinkedOnce'
<1> SUFFICES ASSUME Ownership, WaitersLinkedOnce, [Next]_vars PROVE WaitersLinkedOnce'
  OBVIOUS
<1> USE TwoWords DEF Ownership, TypeOK, Word, Link, MutualExclusion, UnlockAsserts, Owns,
        WaitersLinkedOnce, Linked, Waits
<1>1. ASSUME NEW c \in Coroutines, TryLock(c) PROVE WaitersLinkedOnce'
  BY <1>1 DEF TryLock
<1>2. ASSUME NEW c \in Coroutines, StartLock(c) PROVE WaitersLinkedOnce'
  BY <1>2 DEF StartLock
<1>3. ASSUME NEW c \in Coroutines, Acquire(c) PROVE WaitersLinkedOnce'
  BY <1>3 DEF Acquire
<1>4. ASSUME NEW c \in Coroutines, Push(c) PROVE WaitersLinkedOnce'
  BY <1>4 DEF Push
<1>5. ASSUME NEW c \in Coroutines, Retry(c) PROVE WaitersLinkedOnce'
  BY <1>5 DEF Retry
<1>6. ASSUME NEW c \in Coroutines, UnlockFree(c) PROVE WaitersLinkedOnce'
  BY <1>6 DEF UnlockFree
<1>7. ASSUME NEW c \in Coroutines, UnlockContended(c) PROVE WaitersLinkedOnce'
  BY <1>7 DEF UnlockContended
<1>8. ASSUME NEW c \in Coroutines, TakeStack(c) PROVE WaitersLinkedOnce'
  BY <1>8 DEF TakeStack
<1>9. ASSUME NEW c \in Coroutines, UnlockListed(c) PROVE WaitersLinkedOnce'
  BY <1>9 DEF UnlockListed
<1>10. ASSUME NEW c \in Coroutines, Pass(c) PROVE WaitersLinkedOnce'
  BY <1>10 DEF Pass
<1>11. CASE UNCHANGED vars
  BY <1>11 DEF vars
<1> QED
  BY <1>1, <1>2, <1>3, <1>4, <1>5, <1>6, <1>7, <1>8, <1>9, <1>10, <1>11
  DEF Next, LockStep, UnlockStep

(* A parked coroutine is linked from exactly one place and what is linked is *)
(* parked: no lost waiter, no double resumption, no dangling awaiter.        *)
THEOREM ParkedLinkedOnce == Spec => []WaitersLinkedOnce
<1>1. Init => WaitersLinkedOnce
  BY TwoWords DEF Init, WaitersLinkedOnce, Linked, Waits
<1> QED
  BY <1>1, OwnershipHolds, LinksInductive, PTL DEF Spec
-----------------------------------------------------------------------------
(* No set of parked coroutines is linked from itself alone.  WaitersLinkedOnce *)
(* would allow a ring of awaiters that nothing else refers to; this does not. *)
Rooted ==
    \A S \in SUBSET Parked : S # {} =>
        \E d \in S : state = d \/ waiters = d \/ \E c \in Parked \ S : next[c] = d

Chains == Ownership /\ WaitersLinkedOnce /\ Rooted

LEMMA PushRoots == ASSUME Chains, NEW c \in Coroutines, Push(c) PROVE Rooted'
<1>1. /\ Parked' = Parked \cup {c} /\ state' = c /\ waiters' = waiters /\ next'[c] = state
      /\ \A b \in Coroutines \ {c} : next'[b] = next[b]
  BY DEF Push, Parked, Waits, Chains, Ownership, TypeOK
<1>2. c \notin Parked /\ Parked \subseteq Coroutines
  BY DEF Push, Parked, Waits
<1> SUFFICES ASSUME NEW S \in SUBSET Parked', S # {}
             PROVE  \E d \in S : state' = d \/ waiters' = d \/ \E b \in Parked' \ S : next'[b] = d
  BY DEF Rooted
<1>3. CASE c \in S
  BY <1>1, <1>3
<1>4. CASE c \notin S
  <2>1. PICK d \in S : state = d \/ waiters = d \/ \E b \in Parked \ S : next[b] = d
    BY <1>1, <1>4 DEF Chains, Rooted
  <2> QED
    BY <1>1, <1>2, <1>4, <2>1
<1> QED
  BY <1>3, <1>4

LEMMA TakeStackRoots == ASSUME Chains, NEW c \in Coroutines, TakeStack(c) PROVE Rooted'
<1>1. Parked' = Parked /\ waiters' = state /\ next' = next /\ waiters = NULL
  BY DEF TakeStack, Parked, Waits, Chains, Ownership, UnlockAsserts, TypeOK
<1>2. Parked \subseteq Coroutines
  BY DEF Parked
<1> QED
  BY <1>1, <1>2, TwoWords DEF Chains, Rooted

LEMMA PassRoots == ASSUME Chains, NEW c \in Coroutines, Pass(c) PROVE Rooted'
<1>1. /\ waiters \in Parked /\ Parked' = Parked \ {waiters}
      /\ waiters' = next[waiters] /\ next' = next /\ state' = state
  BY TwoWords DEF Pass, Parked, Waits, Linked, Chains, WaitersLinkedOnce, Ownership, TypeOK, Link
<1> SUFFICES ASSUME NEW S \in SUBSET Parked', S # {}
             PROVE  \E d \in S : state' = d \/ waiters' = d \/ \E b \in Parked' \ S : next'[b] = d
  BY DEF Rooted
<1>2. PICK d \in S : state = d \/ waiters = d \/ \E b \in Parked \ S : next[b] = d
  BY <1>1 DEF Chains, Rooted
<1> QED
  BY <1>1, <1>2

LEMMA ChainsHold == Spec => []Chains
<1>1. Init => Rooted
  BY DEF Init, Rooted, Parked, Waits
<1>2. Chains /\ [Next]_vars => Rooted'
  <2> SUFFICES ASSUME Chains, [Next]_vars PROVE Rooted'
    OBVIOUS
  <2>1. CASE UNCHANGED <<state, waiters, next, Parked>>
    BY <2>1 DEF Chains, Rooted
  <2>2. ASSUME NEW c \in Coroutines,
               TryLock(c) \/ StartLock(c) \/ Acquire(c) \/ Retry(c) \/ UnlockFree(c)
                 \/ UnlockContended(c) \/ UnlockListed(c)
        PROVE  Rooted'
    <3>1. Parked' = Parked /\ waiters' = waiters /\ next' = next
      BY <2>2 DEF TryLock, StartLock, Acquire, Retry, UnlockFree, UnlockContended, UnlockListed,
                  Parked, Waits, Chains, Ownership, TypeOK
    <3>2. state \in Coroutines => state' = state
      BY <2>2, TwoWords DEF TryLock, StartLock, Acquire, Retry, UnlockFree, UnlockContended,
                            UnlockListed
    <3> QED
      BY <3>1, <3>2 DEF Chains, Rooted, Parked
  <2>3. CASE UNCHANGED vars
    BY <2>1, <2>3 DEF vars, Parked, Waits
  <2> QED
    BY <2>2, <2>3, PushRoots, TakeStackRoots, PassRoots DEF Next, LockStep, UnlockStep
<1>3. Init => WaitersLinkedOnce
  BY TwoWords DEF Init, WaitersLinkedOnce, Linked, Waits
<1> QED
  BY <1>1, <1>2, <1>3, OwnershipHolds, LinksInductive, PTL DEF Spec, Chains

(* The abstract owner is the coroutine that owns the lock. *)
LEMMA OwnerIs == ASSUME Ownership, NEW c \in Coroutines, Owns(c) PROVE Owner = c
BY DEF Ownership, MutualExclusion, Owner

LEMMA OwnerFree == ASSUME Ownership PROVE Owner = NULL <=> state = UNLOCKED
<1>1. CASE state = UNLOCKED
  BY <1>1 DEF Owner
<1>2. CASE state # UNLOCKED
  <2>1. PICK c \in Coroutines : Owns(c)
    BY <1>2 DEF Ownership, MutualExclusion
  <2> QED
    BY <1>2, <2>1, OwnerIs, TwoWords
<1> QED
  BY <1>1, <1>2

LEMMA StepImplements ==
    ASSUME Chains, Ownership', [Next]_vars PROVE [Abstract!Next]_(Abstract!lockVars)
<1> USE TwoWords DEF Chains
<1>0. ASSUME NEW c \in Coroutines, Owns(c)' PROVE Owner' = c
  BY <1>0 DEF Ownership, MutualExclusion, Owner
<1>1. ASSUME NEW c \in Coroutines, TryLock(c) \/ Acquire(c) PROVE Abstract!Grab(c)
  <2>1. state = UNLOCKED /\ Owns(c)' /\ Parked' = Parked
    BY <1>1 DEF TryLock, Acquire, Owns, Parked, Waits, Ownership, TypeOK
  <2> QED
    BY <1>0, <2>1, OwnerFree DEF Abstract!Grab
<1>2. ASSUME NEW c \in Coroutines, Push(c) PROVE Abstract!Park(c)
  <2>1. state # UNLOCKED /\ ~Owns(c) /\ c \notin Parked /\ Parked' = Parked \cup {c}
    BY <1>2 DEF Push, Owns, Parked, Waits, Ownership, TypeOK
  <2>2. PICK d \in Coroutines : Owns(d)
    BY <2>1 DEF Ownership, MutualExclusion
  <2>3. d # c /\ Owner = d /\ Owns(d)'
    BY <1>2, <2>1, <2>2, OwnerIs DEF Push, Owns, Ownership, TypeOK
  <2> QED
    BY <1>0, <2>1, <2>3 DEF Abstract!Park
<1>3. ASSUME NEW c \in Coroutines, UnlockFree(c) PROVE Abstract!Release
  <2>1. Owner = c /\ state' = UNLOCKED /\ Parked' = Parked
    BY <1>3, OwnerIs DEF UnlockFree, Owns, Parked, Waits, Ownership, TypeOK
  <2>2. Parked = {}
    BY <1>3 DEF UnlockFree, Rooted, Parked
  <2>3. Owner' = NULL
    BY <2>1 DEF Owner
  <2> QED
    BY <2>1, <2>2, <2>3 DEF Abstract!Release
<1>4. ASSUME NEW c \in Coroutines, Pass(c) PROVE \E w \in Coroutines : Abstract!HandOver(w)
  <2>1. PICK w \in Coroutines : w = waiters /\ w \in Parked /\ w # c
    BY <1>4 DEF Pass, Parked, Waits, Linked, WaitersLinkedOnce, Ownership, TypeOK, Link
  <2>2. Parked' = Parked \ {w} /\ Owns(w)'
    BY <1>4, <2>1 DEF Pass, Parked, Waits, Owns, Ownership, TypeOK
  <2>3. Owner = c
    BY <1>4, OwnerIs DEF Pass, Owns
  <2> QED
    BY <1>0, <2>1, <2>2, <2>3 DEF Abstract!HandOver
<1>5. ASSUME NEW c \in Coroutines, UnlockContended(c) \/ TakeStack(c) \/ UnlockListed(c)
      PROVE  UNCHANGED Abstract!lockVars
  <2>1. Owns(c) /\ Owns(c)' /\ Parked' = Parked
    BY <1>5 DEF UnlockContended, TakeStack, UnlockListed, Owns, Parked, Waits, Ownership, TypeOK
  <2> QED
    BY <1>0, <2>1, OwnerIs DEF Abstract!lockVars
<1>6. ASSUME NEW c \in Coroutines, StartLock(c) \/ Retry(c) PROVE UNCHANGED Abstract!lockVars
  <2>1. /\ state' = state /\ Parked' = Parked
        /\ \A d \in Coroutines : Owns(d)' = Owns(d)
    BY <1>6 DEF StartLock, Retry, Owns, Parked, Waits, Ownership, TypeOK
  <2>2. CASE state = UNLOCKED
    BY <2>1, <2>2 DEF Abstract!lockVars, Owner
  <2>3. CASE state # UNLOCKED
    <3>1. PICK d \in Coroutines : Owns(d)
      BY <2>3 DEF Ownership, MutualExclusion
    <3> QED
      BY <1>0, <2>1, <3>1, OwnerIs DEF Abstract!lockVars
  <2> QED
    BY <2>2, <2>3
<1>7. CASE UNCHANGED vars
  BY <1>7 DEF vars, Abstract!lockVars, Owner, Owns, Parked, Waits
<1> QED
  BY <1>1, <1>2, <1>3, <1>4, <1>5, <1>6, <1>7 DEF Next, LockStep, UnlockStep, Abstract!Next

(* The word, the stack and the private list implement the abstract lock: in  *)
(* particular a release with somebody parked always hands the lock over.     *)
THEOREM LockImplemented == Spec => ImplementsLock
<1>1. Init => Abstract!Init
  BY DEF Init, Abstract!Init, Owner, Parked, Waits
<1> QED
  BY <1>1, ChainsHold, OwnershipHolds, StepImplements, PTL DEF Spec, ImplementsLock, Abstract!Spec
-----------------------------------------------------------------------------
(* What m_state points to, and what m_waiters points to, are two sequences   *)
(* of awaiters.                                                              *)
Of(s) == {s[i] : i \in DOMAIN s}
Once(s) == \A i, j \in DOMAIN s : s[i] = s[j] => i = j

ChainOf(s, w) ==
    /\ s \in Seq(Coroutines)
    /\ IF s = <<>> THEN w \notin Coroutines ELSE w = s[1]
    /\ \A i \in DOMAIN s : next[s[i]] = IF i < Len(s) THEN s[i + 1] ELSE NULL

TwoStacks(s, l) ==
    /\ ChainOf(s, state) /\ ChainOf(l, waiters)
    /\ Once(s) /\ Once(l) /\ Of(s) \cap Of(l) = {}
    /\ Parked = Of(s) \cup Of(l)

(* How often Rival can still pass those that wait: a coroutine on the list   *)
(* at most once, if Rival is before it there; one on the stack once from     *)
(* the list and once from the stack, if it is not below.                     *)
Turns(s, l) ==
    /\ \A i, j \in DOMAIN l : i < j /\ l[i] = Rival => overtaken[l[j]] <= 1
    /\ \A j \in DOMAIN s :
        /\ Rival \in Of(l) => overtaken[s[j]] = 0
        /\ (\A i \in DOMAIN s : s[i] = Rival => i < j) => overtaken[s[j]] <= 1

Counts ==
    /\ overtaken \in [Coroutines -> 0..2]
    /\ state = UNLOCKED => waiters = NULL
    /\ \A c \in Coroutines : ~Waits(c) => overtaken[c] = 0
    /\ \E s, l \in Seq(Coroutines) : TwoStacks(s, l) /\ Turns(s, l)

LEMMA CountsInit == CountInit => Counts
  <1> SUFFICES ASSUME CountInit PROVE Counts
    OBVIOUS
  <1>1. Parked = {} /\ \A c \in Coroutines : ~Waits(c)
    BY DEF CountInit, Init, Parked, Waits
  <1>2. TwoStacks(<<>>, <<>>)
    BY <1>1, TwoWords DEF TwoStacks, ChainOf, Once, Of, CountInit, Init
  <1>3. Turns(<<>>, <<>>)
    BY DEF Turns
  <1>4. <<>> \in Seq(Coroutines) /\ overtaken \in [Coroutines -> 0..2]
    BY DEF CountInit
  <1>5. QED
    BY <1>1, <1>2, <1>3, <1>4, TwoWords DEF Counts, CountInit, Init

(* Unless Rival is resumed by an unlock nobody's count grows: a free lock is *)
(* waited for by nobody.                                                     *)
LEMMA CountKept ==
    ASSUME Ownership, Counts, CountNext, NEW c \in Coroutines
    PROVE  /\ pc'[c] # "waiting" => overtaken'[c] = 0
           /\ pc'[c] = "waiting" /\ ~(pc'[Rival] = "holding" /\ ~Owns(Rival))
              => overtaken'[c] = overtaken[c]
           /\ pc'[c] = "waiting" => overtaken'[c] \in {overtaken[c], overtaken[c] + 1}
  <1>1. overtaken'[c] =
            CASE ~(pc'[c] = "waiting") -> 0
              [] /\ pc'[c] = "waiting" /\ pc'[Rival] = "holding" /\ ~Owns(Rival)
                 /\ overtaken[c] < Cap -> overtaken[c] + 1
              [] OTHER -> overtaken[c]
    BY DEF CountNext
  <1>2. CASE pc'[c] # "waiting"
    BY <1>1, <1>2
  <1>3. CASE pc'[c] = "waiting" /\ pc'[Rival] = "holding" /\ ~Owns(Rival) /\ overtaken[c] < Cap
    BY <1>1, <1>3
  <1>4. CASE pc'[c] = "waiting" /\ ~(pc'[Rival] = "holding" /\ ~Owns(Rival) /\ overtaken[c] < Cap)
    BY <1>1, <1>4
  <1>5. QED
    BY <1>2, <1>3, <1>4

LEMMA CountsType ==
    ASSUME CountNext, \A c \in Coroutines : overtaken'[c] \in 0..2
    PROVE  overtaken' \in [Coroutines -> 0..2]
  <1>1. overtaken' = [c \in Coroutines |-> overtaken'[c]]
    BY DEF CountNext
  <1>2. QED
    BY <1>1

(* Steps that neither park nor resume anybody. *)
LEMMA CountsQuiet ==
    ASSUME Ownership, Counts, CountNext, NEW c \in Coroutines,
           \/ TryLock(c) \/ StartLock(c) \/ Acquire(c) \/ Retry(c) \/ UnlockFree(c)
           \/ UnlockContended(c) \/ UnlockListed(c)
    PROVE  Counts'
  <1>1. PICK s, l \in Seq(Coroutines) : TwoStacks(s, l) /\ Turns(s, l)
    BY DEF Counts
  <1>2. /\ \A d \in Coroutines : Waits(d)' <=> Waits(d)
        /\ Parked' = Parked /\ next' = next /\ waiters' = waiters
        /\ state' # state => state \notin Coroutines /\ state' \notin Coroutines
        /\ state' = UNLOCKED => waiters = NULL
    BY TwoWords DEF TryLock, StartLock, Acquire, Retry, UnlockFree, UnlockContended, UnlockListed,
          Parked, Waits, Ownership, TypeOK, Counts
  <1>3. \A d \in Coroutines : overtaken'[d] = overtaken[d]
    <2>1. CASE pc'[Rival] = "holding" /\ ~Owns(Rival)
      <3>1. state = UNLOCKED /\ waiters = NULL
        BY <2>1, RivalAssumption
           DEF TryLock, StartLock, Acquire, Retry, UnlockFree, UnlockContended, UnlockListed,
               Owns, Ownership, TypeOK, Counts
      <3>2. s = <<>> /\ l = <<>>
        BY <1>1, <3>1, TwoWords DEF TwoStacks, ChainOf
      <3>3. Parked = {}
        BY <1>1, <3>2 DEF TwoStacks, Of
      <3>4. QED
        BY <1>2, <3>3, CountKept DEF Parked, Waits, Counts
    <2>2. CASE ~(pc'[Rival] = "holding" /\ ~Owns(Rival))
      BY <1>2, <2>2, CountKept DEF Waits, Counts
    <2>3. QED
      BY <2>1, <2>2
  <1>4. TwoStacks(s, l)'
    BY <1>1, <1>2 DEF TwoStacks, ChainOf
  <1>5. Turns(s, l)'
    <2>1. Of(s) \subseteq Coroutines /\ Of(l) \subseteq Coroutines
      BY <1>1 DEF Of
    <2>2. QED
      BY <1>1, <1>3, <2>1 DEF Turns, Of
  <1>6. overtaken' \in [Coroutines -> 0..2]
    BY <1>3, CountsType DEF Counts
  <1>7. \A d \in Coroutines : ~Waits(d)' => overtaken'[d] = 0
    BY CountKept DEF Waits
  <1>8. QED
    BY <1>1, <1>2, <1>4, <1>5, <1>6, <1>7 DEF Counts

(* A new waiter goes on top of the stack, where Rival, if it is that waiter, *)
(* is above everybody else.                                                  *)
LEMMA CountsPush ==
    ASSUME Ownership, WaitersLinkedOnce, Counts, CountNext, NEW c \in Coroutines, Push(c)
    PROVE  Counts'
  <1>1. PICK s, l \in Seq(Coroutines) : TwoStacks(s, l) /\ Turns(s, l)
    BY DEF Counts
  <1> DEFINE t == <<c>> \o s
  <1>2. /\ t \in Seq(Coroutines) /\ Len(t) = Len(s) + 1 /\ t[1] = c
        /\ \A i \in DOMAIN s : i + 1 \in DOMAIN t /\ t[i + 1] = s[i]
        /\ \A i \in DOMAIN t : i = 1 \/ (i - 1 \in DOMAIN s /\ t[i] = s[i - 1])
    OBVIOUS
  <1>3. /\ ~Waits(c) /\ Waits(c)' /\ \A d \in Coroutines \ {c} : Waits(d)' <=> Waits(d)
        /\ Parked' = Parked \cup {c} /\ c \notin Parked
        /\ state' = c /\ waiters' = waiters /\ state # UNLOCKED
        /\ next'[c] = state /\ \A d \in Coroutines \ {c} : next'[d] = next[d]
    BY TwoWords DEF Push, Parked, Waits, Ownership, TypeOK
  <1>4. \A d \in Coroutines : overtaken'[d] = overtaken[d]
    <2>1. ~(pc'[Rival] = "holding" /\ ~Owns(Rival))
      BY RivalAssumption DEF Push, Owns, Ownership, TypeOK
    <2>2. QED
      BY <1>3, <2>1, CountKept DEF Waits, Counts
  <1>5. Of(s) \subseteq Parked /\ Of(l) \subseteq Parked /\ Parked \subseteq Coroutines
    BY <1>1 DEF TwoStacks, Parked
  <1>6. Of(t) = Of(s) \cup {c}
    <2>1. 1 \in DOMAIN t /\ t # <<>>
      BY <1>2
    <2>2. \A d \in Of(s) : d \in Of(t)
      BY <1>2 DEF Of
    <2>3. \A d \in Of(t) : d = c \/ d \in Of(s)
      BY <1>2 DEF Of
    <2>4. c \in Of(t)
      BY <1>2, <2>1 DEF Of
    <2>5. QED
      BY <2>2, <2>3, <2>4
  <1>7. Once(t)
    <2> SUFFICES ASSUME NEW i \in DOMAIN t, NEW j \in DOMAIN t, t[i] = t[j]
                 PROVE  i = j
      BY DEF Once
    <2>1. CASE i = 1 \/ j = 1
      BY <1>2, <1>3, <1>5, <2>1 DEF Of
    <2>2. CASE i # 1 /\ j # 1
      BY <1>1, <1>2, <2>2 DEF TwoStacks, Once
    <2>3. QED
      BY <2>1, <2>2
  <1>8. ChainOf(t, c)'
    <2>1. \A i \in DOMAIN t : next'[t[i]] = IF i < Len(t) THEN t[i + 1] ELSE NULL
      <3> SUFFICES ASSUME NEW i \in DOMAIN t
                   PROVE  next'[t[i]] = IF i < Len(t) THEN t[i + 1] ELSE NULL
        OBVIOUS
      <3>1. CASE i = 1
        <4>1. CASE s = <<>>
          <5>1. state = NULL
            BY <1>1, <1>3, <4>1 DEF TwoStacks, ChainOf, Ownership, TypeOK, Word
          <5>2. QED
            BY <1>2, <1>3, <3>1, <4>1, <5>1
        <4>2. CASE s # <<>>
          BY <1>1, <1>2, <1>3, <3>1, <4>2 DEF TwoStacks, ChainOf
        <4>3. QED
          BY <4>1, <4>2
      <3>2. CASE i # 1
        <4>1. i - 1 \in DOMAIN s /\ t[i] = s[i - 1]
          BY <1>2, <3>2
        <4>2. t[i] \in Coroutines \ {c}
          BY <1>3, <1>5, <4>1 DEF Of
        <4>3. next'[t[i]] = IF i - 1 < Len(s) THEN s[i] ELSE NULL
          BY <1>1, <1>3, <4>1, <4>2 DEF TwoStacks, ChainOf
        <4>4. QED
          BY <1>2, <3>2, <4>1, <4>3
      <3>3. QED
        BY <3>1, <3>2
    <2>2. t # <<>>
      BY <1>2
    <2>3. QED
      BY <1>2, <2>1, <2>2 DEF ChainOf
  <1>9. ChainOf(l, waiters)'
    <2>1. \A i \in DOMAIN l : l[i] \in Coroutines \ {c}
      BY <1>3, <1>5 DEF Of
    <2>2. QED
      BY <1>1, <1>3, <2>1 DEF TwoStacks, ChainOf
  <1>10. TwoStacks(t, l)'
    BY <1>1, <1>3, <1>5, <1>6, <1>7, <1>8, <1>9 DEF TwoStacks
  <1>11. Turns(t, l)'
    <2>1. \A i, j \in DOMAIN l : i < j /\ l[i] = Rival => overtaken'[l[j]] <= 1
      BY <1>1, <1>4, <1>5 DEF Turns, Of
    <2>2. ASSUME NEW j \in DOMAIN t
          PROVE  /\ Rival \in Of(l) => overtaken'[t[j]] = 0
                 /\ (\A i \in DOMAIN t : t[i] = Rival => i < j) => overtaken'[t[j]] <= 1
      <3>1. CASE j = 1
        BY <1>2, <1>3, <1>4, <3>1 DEF Counts
      <3>2. CASE j # 1
        <4>1. j - 1 \in DOMAIN s /\ t[j] = s[j - 1] /\ overtaken'[t[j]] = overtaken[s[j - 1]]
          BY <1>2, <1>4, <3>2
        <4>2. ASSUME \A i \in DOMAIN t : t[i] = Rival => i < j
              PROVE  \A i \in DOMAIN s : s[i] = Rival => i < j - 1
          <5> SUFFICES ASSUME NEW i \in DOMAIN s, s[i] = Rival PROVE i < j - 1
            OBVIOUS
          <5>1. i + 1 \in DOMAIN t /\ t[i + 1] = Rival
            BY <1>2
          <5>2. i + 1 < j
            BY <4>2, <5>1
          <5>3. QED
            BY <5>2
        <4>3. QED
          BY <1>1, <4>1, <4>2 DEF Turns
      <3>3. QED
        BY <3>1, <3>2
    <2>3. QED
      BY <2>1, <2>2 DEF Turns
  <1>12. overtaken' \in [Coroutines -> 0..2]
    BY <1>4, CountsType DEF Counts
  <1>13. \A d \in Coroutines : ~Waits(d)' => overtaken'[d] = 0
    BY CountKept DEF Waits
  <1>14. state' # UNLOCKED
    BY <1>3, TwoWords
  <1>15. QED
    BY <1>2, <1>10, <1>11, <1>12, <1>13, <1>14 DEF Counts

(* The stack becomes the list: who was above Rival is before it, and nobody  *)
(* is on the stack any more.                                                 *)
LEMMA CountsTake ==
    ASSUME Ownership, Counts, CountNext, NEW c \in Coroutines, TakeStack(c)
    PROVE  Counts'
  <1>1. PICK s, l \in Seq(Coroutines) : TwoStacks(s, l) /\ Turns(s, l)
    BY DEF Counts
  <1>2. /\ \A d \in Coroutines : Waits(d)' <=> Waits(d)
        /\ Parked' = Parked /\ next' = next /\ waiters' = state /\ state' = NULL
        /\ waiters = NULL
    BY TwoWords DEF TakeStack, Parked, Waits, Ownership, TypeOK, UnlockAsserts
  <1>3. \A d \in Coroutines : overtaken'[d] = overtaken[d]
    <2>1. ~(pc'[Rival] = "holding" /\ ~Owns(Rival))
      BY RivalAssumption DEF TakeStack, Owns, Ownership, TypeOK
    <2>2. QED
      BY <1>2, <2>1, CountKept DEF Waits, Counts
  <1>4. l = <<>>
    BY <1>1, <1>2, TwoWords DEF TwoStacks, ChainOf
  <1>5. TwoStacks(<<>>, s)'
    BY <1>1, <1>2, <1>4, TwoWords DEF TwoStacks, ChainOf, Once, Of
  <1>6. Turns(<<>>, s)'
    <2> SUFFICES ASSUME NEW i \in DOMAIN s, NEW j \in DOMAIN s, i < j, s[i] = Rival
                 PROVE  overtaken'[s[j]] <= 1
      BY DEF Turns
    <2>1. \A k \in DOMAIN s : s[k] = Rival => k < j
      BY <1>1 DEF TwoStacks, Once
    <2>2. QED
      BY <1>1, <1>3, <2>1 DEF Turns
  <1>7. overtaken' \in [Coroutines -> 0..2]
    BY <1>3, CountsType DEF Counts
  <1>8. \A d \in Coroutines : ~Waits(d)' => overtaken'[d] = 0
    BY CountKept DEF Waits
  <1>9. <<>> \in Seq(Coroutines) /\ state' # UNLOCKED
    BY <1>2, TwoWords
  <1>10. QED
    BY <1>5, <1>6, <1>7, <1>8, <1>9 DEF Counts

(* The first of the list is resumed.  If that is Rival those behind it and   *)
(* those on the stack are passed once more, and can be passed once less.     *)
LEMMA CountsPass ==
    ASSUME Ownership, Counts, CountNext, NEW c \in Coroutines, Pass(c)
    PROVE  Counts'
  <1>1. PICK s, l \in Seq(Coroutines) : TwoStacks(s, l) /\ Turns(s, l)
    BY DEF Counts
  <1>2. waiters \in Coroutines /\ l # <<>> /\ waiters = l[1]
    BY <1>1 DEF TwoStacks, ChainOf, Pass, Ownership, TypeOK, Link
  <1> DEFINE r == Tail(l)
  <1>3. /\ r \in Seq(Coroutines) /\ Len(r) = Len(l) - 1
        /\ \A i \in DOMAIN r : i + 1 \in DOMAIN l /\ r[i] = l[i + 1]
        /\ \A i \in DOMAIN l : i = 1 \/ (i - 1 \in DOMAIN r /\ l[i] = r[i - 1])
    BY <1>2
  <1>4. waiters \in Parked /\ Of(l) \subseteq Parked /\ Of(s) \subseteq Parked
    BY <1>1, <1>2 DEF TwoStacks, Of
  <1>5. /\ Parked' = Parked \ {waiters} /\ next' = next /\ state' = state
        /\ waiters' = next[waiters] /\ c # waiters /\ state # UNLOCKED
        /\ \A d \in Coroutines \ {waiters} : Waits(d)' <=> Waits(d)
        /\ pc' = [pc EXCEPT ![c] = "idle", ![waiters] = "holding"]
    BY <1>2, <1>4, TwoWords DEF Pass, Parked, Waits, Ownership, TypeOK, UnlockAsserts, Owns
  <1>6. Of(r) = Of(l) \ {waiters}
    <2>1. Of(r) \subseteq Of(l)
      BY <1>3 DEF Of
    <2>2. waiters \notin Of(r)
      BY <1>1, <1>2, <1>3 DEF Of, TwoStacks, Once
    <2>3. Of(l) \subseteq Of(r) \cup {waiters}
      <3> SUFFICES ASSUME NEW i \in DOMAIN l PROVE l[i] \in Of(r) \cup {waiters}
        BY DEF Of
      <3>1. CASE i = 1
        BY <1>2, <3>1
      <3>2. CASE i # 1
        <4>1. i - 1 \in DOMAIN r /\ l[i] = r[i - 1]
          BY <1>3, <3>2
        <4>2. QED
          BY <4>1 DEF Of
      <3>3. QED
        BY <3>1, <3>2
    <2>4. QED
      BY <2>1, <2>2, <2>3
  <1>7. Once(r)
    BY <1>1, <1>3 DEF TwoStacks, Once
  <1>8. ChainOf(r, waiters)'
    <2>1. waiters' = IF 1 < Len(l) THEN l[2] ELSE NULL
      BY <1>1, <1>2, <1>5 DEF TwoStacks, ChainOf
    <2>2. IF r = <<>> THEN waiters' \notin Coroutines ELSE waiters' = r[1]
      <3>1. CASE r = <<>>
        <4>1. Len(l) = 1
          BY <1>3, <3>1
        <4>2. QED
          BY <2>1, <3>1, <4>1, TwoWords
      <3>2. CASE r # <<>>
        <4>1. 1 \in DOMAIN r /\ 1 < Len(l)
          BY <1>3, <3>2
        <4>2. QED
          BY <1>3, <2>1, <3>2, <4>1
      <3>3. QED
        BY <3>1, <3>2
    <2>3. ASSUME NEW i \in DOMAIN r
          PROVE  next'[r[i]] = IF i < Len(r) THEN r[i + 1] ELSE NULL
      <3>1. i + 1 \in DOMAIN l /\ r[i] = l[i + 1]
        BY <1>3
      <3>2. next'[r[i]] = IF i + 1 < Len(l) THEN l[i + 2] ELSE NULL
        BY <1>1, <1>5, <3>1 DEF TwoStacks, ChainOf
      <3>3. i < Len(r) => i + 1 \in DOMAIN r /\ r[i + 1] = l[i + 2]
        BY <1>3
      <3>4. QED
        BY <1>3, <3>2, <3>3
    <2>4. QED
      BY <1>3, <2>2, <2>3 DEF ChainOf
  <1>9. TwoStacks(s, r)'
    <2>1. Of(s) \cap Of(r) = {} /\ waiters \notin Of(s)
      <3>1. waiters \in Of(l)
        BY <1>2 DEF Of
      <3>2. QED
        BY <1>1, <1>6, <3>1 DEF TwoStacks
    <2>2. ChainOf(s, state)'
      BY <1>1, <1>5 DEF TwoStacks, ChainOf
    <2>3. Parked' = Of(s) \cup Of(r)
      BY <1>1, <1>5, <1>6, <2>1 DEF TwoStacks
    <2>4. QED
      BY <1>1, <1>7, <1>8, <2>1, <2>2, <2>3 DEF TwoStacks
  <1>10. \A d \in Of(s) \cup Of(r) : d \in Coroutines /\ d \in Parked' /\ pc'[d] = "waiting"
    BY <1>9 DEF TwoStacks, Parked, Waits
  <1>11. waiters # Rival => \A d \in Of(s) \cup Of(r) : overtaken'[d] = overtaken[d]
    <2>1. waiters # Rival => ~(pc'[Rival] = "holding" /\ ~Owns(Rival))
      BY <1>2, <1>5, RivalAssumption DEF Owns, Ownership, TypeOK
    <2>2. QED
      BY <1>10, <2>1, CountKept
  <1>12. waiters = Rival =>
             /\ Rival \notin Of(s) /\ Rival \notin Of(r)
             /\ \A j \in DOMAIN s : overtaken[s[j]] = 0
             /\ \A j \in DOMAIN r : overtaken[r[j]] <= 1
    <2> SUFFICES ASSUME waiters = Rival
                 PROVE  /\ Rival \notin Of(s) /\ Rival \notin Of(r)
                        /\ \A j \in DOMAIN s : overtaken[s[j]] = 0
                        /\ \A j \in DOMAIN r : overtaken[r[j]] <= 1
      OBVIOUS
    <2>1. Rival \in Of(l) /\ 1 \in DOMAIN l /\ l[1] = Rival
      BY <1>2 DEF Of
    <2>2. Rival \notin Of(s) /\ Rival \notin Of(r)
      BY <1>1, <1>6, <2>1 DEF TwoStacks
    <2>3. \A j \in DOMAIN s : overtaken[s[j]] = 0
      BY <1>1, <2>1 DEF Turns
    <2>4. ASSUME NEW j \in DOMAIN r PROVE overtaken[r[j]] <= 1
      BY <1>1, <1>3, <2>1 DEF Turns
    <2>5. QED
      BY <2>2, <2>3, <2>4
  <1>13. \A d \in Of(s) \cup Of(r) :
            overtaken[d] \in 0..2 /\ overtaken'[d] \in {overtaken[d], overtaken[d] + 1}
    BY <1>10, CountKept DEF Counts
  <1>14. Turns(s, r)'
    <2>1. CASE waiters = Rival
      <3>1. \A j \in DOMAIN s : overtaken'[s[j]] <= 1
        BY <1>12, <1>13, <2>1 DEF Of
      <3>2. QED
        BY <1>12, <2>1, <3>1 DEF Turns, Of
    <2>2. CASE waiters # Rival
      <3>1. \A i, j \in DOMAIN r : i < j /\ r[i] = Rival => overtaken[r[j]] <= 1
        BY <1>1, <1>3 DEF Turns
      <3>2. Rival \in Of(r) => Rival \in Of(l)
        BY <1>6
      <3>3. QED
        BY <1>1, <1>11, <2>2, <3>1, <3>2 DEF Turns, Of
    <2>3. QED
      BY <2>1, <2>2
  <1>15. \A d \in Coroutines : ~Waits(d)' => overtaken'[d] = 0
    BY CountKept DEF Waits
  <1>16. overtaken' \in [Coroutines -> 0..2]
    <2>1. ASSUME NEW d \in Of(s) \cup Of(r) PROVE overtaken'[d] \in 0..2
      <3>1. CASE waiters # Rival
        BY <1>11, <1>13, <3>1
      <3>2. CASE waiters = Rival
        <4>1. overtaken[d] <= 1
          BY <1>12, <3>2 DEF Of
        <4>2. QED
          BY <1>13, <4>1
      <3>3. QED
        BY <3>1, <3>2
    <2>2. ASSUME NEW d \in Coroutines PROVE overtaken'[d] \in 0..2
      BY <1>9, <1>15, <2>1 DEF TwoStacks, Parked
    <2>3. QED
      BY <2>2, CountsType
  <1>17. QED
    BY <1>3, <1>5, <1>9, <1>14, <1>15, <1>16 DEF Counts

LEMMA CountsInductive == Chains /\ Counts /\ [CountNext]_allVars => Counts'
  <1> SUFFICES ASSUME Chains, Counts, [CountNext]_allVars PROVE Counts'
    OBVIOUS
  <1>1. CASE CountNext
    <2>1. PICK c \in Coroutines : TryLock(c) \/ StartLock(c) \/ LockStep(c) \/ UnlockStep(c)
      BY <1>1 DEF CountNext, Next
    <2>2. CASE Push(c)
      BY <1>1, <2>2, CountsPush DEF Chains
    <2>3. CASE TakeStack(c)
      BY <1>1, <2>3, CountsTake DEF Chains
    <2>4. CASE Pass(c)
      BY <1>1, <2>4, CountsPass DEF Chains
    <2>5. QED
      BY <1>1, <2>1, <2>2, <2>3, <2>4, CountsQuiet DEF Chains, LockStep, UnlockStep
  <1>2. CASE UNCHANGED allVars
    BY <1>2 DEF allVars, vars, Counts, TwoStacks, ChainOf, Turns, Waits, Parked
  <1>3. QED
    BY <1>1, <1>2

(* While a coroutine is parked no other gets the lock more than twice,       *)
(* however many there are: once from the list that unlock is serving and     *)
(* once from the stack, above it.                                            *)
THEOREM OvertakenAtMostTwiceAlways == CountSpec => []OvertakenAtMostTwice
  <1>1. CountSpec => Spec
    <2>1. CountInit => Init
      BY DEF CountInit
    <2>2. [CountNext]_allVars => [Next]_vars
      BY DEF CountNext, allVars
    <2>3. QED
      BY <2>1, <2>2, PTL DEF CountSpec, Spec
  <1>2. Counts => OvertakenAtMostTwice
    <2>1. Counts => overtaken \in [Coroutines -> 0..2]
      BY DEF Counts
    <2>2. overtaken \in [Coroutines -> 0..2] => OvertakenAtMostTwice
      BY DEF OvertakenAtMostTwice
    <2>3. QED
      BY <2>1, <2>2
  <1>3. QED
    BY <1>1, <1>2, ChainsHold, CountsInit, CountsInductive, PTL DEF CountSpec
=============================================================================
