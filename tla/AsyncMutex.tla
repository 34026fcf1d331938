----------------------------- MODULE AsyncMutex -----------------------------
(* async_mutex (common/async_mutex.h): the lock that serialises the writers  *)
(* of a shard's web socket.  One atomic word is `unlocked', `locked, no new  *)
(* waiter' or the newest awaiter of a stack linked through m_next; a second, *)
(* private list, m_waiters, holds the stack that an earlier unlock took.     *)
(* An awaiter lives in the frame of the coroutine that awaits it and there   *)
(* is at most one per coroutine, so its address is modelled by the           *)
(* coroutine itself and may be reused as soon as the coroutine locks again.  *)
CONSTANTS
    Coroutines,
    UNLOCKED,       \* the word 1
    NULL            \* the word 0 (locked_no_waiters), and nullptr

ASSUME TwoWords == UNLOCKED # NULL /\ {UNLOCKED, NULL} \cap Coroutines = {}

VARIABLES
    state,          \* m_state
    waiters,        \* m_waiters
    next,           \* next[c]: m_next of c's awaiter
    pc,             \* pc[c]: where c is in lock() or unlock()
    seen            \* seen[c]: the local old_state of try_lock(ptr)

vars == <<state, waiters, next, pc, seen>>

Word == Coroutines \cup {UNLOCKED, NULL}
Link == Coroutines \cup {NULL}

TypeOK ==
    /\ state \in Word
    /\ waiters \in Link
    /\ next \in [Coroutines -> Link]
    /\ pc \in [Coroutines -> {"idle", "locking", "waiting", "holding", "taking", "passing"}]
    /\ seen \in [Coroutines -> Word]

Init ==
    /\ state = UNLOCKED
    /\ waiters = NULL
    /\ next = [c \in Coroutines |-> NULL]
    /\ pc = [c \in Coroutines |-> "idle"]
    /\ seen = [c \in Coroutines |-> UNLOCKED]
-----------------------------------------------------------------------------
(* The coroutines that own the lock: the last two values are inside unlock.  *)
Owns(c) == pc[c] \in {"holding", "taking", "passing"}
Waits(c) == pc[c] = "waiting"

(* Mutants, each a slip that an edit of lock or unlock could make; the runs  *)
(* must refute the property that each is paired with.                        *)
UnlockFreeUnlisted(c) ==    \* m_waiters is not looked at
    /\ pc[c] = "holding"
    /\ state = NULL
    /\ state' = UNLOCKED
    /\ pc' = [pc EXCEPT ![c] = "idle"]
    /\ UNCHANGED <<waiters, next, seen>>

PassFirst(c) ==             \* the rest of the list is dropped
    /\ pc[c] = "passing"
    /\ waiters # NULL
    /\ waiters' = NULL
    /\ pc' = [pc EXCEPT ![c] = "idle", ![waiters] = "holding"]
    /\ UNCHANGED <<state, next, seen>>

PassSilently(c) ==          \* the waiter is unlinked and not resumed
    /\ pc[c] = "passing"
    /\ waiters # NULL
    /\ waiters' = next[waiters]
    /\ pc' = [pc EXCEPT ![c] = "idle"]
    /\ UNCHANGED <<state, next, seen>>
-----------------------------------------------------------------------------
(* The public try_lock(): one compare-and-swap, no waiting. *)
TryLock(c) ==
    /\ pc[c] = "idle"
    /\ state = UNLOCKED
    /\ state' = NULL
    /\ pc' = [pc EXCEPT ![c] = "holding"]
    /\ UNCHANGED <<waiters, next, seen>>

(* await_suspend: load m_state, then go round the compare-and-swap loop. *)
StartLock(c) ==
    /\ pc[c] = "idle"
    /\ pc' = [pc EXCEPT ![c] = "locking"]
    /\ seen' = [seen EXCEPT ![c] = state]
    /\ UNCHANGED <<state, waiters, next>>

(* The word was seen unlocked and still is. *)
Acquire(c) ==
    /\ pc[c] = "locking"
    /\ seen[c] = UNLOCKED
    /\ state = UNLOCKED
    /\ state' = NULL
    /\ pc' = [pc EXCEPT ![c] = "holding"]
    /\ UNCHANGED <<waiters, next, seen>>

(* The word was seen locked and is unchanged: push the awaiter. *)
Push(c) ==
    /\ pc[c] = "locking"
    /\ seen[c] # UNLOCKED
    /\ state = seen[c]
    /\ next' = [next EXCEPT ![c] = seen[c]]
    /\ state' = c
    /\ pc' = [pc EXCEPT ![c] = "waiting"]
    /\ UNCHANGED <<waiters, seen>>

(* compare_exchange fails and reloads old_state. *)
Retry(c) ==
    /\ pc[c] = "locking"
    /\ state # seen[c]
    /\ seen' = [seen EXCEPT ![c] = state]
    /\ UNCHANGED <<state, waiters, next, pc>>

(* unlock with an empty private list: swap the word 0 for unlocked ... *)
UnlockFree(c) ==
    /\ pc[c] = "holding"
    /\ waiters = NULL
    /\ state = NULL
    /\ state' = UNLOCKED
    /\ pc' = [pc EXCEPT ![c] = "idle"]
    /\ UNCHANGED <<waiters, next, seen>>

(* ... or, when that swap fails, go on to take the whole stack, *)
UnlockContended(c) ==
    /\ pc[c] = "holding"
    /\ waiters = NULL
    /\ state # NULL
    /\ pc' = [pc EXCEPT ![c] = "taking"]
    /\ UNCHANGED <<state, waiters, next, seen>>

TakeStack(c) ==
    /\ pc[c] = "taking"
    /\ waiters' = state
    /\ state' = NULL
    /\ pc' = [pc EXCEPT ![c] = "passing"]
    /\ UNCHANGED <<next, seen>>

(* unlock with waiters left from an earlier stack does not touch the word. *)
UnlockListed(c) ==
    /\ pc[c] = "holding"
    /\ waiters # NULL
    /\ pc' = [pc EXCEPT ![c] = "passing"]
    /\ UNCHANGED <<state, waiters, next, seen>>

(* Unlink the first waiter and resume it: it returns from its co_await       *)
(* holding the lock.  The resumption is a call made from unlock, but the     *)
(* resumed coroutine may suspend at once, so the caller may go on.           *)
Pass(c) ==
    /\ pc[c] = "passing"
    /\ waiters # NULL
    /\ waiters' = next[waiters]
    /\ pc' = [pc EXCEPT ![c] = "idle", ![waiters] = "holding"]
    /\ UNCHANGED <<state, next, seen>>

LockStep(c) == Acquire(c) \/ Push(c) \/ Retry(c)
UnlockStep(c) == UnlockFree(c) \/ UnlockContended(c) \/ TakeStack(c) \/ UnlockListed(c) \/ Pass(c)

Next == \E c \in Coroutines : TryLock(c) \/ StartLock(c) \/ LockStep(c) \/ UnlockStep(c)

Spec == Init /\ [][Next]_vars

(* A coroutine that owns the lock lets it go, and one in the loop goes on;   *)
(* nothing makes an idle coroutine ask.                                      *)
FairSpec == Spec /\ \A c \in Coroutines : WF_vars(UnlockStep(c)) /\ WF_vars(LockStep(c))
-----------------------------------------------------------------------------
(* Two coroutines never hold the lock together, and none holds a free one:   *)
(* two frames of the web socket are never written at the same time.          *)
MutualExclusion ==
    /\ \A c, d \in Coroutines : Owns(c) /\ Owns(d) => c = d
    /\ state = UNLOCKED <=> \A c \in Coroutines : ~Owns(c)

(* Something refers to awaiter d: the word, the private list's head, or the  *)
(* link of another awaiter that is itself waiting.                           *)
Linked(d) == state = d \/ waiters = d \/ \E c \in Coroutines : Waits(c) /\ next[c] = d

(* A parked coroutine is referred to from exactly one place, and whatever is *)
(* linked is parked: none is lost by an unlock that races its push, and none *)
(* is resumed twice or after its awaiter died.                               *)
WaitersLinkedOnce ==
    /\ \A d \in Coroutines : Waits(d) <=> Linked(d)
    /\ ~(state = waiters /\ state \in Coroutines)
    /\ \A c, d \in Coroutines :
        Waits(c) /\ Waits(d) /\ next[c] # NULL =>
            /\ next[c] \notin {state, waiters}
            /\ next[c] = next[d] => c = d

(* The two assertions of unlock hold: the lock is taken when unlock starts,  *)
(* and there is a waiter once the free path has been left.  Nor does taking  *)
(* the stack overwrite waiters still on the private list.                    *)
UnlockAsserts ==
    \A c \in Coroutines :
        /\ Owns(c) => state # UNLOCKED
        /\ pc[c] = "taking" => state \in Coroutines /\ waiters = NULL
        /\ pc[c] = "passing" => waiters # NULL

(* A parked coroutine gets the lock, whatever the others do, provided every  *)
(* owner releases it.                                                        *)
ParkedIsServed == \A c \in Coroutines : Waits(c) ~> Owns(c)

Owner == IF state = UNLOCKED THEN NULL ELSE CHOOSE c \in Coroutines : Owns(c)
Parked == {c \in Coroutines : Waits(c)}

(* The word, the stack and the private list together are the abstract lock.  *)
Abstract == INSTANCE AbstractLock WITH Nobody <- NULL, owner <- Owner, parked <- Parked
ImplementsLock == Abstract!Spec
=============================================================================
