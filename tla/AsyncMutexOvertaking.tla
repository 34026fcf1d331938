------------------------ MODULE AsyncMutexOvertaking ------------------------
(* AsyncMutex with a history variable that counts, for every parked          *)
(* coroutine, how often Rival got the lock since it parked.  The lock is not *)
(* first-come first-served: the newest waiter of a stack is resumed first.   *)
(* What bounds the unfairness is the private list.  Coroutines are           *)
(* interchangeable, so that one rival stands for all of them.                *)
EXTENDS AsyncMutex, Naturals

CONSTANTS
    Rival,
    Cap             \* the counters stop here

ASSUME RivalAssumption == Rival \in Coroutines /\ Cap \in Nat

VARIABLE overtaken  \* overtaken[c]: Rival got the lock, c was parked

allVars == <<vars, overtaken>>

CountInit == Init /\ overtaken = [c \in Coroutines |-> 0]

CountNext ==
    /\ Next
    /\ overtaken' =
        [c \in Coroutines |->
            CASE ~(pc'[c] = "waiting") -> 0
              [] pc'[c] = "waiting" /\ pc'[Rival] = "holding" /\ ~Owns(Rival) /\ overtaken[c] < Cap ->
                    overtaken[c] + 1
              [] OTHER -> overtaken[c]]

CountSpec ==
    /\ CountInit /\ [][CountNext]_allVars
    /\ \A c \in Coroutines : WF_vars(UnlockStep(c)) /\ WF_vars(LockStep(c))

(* While a coroutine waits, no other one gets the lock more than twice: once *)
(* from the list being served and once from its own stack, above it.         *)
OvertakenAtMostTwice == \A c \in Coroutines : overtaken[c] <= 2
=============================================================================
