---------------------------- MODULE AbstractLock ----------------------------
(* What an asynchronous mutex promises its users: one owner at a time, a     *)
(* coroutine that finds it taken is parked, and a release with somebody      *)
(* parked passes ownership on directly, so that nobody can barge in between. *)
CONSTANTS Coroutines, Nobody

VARIABLES owner, parked
lockVars == <<owner, parked>>

Init == owner = Nobody /\ parked = {}

Grab(c) ==
    /\ owner = Nobody
    /\ owner' = c
    /\ UNCHANGED parked

Park(c) ==
    /\ owner \notin {Nobody, c}
    /\ c \notin parked
    /\ parked' = parked \cup {c}
    /\ UNCHANGED owner

Release ==
    /\ owner # Nobody
    /\ parked = {}
    /\ owner' = Nobody
    /\ UNCHANGED parked

HandOver(c) ==
    /\ owner # Nobody
    /\ c \in parked
    /\ owner' = c
    /\ parked' = parked \ {c}

Next == Release \/ \E c \in Coroutines : Grab(c) \/ Park(c) \/ HandOver(c)

Spec == Init /\ [][Next]_lockVars
=============================================================================
