----------------------------- MODULE MCGuildSync -----------------------------
(* GuildSync twice: with a server that keeps its guilds until they are ready *)
(* and sends nothing late, under which the cache has to converge, and with   *)
(* one that may do anything, under which it can only keep the messages       *)
(* apart.                                                                    *)
EXTENDS GuildSync

CONSTANTS
    AnyMembers, AnyChannels, AnyOrphans, AnyKinds, AnyThreshold, AnyEvents

(* The first server is an orderly one, the second any. *)
ASSUME ServersAssumption ==
    /\ Orderly
    /\ IsFiniteSet(AnyMembers) /\ AnyOrphans \subseteq AnyChannels
    /\ AnyKinds \subseteq Happenings
    /\ AnyThreshold \in Nat \ {0} /\ AnyEvents \in Nat

VARIABLE orderly    \* which of the servers it is

Unruly == INSTANCE GuildSync WITH
          Members <- AnyMembers, Channels <- AnyChannels, Orphans <- AnyOrphans,
          Kinds <- AnyKinds, Threshold <- AnyThreshold, MaxEvents <- AnyEvents

BothInit == \/ orderly = TRUE /\ Init
            \/ orderly = FALSE /\ Unruly!Init

OrderlyStep == orderly /\ Next /\ UNCHANGED orderly
UnrulyStep == ~orderly /\ Unruly!Next /\ UNCHANGED orderly

BothNext == OrderlyStep \/ UnrulyStep

BothSpec == BothInit /\ [][BothNext]_<<vars, orderly>>
-----------------------------------------------------------------------------
(* Converges, with the orderly server.                                       *)
CacheConverges == orderly => Converges

(* Messages are delivered in order with none skipped; with the other server, *)
(* at most once and only if posted.                                          *)
MessagesDelivered == IF orderly THEN MessagesInOrder ELSE Unruly!MessagesOnce

(* ReadyIsComplete, with the orderly server.                                 *)
ReadyHasMembers == orderly => ReadyIsComplete
=============================================================================
