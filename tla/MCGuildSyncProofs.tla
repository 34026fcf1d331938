------------------------- MODULE MCGuildSyncProofs --------------------------
(* Proofs about MCGuildSync: what its run checks for one orderly server and  *)
(* one unruly one holds for all of them.  The invariant of GuildSyncProofs   *)
(* for the first, and of its parts those that need no order for the second.  *)
EXTENDS MCGuildSync, GuildSyncProofs

U == INSTANCE GuildSyncProofs WITH
     Members <- AnyMembers, Channels <- AnyChannels, Orphans <- AnyOrphans,
     Kinds <- AnyKinds, Threshold <- AnyThreshold, MaxEvents <- AnyEvents

BothInv ==
    /\ orderly \in BOOLEAN
    /\ orderly => IInv
    /\ ~orderly => U!TypeOK /\ U!Ordered /\ U!Once

LEMMA AnyAssumption == U!GuildAssumption
  BY ServersAssumption DEF ServersAssumption, Happenings, U!Happenings, IsFiniteSet, U!IsFiniteSet

(* The two instances of GuildSync are one. *)
LEMMA SameInit == Unruly!Init <=> U!Init
  BY DEF Unruly!Init, U!Init, Unruly!Absent, U!Absent

LEMMA SameNext == Unruly!Next <=> U!Next
  BY DEF Unruly!Next, U!Next, Unruly!ServerStep, U!ServerStep, Unruly!ShardStep, U!ShardStep,
         Unruly!Create, U!Create, Unruly!Vanish, U!Vanish, Unruly!Answer, U!Answer,
         Unruly!SendChunk, U!SendChunk, Unruly!EditGuild, U!EditGuild, Unruly!EditEmojis,
         U!EditEmojis, Unruly!Join, U!Join, Unruly!Leave, U!Leave, Unruly!MakeChannel,
         U!MakeChannel, Unruly!DropChannel, U!DropChannel, Unruly!MakeRole, U!MakeRole,
         Unruly!DropRole, U!DropRole, Unruly!Post, U!Post, Unruly!Mention, U!Mention,
         Unruly!Tell, U!Tell, Unruly!Dispatch, U!Dispatch, Unruly!Alive, U!Alive,
         Unruly!HandleCreate, U!HandleCreate, Unruly!HandleDelete, U!HandleDelete,
         Unruly!HandleChunk, U!HandleChunk, Unruly!HandleChunkUnknown, U!HandleChunkUnknown,
         Unruly!Replay, U!Replay, Unruly!HandleEvent, U!HandleEvent, Unruly!HandleUpdate,
         U!HandleUpdate, Unruly!HandleEmojis, U!HandleEmojis, Unruly!HandleTyping,
         U!HandleTyping, Unruly!TakeFirst, U!TakeFirst, Unruly!event, U!event, Unruly!guild,
         U!guild, Unruly!ChunksLeft, U!ChunksLeft, Unruly!Replayed, U!Replayed, Unruly!Store,
         U!Store, Unruly!State, U!State, Unruly!Apply, U!Apply, Unruly!MemberAdd, U!MemberAdd,
         Unruly!MemberRemove, U!MemberRemove, Unruly!ChannelCreate, U!ChannelCreate,
         Unruly!ChannelDelete, U!ChannelDelete, Unruly!RoleCreate, U!RoleCreate,
         Unruly!RoleUpdate, U!RoleUpdate, Unruly!RoleDelete, U!RoleDelete, Unruly!GuildUpdate,
         U!GuildUpdate, Unruly!MessageEvent, U!MessageEvent, Unruly!Absent, U!Absent,
         Unruly!ChannelFirst, U!ChannelFirst, Unruly!MessageEvents, U!MessageEvents,
         Unruly!BackedUp, U!BackedUp, Unruly!shard, U!shard, Unruly!server, U!server,
         Unruly!Cardinality, U!Cardinality

LEMMA SameOnce == Unruly!MessagesOnce <=> U!MessagesOnce
  BY DEF Unruly!MessagesOnce, U!MessagesOnce, Unruly!IsInjective, U!IsInjective,
         Unruly!ToSet, U!ToSet

LEMMA BothInitially == BothInit => BothInv
  <1>1. Init => IInv
    BY IInvInit
  <1>2. U!Init => U!TypeOK /\ U!Ordered /\ U!Once
    BY U!TypeInit, U!OrderedInit, U!OnceInit, AnyAssumption
  <1>. QED
    BY <1>1, <1>2, SameInit DEF BothInit, BothInv

(* Each server's steps keep its part of the invariant. *)
LEMMA BothStep == BothInv /\ [BothNext]_<<vars, orderly>> => BothInv'
  <1> SUFFICES ASSUME BothInv, [BothNext]_<<vars, orderly>>
               PROVE  BothInv'
    OBVIOUS
  <1>1. ASSUME orderly, [Next]_vars
        PROVE  IInv'
    BY <1>1, IInvStep, ServersAssumption DEF BothInv, ServersAssumption
  <1>2. ASSUME ~orderly, [U!Next]_(U!vars)
        PROVE  U!TypeOK' /\ U!Ordered' /\ U!Once'
    BY <1>2, U!TypeStep, U!OrderedStep, U!OnceStep, AnyAssumption DEF BothInv
  <1>3. UNCHANGED orderly
    BY DEF BothNext, OrderlyStep, UnrulyStep
  <1>4. orderly => [Next]_vars
    BY DEF BothNext, OrderlyStep, UnrulyStep
  <1>5. ~orderly => [U!Next]_(U!vars)
    BY SameNext DEF BothNext, OrderlyStep, UnrulyStep, vars, server, shard,
                    U!vars, U!server, U!shard
  <1>6. orderly' \in BOOLEAN /\ orderly' = orderly
    BY <1>3 DEF BothInv
  <1>. QED
    BY <1>1, <1>2, <1>4, <1>5, <1>6 DEF BothInv

LEMMA BothInvMeans == BothInv => CacheConverges /\ MessagesDelivered /\ ReadyHasMembers
  <1>1. U!Once => U!MessagesOnce
    BY U!OnceMeans, AnyAssumption
  <1>. QED
    BY <1>1, IInvMeans, SameOnce DEF BothInv, CacheConverges, MessagesDelivered, ReadyHasMembers

LEMMA BothInductive == BothSpec => []BothInv
  BY BothInitially, BothStep, PTL DEF BothSpec
-----------------------------------------------------------------------------
(* However many guilds, members, channels and roles there are, whatever the  *)
(* large_threshold and however long it runs: with an orderly server the      *)
(* cache that procces_event keeps is the server's whenever nothing is on its *)
(* way.                                                                      *)
THEOREM CacheAlwaysConverges == BothSpec => []CacheConverges
  BY BothInductive, BothInvMeans, PTL

(* Messages reach their callbacks in the order of the gateway with none      *)
(* skipped, handled at once or put aside in m_backed_up_events; and with a   *)
(* server that does anything never twice, and only if they were posted.      *)
THEOREM MessagesAlwaysDelivered == BothSpec => []MessagesDelivered
  BY BothInductive, BothInvMeans, PTL

(* With an orderly server a guild that on_guild_ready was called for has all *)
(* the members that it was created with and that did not leave.              *)
THEOREM ReadyAlwaysHasMembers == BothSpec => []ReadyHasMembers
  BY BothInductive, BothInvMeans, PTL
=============================================================================
