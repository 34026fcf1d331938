----------------------------- MODULE GuildSync -----------------------------
(* The guild cache of a shard (internal_shard.cpp, procces_event<...>).      *)
(* Discord sends a guild with GUILD_CREATE.  When it is large its members    *)
(* come later, in chunks that the shard asks for; until the last chunk most  *)
(* events of the guild are put aside in m_backed_up_events and then replayed *)
(* inside the handler of that chunk, one by one.  The gateway delivers in    *)
(* order, chunks interleaved with other events.  Server and wire are         *)
(* modelled as far as they decide what a shard can be sent.                  *)
EXTENDS Integers, Sequences, FiniteSets, SequencesExt

CONSTANTS
    Guilds, Members, Channels, Roles,
    Orphans,        \* the channels without a category
    Kinds,          \* what the server does besides creating guilds: the events that it
                    \* sends, and when guilds vanish and how late events may be
    Threshold,      \* large_threshold
    MaxEvents       \* bound: dispatches in a behaviour

(* What a server may do. *)
Happenings ==
    {"vanish", "vanish_syncing", "late", "GUILD_MEMBER_ADD", "GUILD_MEMBER_REMOVE",
     "CHANNEL_CREATE", "CHANNEL_UPDATE", "CHANNEL_DELETE", "GUILD_ROLE_CREATE",
     "GUILD_ROLE_UPDATE", "GUILD_ROLE_DELETE", "GUILD_UPDATE", "GUILD_EMOJI_UPDATE",
     "MESSAGE_CREATE", "MESSAGE_UPDATE", "MESSAGE_DELETE", "MESSAGE_DELETE_BULK",
     "MESSAGE_REACTION_ADD", "MESSAGE_REACTION_REMOVE", "TYPING_START",
     "MESSAGE_REACTION_REMOVE_ALL"}

ASSUME GuildAssumption ==
    /\ IsFiniteSet(Members) /\ Orphans \subseteq Channels
    /\ Kinds \subseteq Happenings
    /\ Threshold \in Nat \ {0} /\ MaxEvents \in Nat

(* A server that keeps a guild until it is ready and sends nothing late. *)
Orderly == "vanish_syncing" \notin Kinds /\ "late" \notin Kinds

VARIABLES
    exists, members, channels,  \* the server's guilds
    roles,
    name, emojis,   \* versions of what GUILD_UPDATE and GUILD_EMOJI_UPDATE set
    asked,          \* asked[g]: requests for members that are not answered
    answer,         \* answer[g]: the chunks that are still to be sent
    inbox,          \* dispatches on the wire
    cache,          \* m_guilds: the entry of each guild, or Absent
    left,           \* m_chunks_left_for_guild (0: no entry)
    backlog,        \* m_backed_up_events
    replaying,      \* what replay_events_for has still to hand over
    crashed,        \* a null pointer was followed
    sent,           \* the number of dispatches
    posted, seen,   \* history: message events of a guild, and those given to a callback
    complete        \* history: the members that had to be known before g is ready

server == <<exists, members, channels, roles, name, emojis, asked, answer, inbox, sent, posted>>
shard == <<cache, left, backlog, replaying, crashed, seen, complete>>
vars == <<server, shard>>

Absent == [there |-> FALSE, ready |-> FALSE, members |-> {}, channels |-> {}, roles |-> {},
           name |-> 0, emojis |-> 0]
Entry == [there : BOOLEAN, ready : BOOLEAN, members : SUBSET Members, channels : SUBSET Channels,
          roles : SUBSET Roles, name : 0..1, emojis : 0..1]

(* The members in one chunk, and which chunk of how many it is. *)
Chunk == [members : SUBSET Members, index : Nat, count : Nat \ {0}]

(* The events whose handlers look for the channel before they ask whether    *)
(* the guild is ready.                                                       *)
ChannelFirst == {"TYPING_START", "MESSAGE_REACTION_REMOVE_ALL"}

MessageEvents == {"MESSAGE_CREATE", "MESSAGE_UPDATE", "MESSAGE_DELETE", "MESSAGE_DELETE_BULK",
                  "MESSAGE_REACTION_ADD", "MESSAGE_REACTION_REMOVE"}

MemberEvents == {"GUILD_MEMBER_ADD", "GUILD_MEMBER_REMOVE"}

ChannelEvents == {"CHANNEL_CREATE", "CHANNEL_UPDATE", "CHANNEL_DELETE"}
                 \cup ChannelFirst \cup MessageEvents

RoleEvents == {"GUILD_ROLE_CREATE", "GUILD_ROLE_UPDATE", "GUILD_ROLE_DELETE"}

(* A dispatch: its kind, its guild, its number, and what it tells. *)
Event == [kind : {"GUILD_CREATE"}, guild : Guilds, id : Nat, members : SUBSET Members,
          channels : SUBSET Channels, roles : SUBSET Roles, name : 0..1, emojis : 0..1]
         \cup [kind : {"GUILD_DELETE"}, guild : Guilds, id : Nat]
         \cup [kind : {"GUILD_MEMBERS_CHUNK"}, guild : Guilds, id : Nat,
               members : SUBSET Members, index : Nat, count : Nat \ {0}]
         \cup [kind : MemberEvents, guild : Guilds, id : Nat, arg : Members]
         \cup [kind : ChannelEvents, guild : Guilds, id : Nat, arg : Channels]
         \cup [kind : RoleEvents, guild : Guilds, id : Nat, arg : Roles]
         \cup [kind : {"GUILD_UPDATE", "GUILD_EMOJI_UPDATE"}, guild : Guilds, id : Nat,
               arg : 0..1]

BackedUp == {"GUILD_MEMBER_ADD", "GUILD_MEMBER_REMOVE", "CHANNEL_CREATE", "CHANNEL_DELETE",
             "GUILD_ROLE_CREATE", "GUILD_ROLE_UPDATE", "GUILD_ROLE_DELETE", "GUILD_UPDATE"}
            \cup MessageEvents

(* What can be put aside. *)
Held == {e \in Event : e.kind \in BackedUp \cup ChannelFirst}

TypeOK ==
    /\ exists \in [Guilds -> BOOLEAN]
    /\ members \in [Guilds -> SUBSET Members] /\ channels \in [Guilds -> SUBSET Channels]
    /\ roles \in [Guilds -> SUBSET Roles]
    /\ name \in [Guilds -> 0..1] /\ emojis \in [Guilds -> 0..1]
    /\ asked \in [Guilds -> Nat] /\ answer \in [Guilds -> Seq(Chunk)]
    /\ inbox \in Seq(Event) /\ sent \in Nat
    /\ cache \in [Guilds -> Entry]
    /\ left \in [Guilds -> Nat]
    /\ backlog \in [Guilds -> Seq(Held)] /\ replaying \in Seq(Held)
    /\ crashed \in BOOLEAN
    /\ posted \in [Guilds -> Seq(Nat)] /\ seen \in [Guilds -> Seq(Nat)]
    /\ complete \in [Guilds -> SUBSET Members]

Init ==
    /\ exists = [g \in Guilds |-> FALSE]
    /\ members = [g \in Guilds |-> {}] /\ channels = [g \in Guilds |-> {}]
    /\ roles = [g \in Guilds |-> {}]
    /\ name = [g \in Guilds |-> 0] /\ emojis = [g \in Guilds |-> 0]
    /\ asked = [g \in Guilds |-> 0] /\ answer = [g \in Guilds |-> <<>>]
    /\ inbox = <<>>
    /\ cache = [g \in Guilds |-> Absent]
    /\ left = [g \in Guilds |-> 0] /\ backlog = [g \in Guilds |-> <<>>] /\ replaying = <<>>
    /\ crashed = FALSE /\ sent = 0
    /\ posted = [g \in Guilds |-> <<>>] /\ seen = [g \in Guilds |-> <<>>]
    /\ complete = [g \in Guilds |-> {}]
-----------------------------------------------------------------------------
(* The server.  Every change is dispatched, with the next number.            *)
Dispatch(e) ==
    /\ sent < MaxEvents
    /\ sent' = sent + 1
    /\ inbox' = Append(inbox, e)

(* Events of g are sent while it exists; "late" ones also after it vanished. *)
Alive(g) == exists[g] \/ "late" \in Kinds

Create(g, ms, cs) ==
    /\ ~exists[g]
    /\ exists' = [exists EXCEPT ![g] = TRUE]
    /\ members' = [members EXCEPT ![g] = ms]
    /\ channels' = [channels EXCEPT ![g] = cs]
    /\ Dispatch([kind |-> "GUILD_CREATE", guild |-> g, id |-> sent + 1, members |-> ms,
                 channels |-> cs, roles |-> roles[g], name |-> name[g], emojis |-> emojis[g]])
    /\ UNCHANGED <<roles, name, emojis, asked, answer, posted, shard>>

(* The guild becomes unavailable, or the bot leaves it; an outstanding       *)
(* answer is dropped, unless answers may be late.                            *)
Vanish(g) ==
    /\ exists[g]
    /\ \/ "vanish_syncing" \in Kinds
       \/ "vanish" \in Kinds /\ cache[g].ready /\ inbox = <<>>
    /\ exists' = [exists EXCEPT ![g] = FALSE]
    /\ IF "late" \in Kinds
       THEN UNCHANGED <<answer, asked>>
       ELSE answer' = [answer EXCEPT ![g] = <<>>] /\ asked' = [asked EXCEPT ![g] = 0]
    /\ Dispatch([kind |-> "GUILD_DELETE", guild |-> g, id |-> sent + 1])
    /\ UNCHANGED <<members, channels, roles, name, emojis, posted, shard>>

(* An event of guild g about x. *)
Tell(g, k, x) ==
    /\ k \in Kinds /\ Alive(g)
    /\ Dispatch([kind |-> k, guild |-> g, id |-> sent + 1, arg |-> x])
    /\ UNCHANGED <<exists, asked, answer, shard>>

Join(g, m) ==
    /\ m \notin members[g] /\ Tell(g, "GUILD_MEMBER_ADD", m)
    /\ members' = [members EXCEPT ![g] = @ \cup {m}]
    /\ UNCHANGED <<channels, roles, name, emojis, posted>>

Leave(g, m) ==
    /\ m \in members[g] /\ Tell(g, "GUILD_MEMBER_REMOVE", m)
    /\ members' = [members EXCEPT ![g] = @ \ {m}]
    /\ UNCHANGED <<channels, roles, name, emojis, posted>>

MakeChannel(g, c) ==
    /\ c \notin channels[g] /\ Tell(g, "CHANNEL_CREATE", c)
    /\ channels' = [channels EXCEPT ![g] = @ \cup {c}]
    /\ UNCHANGED <<members, roles, name, emojis, posted>>

DropChannel(g, c) ==
    /\ c \in channels[g] /\ Tell(g, "CHANNEL_DELETE", c)
    /\ channels' = [channels EXCEPT ![g] = @ \ {c}]
    /\ UNCHANGED <<members, roles, name, emojis, posted>>

MakeRole(g, r) ==
    /\ r \notin roles[g] /\ Tell(g, "GUILD_ROLE_CREATE", r)
    /\ roles' = [roles EXCEPT ![g] = @ \cup {r}]
    /\ UNCHANGED <<members, channels, name, emojis, posted>>

DropRole(g, r) ==
    /\ r \in roles[g] /\ Tell(g, "GUILD_ROLE_DELETE", r)
    /\ roles' = [roles EXCEPT ![g] = @ \ {r}]
    /\ UNCHANGED <<members, channels, name, emojis, posted>>

EditGuild(g) ==
    /\ Tell(g, "GUILD_UPDATE", 1 - name[g])
    /\ name' = [name EXCEPT ![g] = 1 - @]
    /\ UNCHANGED <<members, channels, roles, emojis, posted>>

EditEmojis(g) ==
    /\ Tell(g, "GUILD_EMOJI_UPDATE", 1 - emojis[g])
    /\ emojis' = [emojis EXCEPT ![g] = 1 - @]
    /\ UNCHANGED <<members, channels, roles, name, posted>>

(* An edit that does not change what is modelled, or a typing notice. *)
Mention(g, k, x) ==
    /\ \/ k \in ChannelFirst \cup {"CHANNEL_UPDATE"} /\ x \in channels[g]
       \/ k = "GUILD_ROLE_UPDATE" /\ x \in roles[g]
    /\ Tell(g, k, x)
    /\ UNCHANGED <<members, channels, roles, name, emojis, posted>>

(* A message in channel c, an edit or a reaction: numbered in the order of   *)
(* the gateway.                                                              *)
Post(g, c, k) ==
    /\ k \in MessageEvents \cap Kinds /\ Alive(g) /\ c \in channels[g]
    /\ posted' = [posted EXCEPT ![g] = Append(@, sent + 1)]
    /\ Dispatch([kind |-> k, guild |-> g, id |-> sent + 1, arg |-> c])
    /\ UNCHANGED <<exists, members, channels, roles, name, emojis, asked, answer, shard>>

(* A request for the members is answered with the members of that moment,    *)
(* one per chunk (1000 in Discord's protocol), sent one after the other.     *)
Answer(g) ==
    /\ asked[g] > 0 /\ exists[g] /\ answer[g] = <<>>
    /\ asked' = [asked EXCEPT ![g] = @ - 1]
    /\ LET n == Cardinality(members[g])
       IN  \E ms \in [1..n -> members[g]] :
               /\ members[g] = {ms[i] : i \in 1..n}
               /\ answer' = [answer EXCEPT ![g] =
                    IF n = 0
                    THEN << [members |-> {}, index |-> 1, count |-> 1] >>
                    ELSE [i \in 1..n |-> [members |-> {ms[i]}, index |-> i, count |-> n]]]
    /\ UNCHANGED <<exists, members, channels, roles, name, emojis, inbox, sent, posted, shard>>

SendChunk(g) ==
    /\ answer[g] # <<>>
    /\ answer' = [answer EXCEPT ![g] = Tail(@)]
    /\ LET c == Head(answer[g])
       IN  Dispatch([kind |-> "GUILD_MEMBERS_CHUNK", guild |-> g, id |-> sent + 1,
                     members |-> c.members, index |-> c.index, count |-> c.count])
    /\ UNCHANGED <<exists, members, channels, roles, name, emojis, asked, posted, shard>>
-----------------------------------------------------------------------------
(* What the handlers of the events that can be put aside do to a guild that  *)
(* is ready.  st: its entry, the message events given to callbacks, and      *)
(* whether a null pointer was followed.                                      *)
MemberAdd(st, e) == [st EXCEPT !.entry.members = @ \cup {e.arg}]

MemberRemove(st, e) == [st EXCEPT !.entry.members = @ \ {e.arg}]

(* A channel without a category has the null of ptr_or_null followed. *)
ChannelCreate(st, e) ==
    [st EXCEPT !.entry.channels = @ \cup {e.arg}, !.bad = @ \/ e.arg \in Orphans]

ChannelDelete(st, e) == [st EXCEPT !.entry.channels = @ \ {e.arg}]

RoleCreate(st, e) == [st EXCEPT !.entry.roles = @ \cup {e.arg}]

RoleUpdate(st, e) == [st EXCEPT !.entry.roles = @ \cup {e.arg}]

(* The members are reached through Guild::m_stuff, which is always null. *)
RoleDelete(st, e) == [st EXCEPT !.entry.roles = @ \ {e.arg}, !.bad = TRUE]

GuildUpdate(st, e) == [st EXCEPT !.entry.name = e.arg]

(* A message event is given to its callback if the channel is known. *)
MessageEvent(st, e) ==
    IF e.arg \in st.entry.channels THEN [st EXCEPT !.seen = Append(@, e.id)] ELSE st

(* m_opcode0 for a guild that is ready. *)
Apply(st, e) ==
    CASE e.kind = "GUILD_MEMBER_ADD" -> MemberAdd(st, e)
      [] e.kind = "GUILD_MEMBER_REMOVE" -> MemberRemove(st, e)
      [] e.kind = "CHANNEL_CREATE" -> ChannelCreate(st, e)
      [] e.kind = "CHANNEL_DELETE" -> ChannelDelete(st, e)
      [] e.kind = "GUILD_ROLE_CREATE" -> RoleCreate(st, e)
      [] e.kind = "GUILD_ROLE_UPDATE" -> RoleUpdate(st, e)
      [] e.kind = "GUILD_ROLE_DELETE" -> RoleDelete(st, e)
      [] e.kind = "GUILD_UPDATE" -> GuildUpdate(st, e)
      [] e.kind \in MessageEvents -> MessageEvent(st, e)
      [] OTHER -> st

State(g) == [entry |-> cache[g], seen |-> seen[g], bad |-> FALSE]

(* The state of g after a handler that found it ready. *)
Store(g, st) ==
    /\ cache' = [cache EXCEPT ![g] = st.entry]
    /\ seen' = [seen EXCEPT ![g] = st.seen]
    /\ crashed' = st.bad

(* doStuff and m_opcode0 take the next dispatch. *)
TakeFirst(kinds) ==
    /\ ~crashed /\ replaying = <<>> /\ inbox # <<>> /\ Head(inbox).kind \in kinds
    /\ inbox' = Tail(inbox)
    /\ UNCHANGED <<exists, members, channels, roles, name, emojis, answer, sent, posted>>

event == Head(inbox)
guild == event.guild
-----------------------------------------------------------------------------
(* Mutants. *)
EventUnchecked ==           \* the guild is not asked whether it is ready
    /\ TakeFirst(BackedUp) /\ cache[guild].there
    /\ Store(guild, Apply(State(guild), event))
    /\ complete' = IF event.kind = "GUILD_MEMBER_REMOVE"
                   THEN [complete EXCEPT ![guild] = @ \ {event.arg}] ELSE complete
    /\ UNCHANGED <<asked, left, backlog, replaying>>

ReplayedNewest == Reverse(backlog[guild])       \* the newest event is replayed first

ChunksLeftEarly ==          \* the first chunk counted twice
    (IF left[guild] = 0 THEN event.count - 1 ELSE left[guild]) - 1
-----------------------------------------------------------------------------
(* GUILD_CREATE replaces the entry.  A large guild is not ready: its members *)
(* are asked for and those in the event are ignored.                         *)
HandleCreate ==
    /\ TakeFirst({"GUILD_CREATE"})
    /\ LET large == Cardinality(event.members) >= Threshold
       IN  /\ cache' = [cache EXCEPT ![guild] =
                [there |-> TRUE, ready |-> ~large, channels |-> event.channels,
                 roles |-> event.roles, name |-> event.name, emojis |-> event.emojis,
                 members |-> IF large THEN {} ELSE event.members]]
           /\ asked' = [asked EXCEPT ![guild] = IF large /\ exists[guild] THEN @ + 1 ELSE @]
    /\ complete' = [complete EXCEPT ![guild] = event.members]
    /\ UNCHANGED <<left, backlog, replaying, crashed, seen>>

(* GUILD_DELETE forgets the entry, and neither the count of its chunks nor   *)
(* its backed-up events.                                                     *)
HandleDelete ==
    /\ TakeFirst({"GUILD_DELETE"})
    /\ cache' = [cache EXCEPT ![guild] = Absent]
    /\ UNCHANGED <<asked, left, backlog, replaying, crashed, seen, complete>>

(* GUILD_MEMBERS_CHUNK: the first chunk sets the counter; the last one makes *)
(* the guild ready and starts the replay of its events.  The guild is taken  *)
(* out of m_guilds unchecked.                                                *)
ChunksLeft == (IF left[guild] = 0 THEN event.count ELSE left[guild]) - 1

Replayed == backlog[guild]

HandleChunk ==
    /\ TakeFirst({"GUILD_MEMBERS_CHUNK"}) /\ cache[guild].there
    /\ left' = [left EXCEPT ![guild] = ChunksLeft]
    /\ cache' = [cache EXCEPT ![guild].members = @ \cup event.members,
                              ![guild].ready = @ \/ ChunksLeft = 0]
    /\ IF ChunksLeft = 0
       THEN replaying' = Replayed /\ backlog' = [backlog EXCEPT ![guild] = <<>>]
       ELSE UNCHANGED <<backlog, replaying>>
    /\ UNCHANGED <<asked, seen, crashed, complete>>

(* Each of them goes through m_opcode0 before the next dispatch is taken.    *)
Replay ==
    /\ ~crashed /\ replaying # <<>>
    /\ LET e == Head(replaying) IN Store(e.guild, Apply(State(e.guild), e))
    /\ replaying' = Tail(replaying)
    /\ UNCHANGED <<server, left, backlog, complete>>

HandleChunkUnknown ==
    /\ TakeFirst({"GUILD_MEMBERS_CHUNK"}) /\ ~cache[guild].there
    /\ crashed' = TRUE
    /\ UNCHANGED <<asked, cache, left, backlog, replaying, seen, complete>>

(* The events that wait for a guild that is not ready.  For an unknown guild *)
(* they return, or throw (MESSAGE_CREATE), which m_opcode0 swallows.         *)
HandleEvent ==
    /\ TakeFirst(BackedUp)
    /\ complete' = IF event.kind = "GUILD_MEMBER_REMOVE"
                   THEN [complete EXCEPT ![guild] = @ \ {event.arg}] ELSE complete
    /\ \/ /\ ~cache[guild].there
          /\ UNCHANGED <<cache, seen, crashed, backlog>>
       \/ /\ cache[guild].there /\ ~cache[guild].ready
          /\ backlog' = [backlog EXCEPT ![guild] = Append(@, event)]
          /\ UNCHANGED <<cache, seen, crashed>>
       \/ /\ cache[guild].ready
          /\ Store(guild, Apply(State(guild), event))
          /\ UNCHANGED backlog
    /\ UNCHANGED <<asked, left, replaying>>

(* CHANNEL_UPDATE is never put aside.  text_channels[id] makes a null entry  *)
(* for a channel that is not cached and follows it, and a channel without a  *)
(* category has the null that ptr_or_null returns followed.                  *)
HandleUpdate ==
    /\ TakeFirst({"CHANNEL_UPDATE"})
    /\ crashed' = (cache[guild].there /\ (event.arg \notin cache[guild].channels
                                          \/ event.arg \in Orphans))
    /\ UNCHANGED <<asked, cache, left, backlog, replaying, seen, complete>>

(* GUILD_EMOJI_UPDATE is applied at once, ready or not. *)
HandleEmojis ==
    /\ TakeFirst({"GUILD_EMOJI_UPDATE"})
    /\ cache' = IF cache[guild].there THEN [cache EXCEPT ![guild].emojis = event.arg] ELSE cache
    /\ UNCHANGED <<asked, left, backlog, replaying, crashed, seen, complete>>

(* Only for a cached channel is such an event put aside. *)
HandleTyping ==
    /\ TakeFirst(ChannelFirst)
    /\ backlog' = IF /\ cache[guild].there /\ ~cache[guild].ready
                     /\ event.arg \in cache[guild].channels
                  THEN [backlog EXCEPT ![guild] = Append(@, event)]
                  ELSE backlog
    /\ UNCHANGED <<asked, cache, left, replaying, crashed, seen, complete>>

ServerStep ==
    \E g \in Guilds :
        \/ \E ms \in SUBSET Members, cs \in SUBSET Channels : Create(g, ms, cs)
        \/ Vanish(g) \/ Answer(g) \/ SendChunk(g) \/ EditGuild(g) \/ EditEmojis(g)
        \/ \E m \in Members : Join(g, m) \/ Leave(g, m)
        \/ \E c \in Channels : MakeChannel(g, c) \/ DropChannel(g, c)
        \/ \E r \in Roles : MakeRole(g, r) \/ DropRole(g, r)
        \/ \E k \in Kinds : \/ \E c \in Channels : Post(g, c, k)
                            \/ \E x \in Channels \cup Roles : Mention(g, k, x)

ShardStep == HandleCreate \/ HandleDelete \/ HandleChunk \/ HandleChunkUnknown \/ Replay
             \/ HandleEvent \/ HandleUpdate \/ HandleEmojis \/ HandleTyping

Next == ServerStep \/ ShardStep

Spec == Init /\ [][Next]_vars
-----------------------------------------------------------------------------
Quiet(g) == inbox = <<>> /\ answer[g] = <<>> /\ asked[g] = 0 /\ replaying = <<>>

(* When nothing is on its way the cache is the server's: the same guilds,    *)
(* all of them ready, with the same members, channels, roles, name and       *)
(* emojis, every message event delivered, and nothing left over for the next *)
(* time the guild appears.                                                   *)
Converges ==
    \A g \in Guilds : Quiet(g) =>
        /\ cache[g].there = exists[g]
        /\ exists[g] => cache[g] = [there |-> TRUE, ready |-> TRUE,
                                   members |-> members[g], channels |-> channels[g],
                                   roles |-> roles[g], name |-> name[g], emojis |-> emojis[g]]
        /\ seen[g] = posted[g]
        /\ left[g] = 0

(* Messages reach on_guild_text_msg in the order of the gateway and none is  *)
(* skipped, whether they are handled at once or put aside and replayed.      *)
MessagesInOrder == \A g \in Guilds : IsPrefix(seen[g], posted[g])

(* on_guild_ready means that everybody is known: a guild that is ready has   *)
(* in its cache all members that it was created with and that did not leave. *)
ReadyIsComplete == \A g \in Guilds : cache[g].ready => complete[g] \subseteq cache[g].members

(* "events that came before guild recieved all members": only a guild that   *)
(* is waiting for members has backed-up events.                              *)
BacklogOnlyWhileSyncing ==
    \A g \in Guilds : backlog[g] # <<>> => cache[g].there /\ ~cache[g].ready

(* Whatever the server sends, a message is delivered at most once and only   *)
(* if it was posted.                                                         *)
MessagesOnce ==
    \A g \in Guilds : /\ IsInjective(seen[g])
                      /\ ToSet(seen[g]) \subseteq ToSet(posted[g])

(* The members are interchangeable in an invariant. *)
Symmetry == Permutations(Members)
=============================================================================
