-------------------------- MODULE GuildSyncProofs ---------------------------
(* Proofs about GuildSync. With a server that keeps a guild until it is      *)
(* ready and sends nothing late, the cache follows the server: it converges, *)
(* messages are delivered in order and none is skipped, and a ready guild is *)
(* known with all of its members. With any server no message is delivered    *)
(* twice or made up.                                                         *)
(*                                                                           *)
(* Four invariants carry the rest. Ordered: the numbers rise through a       *)
(* replay, what is aside and what is on the wire. Lives: of the lives of a   *)
(* guild at most two overlap on the wire. Sync: of the chunks due a stretch  *)
(* is on the wire and the rest still to be sent. Follows: what the server    *)
(* has is what the last pending event about it says, and without one what is *)
(* cached.                                                                   *)
EXTENDS GuildSync, FiniteSetTheorems, TLAPS

(* Sequences, events and what a handler does to a guild. *)

(* Appending adds an element, and taking the first removes it. *)
LEMMA Appended ==
    ASSUME NEW S, NEW s \in Seq(S), NEW e \in S
    PROVE  Append(s, e) \in Seq(S) /\ ToSet(Append(s, e)) = ToSet(s) \cup {e}
  <1>1. /\ Append(s, e) \in Seq(S) /\ Len(Append(s, e)) = Len(s) + 1 /\ Len(s) \in Nat
        /\ DOMAIN s = 1..Len(s) /\ DOMAIN Append(s, e) = 1..(Len(s) + 1)
        /\ \A i \in 1..Len(s) : Append(s, e)[i] = s[i]
        /\ Append(s, e)[Len(s) + 1] = e
    OBVIOUS
  <1>2. ToSet(Append(s, e)) \subseteq ToSet(s) \cup {e}
    BY <1>1 DEF ToSet
  <1>3. ToSet(s) \cup {e} \subseteq ToSet(Append(s, e))
    BY <1>1 DEF ToSet
  <1>4. QED
    BY <1>1, <1>2, <1>3

LEMMA Taken ==
    ASSUME NEW S, NEW s \in Seq(S), s # <<>>
    PROVE  /\ Tail(s) \in Seq(S) /\ Head(s) \in S
           /\ ToSet(s) = {Head(s)} \cup ToSet(Tail(s))
  <1>1. /\ Tail(s) \in Seq(S) /\ Head(s) \in S /\ Head(s) = s[1]
        /\ Len(s) \in Nat \ {0} /\ Len(Tail(s)) = Len(s) - 1
        /\ DOMAIN s = 1..Len(s) /\ DOMAIN Tail(s) = 1..(Len(s) - 1)
        /\ \A i \in 1..(Len(s) - 1) : Tail(s)[i] = s[i + 1]
    OBVIOUS
  <1>2. ToSet(s) \subseteq {Head(s)} \cup ToSet(Tail(s))
    <2>1. ASSUME NEW i \in 1..Len(s), i # 1
          PROVE  s[i] \in ToSet(Tail(s))
      <3>1. i - 1 \in 1..(Len(s) - 1) /\ s[i] = Tail(s)[i - 1]
        BY <1>1, <2>1
      <3>2. QED
        BY <1>1, <3>1 DEF ToSet
    <2>2. QED
      BY <1>1, <2>1 DEF ToSet
  <1>3. {Head(s)} \cup ToSet(Tail(s)) \subseteq ToSet(s)
    BY <1>1 DEF ToSet
  <1>4. QED
    BY <1>1, <1>2, <1>3

(* The elements of a sequence are those of the set that it is over. *)
LEMMA Elements ==
    ASSUME NEW S, NEW s \in Seq(S)
    PROVE  /\ \A e \in ToSet(s) : e \in S
           /\ s = <<>> <=> ToSet(s) = {}
           /\ ToSet(<<>>) = {}
  BY DEF ToSet

Rising(s) == \A i, j \in DOMAIN s : i < j => s[i].id < s[j].id

(* The numbers of a sequence still rise when a higher one is appended, or    *)
(* the first one is taken.                                                   *)
LEMMA RisingAppended ==
    ASSUME NEW s \in Seq(Event), NEW e \in Event, Rising(s), \A f \in ToSet(s) : f.id < e.id
    PROVE  Rising(Append(s, e))
  <1>1. /\ Len(s) \in Nat
        /\ DOMAIN s = 1..Len(s) /\ DOMAIN Append(s, e) = 1..(Len(s) + 1)
        /\ \A i \in 1..Len(s) : Append(s, e)[i] = s[i] /\ s[i].id < e.id
        /\ Append(s, e)[Len(s) + 1] = e
    BY DEF ToSet
  <1>2. QED
    BY <1>1 DEF Rising

LEMMA RisingTaken ==
    ASSUME NEW s \in Seq(Event), s # <<>>, Rising(s)
    PROVE  Rising(Tail(s)) /\ \A f \in ToSet(Tail(s)) : Head(s).id < f.id
  <1>1. /\ Head(s) = s[1] /\ Len(s) \in Nat \ {0}
        /\ DOMAIN s = 1..Len(s) /\ DOMAIN Tail(s) = 1..(Len(s) - 1)
        /\ \A i \in 1..(Len(s) - 1) : Tail(s)[i] = s[i + 1]
    OBVIOUS
  <1>2. QED
    BY <1>1 DEF Rising, ToSet

(* What the fields of an event hold. *)
LEMMA EventFields ==
    ASSUME NEW e \in Event
    PROVE  /\ e.guild \in Guilds /\ e.id \in Nat
           /\ e.kind = "GUILD_CREATE" =>
                /\ e.members \subseteq Members /\ e.channels \subseteq Channels
                /\ e.roles \subseteq Roles /\ e.name \in 0..1 /\ e.emojis \in 0..1
           /\ e.kind = "GUILD_MEMBERS_CHUNK" =>
                e.members \subseteq Members /\ e.index \in Nat /\ e.count \in Nat \ {0}
           /\ e.kind \in MemberEvents => e.arg \in Members
           /\ e.kind \in ChannelEvents => e.arg \in Channels
           /\ e.kind \in RoleEvents => e.arg \in Roles
           /\ e.kind \in {"GUILD_UPDATE", "GUILD_EMOJI_UPDATE"} => e.arg \in 0..1
  BY DEF Event, MemberEvents, ChannelEvents, RoleEvents, ChannelFirst, MessageEvents

LEMMA StateFields ==
    ASSUME NEW g
    PROVE  /\ State(g).entry = cache[g] /\ State(g).seen = seen[g]
           /\ State(g).bad \in BOOLEAN
  BY DEF State

LEMMA MessageFields ==
    ASSUME NEW g, NEW e
    PROVE  /\ MessageEvent(State(g), e).entry = cache[g]
           /\ MessageEvent(State(g), e).bad \in BOOLEAN
           /\ e.arg \in cache[g].channels
              => MessageEvent(State(g), e).seen = Append(seen[g], e.id)
           /\ e.arg \notin cache[g].channels => MessageEvent(State(g), e).seen = seen[g]
  BY DEF MessageEvent, State

(* What m_opcode0 does with e to a guild that is ready.                      *)
LEMMA ApplyEffect ==
    ASSUME NEW g \in Guilds, cache[g] \in Entry, seen[g] \in Seq(Nat), NEW e \in Event,
           e.kind \in BackedUp \cup ChannelFirst,
           NEW st, st = Apply(State(g), e)
    PROVE  /\ st.entry \in Entry /\ st.bad \in BOOLEAN
           /\ st.entry.there = cache[g].there /\ st.entry.ready = cache[g].ready
           /\ st.entry.emojis = cache[g].emojis
           /\ e.kind = "GUILD_MEMBER_ADD" => st.entry.members = cache[g].members \cup {e.arg}
           /\ e.kind = "GUILD_MEMBER_REMOVE" => st.entry.members = cache[g].members \ {e.arg}
           /\ e.kind \notin MemberEvents => st.entry.members = cache[g].members
           /\ e.kind = "CHANNEL_CREATE" => st.entry.channels = cache[g].channels \cup {e.arg}
           /\ e.kind = "CHANNEL_DELETE" => st.entry.channels = cache[g].channels \ {e.arg}
           /\ e.kind \notin {"CHANNEL_CREATE", "CHANNEL_DELETE"}
              => st.entry.channels = cache[g].channels
           /\ e.kind \in {"GUILD_ROLE_CREATE", "GUILD_ROLE_UPDATE"}
              => st.entry.roles = cache[g].roles \cup {e.arg}
           /\ e.kind = "GUILD_ROLE_DELETE" => st.entry.roles = cache[g].roles \ {e.arg}
           /\ e.kind \notin RoleEvents => st.entry.roles = cache[g].roles
           /\ e.kind = "GUILD_UPDATE" => st.entry.name = e.arg
           /\ e.kind # "GUILD_UPDATE" => st.entry.name = cache[g].name
           /\ e.kind \in MessageEvents /\ e.arg \in cache[g].channels
              => st.seen = Append(seen[g], e.id)
           /\ ~(e.kind \in MessageEvents /\ e.arg \in cache[g].channels) => st.seen = seen[g]
  <1>1. CASE e.kind = "GUILD_MEMBER_ADD"
    <2>1. e.arg \in Members
      BY <1>1, EventFields DEF MemberEvents
    <2>2. st = MemberAdd(State(g), e)
      BY <1>1 DEF Apply, MessageEvents
    <2>3. /\ st.entry = [cache[g] EXCEPT !.members = @ \cup {e.arg}]
          /\ st.seen = seen[g] /\ st.bad \in BOOLEAN
      BY <2>2 DEF MemberAdd, State
    <2>4. /\ st.entry \in Entry
          /\ st.entry.there = cache[g].there /\ st.entry.ready = cache[g].ready
          /\ st.entry.emojis = cache[g].emojis
          /\ st.entry.members = cache[g].members \cup {e.arg}
          /\ st.entry.channels = cache[g].channels
          /\ st.entry.roles = cache[g].roles
          /\ st.entry.name = cache[g].name
      BY <2>1, <2>3 DEF Entry
    <2>5. QED
      BY <1>1, <2>3, <2>4 DEF MemberEvents, RoleEvents, MessageEvents
  <1>2. CASE e.kind = "GUILD_MEMBER_REMOVE"
    <2>2. st = MemberRemove(State(g), e)
      BY <1>2 DEF Apply, MessageEvents
    <2>3. /\ st.entry = [cache[g] EXCEPT !.members = @ \ {e.arg}]
          /\ st.seen = seen[g] /\ st.bad \in BOOLEAN
      BY <2>2 DEF MemberRemove, State
    <2>4. /\ st.entry \in Entry
          /\ st.entry.there = cache[g].there /\ st.entry.ready = cache[g].ready
          /\ st.entry.emojis = cache[g].emojis
          /\ st.entry.members = cache[g].members \ {e.arg}
          /\ st.entry.channels = cache[g].channels
          /\ st.entry.roles = cache[g].roles
          /\ st.entry.name = cache[g].name
      BY <2>3 DEF Entry
    <2>5. QED
      BY <1>2, <2>3, <2>4 DEF MemberEvents, RoleEvents, MessageEvents
  <1>3. CASE e.kind = "CHANNEL_CREATE"
    <2>1. e.arg \in Channels
      BY <1>3, EventFields DEF ChannelEvents
    <2>2. st = ChannelCreate(State(g), e)
      BY <1>3 DEF Apply, MessageEvents
    <2>3. /\ st.entry = [cache[g] EXCEPT !.channels = @ \cup {e.arg}]
          /\ st.seen = seen[g] /\ st.bad \in BOOLEAN
      BY <2>2 DEF ChannelCreate, State
    <2>4. /\ st.entry \in Entry
          /\ st.entry.there = cache[g].there /\ st.entry.ready = cache[g].ready
          /\ st.entry.emojis = cache[g].emojis
          /\ st.entry.members = cache[g].members
          /\ st.entry.channels = cache[g].channels \cup {e.arg}
          /\ st.entry.roles = cache[g].roles
          /\ st.entry.name = cache[g].name
      BY <2>1, <2>3 DEF Entry
    <2>5. QED
      BY <1>3, <2>3, <2>4 DEF MemberEvents, RoleEvents, MessageEvents
  <1>4. CASE e.kind = "CHANNEL_DELETE"
    <2>2. st = ChannelDelete(State(g), e)
      BY <1>4 DEF Apply, MessageEvents
    <2>3. /\ st.entry = [cache[g] EXCEPT !.channels = @ \ {e.arg}]
          /\ st.seen = seen[g] /\ st.bad \in BOOLEAN
      BY <2>2 DEF ChannelDelete, State
    <2>4. /\ st.entry \in Entry
          /\ st.entry.there = cache[g].there /\ st.entry.ready = cache[g].ready
          /\ st.entry.emojis = cache[g].emojis
          /\ st.entry.members = cache[g].members
          /\ st.entry.channels = cache[g].channels \ {e.arg}
          /\ st.entry.roles = cache[g].roles
          /\ st.entry.name = cache[g].name
      BY <2>3 DEF Entry
    <2>5. QED
      BY <1>4, <2>3, <2>4 DEF MemberEvents, RoleEvents, MessageEvents
  <1>5. CASE e.kind = "GUILD_ROLE_CREATE"
    <2>1. e.arg \in Roles
      BY <1>5, EventFields DEF RoleEvents
    <2>2. st = RoleCreate(State(g), e)
      BY <1>5 DEF Apply, MessageEvents
    <2>3. /\ st.entry = [cache[g] EXCEPT !.roles = @ \cup {e.arg}]
          /\ st.seen = seen[g] /\ st.bad \in BOOLEAN
      BY <2>2 DEF RoleCreate, State
    <2>4. /\ st.entry \in Entry
          /\ st.entry.there = cache[g].there /\ st.entry.ready = cache[g].ready
          /\ st.entry.emojis = cache[g].emojis
          /\ st.entry.members = cache[g].members
          /\ st.entry.channels = cache[g].channels
          /\ st.entry.roles = cache[g].roles \cup {e.arg}
          /\ st.entry.name = cache[g].name
      BY <2>1, <2>3 DEF Entry
    <2>5. QED
      BY <1>5, <2>3, <2>4 DEF MemberEvents, RoleEvents, MessageEvents
  <1>6. CASE e.kind = "GUILD_ROLE_UPDATE"
    <2>1. e.arg \in Roles
      BY <1>6, EventFields DEF RoleEvents
    <2>2. st = RoleUpdate(State(g), e)
      BY <1>6 DEF Apply, MessageEvents
    <2>3. /\ st.entry = [cache[g] EXCEPT !.roles = @ \cup {e.arg}]
          /\ st.seen = seen[g] /\ st.bad \in BOOLEAN
      BY <2>2 DEF RoleUpdate, State
    <2>4. /\ st.entry \in Entry
          /\ st.entry.there = cache[g].there /\ st.entry.ready = cache[g].ready
          /\ st.entry.emojis = cache[g].emojis
          /\ st.entry.members = cache[g].members
          /\ st.entry.channels = cache[g].channels
          /\ st.entry.roles = cache[g].roles \cup {e.arg}
          /\ st.entry.name = cache[g].name
      BY <2>1, <2>3 DEF Entry
    <2>5. QED
      BY <1>6, <2>3, <2>4 DEF MemberEvents, RoleEvents, MessageEvents
  <1>7. CASE e.kind = "GUILD_ROLE_DELETE"
    <2>2. st = RoleDelete(State(g), e)
      BY <1>7 DEF Apply, MessageEvents
    <2>3. /\ st.entry = [cache[g] EXCEPT !.roles = @ \ {e.arg}]
          /\ st.seen = seen[g] /\ st.bad \in BOOLEAN
      BY <2>2 DEF RoleDelete, State
    <2>4. /\ st.entry \in Entry
          /\ st.entry.there = cache[g].there /\ st.entry.ready = cache[g].ready
          /\ st.entry.emojis = cache[g].emojis
          /\ st.entry.members = cache[g].members
          /\ st.entry.channels = cache[g].channels
          /\ st.entry.roles = cache[g].roles \ {e.arg}
          /\ st.entry.name = cache[g].name
      BY <2>3 DEF Entry
    <2>5. QED
      BY <1>7, <2>3, <2>4 DEF MemberEvents, RoleEvents, MessageEvents
  <1>8. CASE e.kind = "GUILD_UPDATE"
    <2>1. e.arg \in 0..1
      BY <1>8, EventFields
    <2>2. st = GuildUpdate(State(g), e)
      BY <1>8 DEF Apply, MessageEvents
    <2>3. /\ st.entry = [cache[g] EXCEPT !.name = e.arg]
          /\ st.seen = seen[g] /\ st.bad \in BOOLEAN
      BY <2>2 DEF GuildUpdate, State
    <2>4. /\ st.entry \in Entry
          /\ st.entry.there = cache[g].there /\ st.entry.ready = cache[g].ready
          /\ st.entry.emojis = cache[g].emojis
          /\ st.entry.members = cache[g].members
          /\ st.entry.channels = cache[g].channels
          /\ st.entry.roles = cache[g].roles
          /\ st.entry.name = e.arg
      BY <2>1, <2>3 DEF Entry
    <2>5. QED
      BY <1>8, <2>3, <2>4 DEF MemberEvents, RoleEvents, MessageEvents
  <1>9. CASE e.kind \in MessageEvents
    <2>1. st = MessageEvent(State(g), e)
      BY <1>9 DEF Apply, MessageEvents
    <2>2. /\ st.entry = cache[g] /\ st.bad \in BOOLEAN
          /\ e.arg \in cache[g].channels => st.seen = Append(seen[g], e.id)
          /\ e.arg \notin cache[g].channels => st.seen = seen[g]
      BY <2>1, MessageFields
    <2>3. QED
      BY <1>9, <2>2 DEF MemberEvents, RoleEvents, MessageEvents
  <1>10. CASE e.kind \in ChannelFirst
    <2>1. st = State(g)
      BY <1>10 DEF Apply, MessageEvents, ChannelFirst
    <2>2. st.entry = cache[g] /\ st.bad \in BOOLEAN /\ st.seen = seen[g]
      BY <2>1, StateFields
    <2>3. QED
      BY <1>10, <2>2 DEF MemberEvents, RoleEvents, MessageEvents, ChannelFirst
  <1>11. QED
    BY <1>1, <1>2, <1>3, <1>4, <1>5, <1>6, <1>7, <1>8, <1>9, <1>10 DEF BackedUp

(* The server tells of a change of g, or of a message in it. *)
Tells(g, e) ==
    /\ e \in Event /\ e.guild = g /\ e.id = sent + 1
    /\ e.kind \in MemberEvents \cup ChannelEvents \cup RoleEvents
                 \cup {"GUILD_UPDATE", "GUILD_EMOJI_UPDATE"}
    /\ Alive(g) /\ Dispatch(e)
    /\ UNCHANGED <<exists, asked, answer, shard>>
    /\ e.kind = "GUILD_MEMBER_ADD" => members' = [members EXCEPT ![g] = @ \cup {e.arg}]
    /\ e.kind = "GUILD_MEMBER_REMOVE" => members' = [members EXCEPT ![g] = @ \ {e.arg}]
    /\ e.kind \notin MemberEvents => members' = members
    /\ e.kind = "CHANNEL_CREATE" => channels' = [channels EXCEPT ![g] = @ \cup {e.arg}]
    /\ e.kind = "CHANNEL_DELETE" => channels' = [channels EXCEPT ![g] = @ \ {e.arg}]
    /\ e.kind \notin {"CHANNEL_CREATE", "CHANNEL_DELETE"} => channels' = channels
    /\ e.kind = "GUILD_ROLE_CREATE" => roles' = [roles EXCEPT ![g] = @ \cup {e.arg}]
    /\ e.kind = "GUILD_ROLE_UPDATE" => roles' = roles /\ e.arg \in roles[g]
    /\ e.kind = "GUILD_ROLE_DELETE" => roles' = [roles EXCEPT ![g] = @ \ {e.arg}]
    /\ e.kind \notin RoleEvents => roles' = roles
    /\ e.kind = "GUILD_UPDATE" => name' = [name EXCEPT ![g] = e.arg]
    /\ e.kind # "GUILD_UPDATE" => name' = name
    /\ e.kind = "GUILD_EMOJI_UPDATE" => emojis' = [emojis EXCEPT ![g] = e.arg]
    /\ e.kind # "GUILD_EMOJI_UPDATE" => emojis' = emojis
    /\ e.kind \in MessageEvents => /\ e.arg \in channels[g]
                                   /\ posted' = [posted EXCEPT ![g] = Append(@, e.id)]
    /\ e.kind \notin MessageEvents => posted' = posted

(* What the server can do. *)
LEMMA ServerCases ==
    ASSUME TypeOK, ServerStep
    PROVE  \E g \in Guilds :
               \/ \E ms \in SUBSET Members, cs \in SUBSET Channels : Create(g, ms, cs)
               \/ Vanish(g) \/ Answer(g) \/ SendChunk(g)
               \/ \E e \in Event : Tells(g, e)
  <1>1. PICK g \in Guilds :
        \/ \E ms \in SUBSET Members, cs \in SUBSET Channels : Create(g, ms, cs)
        \/ Vanish(g) \/ Answer(g) \/ SendChunk(g) \/ EditGuild(g) \/ EditEmojis(g)
        \/ \E m \in Members : Join(g, m) \/ Leave(g, m)
        \/ \E c \in Channels : MakeChannel(g, c) \/ DropChannel(g, c)
        \/ \E r \in Roles : MakeRole(g, r) \/ DropRole(g, r)
        \/ \E k \in Kinds : \/ \E c \in Channels : Post(g, c, k)
                            \/ \E x \in Channels \cup Roles : Mention(g, k, x)
    BY DEF ServerStep
  <1> DEFINE Ev(k, x) == [kind |-> k, guild |-> g, id |-> sent + 1, arg |-> x]
  <1> USE DEF Tells, Tell, MemberEvents, ChannelEvents, RoleEvents, ChannelFirst, MessageEvents
  <1>a. sent + 1 \in Nat
    BY DEF TypeOK
  <1>2. ASSUME EditGuild(g)
        PROVE  Tells(g, Ev("GUILD_UPDATE", 1 - name[g]))
    <2>1. 1 - name[g] \in 0..1
      <3>1. name[g] \in 0..1
        BY DEF TypeOK
      <3>2. QED
        BY <3>1
    <2>2. Ev("GUILD_UPDATE", 1 - name[g]) \in Event
      BY <1>a, <2>1 DEF Event
    <2>3. QED
      BY <1>2, <2>2 DEF EditGuild
  <1>3. ASSUME EditEmojis(g)
        PROVE  Tells(g, Ev("GUILD_EMOJI_UPDATE", 1 - emojis[g]))
    <2>1. 1 - emojis[g] \in 0..1
      <3>1. emojis[g] \in 0..1
        BY DEF TypeOK
      <3>2. QED
        BY <3>1
    <2>2. Ev("GUILD_EMOJI_UPDATE", 1 - emojis[g]) \in Event
      BY <1>a, <2>1 DEF Event
    <2>3. QED
      BY <1>3, <2>2 DEF EditEmojis
  <1>4. ASSUME NEW m \in Members, Join(g, m)
        PROVE  Tells(g, Ev("GUILD_MEMBER_ADD", m))
    <2>1. Ev("GUILD_MEMBER_ADD", m) \in Event
      BY <1>a DEF Event
    <2>2. QED
      BY <1>4, <2>1 DEF Join
  <1>5. ASSUME NEW m \in Members, Leave(g, m)
        PROVE  Tells(g, Ev("GUILD_MEMBER_REMOVE", m))
    <2>1. Ev("GUILD_MEMBER_REMOVE", m) \in Event
      BY <1>a DEF Event
    <2>2. QED
      BY <1>5, <2>1 DEF Leave
  <1>6. ASSUME NEW c \in Channels, MakeChannel(g, c)
        PROVE  Tells(g, Ev("CHANNEL_CREATE", c))
    <2>1. Ev("CHANNEL_CREATE", c) \in Event
      BY <1>a DEF Event
    <2>2. QED
      BY <1>6, <2>1 DEF MakeChannel
  <1>7. ASSUME NEW c \in Channels, DropChannel(g, c)
        PROVE  Tells(g, Ev("CHANNEL_DELETE", c))
    <2>1. Ev("CHANNEL_DELETE", c) \in Event
      BY <1>a DEF Event
    <2>2. QED
      BY <1>7, <2>1 DEF DropChannel
  <1>8. ASSUME NEW r \in Roles, MakeRole(g, r)
        PROVE  Tells(g, Ev("GUILD_ROLE_CREATE", r))
    <2>1. Ev("GUILD_ROLE_CREATE", r) \in Event
      BY <1>a DEF Event
    <2>2. QED
      BY <1>8, <2>1 DEF MakeRole
  <1>9. ASSUME NEW r \in Roles, DropRole(g, r)
        PROVE  Tells(g, Ev("GUILD_ROLE_DELETE", r))
    <2>1. Ev("GUILD_ROLE_DELETE", r) \in Event
      BY <1>a DEF Event
    <2>2. QED
      BY <1>9, <2>1 DEF DropRole
  <1>10. ASSUME NEW c \in Channels, NEW k \in Kinds, Post(g, c, k)
         PROVE  Tells(g, Ev(k, c))
    <2>1. Ev(k, c) \in Event
      BY <1>a, <1>10 DEF Event, Post
    <2>2. QED
      BY <1>10, <2>1 DEF Post
  <1>11. ASSUME NEW x \in Channels \cup Roles, NEW k \in Kinds, Mention(g, k, x)
         PROVE  Tells(g, Ev(k, x))
    <2>1. /\ k \in ChannelFirst \cup {"CHANNEL_UPDATE"} => x \in Channels
          /\ k = "GUILD_ROLE_UPDATE" => x \in Roles
      BY <1>11 DEF Mention, TypeOK
    <2>2. Ev(k, x) \in Event
      BY <1>a, <1>11, <2>1 DEF Event, Mention
    <2>3. QED
      BY <1>11, <2>2 DEF Mention
  <1>12. \A k, x : Tells(g, Ev(k, x)) => Ev(k, x) \in Event
    OBVIOUS
  <1> HIDE DEF Tells, Ev
  <1>13. QED
    BY <1>1, <1>2, <1>3, <1>4, <1>5, <1>6, <1>7, <1>8, <1>9, <1>10, <1>11, <1>12

-----------------------------------------------------------------------------
(* Types. *)

(* What is dispatched is on the wire, behind everything else. *)
LEMMA Dispatched ==
    ASSUME TypeOK, NEW e \in Event, Dispatch(e)
    PROVE  /\ inbox' \in Seq(Event) /\ sent' \in Nat /\ sent' = sent + 1
           /\ ToSet(inbox') = ToSet(inbox) \cup {e}
  BY Appended DEF Dispatch, TypeOK

(* The first dispatch is an event; taking it changes nothing at the server. *)
LEMMA FirstTaken ==
    ASSUME TypeOK, NEW K, TakeFirst(K)
    PROVE  /\ event \in Event /\ event.kind \in K /\ guild \in Guilds
           /\ inbox' \in Seq(Event) /\ inbox' = Tail(inbox)
           /\ ToSet(inbox) = {event} \cup ToSet(inbox')
           /\ replaying = <<>> /\ ~crashed
           /\ exists' = exists /\ members' = members /\ channels' = channels /\ roles' = roles
           /\ name' = name /\ emojis' = emojis /\ answer' = answer
           /\ sent' = sent /\ posted' = posted
  <1>1. event \in Event /\ inbox' \in Seq(Event) /\ ToSet(inbox) = {event} \cup ToSet(inbox')
    BY Taken DEF TypeOK, TakeFirst, event
  <1>2. QED
    BY <1>1, EventFields DEF TakeFirst, event, guild

LEMMA TypeAt ==
    ASSUME TypeOK, NEW g \in Guilds
    PROVE  /\ exists[g] \in BOOLEAN /\ members[g] \in SUBSET Members
           /\ channels[g] \in SUBSET Channels /\ roles[g] \in SUBSET Roles
           /\ name[g] \in 0..1 /\ emojis[g] \in 0..1 /\ asked[g] \in Nat
           /\ answer[g] \in Seq(Chunk) /\ cache[g] \in Entry /\ left[g] \in Nat
           /\ backlog[g] \in Seq(Held) /\ posted[g] \in Seq(Nat) /\ seen[g] \in Seq(Nat)
           /\ complete[g] \in SUBSET Members
  BY DEF TypeOK

LEMMA TypeInit == Init => TypeOK
  <1> SUFFICES ASSUME Init
               PROVE  TypeOK
    OBVIOUS
  <1>1. Absent \in Entry
    BY DEF Absent, Entry
  <1>2. cache \in [Guilds -> Entry]
    BY <1>1 DEF Init
  <1>3. /\ members \in [Guilds -> SUBSET Members] /\ channels \in [Guilds -> SUBSET Channels]
        /\ roles \in [Guilds -> SUBSET Roles] /\ complete \in [Guilds -> SUBSET Members]
        /\ exists \in [Guilds -> BOOLEAN] /\ name \in [Guilds -> 0..1]
        /\ emojis \in [Guilds -> 0..1]
    BY DEF Init
  <1>4. /\ answer \in [Guilds -> Seq(Chunk)] /\ inbox \in Seq(Event)
        /\ backlog \in [Guilds -> Seq(Held)] /\ replaying \in Seq(Held)
        /\ posted \in [Guilds -> Seq(Nat)] /\ seen \in [Guilds -> Seq(Nat)]
    BY DEF Init
  <1>5. /\ asked \in [Guilds -> Nat] /\ left \in [Guilds -> Nat]
        /\ sent \in Nat /\ crashed \in BOOLEAN
    BY DEF Init
  <1>6. QED
    BY <1>2, <1>3, <1>4, <1>5 DEF TypeOK

(* The members of a guild can be counted. *)
LEMMA CountOfMembers ==
    ASSUME NEW S, S \subseteq Members
    PROVE  IsFiniteSet(S) /\ Cardinality(S) \in Nat
  BY FS_Subset, FS_CardinalityType, GuildAssumption DEF GuildAssumption

(* Every step keeps the types. *)
LEMMA TypeStep == TypeOK /\ [Next]_vars => TypeOK'
  <1> SUFFICES ASSUME TypeOK, [Next]_vars
               PROVE  TypeOK'
    OBVIOUS
  <1>1. ASSUME NEW g \in Guilds, NEW ms \in SUBSET Members, NEW cs \in SUBSET Channels,
               Create(g, ms, cs)
        PROVE  TypeOK'
    <2> DEFINE e == [kind |-> "GUILD_CREATE", guild |-> g, id |-> sent + 1, members |-> ms,
                     channels |-> cs, roles |-> roles[g], name |-> name[g], emojis |-> emojis[g]]
    <2>1. e \in Event
      <3>1. sent + 1 \in Nat /\ roles[g] \in SUBSET Roles /\ name[g] \in 0..1 /\ emojis[g] \in 0..1
        BY DEF TypeOK
      <3>2. QED
        BY <3>1 DEF Event
    <2>2. Dispatch(e)
      BY <1>1 DEF Create
    <2> HIDE DEF e
    <2>3. inbox' \in Seq(Event) /\ sent' \in Nat
      BY <2>1, <2>2, Dispatched
    <2>4. QED
      BY <1>1, <2>3 DEF Create, TypeOK, shard
  <1>2. ASSUME NEW g \in Guilds, Vanish(g)
        PROVE  TypeOK'
    <2> DEFINE e == [kind |-> "GUILD_DELETE", guild |-> g, id |-> sent + 1]
    <2>1. e \in Event
      BY DEF Event, TypeOK
    <2>2. Dispatch(e)
      BY <1>2 DEF Vanish
    <2> HIDE DEF e
    <2>3. inbox' \in Seq(Event) /\ sent' \in Nat
      BY <2>1, <2>2, Dispatched
    <2>4. answer' \in [Guilds -> Seq(Chunk)] /\ asked' \in [Guilds -> Nat]
      <3>1. <<>> \in Seq(Chunk) /\ 0 \in Nat
        OBVIOUS
      <3>2. \/ answer' = answer /\ asked' = asked
            \/ answer' = [answer EXCEPT ![g] = <<>>] /\ asked' = [asked EXCEPT ![g] = 0]
        BY <1>2 DEF Vanish
      <3>3. QED
        BY <3>1, <3>2 DEF TypeOK
    <2>5. QED
      BY <1>2, <2>3, <2>4 DEF Vanish, TypeOK, shard
  <1>3. ASSUME NEW g \in Guilds, Answer(g)
        PROVE  TypeOK'
    <2> DEFINE n == Cardinality(members[g])
    <2>1. PICK ms \in [1..n -> members[g]] :
               answer' = [answer EXCEPT ![g] =
                    IF n = 0
                    THEN << [members |-> {}, index |-> 1, count |-> 1] >>
                    ELSE [i \in 1..n |-> [members |-> {ms[i]}, index |-> i, count |-> n]]]
      BY <1>3 DEF Answer
    <2>2. members[g] \in SUBSET Members
      BY DEF TypeOK
    <2>3. n \in Nat
      BY <2>2, CountOfMembers
    <2>4. << [members |-> {}, index |-> 1, count |-> 1] >> \in Seq(Chunk)
      BY DEF Chunk
    <2>5. [i \in 1..n |-> [members |-> {ms[i]}, index |-> i, count |-> n]] \in Seq(Chunk)
      <3>1. ASSUME NEW i \in 1..n
            PROVE  [members |-> {ms[i]}, index |-> i, count |-> n] \in Chunk
        <4>1. ms[i] \in Members /\ n \in Nat \ {0} /\ i \in Nat
          BY <2>2, <2>3
        <4>2. QED
          BY <4>1 DEF Chunk
      <3>2. QED
        BY <2>3, <3>1
    <2> HIDE DEF n
    <2>6. answer' \in [Guilds -> Seq(Chunk)]
      BY <2>1, <2>4, <2>5 DEF TypeOK
    <2>7. asked' \in [Guilds -> Nat]
      <3>1. asked[g] \in Nat /\ asked[g] > 0
        BY <1>3 DEF Answer, TypeOK
      <3>2. QED
        BY <1>3, <3>1 DEF Answer, TypeOK
    <2>8. QED
      BY <1>3, <2>6, <2>7 DEF Answer, TypeOK, shard
  <1>4. ASSUME NEW g \in Guilds, SendChunk(g)
        PROVE  TypeOK'
    <2> DEFINE c == Head(answer[g])
    <2> DEFINE e == [kind |-> "GUILD_MEMBERS_CHUNK", guild |-> g, id |-> sent + 1,
                     members |-> c.members, index |-> c.index, count |-> c.count]
    <2>1. answer[g] \in Seq(Chunk) /\ answer[g] # <<>>
      BY <1>4 DEF SendChunk, TypeOK
    <2>2. c \in Chunk /\ Tail(answer[g]) \in Seq(Chunk)
      BY <2>1
    <2>3. e \in Event
      BY <2>2 DEF Event, TypeOK, Chunk
    <2>4. Dispatch(e)
      BY <1>4 DEF SendChunk
    <2> HIDE DEF e
    <2>5. inbox' \in Seq(Event) /\ sent' \in Nat
      BY <2>3, <2>4, Dispatched
    <2>6. answer' \in [Guilds -> Seq(Chunk)]
      BY <1>4, <2>2 DEF SendChunk, TypeOK
    <2>7. QED
      BY <1>4, <2>5, <2>6 DEF SendChunk, TypeOK, shard
  <1>5. ASSUME NEW g \in Guilds, NEW e \in Event, Tells(g, e)
        PROVE  TypeOK'
    <2>1. inbox' \in Seq(Event) /\ sent' \in Nat
      BY <1>5, Dispatched DEF Tells
    <2>2. /\ e.id \in Nat
          /\ e.kind \in MemberEvents => e.arg \in Members
          /\ e.kind \in ChannelEvents => e.arg \in Channels
          /\ e.kind \in RoleEvents => e.arg \in Roles
          /\ e.kind \in {"GUILD_UPDATE", "GUILD_EMOJI_UPDATE"} => e.arg \in 0..1
      BY EventFields
    <2>3. members' \in [Guilds -> SUBSET Members]
      <3>1. members \in [Guilds -> SUBSET Members] /\ members[g] \in SUBSET Members
        BY DEF TypeOK
      <3>2. \/ members' = members
            \/ members' = [members EXCEPT ![g] = members[g] \cup {e.arg}] /\ e.arg \in Members
            \/ members' = [members EXCEPT ![g] = members[g] \ {e.arg}]
        BY <1>5, <2>2 DEF Tells, MemberEvents
      <3>3. QED
        BY <3>1, <3>2
    <2>4. channels' \in [Guilds -> SUBSET Channels]
      <3>1. channels \in [Guilds -> SUBSET Channels] /\ channels[g] \in SUBSET Channels
        BY DEF TypeOK
      <3>2. \/ channels' = channels
            \/ channels' = [channels EXCEPT ![g] = channels[g] \cup {e.arg}] /\ e.arg \in Channels
            \/ channels' = [channels EXCEPT ![g] = channels[g] \ {e.arg}]
        BY <1>5, <2>2 DEF Tells, ChannelEvents
      <3>3. QED
        BY <3>1, <3>2
    <2>5. roles' \in [Guilds -> SUBSET Roles]
      <3>1. roles \in [Guilds -> SUBSET Roles] /\ roles[g] \in SUBSET Roles
        BY DEF TypeOK
      <3>2. \/ roles' = roles
            \/ roles' = [roles EXCEPT ![g] = roles[g] \cup {e.arg}] /\ e.arg \in Roles
            \/ roles' = [roles EXCEPT ![g] = roles[g] \ {e.arg}]
        BY <1>5, <2>2 DEF Tells, RoleEvents
      <3>3. QED
        BY <3>1, <3>2
    <2>6. name' \in [Guilds -> 0..1]
      BY <1>5, <2>2 DEF Tells, TypeOK
    <2>7. emojis' \in [Guilds -> 0..1]
      BY <1>5, <2>2 DEF Tells, TypeOK
    <2>8. posted' \in [Guilds -> Seq(Nat)]
      <3>1. posted[g] \in Seq(Nat)
        BY TypeAt
      <3>2. Append(posted[g], e.id) \in Seq(Nat)
        BY <2>2, <3>1
      <3>3. \/ posted' = posted
            \/ posted' = [posted EXCEPT ![g] = Append(posted[g], e.id)]
        BY <1>5 DEF Tells
      <3>4. QED
        BY <3>2, <3>3 DEF TypeOK
    <2>9. QED
      BY <1>5, <2>1, <2>3, <2>4, <2>5, <2>6, <2>7, <2>8 DEF Tells, TypeOK, shard
  <1>6. CASE HandleCreate
    <2>1. TakeFirst({"GUILD_CREATE"})
      BY <1>6 DEF HandleCreate
    <2>2. event \in Event /\ event.kind = "GUILD_CREATE" /\ guild \in Guilds
      BY <2>1, FirstTaken
    <2>3. /\ event.members \in SUBSET Members /\ event.channels \in SUBSET Channels
          /\ event.roles \in SUBSET Roles /\ event.name \in 0..1 /\ event.emojis \in 0..1
      BY <2>2, EventFields
    <2>4. cache' \in [Guilds -> Entry]
      <3>1. [there |-> TRUE, ready |-> ~(Cardinality(event.members) >= Threshold),
             channels |-> event.channels, roles |-> event.roles, name |-> event.name,
             emojis |-> event.emojis,
             members |-> IF Cardinality(event.members) >= Threshold THEN {} ELSE event.members]
            \in Entry
        BY <2>3 DEF Entry
      <3>2. QED
        BY <1>6, <3>1 DEF HandleCreate, TypeOK
    <2>5. asked' \in [Guilds -> Nat] /\ complete' \in [Guilds -> SUBSET Members]
      <3>1. asked[guild] \in Nat /\ asked[guild] + 1 \in Nat
        BY <2>2 DEF TypeOK
      <3>2. asked' = [asked EXCEPT ![guild] = asked[guild]]
            \/ asked' = [asked EXCEPT ![guild] = asked[guild] + 1]
        BY <1>6 DEF HandleCreate
      <3>3. complete' = [complete EXCEPT ![guild] = event.members]
        BY <1>6 DEF HandleCreate
      <3>4. QED
        BY <2>3, <3>1, <3>2, <3>3 DEF TypeOK
    <2>6. QED
      BY <1>6, <2>1, <2>4, <2>5, FirstTaken DEF HandleCreate, TypeOK
  <1>7. CASE HandleDelete
    <2>1. Absent \in Entry
      BY DEF Absent, Entry
    <2>2. QED
      BY <1>7, <2>1, FirstTaken DEF HandleDelete, TypeOK
  <1>8. CASE HandleChunk
    <2>1. TakeFirst({"GUILD_MEMBERS_CHUNK"})
      BY <1>8 DEF HandleChunk
    <2>2. event \in Event /\ event.kind = "GUILD_MEMBERS_CHUNK" /\ guild \in Guilds
      BY <2>1, FirstTaken
    <2>3. /\ event.members \in SUBSET Members /\ event.count \in Nat \ {0}
          /\ cache[guild] \in Entry /\ left[guild] \in Nat /\ backlog[guild] \in Seq(Held)
      BY <2>2, EventFields, TypeAt
    <2>4. ChunksLeft \in Nat
      BY <2>3 DEF ChunksLeft
    <2>5. cache' \in [Guilds -> Entry]
      <3>1. [cache[guild] EXCEPT !.members = @ \cup event.members, !.ready = @ \/ ChunksLeft = 0]
            \in Entry
        BY <2>3 DEF Entry
      <3>2. cache' = [cache EXCEPT ![guild] = [cache[guild] EXCEPT
                !.members = @ \cup event.members, !.ready = @ \/ ChunksLeft = 0]]
        BY <1>8, <2>2 DEF HandleChunk, TypeOK
      <3>3. QED
        BY <3>1, <3>2 DEF TypeOK
    <2>6. backlog' \in [Guilds -> Seq(Held)] /\ replaying' \in Seq(Held)
      <3>1. <<>> \in Seq(Held)
        OBVIOUS
      <3>2. QED
        BY <1>8, <2>3, <3>1 DEF HandleChunk, TypeOK, Replayed
    <2>7. QED
      BY <1>8, <2>1, <2>4, <2>5, <2>6, FirstTaken DEF HandleChunk, TypeOK
  <1>9. CASE HandleChunkUnknown
    BY <1>9, FirstTaken DEF HandleChunkUnknown, TypeOK
  <1>10. ASSUME NEW g \in Guilds, NEW e \in Held, Store(g, Apply(State(g), e))
         PROVE  /\ cache' \in [Guilds -> Entry] /\ seen' \in [Guilds -> Seq(Nat)]
                /\ crashed' \in BOOLEAN
    <2>1. PICK st : st = Apply(State(g), e)
      OBVIOUS
    <2>2. cache[g] \in Entry /\ seen[g] \in Seq(Nat) /\ e.id \in Nat
      BY TypeAt, EventFields DEF Held
    <2>3. e \in Event /\ e.kind \in BackedUp \cup ChannelFirst
      BY DEF Held
    <2>4. st.entry \in Entry /\ st.bad \in BOOLEAN
      BY <2>1, <2>2, <2>3, ApplyEffect
    <2>5. st.seen = seen[g] \/ st.seen = Append(seen[g], e.id)
      BY <2>1, <2>2, <2>3, ApplyEffect
    <2>6. st.seen \in Seq(Nat)
      <3>1. Append(seen[g], e.id) \in Seq(Nat)
        BY <2>2, Appended
      <3>2. QED
        BY <2>2, <2>5, <3>1
    <2>7. /\ cache' = [cache EXCEPT ![g] = st.entry] /\ seen' = [seen EXCEPT ![g] = st.seen]
          /\ crashed' = st.bad
      BY <1>10, <2>1 DEF Store
    <2>8. QED
      BY <2>4, <2>6, <2>7 DEF TypeOK
  <1>11. CASE Replay
    <2>1. PICK e : e = Head(replaying)
      OBVIOUS
    <2>2. e \in Held /\ replaying' \in Seq(Held)
      BY <1>11, <2>1, Taken DEF Replay, TypeOK
    <2>3. e.guild \in Guilds
      BY <2>2, EventFields DEF Held
    <2>4. Store(e.guild, Apply(State(e.guild), e))
      BY <1>11, <2>1 DEF Replay
    <2>5. QED
      BY <1>10, <1>11, <2>2, <2>3, <2>4 DEF Replay, TypeOK, server
  <1>12. CASE HandleEvent
    <2>1. TakeFirst(BackedUp)
      BY <1>12 DEF HandleEvent
    <2>2. PICK e : e = event
      OBVIOUS
    <2>3. e \in Held /\ guild \in Guilds /\ inbox' \in Seq(Event)
      BY <2>1, <2>2, FirstTaken DEF Held
    <2>4. complete' \in [Guilds -> SUBSET Members]
      <3>1. complete[guild] \in SUBSET Members
        BY <2>3, TypeAt
      <3>2. \/ complete' = [complete EXCEPT ![guild] = complete[guild] \ {event.arg}]
            \/ complete' = complete
        BY <1>12 DEF HandleEvent
      <3>3. complete \in [Guilds -> SUBSET Members]
        BY DEF TypeOK
      <3>4. complete[guild] \ {event.arg} \in SUBSET Members
        BY <3>1
      <3>5. QED
        BY <2>3, <3>2, <3>3, <3>4
    <2>5. /\ cache' \in [Guilds -> Entry] /\ seen' \in [Guilds -> Seq(Nat)]
          /\ crashed' \in BOOLEAN
      <3>1. CASE Store(guild, Apply(State(guild), event))
        BY <1>10, <2>2, <2>3, <3>1
      <3>2. CASE UNCHANGED <<cache, seen, crashed>>
        BY <3>2 DEF TypeOK
      <3>3. QED
        BY <1>12, <3>1, <3>2 DEF HandleEvent
    <2>6. backlog' \in [Guilds -> Seq(Held)]
      <3>1. backlog[guild] \in Seq(Held)
        BY <2>3, TypeAt
      <3>2. Append(backlog[guild], e) \in Seq(Held)
        BY <2>3, <3>1
      <3>3. backlog' = backlog \/ backlog' = [backlog EXCEPT ![guild] = Append(backlog[guild], e)]
        BY <1>12, <2>2 DEF HandleEvent
      <3>4. QED
        BY <3>2, <3>3 DEF TypeOK
    <2>7. QED
      BY <1>12, <2>1, <2>4, <2>5, <2>6, FirstTaken DEF HandleEvent, TypeOK
  <1>13. CASE HandleUpdate
    BY <1>13, FirstTaken DEF HandleUpdate, TypeOK
  <1>14. CASE HandleEmojis
    <2>1. TakeFirst({"GUILD_EMOJI_UPDATE"})
      BY <1>14 DEF HandleEmojis
    <2>2. guild \in Guilds /\ event.arg \in 0..1
      BY <2>1, FirstTaken, EventFields
    <2>3. [cache[guild] EXCEPT !.emojis = event.arg] \in Entry
      <3>1. cache[guild] \in Entry
        BY <2>2, TypeAt
      <3>2. QED
        BY <2>2, <3>1 DEF Entry
    <2>4. cache' = cache
          \/ cache' = [cache EXCEPT ![guild] = [cache[guild] EXCEPT !.emojis = event.arg]]
      BY <1>14 DEF HandleEmojis
    <2>5. cache' \in [Guilds -> Entry]
      BY <2>3, <2>4 DEF TypeOK
    <2>6. QED
      BY <1>14, <2>1, <2>5, FirstTaken DEF HandleEmojis, TypeOK
  <1>15. CASE HandleTyping
    <2>1. TakeFirst(ChannelFirst)
      BY <1>15 DEF HandleTyping
    <2>2. PICK e : e = event
      OBVIOUS
    <2>3. e \in Held /\ guild \in Guilds /\ inbox' \in Seq(Event)
      BY <2>1, <2>2, FirstTaken DEF Held
    <2>4. backlog' \in [Guilds -> Seq(Held)]
      <3>1. backlog[guild] \in Seq(Held)
        BY <2>3, TypeAt
      <3>2. Append(backlog[guild], e) \in Seq(Held)
        BY <2>3, <3>1
      <3>3. backlog' = backlog \/ backlog' = [backlog EXCEPT ![guild] = Append(backlog[guild], e)]
        BY <1>15, <2>2 DEF HandleTyping
      <3>4. QED
        BY <3>2, <3>3 DEF TypeOK
    <2>5. QED
      BY <1>15, <2>1, <2>4, FirstTaken DEF HandleTyping, TypeOK
  <1>16. CASE UNCHANGED vars
    BY <1>16 DEF vars, server, shard, TypeOK
  <1>17. CASE ServerStep
    BY <1>1, <1>2, <1>3, <1>4, <1>5, <1>17, ServerCases
  <1>18. QED
    BY <1>6, <1>7, <1>8, <1>9, <1>11, <1>12, <1>13, <1>14, <1>15, <1>16, <1>17
       DEF Next, ShardStep

(* Every reachable state is of the declared types. *)
THEOREM TypeCorrect == Spec => []TypeOK
  BY TypeInit, TypeStep, PTL DEF Spec

-----------------------------------------------------------------------------
(* The order of the numbers, on the wire, aside and in a replay. *)

(* Dispatches are handled and put aside in the order of their numbers, and   *)
(* nothing of a guild is put aside while its events are replayed.            *)
Ordered ==
    /\ Rising(inbox) /\ Rising(replaying)
    /\ \A e \in ToSet(inbox) : e.id \in 1..sent
    /\ \A e \in ToSet(replaying) :
        /\ e.id \in 1..sent /\ backlog[e.guild] = <<>>
        /\ \A f \in ToSet(inbox) : e.id < f.id
    /\ \A g \in Guilds :
        /\ Rising(backlog[g])
        /\ \A e \in ToSet(backlog[g]) :
            /\ e.id \in 1..sent /\ e.guild = g
            /\ \A f \in ToSet(inbox) : e.id < f.id

LEMMA OrderedInit == Init => Ordered
  BY Elements DEF Init, Ordered, Rising, ToSet

LEMMA IdIsNat == ASSUME NEW e \in Event PROVE e.id \in Nat
  BY EventFields

(* The first dispatch has the smallest number. *)
LEMMA FirstIsFirst ==
    ASSUME TypeOK, Ordered, NEW K, TakeFirst(K)
    PROVE  /\ Rising(inbox')
           /\ \A f \in ToSet(inbox') : event.id < f.id
           /\ event \notin ToSet(inbox')
           /\ \A f \in ToSet(inbox') : f \in ToSet(inbox) /\ f \in Event
  <1>1. /\ Rising(inbox') /\ \A f \in ToSet(inbox') : event.id < f.id
    BY RisingTaken DEF TakeFirst, event, Ordered, TypeOK
  <1>2. event \in Event /\ inbox' \in Seq(Event) /\ ToSet(inbox) = {event} \cup ToSet(inbox')
    BY FirstTaken
  <1>3. event.id \in Nat
    BY <1>2, EventFields
  <1>4. \A f \in ToSet(inbox') : f \in Event
    BY <1>2, Elements
  <1>5. QED
    BY <1>1, <1>2, <1>3, <1>4

(* Sending, taking, and putting aside keep the order. *)
LEMMA OrderedSend ==
    ASSUME TypeOK, Ordered, NEW e \in Event, Dispatch(e), e.id = sent + 1,
           backlog' = backlog, replaying' = replaying
    PROVE  Ordered'
  <1>1. /\ inbox' \in Seq(Event) /\ sent' \in Nat /\ sent' = sent + 1 /\ sent \in Nat
        /\ ToSet(inbox') = ToSet(inbox) \cup {e}
    BY Dispatched DEF TypeOK
  <1>2. \A f \in ToSet(inbox) : f.id \in 1..sent /\ f.id < e.id
    BY <1>1 DEF Ordered
  <1>3. Rising(inbox')
    BY <1>2, RisingAppended DEF Ordered, TypeOK, Dispatch
  <1>4. \A f \in ToSet(inbox') : f.id \in 1..sent'
    BY <1>1, <1>2
  <1>5. \A f \in ToSet(replaying) : f.id \in 1..sent' /\ \A h \in ToSet(inbox') : f.id < h.id
    BY <1>1 DEF Ordered
  <1>6. \A g \in Guilds : \A f \in ToSet(backlog[g]) :
            f.id \in 1..sent' /\ \A h \in ToSet(inbox') : f.id < h.id
    BY <1>1 DEF Ordered
  <1>7. QED
    BY <1>3, <1>4, <1>5, <1>6 DEF Ordered

LEMMA OrderedTake ==
    ASSUME TypeOK, Ordered, NEW K, TakeFirst(K), backlog' = backlog, replaying' = replaying
    PROVE  Ordered'
  <1>1. sent' = sent /\ ToSet(inbox) = {event} \cup ToSet(inbox')
    BY FirstTaken
  <1>2. QED
    BY <1>1, FirstIsFirst DEF Ordered

LEMMA OrderedAside ==
    ASSUME TypeOK, Ordered, TakeFirst(BackedUp \cup ChannelFirst),
           backlog' = [backlog EXCEPT ![guild] = Append(@, event)], replaying' = replaying
    PROVE  Ordered'
  <1>1. PICK e : e = event
    OBVIOUS
  <1>2. /\ e \in Event /\ e.guild \in Guilds /\ guild = e.guild
        /\ replaying = <<>> /\ e.kind \in BackedUp \cup ChannelFirst
        /\ sent' = sent /\ ToSet(inbox) = {e} \cup ToSet(inbox')
    BY <1>1, FirstTaken DEF guild
  <1>3. \A f \in ToSet(inbox') : e.id < f.id
    BY <1>1, FirstIsFirst
  <1>4. e \in Held /\ backlog[e.guild] \in Seq(Held)
    BY <1>2, TypeAt DEF Held
  <1>5. ToSet(Append(backlog[e.guild], e)) = ToSet(backlog[e.guild]) \cup {e}
    BY <1>4, Appended
  <1>6. Rising(Append(backlog[e.guild], e))
    <2>1. backlog[e.guild] \in Seq(Event)
      BY <1>4 DEF Held
    <2>2. QED
      BY <1>2, <2>1, RisingAppended DEF Ordered
  <1>7. \A g \in Guilds : backlog'[g] =
            IF g = e.guild THEN Append(backlog[e.guild], e) ELSE backlog[g]
    BY <1>1, <1>2 DEF TypeOK
  <1>8. ASSUME NEW g \in Guilds
        PROVE  /\ Rising(backlog'[g])
               /\ \A f \in ToSet(backlog'[g]) :
                   /\ f.id \in 1..sent /\ f.guild = g
                   /\ \A h \in ToSet(inbox') : f.id < h.id
    <2>1. CASE g = e.guild
      <3>1. backlog'[g] = Append(backlog[e.guild], e)
        BY <1>7, <2>1
      <3>2. QED
        BY <1>2, <1>3, <1>5, <1>6, <2>1, <3>1 DEF Ordered
    <2>2. CASE g # e.guild
      <3>1. backlog'[g] = backlog[g]
        BY <1>7, <2>2
      <3>2. QED
        BY <1>2, <3>1 DEF Ordered
    <2>3. QED
      BY <2>1, <2>2
  <1>9. ToSet(replaying') = {} /\ Rising(replaying')
    BY <1>2, Elements DEF ToSet, Rising
  <1>10. Rising(inbox') /\ \A f \in ToSet(inbox') : f.id \in 1..sent'
    BY <1>2, FirstIsFirst DEF Ordered
  <1>11. QED
    BY <1>2, <1>8, <1>9, <1>10 DEF Ordered

(* Every step of the server but Answer dispatches one event. *)
LEMMA SentEvent ==
    ASSUME TypeOK, NEW g \in Guilds,
           \/ \E ms \in SUBSET Members, cs \in SUBSET Channels : Create(g, ms, cs)
           \/ Vanish(g) \/ SendChunk(g)
           \/ \E e \in Event : Tells(g, e)
    PROVE  \E e \in Event : /\ Dispatch(e) /\ e.guild = g /\ e.id = sent + 1
                               /\ (e.kind \in MessageEvents => Tells(g, e))
  <1>0. sent + 1 \in Nat
    BY DEF TypeOK
  <1>1. ASSUME NEW ms \in SUBSET Members, NEW cs \in SUBSET Channels, Create(g, ms, cs)
        PROVE  \E e \in Event : /\ Dispatch(e) /\ e.guild = g /\ e.id = sent + 1
                               /\ (e.kind \in MessageEvents => Tells(g, e))
    <2> DEFINE e == [kind |-> "GUILD_CREATE", guild |-> g, id |-> sent + 1, members |-> ms,
                     channels |-> cs, roles |-> roles[g], name |-> name[g], emojis |-> emojis[g]]
    <2>1. roles[g] \in SUBSET Roles /\ name[g] \in 0..1 /\ emojis[g] \in 0..1
      BY DEF TypeOK
    <2>2. e \in Event
      BY <1>0, <2>1 DEF Event
    <2>3. QED
      BY <1>1, <2>2 DEF Create, MessageEvents
  <1>2. ASSUME Vanish(g)
        PROVE  \E e \in Event : /\ Dispatch(e) /\ e.guild = g /\ e.id = sent + 1
                               /\ (e.kind \in MessageEvents => Tells(g, e))
    <2> DEFINE e == [kind |-> "GUILD_DELETE", guild |-> g, id |-> sent + 1]
    <2>1. e \in Event
      BY <1>0 DEF Event
    <2>2. QED
      BY <1>2, <2>1 DEF Vanish, MessageEvents
  <1>3. ASSUME SendChunk(g)
        PROVE  \E e \in Event : /\ Dispatch(e) /\ e.guild = g /\ e.id = sent + 1
                               /\ (e.kind \in MessageEvents => Tells(g, e))
    <2> DEFINE c == Head(answer[g])
    <2> DEFINE e == [kind |-> "GUILD_MEMBERS_CHUNK", guild |-> g, id |-> sent + 1,
                     members |-> c.members, index |-> c.index, count |-> c.count]
    <2>1. answer[g] \in Seq(Chunk) /\ answer[g] # <<>>
      BY <1>3 DEF SendChunk, TypeOK
    <2>2. c \in Chunk
      BY <2>1
    <2>3. e \in Event
      BY <1>0, <2>2 DEF Event, Chunk
    <2>4. QED
      BY <1>3, <2>3 DEF SendChunk, MessageEvents
  <1>4. ASSUME NEW e \in Event, Tells(g, e)
        PROVE  \E f \in Event : /\ Dispatch(f) /\ f.guild = g /\ f.id = sent + 1
                               /\ (f.kind \in MessageEvents => Tells(g, f))
    BY <1>4 DEF Tells
  <1>5. QED
    BY <1>1, <1>2, <1>3, <1>4

(* Every step keeps the order, whatever the server does. *)
LEMMA OrderedStep == TypeOK /\ Ordered /\ [Next]_vars => Ordered'
  <1> SUFFICES ASSUME TypeOK, Ordered, [Next]_vars
               PROVE  Ordered'
    OBVIOUS
  <1>1. CASE ServerStep
    <2>1. PICK g \in Guilds :
               \/ \E ms \in SUBSET Members, cs \in SUBSET Channels : Create(g, ms, cs)
               \/ Vanish(g) \/ Answer(g) \/ SendChunk(g)
               \/ \E e \in Event : Tells(g, e)
      BY <1>1, ServerCases
    <2>2. CASE Answer(g)
      BY <2>2 DEF Answer, Ordered, shard
    <2>3. CASE ~Answer(g)
      <3>1. PICK e \in Event : Dispatch(e) /\ e.id = sent + 1
        BY <2>1, <2>3, SentEvent
      <3>2. UNCHANGED shard
        BY <2>1, <2>3 DEF Create, Vanish, SendChunk, Tells
      <3>3. QED
        BY <3>1, <3>2, OrderedSend DEF shard
    <2>4. QED
      BY <2>2, <2>3
  <1>2. CASE HandleChunk
    <2>1. TakeFirst({"GUILD_MEMBERS_CHUNK"})
      BY <1>2 DEF HandleChunk
    <2>2. CASE ChunksLeft # 0
      BY <1>2, <2>1, <2>2, OrderedTake DEF HandleChunk
    <2>3. CASE ChunksLeft = 0
      <3>1. PICK g : g = guild
        OBVIOUS
      <3>2. /\ g \in Guilds /\ sent' = sent /\ \A f \in ToSet(inbox') : f \in ToSet(inbox)
        BY <2>1, <3>1, FirstTaken, FirstIsFirst
      <3>3. replaying' = backlog[g] /\ backlog' = [backlog EXCEPT ![g] = <<>>]
        BY <1>2, <2>3, <3>1 DEF HandleChunk, Replayed
      <3>4. \A h \in Guilds : backlog'[h] = IF h = g THEN <<>> ELSE backlog[h]
        BY <3>2, <3>3 DEF TypeOK
      <3>5. ASSUME NEW e \in ToSet(replaying')
            PROVE  /\ e.id \in 1..sent' /\ backlog'[e.guild] = <<>>
                   /\ \A f \in ToSet(inbox') : e.id < f.id
        <4>1. e \in ToSet(backlog[g]) /\ e.guild = g
          BY <3>2, <3>3, <3>5 DEF Ordered
        <4>2. QED
          BY <3>2, <3>4, <4>1 DEF Ordered
      <3>6. ASSUME NEW h \in Guilds
            PROVE  /\ Rising(backlog'[h])
                   /\ \A e \in ToSet(backlog'[h]) :
                       /\ e.id \in 1..sent' /\ e.guild = h
                       /\ \A f \in ToSet(inbox') : e.id < f.id
        <4>1. CASE h = g
          <5>1. backlog'[h] = <<>>
            BY <3>4, <4>1
          <5>2. QED
            BY <5>1, Elements DEF Rising, ToSet
        <4>2. CASE h # g
          <5>1. backlog'[h] = backlog[h]
            BY <3>4, <4>2
          <5>2. QED
            BY <3>2, <5>1 DEF Ordered
        <4>3. QED
          BY <4>1, <4>2
      <3>7. Rising(inbox') /\ Rising(replaying') /\ \A f \in ToSet(inbox') : f.id \in 1..sent'
        BY <2>1, <3>2, <3>3, FirstIsFirst DEF Ordered
      <3>8. QED
        BY <3>5, <3>6, <3>7 DEF Ordered
    <2>4. QED
      BY <2>2, <2>3
  <1>3. CASE Replay
    <2>1. /\ replaying \in Seq(Event) /\ replaying # <<>> /\ replaying' = Tail(replaying)
          /\ inbox' = inbox /\ backlog' = backlog /\ sent' = sent
      BY <1>3 DEF Replay, server, TypeOK, Held
    <2>2. Rising(replaying') /\ \A f \in ToSet(replaying') : f \in ToSet(replaying)
      BY <2>1, RisingTaken, Taken DEF Ordered
    <2>3. QED
      BY <2>1, <2>2 DEF Ordered
  <1>4. CASE HandleEvent
    <2>1. TakeFirst(BackedUp)
      BY <1>4 DEF HandleEvent
    <2>2. replaying' = replaying
      BY <1>4 DEF HandleEvent
    <2>3. CASE backlog' = backlog
      BY <2>1, <2>2, <2>3, OrderedTake
    <2>4. CASE backlog' = [backlog EXCEPT ![guild] = Append(@, event)]
      <3>1. TakeFirst(BackedUp \cup ChannelFirst)
        BY <2>1 DEF TakeFirst
      <3>2. QED
        BY <2>2, <2>4, <3>1, OrderedAside
    <2>5. QED
      BY <1>4, <2>3, <2>4 DEF HandleEvent
  <1>5. CASE HandleTyping
    <2>1. TakeFirst(ChannelFirst)
      BY <1>5 DEF HandleTyping
    <2>2. replaying' = replaying
      BY <1>5 DEF HandleTyping
    <2>3. CASE backlog' = backlog
      BY <2>1, <2>2, <2>3, OrderedTake
    <2>4. CASE backlog' = [backlog EXCEPT ![guild] = Append(@, event)]
      <3>1. TakeFirst(BackedUp \cup ChannelFirst)
        BY <2>1 DEF TakeFirst
      <3>2. QED
        BY <2>2, <2>4, <3>1, OrderedAside
    <2>5. QED
      BY <1>5, <2>3, <2>4 DEF HandleTyping
  <1>6. CASE HandleCreate
    BY <1>6, OrderedTake DEF HandleCreate
  <1>7. CASE HandleDelete
    BY <1>7, OrderedTake DEF HandleDelete
  <1>8. CASE HandleChunkUnknown
    BY <1>8, OrderedTake DEF HandleChunkUnknown
  <1>9. CASE HandleUpdate
    BY <1>9, OrderedTake DEF HandleUpdate
  <1>10. CASE HandleEmojis
    BY <1>10, OrderedTake DEF HandleEmojis
  <1>11. CASE UNCHANGED vars
    BY <1>11 DEF vars, server, shard, Ordered
  <1>12. QED
    BY <1>1, <1>2, <1>3, <1>4, <1>5, <1>6, <1>7, <1>8, <1>9, <1>10, <1>11 DEF Next, ShardStep

-----------------------------------------------------------------------------
(* What has not taken effect. *)

(* The dispatches of g that have been sent and have not taken effect. *)
Pending(g) == {e \in ToSet(replaying) \cup ToSet(backlog[g]) \cup ToSet(inbox) : e.guild = g}

(* What is pending is an event of its guild with a number that was given. *)
LEMMA PendingEvents ==
    ASSUME TypeOK, Ordered, NEW g \in Guilds, NEW e \in Pending(g)
    PROVE  e \in Event /\ e.guild = g /\ e.id \in 1..sent
  <1>1. inbox \in Seq(Event) /\ replaying \in Seq(Held) /\ backlog[g] \in Seq(Held)
    BY DEF TypeOK
  <1>2. QED
    BY <1>1, Elements DEF Pending, Ordered, Held

(* A dispatch is pending until it takes effect. *)
LEMMA PendingSend ==
    ASSUME TypeOK, NEW e \in Event, Dispatch(e), backlog' = backlog, replaying' = replaying,
           NEW g \in Guilds
    PROVE  /\ e.guild = g => Pending(g)' = Pending(g) \cup {e}
           /\ e.guild # g => Pending(g)' = Pending(g)
  <1>1. ToSet(inbox') = ToSet(inbox) \cup {e}
    BY Dispatched
  <1>2. QED
    BY <1>1 DEF Pending

(* The first dispatch is handled. *)
LEMMA PendingTake ==
    ASSUME TypeOK, Ordered, NEW K, TakeFirst(K), NEW g \in Guilds,
           ToSet(replaying') \cup ToSet(backlog'[g]) = ToSet(replaying) \cup ToSet(backlog[g])
    PROVE  /\ event.guild = g => Pending(g) = Pending(g)' \cup {event}
           /\ event.guild # g => Pending(g) = Pending(g)'
           /\ \A f \in Pending(g)' : f \in Pending(g) /\ f.id # event.id /\ f # event
  <1>1. PICK e : e = event
    OBVIOUS
  <1>2. /\ ToSet(inbox) = {e} \cup ToSet(inbox') /\ \A f \in ToSet(inbox') : e.id < f.id
        /\ replaying = <<>> /\ e \in ToSet(inbox) /\ e \in Event
    BY <1>1, FirstTaken, FirstIsFirst
  <1>3. Pending(g) = {f \in ToSet(replaying) \cup ToSet(backlog[g]) \cup {e} \cup ToSet(inbox') :
                      f.guild = g}
    BY <1>2 DEF Pending
  <1>4. Pending(g)' = {f \in ToSet(replaying) \cup ToSet(backlog[g]) \cup ToSet(inbox') :
                       f.guild = g}
    BY DEF Pending
  <1>5. \A f \in ToSet(replaying) \cup ToSet(backlog[g]) \cup ToSet(inbox') : f.id # e.id
    <2>1. ToSet(replaying) = {}
      BY <1>2, Elements DEF ToSet
    <2>2. \A f \in ToSet(inbox') : f.id \in Nat
      BY FirstIsFirst, EventFields
    <2>3. \A f \in ToSet(backlog[g]) : f.id \in Nat /\ f.id < e.id
      BY <1>2 DEF Ordered
    <2>4. e.id \in Nat
      BY <1>2, EventFields
    <2>5. QED
      BY <1>2, <2>1, <2>2, <2>3, <2>4
  <1>6. QED
    BY <1>1, <1>3, <1>4, <1>5

(* The first dispatch is put aside. *)
LEMMA PendingAside ==
    ASSUME TypeOK, Ordered, TakeFirst(BackedUp \cup ChannelFirst),
           backlog' = [backlog EXCEPT ![guild] = Append(@, event)], replaying' = replaying,
           NEW g \in Guilds
    PROVE  Pending(g)' = Pending(g)
  <1>1. PICK e : e = event
    OBVIOUS
  <1>2. /\ ToSet(inbox) = {e} \cup ToSet(inbox') /\ e \in Event /\ guild = e.guild
        /\ e.guild \in Guilds /\ e.kind \in BackedUp \cup ChannelFirst
    BY <1>1, FirstTaken DEF guild
  <1>3. e \in Held /\ backlog[e.guild] \in Seq(Held)
    BY <1>2, TypeAt DEF Held
  <1>4. ToSet(Append(backlog[e.guild], e)) = ToSet(backlog[e.guild]) \cup {e}
    BY <1>3, Appended
  <1>5. backlog'[g] = IF g = e.guild THEN Append(backlog[e.guild], e) ELSE backlog[g]
    BY <1>1, <1>2 DEF TypeOK
  <1>6. CASE g = e.guild
    BY <1>2, <1>4, <1>5, <1>6 DEF Pending
  <1>7. CASE g # e.guild
    <2>1. backlog'[g] = backlog[g]
      BY <1>5, <1>7
    <2>2. QED
      BY <1>2, <1>7, <2>1 DEF Pending
  <1>8. QED
    BY <1>6, <1>7

LEMMA NextReplayed ==
    ASSUME TypeOK, Replay, NEW e, e = Head(replaying)
    PROVE  e \in Held /\ e \in Event /\ e.guild \in Guilds /\ e.id \in Nat /\ e \in ToSet(replaying)
  <1>1. replaying \in Seq(Held) /\ replaying # <<>>
    BY DEF Replay, TypeOK
  <1>2. e \in ToSet(replaying) /\ e \in Held
    BY <1>1, Taken
  <1>3. QED
    BY <1>2, EventFields DEF Held

(* The next event is replayed: the first of its guild. *)
LEMMA PendingReplay ==
    ASSUME TypeOK, Ordered, Replay, NEW e, e = Head(replaying), NEW g \in Guilds
    PROVE  /\ e \in Held /\ e.guild \in Guilds /\ e \in ToSet(replaying)
           /\ e.guild = g => Pending(g) = Pending(g)' \cup {e}
           /\ e.guild # g => Pending(g) = Pending(g)'
           /\ e.guild = g => \A f \in Pending(g)' : e.id < f.id
           /\ \A f \in Pending(g)' : f \in Pending(g)
  <1>1. /\ replaying \in Seq(Held) /\ replaying \in Seq(Event) /\ replaying # <<>>
        /\ replaying' = Tail(replaying) /\ inbox' = inbox /\ backlog' = backlog
    BY DEF Replay, server, TypeOK, Held
  <1>2. ToSet(replaying) = {e} \cup ToSet(replaying') /\ e \in Held
    BY <1>1, Taken
  <1>3. e.guild \in Guilds /\ e.id \in Nat
    BY <1>2, EventFields DEF Held
  <1>4. \A f \in ToSet(replaying') : e.id < f.id
    BY <1>1, RisingTaken DEF Ordered
  <1>5. \A f \in ToSet(inbox') : e.id < f.id
    BY <1>1, <1>2 DEF Ordered
  <1>6. e.guild = g => ToSet(backlog'[g]) = {}
    BY <1>1, <1>2 DEF Ordered, ToSet
  <1>7. Pending(g) = {f \in ToSet(replaying') \cup {e} \cup ToSet(backlog'[g]) \cup ToSet(inbox') :
                      f.guild = g}
    BY <1>1, <1>2 DEF Pending
  <1>8. Pending(g)' = {f \in ToSet(replaying') \cup ToSet(backlog'[g]) \cup ToSet(inbox') :
                       f.guild = g}
    BY DEF Pending
  <1>9. QED
    BY <1>2, <1>3, <1>4, <1>5, <1>6, <1>7, <1>8

(* The last chunk moves what was put aside to what is replayed. *)
LEMMA Moved ==
    ASSUME TypeOK, Ordered, HandleChunk, NEW g \in Guilds
    PROVE  ToSet(replaying') \cup ToSet(backlog'[g]) = ToSet(replaying) \cup ToSet(backlog[g])
           \/ g # guild
  <1>1. TakeFirst({"GUILD_MEMBERS_CHUNK"})
    BY DEF HandleChunk
  <1>2. replaying = <<>> /\ ToSet(replaying) = {}
    BY <1>1, FirstTaken, Elements DEF ToSet
  <1>3. CASE ChunksLeft # 0
    BY <1>3 DEF HandleChunk
  <1>4. CASE ChunksLeft = 0 /\ g = guild
    <2>1. replaying' = backlog[g] /\ backlog'[g] = <<>>
      BY <1>4 DEF HandleChunk, Replayed, TypeOK
    <2>2. ToSet(backlog'[g]) = {}
      BY <2>1 DEF ToSet
    <2>3. QED
      BY <1>2, <2>1, <2>2
  <1>5. QED
    BY <1>3, <1>4

(* A chunk takes effect at once, also when it starts a replay. *)
LEMMA PendingChunk ==
    ASSUME TypeOK, Ordered, HandleChunk, NEW g \in Guilds
    PROVE  /\ event.guild = g => Pending(g) = Pending(g)' \cup {event}
           /\ event.guild # g => Pending(g) = Pending(g)'
           /\ \A f \in Pending(g)' : f \in Pending(g) /\ f # event
  <1>1. TakeFirst({"GUILD_MEMBERS_CHUNK"})
    BY DEF HandleChunk
  <1>2. CASE g = guild
    BY <1>1, <1>2, Moved, PendingTake
  <1>3. CASE g # guild
    <2>1. PICK e : e = event
      OBVIOUS
    <2>2. /\ ToSet(inbox) = {e} \cup ToSet(inbox') /\ e.guild # g /\ e.guild = guild
          /\ replaying = <<>> /\ guild \in Guilds
      BY <1>1, <1>3, <2>1, FirstTaken DEF guild
    <2>3. backlog'[g] = backlog[g]
      BY <1>3, <2>2 DEF HandleChunk, TypeOK
    <2>4. \A f \in ToSet(replaying) \cup ToSet(replaying') : f.guild # g
      <3>1. ToSet(replaying) = {}
        BY <2>2 DEF ToSet
      <3>2. replaying' = replaying \/ replaying' = backlog[guild]
        BY DEF HandleChunk, Replayed
      <3>3. QED
        BY <1>3, <2>2, <3>1, <3>2 DEF Ordered
    <2>5. QED
      BY <2>1, <2>2, <2>3, <2>4 DEF Pending
  <1>4. QED
    BY <1>2, <1>3

-----------------------------------------------------------------------------
(* No message twice. *)

(* A message event is on its way or delivered, never both, and was posted.   *)
Once ==
    \A g \in Guilds :
        /\ IsInjective(seen[g])
        /\ \A n \in ToSet(posted[g]) : n \in 1..sent
        /\ \A n \in ToSet(seen[g]) : n \in ToSet(posted[g])
        /\ \A e \in Pending(g) : e.kind \in MessageEvents =>
               e.id \in ToSet(posted[g]) /\ e.id \notin ToSet(seen[g])

LEMMA OnceInit == Init => Once
  <1> SUFFICES ASSUME Init, NEW g \in Guilds
               PROVE  /\ seen[g] = <<>> /\ posted[g] = <<>> /\ Pending(g) = {}
    BY DEF Once, IsInjective, ToSet
  <1>1. seen[g] = <<>> /\ posted[g] = <<>>
    BY DEF Init
  <1>2. inbox = <<>> /\ replaying = <<>> /\ backlog[g] = <<>>
    BY DEF Init
  <1>3. QED
    BY <1>1, <1>2 DEF Pending, ToSet

LEMMA AppendedOnce ==
    ASSUME NEW s \in Seq(Nat), NEW n \in Nat, IsInjective(s), n \notin ToSet(s)
    PROVE  IsInjective(Append(s, n))
  <1>1. /\ Len(s) \in Nat /\ DOMAIN s = 1..Len(s) /\ DOMAIN Append(s, n) = 1..(Len(s) + 1)
        /\ \A i \in 1..Len(s) : Append(s, n)[i] = s[i] /\ s[i] # n
        /\ Append(s, n)[Len(s) + 1] = n
    BY DEF ToSet
  <1>2. QED
    BY <1>1 DEF IsInjective

(* Nothing is delivered. *)
LEMMA OnceKept ==
    ASSUME TypeOK, Ordered, Once, seen' = seen, posted' = posted, sent' = sent,
           \A g \in Guilds : \A f \in Pending(g)' : f \in Pending(g)
    PROVE  Once'
  BY DEF Once

(* An event takes effect. *)
LEMMA OnceApplied ==
    ASSUME TypeOK, Ordered, Once, NEW e \in Held, e.guild \in Guilds,
           Store(e.guild, Apply(State(e.guild), e)), posted' = posted, sent' = sent,
           e \in Pending(e.guild),
           \A g \in Guilds : \A f \in Pending(g)' : f \in Pending(g),
           \A f \in Pending(e.guild)' : f.id # e.id
    PROVE  Once'
  <1>1. PICK g : g = e.guild
    OBVIOUS
  <1>2. PICK st : st = Apply(State(g), e)
    OBVIOUS
  <1>3. g \in Guilds /\ cache[g] \in Entry /\ seen[g] \in Seq(Nat) /\ e \in Event /\ e.id \in Nat
        /\ e.kind \in BackedUp \cup ChannelFirst
    BY <1>1, TypeAt, EventFields DEF Held
  <1>4. \/ st.seen = seen[g]
        \/ st.seen = Append(seen[g], e.id) /\ e.kind \in MessageEvents
    BY <1>2, <1>3, ApplyEffect
  <1>5. \A h \in Guilds : seen'[h] = IF h = g THEN st.seen ELSE seen[h]
    BY <1>1, <1>2 DEF Store, TypeOK
  <1>6. CASE st.seen = seen[g]
    <2>1. \A h \in Guilds : seen'[h] = seen[h]
      BY <1>5, <1>6
    <2>2. QED
      BY <2>1 DEF Once
  <1>7. CASE st.seen = Append(seen[g], e.id) /\ e.kind \in MessageEvents
    <2>1. e.id \in ToSet(posted[g]) /\ e.id \notin ToSet(seen[g])
      BY <1>1, <1>3, <1>7 DEF Once
    <2>2. seen'[g] = Append(seen[g], e.id) /\ ToSet(seen'[g]) = ToSet(seen[g]) \cup {e.id}
      <3>1. seen'[g] = Append(seen[g], e.id)
        BY <1>3, <1>5, <1>7
      <3>2. QED
        BY <1>3, <3>1, Appended
    <2>3. IsInjective(seen'[g])
      BY <1>3, <2>1, <2>2, AppendedOnce DEF Once
    <2>4. \A h \in Guilds : h # g => seen'[h] = seen[h]
      BY <1>5
    <2>5. ASSUME NEW h \in Guilds
          PROVE  /\ IsInjective(seen'[h])
                 /\ \A n \in ToSet(posted[h]) : n \in 1..sent
                 /\ \A n \in ToSet(seen'[h]) : n \in ToSet(posted[h])
                 /\ \A f \in Pending(h)' : f.kind \in MessageEvents =>
                        f.id \in ToSet(posted[h]) /\ f.id \notin ToSet(seen'[h])
      <3>1. CASE h = g
        BY <1>1, <2>1, <2>2, <2>3, <3>1 DEF Once
      <3>2. CASE h # g
        BY <2>4, <3>2 DEF Once
      <3>3. QED
        BY <3>1, <3>2
    <2>6. QED
      BY <2>5 DEF Once
  <1>8. QED
    BY <1>4, <1>6, <1>7

(* The server sends something. *)
LEMMA OnceSent ==
    ASSUME TypeOK, Ordered, Once, NEW e \in Event, Dispatch(e), e.id = sent + 1, e.guild \in Guilds,
           backlog' = backlog, replaying' = replaying, seen' = seen,
           e.kind \in MessageEvents => posted' = [posted EXCEPT ![e.guild] = Append(@, e.id)],
           e.kind \notin MessageEvents => posted' = posted
    PROVE  Once'
  <1>1. PICK g : g = e.guild
    OBVIOUS
  <1>2. sent \in Nat /\ sent' = sent + 1 /\ e.id \in Nat /\ g \in Guilds /\ posted[g] \in Seq(Nat)
    BY <1>1, Dispatched, TypeAt DEF TypeOK
  <1>3. ASSUME NEW h \in Guilds
        PROVE  \A f \in Pending(h)' : f \in Pending(h) \/ (f = e /\ h = g)
    <2>1. \/ e.guild = h /\ Pending(h)' = Pending(h) \cup {e}
          \/ e.guild # h /\ Pending(h)' = Pending(h)
      BY PendingSend
    <2>2. CASE e.guild = h
      BY <1>1, <2>1, <2>2
    <2>3. CASE e.guild # h
      <3>1. Pending(h)' = Pending(h)
        BY <2>1, <2>3
      <3>2. QED
        BY <3>1
    <2>4. QED
      BY <2>2, <2>3
  <1>4. ASSUME NEW h \in Guilds
        PROVE  ToSet(posted'[h]) = IF h = g /\ e.kind \in MessageEvents
                                   THEN ToSet(posted[h]) \cup {e.id} ELSE ToSet(posted[h])
    <2>1. CASE h = g /\ e.kind \in MessageEvents
      <3>1. posted'[h] = Append(posted[g], e.id)
        BY <1>1, <2>1 DEF TypeOK
      <3>2. QED
        BY <1>2, <2>1, <3>1, Appended
    <2>2. CASE ~(h = g /\ e.kind \in MessageEvents)
      <3>1. posted'[h] = posted[h]
        BY <1>1, <2>2 DEF TypeOK
      <3>2. QED
        BY <2>2, <3>1
    <2>3. QED
      BY <2>1, <2>2
  <1>5. ASSUME NEW h \in Guilds
        PROVE  e.id \notin ToSet(seen[h])
    <2>1. \A n \in ToSet(seen[h]) : n \in 1..sent
      BY DEF Once
    <2>2. QED
      BY <1>2, <2>1
  <1>6. ASSUME NEW h \in Guilds
        PROVE  /\ IsInjective(seen[h])
               /\ \A n \in ToSet(posted'[h]) : n \in 1..sent'
               /\ \A n \in ToSet(seen[h]) : n \in ToSet(posted'[h])
               /\ \A f \in Pending(h)' : f.kind \in MessageEvents =>
                      f.id \in ToSet(posted'[h]) /\ f.id \notin ToSet(seen[h])
    <2>1. \A n \in ToSet(posted'[h]) : n \in ToSet(posted[h]) \/ n = e.id
      BY <1>4
    <2>2. \A n \in ToSet(posted'[h]) : n \in 1..sent'
      BY <1>2, <2>1 DEF Once
    <2>3. ASSUME NEW f \in Pending(h)', f.kind \in MessageEvents
          PROVE  f.id \in ToSet(posted'[h]) /\ f.id \notin ToSet(seen[h])
      <3>1. CASE f \in Pending(h)
        BY <1>4, <2>3, <3>1 DEF Once
      <3>2. CASE f = e /\ h = g
        BY <1>4, <1>5, <2>3, <3>2
      <3>3. QED
        BY <1>3, <3>1, <3>2
    <2>4. QED
      BY <1>4, <2>2, <2>3 DEF Once
  <1>7. QED
    BY <1>6 DEF Once

(* Every step keeps that, whatever the server does. *)
LEMMA OnceStep == TypeOK /\ Ordered /\ Once /\ [Next]_vars => Once'
  <1> SUFFICES ASSUME TypeOK, Ordered, Once, [Next]_vars
               PROVE  Once'
    OBVIOUS
  <1>1. CASE ServerStep
    <2>1. PICK g \in Guilds :
               \/ \E ms \in SUBSET Members, cs \in SUBSET Channels : Create(g, ms, cs)
               \/ Vanish(g) \/ Answer(g) \/ SendChunk(g)
               \/ \E e \in Event : Tells(g, e)
      BY <1>1, ServerCases
    <2>2. CASE Answer(g)
      BY <2>2 DEF Answer, Once, Pending, shard
    <2>3. ASSUME NEW e \in Event, Tells(g, e)
          PROVE  Once'
      BY <2>3, OnceSent DEF Tells, shard
    <2>4. CASE \/ \E ms \in SUBSET Members, cs \in SUBSET Channels : Create(g, ms, cs)
               \/ Vanish(g) \/ SendChunk(g)
      <3>1. PICK e \in Event : /\ Dispatch(e) /\ e.guild = g /\ e.id = sent + 1
                               /\ (e.kind \in MessageEvents => Tells(g, e))
        BY <2>4, SentEvent
      <3>2. UNCHANGED shard /\ posted' = posted
        BY <2>4 DEF Create, Vanish, SendChunk
      <3>3. QED
        BY <2>3, <3>1, <3>2, OnceSent DEF shard
    <2>5. QED
      BY <2>1, <2>2, <2>3, <2>4
  <1>2. CASE HandleChunk
    <2>1. seen' = seen /\ posted' = posted /\ sent' = sent
      BY <1>2 DEF HandleChunk, TakeFirst
    <2>2. QED
      BY <1>2, <2>1, PendingChunk, OnceKept
  <1>3. CASE Replay
    <2>1. PICK e : e = Head(replaying)
      OBVIOUS
    <2>2. e \in Held /\ e.guild \in Guilds
      BY <1>3, <2>1, NextReplayed
    <2>3. \A g \in Guilds : \A f \in Pending(g)' : f \in Pending(g)
      BY <1>3, <2>1, PendingReplay
    <2>4. /\ e \in Pending(e.guild)
          /\ \A f \in Pending(e.guild)' : e.id < f.id /\ f \in Pending(e.guild)
      BY <1>3, <2>1, <2>2, PendingReplay
    <2>5. \A f \in Pending(e.guild)' : f.id # e.id
      <3>1. e.id \in Nat
        BY <2>2, EventFields DEF Held
      <3>2. QED
        BY <2>4, <3>1
    <2>6. Store(e.guild, Apply(State(e.guild), e)) /\ posted' = posted /\ sent' = sent
      BY <1>3, <2>1 DEF Replay, server
    <2>7. QED
      BY <2>2, <2>3, <2>4, <2>5, <2>6, OnceApplied
  <1>4. ASSUME NEW K, TakeFirst(K), backlog' = backlog, replaying' = replaying
        PROVE  /\ \A g \in Guilds : \A f \in Pending(g)' : f \in Pending(g) /\ f.id # event.id
               /\ posted' = posted /\ sent' = sent /\ event \in Pending(guild)
    <2>1. \A g \in Guilds : ToSet(replaying') \cup ToSet(backlog'[g])
                           = ToSet(replaying) \cup ToSet(backlog[g])
      BY <1>4
    <2>2. \A g \in Guilds : \A f \in Pending(g)' : f \in Pending(g) /\ f.id # event.id
      BY <1>4, <2>1, PendingTake
    <2>3. QED
      BY <1>4, <2>2, FirstTaken DEF Pending, guild
  <1>5. ASSUME TakeFirst(BackedUp \cup ChannelFirst), replaying' = replaying, seen' = seen,
               backlog' = [backlog EXCEPT ![guild] = Append(@, event)]
        PROVE  Once'
    <2>1. \A g \in Guilds : Pending(g)' = Pending(g)
      BY <1>5, PendingAside
    <2>2. posted' = posted /\ sent' = sent
      BY <1>5, FirstTaken
    <2>3. QED
      BY <1>5, <2>1, <2>2, OnceKept
  <1>6. CASE HandleEvent
    <2>1. TakeFirst(BackedUp) /\ TakeFirst(BackedUp \cup ChannelFirst) /\ replaying' = replaying
      BY <1>6 DEF HandleEvent, TakeFirst
    <2>2. CASE backlog' = backlog /\ seen' = seen
      BY <1>4, <2>1, <2>2, OnceKept
    <2>3. CASE backlog' = backlog /\ Store(guild, Apply(State(guild), event))
      <3>1. PICK e : e = event
        OBVIOUS
      <3>2. e \in Held /\ e.guild \in Guilds /\ guild = e.guild
        BY <2>1, <3>1, FirstTaken DEF Held, guild
      <3>3. QED
        BY <1>4, <2>1, <2>3, <3>1, <3>2, OnceApplied
    <2>4. CASE seen' = seen /\ backlog' = [backlog EXCEPT ![guild] = Append(@, event)]
      BY <1>5, <2>1, <2>4
    <2>5. QED
      BY <1>6, <2>2, <2>3, <2>4 DEF HandleEvent
  <1>7. CASE HandleTyping
    <2>1. TakeFirst(ChannelFirst) /\ TakeFirst(BackedUp \cup ChannelFirst)
          /\ replaying' = replaying /\ seen' = seen
      BY <1>7 DEF HandleTyping, TakeFirst
    <2>2. CASE backlog' = backlog
      BY <1>4, <2>1, <2>2, OnceKept
    <2>3. CASE backlog' = [backlog EXCEPT ![guild] = Append(@, event)]
      BY <1>5, <2>1, <2>3
    <2>4. QED
      BY <1>7, <2>2, <2>3 DEF HandleTyping
  <1>8. CASE HandleCreate
    BY <1>4, <1>8, OnceKept DEF HandleCreate
  <1>9. CASE HandleDelete
    BY <1>4, <1>9, OnceKept DEF HandleDelete
  <1>10. CASE HandleChunkUnknown
    BY <1>4, <1>10, OnceKept DEF HandleChunkUnknown
  <1>11. CASE HandleUpdate
    BY <1>4, <1>11, OnceKept DEF HandleUpdate
  <1>12. CASE HandleEmojis
    BY <1>4, <1>12, OnceKept DEF HandleEmojis
  <1>13. CASE UNCHANGED vars
    BY <1>13 DEF vars, server, shard, Once, Pending
  <1>14. QED
    BY <1>1, <1>2, <1>3, <1>6, <1>7, <1>8, <1>9, <1>10, <1>11, <1>12, <1>13 DEF Next, ShardStep

(* Nothing is delivered twice or made up. *)
LEMMA OnceMeans == Once => MessagesOnce
  BY DEF Once, MessagesOnce

-----------------------------------------------------------------------------
(* The lives of a guild and its chunks. *)

(* The dispatches of g on the wire, and the chunks among them. *)
Arrived(g) == {e \in ToSet(inbox) : e.guild = g}
Chunks(g) == {e \in Arrived(g) : e.kind = "GUILD_MEMBERS_CHUNK"}

Syncing(g) == cache[g].there /\ ~cache[g].ready

(* Of the lives of a guild at most two are on the wire: the end of one and   *)
(* the beginning of the next.  A guild ends only when it is ready, nothing   *)
(* is sent of a guild between its end and its next beginning, and events are *)
(* put aside only for a guild whose members are still to come.               *)
LivesAt(g) ==
    /\ cache[g].ready => cache[g].there
    /\ backlog[g] # <<>> => Syncing(g)
    /\ \A e \in ToSet(replaying) : e.guild = g => cache[g].ready
    /\ exists[g] => \/ \E f \in Arrived(g) : f.kind = "GUILD_CREATE"
                    \/ cache[g].there /\ \A f \in Arrived(g) : f.kind # "GUILD_DELETE"
    /\ ~exists[g] => /\ \A f \in Arrived(g) : f.kind # "GUILD_CREATE"
                     /\ cache[g].there => \E f \in Arrived(g) : f.kind = "GUILD_DELETE"
    /\ \A d \in Arrived(g) :
        /\ d.kind = "GUILD_DELETE" => cache[g].ready /\ \A f \in Arrived(g) : d.id <= f.id
        /\ d.kind = "GUILD_CREATE" =>
            /\ \A f \in Arrived(g) : f.kind = "GUILD_CREATE" => f.id = d.id
            /\ cache[g].there => \E f \in Arrived(g) : f.kind = "GUILD_DELETE" /\ f.id < d.id
        /\ d.kind \notin {"GUILD_CREATE", "GUILD_DELETE"} =>
            \/ \E f \in Arrived(g) : f.kind = "GUILD_CREATE" /\ f.id < d.id
            \/ cache[g].there /\ \A f \in Arrived(g) : f.kind # "GUILD_DELETE"

Lives == \A g \in Guilds : LivesAt(g)

(* The chunks that g waits for: of n, those from k to m are on the wire, in  *)
(* their order, and the rest are still to be sent.                           *)
DueOf(g, n, k, m) ==
    /\ k \in 1..n /\ k <= m + 1 /\ m = n - Len(answer[g])
    /\ left[g] = (IF k = 1 THEN 0 ELSE n - k + 1)
    /\ \A i \in DOMAIN answer[g] : answer[g][i].count = n /\ answer[g][i].index = m + i
    /\ \A e \in Chunks(g) : e.count = n /\ e.index \in k..m
    /\ \A j \in k..m : \E e \in Chunks(g) : e.index = j
    /\ \A e, f \in Chunks(g) : e.id < f.id => e.index < f.index

SyncAt(g) ==
    /\ ~Syncing(g) => asked[g] = 0 /\ answer[g] = <<>> /\ Chunks(g) = {} /\ left[g] = 0
    /\ Syncing(g) /\ asked[g] > 0
       => asked[g] = 1 /\ answer[g] = <<>> /\ Chunks(g) = {} /\ left[g] = 0
    /\ Syncing(g) /\ asked[g] = 0 => \E n, k, m \in Nat : DueOf(g, n, k, m)

Sync == \A g \in Guilds : SyncAt(g)

(* What is on the wire of a guild; what a step adds to it or takes from it. *)
LEMMA ArrivedEvents ==
    ASSUME TypeOK, Ordered, NEW g, NEW e \in Arrived(g)
    PROVE  e \in Event /\ e.guild = g /\ e.id \in 1..sent /\ e.id \in Nat
  <1>1. e \in Event
    BY Elements DEF Arrived, TypeOK
  <1>2. QED
    BY <1>1, EventFields DEF Arrived, Ordered

LEMMA ArrivedSend ==
    ASSUME TypeOK, NEW e \in Event, Dispatch(e), NEW g \in Guilds
    PROVE  /\ e.guild = g => Arrived(g)' = Arrived(g) \cup {e}
           /\ e.guild # g => Arrived(g)' = Arrived(g)
  <1>1. ToSet(inbox') = ToSet(inbox) \cup {e}
    BY Dispatched
  <1>2. QED
    BY <1>1 DEF Arrived

LEMMA ArrivedTake ==
    ASSUME TypeOK, Ordered, NEW K, TakeFirst(K), NEW g \in Guilds
    PROVE  /\ event.guild = g => Arrived(g) = Arrived(g)' \cup {event}
           /\ event.guild # g => Arrived(g) = Arrived(g)'
           /\ \A f \in Arrived(g)' : f \in Arrived(g) /\ event.id < f.id /\ f # event
  BY FirstTaken, FirstIsFirst DEF Arrived

(* Nothing of g is sent or handled. *)
LEMMA LivesKept ==
    ASSUME NEW g, LivesAt(g), cache'[g].there = cache[g].there, cache'[g].ready = cache[g].ready,
           exists'[g] = exists[g], Arrived(g)' = Arrived(g), backlog'[g] # <<>> => Syncing(g),
           \A e \in ToSet(replaying') : e.guild = g => e \in ToSet(replaying)
    PROVE  LivesAt(g)'
  <1>1. Syncing(g)' <=> Syncing(g)
    BY DEF Syncing
  <1>2. QED
    BY <1>1 DEF LivesAt

(* Nothing changes about the chunks of g. *)
LEMMA SyncKept ==
    ASSUME NEW g, SyncAt(g), Syncing(g)' <=> Syncing(g), asked'[g] = asked[g],
           answer'[g] = answer[g], left'[g] = left[g], Chunks(g)' = Chunks(g)
    PROVE  SyncAt(g)'
  <1>1. ASSUME NEW n, NEW k, NEW m, DueOf(g, n, k, m)
        PROVE  DueOf(g, n, k, m)'
    BY <1>1 DEF DueOf
  <1>2. QED
    BY <1>1 DEF SyncAt

(* An event of g is handled that neither begins nor ends a life of it. *)
LEMMA LivesTaken ==
    ASSUME TypeOK, Ordered, NEW K, TakeFirst(K), NEW g \in Guilds, LivesAt(g),
           event.kind \notin {"GUILD_CREATE", "GUILD_DELETE"},
           cache'[g].there = cache[g].there, cache'[g].ready = cache[g].ready,
           backlog'[g] # <<>> => Syncing(g), replaying' = replaying
    PROVE  LivesAt(g)'
  <1>1. PICK e : e = event
    OBVIOUS
  <1>2. /\ Arrived(g) = Arrived(g)' \cup {e} \/ Arrived(g) = Arrived(g)'
        /\ e.kind \notin {"GUILD_CREATE", "GUILD_DELETE"} /\ exists' = exists
        /\ \A f \in Arrived(g)' : f \in Arrived(g)
    BY <1>1, ArrivedTake, FirstTaken
  <1>3. Syncing(g)' <=> Syncing(g)
    BY DEF Syncing
  <1>4. \A f \in Arrived(g) : f.kind \in {"GUILD_CREATE", "GUILD_DELETE"} => f \in Arrived(g)'
    BY <1>2
  <1>5. \A d \in Arrived(g)' :
        /\ d.kind = "GUILD_DELETE" => cache'[g].ready /\ \A f \in Arrived(g)' : d.id <= f.id
        /\ d.kind = "GUILD_CREATE" =>
            /\ \A f \in Arrived(g)' : f.kind = "GUILD_CREATE" => f.id = d.id
            /\ cache'[g].there => \E f \in Arrived(g)' : f.kind = "GUILD_DELETE" /\ f.id < d.id
        /\ d.kind \notin {"GUILD_CREATE", "GUILD_DELETE"} =>
            \/ \E f \in Arrived(g)' : f.kind = "GUILD_CREATE" /\ f.id < d.id
            \/ cache'[g].there /\ \A f \in Arrived(g)' : f.kind # "GUILD_DELETE"
    BY <1>2, <1>4 DEF LivesAt
  <1>6. QED
    BY <1>2, <1>3, <1>4, <1>5 DEF LivesAt

(* What is known of the first dispatch, by its kind. *)
LEMMA FirstOfLife ==
    ASSUME TypeOK, Ordered, NEW K, TakeFirst(K), Lives, Sync, NEW e, e = event, NEW g, g = guild
    PROVE  /\ e.kind = "GUILD_CREATE" =>
                /\ ~cache[g].there /\ ~Syncing(g) /\ ~cache[g].ready /\ exists[g]
                /\ \A f \in Arrived(g)' : f.kind \notin {"GUILD_CREATE", "GUILD_DELETE"}
           /\ e.kind = "GUILD_DELETE" =>
                /\ cache[g].ready /\ ~Syncing(g)
                /\ \A f \in Arrived(g)' : f.kind # "GUILD_DELETE"
           /\ e.kind \notin {"GUILD_CREATE", "GUILD_DELETE"} =>
                /\ cache[g].there
                /\ \A f \in Arrived(g) : f.kind \notin {"GUILD_CREATE", "GUILD_DELETE"}
           /\ e.kind = "GUILD_MEMBERS_CHUNK" => Syncing(g) /\ asked[g] = 0
  <1>2. /\ g \in Guilds /\ e \in Event /\ e.guild = g /\ e \in Arrived(g)
        /\ Arrived(g) = Arrived(g)' \cup {e}
        /\ \A f \in Arrived(g)' : f \in Arrived(g) /\ e.id < f.id
    BY FirstTaken, ArrivedTake DEF guild, Arrived
  <1>3. e.id \in Nat /\ \A f \in Arrived(g) : f.id \in Nat
    BY <1>2, ArrivedEvents
  <1>4. \A f \in Arrived(g) : ~(f.id < e.id)
    BY <1>2, <1>3
  <1>5. LivesAt(g) /\ SyncAt(g) /\ asked[g] \in Nat
    BY <1>2, TypeAt DEF Lives, Sync
  <1>6. \A f \in Arrived(g)' : ~(f.id <= e.id) /\ f.id # e.id
    BY <1>2, <1>3
  <1>7. ASSUME e.kind = "GUILD_CREATE"
        PROVE  /\ ~cache[g].there /\ ~Syncing(g) /\ ~cache[g].ready /\ exists[g]
               /\ \A f \in Arrived(g)' : f.kind \notin {"GUILD_CREATE", "GUILD_DELETE"}
    <2>1. ~cache[g].there /\ ~cache[g].ready
      BY <1>2, <1>4, <1>5, <1>7 DEF LivesAt
    <2>2. QED
      BY <1>2, <1>5, <1>6, <1>7, <2>1 DEF LivesAt, Syncing
  <1>8. ASSUME e.kind = "GUILD_DELETE"
        PROVE  /\ cache[g].ready /\ ~Syncing(g)
               /\ \A f \in Arrived(g)' : f.kind # "GUILD_DELETE"
    BY <1>2, <1>5, <1>6, <1>8 DEF LivesAt, Syncing
  <1>9. ASSUME e.kind \notin {"GUILD_CREATE", "GUILD_DELETE"}
        PROVE  /\ cache[g].there
               /\ \A f \in Arrived(g) : f.kind \notin {"GUILD_CREATE", "GUILD_DELETE"}
    <2>1. cache[g].there /\ \A f \in Arrived(g) : f.kind # "GUILD_DELETE"
      BY <1>2, <1>4, <1>5, <1>9 DEF LivesAt
    <2>2. QED
      BY <1>5, <2>1 DEF LivesAt
  <1>10. ASSUME e.kind = "GUILD_MEMBERS_CHUNK"
         PROVE  Syncing(g) /\ asked[g] = 0
    <2>1. e \in Chunks(g)
      BY <1>2, <1>10 DEF Chunks
    <2>2. QED
      BY <1>5, <2>1 DEF SyncAt
  <1>11. QED
    BY <1>7, <1>8, <1>9, <1>10

(* Where it begins, and the steps of the server. *)
LEMMA LivesSyncInit == Init => Lives /\ Sync
  <1> SUFFICES ASSUME Init, NEW g \in Guilds
               PROVE  LivesAt(g) /\ SyncAt(g)
    BY DEF Lives, Sync
  <1>1. /\ Arrived(g) = {} /\ Chunks(g) = {} /\ ToSet(replaying) = {}
        /\ backlog[g] = <<>> /\ ~cache[g].there /\ ~cache[g].ready /\ ~exists[g]
        /\ asked[g] = 0 /\ answer[g] = <<>> /\ left[g] = 0
    BY DEF Init, Arrived, Chunks, ToSet, Absent
  <1>2. QED
    BY <1>1 DEF LivesAt, SyncAt, Syncing

(* The server creates g, with e. *)
LEMMA LivesCreate ==
    ASSUME TypeOK, Ordered, NEW g \in Guilds, LivesAt(g), SyncAt(g),
           NEW ms \in SUBSET Members, NEW cs \in SUBSET Channels, Create(g, ms, cs)
    PROVE  LivesAt(g)' /\ SyncAt(g)'
  <1> DEFINE e == [kind |-> "GUILD_CREATE", guild |-> g, id |-> sent + 1, members |-> ms,
                   channels |-> cs, roles |-> roles[g], name |-> name[g], emojis |-> emojis[g]]
  <1>1. e \in Event
    <2>1. sent + 1 \in Nat /\ roles[g] \in SUBSET Roles /\ name[g] \in 0..1 /\ emojis[g] \in 0..1
      BY DEF TypeOK
    <2>2. QED
      BY <2>1 DEF Event
  <1>2. Dispatch(e) /\ e.guild = g /\ e.kind = "GUILD_CREATE" /\ e.id = sent + 1
    BY DEF Create
  <1> HIDE DEF e
  <1>3. Arrived(g)' = Arrived(g) \cup {e}
    BY <1>1, <1>2, ArrivedSend
  <1>4. /\ ~exists[g] /\ exists'[g] /\ cache' = cache /\ backlog' = backlog
        /\ replaying' = replaying /\ asked' = asked /\ answer' = answer /\ left' = left
    BY DEF Create, shard, TypeOK
  <1>5. \A f \in Arrived(g) : f.id < e.id /\ f.id <= e.id
    <2>1. sent \in Nat
      BY DEF TypeOK
    <2>2. QED
      BY <1>2, <2>1, ArrivedEvents
  <1>6. \A f \in Arrived(g) : f.kind # "GUILD_CREATE"
    BY <1>4 DEF LivesAt
  <1>7. Syncing(g)' <=> Syncing(g)
    BY <1>4 DEF Syncing
  <1>8. LivesAt(g)'
    <2>1. \A d \in Arrived(g)' :
        /\ d.kind = "GUILD_DELETE" => cache'[g].ready /\ \A f \in Arrived(g)' : d.id <= f.id
        /\ d.kind = "GUILD_CREATE" =>
            /\ \A f \in Arrived(g)' : f.kind = "GUILD_CREATE" => f.id = d.id
            /\ cache'[g].there => \E f \in Arrived(g)' : f.kind = "GUILD_DELETE" /\ f.id < d.id
        /\ d.kind \notin {"GUILD_CREATE", "GUILD_DELETE"} =>
            \/ \E f \in Arrived(g)' : f.kind = "GUILD_CREATE" /\ f.id < d.id
            \/ cache'[g].there /\ \A f \in Arrived(g)' : f.kind # "GUILD_DELETE"
      <3>1. CASE cache[g].there
        <4>1. \E f \in Arrived(g) : f.kind = "GUILD_DELETE"
          BY <1>4, <3>1 DEF LivesAt
        <4>2. QED
          BY <1>2, <1>3, <1>4, <1>5, <1>6, <4>1 DEF LivesAt
      <3>2. CASE ~cache[g].there
        BY <1>2, <1>3, <1>4, <1>5, <1>6, <3>2 DEF LivesAt
      <3>3. QED
        BY <3>1, <3>2
    <2>2. QED
      BY <1>2, <1>3, <1>4, <1>7, <2>1 DEF LivesAt
  <1>9. Chunks(g)' = Chunks(g)
    BY <1>2, <1>3 DEF Chunks
  <1>10. QED
    BY <1>4, <1>7, <1>8, <1>9, SyncKept

LEMMA LivesVanish ==
    ASSUME TypeOK, Ordered, Orderly, NEW g \in Guilds, LivesAt(g), SyncAt(g), Vanish(g)
    PROVE  LivesAt(g)' /\ SyncAt(g)'
  <1> DEFINE e == [kind |-> "GUILD_DELETE", guild |-> g, id |-> sent + 1]
  <1>1. e \in Event
    BY DEF Event, TypeOK
  <1>2. Dispatch(e) /\ e.guild = g /\ e.kind = "GUILD_DELETE" /\ e.id \in Nat
    BY <1>1 DEF Vanish, TypeOK
  <1> HIDE DEF e
  <1>3. /\ cache[g].ready /\ inbox = <<>> /\ ~exists'[g] /\ cache' = cache /\ backlog' = backlog
        /\ replaying' = replaying /\ left' = left
        /\ asked'[g] = 0 /\ answer'[g] = <<>>
    BY DEF Vanish, Orderly, shard, TypeOK
  <1>4. Arrived(g)' = {e}
    <2>1. Arrived(g) = {}
      BY <1>3 DEF Arrived, ToSet
    <2>2. QED
      BY <1>1, <1>2, <2>1, ArrivedSend
  <1>5. ~Syncing(g) /\ ~Syncing(g)' /\ left[g] = 0
    BY <1>3 DEF Syncing, SyncAt
  <1>6. LivesAt(g)'
    BY <1>2, <1>3, <1>4, <1>5 DEF LivesAt
  <1>7. Chunks(g)' = {}
    BY <1>2, <1>4 DEF Chunks
  <1>8. QED
    BY <1>3, <1>5, <1>6, <1>7 DEF SyncAt

LEMMA LivesAnswer ==
    ASSUME TypeOK, Ordered, NEW g \in Guilds, LivesAt(g), SyncAt(g), Answer(g)
    PROVE  LivesAt(g)' /\ SyncAt(g)'
  <1> DEFINE n == Cardinality(members[g])
  <1>1. PICK ms \in [1..n -> members[g]] :
             answer' = [answer EXCEPT ![g] =
                  IF n = 0
                  THEN << [members |-> {}, index |-> 1, count |-> 1] >>
                  ELSE [i \in 1..n |-> [members |-> {ms[i]}, index |-> i, count |-> n]]]
    BY DEF Answer
  <1>2. n \in Nat
    BY TypeAt, CountOfMembers
  <1> HIDE DEF n
  <1>3. /\ inbox' = inbox /\ cache' = cache /\ backlog' = backlog /\ replaying' = replaying
        /\ exists' = exists /\ left' = left /\ asked'[g] = asked[g] - 1 /\ asked[g] > 0
    BY DEF Answer, shard, TypeOK
  <1>4. Arrived(g)' = Arrived(g) /\ Chunks(g)' = Chunks(g) /\ (Syncing(g)' <=> Syncing(g))
    BY <1>3 DEF Arrived, Chunks, Syncing
  <1>5. LivesAt(g)'
    BY <1>3, <1>4, LivesKept DEF LivesAt
  <1>6. /\ Syncing(g) /\ asked[g] = 1 /\ Chunks(g) = {} /\ left[g] = 0
    <2>1. asked[g] \in Nat /\ asked[g] # 0
      BY <1>3, TypeAt
    <2>2. QED
      BY <1>3, <2>1 DEF SyncAt
  <1>7. CASE n = 0
    <2>1. answer'[g] = << [members |-> {}, index |-> 1, count |-> 1] >>
      BY <1>1, <1>7 DEF TypeOK
    <2>2. DueOf(g, 1, 1, 0)'
      BY <1>3, <1>4, <1>6, <2>1 DEF DueOf
    <2>3. QED
      BY <1>3, <1>4, <1>5, <1>6, <2>2 DEF SyncAt
  <1>8. CASE n # 0
    <2>1. answer'[g] = [i \in 1..n |-> [members |-> {ms[i]}, index |-> i, count |-> n]]
      BY <1>1, <1>8 DEF TypeOK
    <2>2. Len(answer'[g]) = n /\ DOMAIN answer'[g] = 1..n
          /\ \A i \in 1..n : answer'[g][i].count = n /\ answer'[g][i].index = i
      BY <1>2, <2>1
    <2>3. PICK k \in Nat \ {0} : k = n
      BY <1>2, <1>8
    <2>4. DueOf(g, k, 1, 0)'
      BY <1>3, <1>4, <1>6, <2>2, <2>3 DEF DueOf
    <2>5. QED
      BY <1>3, <1>4, <1>5, <1>6, <2>3, <2>4 DEF SyncAt
  <1>9. QED
    BY <1>7, <1>8

LEMMA LivesSendChunk ==
    ASSUME TypeOK, Ordered, NEW g \in Guilds, LivesAt(g), SyncAt(g), SendChunk(g)
    PROVE  LivesAt(g)' /\ SyncAt(g)'
  <1> DEFINE c == Head(answer[g])
  <1> DEFINE e == [kind |-> "GUILD_MEMBERS_CHUNK", guild |-> g, id |-> sent + 1,
                   members |-> c.members, index |-> c.index, count |-> c.count]
  <1>1. answer[g] \in Seq(Chunk) /\ answer[g] # <<>> /\ answer'[g] = Tail(answer[g])
    BY DEF SendChunk, TypeOK
  <1>2. c \in Chunk /\ c = answer[g][1] /\ Len(answer[g]) \in Nat \ {0}
        /\ DOMAIN answer[g] = 1..Len(answer[g])
        /\ Len(answer'[g]) = Len(answer[g]) - 1 /\ DOMAIN answer'[g] = 1..(Len(answer[g]) - 1)
        /\ \A i \in 1..(Len(answer[g]) - 1) : answer'[g][i] = answer[g][i + 1]
    BY <1>1
  <1>3. e \in Event
    <2>1. c \in Chunk
      BY <1>1
    <2>2. sent + 1 \in Nat
      BY DEF TypeOK
    <2>3. QED
      BY <2>1, <2>2 DEF Event, Chunk
  <1>4. /\ Dispatch(e) /\ e.guild = g /\ e.kind = "GUILD_MEMBERS_CHUNK" /\ e.id = sent + 1
        /\ e.index = c.index /\ e.count = c.count
    BY DEF SendChunk
  <1> HIDE DEF c, e
  <1>5. Arrived(g)' = Arrived(g) \cup {e} /\ Chunks(g)' = Chunks(g) \cup {e}
    <2>1. Arrived(g)' = Arrived(g) \cup {e}
      BY <1>3, <1>4, ArrivedSend
    <2>2. QED
      BY <1>4, <2>1 DEF Chunks
  <1>6. /\ cache' = cache /\ backlog' = backlog /\ replaying' = replaying
        /\ exists' = exists /\ left' = left /\ asked' = asked
    BY DEF SendChunk, shard
  <1>7. \A f \in Arrived(g) : f.id < e.id /\ f.id <= e.id
    <2>1. sent \in Nat
      BY DEF TypeOK
    <2>2. QED
      BY <1>4, <2>1, ArrivedEvents
  <1>8. Syncing(g) /\ asked[g] = 0 /\ (Syncing(g)' <=> Syncing(g))
    <2>1. asked[g] \in Nat
      BY TypeAt
    <2>2. QED
      BY <1>1, <1>6, <2>1 DEF SyncAt, Syncing
  <1>9. cache[g].there /\ \A f \in Arrived(g) : f.kind \notin {"GUILD_CREATE", "GUILD_DELETE"}
    BY <1>8 DEF LivesAt, Syncing
  <1>10. LivesAt(g)'
    BY <1>4, <1>5, <1>6, <1>8, <1>9 DEF LivesAt
  <1>11. PICK n, k, m \in Nat : DueOf(g, n, k, m)
    BY <1>8 DEF SyncAt
  <1>12. c.index = m + 1 /\ c.count = n
    <2>1. 1 \in DOMAIN answer[g] /\ c = answer[g][1]
      BY <1>2
    <2>2. QED
      BY <1>11, <2>1 DEF DueOf
  <1>13. DueOf(g, n, k, m + 1)'
    <2>1. /\ k \in 1..n /\ k <= (m + 1) + 1 /\ m + 1 = n - Len(answer'[g])
          /\ left'[g] = (IF k = 1 THEN 0 ELSE n - k + 1)
      BY <1>2, <1>6, <1>11 DEF DueOf
    <2>2. \A i \in DOMAIN answer'[g] : answer'[g][i].count = n /\ answer'[g][i].index = m + 1 + i
      <3>1. ASSUME NEW i \in DOMAIN answer'[g]
            PROVE  /\ i + 1 \in DOMAIN answer[g] /\ answer'[g][i] = answer[g][i + 1]
                   /\ m + 1 + i = m + (i + 1)
        <4>1. i \in 1..(Len(answer[g]) - 1) /\ Len(answer[g]) \in Nat
          BY <1>2
        <4>2. i + 1 \in 1..Len(answer[g]) /\ m + 1 + i = m + (i + 1)
          BY <4>1
        <4>3. i + 1 \in DOMAIN answer[g] /\ answer'[g][i] = answer[g][i + 1]
          BY <1>2, <4>1, <4>2
        <4>4. QED
          BY <4>2, <4>3
      <3>2. \A i \in DOMAIN answer[g] : answer[g][i].count = n /\ answer[g][i].index = m + i
        BY <1>11 DEF DueOf
      <3>3. QED
        BY <3>1, <3>2
    <2>3. \A f \in Chunks(g)' : f.count = n /\ f.index \in k..(m + 1)
      <3>1. \A f \in Chunks(g) : f.count = n /\ f.index \in k..m /\ k..m \subseteq k..(m + 1)
        BY <1>11 DEF DueOf
      <3>2. k <= m + 1
        BY <1>11 DEF DueOf
      <3>3. e.count = n /\ e.index \in k..(m + 1)
        BY <1>4, <1>12, <3>2
      <3>4. QED
        BY <1>5, <3>1, <3>3
    <2>4. ASSUME NEW j \in k..(m + 1)
          PROVE  \E f \in Chunks(g)' : f.index = j
      <3>1. CASE j = m + 1
        BY <1>4, <1>5, <1>12, <3>1
      <3>2. CASE j \in k..m
        BY <1>5, <1>11, <3>2 DEF DueOf
      <3>3. QED
        BY <3>1, <3>2
    <2>5. \A f, h \in Chunks(g)' : f.id < h.id => f.index < h.index
      <3>1. \A f \in Chunks(g) : f.index \in k..m /\ f \in Arrived(g) /\ ~(e.id < f.id)
        <4>1. \A f \in Chunks(g) : f \in Arrived(g) /\ f.id \in Nat /\ e.id \in Nat
          BY <1>3, ArrivedEvents, EventFields DEF Chunks
        <4>2. QED
          BY <1>7, <1>11, <4>1 DEF DueOf
      <3>2. \A f \in Chunks(g) : f.index < e.index
        BY <1>4, <1>12, <3>1
      <3>3. ~(e.id < e.id)
        BY <1>3, EventFields
      <3>4. QED
        BY <1>5, <1>11, <3>1, <3>2, <3>3 DEF DueOf
    <2>6. QED
      BY <2>1, <2>2, <2>3, <2>4, <2>5 DEF DueOf
  <1>14. QED
    BY <1>6, <1>8, <1>10, <1>13 DEF SyncAt

LEMMA LivesTells ==
    ASSUME TypeOK, Ordered, Orderly, NEW g \in Guilds, LivesAt(g), SyncAt(g),
           NEW e \in Event, Tells(g, e)
    PROVE  LivesAt(g)' /\ SyncAt(g)'
  <1>1. Arrived(g)' = Arrived(g) \cup {e} /\ e.id = sent + 1
    BY ArrivedSend DEF Tells
  <1>2. e.kind \notin {"GUILD_CREATE", "GUILD_DELETE", "GUILD_MEMBERS_CHUNK"}
    BY DEF Tells, MemberEvents, ChannelEvents, RoleEvents, ChannelFirst, MessageEvents
  <1>3. Chunks(g)' = Chunks(g)
    BY <1>1, <1>2 DEF Chunks
  <1>4. /\ cache' = cache /\ backlog' = backlog /\ replaying' = replaying
        /\ exists' = exists /\ left' = left /\ asked' = asked /\ answer' = answer
    BY DEF Tells, shard
  <1>5. exists[g] /\ (Syncing(g)' <=> Syncing(g))
    BY <1>4 DEF Tells, Alive, Orderly, Syncing
  <1>6. \A f \in Arrived(g) : f.id < e.id /\ f.id <= e.id
    <2>1. sent \in Nat
      BY DEF TypeOK
    <2>2. QED
      BY <1>1, <2>1, ArrivedEvents
  <1>7. \/ \E f \in Arrived(g) : f.kind = "GUILD_CREATE"
        \/ cache[g].there /\ \A f \in Arrived(g) : f.kind # "GUILD_DELETE"
    BY <1>5 DEF LivesAt
  <1>8. LivesAt(g)'
    BY <1>1, <1>2, <1>4, <1>5, <1>6, <1>7 DEF LivesAt
  <1>9. QED
    BY <1>3, <1>4, <1>5, <1>8, SyncKept

(* The first dispatch is the beginning of g, its end, or one of its chunks. *)
LEMMA LivesHandleCreate ==
    ASSUME TypeOK, Ordered, Lives, Sync, HandleCreate, NEW g, g = guild
    PROVE  LivesAt(g)' /\ SyncAt(g)'
  <1>1. PICK e : e = event
    OBVIOUS
  <1>2. TakeFirst({"GUILD_CREATE"})
    BY DEF HandleCreate
  <1>3. /\ g \in Guilds /\ e.kind = "GUILD_CREATE" /\ e.guild = g /\ exists' = exists
        /\ replaying = <<>> /\ answer' = answer
        /\ Arrived(g) = Arrived(g)' \cup {e}
        /\ \A f \in Arrived(g)' : f \in Arrived(g)
    BY <1>1, <1>2, FirstTaken, ArrivedTake DEF guild
  <1>4. /\ ~cache[g].there /\ ~Syncing(g) /\ ~cache[g].ready /\ exists[g]
        /\ \A f \in Arrived(g)' : f.kind \notin {"GUILD_CREATE", "GUILD_DELETE"}
    BY <1>1, <1>2, <1>3, FirstOfLife
  <1>5. LivesAt(g) /\ SyncAt(g)
    BY <1>3 DEF Lives, Sync
  <1>6. /\ backlog[g] = <<>> /\ asked[g] = 0 /\ answer[g] = <<>> /\ Chunks(g) = {} /\ left[g] = 0
    BY <1>4, <1>5 DEF LivesAt, SyncAt
  <1>7. PICK large \in BOOLEAN : large <=> Cardinality(event.members) >= Threshold
    OBVIOUS
  <1>8. /\ cache'[g].there /\ (cache'[g].ready <=> ~large)
        /\ asked'[g] = (IF large THEN 1 ELSE 0)
    <2>1. cache'[g].there /\ (cache'[g].ready <=> ~large)
      BY <1>3, <1>7 DEF HandleCreate, TypeOK
    <2>2. asked' = [asked EXCEPT ![g] = IF large /\ exists[g] THEN asked[g] + 1 ELSE asked[g]]
      BY <1>7 DEF HandleCreate
    <2>3. asked'[g] = IF large /\ exists[g] THEN asked[g] + 1 ELSE asked[g]
      BY <1>3, <2>2 DEF TypeOK
    <2>4. QED
      BY <1>4, <1>6, <2>1, <2>3
  <1>9. left' = left /\ backlog' = backlog /\ replaying' = replaying
    BY DEF HandleCreate
  <1>10. Chunks(g)' = {}
    BY <1>3, <1>6 DEF Chunks
  <1>11. ToSet(replaying') = {}
    BY <1>3, <1>9 DEF ToSet
  <1>12. LivesAt(g)'
    BY <1>3, <1>4, <1>6, <1>8, <1>9, <1>11 DEF LivesAt
  <1>13. SyncAt(g)'
    BY <1>3, <1>6, <1>8, <1>9, <1>10 DEF SyncAt, Syncing
  <1>14. QED
    BY <1>12, <1>13

LEMMA LivesHandleDelete ==
    ASSUME TypeOK, Ordered, Lives, Sync, HandleDelete, NEW g, g = guild
    PROVE  LivesAt(g)' /\ SyncAt(g)'
  <1>1. PICK e : e = event
    OBVIOUS
  <1>2. TakeFirst({"GUILD_DELETE"})
    BY DEF HandleDelete
  <1>3. /\ g \in Guilds /\ e.kind = "GUILD_DELETE" /\ e.guild = g /\ exists' = exists
        /\ replaying = <<>> /\ answer' = answer
        /\ Arrived(g) = Arrived(g)' \cup {e} /\ e \in Arrived(g)
        /\ \A f \in Arrived(g)' : f \in Arrived(g)
    BY <1>1, <1>2, FirstTaken, ArrivedTake DEF guild
  <1>4. /\ cache[g].ready /\ ~Syncing(g) /\ \A f \in Arrived(g)' : f.kind # "GUILD_DELETE"
    BY <1>1, <1>2, <1>3, FirstOfLife
  <1>5. LivesAt(g) /\ SyncAt(g)
    BY <1>3 DEF Lives, Sync
  <1>6. /\ backlog[g] = <<>> /\ asked[g] = 0 /\ answer[g] = <<>> /\ Chunks(g) = {} /\ left[g] = 0
    BY <1>4, <1>5 DEF LivesAt, SyncAt
  <1>7. ~cache'[g].there /\ ~cache'[g].ready
    BY <1>3 DEF HandleDelete, TypeOK, Absent
  <1>8. left' = left /\ backlog' = backlog /\ replaying' = replaying /\ asked' = asked
    BY DEF HandleDelete
  <1>9. Chunks(g)' = {}
    BY <1>3, <1>6 DEF Chunks
  <1>10. ToSet(replaying') = {}
    BY <1>3, <1>8 DEF ToSet
  <1>11. \A f \in Arrived(g) : f.kind = "GUILD_CREATE" => f \in Arrived(g)'
    BY <1>3
  <1>12. LivesAt(g)'
    BY <1>3, <1>4, <1>5, <1>6, <1>7, <1>8, <1>10, <1>11 DEF LivesAt
  <1>13. SyncAt(g)'
    BY <1>3, <1>6, <1>7, <1>8, <1>9 DEF SyncAt, Syncing
  <1>14. QED
    BY <1>12, <1>13

(* The chunk that arrives is the first of those due, and ChunksLeft counts   *)
(* the others.                                                               *)
LEMMA ChunkCounted ==
    ASSUME TypeOK, Ordered, Lives, Sync, HandleChunk, NEW e, e = event, NEW g, g = guild
    PROVE  /\ g \in Guilds /\ Syncing(g) /\ asked[g] = 0
           /\ \E n, k, m \in Nat :
                  /\ DueOf(g, n, k, m) /\ k <= m /\ ChunksLeft = n - k
                  /\ \A f \in Chunks(g)' : f.index \in (k + 1)..m
           /\ Chunks(g) = Chunks(g)' \cup {e}
           /\ ChunksLeft = 0 => Chunks(g)' = {} /\ answer[g] = <<>>
  <1>1. TakeFirst({"GUILD_MEMBERS_CHUNK"})
    BY DEF HandleChunk
  <1>2. /\ g \in Guilds /\ e \in Event /\ e.kind = "GUILD_MEMBERS_CHUNK" /\ e.guild = g
        /\ Arrived(g) = Arrived(g)' \cup {e} /\ e \in Arrived(g) /\ event.count = e.count
        /\ \A f \in Arrived(g)' : f \in Arrived(g) /\ e.id < f.id
    BY <1>1, FirstTaken, ArrivedTake DEF guild
  <1>3. Syncing(g) /\ asked[g] = 0
    BY <1>1, <1>2, FirstOfLife
  <1>4. /\ Chunks(g) = Chunks(g)' \cup {e} /\ \A f \in Chunks(g)' : f \in Chunks(g) /\ e.id < f.id
    BY <1>2 DEF Chunks
  <1>5. PICK n, k, m \in Nat : DueOf(g, n, k, m)
    BY <1>2, <1>3 DEF Sync, SyncAt
  <1>6. e.count = n /\ e.index \in k..m /\ k \in 1..n /\ m <= n
    <2>1. e.count = n /\ e.index \in k..m /\ k \in 1..n /\ m = n - Len(answer[g])
      BY <1>4, <1>5 DEF DueOf
    <2>2. Len(answer[g]) \in Nat
      <3>1. answer[g] \in Seq(Chunk)
        BY <1>2, TypeAt
      <3>2. QED
        BY <3>1
    <2>3. QED
      BY <2>1, <2>2
  <1>7. e.index = k
    <2>1. PICK f \in Chunks(g) : f.index = k
      BY <1>5, <1>6 DEF DueOf
    <2>2. f = e \/ e.index < f.index
      BY <1>4, <1>5 DEF DueOf
    <2>3. QED
      BY <1>6, <2>1, <2>2
  <1>8. ChunksLeft = n - k
    <2>1. left[g] = (IF k = 1 THEN 0 ELSE n - k + 1)
      BY <1>5 DEF DueOf
    <2>2. ChunksLeft = (IF left[g] = 0 THEN n ELSE left[g]) - 1
      BY <1>2, <1>6 DEF ChunksLeft
    <2>3. QED
      BY <1>6, <2>1, <2>2
  <1>9. \A f \in Chunks(g)' : f.index \in (k + 1)..m
    <2>1. ASSUME NEW f \in Chunks(g)'
          PROVE  f.index \in k..m /\ k < f.index
      BY <1>4, <1>5, <1>7 DEF DueOf
    <2>2. QED
      BY <2>1
  <1>10. ASSUME ChunksLeft = 0
         PROVE  Chunks(g)' = {} /\ answer[g] = <<>>
    <2>1. n = k /\ m = n
      BY <1>6, <1>7, <1>8, <1>10
    <2>2. Chunks(g)' = {}
      BY <1>9, <2>1
    <2>3. answer[g] \in Seq(Chunk)
      BY <1>2, TypeAt
    <2>4. Len(answer[g]) = 0
      <3>1. m = n - Len(answer[g]) /\ Len(answer[g]) \in Nat
        BY <1>5, <2>3 DEF DueOf
      <3>2. QED
        BY <2>1, <3>1
    <2>5. answer[g] = <<>>
      BY <2>3, <2>4
    <2>6. QED
      BY <2>2, <2>5
  <1>11. k <= m
    BY <1>6
  <1>12. QED
    BY <1>2, <1>3, <1>4, <1>5, <1>8, <1>9, <1>10, <1>11

LEMMA LivesHandleChunk ==
    ASSUME TypeOK, Ordered, Lives, Sync, HandleChunk, NEW g, g = guild
    PROVE  LivesAt(g)' /\ SyncAt(g)'
  <1>1. PICK e : e = event
    OBVIOUS
  <1>2. TakeFirst({"GUILD_MEMBERS_CHUNK"})
    BY DEF HandleChunk
  <1>3. /\ g \in Guilds /\ Syncing(g) /\ asked[g] = 0
        /\ ChunksLeft = 0 => Chunks(g)' = {} /\ answer[g] = <<>>
    BY <1>1, ChunkCounted
  <1>4. /\ event.kind = "GUILD_MEMBERS_CHUNK" /\ exists' = exists
        /\ replaying = <<>> /\ answer' = answer
    BY <1>2, FirstTaken
  <1>5. LivesAt(g) /\ SyncAt(g)
    BY <1>3 DEF Lives, Sync
  <1>6. /\ cache'[g].there = cache[g].there /\ cache'[g].ready = (cache[g].ready \/ ChunksLeft = 0)
    BY <1>3, TypeAt DEF HandleChunk, TypeOK, Entry
  <1>7. left'[g] = ChunksLeft /\ asked' = asked
    BY <1>3 DEF HandleChunk, TypeOK
  <1>8. CASE ChunksLeft = 0
    <2>1. backlog'[g] = <<>> /\ cache'[g].ready /\ cache'[g].there
      BY <1>3, <1>6, <1>8 DEF HandleChunk, TypeOK, Syncing
    <2>2. \A f \in Arrived(g)' : f \in Arrived(g) /\ f.kind \notin {"GUILD_CREATE", "GUILD_DELETE"}
      BY <1>2, <1>3, <1>4, <1>1, FirstOfLife, ArrivedTake
    <2>3. exists[g]
      <3>1. e \in Arrived(g)
        BY <1>1, <1>2, FirstTaken DEF Arrived, guild
      <3>2. \A f \in Arrived(g) : f.kind # "GUILD_DELETE"
        BY <1>1, <1>2, <1>3, <1>4, FirstOfLife
      <3>3. QED
        BY <1>3, <1>5, <3>2 DEF LivesAt, Syncing
    <2>4. LivesAt(g)'
      BY <1>4, <2>1, <2>2, <2>3 DEF LivesAt
    <2>5. SyncAt(g)'
      BY <1>3, <1>4, <1>7, <1>8, <2>1 DEF SyncAt, Syncing
    <2>6. QED
      BY <2>4, <2>5
  <1>9. CASE ChunksLeft # 0
    <2>1. backlog' = backlog /\ replaying' = replaying
      BY <1>9 DEF HandleChunk
    <2>2. cache'[g].there = cache[g].there /\ cache'[g].ready = cache[g].ready
      <3>1. cache[g].ready \in BOOLEAN
        BY <1>3, TypeAt DEF Entry
      <3>2. QED
        BY <1>6, <1>9, <3>1
    <2>3. LivesAt(g)'
      BY <1>2, <1>3, <1>4, <1>5, <2>1, <2>2, LivesTaken
    <2>4. PICK n, k, m \in Nat :
              /\ DueOf(g, n, k, m) /\ k <= m /\ ChunksLeft = n - k
              /\ \A f \in Chunks(g)' : f.index \in (k + 1)..m
      BY <1>1, ChunkCounted
    <2>5. Chunks(g) = Chunks(g)' \cup {e} /\ \A f \in Chunks(g)' : f \in Chunks(g)
      BY <1>1, ChunkCounted
    <2>6. DueOf(g, n, k + 1, m)'
      <3>1. /\ k + 1 \in 1..n /\ k + 1 <= m + 1 /\ m = n - Len(answer'[g])
            /\ left'[g] = (IF k + 1 = 1 THEN 0 ELSE n - (k + 1) + 1)
        <4>1. left'[g] = n - k /\ n - k # 0
          BY <1>7, <1>9, <2>4
        <4>2. k \in 1..n /\ k <= m /\ m = n - Len(answer[g])
          BY <2>4 DEF DueOf
        <4>3. m = n - Len(answer'[g])
          BY <1>4, <4>2
        <4>4. n \in Nat /\ k \in Nat /\ m \in Nat /\ k < n /\ 1 <= k /\ k <= m
          BY <2>4, <4>1, <4>2
        <4>5. k + 1 \in 1..n
          BY <4>4
        <4>6. k + 1 <= m + 1 /\ k + 1 # 1
          BY <4>4
        <4>7. n - (k + 1) + 1 = n - k
          BY <4>4
        <4>8. QED
          BY <4>1, <4>3, <4>5, <4>6, <4>7
      <3>2. \A i \in DOMAIN answer'[g] : answer'[g][i].count = n /\ answer'[g][i].index = m + i
        BY <1>4, <2>4 DEF DueOf
      <3>3. \A f \in Chunks(g)' : f.count = n /\ f.index \in (k + 1)..m
        BY <2>4, <2>5 DEF DueOf
      <3>4. ASSUME NEW j \in (k + 1)..m
            PROVE  \E f \in Chunks(g)' : f.index = j
        <4>1. j \in k..m /\ j # k
          BY <2>4
        <4>2. PICK f \in Chunks(g) : f.index = j
          BY <2>4, <4>1 DEF DueOf
        <4>3. f # e
          <5>1. PICK f1 \in Chunks(g) : f1.index = k
            <6>1. k \in k..m /\ \A i \in k..m : \E h \in Chunks(g) : h.index = i
              BY <2>4 DEF DueOf
            <6>2. QED
              BY <6>1
          <5>2. ~(f1 \in Chunks(g)')
            BY <2>4, <5>1
          <5>3. f1 = e
            BY <2>5, <5>1, <5>2
          <5>4. QED
            BY <4>1, <4>2, <5>1, <5>3
        <4>4. QED
          BY <2>5, <4>2, <4>3
      <3>5. \A f, h \in Chunks(g)' : f.id < h.id => f.index < h.index
        BY <2>4, <2>5 DEF DueOf
      <3>6. QED
        BY <3>1, <3>2, <3>3, <3>4, <3>5 DEF DueOf
    <2>7. Syncing(g)'
      BY <1>3, <2>2 DEF Syncing
    <2>8. SyncAt(g)'
      BY <1>3, <1>7, <2>4, <2>6, <2>7 DEF SyncAt
    <2>9. QED
      BY <2>3, <2>8
  <1>10. QED
    BY <1>8, <1>9

-----------------------------------------------------------------------------
(* Other guilds are left alone. *)

(* Nothing of g changes. *)
Untouched(g) ==
    /\ exists'[g] = exists[g] /\ members'[g] = members[g] /\ channels'[g] = channels[g]
    /\ roles'[g] = roles[g] /\ name'[g] = name[g] /\ emojis'[g] = emojis[g]
    /\ asked'[g] = asked[g] /\ answer'[g] = answer[g] /\ cache'[g] = cache[g]
    /\ left'[g] = left[g] /\ backlog'[g] = backlog[g] /\ posted'[g] = posted[g]
    /\ seen'[g] = seen[g] /\ complete'[g] = complete[g]
    /\ Arrived(g)' = Arrived(g) /\ Pending(g)' = Pending(g)
    /\ \A e \in ToSet(replaying') : e.guild = g => e \in ToSet(replaying)

(* A step of the server about g, a dispatch of g and an event replayed to g  *)
(* leave every other guild alone.                                            *)
LEMMA ServerElsewhere ==
    ASSUME TypeOK, Ordered, NEW g \in Guilds, NEW h \in Guilds, g # h,
           \/ \E ms \in SUBSET Members, cs \in SUBSET Channels : Create(g, ms, cs)
           \/ Vanish(g) \/ Answer(g) \/ SendChunk(g)
           \/ \E e \in Event : Tells(g, e)
    PROVE  Untouched(h)
  <1>1. /\ exists'[h] = exists[h] /\ members'[h] = members[h] /\ channels'[h] = channels[h]
        /\ roles'[h] = roles[h] /\ name'[h] = name[h] /\ emojis'[h] = emojis[h]
        /\ asked'[h] = asked[h] /\ answer'[h] = answer[h] /\ posted'[h] = posted[h]
        /\ UNCHANGED shard
    <2>1. CASE \E ms \in SUBSET Members, cs \in SUBSET Channels : Create(g, ms, cs)
      BY <2>1 DEF Create, TypeOK
    <2>2. CASE Vanish(g)
      BY <2>2 DEF Vanish, TypeOK
    <2>3. CASE Answer(g)
      BY <2>3 DEF Answer, TypeOK
    <2>4. CASE SendChunk(g)
      BY <2>4 DEF SendChunk, TypeOK
    <2>5. ASSUME NEW e \in Event, Tells(g, e)
          PROVE  <1>1!:
      <3>1. members'[h] = members[h] /\ channels'[h] = channels[h] /\ roles'[h] = roles[h]
        BY <2>5 DEF Tells, TypeOK, MemberEvents, RoleEvents
      <3>2. name'[h] = name[h] /\ emojis'[h] = emojis[h] /\ posted'[h] = posted[h]
        BY <2>5 DEF Tells, TypeOK
      <3>3. exists' = exists /\ asked' = asked /\ answer' = answer /\ UNCHANGED shard
        BY <2>5 DEF Tells
      <3>4. QED
        BY <3>1, <3>2, <3>3
    <2>6. QED
      BY <2>1, <2>2, <2>3, <2>4, <2>5
  <1>2. Arrived(h)' = Arrived(h) /\ Pending(h)' = Pending(h)
    <2>1. CASE Answer(g)
      BY <2>1 DEF Answer, Arrived, Pending, shard
    <2>2. CASE ~Answer(g)
      <3>1. PICK e \in Event : Dispatch(e) /\ e.guild = g
        BY <2>2, SentEvent
      <3>2. QED
        BY <1>1, <3>1, ArrivedSend, PendingSend DEF shard
    <2>3. QED
      BY <2>1, <2>2
  <1>3. QED
    BY <1>1, <1>2 DEF Untouched, shard

LEMMA TakeElsewhere ==
    ASSUME TypeOK, Ordered, NEW K, TakeFirst(K), NEW h \in Guilds, h # guild,
           asked'[h] = asked[h], cache'[h] = cache[h], left'[h] = left[h],
           backlog'[h] = backlog[h], seen'[h] = seen[h], complete'[h] = complete[h],
           \A e \in ToSet(replaying') : e.guild # h
    PROVE  Untouched(h)
  <1>1. PICK e : e = event
    OBVIOUS
  <1>2. /\ e.guild # h /\ ToSet(inbox) = {e} \cup ToSet(inbox') /\ replaying = <<>>
        /\ exists' = exists /\ members' = members /\ channels' = channels /\ roles' = roles
        /\ name' = name /\ emojis' = emojis /\ answer' = answer /\ posted' = posted
    BY <1>1, FirstTaken DEF guild
  <1>3. ToSet(replaying) = {}
    BY <1>2 DEF ToSet
  <1>4. Arrived(h)' = Arrived(h) /\ Pending(h)' = Pending(h)
    BY <1>2, <1>3 DEF Arrived, Pending
  <1>5. QED
    BY <1>2, <1>4 DEF Untouched

LEMMA ShardElsewhere ==
    ASSUME TypeOK, Ordered, ShardStep, ~Replay, NEW h \in Guilds, h # guild
    PROVE  Untouched(h)
  <1>1. ASSUME NEW K, TakeFirst(K), replaying' = replaying
        PROVE  /\ \A e \in ToSet(replaying') : e.guild # h
               /\ guild \in Guilds
    <2>1. ToSet(replaying') = {}
      BY <1>1, FirstTaken DEF ToSet
    <2>2. QED
      BY <1>1, <2>1, FirstTaken
  <1>2. CASE HandleCreate
    <2>1. TakeFirst({"GUILD_CREATE"}) /\ replaying' = replaying
      BY <1>2 DEF HandleCreate
    <2>2. /\ asked'[h] = asked[h] /\ cache'[h] = cache[h] /\ complete'[h] = complete[h]
          /\ left' = left /\ backlog' = backlog /\ seen' = seen
      BY <1>1, <1>2, <2>1 DEF HandleCreate, TypeOK
    <2>3. QED
      BY <1>1, <2>1, <2>2, TakeElsewhere
  <1>3. CASE HandleDelete
    <2>1. TakeFirst({"GUILD_DELETE"}) /\ replaying' = replaying
      BY <1>3 DEF HandleDelete
    <2>2. /\ cache'[h] = cache[h] /\ complete' = complete /\ asked' = asked
          /\ left' = left /\ backlog' = backlog /\ seen' = seen
      BY <1>1, <1>3, <2>1 DEF HandleDelete, TypeOK
    <2>3. QED
      BY <1>1, <2>1, <2>2, TakeElsewhere
  <1>4. CASE HandleChunk
    <2>1. TakeFirst({"GUILD_MEMBERS_CHUNK"})
      BY <1>4 DEF HandleChunk
    <2>2. guild \in Guilds /\ ToSet(replaying) = {}
      BY <2>1, FirstTaken DEF ToSet
    <2>3. /\ cache'[h] = cache[h] /\ complete' = complete /\ asked' = asked
          /\ left'[h] = left[h] /\ backlog'[h] = backlog[h] /\ seen' = seen
      BY <1>4, <2>2 DEF HandleChunk, TypeOK
    <2>4. \A e \in ToSet(replaying') : e.guild # h
      <3>1. replaying' = replaying \/ replaying' = backlog[guild]
        BY <1>4 DEF HandleChunk, Replayed
      <3>2. QED
        BY <2>2, <3>1 DEF Ordered
    <2>5. QED
      BY <2>1, <2>3, <2>4, TakeElsewhere
  <1>5. CASE HandleChunkUnknown
    <2>1. TakeFirst({"GUILD_MEMBERS_CHUNK"}) /\ replaying' = replaying
      BY <1>5 DEF HandleChunkUnknown
    <2>2. QED
      BY <1>1, <1>5, <2>1, TakeElsewhere DEF HandleChunkUnknown
  <1>6. CASE HandleEvent
    <2>1. TakeFirst(BackedUp) /\ replaying' = replaying
      BY <1>6 DEF HandleEvent
    <2>2. complete'[h] = complete[h]
      BY <1>1, <1>6, <2>1 DEF HandleEvent, TypeOK
    <2>3. cache'[h] = cache[h] /\ seen'[h] = seen[h]
      BY <1>1, <1>6, <2>1 DEF HandleEvent, Store, TypeOK
    <2>4. backlog'[h] = backlog[h]
      BY <1>1, <1>6, <2>1 DEF HandleEvent, TypeOK
    <2>5. asked' = asked /\ left' = left
      BY <1>6 DEF HandleEvent
    <2>6. QED
      BY <1>1, <2>1, <2>2, <2>3, <2>4, <2>5, TakeElsewhere
  <1>7. CASE HandleUpdate
    <2>1. TakeFirst({"CHANNEL_UPDATE"}) /\ replaying' = replaying
      BY <1>7 DEF HandleUpdate
    <2>2. QED
      BY <1>1, <1>7, <2>1, TakeElsewhere DEF HandleUpdate
  <1>8. CASE HandleEmojis
    <2>1. TakeFirst({"GUILD_EMOJI_UPDATE"}) /\ replaying' = replaying
      BY <1>8 DEF HandleEmojis
    <2>2. cache'[h] = cache[h]
      BY <1>1, <1>8, <2>1 DEF HandleEmojis, TypeOK
    <2>3. QED
      BY <1>1, <1>8, <2>1, <2>2, TakeElsewhere DEF HandleEmojis
  <1>9. CASE HandleTyping
    <2>1. TakeFirst(ChannelFirst) /\ replaying' = replaying
      BY <1>9 DEF HandleTyping
    <2>2. backlog'[h] = backlog[h]
      BY <1>1, <1>9, <2>1 DEF HandleTyping, TypeOK
    <2>3. QED
      BY <1>1, <1>9, <2>1, <2>2, TakeElsewhere DEF HandleTyping
  <1>10. QED
    BY <1>2, <1>3, <1>4, <1>5, <1>6, <1>7, <1>8, <1>9 DEF ShardStep

LEMMA ReplayElsewhere ==
    ASSUME TypeOK, Ordered, Replay, NEW e, e = Head(replaying), NEW h \in Guilds, h # e.guild
    PROVE  Untouched(h)
  <1>1. Pending(h)' = Pending(h) /\ e.guild \in Guilds
    BY PendingReplay
  <1>2. Arrived(h)' = Arrived(h) /\ UNCHANGED server
    BY DEF Replay, server, Arrived
  <1>3. cache'[h] = cache[h] /\ seen'[h] = seen[h]
    BY <1>1 DEF Replay, Store, TypeOK
  <1>4. left' = left /\ backlog' = backlog /\ complete' = complete
    BY DEF Replay
  <1>5. \A f \in ToSet(replaying') : f \in ToSet(replaying)
    BY Taken DEF Replay, TypeOK
  <1>6. QED
    BY <1>1, <1>2, <1>3, <1>4, <1>5 DEF Untouched, server

(* A guild that nothing happens to keeps its life and its chunks. *)
LEMMA LivesUntouched ==
    ASSUME NEW g \in Guilds, LivesAt(g), SyncAt(g), Untouched(g)
    PROVE  LivesAt(g)' /\ SyncAt(g)'
  <1>1. Syncing(g)' <=> Syncing(g)
    BY DEF Syncing, Untouched
  <1>2. Chunks(g)' = Chunks(g)
    BY DEF Chunks, Untouched
  <1>3. LivesAt(g)'
    BY LivesKept DEF Untouched, LivesAt
  <1>4. SyncAt(g)'
    BY <1>1, <1>2, SyncKept DEF Untouched
  <1>5. QED
    BY <1>3, <1>4

-----------------------------------------------------------------------------
(* The events of a guild, and every step. *)

(* What the entry of g is after an event of it was handled. *)
LEMMA StoreEffect ==
    ASSUME TypeOK, NEW g \in Guilds, NEW e \in Held, Store(g, Apply(State(g), e))
    PROVE  /\ cache'[g].there = cache[g].there /\ cache'[g].ready = cache[g].ready
           /\ cache'[g].emojis = cache[g].emojis
           /\ e.kind = "GUILD_MEMBER_ADD" => cache'[g].members = cache[g].members \cup {e.arg}
           /\ e.kind = "GUILD_MEMBER_REMOVE" => cache'[g].members = cache[g].members \ {e.arg}
           /\ e.kind \notin MemberEvents => cache'[g].members = cache[g].members
           /\ e.kind = "CHANNEL_CREATE" => cache'[g].channels = cache[g].channels \cup {e.arg}
           /\ e.kind = "CHANNEL_DELETE" => cache'[g].channels = cache[g].channels \ {e.arg}
           /\ e.kind \notin {"CHANNEL_CREATE", "CHANNEL_DELETE"}
              => cache'[g].channels = cache[g].channels
           /\ e.kind \in {"GUILD_ROLE_CREATE", "GUILD_ROLE_UPDATE"}
              => cache'[g].roles = cache[g].roles \cup {e.arg}
           /\ e.kind = "GUILD_ROLE_DELETE" => cache'[g].roles = cache[g].roles \ {e.arg}
           /\ e.kind \notin RoleEvents => cache'[g].roles = cache[g].roles
           /\ e.kind = "GUILD_UPDATE" => cache'[g].name = e.arg
           /\ e.kind # "GUILD_UPDATE" => cache'[g].name = cache[g].name
           /\ e.kind \in MessageEvents /\ e.arg \in cache[g].channels
              => seen'[g] = Append(seen[g], e.id)
           /\ ~(e.kind \in MessageEvents /\ e.arg \in cache[g].channels) => seen'[g] = seen[g]
  <1>1. PICK st : st = Apply(State(g), e)
    OBVIOUS
  <1>2. e \in Event /\ e.kind \in BackedUp \cup ChannelFirst
    BY DEF Held
  <1>3. cache'[g] = st.entry /\ seen'[g] = st.seen
    BY <1>1 DEF Store, TypeOK
  <1>4. cache[g] \in Entry /\ seen[g] \in Seq(Nat)
    BY TypeAt
  <1>5. QED
    BY <1>1, <1>2, <1>3, <1>4, ApplyEffect

(* What the next event to be replayed does. *)
LEMMA ReplayEffect ==
    ASSUME TypeOK, Replay, NEW e, e = Head(replaying), NEW g, g = e.guild
    PROVE  /\ e \in Held /\ g \in Guilds /\ Store(g, Apply(State(g), e))
           /\ UNCHANGED server /\ left' = left /\ backlog' = backlog /\ complete' = complete
           /\ Arrived(g)' = Arrived(g) /\ Chunks(g)' = Chunks(g)
           /\ \A f \in ToSet(replaying') : f \in ToSet(replaying)
  <1>1. e \in Held /\ e.guild \in Guilds
    BY NextReplayed
  <1>2. \A f \in ToSet(replaying') : f \in ToSet(replaying)
    BY Taken DEF Replay, TypeOK
  <1>3. Arrived(g)' = Arrived(g) /\ Chunks(g)' = Chunks(g)
    BY DEF Replay, server, Arrived, Chunks
  <1>4. QED
    BY <1>1, <1>2, <1>3 DEF Replay

(* The three ways in which HandleEvent ends: with an orderly server the      *)
(* guild is never unknown.                                                   *)
LEMMA EventEnds ==
    ASSUME TypeOK, Ordered, Lives, Sync, HandleEvent, NEW e, e = event, NEW g, g = guild
    PROVE  /\ TakeFirst(BackedUp) /\ e \in Held /\ g \in Guilds /\ e.guild = g
           /\ replaying' = replaying /\ replaying = <<>> /\ left' = left /\ asked' = asked
           /\ \/ /\ Syncing(g) /\ backlog' = [backlog EXCEPT ![g] = Append(@, e)]
                 /\ cache' = cache /\ seen' = seen
              \/ cache[g].ready /\ backlog' = backlog /\ Store(g, Apply(State(g), e))
  <1>1. TakeFirst(BackedUp)
    BY DEF HandleEvent
  <1>2. e \in Held /\ g \in Guilds /\ e.guild = g /\ replaying = <<>>
    BY <1>1, FirstTaken DEF Held, guild
  <1>3. e.kind \notin {"GUILD_CREATE", "GUILD_DELETE"}
    BY <1>1, FirstTaken DEF BackedUp, MessageEvents
  <1>4. cache[g].there
    BY <1>1, <1>3, FirstOfLife
  <1>5. QED
    BY <1>1, <1>2, <1>4 DEF HandleEvent, Syncing

(* An event of g is put aside or takes effect. *)
LEMMA LivesHandleEvent ==
    ASSUME TypeOK, Ordered, Lives, Sync, HandleEvent, NEW g, g = guild
    PROVE  LivesAt(g)' /\ SyncAt(g)'
  <1>1. PICK e : e = event
    OBVIOUS
  <1>2. /\ TakeFirst(BackedUp) /\ e \in Held /\ g \in Guilds /\ e.guild = g
        /\ replaying' = replaying /\ replaying = <<>> /\ left' = left /\ asked' = asked
        /\ \/ /\ Syncing(g) /\ backlog' = [backlog EXCEPT ![g] = Append(@, e)]
              /\ cache' = cache /\ seen' = seen
           \/ cache[g].ready /\ backlog' = backlog /\ Store(g, Apply(State(g), e))
    BY <1>1, EventEnds
  <1>3. LivesAt(g) /\ SyncAt(g)
    BY <1>2 DEF Lives, Sync
  <1>4. cache'[g].there = cache[g].there /\ cache'[g].ready = cache[g].ready
    BY <1>2, StoreEffect
  <1>5. backlog'[g] # <<>> => Syncing(g)
    BY <1>2, <1>3 DEF LivesAt
  <1>6. event.kind \notin {"GUILD_CREATE", "GUILD_DELETE", "GUILD_MEMBERS_CHUNK"}
    BY <1>2, FirstTaken DEF BackedUp, MessageEvents
  <1>7. LivesAt(g)'
    BY <1>2, <1>3, <1>4, <1>5, <1>6, LivesTaken
  <1>8. Chunks(g)' = Chunks(g)
    BY <1>2, <1>6, ArrivedTake DEF Chunks
  <1>9. answer' = answer /\ (Syncing(g)' <=> Syncing(g))
    BY <1>2, <1>4, FirstTaken DEF Syncing
  <1>10. QED
    BY <1>2, <1>3, <1>7, <1>8, <1>9, SyncKept

(* An event that leaves the life of its guild alone. *)
LEMMA LivesAside ==
    ASSUME TypeOK, Ordered, Lives, Sync, NEW K, TakeFirst(K), NEW g, g = guild,
           event.kind \notin {"GUILD_CREATE", "GUILD_DELETE", "GUILD_MEMBERS_CHUNK"},
           cache'[g].there = cache[g].there, cache'[g].ready = cache[g].ready,
           backlog'[g] # <<>> => Syncing(g),
           replaying' = replaying, asked' = asked, left' = left
    PROVE  LivesAt(g)' /\ SyncAt(g)'
  <1>1. g \in Guilds /\ answer' = answer
    BY FirstTaken
  <1>2. LivesAt(g) /\ SyncAt(g)
    BY <1>1 DEF Lives, Sync
  <1>3. LivesAt(g)'
    BY <1>1, <1>2, LivesTaken
  <1>4. Chunks(g)' = Chunks(g)
    BY <1>1, ArrivedTake DEF Chunks
  <1>5. Syncing(g)' <=> Syncing(g)
    BY DEF Syncing
  <1>6. QED
    BY <1>1, <1>2, <1>3, <1>4, <1>5, SyncKept

(* Every step of an orderly server and of the shard keeps both. *)
LEMMA LivesSyncStep ==
    Orderly /\ TypeOK /\ Ordered /\ Lives /\ Sync /\ [Next]_vars => Lives' /\ Sync'
  <1> SUFFICES ASSUME Orderly, TypeOK, Ordered, Lives, Sync, [Next]_vars
               PROVE  \A h \in Guilds : LivesAt(h)' /\ SyncAt(h)'
    BY DEF Lives, Sync
  <1>0. \A h \in Guilds : LivesAt(h) /\ SyncAt(h)
    BY DEF Lives, Sync
  <1>1. CASE ServerStep
    <2>1. PICK g \in Guilds :
               \/ \E ms \in SUBSET Members, cs \in SUBSET Channels : Create(g, ms, cs)
               \/ Vanish(g) \/ Answer(g) \/ SendChunk(g)
               \/ \E e \in Event : Tells(g, e)
      BY <1>1, ServerCases
    <2>2. LivesAt(g)' /\ SyncAt(g)'
      BY <1>0, <2>1, LivesCreate, LivesVanish, LivesAnswer, LivesSendChunk, LivesTells
    <2>3. \A h \in Guilds : h # g => LivesAt(h)' /\ SyncAt(h)'
      BY <1>0, <2>1, ServerElsewhere, LivesUntouched
    <2>4. QED
      BY <2>2, <2>3
  <1>2. CASE Replay
    <2>1. PICK e, g : e = Head(replaying) /\ g = e.guild
      OBVIOUS
    <2>2. /\ e \in Held /\ g \in Guilds /\ Store(g, Apply(State(g), e))
          /\ UNCHANGED server /\ left' = left /\ backlog' = backlog
          /\ Arrived(g)' = Arrived(g) /\ Chunks(g)' = Chunks(g)
          /\ \A f \in ToSet(replaying') : f \in ToSet(replaying)
      BY <1>2, <2>1, ReplayEffect
    <2>3. cache'[g].there = cache[g].there /\ cache'[g].ready = cache[g].ready
      BY <2>2, StoreEffect
    <2>4. LivesAt(g)'
      BY <1>0, <2>2, <2>3, LivesKept DEF server, LivesAt
    <2>5. SyncAt(g)'
      BY <1>0, <2>2, <2>3, SyncKept DEF server, Syncing
    <2>6. \A h \in Guilds : h # g => LivesAt(h)' /\ SyncAt(h)'
      BY <1>0, <1>2, <2>1, ReplayElsewhere, LivesUntouched
    <2>7. QED
      BY <2>4, <2>5, <2>6
  <1>3. CASE ShardStep /\ ~Replay
    <2>1. PICK g : g = guild
      OBVIOUS
    <2>2. \A h \in Guilds : h # g => LivesAt(h)' /\ SyncAt(h)'
      BY <1>0, <1>3, <2>1, ShardElsewhere, LivesUntouched
    <2>3. CASE HandleCreate
      BY <2>1, <2>2, <2>3, LivesHandleCreate
    <2>4. CASE HandleDelete
      BY <2>1, <2>2, <2>4, LivesHandleDelete
    <2>5. CASE HandleChunk
      BY <2>1, <2>2, <2>5, LivesHandleChunk
    <2>6. CASE HandleChunkUnknown
      <3>1. TakeFirst({"GUILD_MEMBERS_CHUNK"}) /\ ~cache[g].there
        BY <2>1, <2>6 DEF HandleChunkUnknown
      <3>2. event.kind = "GUILD_MEMBERS_CHUNK"
        BY <3>1, FirstTaken
      <3>3. cache[g].there
        BY <2>1, <3>1, <3>2, FirstOfLife
      <3>4. QED
        BY <3>1, <3>3
    <2>7. CASE HandleEvent
      BY <2>1, <2>2, <2>7, LivesHandleEvent
    <2>8. CASE HandleUpdate
      <3>1. TakeFirst({"CHANNEL_UPDATE"}) /\ event.kind = "CHANNEL_UPDATE" /\ g \in Guilds
        BY <2>1, <2>8, FirstTaken DEF HandleUpdate
      <3>2. LivesAt(g)' /\ SyncAt(g)'
        BY <1>0, <2>1, <2>8, <3>1, LivesAside DEF HandleUpdate, LivesAt
      <3>3. QED
        BY <2>2, <3>2
    <2>9. CASE HandleEmojis
      <3>1. /\ TakeFirst({"GUILD_EMOJI_UPDATE"}) /\ event.kind = "GUILD_EMOJI_UPDATE"
            /\ g \in Guilds /\ cache[g] \in Entry
        BY <2>1, <2>9, FirstTaken, TypeAt DEF HandleEmojis
      <3>2. cache'[g].there = cache[g].there /\ cache'[g].ready = cache[g].ready
        BY <2>1, <2>9, <3>1 DEF HandleEmojis, TypeOK, Entry
      <3>3. LivesAt(g)' /\ SyncAt(g)'
        BY <1>0, <2>1, <2>9, <3>1, <3>2, LivesAside DEF HandleEmojis, LivesAt
      <3>4. QED
        BY <2>2, <3>3
    <2>10. CASE HandleTyping
      <3>1. TakeFirst(ChannelFirst) /\ event.kind \in ChannelFirst /\ g \in Guilds
        BY <2>1, <2>10, FirstTaken DEF HandleTyping
      <3>2. backlog'[g] # <<>> => Syncing(g)
        BY <1>0, <2>1, <2>10, <3>1 DEF HandleTyping, TypeOK, LivesAt, Syncing
      <3>3. event.kind \notin {"GUILD_CREATE", "GUILD_DELETE", "GUILD_MEMBERS_CHUNK"}
        BY <3>1 DEF ChannelFirst
      <3>4. LivesAt(g)' /\ SyncAt(g)'
        BY <2>1, <2>10, <3>1, <3>2, <3>3, LivesAside DEF HandleTyping
      <3>5. QED
        BY <2>2, <3>4
    <2>11. QED
      BY <1>3, <2>3, <2>4, <2>5, <2>6, <2>7, <2>8, <2>9, <2>10 DEF ShardStep
  <1>4. CASE UNCHANGED vars
    <2>1. \A h \in Guilds : Untouched(h)
      BY <1>4 DEF vars, server, shard, Untouched, Arrived, Pending
    <2>2. QED
      BY <1>0, <2>1, LivesUntouched
  <1>5. QED
    BY <1>1, <1>2, <1>3, <1>4 DEF Next, ShardStep

-----------------------------------------------------------------------------
(* The cache is behind the server by what is pending. *)

(* The members are asked for before any of them is cached. *)
Fresh == \A g \in Guilds : asked[g] > 0 => cache[g].members = {}

(* The shard has, or is being sent, the member m of g. *)
Told(g, m) ==
    IF asked[g] > 0
    THEN m \in members[g]
    ELSE \/ m \in cache[g].members
         \/ \E e \in Chunks(g) : m \in e.members
         \/ \E i \in DOMAIN answer[g] : m \in answer[g][i].members

(* What the cache is compared in: whether x is a member, a channel, a role,  *)
(* the name or the emojis of a guild.                                        *)
Parts == {"member", "channel", "role", "name", "emojis"}
Things == Members \cup Channels \cup Roles \cup 0..1

Has(g, p, x) ==
    /\ exists[g]
    /\ \/ p = "member" /\ x \in members[g]
       \/ p = "channel" /\ x \in channels[g]
       \/ p = "role" /\ x \in roles[g]
       \/ p = "name" /\ x = name[g]
       \/ p = "emojis" /\ x = emojis[g]

Cached(g, p, x) ==
    /\ cache[g].there
    /\ \/ p = "member" /\ Told(g, x)
       \/ p = "channel" /\ x \in cache[g].channels
       \/ p = "role" /\ x \in cache[g].roles
       \/ p = "name" /\ x = cache[g].name
       \/ p = "emojis" /\ x = cache[g].emojis

(* Event e decides about x, and what it decides. *)
Decides(e, p, x) ==
    \/ e.kind \in {"GUILD_CREATE", "GUILD_DELETE"}
    \/ p = "member" /\ e.kind \in MemberEvents /\ e.arg = x
    \/ p = "channel" /\ e.kind \in {"CHANNEL_CREATE", "CHANNEL_DELETE"} /\ e.arg = x
    \/ p = "role" /\ e.kind \in RoleEvents /\ e.arg = x
    \/ p = "name" /\ e.kind = "GUILD_UPDATE"
    \/ p = "emojis" /\ e.kind = "GUILD_EMOJI_UPDATE"

Puts(e, p, x) ==
    \/ e.kind = "GUILD_CREATE" /\ \/ p = "member" /\ x \in e.members
                                  \/ p = "channel" /\ x \in e.channels
                                  \/ p = "role" /\ x \in e.roles
                                  \/ p = "name" /\ x = e.name
                                  \/ p = "emojis" /\ x = e.emojis
    \/ e.kind \in {"GUILD_MEMBER_ADD", "CHANNEL_CREATE", "GUILD_ROLE_CREATE", "GUILD_ROLE_UPDATE"}
    \/ e.kind \in {"GUILD_UPDATE", "GUILD_EMOJI_UPDATE"} /\ e.arg = x

(* The server has what the last pending event about x says, and without one  *)
(* what is cached.                                                           *)
FollowsIn(g, p, x) ==
    /\ (\A e \in Pending(g) : ~Decides(e, p, x)) => (Has(g, p, x) <=> Cached(g, p, x))
    /\ \A e \in Pending(g) :
        Decides(e, p, x) /\ (\A f \in Pending(g) : Decides(f, p, x) => f.id <= e.id)
        => (Has(g, p, x) <=> Puts(e, p, x))

FollowsAt(g) == \A p \in Parts, x \in Things : FollowsIn(g, p, x)

Follows == \A g \in Guilds : FollowsAt(g)

(* Nothing happens to x; an event about it is sent; one takes effect. *)
LEMMA FollowsKept ==
    ASSUME NEW g, NEW p, NEW x, FollowsIn(g, p, x), Pending(g)' = Pending(g),
           Has(g, p, x)' <=> Has(g, p, x), Cached(g, p, x)' <=> Cached(g, p, x)
    PROVE  FollowsIn(g, p, x)'
  <1>1. \A e : Decides(e, p, x)' <=> Decides(e, p, x)
    BY DEF Decides
  <1>2. \A e : Puts(e, p, x)' <=> Puts(e, p, x)
    BY DEF Puts
  <1>3. QED
    BY <1>1, <1>2 DEF FollowsIn

LEMMA FollowsSend ==
    ASSUME TypeOK, Ordered, NEW g \in Guilds, NEW p, NEW x, FollowsIn(g, p, x),
           NEW e \in Event, e.id = sent + 1, Pending(g)' = Pending(g) \cup {e},
           Decides(e, p, x) => (Has(g, p, x)' <=> Puts(e, p, x)),
           ~Decides(e, p, x) => /\ Has(g, p, x)' <=> Has(g, p, x)
                                /\ Cached(g, p, x)' <=> Cached(g, p, x)
    PROVE  FollowsIn(g, p, x)'
  <1>1. \A f : Decides(f, p, x)' <=> Decides(f, p, x)
    BY DEF Decides
  <1>2. \A f : Puts(f, p, x)' <=> Puts(f, p, x)
    BY DEF Puts
  <1>3. \A f \in Pending(g) : ~(e.id <= f.id) /\ f.id <= e.id
    <2>1. sent \in Nat
      BY DEF TypeOK
    <2>2. QED
      BY <2>1, PendingEvents
  <1>4. CASE Decides(e, p, x)
    BY <1>1, <1>2, <1>3, <1>4 DEF FollowsIn
  <1>5. CASE ~Decides(e, p, x)
    BY <1>1, <1>2, <1>3, <1>5 DEF FollowsIn
  <1>6. QED
    BY <1>4, <1>5

LEMMA FollowsTake ==
    ASSUME TypeOK, Ordered, NEW g \in Guilds, NEW p, NEW x, FollowsIn(g, p, x),
           NEW e, Pending(g) = Pending(g)' \cup {e}, Has(g, p, x)' <=> Has(g, p, x),
           Decides(e, p, x) => /\ \A f \in Pending(g)' : Decides(f, p, x) => e.id < f.id
                               /\ \/ Cached(g, p, x)' <=> Puts(e, p, x)
                                  \/ Cached(g, p, x)' <=> Has(g, p, x)',
           ~Decides(e, p, x) => (Cached(g, p, x)' <=> Cached(g, p, x))
    PROVE  FollowsIn(g, p, x)'
  <1>1. \A f : Decides(f, p, x)' <=> Decides(f, p, x)
    BY DEF Decides
  <1>2. \A f : Puts(f, p, x)' <=> Puts(f, p, x)
    BY DEF Puts
  <1>3. \A f \in Pending(g) : f.id \in Nat
    BY PendingEvents
  <1>4. CASE Decides(e, p, x)
    <2>1. (\A f \in Pending(g)' : ~Decides(f, p, x)) => (Has(g, p, x)' <=> Cached(g, p, x)')
      <3>1. SUFFICES ASSUME \A f \in Pending(g)' : ~Decides(f, p, x)
                     PROVE  Has(g, p, x)' <=> Cached(g, p, x)'
        OBVIOUS
      <3>2. \A f \in Pending(g) : Decides(f, p, x) => f.id <= e.id
        BY <1>3, <3>1
      <3>3. Has(g, p, x) <=> Puts(e, p, x)
        BY <1>4, <3>2 DEF FollowsIn
      <3>4. QED
        BY <1>4, <3>3
    <2>2. ASSUME NEW f \in Pending(g)', Decides(f, p, x),
                 \A h \in Pending(g)' : Decides(h, p, x) => h.id <= f.id
          PROVE  Has(g, p, x)' <=> Puts(f, p, x)
      <3>1. e.id <= f.id
        BY <1>3, <1>4, <2>2
      <3>2. \A h \in Pending(g) : Decides(h, p, x) => h.id <= f.id
        BY <2>2, <3>1
      <3>3. QED
        BY <2>2, <3>2 DEF FollowsIn
    <2>3. QED
      BY <1>1, <1>2, <2>1, <2>2 DEF FollowsIn
  <1>5. CASE ~Decides(e, p, x)
    BY <1>1, <1>2, <1>5 DEF FollowsIn
  <1>6. QED
    BY <1>4, <1>5

LEMMA FollowsInit == Init => Follows /\ Fresh
  <1> SUFFICES ASSUME Init, NEW g \in Guilds
               PROVE  FollowsAt(g) /\ ~(asked[g] > 0)
    BY DEF Follows, Fresh
  <1>1. /\ inbox = <<>> /\ replaying = <<>> /\ backlog[g] = <<>> /\ ~exists[g]
        /\ ~cache[g].there /\ asked[g] = 0
    BY DEF Init, Absent
  <1>2. Pending(g) = {}
    BY <1>1 DEF Pending, ToSet
  <1>3. QED
    BY <1>1, <1>2 DEF FollowsAt, FollowsIn, Has, Cached

(* The members are cached only after the request for them was answered. *)
LEMMA FreshStep ==
    Orderly /\ TypeOK /\ Ordered /\ Lives /\ Sync /\ Fresh /\ [Next]_vars => Fresh'
  <1> SUFFICES ASSUME Orderly, TypeOK, Ordered, Lives, Sync, Fresh, [Next]_vars,
                      NEW h \in Guilds
               PROVE  asked'[h] > 0 => cache'[h].members = {}
    BY DEF Fresh
  <1>0. (asked[h] > 0 => cache[h].members = {}) /\ asked[h] \in Nat
    BY TypeAt DEF Fresh
  <1>a. ASSUME NEW g \in Guilds, g = h, cache[g].ready
        PROVE  asked[g] = 0
    BY <1>a DEF Sync, SyncAt, Syncing
  <1>b. Untouched(h) => (asked'[h] > 0 => cache'[h].members = {})
    BY <1>0 DEF Untouched
  <1>1. CASE ServerStep
    <2>1. PICK g \in Guilds :
               \/ \E ms \in SUBSET Members, cs \in SUBSET Channels : Create(g, ms, cs)
               \/ Vanish(g) \/ Answer(g) \/ SendChunk(g)
               \/ \E e \in Event : Tells(g, e)
      BY <1>1, ServerCases
    <2>2. asked' = asked \/ asked'[g] = 0 \/ asked'[g] = asked[g] - 1
      BY <2>1 DEF Create, Vanish, Answer, SendChunk, Tells, TypeOK
    <2>3. cache' = cache
      BY <2>1 DEF Create, Vanish, Answer, SendChunk, Tells, shard
    <2>4. QED
      BY <1>0, <1>b, <2>1, <2>2, <2>3, ServerElsewhere
  <1>2. CASE Replay
    <2>1. PICK e, g : e = Head(replaying) /\ g = e.guild
      OBVIOUS
    <2>2. CASE h # g
      BY <1>2, <1>b, <2>1, <2>2, ReplayElsewhere
    <2>3. CASE h = g
      <3>1. e \in ToSet(replaying) /\ asked' = asked /\ e.guild = h
        BY <1>2, <2>1, <2>3, NextReplayed DEF Replay, server
      <3>2. cache[h].ready
        BY <3>1 DEF Lives, LivesAt
      <3>3. asked[h] = 0
        BY <1>a, <3>2
      <3>4. QED
        BY <3>1, <3>3
    <2>4. QED
      BY <2>2, <2>3
  <1>3. CASE ShardStep /\ ~Replay
    <2>1. PICK g : g = guild
      OBVIOUS
    <2>2. CASE h # g
      BY <1>3, <1>b, <2>1, <2>2, ShardElsewhere
    <2>3. CASE h = g /\ HandleCreate
      <3>1. TakeFirst({"GUILD_CREATE"}) /\ event.kind = "GUILD_CREATE"
        BY <2>3, FirstTaken DEF HandleCreate
      <3>2. ~Syncing(h)
        BY <2>1, <2>3, <3>1, FirstOfLife
      <3>3. asked[h] = 0
        BY <3>2 DEF Sync, SyncAt
      <3>4. CASE Cardinality(event.members) >= Threshold
        BY <2>1, <2>3, <3>4 DEF HandleCreate, TypeOK
      <3>5. CASE ~(Cardinality(event.members) >= Threshold)
        BY <2>1, <2>3, <3>3, <3>5 DEF HandleCreate, TypeOK
      <3>6. QED
        BY <3>4, <3>5
    <2>4. CASE h = g /\ HandleDelete
      BY <2>1, <2>4 DEF HandleDelete, TypeOK, Absent
    <2>5. CASE h = g /\ HandleChunk
      <3>1. PICK e : e = event
        OBVIOUS
      <3>2. asked[h] = 0
        BY <2>1, <2>5, <3>1, ChunkCounted
      <3>3. QED
        BY <2>5, <3>2 DEF HandleChunk
    <2>6. CASE h = g /\ HandleChunkUnknown
      BY <1>0, <2>6 DEF HandleChunkUnknown
    <2>7. CASE h = g /\ HandleEvent
      <3>1. PICK e : e = event
        OBVIOUS
      <3>2. asked' = asked /\ (cache' = cache \/ cache[h].ready)
        BY <2>1, <2>7, <3>1, EventEnds
      <3>3. QED
        BY <1>0, <1>a, <3>2
    <2>8. CASE h = g /\ HandleUpdate
      BY <1>0, <2>8 DEF HandleUpdate
    <2>9. CASE h = g /\ HandleEmojis
      <3>1. cache[h] \in Entry
        BY TypeAt
      <3>2. cache'[h].members = cache[h].members /\ asked' = asked
        BY <2>1, <2>9, <3>1 DEF HandleEmojis, TypeOK, Entry
      <3>3. QED
        BY <1>0, <3>2
    <2>10. CASE h = g /\ HandleTyping
      BY <1>0, <2>10 DEF HandleTyping
    <2>11. QED
      BY <1>3, <2>2, <2>3, <2>4, <2>5, <2>6, <2>7, <2>8, <2>9, <2>10 DEF ShardStep
  <1>4. CASE UNCHANGED vars
    BY <1>0, <1>4 DEF vars, server, shard
  <1>5. QED
    BY <1>1, <1>2, <1>3, <1>4 DEF Next, ShardStep

(* The steps of the server: whatever changes is told by what is sent. *)
LEMMA FollowsUntouched ==
    ASSUME NEW g \in Guilds, FollowsAt(g), Untouched(g)
    PROVE  FollowsAt(g)'
  <1>1. Chunks(g)' = Chunks(g)
    BY DEF Chunks, Untouched
  <1>2. \A x : Told(g, x)' <=> Told(g, x)
    BY <1>1 DEF Told, Untouched
  <1>3. ASSUME NEW p \in Parts, NEW x \in Things
        PROVE  FollowsIn(g, p, x)'
    <2>1. Has(g, p, x)' <=> Has(g, p, x)
      BY DEF Has, Untouched
    <2>2. Cached(g, p, x)' <=> Cached(g, p, x)
      BY <1>2 DEF Cached, Untouched
    <2>3. QED
      BY <2>1, <2>2, FollowsKept DEF FollowsAt, Untouched
  <1>4. QED
    BY <1>3 DEF FollowsAt, Parts, Things

LEMMA FollowsCreate ==
    ASSUME TypeOK, Ordered, NEW g \in Guilds, FollowsAt(g),
           NEW ms \in SUBSET Members, NEW cs \in SUBSET Channels, Create(g, ms, cs)
    PROVE  FollowsAt(g)'
  <1> DEFINE e == [kind |-> "GUILD_CREATE", guild |-> g, id |-> sent + 1, members |-> ms,
                   channels |-> cs, roles |-> roles[g], name |-> name[g], emojis |-> emojis[g]]
  <1>1. e \in Event
    <2>1. sent + 1 \in Nat /\ roles[g] \in SUBSET Roles /\ name[g] \in 0..1 /\ emojis[g] \in 0..1
      BY DEF TypeOK
    <2>2. QED
      BY <2>1 DEF Event
  <1>2. /\ Dispatch(e) /\ e.guild = g /\ e.kind = "GUILD_CREATE" /\ e.id = sent + 1
        /\ e.members = ms /\ e.channels = cs /\ e.roles = roles[g] /\ e.name = name[g]
        /\ e.emojis = emojis[g]
    BY DEF Create
  <1> HIDE DEF e
  <1>3. Pending(g)' = Pending(g) \cup {e}
    BY <1>1, <1>2, PendingSend DEF Create, shard
  <1>4. /\ exists'[g] /\ members'[g] = ms /\ channels'[g] = cs /\ roles' = roles /\ name' = name
        /\ emojis' = emojis
    BY DEF Create, TypeOK
  <1>5. ASSUME NEW p \in Parts, NEW x \in Things
        PROVE  FollowsIn(g, p, x)'
    <2>1. Decides(e, p, x)
      BY <1>2 DEF Decides
    <2>2. Has(g, p, x)' <=> Puts(e, p, x)
      BY <1>2, <1>4 DEF Has, Puts
    <2>3. QED
      BY <1>1, <1>2, <1>3, <2>1, <2>2, FollowsSend DEF FollowsAt
  <1>6. QED
    BY <1>5 DEF FollowsAt, Parts, Things

LEMMA FollowsVanish ==
    ASSUME TypeOK, Ordered, NEW g \in Guilds, FollowsAt(g), Vanish(g)
    PROVE  FollowsAt(g)'
  <1> DEFINE e == [kind |-> "GUILD_DELETE", guild |-> g, id |-> sent + 1]
  <1>1. e \in Event
    BY DEF Event, TypeOK
  <1>2. Dispatch(e) /\ e.guild = g /\ e.kind = "GUILD_DELETE" /\ e.id = sent + 1
    BY <1>1 DEF Vanish
  <1> HIDE DEF e
  <1>3. Pending(g)' = Pending(g) \cup {e}
    BY <1>1, <1>2, PendingSend DEF Vanish, shard
  <1>4. ~exists'[g]
    BY DEF Vanish, TypeOK
  <1>5. ASSUME NEW p \in Parts, NEW x \in Things
        PROVE  FollowsIn(g, p, x)'
    <2>1. Decides(e, p, x)
      BY <1>2 DEF Decides
    <2>2. Has(g, p, x)' <=> Puts(e, p, x)
      BY <1>2, <1>4 DEF Has, Puts
    <2>3. QED
      BY <1>1, <1>2, <1>3, <2>1, <2>2, FollowsSend DEF FollowsAt
  <1>6. QED
    BY <1>5 DEF FollowsAt, Parts, Things

(* The answer to a request tells of the members of that moment. *)
LEMMA ToldAnswer ==
    ASSUME TypeOK, NEW g \in Guilds, SyncAt(g), asked[g] > 0 => cache[g].members = {}, Answer(g)
    PROVE  \A x : Told(g, x)' <=> Told(g, x)
  <1> DEFINE n == Cardinality(members[g])
  <1>1. PICK ms \in [1..n -> members[g]] :
             /\ members[g] = {ms[i] : i \in 1..n}
             /\ answer' = [answer EXCEPT ![g] =
                  IF n = 0
                  THEN << [members |-> {}, index |-> 1, count |-> 1] >>
                  ELSE [i \in 1..n |-> [members |-> {ms[i]}, index |-> i, count |-> n]]]
    BY DEF Answer
  <1>2. n \in Nat
    BY TypeAt, CountOfMembers
  <1> HIDE DEF n
  <1>3. /\ inbox' = inbox /\ cache' = cache /\ backlog' = backlog /\ replaying' = replaying
        /\ exists' = exists /\ members' = members /\ channels' = channels /\ roles' = roles
        /\ name' = name /\ emojis' = emojis
        /\ left' = left /\ asked'[g] = asked[g] - 1 /\ asked[g] > 0
    BY DEF Answer, shard, TypeOK
  <1>4. Chunks(g)' = {} /\ asked'[g] = 0 /\ cache[g].members = {}
    <2>1. asked[g] \in Nat /\ asked[g] # 0
      BY <1>3, TypeAt
    <2>2. Chunks(g) = {} /\ asked[g] = 1
      BY <1>3, <2>1 DEF SyncAt
    <2>3. QED
      BY <1>3, <2>2 DEF Chunks, Arrived
  <1>5. \A x : (\E i \in DOMAIN answer'[g] : x \in answer'[g][i].members) <=> x \in members[g]
    <2>1. CASE n = 0
      <3>1. answer'[g] = << [members |-> {}, index |-> 1, count |-> 1] >>
        BY <1>1, <2>1 DEF TypeOK
      <3>2. \A i \in DOMAIN answer'[g] : answer'[g][i].members = {}
        BY <3>1
      <3>3. members[g] = {}
        BY <1>1, <2>1
      <3>4. QED
        BY <3>2, <3>3
    <2>2. CASE n # 0
      <3>1. answer'[g] = [i \in 1..n |-> [members |-> {ms[i]}, index |-> i, count |-> n]]
        BY <1>1, <2>2 DEF TypeOK
      <3>2. DOMAIN answer'[g] = 1..n /\ \A i \in 1..n : answer'[g][i].members = {ms[i]}
        BY <3>1
      <3>3. \A x : x \in members[g] <=> \E i \in 1..n : x = ms[i]
        BY <1>1
      <3>4. QED
        BY <3>2, <3>3
    <2>3. QED
      BY <2>1, <2>2
  <1>6. QED
    BY <1>3, <1>4, <1>5 DEF Told

LEMMA FollowsAnswer ==
    ASSUME TypeOK, Ordered, NEW g \in Guilds, SyncAt(g), asked[g] > 0 => cache[g].members = {},
           FollowsAt(g), Answer(g)
    PROVE  FollowsAt(g)'
  <1>1. /\ inbox' = inbox /\ cache' = cache /\ backlog' = backlog /\ replaying' = replaying
        /\ exists' = exists /\ members' = members /\ channels' = channels /\ roles' = roles
        /\ name' = name /\ emojis' = emojis
    BY DEF Answer, shard
  <1>2. Pending(g)' = Pending(g)
    BY <1>1 DEF Pending
  <1>3. ASSUME NEW p \in Parts, NEW x \in Things
        PROVE  FollowsIn(g, p, x)'
    <2>1. Has(g, p, x)' <=> Has(g, p, x)
      BY <1>1 DEF Has
    <2>2. Cached(g, p, x)' <=> Cached(g, p, x)
      BY <1>1, ToldAnswer DEF Cached
    <2>3. QED
      BY <1>2, <2>1, <2>2, FollowsKept DEF FollowsAt
  <1>4. QED
    BY <1>3 DEF FollowsAt, Parts, Things

(* A chunk is told of before it is sent and after. *)
LEMMA ToldSendChunk ==
    ASSUME TypeOK, Ordered, NEW g \in Guilds, SendChunk(g)
    PROVE  /\ \A x : Told(g, x)' <=> Told(g, x)
           /\ \E e \in Event : /\ Dispatch(e) /\ e.guild = g /\ e.kind = "GUILD_MEMBERS_CHUNK"
                              /\ e.id = sent + 1 /\ Pending(g)' = Pending(g) \cup {e}
                              /\ Arrived(g)' = Arrived(g) \cup {e}
                              /\ Chunks(g)' = Chunks(g) \cup {e}
  <1>0. PICK c : c = Head(answer[g])
    OBVIOUS
  <1> DEFINE e == [kind |-> "GUILD_MEMBERS_CHUNK", guild |-> g, id |-> sent + 1,
                   members |-> c.members, index |-> c.index, count |-> c.count]
  <1>1. answer[g] \in Seq(Chunk) /\ answer[g] # <<>> /\ answer'[g] = Tail(answer[g])
    BY DEF SendChunk, TypeOK
  <1>2. c \in Chunk /\ c = answer[g][1] /\ Len(answer[g]) \in Nat \ {0}
        /\ DOMAIN answer[g] = 1..Len(answer[g])
        /\ DOMAIN answer'[g] = 1..(Len(answer[g]) - 1)
        /\ \A i \in 1..(Len(answer[g]) - 1) : answer'[g][i] = answer[g][i + 1]
    BY <1>0, <1>1
  <1>3. e \in Event
    <2>1. sent + 1 \in Nat
      BY DEF TypeOK
    <2>2. QED
      BY <1>2, <2>1 DEF Event, Chunk
  <1>4. /\ Dispatch(e) /\ e.guild = g /\ e.kind = "GUILD_MEMBERS_CHUNK" /\ e.id = sent + 1
        /\ e.members = c.members
    BY <1>0 DEF SendChunk
  <1> HIDE DEF e
  <1>5. /\ Pending(g)' = Pending(g) \cup {e} /\ Chunks(g)' = Chunks(g) \cup {e}
        /\ Arrived(g)' = Arrived(g) \cup {e}
    <2>1. Arrived(g)' = Arrived(g) \cup {e}
      BY <1>3, <1>4, ArrivedSend
    <2>2. Pending(g)' = Pending(g) \cup {e}
      BY <1>3, <1>4, PendingSend DEF SendChunk, shard
    <2>3. QED
      BY <1>4, <2>1, <2>2 DEF Chunks
  <1>6. /\ cache' = cache /\ asked' = asked /\ exists' = exists /\ members' = members
        /\ channels' = channels /\ roles' = roles /\ name' = name /\ emojis' = emojis
    BY DEF SendChunk, shard
  <1>7. \A x : Told(g, x)' <=> Told(g, x)
    <2>1. ASSUME NEW x
          PROVE  (\E i \in DOMAIN answer[g] : x \in answer[g][i].members)
                 <=> x \in e.members \/ \E i \in DOMAIN answer'[g] : x \in answer'[g][i].members
      <3>1. \A i \in DOMAIN answer[g] :
                i = 1 \/ (i - 1 \in DOMAIN answer'[g] /\ answer'[g][i - 1] = answer[g][i])
        BY <1>2
      <3>2. \A i \in DOMAIN answer'[g] :
                i + 1 \in DOMAIN answer[g] /\ answer'[g][i] = answer[g][i + 1]
        BY <1>2
      <3>3. 1 \in DOMAIN answer[g] /\ answer[g][1].members = e.members
        BY <1>2, <1>4
      <3>4. QED
        BY <3>1, <3>2, <3>3
    <2>2. QED
      BY <1>5, <1>6, <2>1 DEF Told
  <1>8. QED
    BY <1>3, <1>4, <1>5, <1>7

LEMMA FollowsSendChunk ==
    ASSUME TypeOK, Ordered, NEW g \in Guilds, FollowsAt(g), SendChunk(g)
    PROVE  FollowsAt(g)'
  <1>1. PICK e \in Event : /\ e.kind = "GUILD_MEMBERS_CHUNK" /\ e.id = sent + 1
                           /\ Pending(g)' = Pending(g) \cup {e}
    BY ToldSendChunk
  <1>2. /\ cache' = cache /\ exists' = exists /\ members' = members
        /\ channels' = channels /\ roles' = roles /\ name' = name /\ emojis' = emojis
    BY DEF SendChunk, shard
  <1>3. ASSUME NEW p \in Parts, NEW x \in Things
        PROVE  FollowsIn(g, p, x)'
    <2>1. Has(g, p, x)' <=> Has(g, p, x)
      BY <1>2 DEF Has
    <2>2. Cached(g, p, x)' <=> Cached(g, p, x)
      BY <1>2, ToldSendChunk DEF Cached
    <2>3. ~Decides(e, p, x)
      BY <1>1 DEF Decides, MemberEvents, RoleEvents
    <2>4. QED
      BY <1>1, <2>1, <2>2, <2>3, FollowsSend DEF FollowsAt
  <1>4. QED
    BY <1>3 DEF FollowsAt, Parts, Things

(* An event tells what changes with it. *)
LEMMA FollowsTells ==
    ASSUME TypeOK, Ordered, Orderly, NEW g \in Guilds, FollowsAt(g), NEW e \in Event, Tells(g, e)
    PROVE  FollowsAt(g)'
  <1>1. Pending(g)' = Pending(g) \cup {e} /\ Chunks(g)' = Chunks(g) /\ e.id = sent + 1
    <2>1. Arrived(g)' = Arrived(g) \cup {e} /\ e.id = sent + 1
      BY ArrivedSend DEF Tells
    <2>2. e.kind # "GUILD_MEMBERS_CHUNK"
      BY DEF Tells, MemberEvents, ChannelEvents, RoleEvents, ChannelFirst, MessageEvents
    <2>3. Pending(g)' = Pending(g) \cup {e}
      BY PendingSend DEF Tells, shard
    <2>4. QED
      BY <2>1, <2>2, <2>3 DEF Chunks
  <1>2. exists[g] /\ exists' = exists /\ cache' = cache /\ asked' = asked /\ answer' = answer
    BY DEF Tells, Alive, Orderly, shard
  <1>3. /\ e.kind = "GUILD_MEMBER_ADD" => members'[g] = members[g] \cup {e.arg}
        /\ e.kind = "GUILD_MEMBER_REMOVE" => members'[g] = members[g] \ {e.arg}
        /\ e.kind \notin MemberEvents => members' = members
    BY DEF Tells, TypeOK
  <1>4. /\ e.kind = "CHANNEL_CREATE" => channels'[g] = channels[g] \cup {e.arg}
        /\ e.kind = "CHANNEL_DELETE" => channels'[g] = channels[g] \ {e.arg}
        /\ e.kind \notin {"CHANNEL_CREATE", "CHANNEL_DELETE"} => channels' = channels
    BY DEF Tells, TypeOK
  <1>5. /\ e.kind = "GUILD_ROLE_CREATE" => roles'[g] = roles[g] \cup {e.arg}
        /\ e.kind = "GUILD_ROLE_UPDATE" => roles' = roles /\ e.arg \in roles[g]
        /\ e.kind = "GUILD_ROLE_DELETE" => roles'[g] = roles[g] \ {e.arg}
        /\ e.kind \notin RoleEvents => roles' = roles
    BY DEF Tells, TypeOK
  <1>6. /\ e.kind = "GUILD_UPDATE" => name'[g] = e.arg
        /\ e.kind # "GUILD_UPDATE" => name' = name
        /\ e.kind = "GUILD_EMOJI_UPDATE" => emojis'[g] = e.arg
        /\ e.kind # "GUILD_EMOJI_UPDATE" => emojis' = emojis
    BY DEF Tells, TypeOK
  <1>7. e.kind \notin {"GUILD_CREATE", "GUILD_DELETE"}
    BY DEF Tells, MemberEvents, ChannelEvents, RoleEvents, ChannelFirst, MessageEvents
  <1>8. ASSUME NEW p \in Parts, NEW x \in Things
        PROVE  FollowsIn(g, p, x)'
    <2>1. ASSUME Decides(e, p, x)
          PROVE  Has(g, p, x)' <=> Puts(e, p, x)
      <3>1. CASE p = "member"
        BY <1>2, <1>3, <1>7, <2>1, <3>1 DEF Decides, Puts, Has, MemberEvents
      <3>2. CASE p = "channel"
        BY <1>2, <1>4, <1>7, <2>1, <3>2 DEF Decides, Puts, Has
      <3>3. CASE p = "role"
        BY <1>2, <1>5, <1>7, <2>1, <3>3 DEF Decides, Puts, Has, RoleEvents
      <3>4. CASE p = "name"
        BY <1>2, <1>6, <1>7, <2>1, <3>4 DEF Decides, Puts, Has
      <3>5. CASE p = "emojis"
        BY <1>2, <1>6, <1>7, <2>1, <3>5 DEF Decides, Puts, Has
      <3>6. QED
        BY <3>1, <3>2, <3>3, <3>4, <3>5 DEF Parts
    <2>2. ASSUME ~Decides(e, p, x)
          PROVE  /\ Has(g, p, x)' <=> Has(g, p, x)
                 /\ Cached(g, p, x)' <=> Cached(g, p, x)
      <3>1. p = "member" => (x \in members'[g] <=> x \in members[g])
        BY <1>3, <2>2 DEF Decides, MemberEvents
      <3>2. p = "member" => (Told(g, x)' <=> Told(g, x))
        BY <1>1, <1>2, <3>1 DEF Told
      <3>3. p = "channel" => (x \in channels'[g] <=> x \in channels[g])
        BY <1>4, <2>2 DEF Decides
      <3>4. p = "role" => (x \in roles'[g] <=> x \in roles[g])
        BY <1>5, <2>2 DEF Decides, RoleEvents
      <3>5. (p = "name" => name' = name) /\ (p = "emojis" => emojis' = emojis)
        BY <1>6, <2>2 DEF Decides
      <3>6. Has(g, p, x)' <=> Has(g, p, x)
        BY <1>2, <3>1, <3>3, <3>4, <3>5 DEF Has
      <3>7. Cached(g, p, x)' <=> Cached(g, p, x)
        BY <1>2, <3>2 DEF Cached
      <3>8. QED
        BY <3>6, <3>7
    <2>3. QED
      BY <1>1, <2>1, <2>2, FollowsSend DEF FollowsAt
  <1>9. QED
    BY <1>8 DEF FollowsAt, Parts, Things

(* Nothing of a guild that has no events aside is before its first dispatch. *)
LEMMA FirstPending ==
    ASSUME TypeOK, Ordered, NEW K, TakeFirst(K), NEW e, e = event, NEW g, g = guild,
           backlog' = backlog, replaying' = replaying
    PROVE  /\ g \in Guilds /\ Pending(g) = Pending(g)' \cup {e} /\ e \in Pending(g)
           /\ \A f \in Pending(g)' : f \in Pending(g) /\ f # e
           /\ \A f \in Pending(g)' : f \in ToSet(inbox') => e.id < f.id
           /\ \A f \in Pending(g)' : f \notin ToSet(inbox') => f.kind \in BackedUp \cup ChannelFirst
           /\ backlog[g] = <<>> => \A f \in Pending(g)' : e.id < f.id
  <1>1. g \in Guilds /\ e.guild = g /\ replaying = <<>> /\ ToSet(inbox) = {e} \cup ToSet(inbox')
    BY FirstTaken DEF guild
  <1>2. ToSet(replaying) = {}
    BY <1>1 DEF ToSet
  <1>3. /\ Pending(g) = Pending(g)' \cup {e} /\ e \in Pending(g)
        /\ \A f \in Pending(g)' : f \in Pending(g) /\ f # e
    BY <1>1, PendingTake DEF Pending
  <1>4. \A f \in ToSet(inbox') : e.id < f.id
    BY FirstIsFirst
  <1>5. \A f \in Pending(g)' : f \in ToSet(inbox') \/ f \in ToSet(backlog[g])
    BY <1>2 DEF Pending
  <1>6. \A f \in ToSet(backlog[g]) : f.kind \in BackedUp \cup ChannelFirst
    <2>1. backlog[g] \in Seq(Held)
      BY <1>1, TypeAt
    <2>2. QED
      BY <2>1, Elements DEF Held
  <1>7. backlog[g] = <<>> => ToSet(backlog[g]) = {}
    BY DEF ToSet
  <1>8. QED
    BY <1>1, <1>3, <1>4, <1>5, <1>6, <1>7

(* A guild that is created is asked for its members when it is large, and    *)
(* known with all of them otherwise.                                         *)
LEMMA CreateEffect ==
    ASSUME TypeOK, Ordered, Lives, Sync, HandleCreate, NEW g, g = guild, NEW e, e = event
    PROVE  /\ g \in Guilds /\ e.kind = "GUILD_CREATE" /\ exists[g] /\ backlog[g] = <<>>
           /\ Pending(g) = Pending(g)' \cup {e} /\ \A f \in Pending(g)' : e.id < f.id
           /\ Chunks(g)' = {}
           /\ cache'[g].there /\ cache'[g].channels = e.channels /\ cache'[g].roles = e.roles
           /\ cache'[g].name = e.name /\ cache'[g].emojis = e.emojis
           /\ \/ /\ ~cache'[g].ready
                 /\ \A x : Told(g, x)' <=> x \in members[g]
              \/ /\ cache'[g].ready /\ cache'[g].members = e.members
                 /\ \A x : Told(g, x)' <=> x \in e.members
  <1>2. TakeFirst({"GUILD_CREATE"}) /\ backlog' = backlog /\ replaying' = replaying
    BY DEF HandleCreate
  <1>3. /\ g \in Guilds /\ e.kind = "GUILD_CREATE" /\ members' = members /\ answer' = answer
    BY <1>2, FirstTaken
  <1>4. ~Syncing(g) /\ exists[g]
    BY <1>2, <1>3, FirstOfLife
  <1>5. backlog[g] = <<>> /\ asked[g] = 0 /\ answer[g] = <<>> /\ Chunks(g) = {}
    BY <1>3, <1>4 DEF Lives, LivesAt, Sync, SyncAt
  <1>6. Pending(g) = Pending(g)' \cup {e} /\ \A f \in Pending(g)' : e.id < f.id
    BY <1>2, <1>5, FirstPending
  <1>7. Chunks(g)' = {}
    BY <1>2, <1>3, <1>5, ArrivedTake DEF Chunks
  <1>8. PICK large \in BOOLEAN : large <=> Cardinality(event.members) >= Threshold
    OBVIOUS
  <1>9. /\ cache'[g].there /\ cache'[g].channels = e.channels /\ cache'[g].roles = e.roles
        /\ cache'[g].name = e.name /\ cache'[g].emojis = e.emojis
        /\ cache'[g].members = (IF large THEN {} ELSE e.members) /\ cache'[g].ready = ~large
    BY <1>3, <1>8 DEF HandleCreate, TypeOK
  <1>10. asked'[g] = (IF large THEN 1 ELSE 0)
    <2>1. asked' = [asked EXCEPT ![g] = IF large /\ exists[g] THEN asked[g] + 1 ELSE asked[g]]
      BY <1>8 DEF HandleCreate
    <2>2. asked'[g] = IF large /\ exists[g] THEN asked[g] + 1 ELSE asked[g]
      BY <1>3, <2>1 DEF TypeOK
    <2>3. QED
      BY <1>4, <1>5, <2>2
  <1>11. DOMAIN answer'[g] = {}
    BY <1>3, <1>5
  <1>12. CASE large
    <2>1. asked'[g] > 0
      BY <1>10, <1>12
    <2>2. \A x : Told(g, x)' <=> x \in members[g]
      BY <1>3, <2>1 DEF Told
    <2>3. QED
      BY <1>3, <1>4, <1>5, <1>6, <1>7, <1>9, <1>12, <2>2
  <1>13. CASE ~large
    <2>1. ~(asked'[g] > 0)
      BY <1>10, <1>13
    <2>2. \A x : Told(g, x)' <=> x \in e.members
      BY <1>7, <1>9, <1>11, <1>13, <2>1 DEF Told
    <2>3. QED
      BY <1>3, <1>4, <1>5, <1>6, <1>7, <1>9, <1>13, <2>2
  <1>14. QED
    BY <1>12, <1>13

(* The steps of the shard: whatever takes effect is then in the cache. *)
LEMMA FollowsHandleCreate ==
    ASSUME TypeOK, Ordered, Lives, Sync, Follows, HandleCreate, NEW g, g = guild
    PROVE  FollowsAt(g)'
  <1>1. PICK e : e = event
    OBVIOUS
  <1>2. TakeFirst({"GUILD_CREATE"})
    BY DEF HandleCreate
  <1>3. /\ exists' = exists /\ members' = members
        /\ channels' = channels /\ roles' = roles /\ name' = name /\ emojis' = emojis
    BY <1>2, FirstTaken
  <1>4. /\ g \in Guilds /\ e.kind = "GUILD_CREATE" /\ exists[g]
        /\ Pending(g) = Pending(g)' \cup {e} /\ \A f \in Pending(g)' : e.id < f.id
        /\ cache'[g].there /\ cache'[g].channels = e.channels /\ cache'[g].roles = e.roles
        /\ cache'[g].name = e.name /\ cache'[g].emojis = e.emojis
        /\ \/ \A x : Told(g, x)' <=> x \in members[g]
           \/ \A x : Told(g, x)' <=> x \in e.members
    BY <1>1, CreateEffect
  <1>5. ASSUME NEW p \in Parts, NEW x \in Things
        PROVE  FollowsIn(g, p, x)'
    <2>1. Has(g, p, x)' <=> Has(g, p, x)
      BY <1>3 DEF Has
    <2>2. \/ Cached(g, p, x)' <=> Puts(e, p, x)
          \/ Cached(g, p, x)' <=> Has(g, p, x)'
      <3>1. CASE p = "member" /\ \A y : Told(g, y)' <=> y \in members[g]
        BY <1>3, <1>4, <3>1 DEF Cached, Has
      <3>2. CASE p # "member" \/ \A y : Told(g, y)' <=> y \in e.members
        BY <1>4, <3>2 DEF Cached, Puts
      <3>3. QED
        BY <1>4, <3>1, <3>2
    <2>3. Decides(e, p, x)
      BY <1>4 DEF Decides
    <2>4. QED
      BY <1>4, <2>1, <2>2, <2>3, FollowsTake DEF Follows, FollowsAt
  <1>6. QED
    BY <1>5 DEF FollowsAt, Parts, Things

LEMMA FollowsHandleDelete ==
    ASSUME TypeOK, Ordered, Lives, Sync, Follows, HandleDelete, NEW g, g = guild
    PROVE  FollowsAt(g)'
  <1>1. PICK e : e = event
    OBVIOUS
  <1>2. TakeFirst({"GUILD_DELETE"}) /\ backlog' = backlog /\ replaying' = replaying
    BY DEF HandleDelete
  <1>3. /\ g \in Guilds /\ e.kind = "GUILD_DELETE" /\ exists' = exists /\ members' = members
        /\ channels' = channels /\ roles' = roles /\ name' = name /\ emojis' = emojis
    BY <1>1, <1>2, FirstTaken
  <1>4. ~Syncing(g)
    BY <1>1, <1>2, <1>3, FirstOfLife
  <1>5. backlog[g] = <<>>
    BY <1>3, <1>4 DEF Lives, LivesAt
  <1>6. Pending(g) = Pending(g)' \cup {e} /\ \A f \in Pending(g)' : e.id < f.id
    BY <1>1, <1>2, <1>5, FirstPending
  <1>7. ~cache'[g].there
    BY <1>3 DEF HandleDelete, TypeOK, Absent
  <1>8. ASSUME NEW p \in Parts, NEW x \in Things
        PROVE  FollowsIn(g, p, x)'
    <2>1. Has(g, p, x)' <=> Has(g, p, x)
      BY <1>3 DEF Has
    <2>2. Cached(g, p, x)' <=> Puts(e, p, x)
      BY <1>3, <1>7 DEF Cached, Puts
    <2>3. Decides(e, p, x)
      BY <1>3 DEF Decides
    <2>4. QED
      BY <1>3, <1>6, <2>1, <2>2, <2>3, FollowsTake DEF Follows, FollowsAt
  <1>9. QED
    BY <1>8 DEF FollowsAt, Parts, Things

LEMMA FollowsHandleChunk ==
    ASSUME TypeOK, Ordered, Lives, Sync, Follows, HandleChunk, NEW g, g = guild
    PROVE  FollowsAt(g)'
  <1>1. PICK e : e = event
    OBVIOUS
  <1>2. TakeFirst({"GUILD_MEMBERS_CHUNK"}) /\ asked' = asked
    BY DEF HandleChunk
  <1>3. /\ g \in Guilds /\ e.kind = "GUILD_MEMBERS_CHUNK" /\ e.guild = g
        /\ exists' = exists /\ members' = members
        /\ channels' = channels /\ roles' = roles /\ name' = name /\ emojis' = emojis
        /\ answer' = answer
    BY <1>1, <1>2, FirstTaken DEF guild
  <1>4. asked[g] = 0 /\ Chunks(g) = Chunks(g)' \cup {e}
    BY <1>1, ChunkCounted
  <1>5. Pending(g) = Pending(g)' \cup {e}
    BY <1>1, <1>3, PendingChunk
  <1>6. /\ cache'[g].there = cache[g].there /\ cache'[g].channels = cache[g].channels
        /\ cache'[g].roles = cache[g].roles /\ cache'[g].name = cache[g].name
        /\ cache'[g].emojis = cache[g].emojis
        /\ cache'[g].members = cache[g].members \cup e.members
    BY <1>1, <1>3, TypeAt DEF HandleChunk, TypeOK, Entry
  <1>7. \A x : Told(g, x)' <=> Told(g, x)
    BY <1>2, <1>3, <1>4, <1>6 DEF Told
  <1>8. ASSUME NEW p \in Parts, NEW x \in Things
        PROVE  FollowsIn(g, p, x)'
    <2>1. Has(g, p, x)' <=> Has(g, p, x)
      BY <1>3 DEF Has
    <2>2. Cached(g, p, x)' <=> Cached(g, p, x)
      BY <1>6, <1>7 DEF Cached
    <2>3. ~Decides(e, p, x)
      BY <1>3 DEF Decides, MemberEvents, RoleEvents
    <2>4. QED
      BY <1>3, <1>5, <2>1, <2>2, <2>3, FollowsTake DEF Follows, FollowsAt
  <1>9. QED
    BY <1>8 DEF FollowsAt, Parts, Things

(* An event takes effect on a guild that is ready. *)
LEMMA FollowsApplied ==
    ASSUME TypeOK, Ordered, Sync, Follows, NEW g \in Guilds, NEW e \in Held, cache[g].ready,
           cache[g].ready => cache[g].there,
           Store(g, Apply(State(g), e)), Pending(g) = Pending(g)' \cup {e},
           \A f \in Pending(g)' : e.id < f.id,
           Chunks(g)' = Chunks(g), asked' = asked, answer' = answer,
           exists' = exists, members' = members, channels' = channels, roles' = roles,
           name' = name, emojis' = emojis
    PROVE  FollowsAt(g)'
  <1>1. cache'[g].there /\ cache[g].there /\ cache'[g].emojis = cache[g].emojis
    BY StoreEffect
  <1>2. /\ e.kind = "GUILD_MEMBER_ADD" => cache'[g].members = cache[g].members \cup {e.arg}
        /\ e.kind = "GUILD_MEMBER_REMOVE" => cache'[g].members = cache[g].members \ {e.arg}
        /\ e.kind \notin MemberEvents => cache'[g].members = cache[g].members
    BY StoreEffect
  <1>3. /\ e.kind = "CHANNEL_CREATE" => cache'[g].channels = cache[g].channels \cup {e.arg}
        /\ e.kind = "CHANNEL_DELETE" => cache'[g].channels = cache[g].channels \ {e.arg}
        /\ e.kind \notin {"CHANNEL_CREATE", "CHANNEL_DELETE"}
           => cache'[g].channels = cache[g].channels
    BY StoreEffect
  <1>4. /\ e.kind \in {"GUILD_ROLE_CREATE", "GUILD_ROLE_UPDATE"}
           => cache'[g].roles = cache[g].roles \cup {e.arg}
        /\ e.kind = "GUILD_ROLE_DELETE" => cache'[g].roles = cache[g].roles \ {e.arg}
        /\ e.kind \notin RoleEvents => cache'[g].roles = cache[g].roles
    BY StoreEffect
  <1>5. /\ e.kind = "GUILD_UPDATE" => cache'[g].name = e.arg
        /\ e.kind # "GUILD_UPDATE" => cache'[g].name = cache[g].name
    BY StoreEffect
  <1>6. asked[g] = 0 /\ Chunks(g) = {} /\ answer[g] = <<>>
    BY DEF Sync, SyncAt, Syncing
  <1>7. \A x : (Told(g, x)' <=> x \in cache'[g].members) /\ (Told(g, x) <=> x \in cache[g].members)
    BY <1>6 DEF Told
  <1>8. e.kind \notin {"GUILD_CREATE", "GUILD_DELETE", "GUILD_EMOJI_UPDATE"}
    BY DEF Held, BackedUp, ChannelFirst, MessageEvents
  <1>9. ASSUME NEW p \in Parts, NEW x \in Things
        PROVE  FollowsIn(g, p, x)'
    <2>1. Has(g, p, x)' <=> Has(g, p, x)
      BY DEF Has
    <2>2. ASSUME Decides(e, p, x)
          PROVE  Cached(g, p, x)' <=> Puts(e, p, x)
      <3>1. CASE p = "member"
        BY <1>1, <1>2, <1>7, <1>8, <2>2, <3>1 DEF Decides, Puts, Cached, MemberEvents
      <3>2. CASE p = "channel"
        BY <1>1, <1>3, <1>8, <2>2, <3>2 DEF Decides, Puts, Cached
      <3>3. CASE p = "role"
        BY <1>1, <1>4, <1>8, <2>2, <3>3 DEF Decides, Puts, Cached, RoleEvents
      <3>4. CASE p = "name"
        BY <1>1, <1>5, <1>8, <2>2, <3>4 DEF Decides, Puts, Cached
      <3>5. CASE p = "emojis"
        BY <1>8, <2>2, <3>5 DEF Decides
      <3>6. QED
        BY <3>1, <3>2, <3>3, <3>4, <3>5 DEF Parts
    <2>3. ASSUME ~Decides(e, p, x)
          PROVE  Cached(g, p, x)' <=> Cached(g, p, x)
      <3>1. p = "member" => (x \in cache'[g].members <=> x \in cache[g].members)
        BY <1>2, <2>3 DEF Decides, MemberEvents
      <3>2. p = "channel" => (x \in cache'[g].channels <=> x \in cache[g].channels)
        BY <1>3, <2>3 DEF Decides
      <3>3. p = "role" => (x \in cache'[g].roles <=> x \in cache[g].roles)
        BY <1>4, <2>3 DEF Decides, RoleEvents
      <3>4. p = "name" => cache'[g].name = cache[g].name
        BY <1>5, <2>3 DEF Decides
      <3>5. QED
        BY <1>1, <1>7, <3>1, <3>2, <3>3, <3>4 DEF Cached
    <2>4. QED
      BY <2>1, <2>2, <2>3, FollowsTake DEF Follows, FollowsAt
  <1>10. QED
    BY <1>9 DEF FollowsAt, Parts, Things

(* An event of g is put aside. *)
LEMMA FollowsAside ==
    ASSUME TypeOK, Ordered, Follows, TakeFirst(BackedUp \cup ChannelFirst), NEW g, g = guild,
           backlog' = [backlog EXCEPT ![guild] = Append(@, event)], replaying' = replaying,
           cache' = cache, asked' = asked
    PROVE  FollowsAt(g)'
  <1>1. /\ g \in Guilds /\ exists' = exists /\ members' = members
        /\ channels' = channels /\ roles' = roles /\ name' = name /\ emojis' = emojis
        /\ answer' = answer
    BY FirstTaken
  <1>2. event.kind # "GUILD_MEMBERS_CHUNK"
    <2>1. event.kind \in BackedUp \cup ChannelFirst
      BY FirstTaken
    <2>2. QED
      BY <2>1 DEF BackedUp, ChannelFirst, MessageEvents
  <1>3. Chunks(g)' = Chunks(g)
    BY <1>1, <1>2, ArrivedTake DEF Chunks
  <1>4. \A x : Told(g, x)' <=> Told(g, x)
    BY <1>1, <1>3 DEF Told
  <1>5. Pending(g)' = Pending(g)
    BY <1>1, PendingAside
  <1>6. ASSUME NEW p \in Parts, NEW x \in Things
        PROVE  FollowsIn(g, p, x)'
    <2>1. Has(g, p, x)' <=> Has(g, p, x)
      BY <1>1 DEF Has
    <2>2. Cached(g, p, x)' <=> Cached(g, p, x)
      BY <1>4 DEF Cached
    <2>3. QED
      BY <1>1, <1>5, <2>1, <2>2, FollowsKept DEF Follows, FollowsAt
  <1>7. QED
    BY <1>6 DEF FollowsAt, Parts, Things

(* An event of g is dropped: it decides about nothing. *)
LEMMA FollowsDropped ==
    ASSUME TypeOK, Ordered, Follows, NEW K, TakeFirst(K), NEW g, g = guild,
           event.kind \in ChannelFirst \cup {"CHANNEL_UPDATE"},
           backlog' = backlog, replaying' = replaying, cache' = cache, asked' = asked
    PROVE  FollowsAt(g)'
  <1>0. PICK e : e = event
    OBVIOUS
  <1>1. /\ g \in Guilds /\ exists' = exists /\ members' = members
        /\ channels' = channels /\ roles' = roles /\ name' = name /\ emojis' = emojis
        /\ answer' = answer
    BY FirstTaken
  <1>2. e.kind \notin {"GUILD_CREATE", "GUILD_DELETE", "GUILD_MEMBERS_CHUNK", "CHANNEL_CREATE",
                       "CHANNEL_DELETE", "GUILD_UPDATE", "GUILD_EMOJI_UPDATE"}
                      \cup MemberEvents \cup RoleEvents
    BY <1>0 DEF ChannelFirst, MemberEvents, RoleEvents
  <1>3. Chunks(g)' = Chunks(g)
    BY <1>0, <1>1, <1>2, ArrivedTake DEF Chunks
  <1>4. \A x : Told(g, x)' <=> Told(g, x)
    BY <1>1, <1>3 DEF Told
  <1>5. Pending(g) = Pending(g)' \cup {e}
    BY <1>0, FirstPending
  <1>6. ASSUME NEW p \in Parts, NEW x \in Things
        PROVE  FollowsIn(g, p, x)'
    <2>1. Has(g, p, x)' <=> Has(g, p, x)
      BY <1>1 DEF Has
    <2>2. Cached(g, p, x)' <=> Cached(g, p, x)
      BY <1>4 DEF Cached
    <2>3. ~Decides(e, p, x)
      BY <1>2 DEF Decides
    <2>4. QED
      BY <1>1, <1>5, <2>1, <2>2, <2>3, FollowsTake DEF Follows, FollowsAt
  <1>7. QED
    BY <1>6 DEF FollowsAt, Parts, Things

(* The emojis are taken over at once, ready or not. *)
LEMMA FollowsHandleEmojis ==
    ASSUME TypeOK, Ordered, Lives, Sync, Follows, HandleEmojis, NEW g, g = guild
    PROVE  FollowsAt(g)'
  <1>0. PICK e : e = event
    OBVIOUS
  <1>1. /\ TakeFirst({"GUILD_EMOJI_UPDATE"}) /\ backlog' = backlog /\ replaying' = replaying
        /\ asked' = asked
    BY DEF HandleEmojis
  <1>2. /\ g \in Guilds /\ exists' = exists /\ members' = members
        /\ channels' = channels /\ roles' = roles /\ name' = name /\ emojis' = emojis
        /\ answer' = answer /\ e.kind = "GUILD_EMOJI_UPDATE"
    BY <1>0, <1>1, FirstTaken
  <1>3. cache[g].there /\ cache[g] \in Entry
    BY <1>0, <1>1, <1>2, FirstOfLife, TypeAt
  <1>4. /\ cache'[g].there /\ cache'[g].members = cache[g].members
        /\ cache'[g].channels = cache[g].channels /\ cache'[g].roles = cache[g].roles
        /\ cache'[g].name = cache[g].name /\ cache'[g].emojis = e.arg
    BY <1>0, <1>2, <1>3 DEF HandleEmojis, TypeOK, Entry
  <1>5. Chunks(g)' = Chunks(g)
    BY <1>0, <1>1, <1>2, ArrivedTake DEF Chunks
  <1>6. \A x : Told(g, x)' <=> Told(g, x)
    BY <1>1, <1>2, <1>4, <1>5 DEF Told
  <1>7. /\ Pending(g) = Pending(g)' \cup {e}
        /\ \A f \in Pending(g)' : f.kind \in BackedUp \cup ChannelFirst \/ e.id < f.id
    BY <1>0, <1>1, FirstPending
  <1>8. ASSUME NEW p \in Parts, NEW x \in Things
        PROVE  FollowsIn(g, p, x)'
    <2>1. Has(g, p, x)' <=> Has(g, p, x)
      BY <1>2 DEF Has
    <2>2. CASE p = "emojis"
      <3>1. Cached(g, p, x)' <=> Puts(e, p, x)
        BY <1>2, <1>4, <2>2 DEF Cached, Puts
      <3>2. \A f \in Pending(g)' : Decides(f, p, x) => e.id < f.id
        BY <1>7, <2>2 DEF Decides, BackedUp, ChannelFirst, MessageEvents
      <3>3. Decides(e, p, x)
        BY <1>2, <2>2 DEF Decides
      <3>4. QED
        BY <1>2, <1>7, <2>1, <3>1, <3>2, <3>3, FollowsTake DEF Follows, FollowsAt
    <2>3. CASE p # "emojis"
      <3>1. Cached(g, p, x)' <=> Cached(g, p, x)
        BY <1>3, <1>4, <1>6, <2>3 DEF Cached
      <3>2. ~Decides(e, p, x)
        BY <1>2, <2>3 DEF Decides, MemberEvents, RoleEvents
      <3>3. QED
        BY <1>2, <1>7, <2>1, <3>1, <3>2, FollowsTake DEF Follows, FollowsAt
    <2>4. QED
      BY <2>2, <2>3
  <1>9. QED
    BY <1>8 DEF FollowsAt, Parts, Things

LEMMA FollowsHandleEvent ==
    ASSUME TypeOK, Ordered, Lives, Sync, Follows, HandleEvent, NEW g, g = guild
    PROVE  FollowsAt(g)'
  <1>1. PICK e : e = event
    OBVIOUS
  <1>2. /\ TakeFirst(BackedUp) /\ e \in Held /\ g \in Guilds /\ e.guild = g
        /\ replaying' = replaying /\ replaying = <<>> /\ left' = left /\ asked' = asked
        /\ \/ /\ Syncing(g) /\ backlog' = [backlog EXCEPT ![g] = Append(@, e)]
              /\ cache' = cache /\ seen' = seen
           \/ cache[g].ready /\ backlog' = backlog /\ Store(g, Apply(State(g), e))
    BY <1>1, EventEnds
  <1>3. CASE backlog' = [backlog EXCEPT ![g] = Append(@, e)] /\ cache' = cache
    <2>1. TakeFirst(BackedUp \cup ChannelFirst)
      BY <1>2 DEF TakeFirst
    <2>2. QED
      BY <1>1, <1>2, <1>3, <2>1, FollowsAside
  <1>4. CASE cache[g].ready /\ backlog' = backlog /\ Store(g, Apply(State(g), e))
    <2>1. backlog[g] = <<>> /\ cache[g].there
      BY <1>2, <1>4 DEF Lives, LivesAt, Syncing
    <2>2. Pending(g) = Pending(g)' \cup {e} /\ \A f \in Pending(g)' : e.id < f.id
      BY <1>1, <1>2, <1>4, <2>1, FirstPending
    <2>3. event.kind # "GUILD_MEMBERS_CHUNK"
      BY <1>2, FirstTaken DEF BackedUp, MessageEvents
    <2>4. Chunks(g)' = Chunks(g)
      BY <1>2, <2>3, ArrivedTake DEF Chunks
    <2>5. /\ exists' = exists /\ members' = members /\ answer' = answer
          /\ channels' = channels /\ roles' = roles /\ name' = name /\ emojis' = emojis
      BY <1>2, FirstTaken
    <2>6. QED
      BY <1>2, <1>4, <2>1, <2>2, <2>4, <2>5, FollowsApplied
  <1>5. QED
    BY <1>2, <1>3, <1>4

LEMMA FollowsReplay ==
    ASSUME TypeOK, Ordered, Lives, Sync, Follows, Replay, NEW e, e = Head(replaying),
           NEW g, g = e.guild
    PROVE  FollowsAt(g)'
  <1>1. /\ e \in Held /\ g \in Guilds /\ Store(g, Apply(State(g), e)) /\ UNCHANGED server
        /\ Chunks(g)' = Chunks(g)
    BY ReplayEffect
  <1>2. e \in ToSet(replaying)
    BY NextReplayed
  <1>3. cache[g].ready /\ cache[g].there
    BY <1>1, <1>2 DEF Lives, LivesAt
  <1>4. Pending(g) = Pending(g)' \cup {e} /\ \A f \in Pending(g)' : e.id < f.id
    BY <1>1, PendingReplay
  <1>5. QED
    BY <1>1, <1>3, <1>4, FollowsApplied DEF server

(* Every step keeps the cache behind the server by what is pending. *)
LEMMA FollowsStep ==
    Orderly /\ TypeOK /\ Ordered /\ Lives /\ Sync /\ Fresh /\ Follows /\ [Next]_vars => Follows'
  <1> SUFFICES ASSUME Orderly, TypeOK, Ordered, Lives, Sync, Fresh, Follows, [Next]_vars
               PROVE  \A h \in Guilds : FollowsAt(h)'
    BY DEF Follows
  <1>0. \A h \in Guilds : FollowsAt(h)
    BY DEF Follows
  <1>1. CASE ServerStep
    <2>1. PICK g \in Guilds :
               \/ \E ms \in SUBSET Members, cs \in SUBSET Channels : Create(g, ms, cs)
               \/ Vanish(g) \/ Answer(g) \/ SendChunk(g)
               \/ \E e \in Event : Tells(g, e)
      BY <1>1, ServerCases
    <2>2. SyncAt(g) /\ (asked[g] > 0 => cache[g].members = {})
      BY DEF Sync, Fresh
    <2>3. FollowsAt(g)'
      BY <1>0, <2>1, <2>2, FollowsCreate, FollowsVanish, FollowsAnswer, FollowsSendChunk,
         FollowsTells
    <2>4. \A h \in Guilds : h # g => FollowsAt(h)'
      BY <1>0, <2>1, ServerElsewhere, FollowsUntouched
    <2>5. QED
      BY <2>3, <2>4
  <1>2. CASE Replay
    <2>1. PICK e, g : e = Head(replaying) /\ g = e.guild
      OBVIOUS
    <2>2. FollowsAt(g)'
      BY <1>2, <2>1, FollowsReplay
    <2>3. \A h \in Guilds : h # g => FollowsAt(h)'
      BY <1>0, <1>2, <2>1, ReplayElsewhere, FollowsUntouched
    <2>4. QED
      BY <2>2, <2>3
  <1>3. CASE ShardStep /\ ~Replay
    <2>1. PICK g : g = guild
      OBVIOUS
    <2>2. \A h \in Guilds : h # g => FollowsAt(h)'
      BY <1>0, <1>3, <2>1, ShardElsewhere, FollowsUntouched
    <2>3. CASE HandleCreate
      BY <2>1, <2>2, <2>3, FollowsHandleCreate
    <2>4. CASE HandleDelete
      BY <2>1, <2>2, <2>4, FollowsHandleDelete
    <2>5. CASE HandleChunk
      BY <2>1, <2>2, <2>5, FollowsHandleChunk
    <2>6. CASE HandleChunkUnknown
      <3>1. TakeFirst({"GUILD_MEMBERS_CHUNK"}) /\ ~cache[g].there
        BY <2>1, <2>6 DEF HandleChunkUnknown
      <3>2. event.kind = "GUILD_MEMBERS_CHUNK"
        BY <3>1, FirstTaken
      <3>3. cache[g].there
        BY <2>1, <3>1, <3>2, FirstOfLife
      <3>4. QED
        BY <3>1, <3>3
    <2>7. CASE HandleEvent
      BY <2>1, <2>2, <2>7, FollowsHandleEvent
    <2>8. CASE HandleUpdate
      <3>1. TakeFirst({"CHANNEL_UPDATE"}) /\ event.kind = "CHANNEL_UPDATE"
        BY <2>8, FirstTaken DEF HandleUpdate
      <3>2. FollowsAt(g)'
        BY <2>1, <2>8, <3>1, FollowsDropped DEF HandleUpdate
      <3>3. QED
        BY <2>2, <3>2
    <2>9. CASE HandleEmojis
      BY <2>1, <2>2, <2>9, FollowsHandleEmojis
    <2>10. CASE HandleTyping
      <3>1. TakeFirst(ChannelFirst) /\ TakeFirst(BackedUp \cup ChannelFirst)
            /\ event.kind \in ChannelFirst
        BY <2>10, FirstTaken DEF HandleTyping, TakeFirst
      <3>2. CASE backlog' = backlog
        <4>1. FollowsAt(g)'
          BY <2>1, <2>10, <3>1, <3>2, FollowsDropped DEF HandleTyping
        <4>2. QED
          BY <2>2, <4>1
      <3>3. CASE backlog' = [backlog EXCEPT ![guild] = Append(@, event)]
        <4>1. FollowsAt(g)'
          BY <2>1, <2>10, <3>1, <3>3, FollowsAside DEF HandleTyping
        <4>2. QED
          BY <2>2, <4>1
      <3>4. QED
        BY <2>10, <3>2, <3>3 DEF HandleTyping
    <2>11. QED
      BY <1>3, <2>3, <2>4, <2>5, <2>6, <2>7, <2>8, <2>9, <2>10 DEF ShardStep
  <1>4. CASE UNCHANGED vars
    <2>1. \A h \in Guilds : Untouched(h)
      BY <1>4 DEF vars, server, shard, Untouched, Arrived, Pending
    <2>2. QED
      BY <1>0, <2>1, FollowsUntouched
  <1>5. QED
    BY <1>1, <1>2, <1>3, <1>4 DEF Next, ShardStep

-----------------------------------------------------------------------------
(* What takes effect, for channels and messages. *)

(* Event e of g takes effect: of all that is pending it is the first, unless *)
(* it has nothing to do with channels, and after it the cache holds of the   *)
(* channels what e says.                                                     *)
Effect(g, e) ==
    /\ e \in Pending(g) /\ Pending(g) = Pending(g)' \cup {e} /\ e \notin Pending(g)'
    /\ e.kind \in MessageEvents \cup {"GUILD_CREATE", "GUILD_DELETE", "CHANNEL_CREATE",
                                      "CHANNEL_DELETE"}
       => \A f \in Pending(g)' : e.id < f.id
    /\ \A c \in Channels : Decides(e, "channel", c)
                           => (Cached(g, "channel", c)' <=> Puts(e, "channel", c))
    /\ \A c \in Channels : ~Decides(e, "channel", c)
                           => (Cached(g, "channel", c)' <=> Cached(g, "channel", c))
    /\ e.kind \in MessageEvents /\ e.arg \in cache[g].channels
       => seen'[g] = Append(seen[g], e.id)
    /\ e.kind \notin MessageEvents => seen'[g] = seen[g]

(* Nothing takes effect. *)
NoEffect(g) ==
    /\ Pending(g)' = Pending(g) /\ seen'[g] = seen[g]
    /\ \A c \in Channels : Cached(g, "channel", c)' <=> Cached(g, "channel", c)

(* Each handler makes the first pending event of its guild take effect. *)
LEMMA EffectCreate ==
    ASSUME TypeOK, Ordered, Lives, Sync, HandleCreate, NEW g, g = guild, NEW e, e = event
    PROVE  Effect(g, e)
  <1>1. TakeFirst({"GUILD_CREATE"}) /\ backlog' = backlog /\ replaying' = replaying
        /\ seen' = seen
    BY DEF HandleCreate
  <1>2. g \in Guilds /\ e.kind = "GUILD_CREATE"
    BY <1>1, FirstTaken
  <1>3. ~Syncing(g)
    BY <1>1, <1>2, FirstOfLife
  <1>4. backlog[g] = <<>>
    BY <1>2, <1>3 DEF Lives, LivesAt
  <1>5. /\ Pending(g) = Pending(g)' \cup {e} /\ e \in Pending(g) /\ e \notin Pending(g)'
        /\ \A f \in Pending(g)' : e.id < f.id
    BY <1>1, <1>4, FirstPending
  <1>6. cache'[g].there /\ cache'[g].channels = e.channels
    BY <1>2 DEF HandleCreate, TypeOK
  <1>7. \A c \in Channels : /\ Decides(e, "channel", c)
                           /\ (Cached(g, "channel", c)' <=> Puts(e, "channel", c))
    BY <1>2, <1>6 DEF Decides, Cached, Puts
  <1>8. QED
    BY <1>1, <1>2, <1>5, <1>7 DEF Effect, MessageEvents

LEMMA EffectDelete ==
    ASSUME TypeOK, Ordered, Lives, Sync, HandleDelete, NEW g, g = guild, NEW e, e = event
    PROVE  Effect(g, e)
  <1>1. TakeFirst({"GUILD_DELETE"}) /\ backlog' = backlog /\ replaying' = replaying
        /\ seen' = seen
    BY DEF HandleDelete
  <1>2. g \in Guilds /\ e.kind = "GUILD_DELETE"
    BY <1>1, FirstTaken
  <1>3. ~Syncing(g)
    BY <1>1, <1>2, FirstOfLife
  <1>4. backlog[g] = <<>>
    BY <1>2, <1>3 DEF Lives, LivesAt
  <1>5. /\ Pending(g) = Pending(g)' \cup {e} /\ e \in Pending(g) /\ e \notin Pending(g)'
        /\ \A f \in Pending(g)' : e.id < f.id
    BY <1>1, <1>4, FirstPending
  <1>6. ~cache'[g].there
    BY <1>2 DEF HandleDelete, TypeOK, Absent
  <1>7. \A c \in Channels : /\ Decides(e, "channel", c)
                           /\ (Cached(g, "channel", c)' <=> Puts(e, "channel", c))
    BY <1>2, <1>6 DEF Decides, Cached, Puts
  <1>8. QED
    BY <1>1, <1>2, <1>5, <1>7 DEF Effect, MessageEvents

(* An event that has nothing to do with channels or messages. *)
LEMMA EffectOther ==
    ASSUME NEW g, NEW e, e \in Pending(g), Pending(g) = Pending(g)' \cup {e}, e \notin Pending(g)',
           e.kind \notin MessageEvents \cup {"GUILD_CREATE", "GUILD_DELETE", "CHANNEL_CREATE",
                                             "CHANNEL_DELETE"},
           cache'[g].there = cache[g].there, cache'[g].channels = cache[g].channels,
           seen'[g] = seen[g]
    PROVE  Effect(g, e)
  <1>1. \A c : ~Decides(e, "channel", c) /\ (Cached(g, "channel", c)' <=> Cached(g, "channel", c))
    BY DEF Decides, Cached
  <1>2. QED
    BY <1>1 DEF Effect

LEMMA EffectChunk ==
    ASSUME TypeOK, Ordered, HandleChunk, NEW g, g = guild, NEW e, e = event
    PROVE  Effect(g, e)
  <1>1. TakeFirst({"GUILD_MEMBERS_CHUNK"}) /\ seen' = seen
    BY DEF HandleChunk
  <1>2. g \in Guilds /\ e.kind = "GUILD_MEMBERS_CHUNK" /\ e.guild = g /\ e \in ToSet(inbox)
    BY <1>1, FirstTaken DEF guild
  <1>3. /\ Pending(g) = Pending(g)' \cup {e} /\ e \notin Pending(g)' /\ e \in Pending(g)
    BY <1>2, PendingChunk DEF Pending
  <1>4. cache'[g].there = cache[g].there /\ cache'[g].channels = cache[g].channels
    BY <1>2, TypeAt DEF HandleChunk, TypeOK, Entry
  <1>5. QED
    BY <1>1, <1>2, <1>3, <1>4, EffectOther DEF MessageEvents

(* So does the handler of an event that could have been put aside. *)
LEMMA EffectApplied ==
    ASSUME TypeOK, Ordered, NEW g \in Guilds, NEW e \in Held, cache[g].there,
           Store(g, Apply(State(g), e)), Pending(g) = Pending(g)' \cup {e}, e \in Pending(g),
           \A f \in Pending(g)' : e.id < f.id
    PROVE  Effect(g, e)
  <1>1. cache'[g].there
    BY StoreEffect
  <1>2. /\ e.kind = "CHANNEL_CREATE" => cache'[g].channels = cache[g].channels \cup {e.arg}
        /\ e.kind = "CHANNEL_DELETE" => cache'[g].channels = cache[g].channels \ {e.arg}
        /\ e.kind \notin {"CHANNEL_CREATE", "CHANNEL_DELETE"}
           => cache'[g].channels = cache[g].channels
    BY StoreEffect
  <1>3. /\ e.kind \in MessageEvents /\ e.arg \in cache[g].channels
           => seen'[g] = Append(seen[g], e.id)
        /\ e.kind \notin MessageEvents => seen'[g] = seen[g]
    BY StoreEffect
  <1>4. e.kind \notin {"GUILD_CREATE", "GUILD_DELETE", "GUILD_EMOJI_UPDATE"}
    BY DEF Held, BackedUp, ChannelFirst, MessageEvents
  <1>5. ASSUME NEW c \in Channels, Decides(e, "channel", c)
        PROVE  Cached(g, "channel", c)' <=> Puts(e, "channel", c)
    BY <1>1, <1>2, <1>4, <1>5 DEF Decides, Puts, Cached
  <1>6. ASSUME NEW c \in Channels, ~Decides(e, "channel", c)
        PROVE  Cached(g, "channel", c)' <=> Cached(g, "channel", c)
    BY <1>1, <1>2, <1>4, <1>6 DEF Decides, Cached
  <1>7. e \notin Pending(g)'
    <2>1. e.id \in Nat
      BY EventFields DEF Held
    <2>2. QED
      BY <2>1
  <1>8. QED
    BY <1>3, <1>5, <1>6, <1>7 DEF Effect

(* An event of g is put aside. *)
LEMMA EffectAside ==
    ASSUME TypeOK, Ordered, TakeFirst(BackedUp \cup ChannelFirst), NEW g, g = guild,
           backlog' = [backlog EXCEPT ![guild] = Append(@, event)], replaying' = replaying,
           cache' = cache, seen' = seen
    PROVE  NoEffect(g)
  <1>1. g \in Guilds
    BY FirstTaken
  <1>2. Pending(g)' = Pending(g)
    BY <1>1, PendingAside
  <1>3. \A c \in Channels : Cached(g, "channel", c)' <=> Cached(g, "channel", c)
    BY DEF Cached
  <1>4. QED
    BY <1>2, <1>3 DEF NoEffect

(* Every step of the shard that is not a replay. *)
LEMMA ShardEffect ==
    ASSUME TypeOK, Ordered, Lives, Sync, ShardStep, ~Replay, NEW g, g = guild, NEW e, e = event
    PROVE  g \in Guilds /\ (Effect(g, e) \/ NoEffect(g))
  <1>0. ASSUME NEW K, TakeFirst(K)
        PROVE  g \in Guilds /\ cache[g] \in Entry
    BY <1>0, FirstTaken, TypeAt
  <1>1. CASE HandleCreate
    BY <1>0, <1>1, EffectCreate DEF HandleCreate
  <1>2. CASE HandleDelete
    BY <1>0, <1>2, EffectDelete DEF HandleDelete
  <1>3. CASE HandleChunk
    BY <1>0, <1>3, EffectChunk DEF HandleChunk
  <1>4. CASE HandleChunkUnknown
    <2>1. TakeFirst({"GUILD_MEMBERS_CHUNK"}) /\ ~cache[g].there
      BY <1>4 DEF HandleChunkUnknown
    <2>2. event.kind = "GUILD_MEMBERS_CHUNK"
      BY <2>1, FirstTaken
    <2>3. cache[g].there
      BY <2>1, <2>2, FirstOfLife
    <2>4. QED
      BY <2>1, <2>3
  <1>5. CASE HandleEvent
    <2>1. /\ TakeFirst(BackedUp) /\ e \in Held /\ g \in Guilds /\ e.guild = g
          /\ replaying' = replaying /\ replaying = <<>> /\ left' = left /\ asked' = asked
          /\ \/ /\ Syncing(g) /\ backlog' = [backlog EXCEPT ![g] = Append(@, e)]
                /\ cache' = cache /\ seen' = seen
             \/ cache[g].ready /\ backlog' = backlog /\ Store(g, Apply(State(g), e))
      BY <1>5, EventEnds
    <2>2. CASE backlog' = [backlog EXCEPT ![g] = Append(@, e)] /\ cache' = cache /\ seen' = seen
      <3>1. TakeFirst(BackedUp \cup ChannelFirst)
        BY <2>1 DEF TakeFirst
      <3>2. QED
        BY <2>1, <2>2, <3>1, EffectAside
    <2>3. CASE cache[g].ready /\ backlog' = backlog /\ Store(g, Apply(State(g), e))
      <3>1. backlog[g] = <<>> /\ cache[g].there
        BY <2>1, <2>3 DEF Lives, LivesAt, Syncing
      <3>2. /\ Pending(g) = Pending(g)' \cup {e} /\ e \in Pending(g)
            /\ \A f \in Pending(g)' : e.id < f.id
        BY <2>1, <2>3, <3>1, FirstPending
      <3>3. QED
        BY <2>1, <2>3, <3>1, <3>2, EffectApplied
    <2>4. QED
      BY <2>1, <2>2, <2>3
  <1>6. ASSUME NEW K, TakeFirst(K),
               event.kind \in ChannelFirst \cup {"CHANNEL_UPDATE", "GUILD_EMOJI_UPDATE"},
               backlog' = backlog, replaying' = replaying, seen' = seen,
               cache'[g].there = cache[g].there, cache'[g].channels = cache[g].channels
        PROVE  g \in Guilds /\ Effect(g, e)
    <2>1. /\ g \in Guilds /\ Pending(g) = Pending(g)' \cup {e} /\ e \in Pending(g)
          /\ e \notin Pending(g)'
      BY <1>6, FirstPending
    <2>2. QED
      BY <1>6, <2>1, EffectOther DEF ChannelFirst, MessageEvents
  <1>7. CASE HandleUpdate
    <2>1. TakeFirst({"CHANNEL_UPDATE"}) /\ event.kind = "CHANNEL_UPDATE"
      BY <1>7, FirstTaken DEF HandleUpdate
    <2>2. QED
      BY <1>6, <1>7, <2>1 DEF HandleUpdate
  <1>8. CASE HandleEmojis
    <2>1. TakeFirst({"GUILD_EMOJI_UPDATE"}) /\ event.kind = "GUILD_EMOJI_UPDATE"
      BY <1>8, FirstTaken DEF HandleEmojis
    <2>2. g \in Guilds /\ cache[g] \in Entry
      BY <1>0, <2>1
    <2>3. cache'[g].there = cache[g].there /\ cache'[g].channels = cache[g].channels
      BY <1>8, <2>2 DEF HandleEmojis, TypeOK, Entry
    <2>4. QED
      BY <1>6, <1>8, <2>1, <2>3 DEF HandleEmojis
  <1>9. CASE HandleTyping
    <2>1. TakeFirst(ChannelFirst) /\ TakeFirst(BackedUp \cup ChannelFirst)
          /\ event.kind \in ChannelFirst
      BY <1>9, FirstTaken DEF HandleTyping, TakeFirst
    <2>2. CASE backlog' = backlog
      BY <1>6, <1>9, <2>1, <2>2 DEF HandleTyping
    <2>3. CASE backlog' = [backlog EXCEPT ![guild] = Append(@, event)]
      BY <1>0, <1>9, <2>1, <2>3, EffectAside DEF HandleTyping
    <2>4. QED
      BY <1>9, <2>2, <2>3 DEF HandleTyping
  <1>10. QED
    BY <1>1, <1>2, <1>3, <1>4, <1>5, <1>7, <1>8, <1>9 DEF ShardStep

(* And the replay of one. *)
LEMMA EffectReplay ==
    ASSUME TypeOK, Ordered, Lives, Replay, NEW e, e = Head(replaying), NEW g, g = e.guild
    PROVE  g \in Guilds /\ Effect(g, e)
  <1>1. e \in Held /\ g \in Guilds /\ Store(g, Apply(State(g), e))
    BY ReplayEffect
  <1>2. e \in ToSet(replaying)
    BY NextReplayed
  <1>3. cache[g].there
    BY <1>1, <1>2 DEF Lives, LivesAt
  <1>4. Pending(g) = Pending(g)' \cup {e} /\ \A f \in Pending(g)' : e.id < f.id
    BY <1>1, PendingReplay
  <1>5. e \in Pending(g)
    BY <1>4
  <1>6. QED
    BY <1>1, <1>3, <1>4, <1>5, EffectApplied

-----------------------------------------------------------------------------
(* Every message is delivered. *)

(* The channel of the message event e of g is known when its turn comes: it  *)
(* is cached unless an event before it decides that.                         *)
KnownIn(g, e) ==
    /\ (\A f \in Pending(g) : f.id < e.id => ~Decides(f, "channel", e.arg))
       => Cached(g, "channel", e.arg)
    /\ \A f \in Pending(g) :
        /\ f.id < e.id /\ Decides(f, "channel", e.arg)
        /\ \A h \in Pending(g) : h.id < e.id /\ Decides(h, "channel", e.arg) => h.id <= f.id
        => Puts(f, "channel", e.arg)

KnownAt(g) == \A e \in Pending(g) : e.kind \in MessageEvents => KnownIn(g, e)

(* What was given to callbacks is the beginning of what was posted, and the  *)
(* rest is pending.                                                          *)
DeliveredAt(g) ==
    /\ \A i, j \in DOMAIN posted[g] : i < j => posted[g][i] < posted[g][j]
    /\ \A i \in DOMAIN posted[g] : posted[g][i] \in 1..sent
    /\ Len(seen[g]) <= Len(posted[g])
    /\ \A i \in DOMAIN seen[g] : seen[g][i] = posted[g][i]
    /\ \A i \in DOMAIN posted[g] : i > Len(seen[g]) =>
        \E e \in Pending(g) : e.kind \in MessageEvents /\ e.id = posted[g][i]
    /\ \A e \in Pending(g) : e.kind \in MessageEvents =>
        \E i \in DOMAIN posted[g] : i > Len(seen[g]) /\ e.id = posted[g][i]

Delivered == \A g \in Guilds : KnownAt(g) /\ DeliveredAt(g)

LEMMA DeliveredInit == Init => Delivered
  <1> SUFFICES ASSUME Init, NEW g \in Guilds
               PROVE  KnownAt(g) /\ DeliveredAt(g)
    BY DEF Delivered
  <1>1. inbox = <<>> /\ replaying = <<>> /\ backlog[g] = <<>> /\ posted[g] = <<>> /\ seen[g] = <<>>
    BY DEF Init
  <1>2. Pending(g) = {}
    BY <1>1 DEF Pending, ToSet
  <1>3. QED
    BY <1>1, <1>2 DEF KnownAt, DeliveredAt

(* Nothing happens to the channels of g; an event is sent; one takes effect. *)
LEMMA KnownKept ==
    ASSUME TypeOK, Ordered, NEW g \in Guilds, KnownAt(g), Pending(g)' = Pending(g),
           \A c \in Channels : Cached(g, "channel", c)' <=> Cached(g, "channel", c)
    PROVE  KnownAt(g)'
  <1>1. \A f, c : (Decides(f, "channel", c)' <=> Decides(f, "channel", c))
                  /\ (Puts(f, "channel", c)' <=> Puts(f, "channel", c))
    BY DEF Decides, Puts
  <1>2. ASSUME NEW e \in Pending(g), e.kind \in MessageEvents
        PROVE  KnownIn(g, e)'
    <2>1. e.arg \in Channels /\ KnownIn(g, e)
      BY <1>2, PendingEvents, EventFields DEF ChannelEvents, KnownAt
    <2>2. QED
      BY <1>1, <2>1 DEF KnownIn
  <1>3. QED
    BY <1>2 DEF KnownAt, MessageEvents

LEMMA KnownSend ==
    ASSUME TypeOK, Ordered, NEW g \in Guilds, KnownAt(g), FollowsAt(g),
           NEW e \in Event, e.id = sent + 1, Pending(g)' = Pending(g) \cup {e},
           e.kind \in MessageEvents => exists[g] /\ e.arg \in channels[g],
           \A c \in Channels : Cached(g, "channel", c)' <=> Cached(g, "channel", c)
    PROVE  KnownAt(g)'
  <1>1. \A f, c : (Decides(f, "channel", c)' <=> Decides(f, "channel", c))
                  /\ (Puts(f, "channel", c)' <=> Puts(f, "channel", c))
    BY DEF Decides, Puts
  <1>2. \A f \in Pending(g) : f.id < e.id /\ ~(e.id < f.id) /\ ~(e.id < e.id)
    <2>1. sent \in Nat
      BY DEF TypeOK
    <2>2. QED
      BY <2>1, PendingEvents
  <1>3. ASSUME NEW f \in Pending(g), f.kind \in MessageEvents
        PROVE  KnownIn(g, f)'
    <2>1. f.arg \in Channels /\ KnownIn(g, f)
      BY <1>3, PendingEvents, EventFields DEF ChannelEvents, KnownAt
    <2>2. QED
      BY <1>1, <1>2, <2>1 DEF KnownIn
  <1>4. ASSUME e.kind \in MessageEvents
        PROVE  KnownIn(g, e)'
    <2>1. e.arg \in Channels /\ ~Decides(e, "channel", e.arg)
      BY <1>4, EventFields DEF ChannelEvents, Decides, MessageEvents
    <2>2. FollowsIn(g, "channel", e.arg) /\ Has(g, "channel", e.arg)
      BY <1>4, <2>1 DEF FollowsAt, Parts, Things, Has
    <2>3. (\A f \in Pending(g) : ~Decides(f, "channel", e.arg)) => Cached(g, "channel", e.arg)
      BY <2>2 DEF FollowsIn
    <2>4. \A f \in Pending(g) :
              /\ Decides(f, "channel", e.arg)
              /\ \A h \in Pending(g) : Decides(h, "channel", e.arg) => h.id <= f.id
              => Puts(f, "channel", e.arg)
      BY <2>2 DEF FollowsIn
    <2>5. ASSUME \A f \in Pending(g)' : f.id < e.id => ~Decides(f, "channel", e.arg)
          PROVE  Cached(g, "channel", e.arg)'
      BY <1>2, <2>1, <2>3, <2>5
    <2>6. ASSUME NEW f \in Pending(g)', f.id < e.id, Decides(f, "channel", e.arg),
                 \A h \in Pending(g)' : h.id < e.id /\ Decides(h, "channel", e.arg) => h.id <= f.id
          PROVE  Puts(f, "channel", e.arg)
      BY <1>2, <2>1, <2>4, <2>6
    <2>7. QED
      BY <1>1, <2>5, <2>6 DEF KnownIn
  <1>5. QED
    BY <1>3, <1>4 DEF KnownAt, MessageEvents

LEMMA KnownTake ==
    ASSUME TypeOK, Ordered, NEW g \in Guilds, KnownAt(g), NEW e, Effect(g, e)
    PROVE  KnownAt(g)'
  <1>1. \A f, c : (Decides(f, "channel", c)' <=> Decides(f, "channel", c))
                  /\ (Puts(f, "channel", c)' <=> Puts(f, "channel", c))
    BY DEF Decides, Puts
  <1>2. /\ Pending(g) = Pending(g)' \cup {e}
        /\ \A f \in Pending(g) : f.id \in Nat
    BY PendingEvents DEF Effect
  <1>3. ASSUME NEW f \in Pending(g)', f.kind \in MessageEvents
        PROVE  KnownIn(g, f)'
    <2>1. PICK c : c = f.arg
      OBVIOUS
    <2>2. c \in Channels /\ KnownIn(g, f)
      BY <1>2, <1>3, <2>1, PendingEvents, EventFields DEF ChannelEvents, KnownAt
    <2>3. CASE Decides(e, "channel", c)
      <3>1. Cached(g, "channel", c)' <=> Puts(e, "channel", c)
        BY <2>2, <2>3 DEF Effect
      <3>2. \A h \in Pending(g)' : e.id < h.id /\ e.id <= h.id
        <4>1. \A h \in Pending(g)' : e.id < h.id
          BY <2>3 DEF Effect, Decides
        <4>2. QED
          BY <1>2, <4>1
      <3>3. ASSUME \A h \in Pending(g)' : h.id < f.id => ~Decides(h, "channel", c)
            PROVE  Cached(g, "channel", c)'
        <4>1. \A h \in Pending(g) : h.id < f.id /\ Decides(h, "channel", c) => h.id <= e.id
          BY <1>2, <3>3
        <4>2. Puts(e, "channel", c)
          BY <1>2, <2>1, <2>2, <2>3, <3>2, <4>1 DEF KnownIn
        <4>3. QED
          BY <3>1, <4>2
      <3>4. ASSUME NEW d \in Pending(g)', d.id < f.id, Decides(d, "channel", c),
                   \A h \in Pending(g)' : h.id < f.id /\ Decides(h, "channel", c) => h.id <= d.id
            PROVE  Puts(d, "channel", c)
        <4>1. \A h \in Pending(g) : h.id < f.id /\ Decides(h, "channel", c) => h.id <= d.id
          BY <1>2, <3>2, <3>4
        <4>2. QED
          BY <1>2, <2>1, <2>2, <3>4, <4>1 DEF KnownIn
      <3>5. QED
        BY <1>1, <2>1, <3>3, <3>4 DEF KnownIn
    <2>4. CASE ~Decides(e, "channel", c)
      <3>1. Cached(g, "channel", c)' <=> Cached(g, "channel", c)
        BY <2>2, <2>4 DEF Effect
      <3>2. QED
        BY <1>1, <1>2, <2>1, <2>2, <2>4, <3>1 DEF KnownIn
    <2>5. QED
      BY <2>3, <2>4
  <1>4. QED
    BY <1>3 DEF KnownAt, MessageEvents

(* Nothing is posted or delivered in g; an event is sent; one takes effect. *)
LEMMA DeliveredKept ==
    ASSUME TypeOK, NEW g \in Guilds, DeliveredAt(g), Pending(g)' = Pending(g), seen'[g] = seen[g],
           posted'[g] = posted[g], sent' \in Nat, sent <= sent'
    PROVE  DeliveredAt(g)'
  <1>1. \A i \in DOMAIN posted[g] : posted[g][i] \in 1..sent'
    <2>1. sent \in Nat
      BY DEF TypeOK
    <2>2. QED
      BY <2>1 DEF DeliveredAt
  <1>2. QED
    BY <1>1 DEF DeliveredAt, MessageEvents

LEMMA DeliveredSend ==
    ASSUME TypeOK, Ordered, NEW g \in Guilds, DeliveredAt(g),
           NEW e \in Event, e.id = sent + 1, sent' = sent + 1, Pending(g)' = Pending(g) \cup {e},
           e.kind \in MessageEvents => posted'[g] = Append(posted[g], e.id),
           e.kind \notin MessageEvents => posted'[g] = posted[g],
           seen'[g] = seen[g]
    PROVE  DeliveredAt(g)'
  <1>1. sent \in Nat /\ posted[g] \in Seq(Nat) /\ seen[g] \in Seq(Nat)
    BY TypeAt DEF TypeOK
  <1>2. CASE e.kind \notin MessageEvents
    <2>1. \A i \in DOMAIN posted[g] : posted[g][i] \in 1..sent'
      BY <1>1 DEF DeliveredAt
    <2>2. QED
      BY <1>2, <2>1 DEF DeliveredAt, MessageEvents
  <1>3. CASE e.kind \in MessageEvents
    <2>1. PICK n \in Nat : n = Len(posted[g])
      BY <1>1
    <2>2. /\ DOMAIN posted[g] = 1..n /\ DOMAIN posted'[g] = 1..(n + 1) /\ Len(posted'[g]) = n + 1
          /\ \A i \in 1..n : posted'[g][i] = posted[g][i]
          /\ posted'[g][n + 1] = sent + 1
      BY <1>1, <1>3, <2>1
    <2>3. DOMAIN seen[g] = 1..Len(seen[g]) /\ Len(seen[g]) \in Nat /\ Len(seen[g]) <= n
      BY <1>1, <2>1 DEF DeliveredAt
    <2>4. \A i \in 1..n : posted[g][i] \in 1..sent
      BY <2>2 DEF DeliveredAt
    <2>5. \A i, j \in 1..(n + 1) : i < j => posted'[g][i] < posted'[g][j]
      <3>1. \A i, j \in 1..n : i < j => posted[g][i] < posted[g][j]
        BY <2>2 DEF DeliveredAt
      <3>2. ASSUME NEW i \in 1..(n + 1), NEW j \in 1..(n + 1), i < j
            PROVE  posted'[g][i] < posted'[g][j]
        <4>1. i \in 1..n
          BY <2>1, <3>2
        <4>2. CASE j = n + 1
          BY <1>1, <2>1, <2>2, <2>4, <4>1, <4>2
        <4>3. CASE j \in 1..n
          BY <2>2, <3>1, <3>2, <4>1, <4>3
        <4>4. QED
          BY <4>2, <4>3
      <3>3. QED
        BY <3>2
    <2>6. \A i \in 1..(n + 1) : posted'[g][i] \in 1..sent'
      <3>1. \A i \in 1..n : posted'[g][i] \in 1..sent'
        <4>1. \A j \in 1..sent : j \in 1..(sent + 1)
          BY <1>1
        <4>2. QED
          BY <2>2, <2>4, <4>1
      <3>2. posted'[g][n + 1] \in 1..sent'
        BY <1>1, <2>2
      <3>3. QED
        BY <3>1, <3>2
    <2>7. \A i \in DOMAIN seen[g] : seen[g][i] = posted'[g][i]
      BY <2>2, <2>3 DEF DeliveredAt
    <2>8. ASSUME NEW i \in 1..(n + 1), i > Len(seen[g])
          PROVE  \E f \in Pending(g)' : f.kind \in MessageEvents /\ f.id = posted'[g][i]
      <3>1. CASE i = n + 1
        BY <1>3, <2>2, <3>1
      <3>2. CASE i \in 1..n
        BY <2>2, <2>8, <3>2 DEF DeliveredAt
      <3>3. QED
        BY <3>1, <3>2
    <2>9. ASSUME NEW f \in Pending(g)', f.kind \in MessageEvents
          PROVE  \E i \in 1..(n + 1) : i > Len(seen[g]) /\ f.id = posted'[g][i]
      <3>1. CASE f = e
        BY <2>2, <2>3, <3>1
      <3>2. CASE f \in Pending(g)
        BY <2>2, <2>9, <3>2 DEF DeliveredAt
      <3>3. QED
        BY <3>1, <3>2
    <2>10. /\ \A j \in DOMAIN posted'[g] : j > Len(seen[g]) =>
                \E f \in Pending(g)' : f.kind \in MessageEvents /\ f.id = posted'[g][j]
           /\ \A f \in Pending(g)' : f.kind \in MessageEvents =>
                \E j \in DOMAIN posted'[g] : j > Len(seen[g]) /\ f.id = posted'[g][j]
      BY <2>2, <2>8, <2>9
    <2>11. /\ \A i, j \in DOMAIN posted'[g] : i < j => posted'[g][i] < posted'[g][j]
           /\ \A i \in DOMAIN posted'[g] : posted'[g][i] \in 1..sent'
           /\ Len(seen[g]) <= Len(posted'[g])
      BY <2>1, <2>2, <2>3, <2>5, <2>6
    <2>12. QED
      BY <2>7, <2>10, <2>11 DEF DeliveredAt, MessageEvents
  <1>4. QED
    BY <1>2, <1>3

LEMMA DeliveredTake ==
    ASSUME TypeOK, Ordered, NEW g \in Guilds, KnownAt(g), DeliveredAt(g), NEW e, Effect(g, e),
           posted'[g] = posted[g], sent' = sent
    PROVE  DeliveredAt(g)'
  <1>1. /\ e \in Pending(g) /\ Pending(g) = Pending(g)' \cup {e}
        /\ \A f \in Pending(g) : f.id \in Nat
    BY PendingEvents DEF Effect
  <1>2. CASE e.kind \notin MessageEvents
    <2>1. seen'[g] = seen[g]
      BY <1>2 DEF Effect
    <2>2. QED
      BY <1>1, <1>2, <2>1 DEF DeliveredAt, MessageEvents
  <1>3. CASE e.kind \in MessageEvents
    <2>1. \A f \in Pending(g)' : e.id < f.id
      BY <1>3 DEF Effect
    <2>2. e.arg \in cache[g].channels
      <3>1. \A f \in Pending(g) : ~(f.id < e.id)
        BY <1>1, <2>1
      <3>2. Cached(g, "channel", e.arg)
        BY <1>1, <1>3, <3>1 DEF KnownAt, KnownIn
      <3>3. QED
        BY <3>2 DEF Cached
    <2>3. seen'[g] = Append(seen[g], e.id)
      BY <1>3, <2>2 DEF Effect
    <2>4. posted[g] \in Seq(Nat) /\ seen[g] \in Seq(Nat) /\ e.id \in Nat
      BY <1>1, TypeAt
    <2>5. PICK n, k \in Nat : n = Len(posted[g]) /\ k = Len(seen[g])
      BY <2>4
    <2>6. /\ DOMAIN posted[g] = 1..n /\ DOMAIN seen[g] = 1..k /\ DOMAIN seen'[g] = 1..(k + 1)
          /\ Len(seen'[g]) = k + 1 /\ \A i \in 1..k : seen'[g][i] = seen[g][i]
          /\ seen'[g][k + 1] = e.id /\ \A i \in 1..n : posted[g][i] \in Nat
      BY <2>3, <2>4, <2>5
    <2>7. /\ \A i, j \in 1..n : i < j => posted[g][i] < posted[g][j]
          /\ \A i \in 1..k : seen[g][i] = posted[g][i]
          /\ \A i \in 1..n : i > k =>
                \E f \in Pending(g) : f.kind \in MessageEvents /\ f.id = posted[g][i]
          /\ \A f \in Pending(g) : f.kind \in MessageEvents =>
                \E i \in 1..n : i > k /\ f.id = posted[g][i]
      BY <2>5, <2>6 DEF DeliveredAt
    <2>8. PICK i \in 1..n : i > k /\ e.id = posted[g][i]
      BY <1>1, <1>3, <2>7
    <2>9. i = k + 1
      <3>1. SUFFICES ASSUME i # k + 1
                     PROVE  FALSE
        OBVIOUS
      <3>2. k + 1 \in 1..n /\ k + 1 < i /\ k + 1 > k
        BY <2>8, <3>1
      <3>3. PICK f \in Pending(g) : f.id = posted[g][k + 1]
        BY <2>7, <3>2
      <3>4. f.id < e.id
        BY <2>7, <2>8, <3>2, <3>3
      <3>5. QED
        BY <1>1, <2>1, <3>3, <3>4
    <2>10. k + 1 \in 1..n /\ posted[g][k + 1] = e.id
      BY <2>8, <2>9
    <2>11. ASSUME NEW j \in 1..(k + 1)
           PROVE  seen'[g][j] = posted[g][j]
      <3>1. CASE j = k + 1
        BY <2>6, <2>10, <3>1
      <3>2. CASE j \in 1..k
        BY <2>6, <2>7, <3>2
      <3>3. QED
        BY <3>1, <3>2
    <2>12. ASSUME NEW j \in 1..n, j > k + 1
           PROVE  \E f \in Pending(g)' : f.kind \in MessageEvents /\ f.id = posted[g][j]
      <3>1. j > k /\ k + 1 < j
        BY <2>12
      <3>2. PICK f \in Pending(g) : f.kind \in MessageEvents /\ f.id = posted[g][j]
        BY <2>7, <3>1
      <3>3. e.id < f.id
        BY <2>7, <2>10, <3>1, <3>2
      <3>4. f # e
        BY <2>4, <3>3
      <3>5. QED
        BY <1>1, <3>2, <3>4
    <2>13. ASSUME NEW f \in Pending(g)', f.kind \in MessageEvents
           PROVE  \E j \in 1..n : j > k + 1 /\ f.id = posted[g][j]
      <3>1. PICK j \in 1..n : j > k /\ f.id = posted[g][j]
        BY <1>1, <2>7, <2>13
      <3>2. e.id < f.id
        BY <2>1
      <3>3. j # k + 1
        BY <2>4, <2>10, <3>1, <3>2
      <3>4. QED
        BY <3>1, <3>3
    <2>14. \A j \in DOMAIN posted[g] : posted[g][j] \in 1..sent'
      BY DEF DeliveredAt
    <2>15. k + 1 <= n
      BY <2>10
    <2>16. /\ \A j \in DOMAIN posted[g] : j > Len(seen'[g]) =>
                \E f \in Pending(g)' : f.kind \in MessageEvents /\ f.id = posted[g][j]
           /\ \A f \in Pending(g)' : f.kind \in MessageEvents =>
                \E j \in DOMAIN posted[g] : j > Len(seen'[g]) /\ f.id = posted[g][j]
      BY <2>6, <2>12, <2>13
    <2>17. /\ \A i1, j \in DOMAIN posted[g] : i1 < j => posted[g][i1] < posted[g][j]
           /\ Len(seen'[g]) <= Len(posted[g])
           /\ \A j \in DOMAIN seen'[g] : seen'[g][j] = posted[g][j]
      BY <2>5, <2>6, <2>7, <2>11, <2>15
    <2>18. QED
      BY <2>14, <2>16, <2>17 DEF DeliveredAt, MessageEvents
  <1>4. QED
    BY <1>2, <1>3

(* Every step keeps what is delivered a prefix of what was posted. *)
LEMMA DeliveredStep ==
    Orderly /\ TypeOK /\ Ordered /\ Lives /\ Sync /\ Follows /\ Delivered /\ [Next]_vars
    => Delivered'
  <1> SUFFICES ASSUME Orderly, TypeOK, Ordered, Lives, Sync, Follows, Delivered, [Next]_vars
               PROVE  \A h \in Guilds : KnownAt(h)' /\ DeliveredAt(h)'
    BY DEF Delivered
  <1>0. \A h \in Guilds : KnownAt(h) /\ DeliveredAt(h) /\ FollowsAt(h)
    BY DEF Delivered, Follows
  <1>1. ASSUME NEW h \in Guilds, Untouched(h), sent' \in Nat, sent <= sent'
        PROVE  KnownAt(h)' /\ DeliveredAt(h)'
    <2>1. \A c \in Channels : Cached(h, "channel", c)' <=> Cached(h, "channel", c)
      BY <1>1 DEF Cached, Untouched
    <2>2. Pending(h)' = Pending(h) /\ seen'[h] = seen[h] /\ posted'[h] = posted[h]
      BY <1>1 DEF Untouched
    <2>3. QED
      BY <1>0, <1>1, <2>1, <2>2, KnownKept, DeliveredKept
  <1>2. sent \in Nat
    BY DEF TypeOK
  <1>3. CASE ServerStep
    <2>1. PICK g \in Guilds :
               \/ \E ms \in SUBSET Members, cs \in SUBSET Channels : Create(g, ms, cs)
               \/ Vanish(g) \/ Answer(g) \/ SendChunk(g)
               \/ \E e \in Event : Tells(g, e)
      BY <1>3, ServerCases
    <2>2. UNCHANGED shard
      BY <2>1 DEF Create, Vanish, Answer, SendChunk, Tells
    <2>3. /\ \A c \in Channels : Cached(g, "channel", c)' <=> Cached(g, "channel", c)
          /\ seen'[g] = seen[g]
      BY <2>2 DEF shard, Cached
    <2>4. CASE Answer(g)
      <3>1. Pending(g)' = Pending(g) /\ posted' = posted /\ sent' = sent
        BY <2>2, <2>4 DEF Answer, shard, Pending
      <3>2. KnownAt(g)' /\ DeliveredAt(g)'
        BY <1>0, <1>2, <2>3, <3>1, KnownKept, DeliveredKept
      <3>3. \A h \in Guilds : h # g => KnownAt(h)' /\ DeliveredAt(h)'
        BY <1>1, <1>2, <2>4, <3>1, ServerElsewhere
      <3>4. QED
        BY <3>2, <3>3
    <2>5. CASE ~Answer(g)
      <3>1. PICK e \in Event : /\ Dispatch(e) /\ e.guild = g /\ e.id = sent + 1
                               /\ (e.kind \in MessageEvents => Tells(g, e))
                               /\ (e.kind \notin MessageEvents => posted' = posted)
        <4>1. CASE \E e \in Event : Tells(g, e)
          BY <4>1 DEF Tells
        <4>2. CASE ~\E e \in Event : Tells(g, e)
          <5>1. PICK e \in Event : /\ Dispatch(e) /\ e.guild = g /\ e.id = sent + 1
                                   /\ (e.kind \in MessageEvents => Tells(g, e))
            BY <2>1, <2>5, SentEvent
          <5>2. posted' = posted
            BY <2>1, <2>5, <4>2 DEF Create, Vanish, SendChunk
          <5>3. QED
            BY <5>1, <5>2
        <4>3. QED
          BY <4>1, <4>2
      <3>2. sent' = sent + 1 /\ Pending(g)' = Pending(g) \cup {e}
        BY <2>2, <3>1, Dispatched, PendingSend DEF shard
      <3>3. /\ e.kind \in MessageEvents => /\ posted'[g] = Append(posted[g], e.id)
                                           /\ exists[g] /\ e.arg \in channels[g]
            /\ e.kind \notin MessageEvents => posted'[g] = posted[g]
        BY <3>1 DEF Tells, Alive, Orderly, TypeOK
      <3>4. KnownAt(g)' /\ DeliveredAt(g)'
        BY <1>0, <2>3, <3>1, <3>2, <3>3, KnownSend, DeliveredSend
      <3>5. \A h \in Guilds : h # g => KnownAt(h)' /\ DeliveredAt(h)'
        <4>1. sent' \in Nat /\ sent <= sent'
          BY <1>2, <3>2
        <4>2. QED
          BY <1>1, <2>1, <4>1, ServerElsewhere
      <3>6. QED
        BY <3>4, <3>5
    <2>6. QED
      BY <2>4, <2>5
  <1>4. CASE Replay
    <2>1. PICK e, g : e = Head(replaying) /\ g = e.guild
      OBVIOUS
    <2>2. g \in Guilds /\ Effect(g, e)
      BY <1>4, <2>1, EffectReplay
    <2>3. posted' = posted /\ sent' = sent
      BY <1>4 DEF Replay, server
    <2>4. KnownAt(g)' /\ DeliveredAt(g)'
      BY <1>0, <2>2, <2>3, KnownTake, DeliveredTake
    <2>5. \A h \in Guilds : h # g => KnownAt(h)' /\ DeliveredAt(h)'
      BY <1>1, <1>2, <1>4, <2>1, <2>3, ReplayElsewhere
    <2>6. QED
      BY <2>4, <2>5
  <1>5. CASE ShardStep /\ ~Replay
    <2>1. PICK e, g : e = event /\ g = guild
      OBVIOUS
    <2>2. g \in Guilds /\ (Effect(g, e) \/ NoEffect(g))
      BY <1>5, <2>1, ShardEffect
    <2>3. posted' = posted /\ sent' = sent
      BY <1>5 DEF ShardStep, HandleCreate, HandleDelete, HandleChunk, HandleChunkUnknown,
                  HandleEvent, HandleUpdate, HandleEmojis, HandleTyping, TakeFirst
    <2>6. \A h \in Guilds : h # g => KnownAt(h)' /\ DeliveredAt(h)'
      BY <1>1, <1>2, <1>5, <2>1, <2>3, ShardElsewhere
    <2>7. KnownAt(g)' /\ DeliveredAt(g)'
      <3>1. CASE Effect(g, e)
        BY <1>0, <2>2, <2>3, <3>1, KnownTake, DeliveredTake
      <3>2. CASE NoEffect(g)
        BY <1>0, <1>2, <2>2, <2>3, <3>2, KnownKept, DeliveredKept DEF NoEffect
      <3>3. QED
        BY <2>2, <3>1, <3>2
    <2>8. QED
      BY <2>6, <2>7
  <1>6. CASE UNCHANGED vars
    <2>1. \A h \in Guilds : Untouched(h)
      BY <1>6 DEF vars, server, shard, Untouched, Arrived, Pending
    <2>2. QED
      BY <1>1, <1>2, <1>6, <2>1 DEF vars, server
  <1>7. QED
    BY <1>3, <1>4, <1>5, <1>6 DEF Next, ShardStep

(* What is delivered is a prefix of what was posted. *)
LEMMA DeliveredMeans == TypeOK /\ Delivered => MessagesInOrder
  <1> SUFFICES ASSUME TypeOK, Delivered, NEW g \in Guilds
               PROVE  IsPrefix(seen[g], posted[g])
    BY DEF MessagesInOrder
  <1>1. seen[g] \in Seq(Nat) /\ posted[g] \in Seq(Nat)
    BY TypeAt
  <1>2. /\ Len(seen[g]) <= Len(posted[g])
        /\ \A i \in 1..Len(seen[g]) : seen[g][i] = posted[g][i]
    BY <1>1 DEF Delivered, DeliveredAt
  <1>3. seen[g] = SubSeq(posted[g], 1, Len(seen[g]))
    BY <1>1, <1>2
  <1>4. QED
    BY <1>1, <1>2, <1>3 DEF IsPrefix

-----------------------------------------------------------------------------
(* Everybody is known. *)

(* The news on the wire that m left g. *)
Leaving(g, m) == {r \in Arrived(g) : r.kind = "GUILD_MEMBER_REMOVE" /\ r.arg = m}

(* Whoever has to be known of a guild that waits for its members is told of, *)
(* or the news that he left is on the wire before every chunk; whoever a     *)
(* GUILD_CREATE names is still a member, or that news comes after it.        *)
EverybodyAt(g) ==
    /\ cache[g].ready => complete[g] \subseteq cache[g].members
    /\ \A e \in ToSet(backlog[g]) \cup ToSet(replaying) :
           e.kind = "GUILD_MEMBER_REMOVE" /\ e.guild = g => e.arg \notin complete[g]
    /\ Syncing(g) => \A m \in complete[g] :
           Told(g, m) \/ \E r \in Leaving(g, m) : \A c \in Chunks(g) : r.id < c.id
    /\ \A d \in Arrived(g) : d.kind = "GUILD_CREATE" =>
           \A m \in d.members : m \in members[g] \/ \E r \in Leaving(g, m) : d.id < r.id

Everybody == \A g \in Guilds : EverybodyAt(g)

LEMMA EverybodyInit == Init => Everybody
  <1> SUFFICES ASSUME Init, NEW g \in Guilds
               PROVE  EverybodyAt(g)
    BY DEF Everybody
  <1>1. /\ Arrived(g) = {} /\ ToSet(replaying) = {} /\ ToSet(backlog[g]) = {}
        /\ ~cache[g].there /\ ~cache[g].ready /\ complete[g] = {}
    BY DEF Init, Arrived, ToSet, Absent
  <1>2. QED
    BY <1>1 DEF EverybodyAt, Syncing

(* What a step that does not make g ready has to leave alone. *)
LEMMA EverybodyKept ==
    ASSUME NEW g, EverybodyAt(g),
           cache'[g].there = cache[g].there, cache'[g].ready = cache[g].ready,
           complete'[g] \subseteq complete[g],
           cache[g].ready => complete'[g] \subseteq cache'[g].members,
           \A e \in ToSet(backlog'[g]) \cup ToSet(replaying') :
               e.kind = "GUILD_MEMBER_REMOVE" /\ e.guild = g
               => e \in ToSet(backlog[g]) \cup ToSet(replaying) \/ e.arg \notin complete'[g],
           Syncing(g) => \A m \in complete'[g] : Told(g, m) =>
               Told(g, m)' \/ \E r \in Leaving(g, m)' : \A c \in Chunks(g)' : r.id < c.id,
           \A m : \A r \in Leaving(g, m) :
               \/ r \in Leaving(g, m)'
               \/ m \notin complete'[g] /\ \A d \in Arrived(g)' : d.kind # "GUILD_CREATE",
           \A c \in Chunks(g)' : c \in Chunks(g) \/ \A r \in Arrived(g) : r.id < c.id,
           \A d \in Arrived(g)' : d.kind = "GUILD_CREATE" =>
               \/ d.members \subseteq members'[g]
               \/ /\ d \in Arrived(g)
                  /\ \A m \in members[g] :
                        m \in members'[g] \/ \E r \in Leaving(g, m)' : d.id < r.id
    PROVE  EverybodyAt(g)'
  <1>1. Syncing(g)' <=> Syncing(g)
    BY DEF Syncing
  <1>2. \A m : \A r \in Leaving(g, m) : r \in Arrived(g)
    BY DEF Leaving
  <1>3. ASSUME Syncing(g), NEW m \in complete'[g]
        PROVE  Told(g, m)' \/ \E r \in Leaving(g, m)' : \A c \in Chunks(g)' : r.id < c.id
    <2>1. CASE Told(g, m)
      BY <1>3, <2>1
    <2>2. CASE ~Told(g, m)
      <3>1. PICK r \in Leaving(g, m) : \A c \in Chunks(g) : r.id < c.id
        BY <1>3, <2>2 DEF EverybodyAt
      <3>2. r \in Leaving(g, m)' /\ \A c \in Chunks(g)' : r.id < c.id
        BY <1>2, <1>3, <3>1
      <3>3. QED
        BY <3>2
    <2>3. QED
      BY <2>1, <2>2
  <1>4. ASSUME NEW d \in Arrived(g)', d.kind = "GUILD_CREATE", NEW m \in d.members
        PROVE  m \in members'[g] \/ \E r \in Leaving(g, m)' : d.id < r.id
    <2>1. CASE d.members \subseteq members'[g]
      BY <1>4, <2>1
    <2>2. CASE d \in Arrived(g) /\ \A x \in members[g] :
                  x \in members'[g] \/ \E r \in Leaving(g, x)' : d.id < r.id
      <3>1. CASE m \in members[g]
        BY <2>2, <3>1
      <3>2. CASE m \notin members[g]
        <4>1. PICK r \in Leaving(g, m) : d.id < r.id
          BY <1>4, <2>2, <3>2 DEF EverybodyAt
        <4>2. r \in Leaving(g, m)'
          BY <1>4, <4>1
        <4>3. QED
          BY <4>1, <4>2
      <3>3. QED
        BY <3>1, <3>2
    <2>3. QED
      BY <1>4, <2>1, <2>2
  <1>5. QED
    BY <1>1, <1>3, <1>4 DEF EverybodyAt

(* The steps of the server: nobody leaves without that being sent. *)
LEMMA EverybodyUntouched ==
    ASSUME NEW g \in Guilds, EverybodyAt(g), Untouched(g)
    PROVE  EverybodyAt(g)'
  <1>1. Chunks(g)' = Chunks(g) /\ \A m : Leaving(g, m)' = Leaving(g, m)
    BY DEF Chunks, Leaving, Untouched
  <1>2. \A m : Told(g, m)' <=> Told(g, m)
    BY <1>1 DEF Told, Untouched
  <1>3. QED
    BY <1>1, <1>2, EverybodyKept DEF Untouched, EverybodyAt

LEMMA EverybodyCreate ==
    ASSUME TypeOK, Ordered, NEW g \in Guilds, LivesAt(g), EverybodyAt(g),
           NEW ms \in SUBSET Members, NEW cs \in SUBSET Channels, Create(g, ms, cs)
    PROVE  EverybodyAt(g)'
  <1> DEFINE e == [kind |-> "GUILD_CREATE", guild |-> g, id |-> sent + 1, members |-> ms,
                   channels |-> cs, roles |-> roles[g], name |-> name[g], emojis |-> emojis[g]]
  <1>1. e \in Event
    <2>1. sent + 1 \in Nat /\ roles[g] \in SUBSET Roles /\ name[g] \in 0..1 /\ emojis[g] \in 0..1
      BY DEF TypeOK
    <2>2. QED
      BY <2>1 DEF Event
  <1>2. Dispatch(e) /\ e.guild = g /\ e.kind = "GUILD_CREATE" /\ e.id = sent + 1 /\ e.members = ms
    BY DEF Create
  <1> HIDE DEF e
  <1>3. Arrived(g)' = Arrived(g) \cup {e}
    BY <1>1, <1>2, ArrivedSend
  <1>4. ~exists[g] /\ UNCHANGED shard /\ members'[g] = ms
    BY DEF Create, TypeOK
  <1>5. ~Syncing(g) /\ \A d \in Arrived(g) : d.kind # "GUILD_CREATE"
    BY <1>4 DEF LivesAt, Syncing
  <1>6. Chunks(g)' = Chunks(g) /\ \A m : Leaving(g, m)' = Leaving(g, m)
    BY <1>2, <1>3 DEF Chunks, Leaving
  <1>7. \A d \in Arrived(g)' : d.kind = "GUILD_CREATE" => d.members \subseteq members'[g]
    BY <1>2, <1>3, <1>4, <1>5
  <1>8. QED
    BY <1>4, <1>5, <1>6, <1>7, EverybodyKept DEF EverybodyAt, shard

LEMMA EverybodyVanish ==
    ASSUME TypeOK, Ordered, Orderly, NEW g \in Guilds, EverybodyAt(g), Vanish(g)
    PROVE  EverybodyAt(g)'
  <1> DEFINE e == [kind |-> "GUILD_DELETE", guild |-> g, id |-> sent + 1]
  <1>1. e \in Event
    BY DEF Event, TypeOK
  <1>2. Dispatch(e) /\ e.guild = g /\ e.kind = "GUILD_DELETE"
    BY <1>1 DEF Vanish
  <1> HIDE DEF e
  <1>3. cache[g].ready /\ inbox = <<>> /\ UNCHANGED shard
    BY DEF Vanish, Orderly
  <1>4. Arrived(g) = {} /\ Arrived(g)' = {e}
    <2>1. Arrived(g) = {}
      BY <1>3 DEF Arrived, ToSet
    <2>2. QED
      BY <1>1, <1>2, <2>1, ArrivedSend
  <1>5. ~Syncing(g)
    BY <1>3 DEF Syncing
  <1>6. Chunks(g)' = {} /\ \A m : Leaving(g, m) = {}
    BY <1>2, <1>4 DEF Chunks, Leaving
  <1>7. QED
    BY <1>2, <1>3, <1>4, <1>5, <1>6, EverybodyKept DEF EverybodyAt, shard

LEMMA EverybodyAnswer ==
    ASSUME TypeOK, NEW g \in Guilds, SyncAt(g), asked[g] > 0 => cache[g].members = {},
           EverybodyAt(g), Answer(g)
    PROVE  EverybodyAt(g)'
  <1>1. UNCHANGED shard /\ inbox' = inbox /\ members' = members
    BY DEF Answer
  <1>2. Arrived(g)' = Arrived(g) /\ Chunks(g)' = Chunks(g) /\ \A m : Leaving(g, m)' = Leaving(g, m)
    BY <1>1 DEF Arrived, Chunks, Leaving
  <1>3. \A m : Told(g, m)' <=> Told(g, m)
    BY ToldAnswer
  <1>4. QED
    BY <1>1, <1>2, <1>3, EverybodyKept DEF EverybodyAt, shard

LEMMA EverybodySendChunk ==
    ASSUME TypeOK, Ordered, NEW g \in Guilds, EverybodyAt(g), SendChunk(g)
    PROVE  EverybodyAt(g)'
  <1>1. PICK e \in Event : /\ e.kind = "GUILD_MEMBERS_CHUNK" /\ e.id = sent + 1
                           /\ Arrived(g)' = Arrived(g) \cup {e} /\ Chunks(g)' = Chunks(g) \cup {e}
    BY ToldSendChunk
  <1>2. UNCHANGED shard /\ members' = members
    BY DEF SendChunk
  <1>3. \A r \in Arrived(g) : r.id < e.id
    <2>1. sent \in Nat
      BY DEF TypeOK
    <2>2. QED
      BY <1>1, <2>1, ArrivedEvents
  <1>4. \A m : Leaving(g, m)' = Leaving(g, m)
    BY <1>1 DEF Leaving
  <1>5. \A m : Told(g, m)' <=> Told(g, m)
    BY ToldSendChunk
  <1>6. QED
    BY <1>1, <1>2, <1>3, <1>4, <1>5, EverybodyKept DEF EverybodyAt, shard

LEMMA EverybodyTells ==
    ASSUME TypeOK, Ordered, Orderly, NEW g \in Guilds, SyncAt(g), EverybodyAt(g),
           NEW e \in Event, Tells(g, e)
    PROVE  EverybodyAt(g)'
  <1>1. Arrived(g)' = Arrived(g) \cup {e} /\ e.id = sent + 1
    BY ArrivedSend DEF Tells
  <1>2. /\ UNCHANGED shard /\ asked' = asked /\ answer' = answer
        /\ e.kind \notin {"GUILD_CREATE", "GUILD_DELETE", "GUILD_MEMBERS_CHUNK"}
    BY DEF Tells, MemberEvents, ChannelEvents, RoleEvents, ChannelFirst, MessageEvents
  <1>3. Chunks(g)' = Chunks(g) /\ \A m : Leaving(g, m) \subseteq Leaving(g, m)'
    BY <1>1, <1>2 DEF Chunks, Leaving
  <1>4. \A d \in Arrived(g) : d.id < e.id
    <2>1. sent \in Nat
      BY DEF TypeOK
    <2>2. QED
      BY <1>1, <2>1, ArrivedEvents
  <1>5. \A m \in members[g] : m \in members'[g] \/ e \in Leaving(g, m)'
    BY <1>1 DEF Tells, TypeOK, Leaving, MemberEvents
  <1>6. ASSUME Syncing(g), NEW m \in complete'[g], Told(g, m)
        PROVE  Told(g, m)' \/ \E r \in Leaving(g, m)' : \A c \in Chunks(g)' : r.id < c.id
    <2>1. CASE asked[g] > 0
      <3>1. Chunks(g)' = {}
        BY <1>3, <1>6, <2>1 DEF SyncAt
      <3>2. QED
        BY <1>2, <1>5, <1>6, <2>1, <3>1 DEF Told
    <2>2. CASE ~(asked[g] > 0)
      BY <1>2, <1>3, <1>6, <2>2 DEF Told, shard
    <2>3. QED
      BY <2>1, <2>2
  <1>7. \A d \in Arrived(g)' : d.kind = "GUILD_CREATE" =>
            /\ d \in Arrived(g)
            /\ \A m \in members[g] : m \in members'[g] \/ \E r \in Leaving(g, m)' : d.id < r.id
    BY <1>1, <1>2, <1>4, <1>5
  <1>8. QED
    BY <1>2, <1>3, <1>6, <1>7, EverybodyKept DEF EverybodyAt, shard

(* The steps of the shard: the last chunk makes everybody known. *)
LEMMA EverybodyHandleCreate ==
    ASSUME TypeOK, Ordered, Lives, Sync, NEW g, g = guild, EverybodyAt(g), HandleCreate
    PROVE  EverybodyAt(g)'
  <1>1. PICK e : e = event
    OBVIOUS
  <1>2. TakeFirst({"GUILD_CREATE"}) /\ backlog' = backlog /\ replaying' = replaying
    BY DEF HandleCreate
  <1>3. /\ g \in Guilds /\ e.kind = "GUILD_CREATE" /\ members' = members /\ replaying = <<>>
        /\ e.guild = g
    BY <1>1, <1>2, FirstTaken DEF guild
  <1>4. /\ backlog[g] = <<>> /\ Chunks(g)' = {} /\ cache'[g].there
        /\ \/ /\ ~cache'[g].ready
              /\ \A x : Told(g, x)' <=> x \in members[g]
           \/ /\ cache'[g].ready /\ cache'[g].members = e.members
              /\ \A x : Told(g, x)' <=> x \in e.members
    BY <1>1, CreateEffect
  <1>5. complete'[g] = e.members
    BY <1>1, <1>3 DEF HandleCreate, TypeOK
  <1>6. ToSet(backlog'[g]) = {} /\ ToSet(replaying') = {}
    BY <1>2, <1>3, <1>4 DEF ToSet
  <1>7. \A d \in Arrived(g)' : d.kind # "GUILD_CREATE"
    BY <1>1, <1>2, <1>3, FirstOfLife
  <1>8. e \in Arrived(g) /\ Arrived(g) = Arrived(g)' \cup {e}
    BY <1>1, <1>2, <1>3, ArrivedTake
  <1>9. \A m : Leaving(g, m)' = Leaving(g, m)
    BY <1>3, <1>8 DEF Leaving
  <1>10. \A m \in e.members : m \in members[g] \/ \E r \in Leaving(g, m)' : TRUE
    BY <1>3, <1>8, <1>9 DEF EverybodyAt
  <1>11. ASSUME Syncing(g)', NEW m \in complete'[g]
         PROVE  Told(g, m)' \/ \E r \in Leaving(g, m)' : \A c \in Chunks(g)' : r.id < c.id
    <2>1. ~cache'[g].ready
      BY <1>11 DEF Syncing
    <2>2. QED
      BY <1>4, <1>5, <1>10, <1>11, <2>1
  <1>12. QED
    BY <1>4, <1>5, <1>6, <1>7, <1>11 DEF EverybodyAt

LEMMA EverybodyHandleDelete ==
    ASSUME TypeOK, Ordered, Lives, Sync, NEW g, g = guild, EverybodyAt(g), HandleDelete
    PROVE  EverybodyAt(g)'
  <1>1. PICK e : e = event
    OBVIOUS
  <1>2. TakeFirst({"GUILD_DELETE"}) /\ backlog' = backlog /\ replaying' = replaying
    BY DEF HandleDelete
  <1>3. /\ g \in Guilds /\ e.kind = "GUILD_DELETE" /\ members' = members /\ replaying = <<>>
        /\ e.guild = g
    BY <1>1, <1>2, FirstTaken DEF guild
  <1>4. ~Syncing(g)
    BY <1>1, <1>2, <1>3, FirstOfLife
  <1>5. ToSet(backlog'[g]) = {} /\ ToSet(replaying') = {}
    BY <1>2, <1>3, <1>4 DEF ToSet, Lives, LivesAt
  <1>6. ~cache'[g].there /\ ~cache'[g].ready
    BY <1>3 DEF HandleDelete, TypeOK, Absent
  <1>7. Arrived(g) = Arrived(g)' \cup {e}
    BY <1>1, <1>2, <1>3, ArrivedTake
  <1>8. \A m : Leaving(g, m)' = Leaving(g, m)
    BY <1>3, <1>7 DEF Leaving
  <1>9. ~Syncing(g)'
    BY <1>6 DEF Syncing
  <1>10. \A d \in Arrived(g)' : d.kind = "GUILD_CREATE" =>
             \A m \in d.members : m \in members'[g] \/ \E r \in Leaving(g, m)' : d.id < r.id
    BY <1>3, <1>7, <1>8 DEF EverybodyAt
  <1>11. QED
    BY <1>5, <1>6, <1>9, <1>10 DEF EverybodyAt

LEMMA EverybodyHandleChunk ==
    ASSUME TypeOK, Ordered, Lives, Sync, NEW g, g = guild, EverybodyAt(g), HandleChunk
    PROVE  EverybodyAt(g)'
  <1>1. PICK e : e = event
    OBVIOUS
  <1>2. TakeFirst({"GUILD_MEMBERS_CHUNK"}) /\ asked' = asked /\ complete' = complete
    BY DEF HandleChunk
  <1>3. /\ g \in Guilds /\ e.kind = "GUILD_MEMBERS_CHUNK" /\ e.guild = g /\ members' = members
        /\ answer' = answer
    BY <1>1, <1>2, FirstTaken DEF guild
  <1>4. /\ asked[g] = 0 /\ Syncing(g) /\ Chunks(g) = Chunks(g)' \cup {e}
        /\ ChunksLeft = 0 => Chunks(g)' = {} /\ answer[g] = <<>>
    BY <1>1, ChunkCounted
  <1>5. /\ Arrived(g) = Arrived(g)' \cup {e} /\ \A f \in Arrived(g)' : e.id < f.id
        /\ \A f \in Arrived(g)' : f \in Arrived(g)
    BY <1>1, <1>2, <1>3, ArrivedTake
  <1>6. \A d \in Arrived(g)' : d.kind # "GUILD_CREATE"
    BY <1>1, <1>2, <1>3, <1>5, FirstOfLife
  <1>7. \A m : Leaving(g, m)' = Leaving(g, m)
    BY <1>3, <1>5 DEF Leaving
  <1>8. /\ cache'[g].there = cache[g].there /\ cache'[g].members = cache[g].members \cup e.members
        /\ cache'[g].ready = (cache[g].ready \/ ChunksLeft = 0)
    BY <1>1, <1>3, TypeAt DEF HandleChunk, TypeOK, Entry
  <1>9. ToSet(replaying') \cup ToSet(backlog'[g]) = ToSet(replaying) \cup ToSet(backlog[g])
    BY <1>3, Moved
  <1>10. \A x : Told(g, x)' <=> Told(g, x)
    BY <1>2, <1>3, <1>4, <1>8 DEF Told
  <1>11. CASE ChunksLeft # 0
    <2>1. cache'[g].ready = cache[g].ready
      BY <1>3, <1>8, <1>11, TypeAt DEF Entry
    <2>2. cache[g].ready => complete'[g] \subseteq cache'[g].members
      BY <1>2, <1>8 DEF EverybodyAt
    <2>3. QED
      BY <1>2, <1>4, <1>6, <1>7, <1>8, <1>9, <1>10, <2>1, <2>2, EverybodyKept
  <1>12. CASE ChunksLeft = 0
    <2>1. ~Syncing(g)'
      BY <1>8, <1>12 DEF Syncing
    <2>2. complete[g] \subseteq cache'[g].members
      <3>1. ASSUME NEW m \in complete[g], ~Told(g, m)
            PROVE  FALSE
        <4>1. PICK r \in Leaving(g, m) : r.id < e.id
          BY <1>4, <3>1 DEF EverybodyAt
        <4>2. r \in Arrived(g)' /\ r.id \in Nat /\ e.id \in Nat
          BY <1>3, <1>5, <4>1, ArrivedEvents DEF Leaving
        <4>3. e.id < r.id
          BY <1>5, <4>2
        <4>4. QED
          BY <4>1, <4>2, <4>3
      <3>2. \A x : Told(g, x) => x \in cache'[g].members
        BY <1>4, <1>8, <1>12 DEF Told
      <3>3. QED
        BY <3>1, <3>2
    <2>3. \A f \in ToSet(backlog'[g]) \cup ToSet(replaying') :
              f.kind = "GUILD_MEMBER_REMOVE" /\ f.guild = g => f.arg \notin complete'[g]
      BY <1>2, <1>9 DEF EverybodyAt
    <2>4. QED
      BY <1>2, <1>6, <2>1, <2>2, <2>3 DEF EverybodyAt
  <1>13. QED
    BY <1>11, <1>12

(* An event of g that leaves what is known of its members alone: it is put   *)
(* aside, dropped, or has nothing to do with them.                           *)
LEMMA EverybodyAside ==
    ASSUME TypeOK, Ordered, Lives, Sync, NEW K, TakeFirst(K), NEW g, g = guild, EverybodyAt(g),
           NEW e, e = event,
           e.kind \notin {"GUILD_CREATE", "GUILD_DELETE", "GUILD_MEMBERS_CHUNK"},
           cache'[g].there = cache[g].there, cache'[g].ready = cache[g].ready,
           cache'[g].members = cache[g].members, asked' = asked,
           complete'[g] \subseteq complete[g],
           e.kind = "GUILD_MEMBER_REMOVE" => e.arg \notin complete'[g],
           \A f \in ToSet(backlog'[g]) : f \in ToSet(backlog[g]) \/ f = e,
           replaying' = replaying
    PROVE  EverybodyAt(g)'
  <1>1. g \in Guilds /\ answer' = answer /\ members' = members /\ e.guild = g
    BY FirstTaken DEF guild
  <1>2. Arrived(g) = Arrived(g)' \cup {e} /\ \A f \in Arrived(g)' : f \in Arrived(g)
    BY <1>1, ArrivedTake
  <1>3. \A d \in Arrived(g)' : d.kind # "GUILD_CREATE"
    BY <1>2, FirstOfLife
  <1>4. Chunks(g)' = Chunks(g)
    BY <1>2 DEF Chunks
  <1>5. \A x : Told(g, x)' <=> Told(g, x)
    BY <1>1, <1>4 DEF Told
  <1>6. \A m : \A r \in Leaving(g, m) : r \in Leaving(g, m)' \/ m \notin complete'[g]
    BY <1>2 DEF Leaving
  <1>7. cache[g].ready => complete'[g] \subseteq cache'[g].members
    BY DEF EverybodyAt
  <1>8. \A f \in ToSet(backlog'[g]) \cup ToSet(replaying') :
            f.kind = "GUILD_MEMBER_REMOVE" /\ f.guild = g
            => f \in ToSet(backlog[g]) \cup ToSet(replaying) \/ f.arg \notin complete'[g]
    OBVIOUS
  <1>9. QED
    BY <1>3, <1>4, <1>5, <1>6, <1>7, <1>8, EverybodyKept

LEMMA EverybodyHandleEvent ==
    ASSUME TypeOK, Ordered, Lives, Sync, NEW g, g = guild, EverybodyAt(g), HandleEvent
    PROVE  EverybodyAt(g)'
  <1>1. PICK e : e = event
    OBVIOUS
  <1>2. /\ TakeFirst(BackedUp) /\ e \in Held /\ g \in Guilds /\ e.guild = g
        /\ replaying' = replaying /\ replaying = <<>> /\ left' = left /\ asked' = asked
        /\ \/ /\ Syncing(g) /\ backlog' = [backlog EXCEPT ![g] = Append(@, e)]
              /\ cache' = cache /\ seen' = seen
           \/ cache[g].ready /\ backlog' = backlog /\ Store(g, Apply(State(g), e))
    BY <1>1, EventEnds
  <1>3. e.kind \notin {"GUILD_CREATE", "GUILD_DELETE", "GUILD_MEMBERS_CHUNK"}
    BY <1>1, <1>2, FirstTaken DEF BackedUp, MessageEvents
  <1>4. complete'[g] = IF e.kind = "GUILD_MEMBER_REMOVE" THEN complete[g] \ {e.arg} ELSE complete[g]
    BY <1>1, <1>2 DEF HandleEvent, TypeOK
  <1>5. CASE Syncing(g) /\ backlog' = [backlog EXCEPT ![g] = Append(@, e)] /\ cache' = cache
    <2>1. backlog[g] \in Seq(Held) /\ backlog'[g] = Append(backlog[g], e)
      BY <1>2, <1>5 DEF TypeOK
    <2>2. ToSet(backlog'[g]) = ToSet(backlog[g]) \cup {e}
      BY <1>2, <2>1, Appended
    <2>3. QED
      BY <1>1, <1>2, <1>3, <1>4, <1>5, <2>2, EverybodyAside
  <1>6. CASE cache[g].ready /\ backlog' = backlog /\ Store(g, Apply(State(g), e))
    <2>1. /\ cache'[g].there = cache[g].there /\ cache'[g].ready = cache[g].ready
          /\ e.kind = "GUILD_MEMBER_ADD" => cache'[g].members = cache[g].members \cup {e.arg}
          /\ e.kind = "GUILD_MEMBER_REMOVE" => cache'[g].members = cache[g].members \ {e.arg}
          /\ e.kind \notin MemberEvents => cache'[g].members = cache[g].members
      BY <1>2, <1>6, StoreEffect
    <2>2. complete'[g] \subseteq cache'[g].members
      BY <1>4, <1>6, <2>1 DEF EverybodyAt, MemberEvents
    <2>3. Arrived(g) = Arrived(g)' \cup {e} /\ \A f \in Arrived(g)' : f \in Arrived(g)
      BY <1>1, <1>2, ArrivedTake
    <2>4. \A d \in Arrived(g)' : d.kind # "GUILD_CREATE"
      BY <1>1, <1>2, <1>3, <2>3, FirstOfLife
    <2>5. Chunks(g)' = Chunks(g) /\ ~Syncing(g)
      BY <1>3, <1>6, <2>3 DEF Chunks, Syncing
    <2>6. \A m : \A r \in Leaving(g, m) : r \in Leaving(g, m)' \/ m \notin complete'[g]
      BY <1>4, <2>3 DEF Leaving
    <2>7. QED
      BY <1>2, <1>4, <1>6, <2>1, <2>2, <2>4, <2>5, <2>6, EverybodyKept
  <1>7. QED
    BY <1>2, <1>5, <1>6

LEMMA EverybodyReplay ==
    ASSUME TypeOK, Ordered, Lives, Replay, NEW e, e = Head(replaying), NEW g, g = e.guild,
           EverybodyAt(g)
    PROVE  EverybodyAt(g)'
  <1>1. /\ e \in Held /\ g \in Guilds /\ Store(g, Apply(State(g), e)) /\ UNCHANGED server
        /\ backlog' = backlog /\ complete' = complete
        /\ Arrived(g)' = Arrived(g) /\ Chunks(g)' = Chunks(g)
        /\ \A f \in ToSet(replaying') : f \in ToSet(replaying)
    BY ReplayEffect
  <1>2. e \in ToSet(replaying)
    BY NextReplayed
  <1>3. cache[g].ready /\ ~Syncing(g)
    BY <1>1, <1>2 DEF Lives, LivesAt, Syncing
  <1>4. /\ cache'[g].there = cache[g].there /\ cache'[g].ready = cache[g].ready
        /\ e.kind = "GUILD_MEMBER_ADD" => cache'[g].members = cache[g].members \cup {e.arg}
        /\ e.kind = "GUILD_MEMBER_REMOVE" => cache'[g].members = cache[g].members \ {e.arg}
        /\ e.kind \notin MemberEvents => cache'[g].members = cache[g].members
    BY <1>1, StoreEffect
  <1>5. complete'[g] \subseteq cache'[g].members
    BY <1>1, <1>2, <1>3, <1>4 DEF EverybodyAt, MemberEvents
  <1>6. \A m : Leaving(g, m)' = Leaving(g, m)
    BY <1>1 DEF Leaving
  <1>7. members' = members
    BY <1>1 DEF server
  <1>8. QED
    BY <1>1, <1>3, <1>4, <1>5, <1>6, <1>7, EverybodyKept

-----------------------------------------------------------------------------
(* Together. *)

(* Every step keeps that. *)
LEMMA EverybodyStep ==
    Orderly /\ TypeOK /\ Ordered /\ Lives /\ Sync /\ Fresh /\ Everybody /\ [Next]_vars
    => Everybody'
  <1> SUFFICES ASSUME Orderly, TypeOK, Ordered, Lives, Sync, Fresh, Everybody, [Next]_vars
               PROVE  \A h \in Guilds : EverybodyAt(h)'
    BY DEF Everybody
  <1>0. \A h \in Guilds : EverybodyAt(h)
    BY DEF Everybody
  <1>1. CASE ServerStep
    <2>1. PICK g \in Guilds :
               \/ \E ms \in SUBSET Members, cs \in SUBSET Channels : Create(g, ms, cs)
               \/ Vanish(g) \/ Answer(g) \/ SendChunk(g)
               \/ \E e \in Event : Tells(g, e)
      BY <1>1, ServerCases
    <2>2. LivesAt(g) /\ SyncAt(g) /\ (asked[g] > 0 => cache[g].members = {})
      BY DEF Lives, Sync, Fresh
    <2>3. EverybodyAt(g)'
      BY <1>0, <2>1, <2>2, EverybodyCreate, EverybodyVanish, EverybodyAnswer, EverybodySendChunk,
         EverybodyTells
    <2>4. \A h \in Guilds : h # g => EverybodyAt(h)'
      BY <1>0, <2>1, ServerElsewhere, EverybodyUntouched
    <2>5. QED
      BY <2>3, <2>4
  <1>2. CASE Replay
    <2>1. PICK e, g : e = Head(replaying) /\ g = e.guild
      OBVIOUS
    <2>2. g \in Guilds
      BY <1>2, <2>1, NextReplayed
    <2>3. EverybodyAt(g)'
      BY <1>0, <1>2, <2>1, <2>2, EverybodyReplay
    <2>4. \A h \in Guilds : h # g => EverybodyAt(h)'
      BY <1>0, <1>2, <2>1, ReplayElsewhere, EverybodyUntouched
    <2>5. QED
      BY <2>3, <2>4
  <1>3. CASE ShardStep /\ ~Replay
    <2>1. PICK e, g : e = event /\ g = guild
      OBVIOUS
    <2>2. \A h \in Guilds : h # g => EverybodyAt(h)'
      BY <1>0, <1>3, <2>1, ShardElsewhere, EverybodyUntouched
    <2>3. g \in Guilds
      BY <1>3, <2>1, ShardEffect
    <2>4. EverybodyAt(g)
      BY <1>0, <2>3
    <2>5. CASE HandleCreate
      BY <2>1, <2>2, <2>4, <2>5, EverybodyHandleCreate
    <2>6. CASE HandleDelete
      BY <2>1, <2>2, <2>4, <2>6, EverybodyHandleDelete
    <2>7. CASE HandleChunk
      BY <2>1, <2>2, <2>4, <2>7, EverybodyHandleChunk
    <2>8. CASE HandleChunkUnknown
      <3>1. TakeFirst({"GUILD_MEMBERS_CHUNK"}) /\ ~cache[g].there
        BY <2>1, <2>8 DEF HandleChunkUnknown
      <3>2. e.kind = "GUILD_MEMBERS_CHUNK"
        BY <2>1, <3>1, FirstTaken
      <3>3. cache[g].there
        BY <2>1, <3>1, <3>2, FirstOfLife
      <3>4. QED
        BY <3>1, <3>3
    <2>9. CASE HandleEvent
      BY <2>1, <2>2, <2>4, <2>9, EverybodyHandleEvent
    <2>10. CASE HandleUpdate
      <3>1. TakeFirst({"CHANNEL_UPDATE"}) /\ e.kind = "CHANNEL_UPDATE"
        BY <2>1, <2>10, FirstTaken DEF HandleUpdate
      <3>2. EverybodyAt(g)'
        BY <2>1, <2>4, <2>10, <3>1, EverybodyAside DEF HandleUpdate
      <3>3. QED
        BY <2>2, <3>2
    <2>11. CASE HandleEmojis
      <3>1. TakeFirst({"GUILD_EMOJI_UPDATE"}) /\ e.kind = "GUILD_EMOJI_UPDATE"
        BY <2>1, <2>11, FirstTaken DEF HandleEmojis
      <3>2. cache[g] \in Entry
        BY <2>3, TypeAt
      <3>3. /\ cache'[g].there = cache[g].there /\ cache'[g].ready = cache[g].ready
            /\ cache'[g].members = cache[g].members
        BY <2>1, <2>3, <2>11, <3>2 DEF HandleEmojis, TypeOK, Entry
      <3>4. EverybodyAt(g)'
        BY <2>1, <2>4, <2>11, <3>1, <3>3, EverybodyAside DEF HandleEmojis
      <3>5. QED
        BY <2>2, <3>4
    <2>12. CASE HandleTyping
      <3>1. TakeFirst(ChannelFirst) /\ e.kind \in ChannelFirst
        BY <2>1, <2>12, FirstTaken DEF HandleTyping
      <3>2. \A f \in ToSet(backlog'[g]) : f \in ToSet(backlog[g]) \/ f = e
        <4>1. CASE backlog' = backlog
          BY <4>1
        <4>2. CASE backlog' = [backlog EXCEPT ![guild] = Append(@, event)]
          <5>1. e \in Held /\ backlog[g] \in Seq(Held)
            BY <2>1, <2>3, <3>1, FirstTaken, TypeAt DEF Held
          <5>2. backlog'[g] = Append(backlog[g], e)
            BY <2>1, <2>3, <4>2 DEF TypeOK
          <5>3. QED
            BY <5>1, <5>2, Appended
        <4>3. QED
          BY <2>12, <4>1, <4>2 DEF HandleTyping
      <3>3. e.kind \notin {"GUILD_CREATE", "GUILD_DELETE", "GUILD_MEMBERS_CHUNK",
                           "GUILD_MEMBER_REMOVE"}
        BY <3>1 DEF ChannelFirst
      <3>4. EverybodyAt(g)'
        BY <2>1, <2>4, <2>12, <3>1, <3>2, <3>3, EverybodyAside DEF HandleTyping
      <3>5. QED
        BY <2>2, <3>4
    <2>13. QED
      BY <1>3, <2>5, <2>6, <2>7, <2>8, <2>9, <2>10, <2>11, <2>12 DEF ShardStep
  <1>4. CASE UNCHANGED vars
    <2>1. \A h \in Guilds : Untouched(h)
      BY <1>4 DEF vars, server, shard, Untouched, Arrived, Pending
    <2>2. QED
      BY <1>0, <2>1, EverybodyUntouched
  <1>5. QED
    BY <1>1, <1>2, <1>3, <1>4 DEF Next, ShardStep

(* Whoever must be known of a ready guild is cached. *)
LEMMA EverybodyMeans == Everybody => ReadyIsComplete
  BY DEF Everybody, EverybodyAt, ReadyIsComplete

(* When nothing is on its way to g, nothing is due to it either. *)
LEMMA QuietMeans ==
    ASSUME TypeOK, Ordered, Lives, Sync, NEW g \in Guilds, Quiet(g)
    PROVE  /\ Pending(g) = {} /\ Chunks(g) = {} /\ ~Syncing(g) /\ left[g] = 0
           /\ cache[g].there = exists[g]
  <1>1. /\ Arrived(g) = {} /\ Chunks(g) = {} /\ ToSet(replaying) = {} /\ ToSet(inbox) = {}
        /\ answer[g] = <<>> /\ asked[g] = 0
    BY DEF Quiet, Arrived, Chunks, ToSet
  <1>2. ~Syncing(g)
    <2>1. SUFFICES ASSUME Syncing(g)
                   PROVE  FALSE
      OBVIOUS
    <2>2. PICK n, k, m \in Nat : DueOf(g, n, k, m)
      BY <1>1, <2>1 DEF Sync, SyncAt
    <2>3. k \in 1..n /\ k <= m + 1 /\ m = n
      BY <1>1, <2>2 DEF DueOf
    <2>4. \E e \in Chunks(g) : e.index = k
      BY <2>2, <2>3 DEF DueOf
    <2>5. QED
      BY <1>1, <2>4
  <1>3. left[g] = 0
    BY <1>2 DEF Sync, SyncAt
  <1>4. ToSet(backlog[g]) = {}
    BY <1>2 DEF Lives, LivesAt, ToSet
  <1>5. Pending(g) = {}
    BY <1>1, <1>4 DEF Pending
  <1>6. cache[g].there \in BOOLEAN /\ exists[g] \in BOOLEAN
    BY TypeAt DEF Entry
  <1>7. cache[g].there = exists[g]
    BY <1>1, <1>6 DEF Lives, LivesAt
  <1>8. QED
    BY <1>1, <1>2, <1>3, <1>5, <1>7

(* When nothing is on its way to g, its cache is what the server has. *)
LEMMA ConvergesMeans ==
    TypeOK /\ Ordered /\ Lives /\ Sync /\ Follows /\ Delivered => Converges
  <1> SUFFICES ASSUME TypeOK, Ordered, Lives, Sync, Follows, Delivered,
                      NEW g \in Guilds, Quiet(g)
               PROVE  /\ cache[g].there = exists[g]
                      /\ exists[g] => cache[g] = [there |-> TRUE, ready |-> TRUE,
                             members |-> members[g], channels |-> channels[g],
                             roles |-> roles[g], name |-> name[g], emojis |-> emojis[g]]
                      /\ seen[g] = posted[g]
                      /\ left[g] = 0
    BY DEF Converges
  <1>1. /\ Pending(g) = {} /\ Chunks(g) = {} /\ ~Syncing(g) /\ left[g] = 0
        /\ cache[g].there = exists[g]
    BY QuietMeans
  <1>2. /\ cache[g] \in Entry /\ members[g] \subseteq Members /\ channels[g] \subseteq Channels
        /\ roles[g] \subseteq Roles /\ name[g] \in 0..1 /\ emojis[g] \in 0..1
        /\ posted[g] \in Seq(Nat) /\ seen[g] \in Seq(Nat)
    BY TypeAt
  <1>3. ASSUME exists[g]
        PROVE  cache[g] = [there |-> TRUE, ready |-> TRUE,
                           members |-> members[g], channels |-> channels[g],
                           roles |-> roles[g], name |-> name[g], emojis |-> emojis[g]]
    <2>1. cache[g].there /\ cache[g].there = TRUE /\ cache[g].ready = TRUE
      BY <1>1, <1>2, <1>3 DEF Syncing, Entry
    <2>2. \A p \in Parts, x \in Things : Has(g, p, x) <=> Cached(g, p, x)
      BY <1>1 DEF Follows, FollowsAt, FollowsIn
    <2>3. \A x \in Members : x \in members[g] <=> x \in cache[g].members
      <3>1. \A x : Told(g, x) <=> x \in cache[g].members
        BY <1>1 DEF Told, Quiet
      <3>2. "member" \in Parts /\ \A x \in Members : x \in Things
        BY DEF Parts, Things
      <3>3. \A x : /\ (Has(g, "member", x) <=> x \in members[g])
                   /\ (Cached(g, "member", x) <=> Told(g, x))
        BY <1>3, <2>1 DEF Has, Cached
      <3>4. QED
        BY <2>2, <3>1, <3>2, <3>3
    <2>4. \A x \in Channels : x \in channels[g] <=> x \in cache[g].channels
      <3>1. "channel" \in Parts /\ \A x \in Channels : x \in Things
        BY DEF Parts, Things
      <3>2. \A x : /\ (Has(g, "channel", x) <=> x \in channels[g])
                   /\ (Cached(g, "channel", x) <=> x \in cache[g].channels)
        BY <1>3, <2>1 DEF Has, Cached
      <3>3. QED
        BY <2>2, <3>1, <3>2
    <2>5. \A x \in Roles : x \in roles[g] <=> x \in cache[g].roles
      <3>1. "role" \in Parts /\ \A x \in Roles : x \in Things
        BY DEF Parts, Things
      <3>2. \A x : /\ (Has(g, "role", x) <=> x \in roles[g])
                   /\ (Cached(g, "role", x) <=> x \in cache[g].roles)
        BY <1>3, <2>1 DEF Has, Cached
      <3>3. QED
        BY <2>2, <3>1, <3>2
    <2>6. name[g] = cache[g].name /\ emojis[g] = cache[g].emojis
      <3>1. "name" \in Parts /\ "emojis" \in Parts /\ name[g] \in Things /\ emojis[g] \in Things
        BY <1>2 DEF Parts, Things
      <3>2. Has(g, "name", name[g]) /\ Has(g, "emojis", emojis[g])
        BY <1>3 DEF Has
      <3>3. Cached(g, "name", name[g]) /\ Cached(g, "emojis", emojis[g])
        BY <2>2, <3>1, <3>2
      <3>4. QED
        BY <3>3 DEF Cached
    <2>7. /\ cache[g].members = members[g] /\ cache[g].channels = channels[g]
          /\ cache[g].roles = roles[g]
      <3>1. /\ cache[g].members \subseteq Members /\ cache[g].channels \subseteq Channels
            /\ cache[g].roles \subseteq Roles
        BY <1>2 DEF Entry
      <3>2. QED
        BY <1>2, <2>3, <2>4, <2>5, <3>1
    <2>8. cache[g] = [there |-> cache[g].there, ready |-> cache[g].ready,
                      members |-> cache[g].members, channels |-> cache[g].channels,
                      roles |-> cache[g].roles, name |-> cache[g].name,
                      emojis |-> cache[g].emojis]
      BY <1>2 DEF Entry
    <2>9. QED
      BY <2>1, <2>6, <2>7, <2>8
  <1>4. seen[g] = posted[g]
    <2>1. PICK n, k \in Nat : n = Len(posted[g]) /\ k = Len(seen[g])
      BY <1>2
    <2>2. DOMAIN posted[g] = 1..n /\ DOMAIN seen[g] = 1..k
      BY <1>2, <2>1
    <2>3. k <= n /\ \A i \in 1..k : seen[g][i] = posted[g][i]
      BY <2>1, <2>2 DEF Delivered, DeliveredAt
    <2>4. k = n
      <3>1. \A i \in 1..n : ~(i > k)
        BY <1>1, <2>1, <2>2 DEF Delivered, DeliveredAt
      <3>2. QED
        BY <2>3, <3>1
    <2>5. /\ DOMAIN seen[g] = DOMAIN posted[g]
          /\ \A i \in DOMAIN posted[g] : seen[g][i] = posted[g][i]
      BY <2>2, <2>3, <2>4
    <2>6. /\ seen[g] = [i \in DOMAIN seen[g] |-> seen[g][i]]
          /\ posted[g] = [i \in DOMAIN posted[g] |-> posted[g][i]]
      BY <1>2
    <2>7. QED
      BY <2>5, <2>6
  <1>5. QED
    BY <1>1, <1>3, <1>4

(* The inductive invariant of an orderly server, and of any. *)
IInv == TypeOK /\ Ordered /\ Lives /\ Sync /\ Fresh /\ Follows /\ Delivered /\ Everybody

LEMMA IInvInit == Init => IInv
  BY TypeInit, OrderedInit, LivesSyncInit, FollowsInit, DeliveredInit, EverybodyInit DEF IInv

(* It is kept by every step under an orderly server. *)
LEMMA IInvStep == Orderly /\ IInv /\ [Next]_vars => IInv'
  BY TypeStep, OrderedStep, LivesSyncStep, FreshStep, FollowsStep, DeliveredStep, EverybodyStep
     DEF IInv

(* It is what the runs check, and more. *)
LEMMA IInvMeans == IInv => Converges /\ MessagesInOrder /\ ReadyIsComplete
  BY ConvergesMeans, DeliveredMeans, EverybodyMeans DEF IInv

LEMMA Inductive == Orderly => (Spec => []IInv)
  <1>1. CASE ~Orderly
    BY <1>1
  <1>2. CASE Orderly
    <2>1. IInv /\ [Next]_vars => IInv'
      BY <1>2, IInvStep
    <2>2. Spec => []IInv
      BY <2>1, IInvInit, PTL DEF Spec
    <2>3. QED
      BY <2>2
  <1>3. QED
    BY <1>1, <1>2

(* For any guilds, members, channels and roles, any threshold and any number *)
(* of events: once nothing is on its way, what an orderly server has of a    *)
(* guild is what the cache holds of it, and no message is missing.           *)
THEOREM CacheIsRight == Orderly => (Spec => []Converges)
  BY Inductive, IInvMeans, PTL

(* Messages are given to callbacks in the order of the gateway and none is   *)
(* skipped, whether they are handled at once or put aside and replayed.      *)
THEOREM InOrder == Orderly => (Spec => []MessagesInOrder)
  BY Inductive, IInvMeans, PTL

(* A guild that is ready is known with all of its members. *)
THEOREM EverybodyKnown == Orderly => (Spec => []ReadyIsComplete)
  BY Inductive, IInvMeans, PTL

(* Whatever the server does, also when it takes a guild away between two     *)
(* chunks or sends events late, no message is delivered twice or made up.    *)
THEOREM AtMostOnce == Spec => []MessagesOnce
  <1>1. Init => TypeOK /\ Ordered /\ Once
    BY TypeInit, OrderedInit, OnceInit
  <1>2. TypeOK /\ Ordered /\ Once /\ [Next]_vars => (TypeOK /\ Ordered /\ Once)'
    BY TypeStep, OrderedStep, OnceStep
  <1>3. Once => MessagesOnce
    BY OnceMeans
  <1>4. QED
    BY <1>1, <1>2, <1>3, PTL DEF Spec

(* The reading that GuildSyncVanish.cfg finds violated holds with an orderly *)
(* server: only a guild that waits for members has events put aside in       *)
(* m_backed_up_events.                                                       *)
THEOREM BacklogOfOrderly == Orderly => (Spec => []BacklogOnlyWhileSyncing)
  <1>1. IInv => BacklogOnlyWhileSyncing
    BY DEF IInv, Lives, LivesAt, Syncing, BacklogOnlyWhileSyncing
  <1>2. QED
    BY <1>1, Inductive, PTL

(* GUILD_MEMBERS_CHUNK takes its guild out of m_guilds unchecked.  It is     *)
(* there, and not ready: no chunk outlives the life of the guild that asked  *)
(* for it.                                                                   *)
ChunkFindsGuild ==
    inbox # <<>> /\ event.kind = "GUILD_MEMBERS_CHUNK" => Syncing(guild)

THEOREM ChunksFindGuilds == Orderly => (Spec => []ChunkFindsGuild)
  <1>1. IInv => ChunkFindsGuild
    <2> SUFFICES ASSUME IInv, inbox # <<>>, event.kind = "GUILD_MEMBERS_CHUNK"
                 PROVE  Syncing(guild)
      BY DEF ChunkFindsGuild
    <2>1. event \in ToSet(inbox) /\ guild \in Guilds
      BY FirstTaken, Elements, EventFields DEF IInv, TypeOK, event, guild, ToSet
    <2>2. event \in Chunks(guild)
      BY <2>1 DEF Chunks, Arrived, guild
    <2>3. SyncAt(guild)
      BY <2>1 DEF IInv, Sync
    <2>4. QED
      BY <2>2, <2>3 DEF SyncAt
  <1>2. QED
    BY <1>1, Inductive, PTL
=============================================================================
