# Verification of cpp_discord_api

TLA+ models of a C++20 coroutine client library for the Discord API and of its
cacheless sibling, TLC configurations that check them on small instances, and
theorems about them that TLAPS proves for every value of the constants. Paths
are relative to the repository.

Run a check with `tlc -workers 2 -config Voice.cfg Voice.tla`, a proof with
`tlapm VoiceProofs.tla`. `PROJECT.json` lists every run, the lines that each
definition translates, a mutant for every property and all hazards.

## The system

A `client` owns shards. Each `internal_shard` holds one gateway web socket, on
which Discord pushes events, a cache of the guilds it was told about, and one
HTTPS connection through which requests go out, one at a time and through a rate
limiter. A call in a voice channel has a web socket and an UDP socket of its
own. Everything waits through coroutines: a promise, a queue, an asynchronous
mutex or a timer. The read loop of a shard runs on a strand; timers, writers and
senders run on any thread of the `io_context` (one, unless `client` is given
more).

```
 user callbacks <- events -- read loop (strand) <- gateway web socket <- Discord
      |                          | cache, acks          ^
      | requests                 v                      | frames, one at a time
      v                    heartbeat timer -> async_mutex + writer <- identify,
 request queue -> sender -> rate limiter -> HTTPS                     members,
      ^               |                                               voice
      +-- timers -----+ global 429 -> client -> every shard's sender
```

`no_cache/` holds a second library of the same shape that grew out of an older
copy: it keeps no guilds and hands every event to a callback as a payload, its
client hands out the right to identify, and its HTTPS connection has a rate
limiter of another make. The data types exist twice as well.

### Components

| Component | Code | State | Operations | What is hard | What makes it correct |
|---|---|---|---|---|---|
| Asynchronous mutex | `common/async_mutex.h` | atomic word, private list, a link per awaiter | `lock`, `try_lock`, `unlock` | an unlock racing a push; two lists; newest first | exclusion, nobody lost, bounded overtaking |
| Request queue | `common/concurrent_async_queue.h` | ring, overflow, stack of waiters | `push`, `pop`, `cancel_all` | a push racing a pop; values in two places; waiters resumed outside the lock | first in first out over both places, nobody sleeps beside a value |
| HTTP connection and rate limiter | `src/http_connection.cpp`, `common/rate_limiter.h` | request in hand, global limit, entries per bucket with held requests, timers | `send`, `sleep_till`, sender loop, timer handlers, reconnecting | three actors on one limiter; failures between write and read | no request lost, doubled or sent into a known limit |
| Requests and their awaiters | `include/requests.h`, `include/discord_request.h`, `no_cache/requests.h` | verb, path and body; an answer; the coroutine that waits | create, await, ignore, answer | some 80 paths; the answer arrives on another thread or after the cache has changed | one bucket per resource, a coroutine gets what Discord said |
| Shard interface, webhook client | `include/shard.h`, `src/shard.cpp`, their copies, `src/webhook_client.cpp` | none | one call per request | ids by position | each call is about what its caller named |
| Guild cache | `src/internal_shard.cpp`, `include/guild.h` | guilds, chunks left, backed-up events | a handler per event, replay | events between the chunks of a guild; deletion in between | the cache converges to the server, messages once and in order |
| Gateway session | `src/init_shard.cpp`, `src/heartbeat_context.cpp`, `src/rename_later_5.cpp`, `src/internal_shard.cpp` | sequence number, ack flag, disconnected flag, frames to write | read loop, opcodes 1, 7, 10, 11, heartbeat, writers | three actors, a silent server, breaking in any state | numbers ascend, silence is noticed, the heart stops, reconnecting |
| Client | `src/client.cpp`, `include/client.h` | wave of identifies, queue of invalid sessions, global limit | `do_identifies`, `queue_to_identify`, `rate_limit_global` | shards greeted late, two limits at once | identifies spaced and once, all connections limited alike |
| Voice calls | `src/internal_shard.cpp`, `src/voice_connect_impl.cpp`, `src/discord_voice_connection.cpp` and `.h` | promises for two answers, set-up stage, playback, cancel flag and promise | `connect_voice`, two events, set-up, play, cancel, disconnect | answers in either order and from earlier calls; a cancel racing the end | fresh credentials, calls and cancels end |
| Cacheless HTTP connection | `no_cache/http_connection.*`, `no_cache/requests.h` | queue, entries sorted by their ends, timers, a shared state per request | send, await, sender loop, timers, reconnecting | timers that free the first entry and not their own; done against await | nobody freed early, nothing executed twice, every awaiter resumed |
| Cacheless gateway session | `no_cache/client.h`, `no_cache/src/` | the right to identify, a stack of shards, timers | HELLO, identify, opcodes 7, 9 and 11, heartbeat | HELLOs against the ends of writes against invalid sessions | one right, all identified |
| Cacheless events | `no_cache/src/internal_shard.cpp`, `no_cache/events.h` | sequence number, session | a handler per event | forty payloads that look alike | the callback of the event with its own fields |
| Data types, audit log | `include/`, `src/`, `no_cache/` | the members of an object | `from_json`, `to_json`, accessors | keys that are missing, null or of another kind; reading into what is there; two copies | nothing stale, read back as written, both libraries alike |
| Numbers and permissions | `common/big_uint.h`, `include/permission.h`, `no_cache/permission.h` | words | arithmetic, strings, add, remove, intersect | carries, trimming, words that are not there | exact numbers, the same permissions in both libraries |
| Mentions and settings | `include/allowed_mentions.h`, `include/modify_*_settings.h` and copies | what was set so far, in the type | one call per setting | moving lists along, the last call wins | what was asked for is sent |
| Web socket session | `common/web_socket_session_impl.*` | socket, mutex, reading flag | read, send, close, reconnect | closing against a pending read | not modelled |
| Cacheless client and voice, other queues, enumerations | `no_cache/`, `common/` | | | | not modelled; the reasons are in `PROJECT.json` |
| Tasks and promises | a submodule that is not part of the repository | | | | taken from their uses |
| Command parser, audio sources, containers, hash maps, example bots | `command_parser/`, `common/`, examples | no protocol state | | | not modelled; the reasons are in `PROJECT.json` |

## The modules

### The way out: a request

**`AsyncMutex`** has one action per atomic step of `async_mutex`: `StartLock`
loads the word, `Acquire` or `Push` is the successful compare-and-swap and
`Retry` the failed one; `UnlockFree`/`UnlockContended`, `TakeStack` and `Pass`
are the steps of `unlock`. `state` is the word `m_state` (unlocked, locked
without waiters, or the newest awaiter), `waiters` the private `m_waiters`,
`next` the links. **`AbstractLock`** is what users rely on: an owner, a set of
parked coroutines, hand-over without barging. `AsyncMutex!ImplementsLock`
states that the one implements the other, with the owner computed from the
program counters. **`AsyncMutexOvertaking`** adds a history variable that counts
how often one coroutine overtakes a parked one.

**`Routes`** is the table of the requests of both libraries: verb, body and path,
with the kind of the id that fills each place. **`ShardCalls`** is the table of the
calls of a shard: the request that a call makes and what the call is about.
**`Requests`** follows two calls from `Create` to the value or the exception: the
bucket is cut out of the path by `Bucket` (the first number in it, as
`get_major_param_id` does, also if the number is a digit of an invite code),
awaiting and executing send in the cached library, the call itself sends in the
cacheless one. `Outcomes` is `await_resume`: which statuses throw (`Throws`), what
is never asked for its status (`Unchecked`), and which successes still throw: a
message without a `guild_id` or of a channel that has left the cache, and the
answer that `add_guild_member` takes for an id (`Unreadable`). Of a status that is
neither a success nor an error to the code, both outcomes are possible.

**`AsyncQueue`** is `async_queue_maybe_better`: what happens under `m_mut` is
one step, the resumption of a waiter after it another. The ring is modelled by
its indices, including the odd test for fullness.

**`HttpConnection`** is the coroutine `start_sending` cut at its awaits
(`Pop`, `Wake`, `Clear`, `PassLimiter`, `Write`, `Reconnect` and the outcomes of
the read), the callers of `send` and `sleep_till`, and the limiter's timer
handlers in two steps (`Fire` takes the held requests out under the lock,
`GiveBack` sends them again). What the limit's two atomics are read and written
by is one step per access: `Check`, `CheckDue` and `Arm` for the sender,
`SleepTill` and `SetLimited` for the others. Before the first request there may
be no connection: `ConnectFails` counts the tries, after the last of which the
sender never starts, and `Reopen` is the try after a failed handshake, which
opens an open socket and throws. (A connection that existed and broke is made
again without end.) The queue is there by its contents; `AsyncQueue` has the
inside. `MCHttpConnection` fixes three requests on two buckets.

**`Mentions`** and **`Settings`** are what a bot puts into the body: the builders
of both libraries as a record or sequence that each call extends. Of the two
overloads for ranges, `add_roles` on a type without the flag compiles for no
range, and `add_users` returns a reference to its own local: after
`AddFirstUserRange` the builder is `dangling`, and what it holds is undefined.
**`MCRequestPath`** puts the parts of the way together, for two runs. (`Tables` has the operator that joins
the tables of requests, calls and events.)

### The way in: events

**`GuildSync`** composes the server's guilds, a reliable ordered wire and the
shard's cache. `TakeFirst` is the dispatch in `m_opcode0`; every handler is an
action, and the bodies that are also used by the replay are operators on a
guild's entry (`MemberAdd` ... `MessageEvent`). The handler of the last chunk moves
the backlog into `replaying`, and `Replay` is one turn of the loop of
`replay_events_for`: the shard takes nothing from the wire until the loop ends,
while the server goes on. The actions of the server (`Create`, `Join`, `Post`,
...) are external, chosen by the constant `Kinds`. **`MCGuildSync`** runs it
twice, with two sets of constants: with a server that keeps its guilds until they
are ready (`Orderly`), and with one that may do anything.

**`GatewaySession`** has the read loop, the handler of the heartbeat timer in
three steps (`BeatCheck`, `BeatSend`, `BeatClear`), since it runs beside the
strand, and the writers' frames, taken in any order, which is what the mutex of
`rename_later_5` allows. A read loop ends by an error of the socket (`ReadFails`)
or by an exception, which leaves the socket open (`ReadThrows`).

**`Client`** has `do_identifies` as a loop over shards (`Identify`, `Written`,
`TasksDone`, `NextWave`), `queue_to_identify` with its two timers, and
`rate_limit_global` with its loop of `SleepTill` calls, one per shard.

**`Voice`** has `connect_voice` with its promises kept in two maps of the shard,
the two events that set them, the stages of the set-up, and playback with
cancelling, one step per stretch between two awaits on one thread. `DoIpDiscovery`
is the one that waits for an UDP answer without a timeout: it may never come, or
hold no address (`DiscoveryFails`). A frame is awaited from the source (`Await`,
`Arrived`), which may never give one (`Stall`).

### The cacheless library

**`CachelessHttp`** is `http_connection2` with the shared state of a request:
`Pop`, `CheckRateLimit`, `Write`, the outcomes of the read, `SetDone` and
`Notify` (two steps, the awaiter's test of `done` falls between them), `Fire` and
`Resend` of the limiter's timers, `Await`, `Suspend` and `Resume` of the user's
coroutine. The sender is "dead" when no connection was made (`Connect`), when the
write fails, since what should reconnect then throws (`WriteThrows`), and when
the body of a 429 does not parse (`Unreadable`). **`CachelessGateway`** is the life of a shard from its HELLO to the
error that ends it, with the client's right to identify: `QueueToIdentify`,
`NotifyIdentified`, the timers and writes in between, `InvalidSession` with its
reserved time. A read loop that ends by an error leaves the disconnected flag
alone, so the connection is "unread" and its heart goes on. **`CachelessEvents`** is the table of handlers: which callback an
event ends in, and which fields of the payload it fills, from which part of the
event (`Reads`) and whatever shape that part has (`Shapes`: a ban's user in the
event itself, a member's roles as ids); `PayloadFields` is the
other table, of the payloads' own fields. **`MCCacheless`** runs one of these
three, or one of the two parts that hold the objects of both libraries, in each
behaviour.

### Values

**`BigUint`** translates the loops of `big_uint` into functions over the words
(`Plus`, `Minus`, `Times`, `Complement`, `BitAnd`, `StringOf`, `Parse`, ...), for
words of any size and digits of any base. All its loops carry from one column to
the next; `Carried` and `Overflow` say so once, and `Power`, `And` and `Or` are
what `std::pow` and the operators of built-in integers do. **`Permissions`** drives the permissions of both libraries by the same
calls, **`Numbers`** a number beside the exact one.

**`Forms`** says what a `from_json` is: a sequence of fields, read in the order of
the statements until one throws; a field is the kind of value that it takes, and
what becomes of its member when the key is missing or null. An object none of whose
members is set is written as null, since its `to_json` assigns no key, and null
cannot be read (`WrittenAs`). **`EmbedForms`**,
**`ObjectForms`**, **`ObjectFormsNc`** and **`AuditForms`** list the fields of
every object of the two libraries, of its `to_json`, and the members that its
accessors show. **`Objects`** then has one object of any form under updates one of
whose keys is odd; **`AuditLog`** one change of an audit log entry, whose values
have a type that depends on its key. Both run in `MCCacheless`, beside the parts
of the library that they compare with the cached one; permissions and numbers run
in `MCRequestPath`.

### Proofs

`AsyncMutexProofs`, `GuildSyncProofs`, `GatewayProofs`, `ClientProofs` and
`VoiceProofs` hold the theorems about the module in their name,
`RequestPathProofs` those about all parts of `MCRequestPath`, the values among
them, `CachelessProofs` those about all parts of `MCCacheless`, the
objects and the audit log among them, and `MCGuildSyncProofs` carries those of
`GuildSyncProofs` over to the two servers of `MCGuildSync`.

How the modules interact: `Requests` hands over to `AsyncQueue`, that to
`HttpConnection`; `GatewaySession` and `Voice` rest on `AbstractLock`,
`Client!SleepTill` is `HttpConnection!SleepTill` of each shard, `Client!Hello` is
`GatewaySession!HandleHello`; `Permissions` uses what `BigUint`, `Settings` what the
forms say.

## The runs

A run that has several parts starts in one of them and stays in it; each part
has its own fairness. So related questions share a configuration, and the
states of the parts add up instead of multiplying.

| Run | Shows | Bounds, and why they are enough |
|---|---|---|
| `mutex` | links, overtaking at most twice, progress, refinement (and with it exclusion) | 4 coroutines; with 3 the overtaking bound would be one, 4 is the least number that reaches two. No other bound: the state is finite. One `Rival` stands for all, coroutines being interchangeable |
| `request_path` | queue: first in first out, every value taken. Connection: one entry per bucket, nothing sent into a limit, executions counted, all finish unless there is no sender | Queue: 2 producers, 2 consumers, a ring of 3, 4 pushes, one cancel: the ring wraps, the overflow is used and refills it, a cancel meets a pending resumption. Connection: 3 requests, 2 on one bucket, 2 tries to connect (instead of 10), 2 limits of either kind, a failure, clock to 3: two limits on one bucket one after the other, a held request overtaken by a new one, a failure between write and read |
| `request_calls` | bodies: mentions and settings as asked, permissions agree, numbers exact. Calls: limits stay apart, a coroutine gets the answer | Bodies: 2 roles and 2 users, lists of up to 3; chains of 4 settings: one is set twice between others. Calls: any call, followed by one of four (a reply, a member's role, a webhook, an invite) on one of two ids, so that every path meets the same and another resource; invite codes with and without a digit; a success, an error and a status that is neither; answers with a known and an unknown channel, without a guild, and empty. Values: words of 4 bits instead of 32, strings in base 3 with two digits to a chunk (as nine decimal digits fit in 32 bits), numbers to 700 (three words): every carry, borrow, trim and chunk boundary happens |
| `http_global` | finding 1 | 3 requests, as above |
| `guild_sync` | convergence, order, completeness of ready guilds; with the other server, messages at most once | orderly: a guild of 2 members that is large (threshold 2), 7 dispatches: creation, two chunks and four events in every interleaving, or deletion and creation again. Members are interchangeable. Unruly: 1 member, 2 channels of which one has no category, 5 dispatches: vanishing while chunks are due, creation again, late and unknown events |
| `guild_sync_vanish` | finding 2 | 6 dispatches: what `guild_sync` excludes for its orderly server |
| `gateway` | beats arrive in order, the heart stops, silence and a dead reader are noticed | 2 dispatches and one asked beat: replayed and new numbers between two beats, an answer taken for another |
| `gateway_reconnect` | finding 3 | one dispatch |
| `client` | waves, identify after HELLO and once, limits agree, all get identified | 3 shards in waves of 2 (a full and a partial wave), 2 invalid sessions, 2 overlapping limits |
| `client_identify` | finding 4 | 2 shards in waves of one |
| `voice` | fresh credentials, calls and cancels end, no cancel hits the next playback | 2 calls one after the other or refused, 2 playbacks of at most 2 frames, one cancel and disconnects, one move and one failure: of the web socket, of the discovery or of the source |
| `cacheless` | connection: executed at most once, nobody released early, awaiters resume. Gateway: one right, all identified. Events: payloads filled. Objects: neither stale nor read apart, and what is sent is read back; changes told | 2 requests on any buckets, 2 limits that may overlap and end in either order, one failure, clock to 3; 3 shards, so that one has the right, one is queued and one comes meanwhile, an invalid session and a connection that is lost in either way; every event and scope, with two callbacks that the user did not set. 3 updates of every object, one odd key (missing, null, of another kind) in each: a value, its loss, and what follows; every key and kind of a change |

Deadlock is checked in `mutex` only: elsewhere the bounds, or a user who asks for
nothing more, let the system stop.

Mutants: each property of a passing run is broken by at least one plausible bug
in a mapped definition (a dropped test, a missing reset, an off-by-one, a swapped
order); they stand before the definitions they change, under "Mutants".

Some properties list exceptions by name (`LeftOut`, `Unfaithful`, `NotSent`,
`Hollow`, `NullTakenByOne`, `NotReadBack`, `Untold`, `Unreadable`, `Unchecked`,
`Removable`, `dangling`), and the promises of progress say what breaks them (a
dead sender, a lost connection, a lost UDP answer, a stalled source): what the
code does otherwise there is described under "Seen while modelling".

### Fairness

An owner of the mutex releases it and a coroutine in the loop of `lock` goes on;
nobody is made to ask. Whoever was handed a waiter resumes it, and the queue's
consumers pop again. The `io_context` runs handlers that are ready and timers
expire. The HTTP connections' peers answer, with any answer. A connection need
not come about: the sender then dies, and the properties say so. What a cacheless
shard writes to an open socket arrives. The gateway's fairness is needed in
`voice` only (it answers opcode 4); of the server in `gateway` nothing is
assumed, so that silence is a behaviour. No fairness on users, failures or
limits.

### Findings

1. `http_global`: `send_to_discord` sleeps until the end that it read and then
   clears the flag, also when another limit was set meanwhile
   (`src/http_connection.cpp:95`).
2. `guild_sync_vanish`: `GUILD_DELETE` leaves the guild's backed-up events and
   chunk count behind (`src/internal_shard.cpp:979`).
3. `gateway_reconnect`: `reconnect()` closes the connection and nothing connects
   it again (`src/internal_shard.cpp:358`, `src/init_shard.cpp:89`).
4. `client_identify`: identifies of invalid sessions ignore the other ones,
   since nothing moves `m_last_identify` (`include/client.h:133`).

### Seen while modelling

In the models or beside them, and contradicting no document, which is why no run
demands otherwise.

*Queues and connections.* The ring counts as full with one value in it
(`common/concurrent_async_queue.h:186`). An answer of 429 whose body does not
parse ends the sender (`src/http_connection.cpp:122`), and every later request
waits for ever; so it does when ten tries to connect failed
(`src/internal_shard.cpp:112`) or one handshake did, since the next try opens an
open socket (`src/http_connection.cpp:20`). `push_all` of
`concurrent_async_queue` loses waiters and values, that of the mpsc queue leaves
an empty value at the end. `m_last_global_rate_limit - now` is never positive, so
that "so i don't rate_limit myself twice" (`src/client.cpp:68`) never applies; the
limits' seconds are added as milliseconds.

*Gateway and client.* The stack of `queue_to_identify` is never served; an answer
to a beat that is handled between `BeatSend` and `BeatClear` is erased and a
healthy connection closed; the text of RESUME is not JSON; `init_shard` compares
error values with close codes that they never are; an exception ends the read
loop with the socket open, and the beats go on until one is not answered.

*Cache.* `*ptr_or_null` and `Guild::m_stuff` follow null pointers;
`REACTION_REMOVE_ALL` and `TYPING_START` of a channel whose creation is backed up
are dropped; `m_opcode0` swallows a chunk with a member that does not parse, after
which the guild is never ready.

*Voice.* A voice server update without a waiting call makes the next
`connect_voice` wait for ever; a voice web socket is connected again after the
user closed it (`src/discord_voice_connection.cpp:21`); with several threads a
cancel races the end of the playback (`include/discord_voice_connection.h:142`);
`send_voice` keeps no reference to its connection. The errors of the UDP socket
are ignored and its answer is awaited without a timeout
(`src/discord_voice_connection.cpp:297`): one datagram lost leaves `connect_voice`
pending for ever. A cancel is seen between two frames, so never while the source
gives none (`include/discord_voice_connection.h:106`).

*Requests.* The bucket of a call is the first run of digits in its path, so also
a digit of an invite code, where the comment says "or it's not included"
(`src/http_connection.cpp:32`, `:35`): two invites may share a bucket, and one
resource may have two. `get_guild_webhooks` asks `/channels/{guild}/webhooks` in both
libraries; `leave_guild` and `modify_guild` go to `/@me/guilds/` and `/guild/`;
`get_messages_before` and `_around` of a text channel send "after"
(`include/shard.h:188`); `send_reply` drops the reference; the body of a ban has
`delete-message-days`; a message's answer that arrives after its channel left
the cache, or without a `guild_id`, throws although the message was sent
(`include/shard.h:375`); `add_guild_member` reads the member it is answered with
as an id and throws; a cacheless request without a value tells no error; a status
such as 304 or 409 is neither an error nor a success and its body is read as the
value. `modify_role(guild_role)`, one `delete_message_bulk`,
`execute_await_later` and `add_roles` of a range do not compile when used;
`add_users` of a range returns a reference to a local
(`include/allowed_mentions.h:132`).

*Cacheless.* A shard with an invalid session reserves a time beside the one of a
shard in the queue (`no_cache/client.h:121`); a broken connection is never
replaced: after an error other than 10053 later requests get an empty 200
(`no_cache/src/http_connection.cpp:464`), and after 10053 reconnecting throws, in
the shutdown of the broken stream or in the open of the open socket (`:436`,
`:45`), which ends the sender; a 429 that does not parse ends it too (`:324`);
after a read error the heart of the shard goes on
(`no_cache/src/init_shard.cpp:80`); the read tests the error of the write;
a shard that breaks between HELLO and IDENTIFY keeps the right to identify;
`GUILD_UPDATE`, `GUILD_MEMBERS_CHUNK`, `MESSAGE_UPDATE` and integrations hand on
no payload; `GUILD_EMOJIS_UPDATE`, as Discord calls it, is unknown; the fields in
`CachelessEvents!LeftOut` are never filled.

*Data.* A user's `public_flags` and `premium_type` are read from "flags";
`guild_template` reads "discription"; `guild_integration` never reads its base; a
presence's status is read as a number; `joined_at`, `last_pin_timestamp`, an
activity's url, an attachment's size and all timestamps are never read; a nick
that was removed stays (`src/internal_shard.cpp:1089`); `widget_channel_id` takes
`application_id` (`src/partial_guild.cpp:59`); the two kinds of overwrite are
numbered the other way round than Discord's; `audit_log_entry::target_id()`
returns the id; "$add" and "$remove" are read as one role where Discord sends
lists; a change of "type" with one value throws; `remove_permissions` ands with
`~p`, whose missing words count as ones and which is as long as `p` or, when the
last word of `p` is all ones, shorter: a `p` with more words than the set adds
permissions, and of a last word that is all ones none is removed
(`include/permission.h:29`); an embed's image, author or the like with nothing
set is written as null, which no reader takes (`include/embed.h:103`); the
overload of `combined_permissions` that sorts compares with an alternative that
is not there; the builder of mentions in
`no_cache/` puts users among the roles and forgets the first ones; a guild's
region is set under "voice_region"; a role's colour is written and not read.

## What is proved

For every value of the constants, from the named assumptions of the modules
(`TwoWords`, `RivalAssumption`, `QueueAssumption`, `HttpAssumption`,
`GuildAssumption`, `ServersAssumption`, `GatewayAssumption`, `ClientAssumption`,
`VoiceAssumption`, `CachelessHttpAssumption`, `PartsAssumption`,
`CallsAssumption`, `BigUintAssumption`, `PermissionsAssumption`,
`NumbersAssumption`; the other modules need none). They say that numbers are
numbers and markers are no elements, that statuses are from 200 to 599 without
the 429 (which is the limiter's and no coroutine's), that a chunk of digits
fits in a word (as 9 decimal digits, and 4 of any base, do in 32 bits), and that
the permissions asked for fit in 64 bits; what a theorem assumes of Discord stands
in its statement.

* **Mutex.** `Ownership` = types, exclusion and the assertions together are
  inductive (that `TakeStack` moves a pointer and not the word "unlocked" needs
  the owner). On it rests `WaitersLinkedOnce`; this alone would allow a ring of
  awaiters that nothing refers to, which `Rooted` excludes: every non-empty set
  of parked coroutines is reached from outside it. With `Rooted` an `unlock` that
  finds no list knows that nobody is parked, and each step is a step of
  `AbstractLock` or a stutter: `LockImplemented`. `Counts` bounds overtaking
  without counting coroutines: the parked are two sequences, the stack and the
  list; a coroutine on the list can be passed once more only by a `Rival` that is
  before it there, one on the stack once from the list and once from the stack,
  and turning the stack into the list is possible only when the list is empty.
  Hence twice, for any number of coroutines (`OvertakenAtMostTwiceAlways`).
* **Queue.** `QueueInv`: because of the odd test for fullness the ring never
  holds more than one value (`OneInRing`), so the indices need arithmetic modulo
  the size only for neighbours, and what was taken followed by what is held is
  what was pushed. `FirstInFirstOut` follows for any ring, and
  `NobodySleepsBesideData`, which a push to a waiter relies on: it skips both
  stores, and is in order only since they are empty.
* **Requests.** Every request of both libraries leads with the id of what it is
  about (`EveryCallLeads`, `EveryRouteLeads`, `EveryArgsLead`: table by table), so
  the first number of a path is the guild, channel or webhook it is about, and
  where it is about none there is no number but an invite code's. Hence
  `LimitsApartAlways`, for any ids, slots and codes: a call is held only with the
  resource that was refused, and a refused resource holds all its calls. (Two
  invites that share a number share a bucket; they are about no resource.)
  `OutcomeAlways` needs that an answer stays while its coroutine is posted, and
  holds for any statuses: a value without a success, or an exception after one, is
  among the cases that the property names.
* **Bodies.** `MentionsInv`: the two builders have the same flags, no kind is
  allowed as a whole and listed, and a cacheless builder that has lost users has
  fewer of them from then on, so it can never agree again by accident. Nothing is said of a `dangling` builder.
  `SettingsInv`: of every key the value asked for last stands behind all others of
  that key, for chains of any length; that it comes back is proved key by key from
  the tables (`SettingsAreRead`).
* **HTTP.** `LimiterInv`: the types, and `Paired` (a bucket has no entry and no
  timer, or one of each with the same end) together with
  `NeverSentWhileLimited`. Each needs the other: a second limit on a limited
  bucket is excluded because the request in hand passed the limiter, and a timer
  handler erases its own entry because it is the only one. `OnceInv`: a request
  is in at most one of the queue, the sender's hand, a limited bucket's entry and
  a timer's hand, in each at most once, and what was executed of it is counted;
  a limit moves a whole bucket between two of these places and copies nothing.
  A sender that dies loses the request in its hand and duplicates none.
  Hence `ExecutedOnceAlways` for any number of buckets and requests.
* **Guild cache.** Whatever the server does, numbers rise through what is replayed,
  put aside and on the wire (`Ordered`), and a message is in one of these places
  or delivered (`Once`): `AtMostOnce`. With an orderly server: at most two lives of
  a guild overlap on the wire (`Lives`), the chunks due are a stretch on the wire
  and the rest still to be sent, and `m_chunks_left_for_guild` counts them (`Sync`). Then
  `Follows` is the core: take a member, a channel, a role, the name or the emojis;
  the server has what the last pending event about it says, and without one what
  is cached (members being cached as soon as a chunk names them). A handler keeps
  it because what it does to an entry is what its event says (`ApplyEffect`), a
  replay because the backlog's numbers are between those that took effect and
  those on the wire. When nothing is pending this is `CacheIsRight`. `Delivered`
  adds that the channel of every pending message is known when its turn comes, and
  `Everybody` that whoever a ready guild was created with is told of or leaves. That
  `BacklogOnlyWhileSyncing` follows (`BacklogOfOrderly`) shows that finding 2 needs
  a guild that vanishes while it syncs, and `ChunksFindGuilds` that the unchecked
  look-up of the chunk handler finds its guild. `MCGuildSyncProofs` states them for
  the run's two servers.
* **Gateway.** `LastBeat`: the disconnected flag is never taken back, so the
  beat past its test is the last. `Numbers`: beats are bounded by `m_seq_num`,
  that by the numbers sent, and so are those on the way. `OneOut`: until the
  server asks for a beat, at most one is with a writer, unanswered or answered by
  an ack on its way, and none while the timer may send: `recived_ack` is set
  only by the answer to the latest beat and cleared after each, also when the
  answer overtakes the clearing, which then only costs the connection. So the
  order in which the writers are served does not matter
  (`BeatsArriveInOrderAlways`).
* **Client.** `LimitsInv`: a loop of `sleep_till` divides the shards into those
  that have the new end and those that agree on the old one. `StartsInv`:
  `do_identifies` has started only shards before its turn. `WavesInv`: during a
  wave, which began after a multiple of `MaxConcurrency` shards, the starts of the
  shards up to there are a pause ago; the timer's end is a pause after all of
  them. That the next shard opens no wave too early is arithmetic of remainders
  (`NextEnd`). Hence `StartsInWavesAlways`.
* **Voice.** `CancelInv`: a pending cancel belongs to the running playback, and
  only a playback that sends frames can be cancelled, so none stays behind for
  the next: `CutOnlyIfAsked`. `FreshInv`: the gateway tells of one join at a time
  (`OneJoin`), and a call whose promise is in the map either has its opcode 4
  before it or both answers of its own join, in the map or ahead of any end of
  the join (`Served`); a promise left by a move belongs to nobody and can start
  no call. Hence `FreshCredentialsAlways`.
* **Cacheless gateway.** `RightInv`: the right to identify is the flag, or one
  timer, or one write; HELLO, identifying and the end of a write move it from one
  to the next, and nothing else touches it, and no shard is queued while it is
  free: `RightInOnePlace`.
* **Cacheless HTTP.** `Punctual`: for every time from now on, the entries that
  end by then are the first ones, and as many as the timers that do. It says
  nothing of the past, where a late timer may outnumber them; so a timer that is
  due finds an entry, and the first is due too (`NeverReleasedEarlyAlways`),
  although it need not be its own. `InsertSorted` keeps it because the position
  it counts out is the end of those first ones. `OnceInv` is the one of HTTP with
  entries in a row and several timers at work; here nothing executes a request
  again, so `ExecutedAtMostOnceAlways` is without an "unless".

* **Cacheless events.** Table by table, each handler fills what its payload has,
  but for `LeftOut`: `PayloadsAlwaysFilled`, for any callbacks that are set.
* **Objects.** What a `from_json` does is read off the set of its fields
  (`ReadOf`): it throws when one of them does, and a member has what the last field
  that fills it read. So a member tells the last update if a field of its own name
  fills it, and in an object that is read in place (`GUILD_UPDATE`, ...) one that
  keeps nothing (`FilledBy`, `UpdateTells`). The forms are then gone through as
  sets of fields (`AllTell`), as pairs that read the same fields or alike ones
  (`AllAlike`), and as what is written beside what is read (`AllSend`). Of the
  state, `ObjectsInv` needs that an object has the members of its form, and that
  the forms that the libraries share leave the same object in both. Hence
  `NeverStale`, `AlwaysReadAlike` and `AlwaysReadsBack`, for any number of updates,
  each with any one odd key, the ones that failed half-way included.
* **Audit log.** `AuditInv`: what both libraries hold is what they read of a
  change whose values are missing, null or of any kind; by the type of its key,
  `ReadIsTold`. `ChangesAlwaysTold`.

* **Numbers.** `Is(a, n)`: `a` is a sequence of words that does not end with a zero
  and stands for `n`. A number has one such sequence (`ProperUnique`), so each
  operation is right if what it returns stands for the right number and is
  trimmed. That a loop that carries keeps the number is one induction over its
  columns (`PartCarries`); sums, differences, rows of a product and the decimal
  digits are instances of it (`PlusIs`, `MinusIs`, `TimesIs`, `AccTimesIs`), as
  long as the last carry fits in a word (`OverflowIs`). A string is read chunk by
  chunk to the number of its digits (`ReadIs`), and written without leading zeros
  (`StringOfIs`): the accumulator has no more digits than it needs, or than there
  were columns (`Tidy`). `Is(number, exact)` is inductive, hence
  `NumbersAlwaysExact`, for words, bases and numbers of any size. The inductions
  over words and digits are over indices that are in a set (`Induction`), which
  needs no theorem with an operator as parameter; the loops are functions that are
  local to an operator, and that there are such functions is proved first
  (`Recursion`).
* **Permissions.** The bits of a number of two words are those of its words
  (`BitsSplit`), so what `&` and `|` do word by word is what they do to 64 bits
  (`JoinSplit`), and `With` adds bits whatever the lengths (`JoinKeeps`).
  `Without` takes them away when the complement keeps its length and the set is as
  long (`Removable`); the code does not ask for that, and neither do the actions:
  any removal takes away no other bits than those named up to the words it cuts
  (`WithoutKeeps`), and `intact` is the history of whether all were `Removable`.
  While it is, `Is(perm, flags)` with `flags` below 2^64 is inductive:
  `PermissionsAlwaysAgree`.

Every safety invariant and every action property that a run checks is proved.
Only model-checked is liveness, for which the prover has no rule: it has no
`ENABLED`, and so no fairness.

## What is left out

*Data*: texts, encryption and packets, the JSON bodies of requests, the contents
of objects inside objects, timestamps; presences, voice states of others,
categories (parents of channels), `GUILD_MEMBER_UPDATE`, direct messages and bans
in the cache. *Memory orders*: the mutex is taken as sequentially consistent,
which its acquire and release orders give for the one word it has. *Voice*: one
guild and one thread; the heartbeat's text and the second heartbeat loop after a
HELLO on a socket that was connected again. A playback at a time per call is
assumed, as the music bot (`music_bot/main.cpp:25`) plays; the code does not
enforce it. The cached library's reconnecting uses the `ssl::stream` of the
connection that broke; that asio can do so is assumed. So is that
`X-RateLimit-Reset` or `-After` comes with a remaining of 0. The gateway answers an opcode 4 with its two events together and
removes the bot only afterwards. *Handlers* that throw half-way are left out of
`GuildSync` except where their guards make them return; `Objects` has what they
leave of the object they read into, `CachelessEvents` that nothing is called.
*Cacheless*: `sleep_till` (its callers are commented out), the voice handshake,
and the older `http_connection` that nobody uses.

Not modelled at all: the web socket session, whose pending read and close race
only through the life that `ref_count_ptr.h` gives it; the other queues, which
nothing that runs calls in a way that the modelled ones are not; the command
parser, audio sources, containers, third-party hash maps, enumerations and the
example bots, which keep no state of the protocol.

## Plan

Done, in this order: mutex and its refinement, queue, HTTP connection, guild
cache, gateway session, client, voice; proofs of mutex, HTTP, gateway, client
and of voice's cancelling; requests and their routes, the cacheless library, the
data types; proofs of the queue, of the right to identify, of the fresh
credentials, of the single execution of a request and of the waves, and of the
cacheless connection; proofs of the guild cache, of the overtaking bound, of the
order of beats, of the requests, their bodies, the cacheless payloads, and the
objects and the audit log of both libraries; proofs of the numbers and the
permissions, with `BigUint` written anew without recursive operators.

1. The remaining events of the cache: `GUILD_MEMBER_UPDATE`, presences, voice
   states, categories with the two-way links between a channel and its parent.
2. Compositions: several HTTP connections under `Client`'s global limit (finding
   1 from the cause to the effect); an abstract request service (sent, answered
   once) that `HttpConnection` and `CachelessHttp` implement while nothing breaks.
3. The web socket session with the intrusive pointer, for the life of a voice
   connection.
4. Theorems: the refinements of 2.
