# A TLA+ model of ghostpp-rs

ghostpp-rs is a bot that hosts Warcraft III games on Battle.net-like servers: it
advertises a lobby, seats the players who connect to it, relays the players'
actions while the game runs, records a replay, and lets players whose connection
broke come back (GProxy++). It is a set of tokio tasks - actors - that own their
state and talk over bounded channels. This directory holds TLA+ models of those
parts whose behaviour is hard to test, the TLC runs that check them, and TLAPS
proofs.

Line numbers below and in `PROJECT.json` are of the sources in `src/src`.

## Inventory

| Component | Source | State it keeps | Operations | What is hard | Model |
|---|---|---|---|---|---|
| GameActor, GProxy++ half, with a connection's tasks | `game/actor.rs`, `net/conn.rs`, `bot/listener.rs` | per player: `total_sent`, `total_received`, resend buffer, connection, `pending_drop` | send, receive, ack, hold, reconnect, replay, expire | loss, stalls, late closes, reconnects in the wrong order, a replay that fails half way | `GProxySession` |
| GameActor, lobby half | `game/actor.rs`, `core/gameslot.rs` | slots, players, virtual host PID, countdown, autostart, download state | join, leave, kick, `!ping` kicks, open/close/swap/shuffle, team, colour, map report, start, abort, `!end` | commands that must keep players and slots in step; a countdown that overlaps joins, leaves and downloads; broadcasts put off to a tick | `Lobby` |
| GameActor, game half | `game/actor.rs` | loading set, action queue, `sync_counter`s, lag screen, votes, holds, gameover timer | beat, keepalive, action, drop vote, `!drop`, `!end`, leave, disconnect | everybody waits for laggers; votes and answers that outlive their screen; the end of the game on every path | `GameLoop` |
| GameActor, action stream, replay recording, desync detection | `game/actor.rs`, `core/replay.rs` | the queued actions, the replay's two block lists, a checksum queue per player | beat, chunks, lag screen shown again, leave, keepalive, comparison | every client and the replay see one stream although GProxy++ clients add empty batches of their own; queues stay aligned by turn while players leave | `ActionStream` |
| GameActor, moderation; the ban and mute tables | `game/actor.rs`, `db` | mutes and bans per realm, mutes per seat, a verified realm per seat | join, `!mute`, `!unmute`, expiry, verification, `!addban`, `!delban` | database calls of several actors between each other's steps, failures, realms, restarts | `Moderation` |
| GameActor, map download | `game/actor.rs` 2473-2523 | parts sent and acknowledged | window of parts, a pump every 100 ms | window and end of file | not modelled |
| BotCore | `bot/mod.rs`, `bot/messages.rs` | the lobby game, games in progress, reconnect keys, servers | host, unhost, autohost, route | events of a game that are overtaken by BotCore's own decisions; a lobby that ends by itself (`!end` has no phase check), an actor that panics; bounded queues in both directions | `Hosting` |
| BnetActor | `bot/bnet.rs` | login phase, outgoing queue, advertised game | log in, advertise, refresh, chat, reconnect | login order, flood control, reconnects while a game is advertised | `BnetActor` |
| Status board | `bot/status.rs`, `game/actor.rs` | a snapshot per game, a revision, the connection permits | publish, remove, serve | a reader between a writer's steps, ETags across restarts, permits of connections that fail | `StatusBoard` |
| Frame codec, packet formats, map files, hashing | `net/codec.rs`, `core`, `bncsutil` | none that changes | pure functions over bytes | - | not modelled |
| Configuration, console, texts, start-up | `bot/config.rs`, `bot/console.rs`, `lang.rs`, `util.rs`, `main.rs` | none that changes | input and output | - | not modelled |
| Earlier object layer | `core/bnet.rs`, `core/game*.rs`, `core/gproxy.rs`, ... | - | stubs of the structures the actors replaced | - | not modelled |

How they interact: the listener hands sockets to BotCore, which sends them to
the lobby's actor as `GameCommand`s; each connection's read task sends frames and
its own end to the game's `conn_event` channel, and its write task drains an
unbounded channel whose *bytes* are limited by `WRITE_QUEUE_MAX_BYTES`; the game
actor reports to BotCore over BotCore's event channel, and BotCore answers with
commands of their own. Game actors write the status board behind a mutex and
ask the database in their own tasks. Inside an actor everything is sequential: one
event is handled to its end before the next is taken, and this is the grain of
the actions in every module here, except where a handler awaits another party
and what it read before may be stale afterwards: there (`Moderation`,
`StatusBoard`, `BnetActor`'s logon) each awaited call is a step.

What must be true of each part, in the words of the properties: see "Runs".

## Modules

**`ReliableStream`** is abstract: a numbered stream, and a reader who is handed
1, 2, 3, ...: nothing twice, and nothing skipped but what the writer has declared lost.
A reader who was made to skip a packet counts wrong from then on, and is promised
nothing more.

**`GProxySession`** follows one player of a game. Its host actions are the
events of the game actor that touch the player: `Broadcast` stands for every
event that sends them W3GS packets through `send_to_pid`, `PingTick` for the
five-second tick, `HandlePlayerFrame`, `HandleGpsInit`, `HandleGpsAck`,
`HandleConnClosed`, `HandleGproxyReconnect`, `GameTickExpire` and
`ProcessPendingDrops` for the functions of those names. `stage` says where the
main loop is: an event that noted the player in `pending_drop` is followed by
`ProcessPendingDrops` before any other event, as in `run` (482-483).
`OtherPlayerDropped` is the one exception in the code: while the drops of
*another* player are processed, this player may be noted again and stays noted
until the next event is over. A packet is its number; the limits
`WRITE_QUEUE_MAX_BYTES` and `GPROXY_BUFFER_MAX_BYTES` are counted in packets, and
`SmallMayFit` says whether a queue may take a packet that has just refused one:
because the later packet is smaller, or because the write task, which runs beside the
actor, has made room meanwhile. In an event one stretch of packets is refused.
`refused` and `forgone` are history: what the present connection's queue
refused, and what nobody owes the client any more - refused packets that a later one
overtook, and packets from before the load that a client asks for again. The network
delivers any prefix of what was in flight when a connection dies. The GProxy++ client is not in this
repository; it is modelled from what the host's code expects: it acknowledges what
it handed to its game, dials with the number of packets it has, and resends
what the host says it lacks. Both directions are shown to implement
`ReliableStream` under the mappings `HostToClient` and `ClientToHost`.

**`Lobby`** follows the slots and the players of a lobby. `MaxSlots` is a
constant (12 in the program). `Leave` covers a leave, a lost connection and a
kick, which differ only in what is sent; `PingKick` removes everybody over the
limit `!ping` was given at once. `shown` is a history variable: the slots of the
last slot info every client was sent. `players[p]` keeps the download flags;
`confirmed` is history.

**`GameLoop`** follows a started game. `behind[p]` is the game's `sync_counter`
minus the player's; it may be negative, because the handler counts every
keepalive a client sends, owed or not.
Clocks are left out: where the code compares seconds, the model lets the wait be
over at any beat. `screen` and `pressed` are history: who the clients show on
their lag screens (`START_LAG`, `STOP_LAG`, `PLAYERLEAVE_OTHERS`), and who
pressed the button since the screen came up. `answers` counts
BotCore's `AdminDropLaggers` on their way.

**`ActionStream`** looks at the same game from the side of what is sent.
`handed[p]` is what player p's game is handed, in order: batches, the empty
batches that the host, or GProxy++ on the player's machine, puts between them,
and leaves; `Replay` is what the replay file will say. `Chunks` cuts a batch's
actions into packets at `ChunkBytes` the way `send_all_actions` does. A
checksum is a prefix of what the client was handed, so two clients agree on a turn
exactly if they were handed the same up to it, or one has `state[p] # 0`: its game
diverged for reasons of its own. `CheckDesync` is one round of the comparison;
`comparing` holds the rest of the actor until its loop is over, as in the
code. That a player's link delivers everything in order is what `GProxySession`
shows, so a held player here is one who plays late.

**`Moderation`** has the database's two tables, the games that use them, and
BotCore's `!addban` and `!delban`. `job[g]` is the join or the command game g's actor
is in the middle of; each `await` of the database is a step, which may fail where
`MaxFailures` allows. `last`, `during`, `due` and `barred` are history: which
orders may be the ones in force, given that orders in different games overlap,
and which bans held all through a join.

**`StatusBoard`** has the game actors' `StatusPublisher`s, the board behind its mutex, and
one task per HTTP connection: the task reads a request, compares the ETag, takes a
snapshot under the lock, serializes it, writes the response. A restart begins revisions and host
counters anew while pollers keep what they hold.

**`Hosting`** follows BotCore's registry: `current_game`, `games`, the reconnect
keys, autohost's switches. Each game is only a phase (`lobby`, `started`,
`closed`, `lost`), and reports through `events`, a FIFO queue in which BotCore finds what
the games *were*. A handler that ends in `try_autohost` in the code ends in
`TryAutohost` here, in the same action. `GameEnds` covers the three ways a
game comes to send its `Deleted`: everybody left after the start, it was told to close, or
an admin typed `!end` in it, which BotCore forwards (`bot/mod.rs` 424-434) and the actor
obeys (`actor.rs` 1013-1017) in a lobby as well as in a running game. `GameLost` is an actor
that panics: it ends alone and sends nothing. `told` is the game every server was last
told to advertise. `asked` is history: the games an `!unhost` was meant for. The
queue has no capacity here, and the keys of a game's clients are one key.

**`BnetActor`** takes up where `told` ends: one server's actor, with the commands
on their way to it (`cmds`), its connection and its logon packet by packet, its queue behind
flood control, and what the server lists. `HandleFrame` advances the logon as the
server's `answers` come. BotCore is reduced to the sender of commands with a lobby.
Waits are not measured: a packet may leave and a refresh be due at any time.
`unlistable` are the games whose `STARTADVEX3` comes out empty (`bnet.rs` 507-512): they
are advertised as far as the actor knows, and no refresh of theirs is queued.
`discarded` is history: what `wait_reconnect` threw away. The two modules meet in
`OnlyLobbyTold` (BotCore tells servers of no game but the lobby) and
`OnlyLobbyAdvertised` (the actor does as told).

In these modules a definition that precedes another and is used
nowhere (`KeepIfConnected` before `Keep`) is the same definition with a plausible
mistake in it. `PROJECT.json` lists under `mutants` which property fails when it
takes the place of the other.

The `MC*` modules and the `.cfg` files give the constants small values; the
`*Proofs` modules hold the theorems.

## Runs

| Run | Specification | Distinct states | Properties |
|---|---|---|---|
| `gproxy_session` | `FairSpec` | 279,233 | `TypeOK`, `BufferIsSuffix`, `BufferReachesBack`, `HeldIffUnmapped`, `HostToClientReliable`, `ClientToHostReliable`, `EventuallyDelivered`, `HoldEnds` |
| `gproxy_session_unbuffered` | `Spec` | refuted | `HoldCostsNothing` |
| `lobby_slots` | `Spec` | 20,190 | `PidsExact`, `ColoursFit` |
| `lobby_start` | `FairSpec` | 344,316 | `TypeOK`, `ClientsShown`, `CountdownIntact`, `CountdownEnds` |
| `lobby_confirmed` | `Spec` | refuted | `AutostartConfirmed` |
| `game_loop` | `FairSpec` | 581,500 | `TypeOK`, `ScreenIsLaggers`, `VotesAreFresh`, `WaitsForSomebody`, `ActionsGetOut`, `LastPlayerEnds` |
| `action_stream` | `Spec` | 1,322,596 | `TypeOK`, `SameStream`, `QueuesAligned`, `VerdictsFair`, `MajorityStays` |
| `moderation` | `Spec` | 6,553,219 | `MutedStaySilent`, `OthersSpeak`, `BannedStayOut` |
| `status_board` | `FairSpec` | 1,594,328 | `NotModifiedIsTrue`, `BoardIsLive`, `PollersCatchUp` |
| `hosting` | `FairSpec` | 1,257,489 | `RegistryExact`, `KeysReclaimed`, `UnhostHitsOwnLobby`, `OnlyLobbyTold`, `AutohostReturns` |
| `bnet_actor` | `FairSpec` | 1,402,802 | `TypeOK`, `OnlyLobbyAdvertised`, `ListingFollows`, `PublicGameListed` |
| `bnet_actor_redriven` | `Spec` | refuted | `CreatesRedriven` |

All runs disable the deadlock check: a session whose player is gone, a lobby
that has started and a game that is over stop, and the bounds stop the rest.

### GProxy++ session

`gproxy_session`: one packet before the client has its key, a write queue of
three packets, a resend buffer of two, four packets from the host in events of one or
two, two from the client, three connections, and one that is lost or given up while it
works; a stall ends any number of them. That is enough for a stall (the
queue fills), a packet that overtakes a refused one (`actor.rs` 3069 goes on to the
event's next packet), a buffer that overflows, a loss in the middle of a replay,
two reconnect requests in flight that arrive in either order, the close of
an old connection after the reconnect, and a client that dials before it has the load.

* `TypeOK` includes that the connection of a player never holds more than its limit,
  unless the player is noted for a drop: after a refusal the write task may make room
  within the event, and what it wrote then and what the queue took instead both
  count as not yet read.
* `BufferIsSuffix`: the resend buffer is the *last* packets sent without a hole.
  `trim_gproxy_buffer` depends on it: it computes the number of the first
  buffered packet from `total_sent` and the length.
* `BufferReachesBack`: the buffer reaches back to what the client has, for a
  client that has got past the loading.
* `HeldIffUnmapped`: a player is mapped to their current connection or held,
  never both, never neither. Neither would be a player nobody removes; both a
  player whose packets are taken from a connection that is given up.
* `HostToClientReliable`: what the client is handed is the host's numbered stream, in
  order and without repeats, over any number of sockets; the only packets it skips are
  those in `forgone`. A client that skipped one counts one too few, reports the
  wrong number when it resumes, and is promised nothing more. So the holes that
  are allowed are the two the code has (see "Findings"): a refused packet that a
  later one overtook, and packets from before the load. Both happen in the run; a
  hole that opens any other way - a held player's packet that is not buffered, a
  replay that begins too late, an acknowledgement that trims too much - violates it.
* `ClientToHostReliable`: what the actor counts of the client's packets is
  `ReliableStream` with nothing lost: none is skipped and none comes twice.
* `EventuallyDelivered`, `HoldEnds`: what the host numbers reaches the client unless it
  or an earlier packet is in `forgone`, and
  no hold lasts. Fairness: the actor's `select!` serves every ready branch again
  and again, so the handlers, the pending drops and the expiry are weakly fair;
  tokio runs the write tasks; the client reads its connection, and dials when it
  read the end. Losses, sends and a client that gives up a *working* connection
  are not fair. The wait for a reconnect is a number of seconds in the code; in
  the model the expiry is possible at any beat and, being weakly fair, happens
  if the hold lasts.

### Lobby

`lobby_slots`: three slots and three PIDs, so that the virtual host has to give
way, on three maps: `Melee` (two playing slots and an observers'), `Forces`
(custom forces, where changing team moves the player to another slot) and `Fixed`
(fixed player settings, and a computer that is swapped, opened and closed like
any other).

* `PidsExact`: every PID is nobody's, one player's in one slot, or the virtual
  host's, across `!ping` kicks of several at once and a host that left for want
  of a PID and comes back.
* `ColoursFit`: no two slots share a playing colour, and observers have none. The
  second half is not claimed under custom forces, where a swap keeps the team
  with the position and moves the colour.

`lobby_start` (two slots; the countdown's and the slot info's ticks are
branches of the actor's `select!`, hence fair): map reports of 50, 100 and 360
percent, autostart, countdown, downloads, and slot commands together. Two slots are
enough for a player who disturbs what another one started.

* `TypeOK` matters for the download status, which the code keeps in a byte and
  means to hold at 100.
* `ClientsShown`: clients were sent the slots as they are, unless the one-second
  tick is due to.
* `CountdownIntact`: no countdown, and no start, survives the departure of a player.
* `CountdownEnds`: it ends, in a start or cancelled.

### Game loop

`game_loop`: three players, one on GProxy++, one admin, sync limits 1 and 2, one
answer of BotCore in flight, no counter ahead of the game's. Three players are the
fewest with a vote that has both a lagger and a voter who does not decide alone.

* `TypeOK` includes that no batch can name a player the clients have removed, and
  that nobody is further behind than the most tolerant limit allows.
* `ScreenIsLaggers`: the clients' lag screens show exactly the laggers.
* `VotesAreFresh`: a vote counts on the screen it was pressed on.
* `WaitsForSomebody`: the loading screen waits for a player who is there, and the
  game everybody left is over and its records are out.
* `ActionsGetOut`, `LastPlayerEnds`: an action that was queued goes out whatever
  the laggers do, and a game down to one player ends. Fairness: the beat and the
  one-second tick are branches of the `select!`, so a screen that stays up runs
  out of time and a gameover timer finishes.

### Action stream

`action_stream`: three players, one of them behind GProxy++, two empty batches
per beat for them, packets that hold one action, three beats, two actions, one
lag screen shown again, one keepalive before the game loaded, one client that
diverges. The two players without GProxy++ are alike (symmetry). Three players are
the fewest with a majority; a second action is what makes a batch of two packets;
three beats let one player be two turns behind and still be compared.

* `SameStream`: whoever is in the game was handed the batches and leaves of the
  replay, in its order - the reason a replay plays and that a GProxy++ player's
  game stays in step with the others although they are sent different packets.
* `QueuesAligned`: position n of every checksum queue is of the same turn, after
  leaves, keepalives before the start, and re-shown screens, whose empty
  batches are answered by nobody and counted by nobody.
* `VerdictsFair`: nobody is dropped for a desync unless some game diverged, and
  those who play on agreed on every turn compared.
* `MajorityStays`: nobody in the same state as more than half the players is dropped.

The client sends no keepalive for the loading screen after the game loaded
(`MaxSpare` counts those before, which `actor.rs` throws away); one that came
late would shift its queue by a turn.

### Moderation

`moderation`: one name, two realms, mutes for one second or for good, two games,
two seconds, three orders, two bans added or removed, one call to the database
that fails and one restart. Names do not affect each other, so one is enough; two
realms are what a player can be verified on the wrong one of; three orders are the
fewest with one that is taken back while another is being carried out.

* `MutedStaySilent`: a player is silent while the mute lasts that was ordered last,
  across rejoining, restarts and orders from several games.
* `OthersSpeak`: nobody else is; a mute is over with its time, and `!unmute` lifts
  it on all lists.
* `BannedStayOut`: no join succeeds against a ban of any realm that held all
  through it.

The exceptions the code makes are in the statements: a database that failed to
tell, orders that overlap (either may be the last), and a name that is muted on
two realms' lists, where the first list with a mute in effect decides and not the
last order. What the sender of a chat packet is, is taken from the connection.

### Status board

`status_board`: two games, two views of a game, one poller with the only permit,
two changes, one restart, one connection that fails. Readers do not affect each
other but through the permits, and one permit is when a lost one shows.

* `NotModifiedIsTrue`: whoever is told 304 for a tag holds exactly the board of that
  moment; a tag names the run of the bot besides the revision, without which a restart
  would make old tags true of new boards.
* `BoardIsLive`: the board has one entry per game, none of a game whose actor is gone,
  and says of each what it last published.
* `PollersCatchUp`: once the games stop changing, pollers that keep polling hold
  what they are. Fairness: actors tick and publish, a connection's task runs to
  its end. That a poller polls again (strong fairness of `Request`) is not
  scheduling of the code but what it takes to see anything.

### Hosting

`hosting`: two games hosted, one allowed at a time, a login, an
`!unhost` typed in a game, and every admin command, `!end` typed in a lobby among
them; any actor may panic. Two games are the fewest for
an event of an old game to meet a new lobby, and `MaximumGames = 1` is when
autohost has to wait for the end of the first.

* `RegistryExact`: the lobby and the games in progress are what BotCore takes them
  for, up to the events on their way and to actors that panicked, whose games stay
  registered; no live game is lost. That a lobby which ended by `!end` is still
  `current_game` until its `Deleted` is handled is one of these cases.
* `KeysReclaimed`: a reconnect key does not outlive the handled end of its game,
  although it may be registered by an event of its own.
* `UnhostHitsOwnLobby`: an `!unhost` typed in a game that starts meanwhile does not
  close the next lobby.
* `OnlyLobbyTold`: no server is left with a game that is not the lobby: a lobby that
  ended by itself is uncreated when its `Deleted` is handled (`bot/mod.rs` 1173-1176).
* `AutohostReturns`: when autohost has every reason to host, it does in the end,
  unless an actor panicked: its `Deleted` never comes, and autohost may wait for it.
  Fairness: BotCore handles its events, a game told to close closes, and a server
  lets the bot log in, without which nothing starts autohost at all.

### Battle.net actor

`bnet_actor`: two games, public or private, that can be listed or not, one `UncreateGame` that comes with
another lobby open, one chat command, two connections refused or lost, at any
packet of the logon or after it.

* `TypeOK` includes that at most one refresh waits behind flood control, and that
  nothing comes between the packets of a logon.
* `OnlyLobbyAdvertised`: an actor that threw no command away ends up advertising
  the lobby or nothing, over all reconnects.
* `ListingFollows`: flushing the queue leaves the server with the advertised game
  listed, or none, unless that game's packet cannot be built: then the game before it may
  stay listed until the bot says otherwise; without one the bot is in its channel or on its way there.
* `PublicGameListed`: a public game that stays advertised comes to be listed,
  although each refresh goes to the end of the queue, if its packet can be
  built. Chat is bounded (`MaxChats`): that refreshes come through a channel that never
  falls silent is not claimed. Fairness: the branches of
  the `select!`, and connections that succeed once the bounded losses are over.

## Findings

Each is a run that TLC refutes, a disagreement between what the repository says
of the program and what it does.

| Run | The repository says | The code does |
|---|---|---|
| `gproxy_session_unbuffered` | `actor.rs` 3115: abandoning a stalled socket costs nothing | what was sent before `game_loaded` is in no buffer |
| `lobby_confirmed` | `actor.rs` 2352: only start once everyone has confirmed the map | a larger file counts as 100 percent |
| `bnet_actor_redriven` | `bnet.rs` 276: BotCore re-drives commands discarded during disconnection | nobody does; the lobby stays unadvertised on that server |

Met while modelling, without a run of their own:

* after a refused packet the event's later packets are still tried (`actor.rs` 3069); the
  client counts one that came through as the refused one, and the resume carries on
  without it, where `conn.rs` 88-91 says there is no way to skip one and carry on;
* a countdown does not look for downloads again when it ends (`actor.rs` 2529);
* a joiner may exceed the player cap that `change_team` keeps (2779);
* the votes are not counted again when a voter leaves (1773, 1798), and half is
  enough where `COMMANDS.md` 138-140 says more;
* a game ended by `!end` is not saved (1013; `README.md` 22);
* autostart is not looked at again when a departure makes the lobby ready (2345;
  `COMMANDS.md` 185-187);
* a late `AdminDropLaggers` drops the laggers of the next screen (695);
* `!download` of a player who has the map sets `download_started`, which nothing
  finishes, so that a countdown is refused for as long as they stay (751-817, 2529);
* `!synclimit` multiplies batches by latency in 32 bits before it limits the
  result (625), so that a huge value wraps or, in a debug build, panics;
* the game of an actor that panicked stays BotCore's lobby, or one of the games that
  count against the maximum, for good (`bot/mod.rs` 1165);
* an `UncreateGame` thrown away during a reconnect leaves a game that is gone advertised
  and refreshed until the next command (`bnet.rs` 277);
* a game whose packet cannot be built is taken for advertised and never listed, which
  only the log tells (`bnet.rs` 507-512);
* `!unmute` reports success although a realm's list could not be reached;
* a name muted on two realms' lists is under the first list's mute, which an order
  typed later on the other realm does not change (`COMMANDS.md` 122);
* the `GameStarted` of a game unhosted meanwhile un-advertises the new lobby
  (`bot/mod.rs` 1135);
* BotCore awaits room in a game's command channel (256) while games await room in
  BotCore's event channel, and `!exit` awaits room in BotCore's own channel from
  within its handler (`bot/mod.rs` 260, 920).

Where `PROJECT.json` lists a hazard at one of those lines, it says so.

## Proofs

Eight modules hold theorems, for every value of the constants that the modules'
assumptions allow: any number of players, games, connections, commands, faults,
any maps, and any sizes of queues and buffers. A lobby has up to 254 slots, as a
PID is a byte and 255 is no PID.

| Module | Theorem | Property |
|---|---|---|
| `GProxySessionProofs` | `TypeCorrect` | `TypeOK` |
| | `BufferNeverGaps` | `BufferIsSuffix` |
| | `HeldOrMapped` | `HeldIffUnmapped` |
| | `BacklogReachesBack` | `BufferReachesBack` |
| | `ClientStreamReliable` | `ClientToHostReliable` |
| | `HostStreamReliable` | `HostToClientReliable` |
| `LobbyProofs` | `TypeCorrect` | `TypeOK` |
| | `PidsRight` | `PidsExact` |
| | `ColoursStayFit` | `ColoursFit` |
| | `SlotsShown` | `ClientsShown` |
| | `NobodyTakenAlong` | `CountdownIntact` |
| `GameLoopProofs` | `TypeCorrect` | `TypeOK` |
| | `ScreenShowsLaggers` | `ScreenIsLaggers` |
| | `VotesCountOnce` | `VotesAreFresh` |
| | `NobodyWaitsForNobody` | `WaitsForSomebody` |
| `HostingProofs` | `RegistryRight` | `RegistryExact` |
| | `NoKeyLeft` | `KeysReclaimed` |
| | `UnhostMeantIt` | `UnhostHitsOwnLobby` |
| | `LobbyOrNothing` | `OnlyLobbyTold` |
| `ActionStreamProofs` | `StreamTypesHold` | `TypeOK` |
| | `ReplaySeesTheGame` | `SameStream` |
| | `QueuesStayAligned` | `QueuesAligned` |
| | `VerdictsAreFair` | `VerdictsFair` |
| | `MajorityIsKept` | `MajorityStays` |
| | `ActionsGoOutOnce` | a queued action stays, in order, until a batch hands it out or its player leaves |
| | `BatchesCarryTheQueue` | what `Chunks` cuts is the queue, in packets that fit |
| `BnetActorProofs` | `LobbyAdvertised` | `OnlyLobbyAdvertised` |
| | `TypeCorrect` | `TypeOK` |
| | `ListingIsFollowed` | `ListingFollows` |
| `StatusBoardProofs` | `TypeCorrect` | the module's `TypeOK` |
| | `TagsTellTheTruth` | `NotModifiedIsTrue` |
| | `BoardShowsTheLiving` | `BoardIsLive` |
| `ModerationProofs` | `TypeCorrect` | the module's `TypeOK` |
| | `BansHold` | `BannedStayOut` |
| | `MutesHold` | `MutedStaySilent` |
| | `MutesEnd` | `OthersSpeak` |

With these every invariant, action property and refinement of the passing runs is
the statement of a theorem; what is left to TLC alone is liveness.

Each rests on an inductive invariant, proved action by action.

* `GProxySessionProofs`. `Control` has the scalar types, `HeldIffUnmapped`, and
  what it rests on: connections the client has not dialled yet are not open,
  requests on their way name connections already dialled. `BufferInv` says that the
  buffer is a suffix of what was sent, and
  that it is empty unless the player is on GProxy++ and the game has loaded;
  without the second half the suffix is not inductive, as packets sent before the
  load are numbered and not buffered.

  For the limit of the queues, `Limited` bounds those that count: the player's
  connection while no drop is pending, and those a client asks for a reconnect on. It
  rests on `Dialled`, which says that such a connection is not the player's yet and is asked
  for once, and leaves room for one more message, the end of the stream, once a
  connection no longer works.

  The rest is about what is in flight. `Routes` says which connections the player,
  the client and its requests are on; `Registered` that the `GPS_INIT` is the first
  message of the first connection or over; `Asked` that the client's last request
  names what it has, and is not answered yet. `Reach`: no acknowledgement on its
  way, on whatever old connection, claims a packet the client was not handed, which is why
  trimming never takes too much, and the buffer reaches back to the client
  or to the moment the game loaded. From these follows `BacklogReachesBack`.
  Each direction then refines `ReliableStream` with an invariant of its own. `In`
  (client to game): the mapped connection holds the packets after
  `total_received`, and all of them while the client thinks the connection works; a
  connection whose reconnect is not through holds none. `Out` (game to client) is
  about a client that skipped nothing (`Faithful`): the queue of its connection goes on where
  the client stopped, but for `forgone`, and while what the actor sends reaches the
  client (`Flowing`: mapped there, no drop pending) nothing sent since is missing
  but what is in `refused`. The second half is what a send needs: a packet queued
  behind a hole makes `forgone` exactly the hole. With `Reach`, a reconnect replays all
  the client lacks or adds what no buffer has to `forgone` (`NeverKept`). No value of the
  constants is assumed: the theorem covers packets of many sizes and clients that are
  held before the load. `InRange` (what travels are numbers of the stream) and `Losses`
  give the types.
* `LobbyProofs`. `Seats` says slot by slot what `SlotsSeatPlayers` says player by
  player, and adds that a slot with a human in it has a PID. Without that, opening
  such a slot would kick a player nobody knows. Each operation does one of four things to
  the slots: humans stay (`SeatsSame`), change places by a bijection
  (`SeatsPermuted`), leave (`SeatsFreed`), or one takes a free slot
  (`SeatsTaken`). `PidsLeft` counts PIDs, for the virtual host that gives up the
  last one and gets the first that becomes free. The maps' slots must be seats nobody
  sits in, which `LobbyAssumption` states. `ColoursStayFit` assumes maps whose slots
  have colours of their own (`MapFits`, as nothing in the code checks it); it
  counts slots against colours, for the observer who wants to play
  (`NewColourFree`). `NobodyTakenAlong` rests on `CountdownInLobby`: without it a
  player who leaves a started game would be one who leaves in a countdown.
* `GameLoopProofs`. `IInv` adds `OthersKeepUp` to the four properties: while a lag
  screen is up, those who are not on it are within some limit. Without it the
  bound on `behind` is not inductive: the batch that follows the screen adds one
  to players of whom nothing would be known.
* `HostingProofs`. Events are read when the game may have gone on, so the
  invariant is about the queue: `NewsTrue` (an event was true when it was sent, and while
  anything of a closed game is on its way its "deleted" is too) and `DeletedLast` (nothing
  of a game comes after its "deleted"), which is what makes the first survive the
  removal of the head. `Placed` adds to `RegistryExact` that the lobby was not told to
  close. A lobby that ended by itself is `current_game` while its "deleted" is on the way,
  and `OnlyLobbyTold` survives the handling of it because that sends `UncreateGame`; one
  that was told to close had been uncreated before.
* `BnetActorProofs`. `Says(q, game, games)` is about a queue of commands behind
  the game advertised now: there is a last word about a game, on the queue or
  done, and it is one of `games`. It survives a command appended (`WordGiven`,
  `WordKept`) and the head taken off (`WordDone`); `games` are the lobby and none
  as long as nothing was thrown away, any game after that.

  The types and `ListingFollows` rest on `ActorInv`: at most one refresh waits, and it
  is of the advertised game (`OutRule`); nothing of an earlier connection or login is
  left (`Connection`); sending all that waits makes the server list the advertised game
  or none (`Coming`); a bot without a game is in its channel, or the packet or the
  answer that gets it there is on its way (`Returns`).
* `StatusBoardProofs`. `TagInv`: everything held by a poller or on its way to one is of
  an earlier run of the bot, of an earlier revision of this run, or what the board
  says now. `LobbyInv`: a game that was seen out of the lobby is out of it, so
  that its `started_at` is right whatever was published before.
* `ModerationProofs`. `BanInv`: the bans that held since a join began are in
  force, and each is on a list the join has still to look at; it comes to the
  mutes, and to a seat, only when there are none. `MuteInv` accounts for orders:
  `Known` says that a list holds nothing but orders that may be the last one
  given, and that if none is in effect on any list some such order is over or an
  unmute is under way. `JoinKnows` and `UnmuteKnows` say the same of a job between
  two of its calls to the database, from the lists it has still to ask and
  those it is through with; orders of other games that overlap it are in `during`
  (`Heard`). `SeatDue` is what remains of it once the player sits, and gives both
  properties.
* `ActionStreamProofs`. `AInv` is the properties with four facts: nobody has played
  or been compared before all had loaded (`Early`); a turn compared was played by all,
  one played was handed (`Turns`); the comparison goes on only while everybody has a
  checksum waiting (`Compares`); whose state diverged did so by a fault (`Faulty`).
  `SameStream` needs `Early`: a leave during the load is recorded in a list of its own,
  which is the stream's end only while nothing else is recorded.
  `QueuesAligned` with `SameStream` makes two checksums of a turn equal exactly
  if the players' states are, on which `VerdictsFair` and `MajorityStays` rest.
  `AInv`, and the step `ActionsKept` that `ActionsGoOutOnce` is about, were checked by TLC
  on the states of `action_stream` before they were proved.

What is computed over a queue is defined by a recursive function or by the last
place with a property (`Chunks`, `PurgeActions`, `Bytes`, `WithoutAdv`, `ListedAfter`), and
what is proved of it goes through sets of numbers: a set that holds 0, and i whenever it
holds i - 1, is all of 0..n (`CountUp`), or the least number that fails a
claim is contradicted. The library's folds, and its induction theorems, take an
operator as a parameter, which the installed provers cannot instantiate.
`BatchesCarryTheQueue` and `ActionsGoOutOnce` are proved so, the first with the places
where pieces end (`Marks`), the second with the places of the old queue that are
kept (`Picks`). Together they follow an action from the queue to the packets of one batch.

Steps that name a solver and a time (`SMTT(15)`, `ZenonT(60)`) say which one proves them, or
that both are tried; the proofs also check with every time limit cut to a fifth.

What is only model-checked is liveness: `EventuallyDelivered`, `HoldEnds`,
`CountdownEnds`, `ActionsGetOut`, `LastPlayerEnds`, `AutohostReturns`,
`PublicGameListed` and `PollersCatchUp`. They need fairness and `ENABLED`, for which
the prover has no rules here. The violations under "Findings" are TLC's too.

## Not modelled

* Map download: the window of parts (`send_map_parts`, `pump_downloads`). The
  lobby's download flags are in `Lobby`; which part goes when is a transfer
  within one actor that its unit tests reach.
* The capacities of the channels between actors: `Hosting` and `BnetActor` have
  queues without a limit, and so cannot show who waits for whom.
* Frame codec, packet formats, map files, hashing: pure functions over bytes,
  without state or concurrency; a model would write the bytes down once more.
* Of the lobby: races, handicaps, the HCL encoding, announcements. Of the replay: its
  header, chat and compression. Of BotCore: permissions, commands that are only
  forwarded, the switch of maps. Of the database: admins, lists, game records.
* Configuration, console, language, start-up: input and output.
* The earlier object layer in `core`: stubs of what the actors replaced.

## Plan

Done: the modules above with their runs, and a theorem for each of their safety
properties. Open, in this order:

1. The bounded channels between BotCore, games and servers, who waits for whom, and
   commands an actor sends to itself, in `Hosting` and `BnetActor`.
2. The map download's window.
3. Pure algorithms against reference definitions: deframing, the HCL encoding,
   `effective_sync_limit`, `schedule_next_beat`.
