------------------------------- MODULE Hosting -------------------------------
(***************************************************************************)
(* BotCore's registry of games: the one in the lobby, those running, the   *)
(* reconnect keys of all, and autohost.  Games are actors of their own and *)
(* report over BotCore's event queue, so that BotCore acts on what they    *)
(* were: a game may have started, or be closed, while it still counts as   *)
(* the lobby.  The servers are told through `told`, which module BnetActor *)
(* takes up.                                                               *)
(*                                                                         *)
(* The capacity of the event queue is not modelled, a game's reconnect     *)
(* keys are one key, and maps, permissions and texts are left out.         *)
(*                                                                         *)
(* A definition that directly precedes another and is used nowhere, such   *)
(* as KeysOfGames before KeysLeft, is a faulty variant of it: with it in   *)
(* place of the other, one of the properties below must fail.              *)
(***************************************************************************)
EXTENDS Naturals, FiniteSets, Sequences

CONSTANTS
    Autohost,           \* autohost is configured
    MaximumGames,       \* cfg.auto_host_maximum_games
    Admin,              \* the commands admins use: some of "create", "unhost",
                        \* "autohost", "disable", "end"
    MaxHosted,          \* bound on host_counter
    MaxLogins,          \* bound: how often a server is logged in to
    MaxUnhosts          \* bound: !unhost typed in a game

ASSUME HostingAssumption ==
    /\ Autohost \in BOOLEAN
    /\ {MaximumGames, MaxHosted, MaxLogins, MaxUnhosts} \subseteq Nat

NoGame == 0             \* current_game is None
Games == 1..MaxHosted   \* games by their host_counter

VARIABLES
    current_game, games, host_counter, gproxy_keys,
    autohost_enabled, games_disabled,
    told,               \* the game every server was last told to advertise
    events,             \* BotCore's event queue
    phase,              \* what became of each game's actor
    closing,            \* games with GameCommand::Close in their queue
    asked,              \* history: games somebody meant to unhost
    logins, unhosts     \* how often so far

registry == <<current_game, games, host_counter, gproxy_keys, told>>
switches == <<autohost_enabled, games_disabled>>
inputs == <<asked, logins, unhosts>>
vars == <<registry, switches, events, phase, closing, inputs>>

Init ==
    /\ current_game = NoGame /\ games = {} /\ host_counter = 0 /\ gproxy_keys = {}
    /\ autohost_enabled = Autohost /\ games_disabled = FALSE
    /\ told = NoGame /\ events = <<>>
    /\ phase = [hc \in Games |-> "none"] /\ closing = {}
    /\ asked = {} /\ logins = 0 /\ unhosts = 0

(***************************************************************************)
(* Hosting and unhosting                                                   *)
(***************************************************************************)

(* create_game, once nothing stands against it: the next game's actor is    *)
(* spawned and every server gets a CreateGame.                              *)
Create ==
    LET hc == host_counter + 1
    IN  /\ host_counter' = hc /\ current_game' = hc /\ told' = hc
        /\ phase' = [phase EXCEPT ![hc] = "lobby"]

(* Every reason for autohost to host, with that lobby and those games. *)
AutohostDue(enabled, disabled, lobby, running) ==
    /\ enabled /\ ~disabled /\ lobby = NoGame
    /\ Cardinality(running) < MaximumGames /\ host_counter < MaxHosted

(* try_autohost, at the end of a handler that leaves that lobby and has     *)
(* told the servers so.                                                     *)
TryAutohost(lobby, toldOf) ==
    IF AutohostDue(autohost_enabled', games_disabled', lobby, games') THEN Create
    ELSE /\ current_game' = lobby /\ told' = toldOf
         /\ UNCHANGED <<host_counter, phase>>

(* !pub and !priv *)
CreateGame ==
    /\ "create" \in Admin /\ ~games_disabled /\ current_game = NoGame
    /\ host_counter < MaxHosted
    /\ Create
    /\ UNCHANGED <<games, gproxy_keys, switches, events, closing, inputs>>

(* What servers are told of when they get an UncreateGame. *)
Uncreated == NoGame

(* unhost_game: the lobby is told to close and is BotCore's no more. *)
UnhostGame ==
    /\ closing' = closing \union {current_game}
    /\ current_game' = NoGame /\ told' = Uncreated

(* !unhost whispered to the bot, or typed at the console. *)
UnhostCommand ==
    /\ "unhost" \in Admin /\ current_game # NoGame
    /\ UnhostGame
    /\ asked' = asked \union {current_game}
    /\ UNCHANGED <<games, host_counter, gproxy_keys, switches, events, phase, logins, unhosts>>

(* !autohost on and off *)
SwitchAutohost(on) ==
    /\ "autohost" \in Admin /\ autohost_enabled # on
    /\ autohost_enabled' = on
    /\ UNCHANGED <<games, gproxy_keys, games_disabled, events, closing, inputs>>
    /\ IF on THEN TryAutohost(current_game, told)
       ELSE UNCHANGED <<current_game, host_counter, told, phase>>

(* !disable and !enable *)
SwitchGames(off) ==
    /\ "disable" \in Admin /\ games_disabled # off
    /\ games_disabled' = off
    /\ UNCHANGED <<games, gproxy_keys, autohost_enabled, events, closing, inputs>>
    /\ IF off THEN UNCHANGED <<current_game, host_counter, told, phase>>
       ELSE TryAutohost(current_game, told)

(***************************************************************************)
(* BotCore's events                                                        *)
(***************************************************************************)

Event(type, hc) == [type |-> type, host_counter |-> hc]

Handle(type) == events # <<>> /\ Head(events).type = type /\ events' = Tail(events)
Sender == Head(events).host_counter

HandleLoggedIn ==
    /\ Handle("logged_in")
    /\ UNCHANGED <<games, gproxy_keys, switches, closing, inputs>>
    /\ TryAutohost(current_game, told)

HandleGProxyRegistered ==
    /\ Handle("registered")
    /\ gproxy_keys' = gproxy_keys \union {Sender}
    /\ UNCHANGED <<current_game, games, host_counter, told, switches, phase, closing, inputs>>

AnyLobby(hc) == current_game # NoGame

Lobby(hc) == current_game = hc

(* !unhost typed in a game counts for that game's lobby only. *)
HandleUnhost ==
    /\ Handle("unhost")
    /\ IF Lobby(Sender) THEN UnhostGame ELSE UNCHANGED <<current_game, closing, told>>
    /\ UNCHANGED <<games, host_counter, gproxy_keys, switches, phase, inputs>>

MoveAnyLobby(hc) == games \union ({current_game} \ {NoGame})

(* A game that starts leaves the lobby for the games in progress. *)
MoveLobby(hc) == IF Lobby(hc) THEN games \union {hc} ELSE games

(* GameStarted: whoever started, the servers get an UncreateGame. *)
HandleGameStarted ==
    /\ Handle("started")
    /\ games' = MoveLobby(Sender)
    /\ UNCHANGED <<gproxy_keys, switches, closing, inputs>>
    /\ TryAutohost(IF Lobby(Sender) THEN NoGame ELSE current_game, Uncreated)

KeysOfGames(hc) == IF hc \in games THEN gproxy_keys \ {hc} ELSE gproxy_keys

KeysLeft(hc) == gproxy_keys \ {hc}

ReplaceIfRunning(hc) ==
    IF hc \in games THEN TryAutohost(current_game, told)
    ELSE /\ current_game' = IF Lobby(hc) THEN NoGame ELSE current_game
         /\ told' = IF Lobby(hc) THEN Uncreated ELSE told
         /\ UNCHANGED <<host_counter, phase>>

ReplaceSilently(hc) ==
    IF Lobby(hc) THEN TryAutohost(NoGame, told) ELSE TryAutohost(current_game, told)

(* A replacement is hosted whatever the game was; the servers are told of a *)
(* lobby's end.                                                             *)
Replace(hc) ==
    IF Lobby(hc) THEN TryAutohost(NoGame, Uncreated) ELSE TryAutohost(current_game, told)

HandleDeleted ==
    /\ Handle("deleted")
    /\ games' = IF Lobby(Sender) THEN games ELSE games \ {Sender}
    /\ gproxy_keys' = KeysLeft(Sender)
    /\ UNCHANGED <<switches, closing, inputs>>
    /\ Replace(Sender)

(***************************************************************************)
(* What happens elsewhere: a server, a player, a game's actor              *)
(***************************************************************************)

Running == {hc \in Games : phase[hc] \in {"lobby", "started"}}
InEvents(type, hc) == \E i \in DOMAIN events : events[i] = Event(type, hc)
Emit(type, hc) == events' = Append(events, Event(type, hc))

LoggedIn ==
    /\ logins < MaxLogins /\ logins' = logins + 1
    /\ Emit("logged_in", NoGame)
    /\ UNCHANGED <<registry, switches, phase, closing, asked, unhosts>>

(* A client registers its key. *)
RegisterKey(hc) ==
    /\ hc \in Running \ gproxy_keys /\ ~InEvents("registered", hc)
    /\ Emit("registered", hc)
    /\ UNCHANGED <<registry, switches, phase, closing, inputs>>

(* An admin who plays types !unhost, and means the game they are in. *)
TypeUnhost(hc) ==
    /\ hc \in Running /\ unhosts < MaxUnhosts
    /\ unhosts' = unhosts + 1 /\ asked' = asked \union {hc}
    /\ Emit("unhost", hc)
    /\ UNCHANGED <<registry, switches, phase, closing, logins>>

EventGameStarted(hc) ==
    /\ phase[hc] = "lobby"
    /\ phase' = [phase EXCEPT ![hc] = "started"]
    /\ Emit("started", hc)
    /\ UNCHANGED <<registry, switches, closing, inputs>>

(* A game ends: everybody left after the start, it was told to close, or an *)
(* admin typed !end in it, which a lobby obeys as well as a running game.   *)
GameEnds(hc) ==
    /\ hc \in Running
    /\ phase[hc] = "started" \/ hc \in closing \/ "end" \in Admin
    /\ phase' = [phase EXCEPT ![hc] = "closed"]
    /\ Emit("deleted", hc)
    /\ UNCHANGED <<registry, switches, closing, inputs>>

(* An actor that panics ends alone (Cargo.toml leaves unwinding on) and     *)
(* sends nothing: BotCore goes on as if it were there.                      *)
GameLost(hc) ==
    /\ hc \in Running
    /\ phase' = [phase EXCEPT ![hc] = "lost"]
    /\ UNCHANGED <<registry, switches, events, closing, inputs>>

HandleEvent == \/ HandleLoggedIn \/ HandleGProxyRegistered \/ HandleUnhost
               \/ HandleGameStarted \/ HandleDeleted

Next ==
    \/ HandleEvent \/ CreateGame \/ UnhostCommand \/ LoggedIn
    \/ \E b \in BOOLEAN : SwitchAutohost(b) \/ SwitchGames(b)
    \/ \E hc \in Games :
          RegisterKey(hc) \/ TypeUnhost(hc) \/ EventGameStarted(hc) \/ GameEnds(hc) \/ GameLost(hc)

Spec == Init /\ [][Next]_vars

(* BotCore goes on handling events, a game told to close closes, and some   *)
(* server lets the bot log in.                                              *)
FairSpec ==
    /\ Spec /\ WF_vars(HandleEvent) /\ WF_vars(LoggedIn)
    /\ \A hc \in Games : WF_vars(hc \in closing /\ GameEnds(hc))

(***************************************************************************)
(* Properties                                                              *)
(***************************************************************************)

(* Types; a game that has no host counter yet has no actor. *)
TypeOK ==
    /\ current_game \in 0..host_counter /\ told \in 0..host_counter
    /\ host_counter \in 0..MaxHosted
    /\ {games, gproxy_keys, closing, asked} \subseteq SUBSET (1..host_counter)
    /\ {autohost_enabled, games_disabled} \subseteq BOOLEAN
    /\ events \in Seq([type : {"logged_in", "registered", "unhost", "started", "deleted"},
                       host_counter : 0..host_counter])
    /\ phase \in [Games -> {"none", "lobby", "started", "closed", "lost"}]
    /\ \A hc \in Games : phase[hc] = "none" <=> hc > host_counter
    /\ logins \in 0..MaxLogins /\ unhosts \in 0..MaxUnhosts

(* BotCore's two places for games are right up to the events on their way   *)
(* and to actors that panicked: the lobby has neither started nor ended,    *)
(* running games have started and not ended, each live game is in one of    *)
(* the two unless it was told to close, and none is in both.                *)
RegistryExact ==
    /\ TypeOK
    /\ current_game # NoGame =>
          /\ current_game \notin games
          /\ \/ phase[current_game] \in {"lobby", "lost"}
             \/ InEvents("started", current_game) \/ InEvents("deleted", current_game)
    /\ \A hc \in games : phase[hc] \in {"started", "lost"} \/ InEvents("deleted", hc)
    /\ \A hc \in Running : hc \in games \union closing \union {current_game}

(* Nothing is kept of a game whose end was handled: no key leads to it.     *)
KeysReclaimed ==
    \A hc \in gproxy_keys : phase[hc] = "closed" => InEvents("deleted", hc)

(* A game is closed by an !unhost meant for it, never by one typed in a     *)
(* game that has started since, with another lobby open.                    *)
UnhostHitsOwnLobby == closing \subseteq asked

(* No server is left with a game that is not the lobby. *)
OnlyLobbyTold == told \in {NoGame, current_game}

(* Autohost never forgets: when it has every reason to host, it does, as    *)
(* long as every game that ended said so.  An !unhost hosts no replacement  *)
(* itself but counts on the "deleted" of the game it closes.                *)
Due == AutohostDue(autohost_enabled, games_disabled, current_game, games)
AutohostReturns == Due ~> ~Due \/ \E hc \in Games : phase[hc] = "lost"
=============================================================================
