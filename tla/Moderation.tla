------------------------------ MODULE Moderation ------------------------------
(***************************************************************************)
(* Bans and mutes: the lists in the database, shared by BotCore and the    *)
(* actors of all games, and what the games make of them.  Every call to    *)
(* the database is a step of its own; the actor that awaits it does        *)
(* nothing else meanwhile, the others do.                                  *)
(*                                                                         *)
(* A name stands for all its spellings: the database keeps them in lower   *)
(* case and the games compare them so.  An order is about the player its   *)
(* target is part of the name of, if there is one, or about that very      *)
(* name.  Whether there is room for a joiner is for Lobby, who is told     *)
(* what and who may give commands is left out.                             *)
(*                                                                         *)
(* The last four variables are history.  Orders that overlap may take      *)
(* effect in either order, and a mute replaces no mute on another realm's  *)
(* list, so they hold sets: the orders that may be the ones in force.      *)
(*                                                                         *)
(* A definition used nowhere is a faulty variant of the next that is: with *)
(* it in place of the other, one of the properties below must fail.        *)
(***************************************************************************)
EXTENDS Integers, Sequences

CONSTANTS
    Names,          \* the players'
    Servers,        \* GameConfig.servers: the realms, in their order
    NoRealm,        \* ""
    Terms,          \* seconds a mute can be given for, 0: for good
    MaxGames,       \* bound: games
    MaxTime,        \* bound: seconds
    MaxOrders,      \* bound: mutes and unmutes
    MaxBans,        \* bound: bans added and removed
    MaxFailures,    \* bound: calls to the database that fail
    MaxRestarts     \* bound: restarts of the bot

OnBattleNet == {Servers[i] : i \in DOMAIN Servers}

ASSUME ModerationAssumption ==
    /\ Servers \in Seq(OnBattleNet) /\ NoRealm \notin OnBattleNet
    /\ Terms \subseteq Nat
    /\ MaxGames \in Nat \ {0}
    /\ {MaxTime, MaxOrders, MaxBans, MaxFailures, MaxRestarts} \subseteq Nat

VARIABLES
    mutes,      \* the table: per realm and name when the mute expires
    bans,       \* the table, as pairs of realm and name
    now,        \* unix_time()
    lobby,      \* the game in the lobby; those before it have started
    seats,      \* names of each game's players
    muted,      \* LobbyPlayer.muted and mute_expires, as in mutes
    realm,      \* LobbyPlayer.spoofed_realm
    job,        \* the command or join each actor is in the middle of
    orders, banned, failures, restarts,  \* bounds so far
    last,       \* per name: the last order, of whatever game
    during,     \* per game: the orders about its job's name while it runs
    due,        \* per seat: the order its player is under
    barred      \* per game: the bans that held all through its join

tables == <<mutes, bans>>
games == <<lobby, seats, muted, realm>>
bounds == <<orders, banned, failures, restarts>>
history == <<last, during, due, barred>>
vars == <<tables, now, games, job, bounds, history>>

Games == 1..MaxGames
NoMute == -1
ForGood == 0

\* Only these are looked up; a bot without servers keeps one list.
DbServers == IF Servers = <<>> THEN <<NoRealm>> ELSE Servers
Realms == {DbServers[i] : i \in DOMAIN DbServers}

Idle == [kind |-> "idle"]
JoinJob(n, ask, i) == [kind |-> "join", name |-> n, ask |-> ask, server |-> i]
MuteJob(n, r, until) == [kind |-> "mute", name |-> n, realm |-> r, until |-> until]
UnmuteJob(n, i, failed) ==
    [kind |-> "unmute", name |-> n, until |-> NoMute, server |-> i, failed |-> failed]

Init ==
    /\ mutes = [r \in Realms |-> [n \in Names |-> NoMute]] /\ bans = {} /\ now = 1
    /\ lobby = 1 /\ seats = [g \in Games |-> {}]
    /\ muted = [g \in Games |-> [n \in Names |-> NoMute]]
    /\ realm = [g \in Games |-> [n \in Names |-> NoRealm]]
    /\ job = [g \in Games |-> Idle]
    /\ orders = 0 /\ banned = 0 /\ failures = 0 /\ restarts = 0
    /\ last = [n \in Names |-> {NoMute}] /\ during = [g \in Games |-> {}]
    /\ due = [g \in Games |-> [n \in Names |-> {NoMute}]]
    /\ barred = [g \in Games |-> {}]

InEffect(until) == until = ForGood \/ until > now

\* A call of this step fails.
Fails == failures < MaxFailures /\ failures' = failures + 1
Works == UNCHANGED failures

Free(g) == g <= lobby /\ job[g] = Idle
Finish(g) == job' = [job EXCEPT ![g] = Idle]

(***************************************************************************)
(* History                                                                 *)
(***************************************************************************)

\* What other games are ordering about n just now.
Underway(g, n) ==
    {job[h].until : h \in {h \in Games \ {g} : job[h].kind \in {"mute", "unmute"} /\ job[h].name = n}}

\* Game g begins something about n, an order or, with none, a join.
Begin(g, n, order, before) ==
    during' = [h \in Games |->
                 IF h = g THEN Underway(g, n) \union before
                 ELSE IF job[h] # Idle /\ job[h].name = n THEN during[h] \union order
                 ELSE during[h]]

(***************************************************************************)
(* Joining                                                                 *)
(***************************************************************************)

(* handle_join, of somebody who is not in the game. *)
Reqjoin(g, n) ==
    /\ Free(g) /\ g = lobby /\ n \notin seats[g]
    /\ job' = [job EXCEPT ![g] = JoinJob(n, IF Servers = <<>> THEN "mute" ELSE "ban", 1)]
    /\ Begin(g, n, {}, last[n])
    /\ barred' = [barred EXCEPT ![g] = {b \in bans : b[2] = n}]
    /\ UNCHANGED <<tables, now, games, bounds, last, due>>

BanCheckOfOne(g) == job[g].server = 1 /\ <<Servers[1], job[g].name>> \in bans

\* The joiner is on the list being looked at.  The query also finds a ban by
\* its IP, but BotCore adds every ban without one.
BanFound(g) == <<Servers[job[g].server], job[g].name>> \in bans

(* ban_check on one server after another; a failure lets the joiner pass.   *)
BanCheck(g) ==
    /\ job[g].kind = "join" /\ job[g].ask = "ban"
    /\ \/ Works /\ BanFound(g) /\ Finish(g) /\ UNCHANGED barred
       \/ /\ \/ Works /\ ~BanFound(g) /\ UNCHANGED barred
             \/ Fails /\ barred' = [barred EXCEPT ![g] = {b \in @ : b[1] # Servers[job[g].server]}]
          /\ job' = [job EXCEPT ![g] = IF @.server < Len(Servers)
                                       THEN JoinJob(@.name, "ban", @.server + 1)
                                       ELSE JoinJob(@.name, "mute", 1)]
    /\ UNCHANGED <<tables, now, games, orders, banned, restarts, last, during, due>>

\* The joiner gets a seat, muted until then or not, and is under one of the
\* orders given up to now.
Seat(g, until, possible) ==
    /\ Finish(g)
    /\ seats' = [seats EXCEPT ![g] = @ \union {job[g].name}]
    /\ muted' = [muted EXCEPT ![g][job[g].name] = until]
    /\ realm' = [realm EXCEPT ![g][job[g].name] = NoRealm]
    /\ due' = [due EXCEPT ![g][job[g].name] = possible]
    /\ UNCHANGED during

(* The mute on one list, if it is still in effect. *)
MuteFound(n, i) ==
    IF InEffect(mutes[DbServers[i]][n]) THEN mutes[DbServers[i]][n] ELSE NoMute

(* mute_check on one server after another until one has a mute; a failure   *)
(* counts as none.                                                          *)
MuteCheck(g) ==
    LET found == MuteFound(job[g].name, job[g].server)
        more == job[g].server < Len(DbServers)
        next == /\ job' = [job EXCEPT ![g] = JoinJob(@.name, "mute", @.server + 1)]
                /\ UNCHANGED <<seats, muted, realm, due>>
    IN  /\ job[g].kind = "join" /\ job[g].ask = "mute"
        /\ \/ Works /\ found # NoMute /\ Seat(g, found, during[g])
           \/ Works /\ found = NoMute /\ ~more /\ Seat(g, NoMute, during[g])
           \/ Works /\ found = NoMute /\ more /\ next /\ UNCHANGED during
           \/ Fails /\ ~more /\ Seat(g, NoMute, during[g] \union {NoMute})
           \/ Fails /\ more /\ next /\ during' = [during EXCEPT ![g] = @ \union {NoMute}]
    /\ UNCHANGED <<tables, now, lobby, orders, banned, restarts, last, barred>>

(***************************************************************************)
(* Mutes                                                                   *)
(***************************************************************************)

\* Whoever is in the game is under the order at once.
Obeys(g, n, until) ==
    IF n \in seats[g]
    THEN /\ muted' = [muted EXCEPT ![g][n] = until]
         /\ due' = [due EXCEPT ![g][n] = {until}]
    ELSE UNCHANGED <<muted, due>>

(* !mute: on the list of the realm the player was verified on, or else of   *)
(* the first.                                                               *)
Mute(g, n, term) ==
    LET until == IF term = 0 THEN ForGood ELSE now + term
        r == IF n \in seats[g] /\ realm[g][n] # NoRealm THEN realm[g][n] ELSE DbServers[1]
    IN  /\ Free(g) /\ orders < MaxOrders /\ orders' = orders + 1
        /\ Obeys(g, n, until)
        /\ job' = [job EXCEPT ![g] = MuteJob(n, r, until)]
        /\ Begin(g, n, {until}, {})
    /\ UNCHANGED <<tables, now, lobby, seats, realm, banned, failures, restarts, last, barred>>

InsertIfNew(r, n, until) == IF mutes[r][n] = NoMute THEN until ELSE mutes[r][n]

(* Q_MUTE_ADD: a new mute takes the place of an old one. *)
Upsert(r, n, until) == until

\* The mutes on other realms' lists.
Elsewhere(r, n) == {mutes[s][n] : s \in Realms \ {r}} \ {NoMute}

(* mute_add; if it fails the mute is of this game only. *)
MuteAdd(g) ==
    /\ job[g].kind = "mute" /\ Finish(g)
    /\ \/ /\ Works
          /\ mutes' = [mutes EXCEPT ![job[g].realm][job[g].name]
                         = Upsert(job[g].realm, job[g].name, job[g].until)]
          /\ last' = [last EXCEPT ![job[g].name] = {job[g].until} \union during[g]
                                                    \union Elsewhere(job[g].realm, job[g].name)]
       \/ Fails /\ UNCHANGED <<mutes, last>>
    /\ UNCHANGED <<bans, now, games, orders, banned, restarts, during, due, barred>>

(* !unmute *)
Unmute(g, n) ==
    /\ Free(g) /\ orders < MaxOrders /\ orders' = orders + 1
    /\ Obeys(g, n, NoMute)
    /\ job' = [job EXCEPT ![g] = UnmuteJob(n, 1, FALSE)]
    /\ Begin(g, n, {NoMute}, {})
    /\ UNCHANGED <<tables, now, lobby, seats, realm, banned, failures, restarts, last, barred>>

RemoveFromFirst(r, n) ==
    IF r = DbServers[1] THEN [mutes EXCEPT ![r][n] = NoMute] ELSE mutes

\* Q_MUTE_DEL
RemoveFrom(r, n) == [mutes EXCEPT ![r][n] = NoMute]

\* What an unmute that was not carried out on all lists leaves.
Left(n) == {NoMute} \union {mutes'[r][n] : r \in Realms}

(* mute_remove on one server after another, whatever fails. *)
MuteRemove(g) ==
    LET n == job[g].name
        done == job[g].server = Len(DbServers)
        failed == job[g].failed \/ failures' > failures
    IN  /\ job[g].kind = "unmute"
        /\ \/ Works /\ mutes' = RemoveFrom(DbServers[job[g].server], n)
           \/ Fails /\ UNCHANGED mutes
        /\ job' = [job EXCEPT ![g] = IF done THEN Idle
                                     ELSE UnmuteJob(n, @.server + 1, failed)]
        /\ last' = IF done THEN [last EXCEPT ![n] = {NoMute} \union during[g]
                                                      \union (IF failed THEN Left(n) ELSE {})]
                   ELSE last
    /\ UNCHANGED <<bans, now, games, orders, banned, restarts, during, due, barred>>

(* What relay_chat drops: the messages of a player whose mute is in effect. *)
Silenced(g, n) == InEffect(muted[g][n])

(* A message of a player whose mute has run out lifts it. *)
RelayChat(g, n) ==
    /\ Free(g) /\ n \in seats[g] /\ muted[g][n] # NoMute /\ ~Silenced(g, n)
    /\ muted' = [muted EXCEPT ![g][n] = NoMute]
    /\ UNCHANGED <<tables, now, lobby, seats, realm, job, bounds, history>>

(***************************************************************************)
(* Everything else                                                         *)
(***************************************************************************)

\* Whoever bears the name in the lobby is verified once.
Verify(n, r) ==
    /\ n \in seats[lobby] /\ realm[lobby][n] = NoRealm
    /\ realm' = [realm EXCEPT ![lobby][n] = r]

(* A whisper on realm r. *)
SpoofCheck(n, r) ==
    /\ Free(lobby) /\ Verify(n, r)
    /\ UNCHANGED <<tables, now, lobby, seats, muted, job, bounds, history>>

(* remove_player *)
Leave(g, n) ==
    /\ Free(g) /\ n \in seats[g]
    /\ seats' = [seats EXCEPT ![g] = @ \ {n}]
    /\ muted' = [muted EXCEPT ![g][n] = NoMute]
    /\ realm' = [realm EXCEPT ![g][n] = NoRealm]
    /\ due' = [due EXCEPT ![g][n] = {NoMute}]
    /\ UNCHANGED <<tables, now, lobby, job, bounds, last, during, barred>>

(* The lobby starts or is closed, and the next is opened. *)
NextLobby ==
    /\ Free(lobby) /\ lobby < MaxGames /\ lobby' = lobby + 1
    /\ UNCHANGED <<tables, now, seats, muted, realm, job, bounds, history>>

(* BotCore: !addban and !delban, on the list of the server they were typed  *)
(* on.                                                                      *)
BanAdd(r, n) ==
    /\ <<r, n>> \notin bans /\ banned < MaxBans /\ banned' = banned + 1
    /\ bans' = bans \union {<<r, n>>}
    /\ UNCHANGED <<mutes, now, games, job, orders, failures, restarts, history>>

BanRemove(r, n) ==
    /\ <<r, n>> \in bans /\ banned < MaxBans /\ banned' = banned + 1
    /\ bans' = bans \ {<<r, n>>}
    /\ barred' = [g \in Games |-> barred[g] \ {<<r, n>>}]
    /\ UNCHANGED <<mutes, now, games, job, orders, failures, restarts, last, during, due>>

Tick ==
    /\ now < MaxTime /\ now' = now + 1
    /\ UNCHANGED <<tables, games, job, bounds, history>>

(* The bot restarts: what is in the database stays, an order that was being *)
(* carried out is carried out in part.                                      *)
Restart ==
    /\ restarts < MaxRestarts /\ restarts' = restarts + 1
    /\ UNCHANGED <<tables, now, orders, banned, failures>>
    /\ lobby' = 1 /\ seats' = [g \in Games |-> {}]
    /\ muted' = [g \in Games |-> [n \in Names |-> NoMute]]
    /\ realm' = [g \in Games |-> [n \in Names |-> NoRealm]]
    /\ job' = [g \in Games |-> Idle]
    /\ due' = [g \in Games |-> [n \in Names |-> {NoMute}]]
    /\ last' = [n \in Names |->
                  IF \E g \in Games : job[g].kind = "unmute" /\ job[g].name = n
                  THEN last[n] \union Left(n) ELSE last[n]]
    /\ during' = [g \in Games |-> {}] /\ barred' = [g \in Games |-> {}]

Next ==
    \/ \E g \in Games :
         \/ BanCheck(g) \/ MuteCheck(g) \/ MuteAdd(g) \/ MuteRemove(g)
         \/ \E n \in Names :
              \/ Reqjoin(g, n) \/ Unmute(g, n) \/ RelayChat(g, n) \/ Leave(g, n)
              \/ \E term \in Terms : Mute(g, n, term)
    \/ \E n \in Names, r \in OnBattleNet :
         SpoofCheck(n, r) \/ BanAdd(r, n) \/ BanRemove(r, n)
    \/ NextLobby \/ Tick \/ Restart

Spec == Init /\ [][Next]_vars

(***************************************************************************)
(* Properties                                                              *)
(***************************************************************************)

\* What an actor can be in the middle of.
Joins == [kind : {"join"}, name : Names, ask : {"ban", "mute"},
          server : DOMAIN DbServers]
Mutings == [kind : {"mute"}, name : Names, realm : Realms, until : Nat]
Unmutings == [kind : {"unmute"}, name : Names, until : {NoMute},
              server : DOMAIN DbServers, failed : BOOLEAN]

(* Types; and only who is in a game has a mute and a realm there.           *)
TypeOK ==
    /\ mutes \in [Realms -> [Names -> Nat \union {NoMute}]]
    /\ bans \subseteq OnBattleNet \X Names
    /\ now \in Nat /\ lobby \in Games /\ seats \in [Games -> SUBSET Names]
    /\ muted \in [Games -> [Names -> Nat \union {NoMute}]]
    /\ realm \in [Games -> [Names -> OnBattleNet \union {NoRealm}]]
    /\ job \in [Games -> {Idle} \union Joins \union Mutings \union Unmutings]
    /\ \A g \in Games, n \in Names :
          n \notin seats[g] => muted[g][n] = NoMute /\ realm[g][n] = NoRealm

(* A player is silent while the mute lasts that was ordered last, in        *)
(* this game or, before the player joined, in any, across rejoining,        *)
(* restarts and orders from several games.  Excepted are a database that    *)
(* failed, and a name that is on two realms' lists: there the first list    *)
(* with a mute in effect decides, not the last order.                       *)
MutedStaySilent ==
    \A g \in Games : \A n \in seats[g] :
        ~Silenced(g, n) => \E until \in due[g][n] : ~InEffect(until)

(* Nobody else is: a mute is over with its time, and an unmute lifts it on  *)
(* all lists, whatever realm the player was verified on when it was given.  *)
OthersSpeak ==
    \A g \in Games : \A n \in seats[g] :
        Silenced(g, n) => \E until \in due[g][n] : InEffect(until)

(* No join succeeds against a ban of any realm that held all through it,    *)
(* unless the database failed to tell of that realm's.                      *)
BannedStayOut ==
    [][\A g \in Games : seats'[g] \ seats[g] # {} => barred[g] = {}]_vars
=============================================================================
