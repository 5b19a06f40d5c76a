-------------------------------- MODULE Lobby --------------------------------
(***************************************************************************)
(* The lobby half of a game actor: slots, players, the virtual host, map   *)
(* confirmation and the start countdown.  Each action is one event the     *)
(* actor handles to its end (a packet, a command from BotCore, a tick).    *)
(*                                                                         *)
(* PIDs run from 1 to MaxSlots (12 in the program), colours from 0 to      *)
(* MaxSlots - 1; team and colour MaxSlots are the observers'.  Races,      *)
(* handicaps and the texts sent are left out.                              *)
(*                                                                         *)
(* A definition that directly precedes another and is used nowhere, such   *)
(* as FreedKeepsPid before Freed, is a faulty variant of it: with it in    *)
(* place of the other, one of the properties below must fail.              *)
(***************************************************************************)
EXTENDS Naturals, FiniteSets, Functions, FiniteSetsExt

CONSTANTS
    MaxSlots,           \* gameslot::MAX_SLOTS, and the number of PIDs
    Maps,               \* the maps the bot may host, see IsGameMap
    DownloadMode,       \* 0 none, 1 everybody, 2 once an admin approved
    HasMapData,         \* the bot has the map file
    AutostartPlayers,   \* cfg.autostart_players
    CountdownFrom,      \* steps of the countdown
    Admin,              \* the commands the admin uses
    MapSizes            \* map sizes clients report, in percent of ours

None == 255          \* no countdown
NoHost == 255        \* virtual_host_pid when there is none
Pids == 1..MaxSlots
Obs == MaxSlots

Slot == [pid : 0..MaxSlots, status : {"open", "closed", "occupied"}, computer : BOOLEAN,
         team : 0..MaxSlots, colour : 0..MaxSlots, download : {255} \union 0..100]

(* Download state; confirmed is history: the client last reported exactly   *)
(* the map the bot hosts.                                                   *)
Player == [allowed : BOOLEAN, started : BOOLEAN, finished : BOOLEAN, confirmed : BOOLEAN]
NewPlayer == [allowed |-> FALSE, started |-> FALSE, finished |-> FALSE, confirmed |-> FALSE]

(* What the lobby takes from a map: its slots, its MAPOPT_CUSTOMFORCES and  *)
(* MAPOPT_FIXEDPLAYERSETTINGS, its number of players, and whether observers *)
(* are allowed.                                                             *)
IsGameMap(m) ==
    /\ \E n \in 1..MaxSlots : m.slots \in [1..n -> Slot]
    /\ {m.forces, m.fixed, m.observers} \subseteq BOOLEAN /\ m.nuplayers \in 1..MaxSlots
    /\ \A s \in DOMAIN m.slots : m.slots[s].pid = 0
          /\ (m.slots[s].status = "occupied" <=> m.slots[s].computer)

ASSUME LobbyAssumption ==
    /\ MaxSlots \in 1..254 /\ \A m \in Maps : IsGameMap(m)
    /\ HasMapData \in BOOLEAN /\ DownloadMode \in 0..2
    /\ AutostartPlayers \in Nat /\ CountdownFrom \in Nat /\ MapSizes \subseteq Nat

VARIABLES
    map,                \* cfg.map: never changes
    slots,
    players,            \* pid -> download state of the player
    virtual_host_pid,
    countdown,          \* None, or the steps left
    autostart,          \* autostart_override, or the configured value
    started,
    slot_info_changed,
    shown               \* the slots of the last slot info broadcast

vars == <<map, slots, players, virtual_host_pid, countdown, autostart, started,
          slot_info_changed, shown>>

Sids == DOMAIN slots

Init ==
    /\ map \in Maps
    /\ slots = map.slots /\ shown = slots /\ slot_info_changed = FALSE
    /\ players = <<>>
    /\ virtual_host_pid = 1
    /\ countdown = None /\ autostart = AutostartPlayers /\ started = FALSE

Seated == DOMAIN players
Without(f, gone) == Restrict(f, DOMAIN f \ gone)
(* The slot is taken, and not by a computer. *)
Human(s) == slots[s].status = "occupied" /\ ~slots[s].computer
SlotOf(ss, pid) == {s \in Sids : ss[s].pid = pid}
Downloading(p) == p.started /\ ~p.finished

(* send_all_slot_info: what every client now shows. *)
SendSlotInfo == shown' = slots'

(* new_pid: the smallest free PID, the virtual host's not being free. *)
NewPid(ps, host) ==
    LET free == (Pids \ DOMAIN ps) \ {host}
    IN  IF free = {} THEN NoHost ELSE Min(free)

(***************************************************************************)
(* Joining and leaving                                                     *)
(***************************************************************************)

OpenSlots == {s \in Sids : slots[s].status = "open" /\ ~slots[s].computer}

(* delete_virtual_host: the last PID left is a player's.                    *)
HostAfterJoin == IF Cardinality(Seated) >= MaxSlots - 1 THEN NoHost ELSE virtual_host_pid

(* handle_join, for a joiner no check turns away: the first open slot.      *)
Join ==
    LET host == HostAfterJoin
        pid == NewPid(players, host)
    IN  /\ ~started /\ OpenSlots # {}
        /\ virtual_host_pid' = host
        /\ IF pid = NoHost THEN UNCHANGED <<slots, players, shown>>
           ELSE /\ slots' = [slots EXCEPT ![Min(OpenSlots)] =
                      [@ EXCEPT !.pid = pid, !.status = "occupied", !.computer = FALSE,
                                !.download = 255]]
                /\ players' = [p \in Seated \union {pid} |->
                                  IF p = pid THEN NewPlayer ELSE players[p]]
                /\ SendSlotInfo
        /\ UNCHANGED <<map, countdown, autostart, started, slot_info_changed>>

FreedKeepsPid(ss, gone) ==
    [s \in Sids |-> IF ss[s].pid \in gone
                    THEN [ss[s] EXCEPT !.status = "open", !.download = 255]
                    ELSE ss[s]]

(* The slots of players who are gone keep their team and colour. *)
Freed(ss, gone) ==
    [s \in Sids |-> IF ss[s].pid \in gone
                    THEN [ss[s] EXCEPT !.pid = 0, !.status = "open", !.computer = FALSE,
                                       !.download = 255]
                    ELSE ss[s]]

(* create_virtual_host, in a lobby that has none: it gets the first PID of  *)
(* those that become free.                                                  *)
CreateVirtualHost(gone) ==
    IF virtual_host_pid = NoHost /\ ~started
    THEN \E first \in gone : virtual_host_pid' = NewPid(Without(players, {first}), NoHost)
    ELSE UNCHANGED virtual_host_pid

CountdownGoesOn == UNCHANGED countdown

(* Nobody is taken into a game they walked out of. *)
CancelCountdown == countdown' = None

(* remove_player for each of gone: the slots are freed, a missing virtual   *)
(* host comes back to the lobby, a countdown is cancelled.                  *)
Remove(gone, slotsLeft) ==
    /\ slots' = slotsLeft
    /\ players' = Without(players, gone)
    /\ CreateVirtualHost(gone) /\ CancelCountdown
    /\ IF started THEN UNCHANGED shown ELSE SendSlotInfo
    /\ UNCHANGED <<map, autostart, started, slot_info_changed>>

(* A player leaves, loses the connection, or is kicked. *)
Leave(pid) == pid \in Seated /\ Remove({pid}, Freed(slots, {pid}))

(* !ping: whoever takes too long to answer is kicked, in no particular      *)
(* order.                                                                   *)
PingKick(gone) ==
    /\ "ping" \in Admin /\ gone # {} /\ gone \subseteq Seated
    /\ Remove(gone, Freed(slots, gone))

(***************************************************************************)
(* Slot commands                                                           *)
(***************************************************************************)

Reset(ss, sid, status) ==
    [ss EXCEPT ![sid] = [@ EXCEPT !.status = status, !.pid = 0, !.computer = FALSE,
                                  !.download = 255]]

(* set_slot_open: a human in the slot is kicked first. *)
SetSlotOpen(sid, status) ==
    /\ "slots" \in Admin /\ ~started
    /\ IF Human(sid)
       THEN Remove({slots[sid].pid}, Reset(Freed(slots, {slots[sid].pid}), sid, status))
       ELSE /\ slots' = Reset(slots, sid, status) /\ SendSlotInfo
            /\ UNCHANGED <<map, players, virtual_host_pid, countdown, autostart, started,
                           slot_info_changed>>

(* !openall, !closeall: slot info goes out for every slot that changes. *)
SetAllSlots(from, status) ==
    /\ "slots" \in Admin /\ ~started
    /\ \E s \in Sids : slots[s].status = from
    /\ slots' = [s \in Sids |-> IF slots[s].status = from THEN Reset(slots, s, status)[s]
                                ELSE slots[s]]
    /\ SendSlotInfo
    /\ UNCHANGED <<map, players, virtual_host_pid, countdown, autostart, started, slot_info_changed>>

(* swap_slots: what stays with the position depends on the map's options. *)
Swapped(i, j) ==
    LET to(s, kept) ==
            CASE map.fixed -> [s EXCEPT !.team = kept.team, !.colour = kept.colour]
              [] map.forces /\ ~map.fixed -> [s EXCEPT !.team = kept.team]
              [] OTHER -> s
    IN  [slots EXCEPT ![i] = to(slots[j], slots[i]), ![j] = to(slots[i], slots[j])]

SwapSlots(i, j) ==
    /\ ~started /\ i # j
    /\ slots' = Swapped(i, j) /\ SendSlotInfo
    /\ UNCHANGED <<map, players, virtual_host_pid, countdown, autostart, started, slot_info_changed>>

SwapCommand(i, j) == "swap" \in Admin /\ SwapSlots(i, j)

(* shuffle_players: the humans change places, the slots stay as they are. *)
ShufflePlayers ==
    LET seats == {s \in Sids : Human(s)}
    IN  /\ "shuffle" \in Admin /\ ~started
        /\ \E f \in Bijection(seats, seats) :
              slots' = [s \in Sids |->
                  IF s \in seats THEN [slots[s] EXCEPT !.pid = slots[f[s]].pid,
                                                       !.download = slots[f[s]].download]
                  ELSE slots[s]]
        /\ SendSlotInfo
        /\ UNCHANGED <<map, players, virtual_host_pid, countdown, autostart, started,
                       slot_info_changed>>

(***************************************************************************)
(* What players change about themselves                                    *)
(***************************************************************************)

NewColourOfOccupied ==
    LET free == {k \in 0..MaxSlots - 1 :
                    \A s \in Sids : slots[s].status = "occupied" => slots[s].colour # k}
    IN  IF free = {} THEN MaxSlots ELSE Min(free)

(* get_new_colour: a colour no slot has, used or not. *)
NewColour ==
    LET free == {k \in 0..MaxSlots - 1 : \A s \in Sids : slots[s].colour # k}
    IN  IF free = {} THEN MaxSlots ELSE Min(free)

(* change_team with custom forces: move to an open slot of that team;      *)
(* get_empty_slot_on_team searches from the player's own position on the    *)
(* same team, from the first slot otherwise, and wraps around.              *)
ChangeTeamByMoving(pid, team) ==
    LET mine == CHOOSE s \in SlotOf(slots, pid) : TRUE
        open == {s \in Sids : slots[s].status = "open" /\ slots[s].team = team}
        after == {s \in open : slots[mine].team = team => s >= mine}
    IN  /\ map.forces /\ pid \in Seated /\ open # {}
        /\ SwapSlots(mine, Min(IF after # {} THEN after ELSE open))

PlayingOthers(pid) ==
    {s \in Sids : slots[s].status = "occupied" /\ slots[s].team # Obs /\ slots[s].pid # pid}

(* An observer has no playing colour; who stops being one gets a new one. *)
TeamColour(team, colour) ==
    IF team = Obs THEN Obs ELSE IF colour = Obs THEN NewColour ELSE colour

ChangeTeam(pid, team) ==
    /\ ~map.forces /\ ~started /\ pid \in Seated
    /\ IF team = Obs THEN map.observers
       ELSE team < map.nuplayers /\ Cardinality(PlayingOthers(pid)) < map.nuplayers
    /\ slots' = [s \in Sids |->
          IF slots[s].pid # pid THEN slots[s]
          ELSE [slots[s] EXCEPT !.team = team, !.colour = TeamColour(team, @)]]
    /\ SendSlotInfo
    /\ UNCHANGED <<map, players, virtual_host_pid, countdown, autostart, started, slot_info_changed>>

(* change_colour: an unused slot that holds the colour gets the old one. *)
ChangeColour(pid, colour) ==
    LET holders == {s \in Sids : slots[s].colour = colour}
        mine == CHOOSE s \in SlotOf(slots, pid) : TRUE
    IN  /\ ~map.fixed /\ ~started /\ pid \in Seated /\ colour < MaxSlots
        /\ slots[mine].team # Obs
        /\ holders # {} => slots[Min(holders)].status # "occupied"
        /\ slots' = [s \in Sids |->
              IF s = mine THEN [slots[s] EXCEPT !.colour = colour]
              ELSE IF holders # {} /\ s = Min(holders)
                   THEN [slots[s] EXCEPT !.colour = slots[mine].colour]
              ELSE slots[s]]
        /\ SendSlotInfo
        /\ UNCHANGED <<map, players, virtual_host_pid, countdown, autostart, started,
                       slot_info_changed>>

(***************************************************************************)
(* Map confirmation, countdown, start                                      *)
(***************************************************************************)

(* start_countdown refuses while somebody downloads. *)
CountdownStarts(ps) ==
    ~started /\ countdown = None /\ \A p \in DOMAIN ps : ~Downloading(ps[p])

(* maybe_autostart: enough players, all of them at 100 percent. *)
AutostartDue(ps, ss, n) ==
    /\ n # 0 /\ ~started /\ countdown = None /\ Cardinality(DOMAIN ps) >= n
    /\ \A p \in DOMAIN ps : \A s \in SlotOf(ss, p) : ss[s].download = 100

MaybeAutostart ==
    countdown' = IF AutostartDue(players', slots', autostart') /\ CountdownStarts(players')
                 THEN CountdownFrom ELSE countdown

DownloadByte(pct) == pct % 256

(* The percentage is cut to a byte before it is capped. *)
DownloadStatus(pct) == IF pct % 256 > 100 THEN 100 ELSE pct % 256

SlotInfoWhenDone ==
    slot_info_changed' = (slot_info_changed
                          \/ \E s \in Sids : slots'[s] # slots[s] /\ slots'[s].download = 100)

(* The next tick tells the clients. *)
SlotInfoLater == slot_info_changed' = (slot_info_changed \/ slots' # slots)

(* handle_map_size: flag says whether the client claims to have the map (1) *)
(* or to be receiving it.                                                   *)
MapSize(pid, flag, pct) ==
    LET p == players[pid]
        complete == flag = 1 /\ pct = 100
        permitted == DownloadMode # 2 \/ p.allowed
        status == DownloadStatus(pct)
    IN  /\ ~started /\ pid \in Seated
        /\ IF ~complete /\ (DownloadMode = 0 \/ ~HasMapData)
           THEN Remove({pid}, Freed(slots, {pid}))
           ELSE /\ players' = [players EXCEPT ![pid] =
                      [@ EXCEPT !.finished = p.finished \/ (complete /\ p.started),
                                !.started = p.started \/ (~complete /\ permitted /\ flag = 1),
                                !.confirmed = complete]]
                /\ slots' = [s \in Sids |-> IF slots[s].pid = pid
                                            THEN [slots[s] EXCEPT !.download = status]
                                            ELSE slots[s]]
                /\ SlotInfoLater
                /\ UNCHANGED <<map, autostart, virtual_host_pid, started, shown>>
                /\ MaybeAutostart

(* !download: the admin approves a download, whatever the mode. *)
ApproveDownload(pid) ==
    /\ "download" \in Admin /\ ~started /\ pid \in Seated /\ ~players[pid].finished
    /\ players' = [players EXCEPT ![pid] = [@ EXCEPT !.allowed = TRUE, !.started = TRUE]]
    /\ UNCHANGED <<map, slots, virtual_host_pid, countdown, autostart, started,
                   slot_info_changed, shown>>

(* !autostart *)
SetAutostart(n) ==
    /\ "autostart" \in Admin
    /\ autostart' = n
    /\ UNCHANGED <<map, slots, players, virtual_host_pid, started, slot_info_changed, shown>>
    /\ MaybeAutostart

(* !start *)
StartCommand ==
    /\ "start" \in Admin /\ CountdownStarts(players)
    /\ countdown' = CountdownFrom
    /\ UNCHANGED <<map, slots, players, virtual_host_pid, autostart, started,
                   slot_info_changed, shown>>

(* !abort *)
AbortCommand ==
    /\ "abort" \in Admin /\ countdown # None
    /\ countdown' = None
    /\ UNCHANGED <<map, slots, players, virtual_host_pid, autostart, started,
                   slot_info_changed, shown>>

CountingToOne == countdown # None /\ countdown > 1

(* There are steps left. *)
CountingDown == countdown # None /\ countdown > 0

TickCountdown ==
    /\ CountingDown
    /\ countdown' = countdown - 1
    /\ UNCHANGED <<map, slots, players, virtual_host_pid, autostart, started,
                   slot_info_changed, shown>>

(* event_game_started: the last slot info, and the virtual host goes. *)
EventGameStarted ==
    /\ countdown = 0
    /\ countdown' = None /\ started' = TRUE /\ virtual_host_pid' = NoHost
    /\ UNCHANGED <<map, slots, players, autostart, slot_info_changed>>
    /\ SendSlotInfo

(* The one-second tick sends what a download report left unsent. *)
SlotInfoTick ==
    /\ slot_info_changed /\ ~started
    /\ slot_info_changed' = FALSE
    /\ UNCHANGED <<map, slots, players, virtual_host_pid, countdown, autostart, started>>
    /\ SendSlotInfo

Next ==
    \/ Join
    \/ \E pid \in Pids : Leave(pid) \/ ApproveDownload(pid)
    \/ \E gone \in SUBSET Pids : PingKick(gone)
    \/ \E sid \in Sids, status \in {"open", "closed"} : SetSlotOpen(sid, status)
    \/ SetAllSlots("closed", "open") \/ SetAllSlots("open", "closed")
    \/ \E i, j \in Sids : SwapCommand(i, j)
    \/ ShufflePlayers
    \/ \E pid \in Pids, team \in 0..MaxSlots :
          ChangeTeamByMoving(pid, team) \/ ChangeTeam(pid, team) \/ ChangeColour(pid, team)
    \/ \E pid \in Pids, flag \in {1, 3}, pct \in MapSizes : MapSize(pid, flag, pct)
    \/ \E n \in 0..MaxSlots : SetAutostart(n)
    \/ StartCommand \/ AbortCommand \/ TickCountdown \/ EventGameStarted \/ SlotInfoTick

Spec == Init /\ [][Next]_vars

(* The countdown and the slot info tick are timers the actor keeps serving. *)
FairSpec == Spec /\ WF_vars(TickCountdown) /\ WF_vars(EventGameStarted) /\ WF_vars(SlotInfoTick)

(***************************************************************************)
(* Properties                                                              *)
(***************************************************************************)

(* Types; a download is shown as 0 to 100 percent, or as not known, and a   *)
(* countdown never leaves its range.                                        *)
TypeOK ==
    /\ map \in Maps /\ Sids = DOMAIN map.slots
    /\ slots \in [Sids -> Slot] /\ shown \in [Sids -> Slot]
    /\ Seated \subseteq Pids /\ \A p \in Seated : players[p] \in Player
    /\ virtual_host_pid \in Pids \union {NoHost}
    /\ countdown \in 0..CountdownFrom \union {None}
    /\ autostart \in Nat /\ {started, slot_info_changed} \subseteq BOOLEAN

(* Players and occupied human slots are the same thing: every player sits   *)
(* in exactly one, every other slot has no PID.                             *)
SlotsSeatPlayers ==
    /\ \A p \in Seated : \E s \in Sids : SlotOf(slots, p) = {s}
           /\ slots[s].status = "occupied" /\ ~slots[s].computer
    /\ \A s \in Sids : slots[s].pid # 0 => slots[s].pid \in Seated

(* The lobby always has a host to speak for the bot, on a PID of its own,   *)
(* except while players hold all PIDs; a started game has none.             *)
HostPresent ==
    /\ virtual_host_pid \notin Seated
    /\ virtual_host_pid = NoHost <=> started \/ Seated = Pids

(* Every PID is nobody's, one player's in one slot, or the virtual host's.  *)
PidsExact == SlotsSeatPlayers /\ HostPresent

(* No two slots share a playing colour, taken or not: else taking a slot    *)
(* would give two players one colour.  A playing team's slot has one, an    *)
(* observer's none (with custom forces the map's author sees to it).        *)
ColoursFit ==
    /\ \A s, t \in Sids : slots[s].colour = slots[t].colour /\ slots[s].colour # Obs => s = t
    /\ ~map.forces => \A s \in Sids : slots[s].team = Obs <=> slots[s].colour = Obs

(* Every change of the slots reaches the clients: either they were sent the *)
(* slots as they are, or the next tick will send them.                      *)
ClientsShown == ~started /\ ~slot_info_changed => shown = slots

(* A countdown only goes on with everybody it started with: nobody is taken *)
(* into a game they are trying to leave.                                    *)
CountdownIntact ==
    [][countdown # None /\ (countdown' # None \/ started') => Seated \subseteq DOMAIN players']_vars

(* maybe_autostart: "Only start once everyone has confirmed the map": where *)
(* no admin starts it, a countdown begins with the hosted map everywhere.   *)
AutostartConfirmed ==
    [][countdown = None /\ countdown' # None => \A p \in Seated : players'[p].confirmed]_vars

(* A countdown ends, in a start or cancelled, and a start is the end of the *)
(* lobby for good.                                                          *)
CountdownEnds == countdown # None ~> countdown = None
=============================================================================
