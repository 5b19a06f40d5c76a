------------------------------- MODULE GameLoop -------------------------------
(***************************************************************************)
(* A started game, from the loading screen to its end: load completion,    *)
(* the action queue and its beats, the lag screen and the votes to drop    *)
(* the laggers, holds for GProxy++ reconnects, the gameover timer.         *)
(*                                                                         *)
(* A player's sync_counter matters only by its distance to the game's,     *)
(* behind[p].  Clocks are not modelled: a wait that is measured in seconds *)
(* may be over at any beat or tick.  The re-show of a lag screen every     *)
(* minute is left out: it changes no state of the actor, and clients do    *)
(* not answer its empty batches.                                           *)
(*                                                                         *)
(* A definition that directly precedes another and is used nowhere, such   *)
(* as ForgetButHeld before Forget, is a faulty variant of it: with it in   *)
(* place of the other, one of the properties below must fail.              *)
(***************************************************************************)
EXTENDS Integers, FiniteSets

CONSTANTS
    Pids,           \* the players seated when the game started
    GProxy,         \* those who use GProxy++ (reconnect_enabled)
    Admins,         \* those whose press of "drop" BotCore obeys
    SyncLimits,     \* values of effective_sync_limit
    ForceEnd,       \* whether an admin may type !end
    MaxAnswers,     \* bound: BotCore's answers on their way at a time
    MaxAhead        \* bound: how far a player's counter runs ahead of the game's

ASSUME GameAssumption ==
    /\ IsFiniteSet(Pids) /\ Pids # {} /\ GProxy \subseteq Pids /\ Admins \subseteq Pids
    /\ SyncLimits \subseteq Nat \ {0} /\ SyncLimits # {}
    /\ ForceEnd \in BOOLEAN /\ {MaxAnswers, MaxAhead} \subseteq Nat

VARIABLES
    players,        \* keys of the players map
    finished,       \* finished_loading
    game_loaded,    \* (game_loading is its negation, until the game is over)
    behind,         \* pid -> the game's sync_counter less the player's
    sync_limit,     \* effective_sync_limit()
    actions,        \* senders of the queued actions
    held,           \* gproxy_disconnected
    lagging,        \* GameActor.lagging
    laggers,        \* LobbyPlayer.lagging
    votes,          \* LobbyPlayer.drop_vote
    pressed,        \* history: who pressed drop since the screen came up
    screen,         \* who the clients show on their lag screens
    answers,        \* AdminDropLaggers on their way
    game_over_time, \* the gameover timer runs
    over,           \* the main loop was left
    saved           \* the replay was written and GameEnded sent

world == <<players, finished, game_loaded, behind, sync_limit, actions, held>>
lag == <<lagging, laggers, votes, pressed, screen>>
ending == <<game_over_time, over, saved>>
vars == <<world, lag, answers, ending>>

Init ==
    /\ players = Pids /\ finished = {} /\ game_loaded = FALSE
    /\ behind = [p \in Pids |-> 0] /\ sync_limit \in SyncLimits
    /\ actions = {} /\ held = {}
    /\ lagging = FALSE /\ laggers = {} /\ votes = {} /\ pressed = {} /\ screen = {}
    /\ answers = 0
    /\ game_over_time = FALSE /\ over = FALSE /\ saved = FALSE

Running == ~over

(* The end of an event: with nobody left the replay and the records go out  *)
(* and the main loop is left.                                               *)
EndEvent ==
    /\ over' = (players' = {})
    /\ saved' = (players' = {})

(* The queued actions of a removed player never reach the clients. *)
PurgeActions(S) == actions' = actions \ S

LoadingUnchecked == UNCHANGED game_loaded

(* check_loading_complete: everybody left has loaded. *)
CheckLoadingComplete ==
    game_loaded' = (game_loaded \/ (players' # {} /\ players' \subseteq finished'))

ForgetButHeld(S) == players' = players \ S /\ laggers' = laggers \ S /\ UNCHANGED held

(* The player's own fields go with the player. *)
Forget(S) == players' = players \ S /\ laggers' = laggers \ S /\ held' = held \ S

(* remove_player for each of S: the clients take them off the lag screen    *)
(* with PLAYERLEAVE_OTHERS, and while the game loads it may now go on.      *)
Remove(S) ==
    /\ Forget(S) /\ PurgeActions(S)
    /\ screen' = screen \ S /\ UNCHANGED finished
    /\ CheckLoadingComplete

(***************************************************************************)
(* Loading                                                                 *)
(***************************************************************************)

(* handle_player_loaded, check_loading_complete *)
PlayerLoaded(p) ==
    /\ Running /\ p \in players \ held /\ ~game_loaded /\ p \notin finished
    /\ finished' = finished \union {p} /\ players' = players
    /\ CheckLoadingComplete
    /\ UNCHANGED <<behind, sync_limit, actions, held, lag, answers, ending>>

(***************************************************************************)
(* The beat                                                                *)
(***************************************************************************)

(* send_all_actions: one batch for everybody, empty or not. *)
SendAllActions(ps) ==
    /\ behind' = [p \in Pids |-> IF p \in ps THEN behind[p] + 1 ELSE behind[p]]
    /\ actions' = {}

HoldActions(ps) ==
    /\ actions' = actions \intersect ps
    /\ UNCHANGED behind

(* Who is more than sync_limit batches behind, and who caught up enough. *)
TooFar(ps) == {p \in ps : behind[p] > sync_limit}
CaughtUp(ps) ==
    LET half == sync_limit \div 2
    IN  {p \in ps : behind[p] < IF half > 1 THEN half ELSE 1}

NewVoteKeepsPresses == UNCHANGED votes /\ pressed' = {}

(* A fresh lag screen starts a fresh vote. *)
NewVote == votes' = {} /\ pressed' = {}

(* game_tick without a lag screen.  First go the GProxy++ players whose     *)
(* reconnect is overdue or whose resend buffer is too large; then the       *)
(* screen opens if somebody is too far behind, else the batch goes out.     *)
GameTickPlay(overdue) ==
    LET left == players \ overdue
        far == TooFar(left)
    IN  /\ Running /\ game_loaded /\ ~lagging /\ overdue \subseteq players
        /\ players' = left /\ held' = held \ overdue
        /\ lagging' = (far # {})
        /\ laggers' = laggers \union far
        /\ screen' = (screen \ overdue) \union far
        /\ IF far # {}
           THEN NewVote /\ HoldActions(left)
           ELSE votes' = votes \ overdue /\ UNCHANGED pressed /\ SendAllActions(left)
        /\ EndEvent
        /\ UNCHANGED <<finished, game_loaded, sync_limit, answers, game_over_time>>

TimedOutConnected(late) == IF late THEN laggers \ held ELSE {}

(* lag_screen_expired: whom the wait is over for. *)
TimedOut(late) == IF late THEN laggers ELSE {}

(* game_tick with the lag screen up: if its time is over the laggers are    *)
(* dropped, those who caught up leave it one by one, and once nobody is     *)
(* left on it the same beat sends again.                                    *)
GameTickLag(overdue, late) ==
    LET dropped == overdue \union TimedOut(late)
        left == players \ dropped
        back == CaughtUp(laggers \ dropped)
        still == laggers \ (dropped \union back)
    IN  /\ Running /\ game_loaded /\ lagging /\ overdue \subseteq players
        /\ players' = left /\ held' = held \ dropped
        /\ laggers' = still /\ lagging' = (still # {})
        /\ screen' = screen \ (dropped \union back)
        /\ votes' = votes \ dropped
        /\ IF still = {} THEN SendAllActions(left) ELSE HoldActions(left)
        /\ EndEvent
        /\ UNCHANGED <<finished, game_loaded, sync_limit, answers, game_over_time, pressed>>

(* OUTGOING_ACTION is queued for the next beat. *)
OutgoingAction(p) ==
    /\ Running /\ p \in players \ held /\ game_loaded
    /\ actions' = actions \union {p}
    /\ UNCHANGED <<players, finished, game_loaded, behind, sync_limit, held, lag, answers,
                   ending>>

(* OUTGOING_KEEPALIVE: every one counts.  A client owes one for a batch, but *)
(* the code does not hold it to that, and here it may send more, so that    *)
(* its counter runs ahead of the game's.                                    *)
Keepalive(p) ==
    /\ Running /\ p \in players \ held /\ behind[p] > -MaxAhead
    /\ behind' = [behind EXCEPT ![p] = @ - 1]
    /\ UNCHANGED <<players, finished, game_loaded, sync_limit, actions, held, lag, answers,
                   ending>>

(* !latency and !synclimit change what counts as too far behind. *)
SetSyncLimit(n) ==
    /\ Running /\ n # sync_limit /\ sync_limit' = n
    /\ UNCHANGED <<players, finished, game_loaded, behind, actions, held, lag, answers,
                   ending>>

(***************************************************************************)
(* Dropping the laggers                                                    *)
(***************************************************************************)

StopConnectedLaggers(vs) ==
    /\ Remove(laggers \ held)
    /\ lagging' = FALSE
    /\ votes' = vs \ laggers

(* stop_laggers: the screen closes with the last of them. *)
StopLaggers(vs) ==
    /\ Remove(laggers)
    /\ lagging' = (lagging /\ laggers = {})
    /\ votes' = vs \ laggers

Voters(vs) == vs \ laggers
Enough(vs) == 2 * Cardinality(Voters(vs)) >= Cardinality(players \ laggers)

(* handle_drop_request: one vote per player and screen.  What does not drop *)
(* the laggers is reported to BotCore, which answers an admin's press.      *)
DropRequest(p) ==
    LET now == votes \union {p}
    IN  /\ Running /\ p \in players \ held /\ lagging /\ p \notin votes
        /\ pressed' = pressed \union {p}
        /\ \/ /\ Enough(now)
              /\ StopLaggers(now)
              /\ UNCHANGED answers
           \/ /\ ~Enough(now)
              /\ votes' = now
              /\ IF p \in Admins
                 THEN answers < MaxAnswers /\ answers' = answers + 1
                 ELSE UNCHANGED answers
              /\ UNCHANGED <<players, actions, held, lagging, laggers, screen, game_loaded>>
        /\ EndEvent
        /\ UNCHANGED <<finished, behind, sync_limit, game_over_time>>

(* BotCore's answer arrives as a command of its own, later. *)
AdminDropLaggers ==
    /\ Running /\ answers > 0
    /\ answers' = answers - 1
    /\ IF game_loaded /\ lagging THEN StopLaggers(votes)
       ELSE UNCHANGED <<players, actions, held, lagging, laggers, votes, screen, game_loaded>>
    /\ EndEvent
    /\ UNCHANGED <<finished, behind, sync_limit, game_over_time, pressed>>

(* !drop, typed by an admin. *)
Drop ==
    /\ Running /\ game_loaded /\ lagging
    /\ StopLaggers(votes)
    /\ EndEvent
    /\ UNCHANGED <<finished, behind, sync_limit, answers, game_over_time, pressed>>

(***************************************************************************)
(* Players leaving and coming back                                         *)
(***************************************************************************)

(* LEAVEGAME or a kick. *)
Leave(p) ==
    /\ Running /\ p \in players
    /\ Remove({p}) /\ votes' = votes \ {p}
    /\ EndEvent
    /\ UNCHANGED <<finished, behind, sync_limit, lagging, pressed, answers, game_over_time>>

(* The connection ends or stalls: a GProxy++ player of a loaded game is     *)
(* held, any other is removed.                                              *)
Disconnect(p) ==
    /\ Running /\ p \in players \ held
    /\ IF p \in GProxy /\ game_loaded
       THEN /\ held' = held \union {p}
            /\ UNCHANGED <<players, actions, laggers, votes, screen, game_loaded>>
       ELSE Remove({p}) /\ votes' = votes \ {p}
    /\ EndEvent
    /\ UNCHANGED <<finished, behind, sync_limit, lagging, pressed, answers, game_over_time>>

Reconnect(p) ==
    /\ Running /\ p \in held
    /\ held' = held \ {p}
    /\ UNCHANGED <<players, finished, game_loaded, behind, sync_limit, actions, lag, answers,
                   ending>>

(***************************************************************************)
(* The end                                                                 *)
(***************************************************************************)

GameOverTimerOfLoadedGame ==
    /\ Running /\ game_loaded /\ Cardinality(players) = 1 /\ ~game_over_time
    /\ game_over_time' = TRUE
    /\ UNCHANGED <<world, lag, answers, over, saved>>

(* check_game_over: the timer starts with one player left ... *)
GameOverTimer ==
    /\ Running /\ Cardinality(players) = 1 /\ ~game_over_time
    /\ game_over_time' = TRUE
    /\ UNCHANGED <<world, lag, answers, over, saved>>

(* ... and stop_players closes the game when it is finished. *)
GameOver ==
    /\ Running /\ game_over_time
    /\ Remove(players) /\ votes' = votes \ players
    /\ EndEvent
    /\ UNCHANGED <<finished, behind, sync_limit, lagging, pressed, answers, game_over_time>>

(* !end, or BotCore closing the game: the main loop is left at once. *)
End ==
    /\ Running /\ ForceEnd
    /\ over' = TRUE
    /\ UNCHANGED <<world, lag, answers, game_over_time, saved>>

Next ==
    \/ \E p \in Pids : \/ PlayerLoaded(p) \/ OutgoingAction(p) \/ Keepalive(p)
                       \/ DropRequest(p) \/ Leave(p) \/ Disconnect(p) \/ Reconnect(p)
    \/ \E overdue \in SUBSET GProxy : GameTickPlay(overdue)
    \/ \E overdue \in SUBSET GProxy, late \in BOOLEAN : GameTickLag(overdue, late)
    \/ \E n \in SyncLimits : SetSyncLimit(n)
    \/ AdminDropLaggers \/ Drop \/ GameOverTimer \/ GameOver \/ End

Spec == Init /\ [][Next]_vars

(* The beat comes again and again, and so do the waits it measures: a lag   *)
(* screen that stays up runs out of time, a gameover timer that runs is     *)
(* finished.                                                                *)
Fairness ==
    /\ WF_vars(GameTickPlay({})) /\ WF_vars(GameTickLag({}, TRUE))
    /\ WF_vars(GameOverTimer) /\ WF_vars(GameOver)

FairSpec == Spec /\ Fairness

(***************************************************************************)
(* Properties                                                              *)
(***************************************************************************)

(* Types; no queued action is of a player the clients have already torn     *)
(* down; and nobody falls further behind than the most tolerant limit       *)
(* allows: past it the game waits for them.                                 *)
TypeOK ==
    /\ players \subseteq Pids /\ finished \subseteq Pids /\ actions \subseteq players
    /\ held \subseteq players /\ laggers \subseteq Pids /\ votes \subseteq Pids
    /\ pressed \subseteq Pids /\ screen \subseteq Pids
    /\ answers \in 0..MaxAnswers
    /\ behind \in [Pids -> Int] /\ sync_limit \in SyncLimits
    /\ \A p \in players : \E n \in SyncLimits : behind[p] <= n + 1
    /\ {game_loaded, lagging, game_over_time, over, saved} \subseteq BOOLEAN

(* What the clients show is what the actor thinks it told them: exactly the *)
(* laggers are on the lag screen, all of them players, and only while it is *)
(* up.                                                                      *)
ScreenIsLaggers ==
    /\ screen = laggers /\ laggers \subseteq players
    /\ laggers # {} => lagging

(* A vote counts on the screen it was pressed on, never on a later one.     *)
VotesAreFresh == votes \subseteq pressed

(* The game never waits for nobody: while it loads somebody has not loaded, *)
(* the departure of the last one still loading gets it going, and a game    *)
(* nobody is left in is over, its replay and records out.                   *)
WaitsForSomebody ==
    /\ ~game_loaded /\ ~over => ~(players \subseteq finished)
    /\ players = {} => over /\ saved

(* Whatever the laggers do, an action that was queued goes out, unless its  *)
(* player leaves or the game ends first.                                    *)
ActionsGetOut == \A p \in Pids : p \in actions ~> p \notin actions \/ over

(* A game down to its last player comes to its end.                         *)
LastPlayerEnds == Cardinality(players) = 1 ~> over
=============================================================================
