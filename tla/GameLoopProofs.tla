---------------------------- MODULE GameLoopProofs ----------------------------
(***************************************************************************)
(* Proofs about GameLoop for any number of players and any sync limits:    *)
(* types, the lag screen, the votes, and that the game waits for somebody. *)
(***************************************************************************)
EXTENDS GameLoop, TLAPS

\* While a lag screen is up no batch goes out, so those who are not on it are
\* where they were when it opened: not further behind than some limit.  The
\* batch that follows the screen adds one.
OthersKeepUp ==
    lagging => \A p \in players \ laggers : \E n \in SyncLimits : behind[p] <= n

IInv == TypeOK /\ ScreenIsLaggers /\ VotesAreFresh /\ WaitsForSomebody /\ OthersKeepUp

LEMMA InitInv == Init => IInv
  <1> SUFFICES ASSUME Init PROVE IInv
    OBVIOUS
  <1> USE DEF Init
  <1>1. \E n \in SyncLimits : 0 <= n + 1
    BY GameAssumption
  <1>2. TypeOK
    <2>1. behind \in [Pids -> Int] /\ \A p \in players : \E n \in SyncLimits : behind[p] <= n + 1
      BY <1>1
    <2>2. answers \in 0..MaxAnswers
      BY GameAssumption
    <2> QED
      BY <2>1, <2>2 DEF TypeOK
  <1>3. ScreenIsLaggers /\ VotesAreFresh /\ OthersKeepUp
    BY DEF ScreenIsLaggers, VotesAreFresh, OthersKeepUp
  <1>4. WaitsForSomebody
    BY GameAssumption DEF WaitsForSomebody
  <1> QED
    BY <1>2, <1>3, <1>4 DEF IInv

(***************************************************************************)
(* Players leaving                                                         *)
(***************************************************************************)

\* After players were removed and the event ended: the rest of the invariant
\* follows from what the action says of the lag screen and the votes.
LEMMA RemoveInv ==
    ASSUME IInv, Running, NEW S \in SUBSET players, Remove(S), EndEvent,
           lagging' \in BOOLEAN, laggers' # {} => lagging', lagging' => lagging,
           votes' \subseteq pressed', pressed' \subseteq Pids,
           answers' \in 0..MaxAnswers, game_over_time' \in BOOLEAN,
           behind' = behind, sync_limit' = sync_limit
    PROVE  IInv'
  <1> USE DEF IInv, Remove, Forget, PurgeActions, EndEvent
  <1>1. game_loaded' \in BOOLEAN /\ over' \in BOOLEAN /\ saved' \in BOOLEAN
    BY DEF TypeOK, CheckLoadingComplete
  <1>2. TypeOK'
    BY <1>1 DEF TypeOK
  <1>3. ScreenIsLaggers' /\ VotesAreFresh'
    BY DEF ScreenIsLaggers, VotesAreFresh
  <1>4. WaitsForSomebody'
    BY DEF WaitsForSomebody, CheckLoadingComplete, Running
  <1>5. OthersKeepUp'
    BY DEF OthersKeepUp
  <1> QED
    BY <1>2, <1>3, <1>4, <1>5

\* stop_laggers, after a vote or an admin's word.
LEMMA StopLaggersInv ==
    ASSUME IInv, Running, NEW vs \in SUBSET pressed', StopLaggers(vs), EndEvent,
           pressed' \subseteq Pids, answers' \in 0..MaxAnswers,
           game_over_time' \in BOOLEAN, behind' = behind, sync_limit' = sync_limit
    PROVE  IInv'
  <1>1. laggers \in SUBSET players /\ Remove(laggers)
    BY DEF IInv, ScreenIsLaggers, StopLaggers
  <1>2. laggers' = {}
    BY <1>1 DEF Remove, Forget
  <1>3. lagging' \in BOOLEAN /\ (lagging' => lagging) /\ votes' \subseteq pressed'
    BY DEF StopLaggers, IInv, TypeOK
  <1> QED
    BY <1>1, <1>2, <1>3, RemoveInv

(***************************************************************************)
(* The beat                                                                *)
(***************************************************************************)

LEMMA GameTickPlayInv ==
    ASSUME IInv, NEW overdue \in SUBSET GProxy, GameTickPlay(overdue)
    PROVE  IInv'
  <1> DEFINE left == players \ overdue
             far == TooFar(left)
  <1> USE DEF IInv
  <1>1. /\ Running /\ game_loaded /\ ~lagging /\ overdue \subseteq players
        /\ players' = left /\ held' = held \ overdue /\ lagging' = (far # {})
        /\ laggers' = laggers \union far /\ screen' = (screen \ overdue) \union far
        /\ EndEvent
        /\ UNCHANGED <<finished, game_loaded, sync_limit, answers, game_over_time>>
    BY DEF GameTickPlay
  <1>2. laggers = {} /\ screen = {} /\ far \subseteq left /\ left \subseteq Pids
    BY <1>1 DEF ScreenIsLaggers, TypeOK, TooFar
  <1>3. ScreenIsLaggers'
    BY <1>1, <1>2 DEF ScreenIsLaggers
  <1>4. WaitsForSomebody'
    BY <1>1 DEF WaitsForSomebody, EndEvent
  <1>5. CASE far # {}
    <2>1. /\ votes' = {} /\ pressed' = {} /\ actions' = actions \intersect left
          /\ behind' = behind
      BY <1>5 DEF GameTickPlay, NewVote, HoldActions
    <2>2. OthersKeepUp'
      BY <1>1, <1>2, <2>1, GameAssumption DEF OthersKeepUp, TooFar, TypeOK
    <2>3. TypeOK'
      BY <1>1, <1>2, <2>1 DEF TypeOK, EndEvent
    <2> QED
      BY <1>3, <1>4, <2>1, <2>2, <2>3 DEF VotesAreFresh
  <1>6. CASE far = {}
    <2>1. /\ votes' = votes \ overdue /\ pressed' = pressed /\ actions' = {}
          /\ behind' = [p \in Pids |-> IF p \in left THEN behind[p] + 1 ELSE behind[p]]
      BY <1>6 DEF GameTickPlay, SendAllActions
    <2>2. \A p \in left : behind[p] \in Int /\ behind[p] <= sync_limit
      BY <1>2, <1>6, GameAssumption DEF TypeOK, TooFar
    <2>3. behind' \in [Pids -> Int]
      BY <2>1 DEF TypeOK
    <2>4. \A p \in players' : \E n \in SyncLimits : behind'[p] <= n + 1
      BY <1>1, <1>2, <2>1, <2>2, GameAssumption DEF TypeOK
    <2>5. TypeOK'
      BY <1>1, <1>2, <1>6, <2>1, <2>3, <2>4 DEF TypeOK, EndEvent
    <2>6. OthersKeepUp' /\ VotesAreFresh'
      BY <1>1, <1>6, <2>1 DEF OthersKeepUp, VotesAreFresh
    <2> QED
      BY <1>3, <1>4, <2>5, <2>6
  <1> QED
    BY <1>5, <1>6

LEMMA GameTickLagInv ==
    ASSUME IInv, NEW overdue \in SUBSET GProxy, NEW late \in BOOLEAN,
           GameTickLag(overdue, late)
    PROVE  IInv'
  <1> DEFINE dropped == overdue \union TimedOut(late)
             left == players \ dropped
             back == CaughtUp(laggers \ dropped)
             still == laggers \ (dropped \union back)
  <1> USE DEF IInv
  <1>1. /\ Running /\ game_loaded /\ lagging /\ overdue \subseteq players
        /\ players' = left /\ held' = held \ dropped
        /\ laggers' = still /\ lagging' = (still # {})
        /\ screen' = screen \ (dropped \union back)
        /\ votes' = votes \ dropped /\ pressed' = pressed
        /\ IF still = {} THEN SendAllActions(left) ELSE HoldActions(left)
        /\ EndEvent
        /\ UNCHANGED <<finished, game_loaded, sync_limit, answers, game_over_time>>
    BY DEF GameTickLag
  <1>2. back \subseteq laggers /\ laggers \subseteq players /\ screen = laggers
    BY DEF CaughtUp, ScreenIsLaggers
  <1>3. ScreenIsLaggers' /\ VotesAreFresh'
    BY <1>1, <1>2 DEF ScreenIsLaggers, VotesAreFresh
  <1>4. WaitsForSomebody'
    BY <1>1 DEF WaitsForSomebody, EndEvent
  <1>5. \A p \in back : behind[p] <= sync_limit
    BY <1>2, GameAssumption DEF CaughtUp, TypeOK
  <1>6. \A p \in left \ still : \E n \in SyncLimits : behind[p] <= n
    BY <1>1, <1>2, <1>5 DEF OthersKeepUp, TypeOK
  <1>7. CASE still = {}
    <2>1. /\ actions' = {}
          /\ behind' = [p \in Pids |-> IF p \in left THEN behind[p] + 1 ELSE behind[p]]
      BY <1>1, <1>7 DEF SendAllActions
    <2>2. behind' \in [Pids -> Int]
      BY <2>1 DEF TypeOK
    <2>3. \A p \in players' : \E n \in SyncLimits : behind'[p] <= n + 1
      <3> SUFFICES ASSUME NEW p \in left PROVE \E n \in SyncLimits : behind'[p] <= n + 1
        BY <1>1
      <3>1. p \in left \ still /\ p \in Pids /\ behind[p] \in Int
        BY <1>7 DEF TypeOK
      <3>2. PICK n \in SyncLimits : behind[p] <= n
        BY <1>6, <3>1
      <3>3. behind'[p] = behind[p] + 1 /\ n \in Nat
        BY <2>1, <3>1, GameAssumption
      <3> QED
        BY <3>1, <3>2, <3>3
    <2>4. TypeOK'
      BY <1>1, <1>2, <2>1, <2>2, <2>3 DEF TypeOK, EndEvent
    <2>5. OthersKeepUp'
      BY <1>1, <1>7 DEF OthersKeepUp
    <2> QED
      BY <1>3, <1>4, <2>4, <2>5
  <1>8. CASE still # {}
    <2>1. actions' = actions \intersect left /\ behind' = behind
      BY <1>1, <1>8 DEF HoldActions
    <2>2. TypeOK'
      BY <1>1, <1>2, <2>1 DEF TypeOK, EndEvent
    <2>3. OthersKeepUp'
      BY <1>1, <1>6, <2>1 DEF OthersKeepUp
    <2> QED
      BY <1>3, <1>4, <2>2, <2>3
  <1> QED
    BY <1>7, <1>8

(***************************************************************************)
(* Every step                                                              *)
(***************************************************************************)

LEMMA PlayerStep ==
    ASSUME IInv, NEW p \in Pids,
           \/ PlayerLoaded(p) \/ OutgoingAction(p) \/ Keepalive(p)
           \/ DropRequest(p) \/ Leave(p) \/ Disconnect(p) \/ Reconnect(p)
    PROVE  IInv'
  <1> USE DEF IInv
  <1>1. CASE PlayerLoaded(p)
    BY <1>1 DEF PlayerLoaded, CheckLoadingComplete, lag, ending, TypeOK, ScreenIsLaggers,
                VotesAreFresh, WaitsForSomebody, OthersKeepUp, Running
  <1>2. CASE OutgoingAction(p)
    BY <1>2 DEF OutgoingAction, lag, ending, TypeOK, ScreenIsLaggers,
                VotesAreFresh, WaitsForSomebody, OthersKeepUp
  <1>3. CASE Keepalive(p)
    <2>1. /\ UNCHANGED <<players, finished, game_loaded, sync_limit, actions, held, lag, answers,
                         ending>>
          /\ behind' = [behind EXCEPT ![p] = @ - 1]
      BY <1>3 DEF Keepalive
    <2>2. behind' \in [Pids -> Int] /\ \A q \in Pids : behind'[q] <= behind[q]
      BY <2>1 DEF TypeOK
    <2>3. \A q \in Pids, m \in Int : behind[q] <= m => behind'[q] <= m
      BY <2>2 DEF TypeOK
    <2>4. TypeOK'
      BY <2>1, <2>2, <2>3, GameAssumption DEF TypeOK, lag, ending
    <2>5. OthersKeepUp'
      BY <2>1, <2>3, GameAssumption DEF OthersKeepUp, TypeOK, lag
    <2> QED
      BY <2>1, <2>4, <2>5 DEF lag, ending, ScreenIsLaggers, VotesAreFresh, WaitsForSomebody
  <1>4. CASE DropRequest(p)
    <2> DEFINE now == votes \union {p}
    <2>1. /\ Running /\ p \in players /\ pressed' = pressed \union {p} /\ EndEvent
          /\ UNCHANGED <<finished, behind, sync_limit, game_over_time>>
      BY <1>4 DEF DropRequest
    <2>2. now \subseteq pressed' /\ pressed' \subseteq Pids
      BY <2>1 DEF VotesAreFresh, TypeOK
    <2>3. CASE StopLaggers(now) /\ UNCHANGED answers
      BY <2>1, <2>2, <2>3, StopLaggersInv DEF TypeOK
    <2>4. CASE /\ votes' = now
               /\ IF p \in Admins
                  THEN answers < MaxAnswers /\ answers' = answers + 1
                  ELSE UNCHANGED answers
               /\ UNCHANGED <<players, actions, held, lagging, laggers, screen, game_loaded>>
      <3>1. answers' \in 0..MaxAnswers
        BY <2>4, GameAssumption DEF TypeOK
      <3>2. TypeOK'
        BY <2>1, <2>2, <2>4, <3>1 DEF TypeOK, EndEvent
      <3> QED
        BY <2>1, <2>2, <2>4, <3>2 DEF ScreenIsLaggers, VotesAreFresh, WaitsForSomebody,
                                       OthersKeepUp, EndEvent, Running
    <2> QED
      BY <1>4, <2>3, <2>4 DEF DropRequest
  <1>5. CASE Leave(p)
    BY <1>5, RemoveInv DEF Leave, TypeOK, ScreenIsLaggers, VotesAreFresh, Remove, Forget
  <1>6. CASE Disconnect(p)
    <2>1. CASE p \in GProxy /\ game_loaded
      BY <1>6, <2>1 DEF Disconnect, EndEvent, TypeOK, ScreenIsLaggers, VotesAreFresh,
                        WaitsForSomebody, OthersKeepUp, Running
    <2>2. CASE ~(p \in GProxy /\ game_loaded)
      BY <1>6, <2>2, RemoveInv DEF Disconnect, TypeOK, ScreenIsLaggers, VotesAreFresh, Remove,
                                   Forget
    <2> QED
      BY <2>1, <2>2
  <1>7. CASE Reconnect(p)
    BY <1>7 DEF Reconnect, lag, ending, TypeOK, ScreenIsLaggers,
                VotesAreFresh, WaitsForSomebody, OthersKeepUp
  <1> QED
    BY <1>1, <1>2, <1>3, <1>4, <1>5, <1>6, <1>7

LEMMA NextInv ==
    ASSUME IInv, [Next]_vars
    PROVE  IInv'
  <1> USE DEF IInv
  <1>1. CASE \E p \in Pids : \/ PlayerLoaded(p) \/ OutgoingAction(p) \/ Keepalive(p)
                             \/ DropRequest(p) \/ Leave(p) \/ Disconnect(p) \/ Reconnect(p)
    BY <1>1, PlayerStep
  <1>2. CASE \E overdue \in SUBSET GProxy : GameTickPlay(overdue)
    BY <1>2, GameTickPlayInv
  <1>3. CASE \E overdue \in SUBSET GProxy, late \in BOOLEAN : GameTickLag(overdue, late)
    BY <1>3, GameTickLagInv
  <1>4. CASE \E n \in SyncLimits : SetSyncLimit(n)
    BY <1>4 DEF SetSyncLimit, lag, ending, TypeOK, ScreenIsLaggers,
                VotesAreFresh, WaitsForSomebody, OthersKeepUp
  <1>5. CASE AdminDropLaggers
    <2>1. /\ Running /\ answers' \in 0..MaxAnswers /\ EndEvent
          /\ UNCHANGED <<finished, behind, sync_limit, game_over_time, pressed>>
      BY <1>5, GameAssumption DEF AdminDropLaggers, TypeOK
    <2>2. CASE StopLaggers(votes)
      BY <2>1, <2>2, StopLaggersInv DEF TypeOK, VotesAreFresh
    <2>3. CASE UNCHANGED <<players, actions, held, lagging, laggers, votes, screen, game_loaded>>
      BY <2>1, <2>3 DEF EndEvent, TypeOK, ScreenIsLaggers, VotesAreFresh, WaitsForSomebody,
                        OthersKeepUp, Running
    <2> QED
      BY <1>5, <2>2, <2>3 DEF AdminDropLaggers
  <1>6. CASE Drop
    BY <1>6, StopLaggersInv DEF Drop, TypeOK, VotesAreFresh
  <1>7. CASE GameOverTimer
    BY <1>7 DEF GameOverTimer, world, lag, TypeOK, ScreenIsLaggers, VotesAreFresh,
                WaitsForSomebody, OthersKeepUp
  <1>8. CASE GameOver
    <2>1. /\ Running /\ Remove(players) /\ EndEvent /\ votes' = votes \ players
          /\ UNCHANGED <<finished, behind, sync_limit, lagging, pressed, answers, game_over_time>>
      BY <1>8 DEF GameOver
    <2>2. laggers' = {}
      BY <2>1 DEF Remove, Forget, ScreenIsLaggers
    <2> QED
      BY <2>1, <2>2, RemoveInv DEF TypeOK, VotesAreFresh
  <1>9. CASE End
    BY <1>9 DEF End, world, lag, TypeOK, ScreenIsLaggers, VotesAreFresh, WaitsForSomebody,
                OthersKeepUp, Running
  <1>10. CASE UNCHANGED vars
    BY <1>10 DEF vars, world, lag, ending, TypeOK, ScreenIsLaggers, VotesAreFresh,
                 WaitsForSomebody, OthersKeepUp
  <1> QED
    BY <1>1, <1>2, <1>3, <1>4, <1>5, <1>6, <1>7, <1>8, <1>9, <1>10 DEF Next

LEMMA InvHolds == Spec => []IInv
  BY InitInv, NextInv, PTL DEF Spec

(***************************************************************************)
(* The theorems                                                            *)
(***************************************************************************)

(* Types; no queued action outlives its player in send_all_actions, and     *)
(* nobody is further behind than the most tolerant limit allows.            *)
THEOREM TypeCorrect == Spec => []TypeOK
  <1>1. IInv => TypeOK
    BY DEF IInv
  <1> QED
    BY <1>1, InvHolds, PTL

(* What START_LAG, STOP_LAG and PLAYERLEAVE_OTHERS made the clients show is *)
(* what the actor's lagging flags say.                                      *)
THEOREM ScreenShowsLaggers == Spec => []ScreenIsLaggers
  <1>1. IInv => ScreenIsLaggers
    BY DEF IInv
  <1> QED
    BY <1>1, InvHolds, PTL

(* handle_drop_request counts only votes pressed on the screen that is up.  *)
THEOREM VotesCountOnce == Spec => []VotesAreFresh
  <1>1. IInv => VotesAreFresh
    BY DEF IInv
  <1> QED
    BY <1>1, InvHolds, PTL

(* check_loading_complete and the end of run: a loading screen waits for a  *)
(* player who is there, and a game without players is over and saved.       *)
THEOREM NobodyWaitsForNobody == Spec => []WaitsForSomebody
  <1>1. IInv => WaitsForSomebody
    BY DEF IInv
  <1> QED
    BY <1>1, InvHolds, PTL
=============================================================================
