----------------------------- MODULE ActionStream -----------------------------
(***************************************************************************)
(* The action stream of a started game: the batches of the beat, the empty *)
(* batches that make up for GProxy++, the leaves among them, the replay    *)
(* that records them, and the desync detection that compares what the      *)
(* players' games computed from them.                                      *)
(*                                                                         *)
(* A client's game is deterministic: its checksum after a beat stands for  *)
(* everything it was handed up to there, unless it diverged by a fault of  *)
(* its own.  So a checksum is the stream's prefix and the divergence.      *)
(* GProxySession shows that a player's two streams are reliable across     *)
(* holds and reconnects: here a player's link delivers everything in       *)
(* order, and a player who is held, stalled or slow plays late.            *)
(*                                                                         *)
(* A definition used nowhere is a faulty variant of the next that is: with *)
(* it in place of the other, one of the properties below must fail.        *)
(***************************************************************************)
EXTENDS Integers, FiniteSets, SequencesExt

CONSTANTS
    Pids,           \* the players seated when the game started
    GProxy,         \* those who sent GPSS_INIT (LobbyPlayer.gproxy)
    EmptyActions,   \* gproxy_empty_actions
    ChunkBytes,     \* how much fits a batch's packet (1452 bytes)
    Lengths,        \* what an action takes of it
    SyncLimit,      \* effective_sync_limit
    MaxBeats,       \* bound: sync_counter
    MaxActions,     \* bound: actions the players queue
    MaxShows,       \* bound: re-shows of lag screens
    MaxSpare,       \* bound: keepalives sent while the game loads
    MaxDiverged     \* bound: clients that diverge

ASSUME StreamAssumption ==
    /\ IsFiniteSet(Pids) /\ GProxy \subseteq Pids
    /\ {EmptyActions, ChunkBytes, SyncLimit} \subseteq Nat
    /\ Lengths \subseteq Nat
    /\ {MaxBeats, MaxActions, MaxShows, MaxSpare, MaxDiverged} \subseteq Nat

VARIABLES
    players,        \* keys of the players map
    finished,       \* finished_loading
    game_loaded,
    actions,        \* the queued actions
    lagging,        \* GameActor.lagging
    laggers,        \* LobbyPlayer.lagging
    sync_counter,   \* beats sent
    counter,        \* LobbyPlayer.sync_counter
    checksums,      \* LobbyPlayer.checksums
    checksum_turn,  \* turns compared
    comparing,      \* check_desync is in its loop
    loading_blocks, \* ReplayRecorder.loading_blocks
    compiled_blocks,\* ReplayRecorder.compiled_blocks
    handed,         \* what each player's game is handed, in order
    played,         \* beats each player's game has played
    state,          \* 0, or the state a player's game diverged to ...
    since,          \* ... and the first beat with it
    dropped,        \* history: somebody was dropped for a desync
    faults,         \* history and bound: games that diverged so far
    acted,          \* bound: actions so far
    shows           \* bound: re-shows so far

loading == <<finished, game_loaded>>
lag == <<lagging, laggers>>
sync == <<sync_counter, counter, checksums, checksum_turn, comparing>>
stream == <<loading_blocks, compiled_blocks, handed>>
games == <<played, state, since>>
vars == <<players, loading, actions, lag, sync, stream, games, dropped, faults, acted, shows>>

Init ==
    /\ players = Pids /\ finished = {} /\ game_loaded = FALSE
    /\ actions = <<>> /\ lagging = FALSE /\ laggers = {}
    /\ sync_counter = 0 /\ counter = [p \in Pids |-> 0]
    /\ checksums = [p \in Pids |-> <<>>] /\ checksum_turn = 0 /\ comparing = FALSE
    /\ loading_blocks = <<>> /\ compiled_blocks = <<>>
    /\ handed = [p \in Pids |-> <<>>]
    /\ played = [p \in Pids |-> 0]
    /\ state = [p \in Pids |-> 0] /\ since = [p \in Pids |-> 0]
    /\ dropped = FALSE /\ faults = 0 /\ acted = 0 /\ shows = 0

(***************************************************************************)
(* The stream                                                              *)
(***************************************************************************)

\* INCOMING_ACTION2, INCOMING_ACTION, and PLAYERLEAVE_OTHERS; in the replay
\* TimeSlot2, TimeSlot and Leave.  Only a beat is answered by a keepalive.
Part(acts) == [kind |-> "part", acts |-> acts]
Beat(acts) == [kind |-> "beat", acts |-> acts]
Empty == [kind |-> "empty", acts |-> <<>>]
Left(p) == [kind |-> "left", acts |-> <<p>>]

\* The empty batches of one beat.
Reserve == [i \in 1..EmptyActions |-> Empty]

\* Somebody left in the game is behind GProxy++.
UsingGproxy == players \intersect GProxy # {}

HostReserveNone(p) == <<>>

\* What the host sends a player ahead of a beat, and what a player's own
\* GProxy++ inserts there.
HostReserve(p) == IF UsingGproxy /\ p \notin GProxy THEN Reserve ELSE <<>>
GProxyReserve(p) == IF p \in GProxy THEN Reserve ELSE <<>>

ReplayReserveOnce == IF UsingGproxy THEN <<Empty>> ELSE <<>>

\* The replay is one more viewer of the stream.
ReplayReserve == IF UsingGproxy THEN Reserve ELSE <<>>

(* Packets for everybody, the reserve ahead of them. *)
Hand(packets) ==
    handed' = [p \in Pids |-> IF p \in players
                              THEN handed[p] \o GProxyReserve(p) \o HostReserve(p) \o packets
                              ELSE handed[p]]

Bytes(acts) ==
    LET sum[i \in 0..Len(acts)] == IF i = 0 THEN 0 ELSE sum[i - 1] + acts[i].len
    IN  sum[Len(acts)]

\* An action goes into the piece at hand if it fits, or else into a new one.
Fits(acts, a) == acts = <<>> \/ Bytes(acts) + a.len <= ChunkBytes
Packed(pieces, a) ==
    IF Fits(Last(pieces), a) THEN Append(Front(pieces), Append(Last(pieces), a))
    ELSE Append(pieces, <<a>>)

(* The queue in pieces of at most ChunkBytes, at least one of them. *)
Chunks ==
    LET cut[i \in 0..Len(actions)] ==
            IF i = 0 THEN << <<>> >> ELSE Packed(cut[i - 1], actions[i])
    IN  cut[Len(actions)]

(* All but the last piece are parts of the beat the last one is. *)
BatchPackets ==
    [i \in DOMAIN Chunks |-> IF i = Len(Chunks) THEN Beat(Chunks[i]) ELSE Part(Chunks[i])]

(***************************************************************************)
(* Players leaving                                                         *)
(***************************************************************************)

LevelKeepsSpares(queues) == queues

(* The queues start level: whatever came while the game loaded is thrown    *)
(* away when everybody left has loaded.                                     *)
Level(queues) == [p \in Pids |-> <<>>]

CheckLoadingComplete(queues) ==
    LET complete == ~game_loaded /\ players' # {} /\ players' \subseteq finished'
    IN  /\ game_loaded' = (game_loaded \/ complete)
        /\ checksums' = IF complete THEN Level(queues) ELSE queues

PurgeNothing(S) == actions

\* The queue without their actions.
PurgeActions(S) ==
    LET kept[i \in 0..Len(actions)] ==
            IF i = 0 THEN <<>>
            ELSE IF actions[i].pid \in S THEN kept[i - 1] ELSE Append(kept[i - 1], actions[i])
    IN  kept[Len(actions)]

(* The replay keeps who left while the game loaded apart; its data blocks   *)
(* come after them.                                                         *)
RecordLeaves(leaves) ==
    IF game_loaded
    THEN compiled_blocks' = compiled_blocks \o leaves /\ UNCHANGED loading_blocks
    ELSE loading_blocks' = loading_blocks \o leaves /\ UNCHANGED compiled_blocks

(* remove_player for each of gone, in that order: those who stay are told,  *)
(* and the replay.                                                          *)
RemovePlayers(gone) ==
    LET leaves == [i \in DOMAIN gone |-> Left(gone[i])]
        stay == players \ ToSet(gone)
    IN  /\ players' = stay /\ laggers' = laggers \intersect stay
        /\ actions' = PurgeActions(ToSet(gone))
        /\ RecordLeaves(leaves)
        /\ handed' = [p \in Pids |-> IF p \in stay THEN handed[p] \o leaves ELSE <<>>]
        /\ finished' = finished \intersect stay
        /\ counter' = [p \in Pids |-> IF p \in stay THEN counter[p] ELSE 0]
        /\ played' = [p \in Pids |-> IF p \in stay THEN played[p] ELSE 0]
        /\ state' = [p \in Pids |-> IF p \in stay THEN state[p] ELSE 0]
        /\ since' = [p \in Pids |-> IF p \in stay THEN since[p] ELSE 0]
        /\ UNCHANGED <<lagging, sync_counter, faults, acted, shows>>

(* build: who left while the game loaded comes before the data blocks.      *)
Replay == loading_blocks \o compiled_blocks

Kept(queues) == [p \in Pids |-> IF p \in players' THEN queues[p] ELSE <<>>]

(* LEAVEGAME, a kick, a connection lost for good.                           *)
Leave(p) ==
    /\ ~comparing /\ p \in players
    /\ RemovePlayers(<<p>>)
    /\ CheckLoadingComplete(Kept(checksums))
    /\ UNCHANGED <<checksum_turn, comparing, dropped>>

(***************************************************************************)
(* Loading                                                                 *)
(***************************************************************************)

(* A client may answer before the game has begun, at its own pace.          *)
SpareKeepalive(p) ==
    /\ ~game_loaded /\ p \in players /\ FoldFunction(+, 0, counter) < MaxSpare
    /\ counter' = [counter EXCEPT ![p] = @ + 1]
    /\ checksums' = [checksums EXCEPT ![p] = Append(@, [stream |-> <<>>, state |-> 0])]
    /\ UNCHANGED <<players, loading, actions, lag, sync_counter, checksum_turn, comparing,
                   stream, games, dropped, faults, acted, shows>>

(* handle_player_loaded *)
PlayerLoaded(p) ==
    /\ ~game_loaded /\ p \in players \ finished
    /\ finished' = finished \union {p} /\ players' = players
    /\ CheckLoadingComplete([checksums EXCEPT ![p] = <<>>])
    /\ UNCHANGED <<actions, lag, sync_counter, counter, checksum_turn, comparing, stream, games,
                   dropped, faults, acted, shows>>

(***************************************************************************)
(* The beat                                                                *)
(***************************************************************************)

(* OUTGOING_ACTION *)
OutgoingAction(p, len) ==
    /\ ~comparing /\ game_loaded /\ p \in players
    /\ acted < MaxActions /\ acted' = acted + 1
    /\ actions' = Append(actions, [pid |-> p, len |-> len])
    /\ UNCHANGED <<players, loading, lag, sync, stream, games, dropped, faults, shows>>

SendAllActions ==
    /\ Hand(BatchPackets)
    /\ compiled_blocks' = compiled_blocks \o ReplayReserve \o BatchPackets
    /\ sync_counter' = sync_counter + 1 /\ actions' = <<>>
    /\ UNCHANGED <<loading_blocks, shows>>

(* The lag screen comes down and goes up again around an empty batch.       *)
ShowLagScreenAgain ==
    /\ shows < MaxShows /\ shows' = shows + 1
    /\ Hand(<<Empty>>)
    /\ compiled_blocks' = compiled_blocks \o ReplayReserve \o <<Empty>>
    /\ UNCHANGED <<loading_blocks, sync_counter, actions>>

Behind(p) == sync_counter - counter[p]
RecoverLimit == IF SyncLimit \div 2 > 1 THEN SyncLimit \div 2 ELSE 1

(* game_tick: the lag screen opens, or stays, or its last lagger has caught *)
(* up; without it the batch goes out.  The players this beat removes are    *)
(* Leaves just before it.                                                   *)
GameTick ==
    /\ ~comparing /\ game_loaded /\ players # {} /\ sync_counter < MaxBeats
    /\ laggers' = IF lagging THEN {p \in laggers : Behind(p) >= RecoverLimit}
                              ELSE {p \in players : Behind(p) > SyncLimit}
    /\ lagging' = (laggers' # {})
    /\ \/ laggers' = {} /\ SendAllActions
       \/ laggers' # {} /\ lagging /\ ShowLagScreenAgain
       \/ laggers' # {} /\ UNCHANGED <<actions, sync_counter, stream, shows>>
    /\ UNCHANGED <<players, loading, counter, checksums, checksum_turn, comparing, games, dropped,
                   faults, acted>>

(***************************************************************************)
(* Desync detection                                                        *)
(***************************************************************************)

\* Where the t-th beat is in a stream.
BeatAt(s, t) ==
    CHOOSE i \in DOMAIN s :
        s[i].kind = "beat" /\ Cardinality({j \in 1..i : s[j].kind = "beat"}) = t

\* The checksum of a player's game after the t-th beat.
Checksum(p, t) ==
    [stream |-> SubSeq(handed[p], 1, BeatAt(handed[p], t)),
     state |-> IF state[p] # 0 /\ t >= since[p] THEN state[p] ELSE 0]

\* Every player has a checksum waiting.
Ready(ps, queues) == ps # {} /\ \A p \in ps : queues[p] # <<>>

\* A player's game parts company with the others at the next beat, by a fault
\* of its own.
Diverge(p, s) ==
    /\ state[p] = 0 /\ faults < MaxDiverged /\ faults' = faults + 1
    /\ state' = [state EXCEPT ![p] = s]
    /\ since' = [since EXCEPT ![p] = played[p] + 1]

(* A client plays its next beat and answers it with its checksum, which is  *)
(* queued and sets off the comparison.                                      *)
Keepalive(p) ==
    /\ ~comparing /\ game_loaded /\ p \in players
    /\ played[p] < Cardinality({i \in DOMAIN handed[p] : handed[p][i].kind = "beat"})
    /\ UNCHANGED <<state, since, faults>> \/ \E s \in 1..MaxDiverged : Diverge(p, s)
    /\ played' = [played EXCEPT ![p] = @ + 1]
    /\ counter' = [counter EXCEPT ![p] = @ + 1]
    /\ UNCHANGED <<players, loading, actions, lag, sync_counter, checksum_turn, stream, dropped,
                   acted, shows>>
    /\ checksums' = [checksums EXCEPT ![p] = Append(@, Checksum(p, played[p])')]
    /\ comparing' = Ready(players, checksums')

SameState(p) == {q \in players : Head(checksums[q]) = Head(checksums[p])}

VictimsOfSmallest ==
    {p \in players : \E q \in players : Cardinality(SameState(q)) < Cardinality(SameState(p))}

(* Everyone outside the largest group, or everyone if no group is largest.  *)
Victims ==
    LET largest == {p \in players : \A q \in players :
                        Cardinality(SameState(q)) <= Cardinality(SameState(p))}
    IN  IF \E p \in largest : SameState(p) = largest THEN players \ largest ELSE players

(* One round of check_desync's loop: nothing else happens until the loop    *)
(* ends.                                                                    *)
CheckDesync(gone) ==
    /\ comparing /\ ToSet(gone) = Victims /\ Len(gone) = Cardinality(Victims)
    /\ checksum_turn' = checksum_turn + 1
    /\ dropped' = (dropped \/ Victims # {})
    /\ RemovePlayers(gone)
    /\ checksums' = Kept([p \in Pids |-> IF p \in players THEN Tail(checksums[p]) ELSE <<>>])
    /\ comparing' = Ready(players', checksums')
    /\ UNCHANGED game_loaded

Next ==
    \/ \E p \in Pids : \/ Leave(p) \/ SpareKeepalive(p) \/ PlayerLoaded(p) \/ Keepalive(p)
                       \/ \E len \in Lengths : OutgoingAction(p, len)
    \/ GameTick
    \/ \E gone \in BoundedSeq(Pids, Cardinality(Pids)) : CheckDesync(gone)

Spec == Init /\ [][Next]_vars

(***************************************************************************)
(* Properties                                                              *)
(***************************************************************************)

(* Types; and no queued action is of a player who is gone.                  *)
TypeOK ==
    /\ players \subseteq Pids /\ finished \subseteq Pids /\ laggers \subseteq players
    /\ {game_loaded, lagging, comparing} \subseteq BOOLEAN
    /\ actions \in Seq([pid : players, len : Lengths])
    /\ counter \in [Pids -> Nat] /\ played \in [Pids -> Nat]
    /\ sync_counter \in Nat /\ checksum_turn \in Nat

(* Every client and the replay are on the same stream: whoever is still in  *)
(* the game is handed, through GProxy++ or not, exactly the batches and     *)
(* leaves the replay records, in its order.                                 *)
SameStream == \A p \in players : handed[p] = Replay

(* The queues are aligned: position n of every player's queue is that       *)
(* player's view of the n-th turn still to be compared.                     *)
QueuesAligned ==
    game_loaded => \A p \in players :
        checksums[p] = [i \in 1..(played[p] - checksum_turn) |-> Checksum(p, checksum_turn + i)]

(* Nobody is dropped for a desync unless some client's game did diverge:    *)
(* what the host sends never makes one up.  And those who play on agreed on *)
(* every turn that was compared.                                            *)
VerdictsFair ==
    /\ dropped => faults > 0
    /\ \A p, q \in players : \A t \in 1..checksum_turn : Checksum(p, t) = Checksum(q, t)

(* Nobody in the same state as more than half the players is dropped.       *)
MajorityStays ==
    [][\A p \in players :
          comparing /\ 2 * Cardinality({q \in players : Checksum(q, checksum_turn + 1)
                                                          = Checksum(p, checksum_turn + 1)})
                         > Cardinality(players)
          => p \in players']_vars
=============================================================================
