------------------------------ MODULE BnetActor ------------------------------
(***************************************************************************)
(* The actor of one Battle.net server: its connection, its queue of        *)
(* outgoing packets behind flood control, the game it advertises and the   *)
(* one the server lists.  BotCore is here as the sender of commands: it    *)
(* has a lobby or not, and says so.                                        *)
(*                                                                         *)
(* Waits are not measured: a packet may leave, a refresh be due, a wait    *)
(* for the next connection be over at any time.  A server answers a logon  *)
(* packet by packet, in order, or the connection ends; what the packets    *)
(* hold, hashes and keys, is left out.                                     *)
(*                                                                         *)
(* A definition that directly precedes another and is used nowhere, such   *)
(* as OutKept before OutReset, is a faulty variant of it: with it in place *)
(* of the other, one of the properties below must fail.                    *)
(***************************************************************************)
EXTENDS Naturals, FiniteSets, Sequences

CONSTANTS
    MaxHosted,          \* bound on host_counter
    MaxUncreates,       \* bound: UncreateGames beyond one per game
    MaxChats,           \* bound: other commands that queue a packet
    MaxLosses           \* bound: connections lost or refused

ASSUME BnetAssumption == {MaxHosted, MaxUncreates, MaxChats, MaxLosses} \subseteq Nat

NoGame == 0             \* current_game, advertised: None

VARIABLES
    host_counter, lobby,        \* BotCore's host_counter and current_game
    uncreates, chats,           \* how many so far
    private,                    \* games whose game_state is GAME_PRIVATE
    unlistable,                 \* games whose STARTADVEX3 this realm's actor cannot build
    login_event,                \* BnetEvent::LoggedIn is on its way to BotCore
    cmds,                       \* BotCore's commands on their way
    conn,                       \* where run() is with the connection
    logged_in, advertised, out_packets,
    answers,                    \* the server's answers on their way
    listed, in_channel,         \* the server's: the game it lists, is the bot in a channel
    discarded,                  \* history: games of the commands thrown away
    losses

core == <<host_counter, lobby, uncreates, chats, private, unlistable>>
actor == <<conn, logged_in, advertised, out_packets>>
server == <<answers, listed, in_channel>>
vars == <<core, login_event, cmds, actor, server, discarded, losses>>

Games == 1..host_counter

Init ==
    /\ host_counter = 0 /\ lobby = NoGame /\ uncreates = 0 /\ chats = 0
    /\ private = {} /\ unlistable = {}
    /\ login_event = FALSE /\ cmds = <<>>
    /\ conn = "connecting" /\ logged_in = FALSE /\ advertised = NoGame /\ out_packets = <<>>
    /\ answers = <<>> /\ listed = NoGame /\ in_channel = FALSE
    /\ discarded = {} /\ losses = 0

(***************************************************************************)
(* BotCore                                                                 *)
(***************************************************************************)

Command(type, hc) == [type |-> type, hc |-> hc]

(* create_game: the announcement in the channel, then the game itself.  A   *)
(* map path and user name too long for the stat string go unnoticed here.   *)
Create(privately, listable) ==
    /\ lobby = NoGame /\ host_counter < MaxHosted
    /\ host_counter' = host_counter + 1 /\ lobby' = host_counter'
    /\ private' = IF privately THEN private \union {lobby'} ELSE private
    /\ unlistable' = IF listable THEN unlistable ELSE unlistable \union {lobby'}
    /\ cmds' = cmds \o <<Command("chat", NoGame), Command("create", lobby')>>
    /\ UNCHANGED <<uncreates, chats>>

CreateGame(privately, listable) ==
    /\ Create(privately, listable)
    /\ UNCHANGED <<login_event, actor, server, discarded, losses>>

(* The lobby is unhosted, starts, or is deleted; a game that starts after   *)
(* it was unhosted brings an UncreateGame with another lobby open.          *)
UncreateGame ==
    /\ \/ lobby # NoGame /\ lobby' = NoGame /\ UNCHANGED uncreates
       \/ uncreates < MaxUncreates /\ uncreates' = uncreates + 1 /\ UNCHANGED lobby
    /\ cmds' = Append(cmds, Command("uncreate", NoGame))
    /\ UNCHANGED <<host_counter, chats, private, unlistable, login_event, actor, server, discarded, losses>>

(* QueueChat, QueueWhisper, JoinChannel. *)
Chat ==
    /\ chats < MaxChats /\ chats' = chats + 1
    /\ cmds' = Append(cmds, Command("chat", NoGame))
    /\ UNCHANGED <<host_counter, lobby, uncreates, private, unlistable, login_event, actor,
                   server, discarded, losses>>

(* handle_bnet_event: autohost, if it is on, hosts when there is no lobby. *)
HandleLoggedIn ==
    /\ login_event /\ login_event' = FALSE
    /\ (\E listable \in BOOLEAN : Create(FALSE, listable)) \/ UNCHANGED <<core, cmds>>
    /\ UNCHANGED <<actor, server, discarded, losses>>

(***************************************************************************)
(* The connection                                                          *)
(***************************************************************************)

Wait == losses < MaxLosses /\ losses' = losses + 1 /\ conn' = "waiting"

ConnectFails ==
    /\ conn = "connecting" /\ Wait
    /\ UNCHANGED <<core, login_event, cmds, logged_in, advertised, out_packets, server, discarded>>

(* The protocol selector and AUTH_INFO are the first that is sent. *)
Connected ==
    /\ conn = "connecting" /\ conn' = "serving"
    /\ answers' = <<"auth_info">>
    /\ UNCHANGED <<core, login_event, cmds, logged_in, advertised, out_packets, listed,
                   in_channel, discarded, losses>>

(* The frame at the head of the connection has that id. *)
Frame(id) == conn = "serving" /\ answers # <<>> /\ Head(answers) = id

(* A good answer in the logon is answered by the next packet; a bad one     *)
(* ends the connection, see Disconnected.                                   *)
Logon(id, next) ==
    /\ Frame(id) /\ answers' = Append(Tail(answers), next)
    /\ UNCHANGED <<core, login_event, cmds, actor, listed, in_channel, discarded, losses>>

AuthInfo == Logon("auth_info", "auth_check")
AuthCheck == Logon("auth_check", "accountlogon")
AccountLogon == Logon("accountlogon", "logonproof")

(* Logged in; ENTERCHAT is sent past the queue. *)
LogonProof ==
    /\ Frame("logonproof") /\ answers' = Append(Tail(answers), "enterchat")
    /\ logged_in' = TRUE /\ login_event' = TRUE
    /\ UNCHANGED <<core, cmds, conn, advertised, out_packets, listed, in_channel, discarded,
                   losses>>

(* The answer to ENTERCHAT, to the first as to those after a game: the      *)
(* channel is joined.                                                       *)
EnterChat ==
    /\ Frame("enterchat") /\ answers' = Tail(answers)
    /\ in_channel' = TRUE
    /\ UNCHANGED <<core, login_event, cmds, actor, listed, discarded, losses>>

(* The end of the stream, an error, a send that fails, a logon refused.  A  *)
(* server lists no game of who is gone.                                     *)
Disconnected ==
    /\ conn = "serving" /\ Wait
    /\ answers' = <<>> /\ listed' = NoGame /\ in_channel' = FALSE
    /\ UNCHANGED <<core, login_event, cmds, logged_in, advertised, out_packets, discarded>>

(* wait_reconnect: commands that come meanwhile are thrown away. *)
DiscardCommand ==
    /\ conn = "waiting" /\ cmds # <<>>
    /\ cmds' = Tail(cmds)
    /\ discarded' = IF Head(cmds).type = "chat" THEN discarded
                    ELSE discarded \union {Head(cmds).hc}
    /\ UNCHANGED <<core, login_event, actor, server, losses>>

OutKept == out_packets

(* connect_and_serve starts over with what belongs to a connection. *)
OutReset == <<>>

WaitOver ==
    /\ conn = "waiting" /\ conn' = "connecting"
    /\ logged_in' = FALSE /\ out_packets' = OutReset
    /\ UNCHANGED <<core, login_event, cmds, advertised, server, discarded, losses>>

(***************************************************************************)
(* Commands and packets                                                    *)
(***************************************************************************)

Packet(id, hc) == [id |-> id, hc |-> hc]

\* The queue without its refreshes.
WithoutAdv(out) ==
    LET kept[i \in 0..Len(out)] ==
            IF i = 0 THEN <<>>
            ELSE IF out[i].id = "startadvex3" THEN kept[i - 1] ELSE Append(kept[i - 1], out[i])
    IN  kept[Len(out)]

IfLoggedIn(out) == out_packets' = IF logged_in THEN out ELSE out_packets

RefreshBehind(hc) == Append(out_packets, Packet("startadvex3", hc))

(* queue_game_refresh: the newest refresh takes the place of an older one;  *)
(* one that cannot be built does not.                                       *)
Refresh(hc) == IF hc \in unlistable THEN out_packets
               ELSE Append(WithoutAdv(out_packets), Packet("startadvex3", hc))

UncreateIfLoggedIn == IF logged_in THEN NoGame ELSE advertised

(* The game is forgotten also while nobody is logged in. *)
Uncreated == NoGame

HandleChat ==
    /\ Head(cmds).type = "chat"
    /\ IfLoggedIn(Append(out_packets, Packet("chatcommand", NoGame)))
    /\ UNCHANGED advertised

HandleCreateGame ==
    /\ Head(cmds).type = "create"
    /\ advertised' = Head(cmds).hc
    /\ IfLoggedIn(Refresh(Head(cmds).hc))

(* STOPADV, and back to the channel. *)
UncreateAndReturn == <<Packet("stopadv", NoGame), Packet("enterchat", NoGame)>>

HandleUncreateGame ==
    /\ Head(cmds).type = "uncreate"
    /\ advertised' = Uncreated
    /\ IfLoggedIn(WithoutAdv(out_packets) \o UncreateAndReturn)

HandleCommand ==
    /\ conn = "serving" /\ cmds # <<>>
    /\ cmds' = Tail(cmds)
    /\ HandleChat \/ HandleCreateGame \/ HandleUncreateGame
    /\ UNCHANGED <<core, login_event, conn, logged_in, server, discarded, losses>>

PrivateRefreshed == advertised # NoGame /\ advertised \in private

PublicRefreshed == advertised # NoGame /\ advertised \notin private

(* The three-second tick: a public game is refreshed. *)
RefreshTick ==
    /\ conn = "serving" /\ PublicRefreshed
    /\ IfLoggedIn(Refresh(advertised))
    /\ UNCHANGED <<core, login_event, cmds, conn, logged_in, advertised, server, discarded, losses>>

(* What the server lists once it has read the packets. *)
ListedAfter(packets) ==
    LET about == {i \in DOMAIN packets : packets[i].id \in {"startadvex3", "stopadv"}}
    IN  IF about = {} THEN listed
        ELSE packets[CHOOSE i \in about : \A j \in about : j <= i].hc

FlushOnePacket ==
    /\ conn = "serving" /\ out_packets # <<>>
    /\ out_packets' = Tail(out_packets)
    /\ listed' = ListedAfter(<<Head(out_packets)>>)
    /\ answers' = IF Head(out_packets).id = "enterchat" THEN Append(answers, "enterchat")
                  ELSE answers
    /\ in_channel' = (in_channel /\ Head(out_packets).id # "startadvex3")
    /\ UNCHANGED <<core, login_event, cmds, conn, logged_in, advertised, discarded, losses>>

HandleFrame == AuthInfo \/ AuthCheck \/ AccountLogon \/ LogonProof \/ EnterChat

Next ==
    \/ \E privately, listable \in BOOLEAN : CreateGame(privately, listable)
    \/ UncreateGame \/ Chat \/ HandleLoggedIn
    \/ ConnectFails \/ Connected \/ Disconnected \/ DiscardCommand \/ WaitOver
    \/ HandleFrame
    \/ HandleCommand \/ RefreshTick \/ FlushOnePacket

Spec == Init /\ [][Next]_vars

(* The actor's select! serves every branch again and again, and the server  *)
(* answers; connections fail, are lost or refused, only so often.           *)
FairSpec ==
    /\ Spec /\ WF_vars(HandleCommand) /\ WF_vars(RefreshTick) /\ WF_vars(FlushOnePacket)
    /\ WF_vars(Connected) /\ WF_vars(HandleFrame) /\ WF_vars(WaitOver)

(***************************************************************************)
(* Properties                                                              *)
(***************************************************************************)

Refreshes == {i \in DOMAIN out_packets : out_packets[i].id = "startadvex3"}

(* Types; of all the packets that wait for flood control at most one is a   *)
(* refresh, whatever the ticks and commands; and nothing comes between the  *)
(* packets of a logon.                                                      *)
TypeOK ==
    /\ host_counter \in 0..MaxHosted /\ {lobby, advertised, listed} \subseteq 0..host_counter
    /\ uncreates \in 0..MaxUncreates /\ chats \in 0..MaxChats /\ losses \in 0..MaxLosses
    /\ {private, unlistable} \subseteq SUBSET Games /\ discarded \subseteq 0..host_counter
    /\ {login_event, logged_in, in_channel} \subseteq BOOLEAN
    /\ answers \in Seq({"auth_info", "auth_check", "accountlogon", "logonproof", "enterchat"})
    /\ conn \in {"connecting", "serving", "waiting"}
    /\ cmds \in Seq([type : {"chat", "create", "uncreate"}, hc : 0..host_counter])
    /\ out_packets \in Seq([id : {"chatcommand", "startadvex3", "stopadv", "enterchat"},
                            hc : 0..host_counter])
    /\ Cardinality(Refreshes) <= 1
    /\ ~logged_in => out_packets = <<>> /\ Len(answers) <= 1

(* What the actor will advertise when it has done all it was told to: what  *)
(* the last command about a game says, or if there is none what it does.    *)
LastWord(i) ==
    /\ i = 0 \/ cmds[i].type # "chat"
    /\ \A j \in i + 1..Len(cmds) : cmds[j].type = "chat"
Word(i) == IF i = 0 THEN advertised ELSE cmds[i].hc
Told == Word(CHOOSE i \in 0..Len(cmds) : LastWord(i))

(* An actor that threw no command away goes on to advertise no game but the *)
(* lobby, over all reconnects.                                              *)
OnlyLobbyAdvertised == discarded = {} => Told \in {NoGame, lobby}

(* What the server's list comes to when the queue is flushed is the game    *)
(* the actor advertises, or nothing, unless that game cannot be listed; and *)
(* without a game to advertise the bot is in its channel or on its way      *)
(* there.                                                                   *)
Returning == \E i \in DOMAIN out_packets : out_packets[i].id = "enterchat"
ListingFollows ==
    conn = "serving" =>
        /\ ListedAfter(out_packets) \in {NoGame, advertised} \/ advertised \in unlistable
        /\ logged_in /\ advertised = NoGame =>
               in_channel \/ Returning \/ "enterchat" \in {answers[i] : i \in DOMAIN answers}

(* A public game that can be listed and stays advertised comes to be listed, *)
(* however often its refresh is queued anew behind other packets and         *)
(* connections break.                                                        *)
PublicGameListed ==
    \A hc \in 1..MaxHosted :
        advertised = hc /\ hc \notin private \union unlistable ~> listed = hc \/ advertised # hc

(* wait_reconnect: "Discard other commands during disconnection (BotCore    *)
(* re-drives them after reconnect)": once the login has been handled, a     *)
(* lobby whose creation was thrown away is advertised after all.            *)
CreatesRedriven ==
    conn = "serving" /\ logged_in /\ ~login_event /\ lobby \in discarded \ {NoGame}
        => Told = lobby
=============================================================================
