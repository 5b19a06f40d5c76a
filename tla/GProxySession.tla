---------------------------- MODULE GProxySession ----------------------------
(***************************************************************************)
(* One player's session with the game actor, over as many TCP connections  *)
(* as GProxy++ needs.  The game actor handles one event at a time; an      *)
(* event may note the player in pending_drop, and process_pending_drops    *)
(* runs when the event is over, before the next one is taken.              *)
(*                                                                         *)
(* A W3GS packet is its number in its direction's stream.  h2c[c] holds    *)
(* what the host queued on connection c and the client has not read (the   *)
(* write task's queue and the wire); c2h[c] what the client wrote and the  *)
(* actor has not taken.  The client program is not part of this repository *)
(* and is modelled from the packets the host expects of it.                *)
(*                                                                         *)
(* A definition that directly precedes another and is used nowhere, such   *)
(* as KeepIfConnected before Keep, is a faulty variant of it: with it in   *)
(* place of the other, one of the properties below must fail.              *)
(***************************************************************************)
EXTENDS Naturals, Sequences

CONSTANTS
    ReconnectEnabled,   \* cfg.reconnect_enabled
    PreSent,            \* packets handle_join sends (pre_sent)
    LoadLines,          \* chat lines of check_loading_complete
    EventSends,         \* how many packets one event may send this player
    BufferMax,          \* GPROXY_BUFFER_MAX_BYTES, in packets
    QueueMax,           \* WRITE_QUEUE_MAX_BYTES, in packets
    SmallMayFit,        \* may a queue take a packet that has just refused one
    MaxSent,            \* bound: packets sent to the player
    MaxClient,          \* bound: packets sent by the client
    MaxConns,           \* bound: connections
    MaxFaults           \* bound: connections lost, or given up by the client

ASSUME SessionAssumption ==
    /\ {ReconnectEnabled, SmallMayFit} \subseteq BOOLEAN
    /\ {PreSent, LoadLines, BufferMax, QueueMax, MaxSent, MaxClient, MaxFaults} \subseteq Nat
    /\ EventSends \subseteq Nat
    /\ MaxConns \in Nat \ {0}
    /\ PreSent <= MaxSent /\ PreSent <= QueueMax
    /\ BufferMax < QueueMax

VARIABLES
    seated,              \* the player is in the players map
    game_loaded,
    gproxy,
    gproxy_disconnected,
    total_sent,
    total_received,
    gproxy_buffer,
    conn_id,             \* LobbyPlayer.conn_id
    conn_pid,            \* the connections that map to this player
    pending_drop,        \* this player is in GameActor.pending_drop
    stage,               \* "event", or "drops" while process_pending_drops is due
    loaded_at,           \* history: total_sent when the game loaded
    refused,             \* history: packets this connection's full queue refused
    forgone,             \* history: packets nobody owes the client any more
    host_got,            \* history: client packets the actor counted
    open,                \* connections whose TCP still works
    h2c, c2h,            \* connection -> messages in flight
    dials,               \* GPS_RECONNECT requests on their way through BotCore
    faults,
    ccon, cstate,        \* the client's connection, and what it waits for there
    ckey,                \* the client was told it may reconnect (GPSS_INIT)
    got,                 \* packets the client handed to its game
    c_sent, c_trim,      \* the client resends c_trim+1..c_sent
    c_acked              \* last GPS_ACK the client sent

player == <<seated, game_loaded, gproxy, gproxy_disconnected, loaded_at>>
hostIn == <<total_received, host_got>>
hostOut == <<total_sent, gproxy_buffer, refused, forgone>>
routing == <<conn_id, conn_pid>>
actor == <<pending_drop, stage>>
net == <<open, h2c, c2h, dials, faults>>
client == <<ccon, cstate, ckey, got, c_sent, c_trim, c_acked>>
vars == <<player, hostIn, hostOut, routing, actor, net, client>>

Conns == 1..MaxConns
W3gs(n) == [t |-> "W3GS", n |-> n]
Gps(t, n) == [t |-> t, n |-> n]
Closed == Gps("CLOSED", 0)
Message == [t : {"W3GS", "INIT", "ACK", "RECONNECT", "REJECT", "CLOSED"}, n : Nat]
Data(s) == [i \in 1..Len(s) |-> W3gs(s[i])]
Fresh(k) == [i \in 1..k |-> total_sent + i]
Prefix(s, n) == SubSeq(s, 1, n)
Ready == stage = "event"

(* Chat lines stop at the bound on total_sent; everything else goes on. *)
Notices(k) == IF total_sent + k <= MaxSent THEN k ELSE 0

Init ==
    /\ seated = TRUE /\ game_loaded = FALSE
    /\ gproxy = FALSE /\ gproxy_disconnected = FALSE
    /\ total_sent = PreSent /\ gproxy_buffer = <<>> /\ refused = {} /\ forgone = {}
    /\ total_received = 1 /\ host_got = <<1>>         \* REQJOIN was counted
    /\ conn_id = 1 /\ conn_pid = {1}
    /\ pending_drop = FALSE /\ stage = "event" /\ loaded_at = 0
    /\ open = {1} /\ dials = {} /\ faults = 0
    /\ h2c = [c \in Conns |-> IF c = 1 THEN Data([i \in 1..PreSent |-> i]) ELSE <<>>]
    /\ \E first \in {<<>>, <<Gps("INIT", 0)>>} :      \* plain client, or GProxy++
          c2h = [c \in Conns |-> IF c = 1 THEN first ELSE <<>>]
    /\ ccon = 1 /\ cstate = "up" /\ ckey = FALSE /\ got = <<>>
    /\ c_sent = 1 /\ c_trim = 0 /\ c_acked = 0

(***************************************************************************)
(* Sending                                                                 *)
(***************************************************************************)

RoomForOneMore(c) ==
    IF Len(h2c[c]) > QueueMax \/ (pending_drop /\ ~SmallMayFit) THEN 0
    ELSE QueueMax + 1 - Len(h2c[c])

(* How many messages the write queue of c takes. *)
Room(c) ==
    IF Len(h2c[c]) >= QueueMax \/ (pending_drop /\ ~SmallMayFit) THEN 0
    ELSE QueueMax - Len(h2c[c])

Packets(msgs, i, j) == {msgs[x].n : x \in {y \in i..j : msgs[y].t = "W3GS"}}

(* Of an event's messages a queue takes those it has room for and those     *)
(* from the j-th on; what it refused is forgone once it takes a later one,  *)
(* for the client reads that one in its place.                              *)
Taken(msgs, room, j) ==
    Prefix(msgs, IF Len(msgs) <= room THEN Len(msgs) ELSE room) \o SubSeq(msgs, j, Len(msgs))
Refuse(msgs, room, j) ==
    /\ refused' = refused \union Packets(msgs, room + 1, j - 1)
    /\ forgone' = forgone \union (IF j <= Len(msgs) THEN refused'
                                  ELSE IF room > 0 /\ msgs # <<>> THEN refused ELSE {})

(* ConnHandle::try_send for each message of an event in turn.  A full queue *)
(* refuses.  The limit is one of bytes and the write task runs beside the   *)
(* actor: those from the j-th on can be taken, being smaller or there being *)
(* room again, although earlier ones were refused.  On a dead connection    *)
(* the queue takes messages until the write task has noticed.               *)
Push(c, msgs) ==
    LET k == Len(msgs)
        room == Room(c)
        again == IF k <= room THEN {k + 1}
                 ELSE IF SmallMayFit THEN room + 2 .. k + 1 ELSE {k + 1}
    IN  IF c \in open
        THEN /\ \E j \in again :
                   /\ h2c' = [h2c EXCEPT ![c] = @ \o Taken(msgs, room, j)]
                   /\ Refuse(msgs, room, j)
             /\ pending_drop' = (pending_drop \/ k > room)
        ELSE UNCHANGED <<h2c, refused, forgone>> /\ pending_drop' \in {pending_drop, TRUE}

KeepIfConnected(k, loaded) ==
    gproxy_buffer' = IF gproxy /\ loaded /\ ~gproxy_disconnected
                     THEN gproxy_buffer \o Fresh(k) ELSE gproxy_buffer

(* Every packet sent once the game is loaded is kept for a replay. *)
Keep(k, loaded) ==
    gproxy_buffer' = IF gproxy /\ loaded THEN gproxy_buffer \o Fresh(k) ELSE gproxy_buffer

(* send_to_pid, k times in one event: every packet is numbered and kept,    *)
(* and tried unless the player is held.                                     *)
SendToPid(k, loaded) ==
    /\ total_sent' = total_sent + k
    /\ Keep(k, loaded)
    /\ IF gproxy_disconnected THEN UNCHANGED <<h2c, pending_drop, refused, forgone>>
       ELSE Push(conn_id, Data(Fresh(k)))

(* The main loop: process_pending_drops is next if anybody was noted. *)
EndEvent == stage' = IF pending_drop' THEN "drops" ELSE "event"

TrimGproxyBufferPast(last) ==
    LET already == total_sent - Len(gproxy_buffer)
        n == IF last < already THEN 0
             ELSE IF last - already + 1 > Len(gproxy_buffer) THEN Len(gproxy_buffer)
             ELSE last - already + 1
    IN  SubSeq(gproxy_buffer, n + 1, Len(gproxy_buffer))

(* trim_gproxy_buffer: drop what the client says it has from the front. *)
TrimGproxyBuffer(last) ==
    LET already == total_sent - Len(gproxy_buffer)
        n == IF last <= already THEN 0
             ELSE IF last - already > Len(gproxy_buffer) THEN Len(gproxy_buffer)
             ELSE last - already
    IN  SubSeq(gproxy_buffer, n + 1, Len(gproxy_buffer))

(***************************************************************************)
(* Events of the game actor                                                *)
(***************************************************************************)

(* Any event that sends this player packets: a beat, a relayed chat, ...    *)
Broadcast ==
    /\ Ready /\ seated
    /\ \E k \in EventSends : total_sent + k <= MaxSent /\ SendToPid(k, game_loaded)
    /\ EndEvent
    /\ UNCHANGED <<seated, game_loaded, gproxy, gproxy_disconnected, loaded_at,
                   hostIn, routing, open, c2h, dials, faults, client>>

(* Another player is dropped while pending_drop is being processed: the     *)
(* announcement goes out after this player's own entry was taken, so a      *)
(* refusal here stays noted until the next event is over.                   *)
OtherPlayerDropped ==
    /\ Ready /\ seated /\ total_sent < MaxSent
    /\ SendToPid(1, game_loaded)
    /\ UNCHANGED <<stage, seated, game_loaded, gproxy, gproxy_disconnected, loaded_at,
                   hostIn, routing, open, c2h, dials, faults, client>>

(* An event that sends this player nothing still ends with the drops. *)
OtherEvent ==
    /\ Ready /\ pending_drop
    /\ UNCHANGED pending_drop /\ EndEvent
    /\ UNCHANGED <<player, hostIn, hostOut, routing, net, client>>

(* check_loading_complete, once this client's GAMELOADED_SELF (its second   *)
(* packet) and everybody else's are in.                                     *)
CheckLoadingComplete ==
    /\ Ready /\ seated /\ ~game_loaded /\ total_received >= 2
    /\ game_loaded' = TRUE
    /\ loaded_at' = total_sent
    /\ SendToPid(Notices(LoadLines), TRUE)
    /\ EndEvent
    /\ UNCHANGED <<seated, gproxy, gproxy_disconnected, hostIn, routing,
                   open, c2h, dials, faults, client>>

(* The five-second ping: a counted packet, then a GPSS_ACK that is not and  *)
(* whose refusal nobody notes.                                              *)
PingTick ==
    LET acks == IF gproxy /\ ~gproxy_disconnected /\ conn_id \in open
                   /\ Len(h2c[conn_id]) + 2 <= QueueMax
                THEN <<Gps("ACK", total_received)>> ELSE <<>>
    IN  /\ Ready /\ seated /\ total_sent < MaxSent
        /\ total_sent' = total_sent + 1
        /\ Keep(1, game_loaded)
        /\ IF gproxy_disconnected THEN UNCHANGED <<h2c, pending_drop, refused, forgone>>
           ELSE Push(conn_id, Data(Fresh(1)) \o acks)
        /\ EndEvent
        /\ UNCHANGED <<seated, game_loaded, gproxy, gproxy_disconnected, loaded_at,
                       hostIn, routing, open, c2h, dials, faults, client>>

Take(c) == c2h' = [c2h EXCEPT ![c] = Tail(@)]
Heads(c, t) == c2h[c] # <<>> /\ Head(c2h[c]).t = t

(* The connection is the player's, as far as conn_pid knows. *)
Mapped(c) == seated /\ c \in conn_pid

(* handle_player_frame: only W3GS packets are counted. *)
HandlePlayerFrame(c) ==
    /\ Ready /\ Mapped(c) /\ Heads(c, "W3GS")
    /\ Take(c)
    /\ total_received' = total_received + 1
    /\ host_got' = Append(host_got, Head(c2h[c]).n)
    /\ UNCHANGED pending_drop /\ EndEvent
    /\ UNCHANGED <<player, hostOut, routing, open, h2c, dials, faults, client>>

(* handle_gps_frame, GPS_INIT: GPSS_INIT is sent past send_to_pid. *)
HandleGpsInit(c) ==
    /\ Ready /\ Mapped(c) /\ Heads(c, "INIT")
    /\ Take(c)
    /\ gproxy' = (gproxy \/ ReconnectEnabled)
    /\ h2c' = IF ReconnectEnabled /\ c \in open /\ Len(h2c[c]) < QueueMax
              THEN [h2c EXCEPT ![c] = Append(@, Gps("INIT", 0))] ELSE h2c
    /\ UNCHANGED pending_drop /\ EndEvent
    /\ UNCHANGED <<seated, game_loaded, gproxy_disconnected, loaded_at, hostIn, hostOut,
                   routing, open, dials, faults, client>>

(* handle_gps_frame, GPS_ACK *)
HandleGpsAck(c) ==
    /\ Ready /\ Mapped(c) /\ Heads(c, "ACK")
    /\ Take(c)
    /\ gproxy_buffer' = TrimGproxyBuffer(Head(c2h[c]).n)
    /\ UNCHANGED pending_drop /\ EndEvent
    /\ UNCHANGED <<player, hostIn, total_sent, refused, forgone, routing, open, h2c, dials,
                   faults, client>>

(* A frame or a close of a connection that maps to nobody any more. *)
IgnoreUnmapped(c) ==
    /\ Ready /\ ~Mapped(c) /\ c2h[c] # <<>>
    /\ Take(c)
    /\ UNCHANGED pending_drop /\ EndEvent
    /\ UNCHANGED <<player, hostIn, hostOut, routing, open, h2c, dials, faults, client>>

AnnounceHoldUnbuffered ==
    /\ total_sent' = total_sent + Notices(1)
    /\ UNCHANGED <<gproxy_buffer, refused, forgone>>

(* The "waiting for reconnect" line, for a player who has just been held:   *)
(* numbered and buffered, not tried.                                        *)
AnnounceHold ==
    /\ total_sent' = total_sent + Notices(1)
    /\ gproxy_buffer' = gproxy_buffer \o Fresh(Notices(1))
    /\ UNCHANGED <<refused, forgone>>

CanHoldAnytime == gproxy /\ ReconnectEnabled

(* Whom the actor holds for a reconnect instead of removing. *)
CanHold == gproxy /\ game_loaded /\ ReconnectEnabled

(* handle_conn_closed: hold a GProxy++ player of a loaded game, remove any  *)
(* other.                                                                   *)
HandleConnClosed(c) ==
    /\ Ready /\ Mapped(c) /\ Heads(c, "CLOSED")
    /\ Take(c)
    /\ conn_pid' = conn_pid \ {c}
    /\ IF CanHold /\ ~gproxy_disconnected
       THEN gproxy_disconnected' = TRUE /\ AnnounceHold /\ UNCHANGED seated
       ELSE seated' = FALSE /\ UNCHANGED <<gproxy_disconnected, hostOut>>
    /\ UNCHANGED pending_drop /\ EndEvent
    /\ UNCHANGED <<game_loaded, gproxy, loaded_at, hostIn, conn_id,
                   open, h2c, dials, faults, client>>

ReplayNothing(buf) == <<Gps("RECONNECT", total_received)>>

ReplayUncounted(buf) == <<Gps("RECONNECT", total_received - 1)>> \o Data(buf)

(* GPSS_RECONNECT and the backlog. *)
Replay(buf) == <<Gps("RECONNECT", total_received)>> \o Data(buf)

(* What the client now lacks for good: it left what it had not read behind, *)
(* and what was sent before the game loaded is in no buffer.  (A client     *)
(* that has gone on to yet another connection asks again.)                  *)
NeverKept(d) ==
    IF d.conn = ccon THEN d.last + 1 .. (IF game_loaded THEN loaded_at ELSE total_sent) ELSE {}

(* handle_gproxy_reconnect.  The new connection replaces whatever the       *)
(* player had, alive or not; the backlog is replayed on it until a send is  *)
(* refused, and only a complete replay is announced.                        *)
HandleGproxyReconnect(d) ==
    LET buf == TrimGproxyBuffer(d.last)
        replay == Replay(buf)
        fits == IF d.conn \in open THEN {Len(replay) <= QueueMax} ELSE BOOLEAN
        line == Fresh(Notices(1))
    IN  /\ Ready /\ seated /\ gproxy
        /\ dials' = dials \ {d}
        /\ conn_id' = d.conn /\ conn_pid' = {d.conn}
        /\ gproxy_disconnected' = FALSE
        /\ refused' = {} /\ forgone' = forgone \union NeverKept(d)
        /\ \E replayed \in fits :
              LET sends == IF replayed THEN replay \o Data(line) ELSE replay
                  all == replayed /\ Len(sends) <= QueueMax
              IN  /\ total_sent' = total_sent + (IF replayed THEN Len(line) ELSE 0)
                  /\ gproxy_buffer' = IF replayed /\ game_loaded THEN buf \o line ELSE buf
                  /\ h2c' = IF d.conn \in open
                            THEN [h2c EXCEPT ![d.conn] =
                                    Prefix(sends, IF all THEN Len(sends) ELSE QueueMax)]
                            ELSE h2c
                  /\ pending_drop' = (pending_drop \/ ~all)
        /\ EndEvent
        /\ UNCHANGED <<seated, game_loaded, gproxy, loaded_at, hostIn,
                       open, c2h, faults, client>>

(* The same, for a player who is gone or never registered a key. *)
RejectReconnect(d) ==
    /\ Ready /\ ~(seated /\ gproxy)
    /\ dials' = dials \ {d}
    /\ h2c' = IF d.conn \in open THEN [h2c EXCEPT ![d.conn] = <<Gps("REJECT", 0)>>] ELSE h2c
    /\ UNCHANGED pending_drop /\ EndEvent
    /\ UNCHANGED <<player, hostIn, hostOut, routing, open, c2h, faults, client>>

OverdueOverflow == Len(gproxy_buffer) > BufferMax

(* The wait for a reconnect ran out (time is not modelled: it may at any    *)
(* beat), or the buffer outgrew its cap.                                    *)
Overdue == gproxy_disconnected \/ Len(gproxy_buffer) > BufferMax

(* game_tick, GProxy++ maintenance. *)
GameTickExpire ==
    /\ Ready /\ seated /\ game_loaded /\ ReconnectEnabled
    /\ Overdue
    /\ SendToPid(Notices(1), game_loaded)
    /\ seated' = FALSE /\ conn_pid' = conn_pid \ {conn_id}
    /\ EndEvent
    /\ UNCHANGED <<game_loaded, gproxy, gproxy_disconnected, loaded_at, hostIn, conn_id,
                   open, c2h, dials, faults, client>>

(* ConnHandle::close aborts the write task: the client reads what had got   *)
(* out, then the end of the stream.                                         *)
CloseConn(c) ==
    /\ open' = open \ {c}
    /\ IF c \in open
       THEN /\ \E n \in 0..Len(h2c[c]) :
                  h2c' = [h2c EXCEPT ![c] = Append(Prefix(@, n), Closed)]
            /\ c2h' = [c2h EXCEPT ![c] = Append(@, Closed)]
       ELSE UNCHANGED <<h2c, c2h>>

(* process_pending_drops, after the event that noted the player. *)
ProcessPendingDrops ==
    /\ stage = "drops"
    /\ stage' = "event" /\ pending_drop' = FALSE
    /\ IF ~seated \/ gproxy_disconnected
       THEN UNCHANGED <<player, hostOut, routing, open, h2c, c2h>>
       ELSE /\ CloseConn(conn_id)
            /\ conn_pid' = conn_pid \ {conn_id}
            /\ IF CanHold
               THEN gproxy_disconnected' = TRUE /\ AnnounceHold /\ UNCHANGED seated
               ELSE seated' = FALSE /\ UNCHANGED <<gproxy_disconnected, hostOut>>
            /\ UNCHANGED <<game_loaded, gproxy, loaded_at, conn_id>>
    /\ UNCHANGED <<hostIn, dials, faults, client>>

(***************************************************************************)
(* The network and the client                                              *)
(***************************************************************************)

(* A connection dies: each side keeps what had already arrived, and notices *)
(* the end after it.  A reconnect request still in its handshake is lost    *)
(* with the connection, one already read is not.                            *)
LoseConn(c) ==
    /\ c \in open /\ faults < MaxFaults
    /\ faults' = faults + 1
    /\ open' = open \ {c}
    /\ \E n \in 0..Len(h2c[c]), m \in 0..Len(c2h[c]) :
          /\ h2c' = [h2c EXCEPT ![c] = Append(Prefix(@, n), Closed)]
          /\ c2h' = [c2h EXCEPT ![c] = Append(Prefix(@, m), Closed)]
    /\ \E lost \in SUBSET {d \in dials : d.conn = c} : dials' = dials \ lost
    /\ UNCHANGED <<player, hostIn, hostOut, routing, actor, client>>

(* The actor dropped its last handle: the write task drains, then closes.  *)
WriteTaskEnds(c) ==
    /\ c \in open /\ c \notin conn_pid /\ \A d \in dials : d.conn # c
    /\ open' = open \ {c}
    /\ h2c' = [h2c EXCEPT ![c] = Append(@, Closed)]
    /\ c2h' = [c2h EXCEPT ![c] = Append(@, Closed)]
    /\ UNCHANGED <<player, hostIn, hostOut, routing, actor, dials, faults, client>>

Next1(t) == h2c[ccon] # <<>> /\ Head(h2c[ccon]).t = t
Read == h2c' = [h2c EXCEPT ![ccon] = Tail(@)]

ClientReceive ==
    /\ cstate = "up" /\ Next1("W3GS")
    /\ Read /\ got' = Append(got, Head(h2c[ccon]).n)
    /\ UNCHANGED <<player, hostIn, hostOut, routing, actor, open, c2h, dials, faults,
                   ccon, cstate, ckey, c_sent, c_trim, c_acked>>

ClientReceiveInit ==
    /\ Next1("INIT")
    /\ Read /\ ckey' = TRUE
    /\ UNCHANGED <<player, hostIn, hostOut, routing, actor, open, c2h, dials, faults,
                   ccon, cstate, got, c_sent, c_trim, c_acked>>

ClientReceiveAck ==
    /\ Next1("ACK")
    /\ Read /\ c_trim' = IF Head(h2c[ccon]).n > c_trim THEN Head(h2c[ccon]).n ELSE c_trim
    /\ UNCHANGED <<player, hostIn, hostOut, routing, actor, open, c2h, dials, faults,
                   ccon, cstate, ckey, got, c_sent, c_acked>>

(* GPSS_RECONNECT says what the host has; the client resends the rest. *)
ClientResume ==
    /\ cstate = "await" /\ Next1("RECONNECT")
    /\ LET n == Head(h2c[ccon]).n
           from == IF n > c_trim THEN n ELSE c_trim
       IN  /\ c_trim' = from
           /\ c2h' = IF ccon \in open
                     THEN [c2h EXCEPT ![ccon] = @ \o [i \in 1..c_sent - from |-> W3gs(from + i)]]
                     ELSE c2h
    /\ Read /\ cstate' = "up"
    /\ UNCHANGED <<player, hostIn, hostOut, routing, actor, open, dials, faults,
                   ccon, ckey, got, c_sent, c_acked>>

ClientRejected ==
    /\ cstate = "await" /\ Next1("REJECT")
    /\ Read /\ cstate' = "quit"
    /\ UNCHANGED <<player, hostIn, hostOut, routing, actor, open, c2h, dials, faults,
                   ccon, ckey, got, c_sent, c_trim, c_acked>>

ClientSend ==
    /\ cstate # "quit" /\ c_sent < MaxClient
    /\ c_sent' = c_sent + 1
    /\ c2h' = IF cstate = "up" /\ ccon \in open
              THEN [c2h EXCEPT ![ccon] = Append(@, W3gs(c_sent + 1))] ELSE c2h
    /\ UNCHANGED <<player, hostIn, hostOut, routing, actor, open, h2c, dials, faults,
                   ccon, cstate, ckey, got, c_trim, c_acked>>

ClientAck ==
    /\ cstate = "up" /\ ckey /\ ccon \in open /\ c_acked < Len(got)
    /\ c_acked' = Len(got)
    /\ c2h' = [c2h EXCEPT ![ccon] = Append(@, Gps("ACK", Len(got)))]
    /\ UNCHANGED <<player, hostIn, hostOut, routing, actor, open, h2c, dials, faults,
                   ccon, cstate, ckey, got, c_sent, c_trim>>

(* The client gives its connection up - it read its end, or it lost         *)
(* patience - and dials the reconnect port.  Requests travel through a task *)
(* each and BotCore's queue, so two of them may arrive in either order.     *)
AtEnd == Next1("CLOSED")
ClientDial ==
    /\ cstate # "quit" /\ ckey /\ ccon < MaxConns
    /\ AtEnd \/ faults < MaxFaults
    /\ faults' = IF AtEnd THEN faults ELSE faults + 1
    /\ ccon' = ccon + 1 /\ cstate' = "await"
    /\ open' = (open \ {ccon}) \union {ccon + 1}
    /\ h2c' = [h2c EXCEPT ![ccon] = <<>>]
    /\ \E m \in 0..Len(c2h[ccon]) :
          c2h' = IF ccon \in open THEN [c2h EXCEPT ![ccon] = Append(Prefix(@, m), Closed)]
                 ELSE c2h
    /\ dials' = dials \union {[conn |-> ccon + 1, last |-> Len(got)]}
    /\ UNCHANGED <<player, hostIn, hostOut, routing, actor, ckey, got, c_sent, c_trim, c_acked>>

HostNext ==
    \/ Broadcast \/ OtherPlayerDropped \/ OtherEvent \/ CheckLoadingComplete
    \/ PingTick \/ GameTickExpire \/ ProcessPendingDrops
    \/ \E c \in Conns : HandlePlayerFrame(c) \/ HandleGpsInit(c) \/ HandleGpsAck(c)
                        \/ IgnoreUnmapped(c) \/ HandleConnClosed(c)
    \/ \E d \in dials : HandleGproxyReconnect(d) \/ RejectReconnect(d)

ClientNext ==
    \/ ClientReceive \/ ClientReceiveInit \/ ClientReceiveAck \/ ClientResume
    \/ ClientRejected \/ ClientSend \/ ClientAck \/ ClientDial

Next == HostNext \/ ClientNext \/ \E c \in Conns : LoseConn(c) \/ WriteTaskEnds(c)

Spec == Init /\ [][Next]_vars

(***************************************************************************)
(* Properties                                                              *)
(***************************************************************************)

(* Types; and no connection is owed more than its write queue holds (and    *)
(* the end of the stream), but one whose player is about to be dropped.     *)
TypeOK ==
    /\ {seated, game_loaded, gproxy, gproxy_disconnected, pending_drop, ckey} \subseteq BOOLEAN
    /\ {total_sent, total_received, loaded_at, faults, c_sent, c_trim, c_acked} \subseteq Nat
    /\ gproxy_buffer \in Seq(Nat) /\ got \in Seq(Nat) /\ host_got \in Seq(Nat)
    /\ {refused, forgone} \subseteq SUBSET Nat
    /\ conn_id \in Conns /\ ccon \in Conns /\ conn_pid \subseteq Conns /\ open \subseteq Conns
    /\ stage \in {"event", "drops"} /\ cstate \in {"up", "await", "quit"}
    /\ h2c \in [Conns -> Seq(Message)] /\ c2h \in [Conns -> Seq(Message)]
    /\ \A c \in conn_pid : ~pending_drop => Len(h2c[c]) <= QueueMax + 1
    /\ dials \subseteq [conn : Conns, last : Nat]

(* gproxy_buffer is the last packets sent, without a hole: what trimming by *)
(* total_sent - len relies on.                                              *)
BufferIsSuffix ==
    \A i \in 1..Len(gproxy_buffer) :
        gproxy_buffer[i] = total_sent - Len(gproxy_buffer) + i

(* Nothing the client still needs is trimmed: the buffer reaches back to    *)
(* what the client has, once it has got past the loading.                   *)
BufferReachesBack ==
    gproxy /\ game_loaded /\ Len(got) > loaded_at
        => total_sent - Len(gproxy_buffer) <= Len(got)

(* A player of the game is either mapped to a live connection or held for a *)
(* reconnect, never neither (nobody would ever remove them) and never both; *)
(* and only a player the backlog can be replayed to is held.                *)
HeldIffUnmapped ==
    seated => /\ gproxy_disconnected <=> conn_pid = {}
              /\ gproxy_disconnected \/ conn_pid = {conn_id}
              /\ gproxy_disconnected => gproxy /\ game_loaded /\ ReconnectEnabled

IsW3gs(m) == m.t = "W3GS"

(* The comment in process_pending_drops: abandoning a held player's socket  *)
(* costs nothing, because what it had not delivered is in the buffer.       *)
Unread(c) == Len(SelectSeq(h2c[c], IsW3gs))
HoldCostsNothing ==
    gproxy_disconnected /\ cstate = "up"
        => total_sent - Len(gproxy_buffer) <= Len(got) + Unread(ccon)

(* Both directions of the session are the reliable stream GProxy++ exists   *)
(* to provide: nothing skipped, nothing twice, over any number of sockets.  *)
(* The host may skip only a packet that a full queue refused and a later    *)
(* one overtook, or one from before the loading that a client asks for      *)
(* again; what the client sends is never skipped.                           *)
HostToClient == INSTANCE ReliableStream WITH sent <- total_sent, lost <- forgone, open <- seated
ClientToHost ==
    INSTANCE ReliableStream WITH sent <- c_sent, got <- host_got, lost <- {}, open <- TRUE
HostToClientReliable == HostToClient!Spec
ClientToHostReliable == ClientToHost!Spec

(***************************************************************************)
(* Liveness.  The actor's select! serves every ready branch again and       *)
(* again, the tasks behind a connection run, and a client whose connection  *)
(* ended dials again; nothing makes a client give up a working connection.  *)
(***************************************************************************)
ConnEvent(c) ==
    HandlePlayerFrame(c) \/ HandleGpsInit(c) \/ HandleGpsAck(c)
    \/ IgnoreUnmapped(c) \/ HandleConnClosed(c)
Reconnects == \E d \in dials : HandleGproxyReconnect(d) \/ RejectReconnect(d)
ClientReads ==
    ClientReceive \/ ClientReceiveInit \/ ClientReceiveAck \/ ClientResume \/ ClientRejected

Fairness ==
    /\ \A c \in Conns : WF_vars(ConnEvent(c)) /\ WF_vars(WriteTaskEnds(c))
    /\ WF_vars(Reconnects) /\ WF_vars(OtherEvent) /\ WF_vars(ProcessPendingDrops)
    /\ WF_vars(GameTickExpire)
    /\ WF_vars(ClientReads) /\ WF_vars(AtEnd /\ ClientDial)

FairSpec == Spec /\ Fairness

(* Every packet the host numbers reaches the client's game, unless nobody   *)
(* owes the client it or one before it, the player is removed, or the       *)
(* client is out of connections (the bound).                                *)
EventuallyDelivered ==
    \A n \in 1..MaxSent :
        total_sent >= n ~>
            Len(got) >= n \/ forgone \cap 1..n # {} \/ ~seated \/ ccon = MaxConns

(* A held player does not stay held: a reconnect or the wait ends it.       *)
HoldEnds == gproxy_disconnected ~> ~gproxy_disconnected \/ ~seated
=============================================================================
