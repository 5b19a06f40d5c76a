------------------------------ MODULE StatusBoard ------------------------------
(***************************************************************************)
(* The status endpoint: game actors push what is to be seen of them to a   *)
(* board, pollers read it over HTTP and hold on to what they read, the     *)
(* ETag telling them whether it is still what the board says.              *)
(*                                                                         *)
(* A view stands for all a snapshot shows of a game but its phase and its  *)
(* times: the roster and the open slots.  A request is a GET of /status;   *)
(* any other is answered without a look at the board.  created_at is left  *)
(* out.                                                                    *)
(*                                                                         *)
(* A definition used nowhere is a faulty variant of the next that is: with *)
(* it in place of the other, one of the properties below must fail.        *)
(***************************************************************************)
EXTENDS Integers, FiniteSets

CONSTANTS
    MaxGames,       \* bound: games created by one run of the bot
    Views,          \* what a game can look like
    Pollers,        \* clients on the allow list, a connection each
    MaxConnections, \* MAX_CONNECTIONS
    MaxChanges,     \* bound: changes of the games
    MaxRestarts,    \* bound: restarts of the bot
    MaxLosses       \* bound: connections that fail under a request

ASSUME BoardAssumption ==
    /\ IsFiniteSet(Pollers) /\ Views # {}
    /\ {MaxGames, MaxConnections, MaxChanges, MaxRestarts, MaxLosses} \subseteq Nat

VARIABLES
    started_at,     \* StatusBoard.started_at, in restarts
    board,          \* BoardState.games, as a set of snapshots
    revision,       \* BoardState.revision
    host_counter,   \* BotCore.host_counter: games created so far
    live,           \* those with a running actor ...
    phase, view,    \* ... what they are now, ...
    last_hash,      \* ... what they last published ...
    left_lobby,     \* ... and StatusPublisher.started_at, as whether it is set
    permits,        \* the semaphore
    conn,           \* per poller: where its connection's task is
    asked,          \* the If-None-Match of the request being served
    reply,          \* the response being written
    held,           \* what the poller holds: a tagged body
    changes, losses \* bounds so far

shared == <<started_at, board, revision>>
actors == <<host_counter, live, phase, view, last_hash, left_lobby>>
server == <<permits, conn, asked, reply>>
bounds == <<changes, losses>>
vars == <<shared, actors, server, held, bounds>>

Games == 1..MaxGames
Phases == {"lobby", "loading", "playing"}
Snapshot == [game : Games, phase : Phases, view : Views, left_lobby : BOOLEAN]
Tag == [started_at : Nat, revision : Nat]
NoTag == [started_at |-> -1, revision |-> 0]
Nothing == [status |-> 200, tag |-> NoTag, body |-> {}]

ETagOfRevision == [started_at |-> 0, revision |-> revision]

(* A tag says which board it is of: which run of the bot, and which         *)
(* revision.                                                                *)
ETag == [started_at |-> started_at, revision |-> revision]

Init ==
    /\ started_at = 0 /\ board = {} /\ revision = 0
    /\ host_counter = 0 /\ live = {} /\ phase = [g \in Games |-> "lobby"]
    /\ view = [g \in Games |-> CHOOSE v \in Views : TRUE]
    /\ last_hash = [g \in Games |-> <<>>] /\ left_lobby = [g \in Games |-> FALSE]
    /\ permits = MaxConnections
    /\ conn = [p \in Pollers |-> "closed"] /\ asked = [p \in Pollers |-> NoTag]
    /\ reply = [p \in Pollers |-> Nothing]
    /\ held = [p \in Pollers |-> Nothing]
    /\ changes = 0 /\ losses = 0

(***************************************************************************)
(* The writers                                                             *)
(***************************************************************************)

Others(g) == {s \in board : s.game # g}

PutBeside(snapshot) == board' = board \union {snapshot} /\ revision' = revision + 1

Put(snapshot) ==
    /\ board' = Others(snapshot.game) \union {snapshot}
    /\ revision' = revision + 1

TakeOff(g) ==
    /\ board' = Others(g)
    /\ revision' = IF board' # board THEN revision + 1 ELSE revision

FingerprintOfPhase(g) == <<phase[g]>>

(* What the hash is taken of: all that the snapshot shows.                  *)
Fingerprint(g) == <<phase[g], view[g]>>

(* publish_status, once at the start of the actor and then every second: a  *)
(* changed game is put on the board.                                        *)
Publish(g) ==
    LET left == left_lobby[g] \/ phase[g] # "lobby"
    IN  /\ g \in live /\ last_hash[g] # Fingerprint(g)
        /\ last_hash' = [last_hash EXCEPT ![g] = Fingerprint(g)]
        /\ left_lobby' = [left_lobby EXCEPT ![g] = left]
        /\ Put([game |-> g, phase |-> phase[g], view |-> view[g], left_lobby |-> left])
        /\ UNCHANGED <<started_at, host_counter, live, phase, view, server, held, bounds>>

(* BotCore creates a game under the next host counter. *)
Create ==
    /\ host_counter < MaxGames /\ host_counter' = host_counter + 1
    /\ live' = live \union {host_counter'}
    /\ \E v \in Views : view' = [view EXCEPT ![host_counter'] = v]
    /\ UNCHANGED <<shared, phase, last_hash, left_lobby, server, held, bounds>>

(* Somebody joins, leaves, moves or reconnects; the game goes on to its     *)
(* next phase.                                                              *)
Change(g) ==
    /\ g \in live /\ changes < MaxChanges /\ changes' = changes + 1
    /\ \/ \E v \in Views \ {view[g]} : view' = [view EXCEPT ![g] = v] /\ UNCHANGED phase
       \/ /\ phase' = [phase EXCEPT ![g] = CASE @ = "lobby" -> "loading" [] OTHER -> "playing"]
          /\ UNCHANGED view
    /\ UNCHANGED <<shared, host_counter, live, last_hash, left_lobby, server, held, losses>>

(* The actor ends, by a panic too: its publisher is dropped with it. *)
End(g) ==
    /\ g \in live /\ live' = live \ {g}
    /\ TakeOff(g)
    /\ UNCHANGED <<started_at, host_counter, phase, view, last_hash, left_lobby, server, held,
                   bounds>>

(* The bot restarts, not within the second it was last started in: board,   *)
(* games and connections are gone, host counters start over.                *)
Restart ==
    /\ started_at < MaxRestarts /\ started_at' = started_at + 1
    /\ board' = {} /\ revision' = 0
    /\ host_counter' = 0 /\ live' = {} /\ phase' = [g \in Games |-> "lobby"]
    /\ last_hash' = [g \in Games |-> <<>>] /\ left_lobby' = [g \in Games |-> FALSE]
    /\ permits' = MaxConnections
    /\ conn' = [p \in Pollers |-> "closed"] /\ asked' = [p \in Pollers |-> NoTag]
    /\ reply' = [p \in Pollers |-> Nothing]
    /\ view' = [g \in Games |-> CHOOSE v \in Views : TRUE]
    /\ UNCHANGED <<held, bounds>>

(***************************************************************************)
(* The endpoint                                                            *)
(***************************************************************************)

(* A connection is served while there is a permit, and closed at once       *)
(* without one.                                                             *)
Accept(p) ==
    /\ conn[p] = "closed" /\ permits > 0
    /\ permits' = permits - 1 /\ conn' = [conn EXCEPT ![p] = "reading"]
    /\ UNCHANGED <<shared, actors, asked, reply, held, bounds>>

\* The connection's task is over, its permit with it.
Released(p) ==
    /\ permits' = permits + 1 /\ conn' = [conn EXCEPT ![p] = "closed"]
    /\ asked' = [asked EXCEPT ![p] = NoTag] /\ reply' = [reply EXCEPT ![p] = Nothing]

(* The client closes, or says nothing for too long. *)
Close(p) ==
    /\ conn[p] = "reading" /\ Released(p)
    /\ UNCHANGED <<shared, actors, held, bounds>>

(* read_head: a poll, with the tag of what the poller holds. *)
Request(p) ==
    /\ conn[p] = "reading"
    /\ conn' = [conn EXCEPT ![p] = "asked"] /\ asked' = [asked EXCEPT ![p] = held[p].tag]
    /\ UNCHANGED <<shared, actors, permits, reply, held, bounds>>

(* respond_to: current_etag, under the lock.  A poller with that tag is     *)
(* told 304; for any other the board is serialized, under the lock again.   *)
NotModified(p) ==
    /\ conn[p] = "asked" /\ asked[p] = ETag
    /\ conn' = [conn EXCEPT ![p] = "writing"]
    /\ reply' = [reply EXCEPT ![p] = [status |-> 304, tag |-> ETag, body |-> {}]]
    /\ UNCHANGED <<shared, actors, permits, asked, held, bounds>>

Modified(p) ==
    /\ conn[p] = "asked" /\ asked[p] # ETag
    /\ conn' = [conn EXCEPT ![p] = "serializing"]
    /\ UNCHANGED <<shared, actors, permits, asked, reply, held, bounds>>

(* to_json: the games and the revision are read under one lock. *)
ToJson(p) ==
    /\ conn[p] = "serializing"
    /\ conn' = [conn EXCEPT ![p] = "writing"]
    /\ reply' = [reply EXCEPT ![p] = [status |-> 200, tag |-> ETag, body |-> board]]
    /\ UNCHANGED <<shared, actors, permits, asked, held, bounds>>

(* The response arrives; the connection is kept if the poller wished so.    *)
Respond(p) ==
    /\ conn[p] = "writing"
    /\ held' = [held EXCEPT ![p] = IF reply[p].status = 304 THEN @ ELSE reply[p]]
    /\ \/ Released(p)
       \/ /\ conn' = [conn EXCEPT ![p] = "reading"] /\ UNCHANGED permits
          /\ asked' = [asked EXCEPT ![p] = NoTag] /\ reply' = [reply EXCEPT ![p] = Nothing]
    /\ UNCHANGED <<shared, actors, bounds>>

(* The connection fails under the request: serve returns an error. *)
Fail(p) ==
    /\ conn[p] \notin {"closed", "reading"}
    /\ losses < MaxLosses /\ losses' = losses + 1
    /\ Released(p)
    /\ UNCHANGED <<shared, actors, held, changes>>

Next ==
    \/ \E g \in Games : Publish(g) \/ Change(g) \/ End(g)
    \/ Create \/ Restart
    \/ \E p \in Pollers : \/ Accept(p) \/ Close(p) \/ Request(p) \/ NotModified(p)
                          \/ Modified(p) \/ ToJson(p) \/ Respond(p) \/ Fail(p)

Spec == Init /\ [][Next]_vars

(* Actors tick, tasks run to their end, and a poller polls again.  What a   *)
(* poller asks for is not part of the code's scheduling but of what it      *)
(* takes to see anything.                                                   *)
Fairness ==
    /\ \A g \in Games : WF_vars(Publish(g))
    /\ \A p \in Pollers :
          /\ WF_vars(Accept(p)) /\ SF_vars(Request(p))
          /\ WF_vars(NotModified(p) \/ Modified(p)) /\ WF_vars(ToJson(p)) /\ WF_vars(Respond(p))

FairSpec == Spec /\ Fairness

(***************************************************************************)
(* Properties                                                              *)
(***************************************************************************)

Response == [status : {200, 304}, tag : Tag \union {NoTag}, body : SUBSET Snapshot]

(* Types; and a permit is out for every connection that is open: none is    *)
(* lost however a connection ends.                                          *)
TypeOK ==
    /\ started_at \in Nat /\ revision \in Nat /\ host_counter \in 0..MaxGames
    /\ board \subseteq Snapshot
    /\ live \subseteq Games /\ phase \in [Games -> Phases] /\ view \in [Games -> Views]
    /\ last_hash \in [Games -> {<<>>} \union Phases \X Views] /\ left_lobby \in [Games -> BOOLEAN]
    /\ conn \in [Pollers -> {"closed", "reading", "asked", "serializing", "writing"}]
    /\ asked \in [Pollers -> Tag \union {NoTag}]
    /\ reply \in [Pollers -> Response] /\ held \in [Pollers -> Response]
    /\ permits = MaxConnections - Cardinality({p \in Pollers : conn[p] # "closed"})

(* A tag tells the truth: who is told 304 for the tag of what it holds      *)
(* holds exactly the board of that moment, whatever was published, removed, *)
(* lost or restarted in between.                                            *)
NotModifiedIsTrue == \A p \in Pollers : held[p].tag = ETag => held[p].body = board

(* The board has one entry per game, none of a game whose actor is gone,    *)
(* and says of each what it last published.                                 *)
BoardIsLive ==
    \A s \in board : /\ s.game \in live
                     /\ last_hash[s.game] = <<s.phase, s.view>>
                     /\ s.left_lobby <=> s.phase # "lobby"
                     /\ \A t \in board : t.game = s.game => t = s

\* What the games are now.
Truth ==
    {[game |-> g, phase |-> phase[g], view |-> view[g], left_lobby |-> phase[g] # "lobby"]
        : g \in live}

(* Once the games stop changing every poller that keeps polling comes to    *)
(* hold what they are.                                                      *)
PollersCatchUp == \A p \in Pollers : <>[](held[p].body = Truth)
=============================================================================
