-------------------------- MODULE StatusBoardProofs --------------------------
(***************************************************************************)
(* That a poller that is told 304 holds the board, and that the board says *)
(* of each live game what it last published and nothing of any other, for  *)
(* any number of games, pollers, connections, changes, restarts and lost   *)
(* connections.                                                            *)
(***************************************************************************)
EXTENDS StatusBoard, FiniteSetTheorems, TLAPS

\* Some view there is to start with.
LEMMA SomeView == (CHOOSE v \in Views : TRUE) \in Views
  BY BoardAssumption

LEMMA BoundTypes == MaxGames \in Nat /\ MaxConnections \in Nat
  BY BoardAssumption

\* Something held is of an earlier run of the bot, of an earlier revision of
\* this run, or what the board says now.
Dated(r) ==
    \/ r.tag.started_at < started_at
    \/ /\ r.tag.started_at = started_at
       /\ \/ r.tag.revision < revision
          \/ r.tag.revision = revision /\ r.body = board

\* All that is held or on its way with a body is so dated.
TagInv ==
    /\ \A p \in Pollers : Dated(held[p])
    /\ \A p \in Pollers : reply[p].status = 200 => Dated(reply[p])

\* A game that was seen out of the lobby is out of it.
LobbyInv == \A g \in Games : left_lobby[g] => phase[g] # "lobby"

(***************************************************************************)
(* Types                                                                   *)
(***************************************************************************)

Open == {p \in Pollers : conn[p] # "closed"}

LEMMA TypeInit == Init => TypeOK
  <1> SUFFICES ASSUME Init PROVE TypeOK
    OBVIOUS
  <1> USE DEF Init
  <1>1. started_at \in Nat /\ revision \in Nat /\ host_counter \in 0..MaxGames
    BY BoardAssumption
  <1>2. board \subseteq Snapshot /\ live \subseteq Games
    OBVIOUS
  <1>3. phase \in [Games -> Phases] /\ view \in [Games -> Views]
    BY SomeView DEF Phases
  <1>4. last_hash \in [Games -> {<<>>} \union Phases \X Views] /\ left_lobby \in [Games -> BOOLEAN]
    OBVIOUS
  <1>5. conn \in [Pollers -> {"closed", "reading", "asked", "serializing", "writing"}]
    OBVIOUS
  <1>6. asked \in [Pollers -> Tag \union {NoTag}]
    OBVIOUS
  <1>7. reply \in [Pollers -> Response] /\ held \in [Pollers -> Response]
    BY DEF Response, Nothing
  <1>8. permits = MaxConnections - Cardinality({p \in Pollers : conn[p] # "closed"})
    <2>1. {p \in Pollers : conn[p] # "closed"} = {}
      OBVIOUS
    <2>2. Cardinality({p \in Pollers : conn[p] # "closed"}) = 0
      BY <2>1, FS_EmptySet
    <2>3. permits = MaxConnections
      OBVIOUS
    <2> HIDE DEF Init
    <2> QED BY <2>2, <2>3, BoundTypes
  <1> QED BY <1>1, <1>2, <1>3, <1>4, <1>5, <1>6, <1>7, <1>8 DEF TypeOK

\* A permit taken, a permit given back.
LEMMA PermitTaken ==
    ASSUME TypeOK, NEW p \in Pollers, conn[p] = "closed", NEW s, s # "closed",
           conn' = [conn EXCEPT ![p] = s], permits' = permits - 1
    PROVE  permits' = MaxConnections - Cardinality({q \in Pollers : conn'[q] # "closed"})
  <1>1. {q \in Pollers : conn'[q] # "closed"} = Open \union {p}
    BY DEF Open, TypeOK
  <1>2. IsFiniteSet(Open)
    BY FS_Subset, BoardAssumption DEF Open
  <1>3. Cardinality(Open \union {p}) = Cardinality(Open) + 1
    BY <1>2, FS_AddElement DEF Open
  <1>4. Cardinality(Open) \in Nat
    BY <1>2, FS_CardinalityType
  <1>5. permits = MaxConnections - Cardinality(Open)
    BY DEF TypeOK, Open
  <1> QED BY <1>1, <1>3, <1>4, <1>5, BoundTypes

LEMMA PermitReturned ==
    ASSUME TypeOK, NEW p \in Pollers, conn[p] # "closed",
           conn' = [conn EXCEPT ![p] = "closed"], permits' = permits + 1
    PROVE  permits' = MaxConnections - Cardinality({q \in Pollers : conn'[q] # "closed"})
  <1>1. {q \in Pollers : conn'[q] # "closed"} = Open \ {p}
    BY DEF Open, TypeOK
  <1>2. IsFiniteSet(Open)
    BY FS_Subset, BoardAssumption DEF Open
  <1>3. Cardinality(Open \ {p}) = Cardinality(Open) - 1
    BY <1>2, FS_RemoveElement DEF Open
  <1>4. Cardinality(Open) \in Nat
    BY <1>2, FS_CardinalityType
  <1>5. permits = MaxConnections - Cardinality(Open)
    BY DEF TypeOK, Open
  <1> QED BY <1>1, <1>3, <1>4, <1>5, BoundTypes

\* Neither, while a connection goes from one stage to another.
LEMMA PermitKept ==
    ASSUME TypeOK, NEW p \in Pollers, conn[p] # "closed", NEW s, s # "closed",
           conn' = [conn EXCEPT ![p] = s], permits' = permits
    PROVE  permits' = MaxConnections - Cardinality({q \in Pollers : conn'[q] # "closed"})
  <1>1. {q \in Pollers : conn'[q] # "closed"} = {q \in Pollers : conn[q] # "closed"}
    BY DEF TypeOK
  <1> QED BY <1>1 DEF TypeOK

\* What the writers leave alone.
LEMMA WriterTypes ==
    ASSUME TypeOK, UNCHANGED <<server, held>>,
           started_at' \in Nat, revision' \in Nat, host_counter' \in 0..MaxGames,
           board' \subseteq Snapshot, live' \subseteq Games,
           phase' \in [Games -> Phases], view' \in [Games -> Views],
           last_hash' \in [Games -> {<<>>} \union Phases \X Views],
           left_lobby' \in [Games -> BOOLEAN]
    PROVE  TypeOK'
  BY DEF TypeOK, server

\* What the endpoint leaves alone.
LEMMA ServerTypes ==
    ASSUME TypeOK, UNCHANGED <<shared, actors>>,
           conn' \in [Pollers -> {"closed", "reading", "asked", "serializing", "writing"}],
           asked' \in [Pollers -> Tag \union {NoTag}],
           reply' \in [Pollers -> Response], held' \in [Pollers -> Response],
           permits' = MaxConnections - Cardinality({q \in Pollers : conn'[q] # "closed"})
    PROVE  TypeOK'
  BY DEF TypeOK, shared, actors

LEMMA TypeNext == TypeOK /\ [Next]_vars => TypeOK'
  <1> SUFFICES ASSUME TypeOK, [Next]_vars PROVE TypeOK'
    OBVIOUS
  <1>1. ASSUME NEW g \in Games, Publish(g) PROVE TypeOK'
    <2> DEFINE left == left_lobby[g] \/ phase[g] # "lobby"
               s == [game |-> g, phase |-> phase[g], view |-> view[g], left_lobby |-> left]
    <2>1. s \in Snapshot /\ left \in BOOLEAN
      BY DEF TypeOK, Snapshot
    <2>2. board' = Others(g) \union {s} /\ revision' = revision + 1
      BY <1>1 DEF Publish, Put
    <2>3. board' \subseteq Snapshot /\ revision' \in Nat
      BY <2>1, <2>2 DEF TypeOK, Others
    <2>4. Fingerprint(g) \in Phases \X Views
      BY DEF TypeOK, Fingerprint
    <2>5. last_hash' \in [Games -> {<<>>} \union Phases \X Views]
      BY <1>1, <2>4 DEF TypeOK, Publish
    <2>6. left_lobby' \in [Games -> BOOLEAN]
      BY <1>1, <2>1 DEF TypeOK, Publish
    <2>7. UNCHANGED <<server, held, started_at, host_counter, live, phase, view>>
      BY <1>1 DEF Publish
    <2> QED BY <2>3, <2>5, <2>6, <2>7, WriterTypes DEF TypeOK
  <1>2. CASE Create
    <2>1. host_counter' \in 0..MaxGames /\ host_counter' \in Games
      BY <1>2, BoundTypes DEF Create, TypeOK, Games
    <2>2. live' \subseteq Games /\ view' \in [Games -> Views]
      BY <1>2, <2>1 DEF Create, TypeOK
    <2>3. UNCHANGED <<server, held, started_at, revision, board, phase, last_hash, left_lobby>>
      BY <1>2 DEF Create, shared
    <2> QED BY <2>1, <2>2, <2>3, WriterTypes DEF TypeOK
  <1>3. ASSUME NEW g \in Games, Change(g) PROVE TypeOK'
    <2>1. phase' \in [Games -> Phases] /\ view' \in [Games -> Views]
      BY <1>3 DEF Change, TypeOK, Phases
    <2>2. UNCHANGED <<server, held, started_at, revision, board, host_counter, live, last_hash,
                      left_lobby>>
      BY <1>3 DEF Change, shared
    <2> QED BY <2>1, <2>2, WriterTypes DEF TypeOK
  <1>4. ASSUME NEW g \in Games, End(g) PROVE TypeOK'
    <2>1. live' \subseteq Games /\ board' \subseteq Snapshot /\ revision' \in Nat
      BY <1>4 DEF End, TakeOff, Others, TypeOK
    <2>2. UNCHANGED <<server, held, started_at, host_counter, phase, view, last_hash, left_lobby>>
      BY <1>4 DEF End
    <2> QED BY <2>1, <2>2, WriterTypes DEF TypeOK
  <1>5. CASE Restart
    <2>1. started_at' \in Nat /\ revision' \in Nat /\ host_counter' \in 0..MaxGames
      BY <1>5, BoundTypes DEF Restart, TypeOK
    <2>2. board' \subseteq Snapshot /\ live' \subseteq Games
      BY <1>5 DEF Restart
    <2>3. phase' \in [Games -> Phases] /\ view' \in [Games -> Views]
      BY <1>5, SomeView DEF Restart, Phases
    <2>4. last_hash' \in [Games -> {<<>>} \union Phases \X Views]
      BY <1>5 DEF Restart
    <2>5. left_lobby' \in [Games -> BOOLEAN]
      BY <1>5 DEF Restart
    <2>6. conn' \in [Pollers -> {"closed", "reading", "asked", "serializing", "writing"}]
      BY <1>5 DEF Restart
    <2>7. asked' \in [Pollers -> Tag \union {NoTag}]
      BY <1>5 DEF Restart
    <2>8. reply' \in [Pollers -> Response] /\ held' \in [Pollers -> Response]
      BY <1>5 DEF Restart, Response, Nothing, TypeOK
    <2>9. permits' = MaxConnections - Cardinality({p \in Pollers : conn'[p] # "closed"})
      <3>1. {p \in Pollers : conn'[p] # "closed"} = {}
        BY <1>5 DEF Restart
      <3>2. Cardinality({p \in Pollers : conn'[p] # "closed"}) = 0
        BY <3>1, FS_EmptySet
      <3>3. permits' = MaxConnections
        BY <1>5 DEF Restart
      <3> QED BY <3>2, <3>3, BoundTypes
    <2> QED BY <2>1, <2>2, <2>3, <2>4, <2>5, <2>6, <2>7, <2>8, <2>9 DEF TypeOK
  <1>6. ASSUME NEW p \in Pollers, Accept(p) PROVE TypeOK'
    <2>1. permits' = MaxConnections - Cardinality({q \in Pollers : conn'[q] # "closed"})
      BY <1>6, PermitTaken DEF Accept
    <2>2. UNCHANGED <<shared, actors, asked, reply, held>>
      BY <1>6 DEF Accept
    <2>3. conn' \in [Pollers -> {"closed", "reading", "asked", "serializing", "writing"}]
      BY <1>6 DEF Accept, TypeOK
    <2> QED BY <2>1, <2>2, <2>3, ServerTypes DEF TypeOK
  <1>7. ASSUME NEW p \in Pollers, conn[p] # "closed", Released(p), UNCHANGED <<shared, actors>>,
               held' \in [Pollers -> Response]
        PROVE  TypeOK'
    <2>1. permits' = MaxConnections - Cardinality({q \in Pollers : conn'[q] # "closed"})
      BY <1>7, PermitReturned DEF Released
    <2>2. conn' \in [Pollers -> {"closed", "reading", "asked", "serializing", "writing"}]
      BY <1>7 DEF Released, TypeOK
    <2>3. asked' \in [Pollers -> Tag \union {NoTag}]
      BY <1>7 DEF Released, TypeOK
    <2>4. reply' \in [Pollers -> Response]
      BY <1>7 DEF Released, TypeOK, Nothing, Response
    <2> QED BY <1>7, <2>1, <2>2, <2>3, <2>4, ServerTypes
  <1>8. ASSUME NEW p \in Pollers, Close(p) \/ Fail(p) PROVE TypeOK'
    <2>1. conn[p] # "closed" /\ Released(p) /\ UNCHANGED <<shared, actors>> /\ held' = held
      BY <1>8 DEF Close, Fail
    <2> QED BY <1>7, <2>1 DEF TypeOK
  <1>9. ASSUME NEW p \in Pollers,
               Request(p) \/ NotModified(p) \/ Modified(p) \/ ToJson(p)
        PROVE  TypeOK'
    <2>1. conn[p] # "closed" /\ UNCHANGED <<shared, actors>> /\ held' = held
          /\ permits' = permits
      BY <1>9 DEF Request, NotModified, Modified, ToJson
    <2>2. PICK s \in {"asked", "serializing", "writing"} : conn' = [conn EXCEPT ![p] = s]
      BY <1>9 DEF Request, NotModified, Modified, ToJson
    <2>3. permits' = MaxConnections - Cardinality({q \in Pollers : conn'[q] # "closed"})
      BY <2>1, <2>2, PermitKept
    <2>4. conn' \in [Pollers -> {"closed", "reading", "asked", "serializing", "writing"}]
      BY <2>2 DEF TypeOK
    <2>5. asked' \in [Pollers -> Tag \union {NoTag}]
      BY <1>9 DEF Request, NotModified, Modified, ToJson, TypeOK, Response
    <2>6. ETag \in Tag
      BY DEF ETag, Tag, TypeOK
    <2>7. reply' \in [Pollers -> Response]
      <3>1. /\ [status |-> 304, tag |-> ETag, body |-> {}] \in Response
            /\ [status |-> 200, tag |-> ETag, body |-> board] \in Response
        BY <2>6 DEF Response, TypeOK
      <3>2. \/ reply' = reply
            \/ reply' = [reply EXCEPT ![p] = [status |-> 304, tag |-> ETag, body |-> {}]]
            \/ reply' = [reply EXCEPT ![p] = [status |-> 200, tag |-> ETag, body |-> board]]
        BY <1>9 DEF Request, NotModified, Modified, ToJson
      <3> QED BY <3>1, <3>2, SMTT(15), ZenonT(40) DEF TypeOK
    <2> QED BY <2>1, <2>3, <2>4, <2>5, <2>7, ServerTypes DEF TypeOK
  <1>10. ASSUME NEW p \in Pollers, Respond(p) PROVE TypeOK'
    <2>1. held' \in [Pollers -> Response]
      BY <1>10 DEF Respond, TypeOK
    <2>2. conn[p] # "closed" /\ UNCHANGED <<shared, actors>>
      BY <1>10 DEF Respond
    <2>3. CASE Released(p)
      BY <1>7, <2>1, <2>2, <2>3
    <2>4. CASE /\ conn' = [conn EXCEPT ![p] = "reading"] /\ UNCHANGED permits
               /\ asked' = [asked EXCEPT ![p] = NoTag] /\ reply' = [reply EXCEPT ![p] = Nothing]
      <3>1. permits' = MaxConnections - Cardinality({q \in Pollers : conn'[q] # "closed"})
        BY <2>2, <2>4, PermitKept
      <3>2. conn' \in [Pollers -> {"closed", "reading", "asked", "serializing", "writing"}]
        BY <2>4 DEF TypeOK
      <3>3. asked' \in [Pollers -> Tag \union {NoTag}]
        BY <2>4 DEF TypeOK
      <3>4. reply' \in [Pollers -> Response]
        BY <2>4 DEF TypeOK, Nothing, Response
      <3> QED BY <2>1, <2>2, <3>1, <3>2, <3>3, <3>4, ServerTypes
    <2> QED BY <1>10, <2>3, <2>4 DEF Respond
  <1>11. CASE UNCHANGED vars
    BY <1>11 DEF vars, shared, actors, server, TypeOK
  <1> QED BY <1>1, <1>2, <1>3, <1>4, <1>5, <1>6, <1>8, <1>9, <1>10, <1>11 DEF Next


(* Every step keeps the types; and a permit is out for every connection:    *)
(* whichever way a connection of the status endpoint ends, its permit comes *)
(* back.                                                                    *)
THEOREM TypeCorrect == Spec => []TypeOK
  <1> QED BY TypeInit, TypeNext, PTL DEF Spec

(***************************************************************************)
(* Tags                                                                    *)
(***************************************************************************)

LEMMA TagInit == Init => TagInv
  BY DEF Init, TagInv, Dated, Nothing, NoTag

\* While the board only moves on, what was dated stays so.
LEMMA DatedLater ==
    ASSUME TypeOK, NEW r \in Response, Dated(r),
           \/ started_at' = started_at + 1
           \/ started_at' = started_at /\ revision' = revision + 1
           \/ UNCHANGED <<started_at, revision, board>>
    PROVE  Dated(r)'
  <1>1. r.tag.started_at \in Int /\ r.tag.revision \in Nat
    BY DEF Response, Tag, NoTag
  <1> QED BY <1>1 DEF Dated, TypeOK

\* What was never served is as good as from before the first start.
LEMMA NothingDated == TypeOK => Dated(Nothing)
  BY DEF Dated, Nothing, NoTag, TypeOK

LEMMA TagNext == TypeOK /\ TagInv /\ [Next]_vars => TagInv'
  <1> SUFFICES ASSUME TypeOK, TagInv, [Next]_vars PROVE TagInv'
    OBVIOUS
  <1>a. TypeOK'
    BY TypeNext
  <1>b. \A p \in Pollers : held[p] \in Response /\ reply[p] \in Response
    BY DEF TypeOK
  <1>1. ASSUME \/ started_at' = started_at /\ revision' = revision + 1
               \/ UNCHANGED <<started_at, revision, board>>,
               UNCHANGED <<reply, held>>
        PROVE  TagInv'
    <2>1. ASSUME NEW r \in Response, Dated(r) PROVE Dated(r)'
      BY <1>1, <2>1, DatedLater
    <2> QED BY <1>1, <1>b, <2>1 DEF TagInv
  <1>2. ASSUME NEW g \in Games, Publish(g) \/ Change(g) \/ End(g) PROVE TagInv'
    <2>1. UNCHANGED <<started_at, reply, held>>
      BY <1>2 DEF Publish, Change, End, shared, server
    <2>2. revision' = revision + 1 \/ UNCHANGED <<revision, board>>
      BY <1>2 DEF Publish, Put, Change, End, TakeOff, shared
    <2> QED BY <1>1, <2>1, <2>2
  <1>3. CASE Create
    BY <1>1, <1>3 DEF Create, shared, server
  <1>4. CASE Restart
    <2>1. started_at' = started_at + 1 /\ held' = held /\ reply' = [p \in Pollers |-> Nothing]
      BY <1>4 DEF Restart
    <2>2. \A p \in Pollers : Dated(held[p])'
      <3> TAKE p \in Pollers
      <3>1. held[p] \in Response /\ Dated(held[p])
        BY <1>b DEF TagInv
      <3> QED BY <2>1, <3>1, DatedLater
    <2>3. Dated(Nothing)'
      BY <1>a DEF Dated, Nothing, NoTag, TypeOK
    <2>4. \A p \in Pollers : Dated(reply[p])'
      BY <2>1, <2>3 DEF Dated
    <2> QED BY <2>2, <2>4 DEF TagInv
  <1>5. ASSUME NEW p \in Pollers, UNCHANGED <<shared, held>>,
               NEW r, reply' = [reply EXCEPT ![p] = r], r.status = 200 => Dated(r)
        PROVE  TagInv'
    BY <1>5 DEF TagInv, Dated, shared, TypeOK
  <1>6. ASSUME NEW p \in Pollers, Close(p) \/ Fail(p) PROVE TagInv'
    <2>1. reply' = [reply EXCEPT ![p] = Nothing] /\ UNCHANGED <<shared, held>>
      BY <1>6 DEF Close, Fail, Released
    <2> QED BY <1>5, <2>1, NothingDated
  <1>7. ASSUME NEW p \in Pollers, Accept(p) \/ Request(p) \/ Modified(p) PROVE TagInv'
    BY <1>1, <1>7 DEF Accept, Request, Modified, shared
  <1>8. ASSUME NEW p \in Pollers, NotModified(p) PROVE TagInv'
    <2> DEFINE r == [status |-> 304, tag |-> ETag, body |-> {}]
    <2>1. reply' = [reply EXCEPT ![p] = r] /\ UNCHANGED <<shared, held>>
      BY <1>8 DEF NotModified
    <2>2. r.status # 200
      OBVIOUS
    <2> HIDE DEF r
    <2> QED BY <1>5, <2>1, <2>2
  <1>9. ASSUME NEW p \in Pollers, ToJson(p) PROVE TagInv'
    <2>1. Dated([status |-> 200, tag |-> ETag, body |-> board])
      BY DEF Dated, ETag
    <2>2. /\ reply' = [reply EXCEPT ![p] = [status |-> 200, tag |-> ETag, body |-> board]]
          /\ UNCHANGED <<shared, held>>
      BY <1>9 DEF ToJson
    <2> QED BY <1>5, <2>1, <2>2
  <1>10. ASSUME NEW p \in Pollers, Respond(p) PROVE TagInv'
    <2>1. UNCHANGED shared /\ reply' = [reply EXCEPT ![p] = Nothing]
          /\ held' = [held EXCEPT ![p] = IF reply[p].status = 304 THEN @ ELSE reply[p]]
      BY <1>10 DEF Respond, Released
    <2>2. Dated(held'[p])
      BY <1>b, <2>1 DEF TagInv, TypeOK, Response
    <2>3. \A q \in Pollers : Dated(held'[q])
      BY <2>1, <2>2 DEF TagInv, TypeOK
    <2>4. \A q \in Pollers : reply'[q].status = 200 => Dated(reply'[q])
      BY <2>1, NothingDated DEF TagInv, TypeOK
    <2> QED BY <2>1, <2>3, <2>4 DEF TagInv, Dated, shared
  <1>11. CASE UNCHANGED vars
    BY <1>1, <1>11 DEF vars, shared, server
  <1> QED BY <1>2, <1>3, <1>4, <1>6, <1>7, <1>8, <1>9, <1>10, <1>11 DEF Next

LEMMA TagsTrue == TypeOK /\ TagInv => NotModifiedIsTrue
  BY SMTT(15), ZenonT(40) DEF TypeOK, TagInv, Dated, NotModifiedIsTrue, ETag, Response, Tag, NoTag

(* 304 is the truth: a poller whose tag is the board's holds the board,     *)
(* over any publishing, removal, loss of connections and restart.           *)
THEOREM TagsTellTheTruth == Spec => []NotModifiedIsTrue
  <1> QED BY TypeInit, TypeNext, TagInit, TagNext, TagsTrue, PTL DEF Spec

(***************************************************************************)
(* The board                                                               *)
(***************************************************************************)

LEMMA BoardInit == Init => LobbyInv /\ BoardIsLive
  BY DEF Init, LobbyInv, BoardIsLive

LEMMA BoardNext == TypeOK /\ LobbyInv /\ BoardIsLive /\ [Next]_vars => (LobbyInv /\ BoardIsLive)'
  <1> SUFFICES ASSUME TypeOK, LobbyInv, BoardIsLive, [Next]_vars PROVE (LobbyInv /\ BoardIsLive)'
    OBVIOUS
  <1>1. ASSUME NEW g \in Games, Publish(g) PROVE (LobbyInv /\ BoardIsLive)'
    <2> DEFINE left == left_lobby[g] \/ phase[g] # "lobby"
               s == [game |-> g, phase |-> phase[g], view |-> view[g], left_lobby |-> left]
    <2>1. left <=> phase[g] # "lobby"
      BY DEF LobbyInv
    <2>2. /\ board' = Others(g) \union {s} /\ g \in live
          /\ left_lobby' = [left_lobby EXCEPT ![g] = left]
          /\ last_hash' = [last_hash EXCEPT ![g] = <<phase[g], view[g]>>]
          /\ UNCHANGED <<live, phase>>
      BY <1>1 DEF Publish, Put, Fingerprint
    <2>3. LobbyInv'
      BY <2>1, <2>2 DEF LobbyInv, TypeOK
    <2> HIDE DEF left
    <2>4. ASSUME NEW e \in board'
          PROVE  /\ e.game \in live' /\ last_hash'[e.game] = <<e.phase, e.view>>
                 /\ e.left_lobby <=> e.phase # "lobby"
      BY <2>1, <2>2 DEF BoardIsLive, Others, TypeOK, Snapshot
    <2>5. ASSUME NEW e \in board', NEW f \in board', f.game = e.game PROVE f = e
      BY <2>2, <2>5 DEF BoardIsLive, Others
    <2> QED BY <2>3, <2>4, <2>5 DEF BoardIsLive
  <1>2. CASE Create
    BY <1>2 DEF Create, shared, LobbyInv, BoardIsLive
  <1>3. ASSUME NEW g \in Games, Change(g) PROVE (LobbyInv /\ BoardIsLive)'
    BY <1>3 DEF Change, shared, LobbyInv, BoardIsLive, TypeOK
  <1>4. ASSUME NEW g \in Games, End(g) PROVE (LobbyInv /\ BoardIsLive)'
    BY <1>4 DEF End, TakeOff, Others, LobbyInv, BoardIsLive
  <1>5. CASE Restart
    BY <1>5 DEF Restart, LobbyInv, BoardIsLive
  <1>6. ASSUME UNCHANGED <<shared, actors>> PROVE (LobbyInv /\ BoardIsLive)'
    BY <1>6 DEF shared, actors, LobbyInv, BoardIsLive
  <1>7. ASSUME NEW p \in Pollers, \/ Accept(p) \/ Close(p) \/ Request(p) \/ NotModified(p)
                                 \/ Modified(p) \/ ToJson(p) \/ Respond(p) \/ Fail(p)
        PROVE  (LobbyInv /\ BoardIsLive)'
    <2>1. UNCHANGED <<shared, actors>>
      BY <1>7 DEF Accept, Close, Request, NotModified, Modified, ToJson, Respond, Fail
    <2> QED BY <1>6, <2>1
  <1>8. CASE UNCHANGED vars
    BY <1>6, <1>8 DEF vars
  <1> QED BY <1>1, <1>2, <1>3, <1>4, <1>5, <1>7, <1>8 DEF Next

(* The board never shows a game whose actor is gone, a game twice, or       *)
(* anything but what the game last published.                               *)
THEOREM BoardShowsTheLiving == Spec => []BoardIsLive
  <1> QED BY TypeInit, TypeNext, BoardInit, BoardNext, PTL DEF Spec

=============================================================================
