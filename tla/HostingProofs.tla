---------------------------- MODULE HostingProofs ----------------------------
(***************************************************************************)
(* That BotCore's registry is right up to the events on their way, for any *)
(* number of games, commands and events.  What a handler may conclude from *)
(* an event depends on the order of the queue: a game's "deleted" is the   *)
(* last that is heard of it, so while anything else of a closed game is on *)
(* its way, its "deleted" still follows.                                   *)
(***************************************************************************)
EXTENDS Hosting, TLAPS

Types == {"logged_in", "registered", "unhost", "started", "deleted"}
News(limit) == [type : Types, host_counter : 0..limit]

\* Games that have an event of theirs on its way.
Starting == {hc \in Games : InEvents("started", hc)}
Ending == {hc \in Games : InEvents("deleted", hc)}

\* Each event was true when it was sent, and still means something.
NewsTrue ==
    \A i \in DOMAIN events :
        LET type == events[i].type
            hc == events[i].host_counter
        IN  /\ type # "logged_in" => hc # NoGame
            /\ type = "unhost" => hc \in asked
            /\ type = "started" => phase[hc] \in {"started", "closed", "lost"}
            /\ type = "deleted" => phase[hc] = "closed"
            /\ type \in {"registered", "unhost", "started"} /\ phase[hc] = "closed" => hc \in Ending

DeletedLast ==
    \A i, j \in DOMAIN events :
        i < j /\ events[i].type = "deleted" => events[j].host_counter # events[i].host_counter

\* RegistryExact without the types, and that the lobby was not told to close.
Placed ==
    /\ current_game # NoGame =>
          /\ current_game \notin games \union closing
          /\ \/ phase[current_game] \in {"lobby", "lost"}
             \/ current_game \in Starting \union Ending
    /\ \A hc \in games : phase[hc] \in {"started", "lost"} \/ hc \in Ending
    /\ Running \subseteq games \union closing \union {current_game}

KeysKept == \A hc \in gproxy_keys : phase[hc] = "closed" => hc \in Ending

Queue == NewsTrue /\ DeletedLast
IInv == TypeOK /\ Queue /\ Placed /\ KeysKept /\ UnhostHitsOwnLobby /\ OnlyLobbyTold

(***************************************************************************)
(* The queue                                                               *)
(***************************************************************************)

\* More games make more events possible.
LEMMA NewsGrows ==
    ASSUME NEW m \in Nat, NEW n \in Nat, m <= n, NEW q \in Seq(News(m))
    PROVE  q \in Seq(News(n))
  <1>1. News(m) \subseteq News(n)
    BY DEF News
  <1> QED
    BY <1>1

\* After the first event was taken, for a handler that leaves the phases of
\* the games there are as they were.
LEMMA Taken ==
    ASSUME TypeOK, Queue, events # <<>>, events' = Tail(events), asked' = asked,
           host_counter' \in Nat, host_counter <= host_counter',
           \A hc \in 1..host_counter : phase'[hc] = phase[hc]
    PROVE  /\ Head(events) \in News(host_counter)
           /\ events' \in Seq(News(host_counter'))
           /\ Queue'
           /\ Head(events).type # "started" => Starting \subseteq Starting'
           /\ Head(events).type # "deleted" => Ending \subseteq Ending'
           /\ Starting \ {Sender} \subseteq Starting' /\ Ending \ {Sender} \subseteq Ending'
           /\ Sender \in Ending => Head(events).type = "deleted" \/ Sender \in Ending'
  <1> DEFINE n == Len(events)
  <1>1. events \in Seq(News(host_counter)) /\ host_counter \in Nat /\ host_counter <= MaxHosted
    BY HostingAssumption DEF TypeOK, News, Types
  <1>2. /\ n \in Nat \ {0} /\ DOMAIN events = 1..n
        /\ Tail(events) \in Seq(News(host_counter)) /\ Len(Tail(events)) = n - 1
        /\ DOMAIN events' = 1..n - 1
        /\ \A i \in 1..n - 1 : events'[i] = events[i + 1]
        /\ Head(events) = events[1]
    BY <1>1
  <1>3. Head(events) \in News(host_counter)
    BY <1>1, <1>2
  <1>4. events' \in Seq(News(host_counter'))
    BY <1>1, <1>2, NewsGrows
  <1>5. \A i \in 1..n : events[i] \in News(host_counter)
    BY <1>1, <1>2
  <1>6. DeletedLast'
    BY <1>2, SMTT(15), ZenonT(40) DEF Queue, DeletedLast
  <1>7. \A type \in Types, hc \in Games :
           InEvents(type, hc) /\ (Head(events).type # type \/ Sender # hc)
              => \E i \in DOMAIN events' : events'[i] = Event(type, hc)
    <2> SUFFICES ASSUME NEW type \in Types, NEW hc \in Games, InEvents(type, hc),
                        Head(events).type # type \/ Sender # hc
                 PROVE  \E i \in DOMAIN events' : events'[i] = Event(type, hc)
      OBVIOUS
    <2>1. PICK i \in 1..n : events[i] = Event(type, hc)
      BY <1>2 DEF InEvents
    <2>2. i # 1
      BY <1>2, <2>1 DEF Event, Sender
    <2>3. i - 1 \in 1..n - 1 /\ events'[i - 1] = events[i]
      BY <1>2, <2>2
    <2> QED
      BY <1>2, <2>1, <2>3
  <1>8. /\ \A hc \in Starting : Head(events).type # "started" \/ Sender # hc => hc \in Starting'
        /\ \A hc \in Ending : Head(events).type # "deleted" \/ Sender # hc => hc \in Ending'
    BY <1>7 DEF Starting, Ending, InEvents, Types
  <1>9. NewsTrue'
    <2> SUFFICES ASSUME NEW i \in 1..n - 1
                 PROVE  LET type == events'[i].type
                            hc == events'[i].host_counter
                        IN  /\ type # "logged_in" => hc # NoGame
                            /\ type = "unhost" => hc \in asked'
                            /\ type = "started" => phase'[hc] \in {"started", "closed", "lost"}
                            /\ type = "deleted" => phase'[hc] = "closed"
                            /\ type \in {"registered", "unhost", "started"} /\ phase'[hc] = "closed"
                                  => hc \in Ending'
      BY <1>2 DEF NewsTrue
    <2> DEFINE e == events[i + 1]
    <2>1. events'[i] = e /\ i + 1 \in 1..n /\ 1 < i + 1 /\ e \in News(host_counter)
      BY <1>2, <1>5
    <2>2. /\ e.type # "logged_in" => e.host_counter # NoGame
          /\ e.type = "unhost" => e.host_counter \in asked
          /\ e.type = "started" => phase[e.host_counter] \in {"started", "closed", "lost"}
          /\ e.type = "deleted" => phase[e.host_counter] = "closed"
          /\ e.type \in {"registered", "unhost", "started"} /\ phase[e.host_counter] = "closed"
                => e.host_counter \in Ending
      BY <1>2, <2>1 DEF Queue, NewsTrue
    <2>3. e.type # "logged_in" => phase'[e.host_counter] = phase[e.host_counter]
      BY <1>1, <2>1, <2>2, SMTT(15), ZenonT(40) DEF News, NoGame
    <2>4. Head(events).type # "deleted" \/ Sender # e.host_counter
      BY <1>2, <2>1 DEF Queue, DeletedLast, Sender
    <2> QED
      BY <1>8, <2>1, <2>2, <2>3, <2>4
  <1> QED
    BY <1>3, <1>4, <1>6, <1>8, <1>9 DEF Queue

\* After an event was sent that is true, by a game that is not closed unless
\* this is its end.
LEMMA Sent ==
    ASSUME TypeOK, Queue, NEW type \in Types, NEW hc \in 0..host_counter, Emit(type, hc),
           host_counter' = host_counter, asked \subseteq asked',
           \A g \in 1..host_counter : g # hc => phase'[g] = phase[g],
           type = "logged_in" => hc = NoGame,
           type # "logged_in" => hc # NoGame /\ phase[hc] # "closed",
           type \in {"logged_in", "registered", "unhost"} => phase' = phase,
           type = "unhost" => hc \in asked',
           type = "started" => phase'[hc] = "started",
           type = "deleted" => phase'[hc] = "closed",
           hc # NoGame /\ phase[hc] = "started" => phase'[hc] \in {"started", "closed", "lost"}
    PROVE  /\ events' \in Seq(News(host_counter'))
           /\ Queue'
           /\ Starting \subseteq Starting' /\ Ending \subseteq Ending'
           /\ type = "started" => hc \in Starting'
           /\ type = "deleted" => hc \in Ending'
  <1> DEFINE n == Len(events)
             e == Event(type, hc)
  <1>1. events \in Seq(News(host_counter)) /\ host_counter \in Nat /\ host_counter <= MaxHosted
    BY HostingAssumption DEF TypeOK, News, Types
  <1>2. e \in News(host_counter) /\ e.type = type /\ e.host_counter = hc
    BY <1>1 DEF Event, News
  <1>3. /\ n \in Nat /\ DOMAIN events = 1..n
        /\ events' \in Seq(News(host_counter)) /\ DOMAIN events' = 1..n + 1
        /\ \A i \in 1..n : events'[i] = events[i]
        /\ events'[n + 1] = e
    BY <1>1, <1>2 DEF Emit
  <1>4. \A i \in 1..n : events[i] \in News(host_counter)
    BY <1>1, <1>3
  <1>5. Starting \subseteq Starting' /\ Ending \subseteq Ending'
    <2>1. DOMAIN events \subseteq DOMAIN events' /\ \A i \in DOMAIN events : events'[i] = events[i]
      BY <1>3
    <2> QED
      BY <2>1 DEF Starting, Ending, InEvents
  <1>6. (type = "started" => hc \in Starting') /\ (type = "deleted" => hc \in Ending')
    <2>1. type # "logged_in" => hc \in Games
      BY <1>1, HostingAssumption DEF Games, NoGame
    <2>2. n + 1 \in DOMAIN events' /\ events'[n + 1] = Event(type, hc)
      BY <1>3
    <2> QED
      BY <2>1, <2>2 DEF Starting, Ending, InEvents
  <1>7. DeletedLast'
    <2> SUFFICES ASSUME NEW i \in 1..n + 1, NEW j \in 1..n + 1, i < j,
                        events'[i].type = "deleted"
                 PROVE  events'[j].host_counter # events'[i].host_counter
      BY <1>3 DEF DeletedLast
    <2>1. i \in 1..n /\ events'[i] = events[i]
      BY <1>3
    <2>2. CASE j \in 1..n
      BY <1>3, <2>1, <2>2 DEF Queue, DeletedLast
    <2>3. CASE j = n + 1
      <3>1. phase[events[i].host_counter] = "closed" /\ events[i].host_counter # NoGame
        BY <1>3, <2>1 DEF Queue, NewsTrue
      <3> QED
        BY <1>2, <1>3, <2>1, <2>3, <3>1
    <2> QED
      BY <1>3, <2>2, <2>3
  <1>8. NewsTrue'
    <2> SUFFICES ASSUME NEW i \in 1..n + 1
                 PROVE  LET t == events'[i].type
                            g == events'[i].host_counter
                        IN  /\ t # "logged_in" => g # NoGame
                            /\ t = "unhost" => g \in asked'
                            /\ t = "started" => phase'[g] \in {"started", "closed", "lost"}
                            /\ t = "deleted" => phase'[g] = "closed"
                            /\ t \in {"registered", "unhost", "started"} /\ phase'[g] = "closed"
                                  => g \in Ending'
      BY <1>3 DEF NewsTrue
    <2>1. CASE i = n + 1
      BY <1>2, <1>3, <2>1, <1>6
    <2>2. CASE i \in 1..n
      <3> DEFINE f == events[i]
                 g == f.host_counter
      <3>1. events'[i] = f /\ f \in News(host_counter)
        BY <1>3, <1>4, <2>2
      <3>2. /\ f.type # "logged_in" => g # NoGame
            /\ f.type = "unhost" => g \in asked
            /\ f.type = "started" => phase[g] \in {"started", "closed", "lost"}
            /\ f.type = "deleted" => phase[g] = "closed"
            /\ f.type \in {"registered", "unhost", "started"} /\ phase[g] = "closed"
                  => g \in Ending
        BY <1>3, <2>2 DEF Queue, NewsTrue
      <3>3. f.type # "logged_in" => g \in 1..host_counter
        BY <1>1, <3>1, <3>2 DEF News, NoGame
      <3>4. CASE g # hc \/ type \in {"logged_in", "registered", "unhost"}
        <4>1. f.type # "logged_in" => phase'[g] = phase[g]
          BY <3>3, <3>4
        <4> QED
          BY <1>5, <3>1, <3>2, <4>1
      <3>5. CASE g = hc /\ type \in {"started", "deleted"}
        BY <1>5, <1>6, <3>1, <3>2, <3>5
      <3> QED
        BY <3>4, <3>5 DEF Types
    <2> QED
      BY <1>3, <2>1, <2>2
  <1> QED
    BY <1>3, <1>5, <1>6, <1>7, <1>8 DEF Queue

(***************************************************************************)
(* BotCore's handlers                                                      *)
(***************************************************************************)

\* What a handler does with the lobby: a new one is hosted, or it is l.
Outcome(l, t) ==
    \/ l = NoGame /\ host_counter < MaxHosted /\ Create
    \/ current_game' = l /\ told' = t /\ UNCHANGED <<host_counter, phase>>

LEMMA TryAutohostOutcome ==
    ASSUME NEW l, NEW t, TryAutohost(l, t)
    PROVE  Outcome(l, t)
  BY DEF TryAutohost, AutohostDue, Outcome

\* No game's actor is disturbed by it.
LEMMA ActorsKept ==
    ASSUME TypeOK, NEW l, NEW t, Outcome(l, t)
    PROVE  /\ host_counter' \in Nat /\ host_counter <= host_counter'
           /\ \A hc \in 1..host_counter : phase'[hc] = phase[hc]
  BY HostingAssumption DEF TypeOK, Outcome, Create, Games

\* A handler that took an event, or was called for, keeps the invariant if the
\* lobby it leaves, or l, and the games are placed right before any is created.
LEMMA HandlerInv ==
    ASSUME TypeOK, NEW l \in {NoGame, current_game}, NEW t \in {NoGame, l}, Outcome(l, t),
           events' \in Seq(News(host_counter')), Queue',
           games' \in SUBSET (1..host_counter), gproxy_keys' \in SUBSET (1..host_counter),
           closing' \in SUBSET asked', asked' \in SUBSET (1..host_counter),
           autohost_enabled' \in BOOLEAN, games_disabled' \in BOOLEAN,
           logins' \in 0..MaxLogins, unhosts' \in 0..MaxUnhosts,
           l # NoGame => /\ l \notin games' \union closing'
                         /\ phase[l] \in {"lobby", "lost"} \/ l \in Starting' \union Ending',
           \A hc \in games' : phase[hc] \in {"started", "lost"} \/ hc \in Ending',
           Running \subseteq games' \union closing' \union {l},
           \A hc \in gproxy_keys' : phase[hc] = "closed" => hc \in Ending'
    PROVE  IInv'
  <1>1. host_counter \in Nat /\ host_counter <= MaxHosted /\ MaxHosted \in Nat /\ l \in 0..host_counter
    BY HostingAssumption DEF TypeOK, NoGame
  <1>2. CASE current_game' = l /\ told' = t /\ UNCHANGED <<host_counter, phase>>
    <2>1. TypeOK'
      BY <1>1, <1>2 DEF TypeOK, News, Types, NoGame
    <2>2. Placed' /\ KeysKept' /\ UnhostHitsOwnLobby' /\ OnlyLobbyTold'
      BY <1>2 DEF Placed, KeysKept, UnhostHitsOwnLobby, OnlyLobbyTold, Running
    <2> QED
      BY <2>1, <2>2 DEF IInv
  <1>3. CASE l = NoGame /\ host_counter < MaxHosted /\ Create
    <2> DEFINE new == host_counter + 1
    <2>1. /\ current_game' = new /\ told' = new /\ host_counter' = new
          /\ new \in Games /\ new \in Nat \ {0} /\ new \notin 1..host_counter
          /\ phase \in [Games -> {"none", "lobby", "started", "closed", "lost"}]
          /\ \A hc \in Games : phase[hc] = "none" <=> hc > host_counter
          /\ phase' = [phase EXCEPT ![new] = "lobby"]
      BY <1>1, <1>3 DEF Create, Games, TypeOK
    <2>2. /\ phase' \in [Games -> {"none", "lobby", "started", "closed", "lost"}]
          /\ phase'[new] = "lobby"
          /\ \A hc \in Games : hc # new => phase'[hc] = phase[hc]
      BY <2>1
    <2>3. \A hc \in Games : phase'[hc] = "none" <=> hc > host_counter'
      BY <1>1, <2>1, <2>2 DEF Games
    <2>4. 1..host_counter \subseteq Games /\ 1..host_counter \subseteq 1..new
      BY <1>1, <2>1 DEF Games
    <2>5. TypeOK'
      <3>1. {games', gproxy_keys', closing', asked'} \subseteq SUBSET (1..new)
        BY <2>4
      <3>2. /\ current_game' \in 0..new /\ told' \in 0..new /\ new \in 0..MaxHosted
            /\ {autohost_enabled', games_disabled'} \subseteq BOOLEAN
            /\ logins' \in 0..MaxLogins /\ unhosts' \in 0..MaxUnhosts
        BY <1>1, <1>3, <2>1, SMTT(15), ZenonT(40) DEF TypeOK
      <3>3. events' \in Seq(News(new))
        BY <2>1
      <3> QED
        BY <2>1, <2>2, <2>3, <3>1, <3>2, <3>3 DEF TypeOK, News, Types
    <2>6. KeysKept' /\ UnhostHitsOwnLobby' /\ OnlyLobbyTold'
      BY <2>1, <2>2, <2>4 DEF KeysKept, UnhostHitsOwnLobby, OnlyLobbyTold
    <2>7. Running' \subseteq games' \union closing' \union {current_game'}
      BY <1>3, <2>1, <2>2 DEF Running, NoGame
    <2>8. Placed'
      BY <2>1, <2>2, <2>4, <2>7 DEF Placed
    <2> QED
      BY <2>5, <2>6, <2>8 DEF IInv
  <1> QED
    BY <1>2, <1>3 DEF Outcome

\* What a handler may assume of the event it took.
LEMMA HandleFacts ==
    ASSUME IInv, NEW type \in Types, Handle(type)
    PROVE  /\ Head(events) \in News(host_counter) /\ Head(events).type = type
           /\ Sender \in 0..host_counter
           /\ type # "logged_in" => Sender \in 1..host_counter
           /\ type = "unhost" => Sender \in asked
           /\ type = "started" => phase[Sender] \in {"started", "closed", "lost"}
           /\ type = "deleted" => phase[Sender] = "closed"
           /\ type \in {"registered", "unhost", "started"} /\ phase[Sender] = "closed"
                 => Sender \in Ending
  <1>1. /\ events \in Seq(News(host_counter)) /\ events # <<>> /\ Head(events).type = type
        /\ host_counter \in Nat
    BY HostingAssumption DEF IInv, TypeOK, News, Types, Handle
  <1>2. Head(events) \in News(host_counter) /\ 1 \in DOMAIN events /\ Head(events) = events[1]
    BY <1>1
  <1>3. Sender \in 0..host_counter
    BY <1>2 DEF News, Sender
  <1> QED
    BY <1>1, <1>2, <1>3 DEF IInv, Queue, NewsTrue, Sender, NoGame

\* A handler that took an event and creates at most a game.
LEMMA HandleTaken ==
    ASSUME IInv, NEW type \in Types, Handle(type), NEW l, NEW t, Outcome(l, t), asked' = asked
    PROVE  /\ events' \in Seq(News(host_counter')) /\ Queue'
           /\ type # "started" => Starting \subseteq Starting'
           /\ type # "deleted" => Ending \subseteq Ending'
           /\ Starting \ {Sender} \subseteq Starting' /\ Ending \ {Sender} \subseteq Ending'
  <1>1. /\ host_counter' \in Nat /\ host_counter <= host_counter'
        /\ \A hc \in 1..host_counter : phase'[hc] = phase[hc]
    BY ActorsKept DEF IInv
  <1> QED
    BY <1>1, Taken DEF IInv, Handle

\* A command that leaves the queue alone.
LEMMA QueueKept ==
    ASSUME IInv, NEW l, NEW t, Outcome(l, t), events' = events, asked \subseteq asked'
    PROVE  /\ events' \in Seq(News(host_counter')) /\ Queue'
           /\ Starting' = Starting /\ Ending' = Ending
  <1>1. /\ host_counter' \in Nat /\ host_counter <= host_counter' /\ host_counter \in Nat
        /\ \A hc \in 1..host_counter : phase'[hc] = phase[hc]
    BY ActorsKept DEF IInv, TypeOK
  <1>2. events \in Seq(News(host_counter))
    BY DEF IInv, TypeOK, News, Types
  <1>3. events' \in Seq(News(host_counter'))
    BY <1>1, <1>2, NewsGrows
  <1>4. Starting' = Starting /\ Ending' = Ending
    BY DEF Starting, Ending, InEvents
  <1>5. \A i \in DOMAIN events :
           /\ events[i] \in News(host_counter)
           /\ events[i].type # "logged_in" => events[i].host_counter \in 1..host_counter
    <2>1. \A i \in DOMAIN events : events[i] \in News(host_counter)
      BY <1>2
    <2>2. \A i \in DOMAIN events : events[i].type # "logged_in" => events[i].host_counter # 0
      BY DEF IInv, Queue, NewsTrue, NoGame
    <2> QED
      BY <1>1, <2>1, <2>2 DEF News
  <1>6. NewsTrue'
    BY <1>1, <1>4, <1>5 DEF IInv, Queue, NewsTrue
  <1>7. DeletedLast'
    BY DEF IInv, Queue, DeletedLast
  <1> QED
    BY <1>3, <1>4, <1>6, <1>7 DEF Queue

\* The registry as it is, restated for what follows.
LEMMA RegistryFacts ==
    ASSUME IInv
    PROVE  /\ games \in SUBSET (1..host_counter) /\ gproxy_keys \in SUBSET (1..host_counter)
           /\ closing \in SUBSET asked /\ asked \in SUBSET (1..host_counter)
           /\ autohost_enabled \in BOOLEAN /\ games_disabled \in BOOLEAN
           /\ logins \in 0..MaxLogins /\ unhosts \in 0..MaxUnhosts
           /\ told \in {NoGame, current_game}
           /\ current_game \in 0..host_counter /\ host_counter \in Nat
           /\ current_game # NoGame => current_game \in 1..host_counter
  <1>1. current_game \in 0..host_counter /\ host_counter \in Nat
    BY HostingAssumption DEF IInv, TypeOK
  <1> QED
    BY <1>1 DEF IInv, TypeOK, UnhostHitsOwnLobby, OnlyLobbyTold, NoGame

LEMMA LoggedInHandled == ASSUME IInv, HandleLoggedIn PROVE IInv'
  <1>1. Handle("logged_in") /\ Outcome(current_game, told)
    BY TryAutohostOutcome DEF HandleLoggedIn
  <1>2. /\ events' \in Seq(News(host_counter')) /\ Queue'
        /\ Starting \subseteq Starting' /\ Ending \subseteq Ending'
    BY <1>1, HandleTaken DEF Types, HandleLoggedIn, inputs
  <1>3. UNCHANGED <<games, gproxy_keys, switches, closing, inputs>>
    BY DEF HandleLoggedIn
  <1> QED
    BY <1>1, <1>2, <1>3, HandlerInv, RegistryFacts DEF IInv, Placed, KeysKept, switches, inputs

LEMMA GProxyRegisteredHandled == ASSUME IInv, HandleGProxyRegistered PROVE IInv'
  <1>1. /\ Handle("registered") /\ Outcome(current_game, told)
        /\ gproxy_keys' = gproxy_keys \union {Sender}
        /\ UNCHANGED <<games, switches, closing, inputs>>
    BY DEF HandleGProxyRegistered, Outcome
  <1>2. /\ events' \in Seq(News(host_counter')) /\ Queue'
        /\ Starting \subseteq Starting' /\ Ending \subseteq Ending'
    BY <1>1, HandleTaken DEF Types, inputs
  <1>3. Sender \in 1..host_counter /\ (phase[Sender] = "closed" => Sender \in Ending)
    BY <1>1, HandleFacts DEF Types
  <1> QED
    BY <1>1, <1>2, <1>3, HandlerInv, RegistryFacts DEF IInv, Placed, KeysKept, switches, inputs

\* unhost_game, for an !unhost of the lobby.
LEMMA UnhostGameInv ==
    ASSUME IInv, current_game # NoGame, UnhostGame, current_game \in asked', asked \subseteq asked',
           asked' \in SUBSET (1..host_counter),
           events' \in Seq(News(host_counter')), Queue',
           Starting \subseteq Starting', Ending \subseteq Ending',
           UNCHANGED <<games, host_counter, gproxy_keys, switches, phase, logins, unhosts>>
    PROVE  IInv'
  <1>1. Outcome(NoGame, NoGame) /\ closing' = closing \union {current_game}
    BY DEF UnhostGame, Outcome, Uncreated
  <1>2. Running \subseteq games' \union closing' \union {NoGame}
    BY <1>1 DEF IInv, Placed
  <1> QED
    BY <1>1, <1>2, HandlerInv, RegistryFacts DEF IInv, Placed, KeysKept, switches

LEMMA UnhostHandled == ASSUME IInv, HandleUnhost PROVE IInv'
  <1>1. /\ Handle("unhost")
        /\ UNCHANGED <<games, host_counter, gproxy_keys, switches, phase, inputs>>
    BY DEF HandleUnhost
  <1>2. Outcome(current_game', told')
    BY <1>1 DEF Outcome
  <1>3. /\ events' \in Seq(News(host_counter')) /\ Queue'
        /\ Starting \subseteq Starting' /\ Ending \subseteq Ending'
    BY <1>1, <1>2, HandleTaken DEF Types, inputs
  <1>4. Sender \in asked /\ Sender \in 1..host_counter
    BY <1>1, HandleFacts DEF Types
  <1>5. CASE Lobby(Sender)
    <2>1. UnhostGame /\ current_game = Sender /\ current_game # NoGame
      BY <1>4, <1>5 DEF HandleUnhost, Lobby, NoGame
    <2> QED
      BY <1>1, <1>3, <1>4, <2>1, UnhostGameInv, RegistryFacts DEF inputs
  <1>6. CASE ~Lobby(Sender)
    <2>1. UNCHANGED <<current_game, closing, told>> /\ Outcome(current_game, told)
      BY <1>1, <1>6 DEF HandleUnhost, Outcome
    <2> QED
      BY <1>1, <1>3, <2>1, HandlerInv, RegistryFacts DEF IInv, Placed, KeysKept, switches, inputs
  <1> QED
    BY <1>5, <1>6

LEMMA GameStartedHandled == ASSUME IInv, HandleGameStarted PROVE IInv'
  <1> DEFINE l == IF Lobby(Sender) THEN NoGame ELSE current_game
  <1>1. /\ Handle("started") /\ Outcome(l, NoGame) /\ games' = MoveLobby(Sender)
        /\ UNCHANGED <<gproxy_keys, switches, closing, inputs>>
    BY TryAutohostOutcome DEF HandleGameStarted, Uncreated
  <1>2. /\ events' \in Seq(News(host_counter')) /\ Queue'
        /\ Starting \ {Sender} \subseteq Starting' /\ Ending \subseteq Ending'
    BY <1>1, HandleTaken DEF Types, inputs
  <1>3. /\ Sender \in 1..host_counter /\ phase[Sender] \in {"started", "closed", "lost"}
        /\ phase[Sender] = "closed" => Sender \in Ending
    BY <1>1, HandleFacts DEF Types
  <1>4. CASE Lobby(Sender)
    <2>1. l = NoGame /\ games' = games \union {Sender} /\ current_game = Sender
      BY <1>1, <1>4 DEF MoveLobby, Lobby
    <2>2. Running \subseteq games' \union closing' \union {l}
      BY <1>1, <2>1 DEF IInv, Placed
    <2> QED
      BY <1>1, <1>2, <1>3, <2>1, <2>2, HandlerInv, RegistryFacts
         DEF IInv, Placed, KeysKept, switches, inputs
  <1>5. CASE ~Lobby(Sender)
    <2>1. l = current_game /\ games' = games /\ current_game # Sender
      BY <1>1, <1>5 DEF MoveLobby, Lobby
    <2> QED
      BY <1>1, <1>2, <2>1, HandlerInv, RegistryFacts DEF IInv, Placed, KeysKept, switches, inputs
  <1> QED
    BY <1>4, <1>5

LEMMA DeletedHandled == ASSUME IInv, HandleDeleted PROVE IInv'
  <1>1. /\ Handle("deleted") /\ gproxy_keys' = gproxy_keys \ {Sender}
        /\ games' = IF Lobby(Sender) THEN games ELSE games \ {Sender}
        /\ UNCHANGED <<switches, closing, inputs>>
    BY DEF HandleDeleted, KeysLeft
  <1>2. IF Lobby(Sender) THEN Outcome(NoGame, NoGame) ELSE Outcome(current_game, told)
    BY TryAutohostOutcome DEF HandleDeleted, Uncreated, Replace
  <1>3. /\ events' \in Seq(News(host_counter')) /\ Queue'
        /\ Starting \subseteq Starting' /\ Ending \ {Sender} \subseteq Ending'
    BY <1>1, <1>2, HandleTaken DEF Types, inputs
  <1>4. Sender \in 1..host_counter /\ phase[Sender] = "closed" /\ Sender \notin Running
    BY <1>1, HandleFacts DEF Types, Running
  <1>5. \A hc \in gproxy_keys' : phase[hc] = "closed" => hc \in Ending'
    BY <1>1, <1>3 DEF IInv, KeysKept
  <1>6. CASE Lobby(Sender)
    <2>1. /\ current_game = Sender /\ Sender \notin games /\ games' = games
          /\ Outcome(NoGame, NoGame)
      BY <1>1, <1>2, <1>4, <1>6 DEF IInv, Placed, Lobby, NoGame
    <2>2. /\ Running \subseteq games' \union closing' \union {NoGame}
          /\ \A hc \in games' : phase[hc] \in {"started", "lost"} \/ hc \in Ending'
      BY <1>1, <1>3, <1>4, <2>1 DEF IInv, Placed
    <2> QED
      BY <1>1, <1>3, <1>5, <2>1, <2>2, HandlerInv, RegistryFacts DEF IInv, switches, inputs
  <1>7. CASE ~Lobby(Sender)
    <2>1. /\ current_game # Sender /\ games' = games \ {Sender}
          /\ Outcome(current_game, told)
      BY <1>1, <1>2, <1>7 DEF Lobby
    <2>2. /\ Running \subseteq games' \union closing' \union {current_game}
          /\ \A hc \in games' : phase[hc] \in {"started", "lost"} \/ hc \in Ending'
      BY <1>1, <1>3, <1>4, <2>1 DEF IInv, Placed
    <2>3. current_game # NoGame =>
             /\ current_game \notin games' \union closing'
             /\ \/ phase[current_game] \in {"lobby", "lost"}
                \/ current_game \in Starting' \union Ending'
      BY <1>1, <1>3, <2>1 DEF IInv, Placed
    <2> QED
      BY <1>1, <1>3, <1>5, <2>1, <2>2, <2>3, HandlerInv, RegistryFacts DEF IInv, switches, inputs
  <1> QED
    BY <1>6, <1>7

(***************************************************************************)
(* Commands                                                                *)
(***************************************************************************)

\* A command that at most hosts a game.
LEMMA CommandInv ==
    ASSUME IInv, Outcome(current_game, told),
           autohost_enabled' \in BOOLEAN, games_disabled' \in BOOLEAN,
           UNCHANGED <<games, gproxy_keys, events, closing, inputs>>
    PROVE  IInv'
  <1>1. /\ events' \in Seq(News(host_counter')) /\ Queue'
        /\ Starting' = Starting /\ Ending' = Ending
    BY QueueKept DEF inputs
  <1> QED
    BY <1>1, HandlerInv, RegistryFacts DEF IInv, Placed, KeysKept, inputs

LEMMA CreateGameInv == ASSUME IInv, CreateGame PROVE IInv'
  <1>1. /\ Outcome(current_game, told) /\ current_game = NoGame
        /\ UNCHANGED <<games, gproxy_keys, switches, events, closing, inputs>>
    BY DEF CreateGame, Outcome
  <1> QED
    BY <1>1, CommandInv, RegistryFacts DEF switches

LEMMA SwitchAutohostInv == ASSUME IInv, NEW on \in BOOLEAN, SwitchAutohost(on) PROVE IInv'
  <1>1. Outcome(current_game, told)
    BY TryAutohostOutcome DEF SwitchAutohost, Outcome
  <1> QED
    BY <1>1, CommandInv, RegistryFacts DEF SwitchAutohost

LEMMA SwitchGamesInv == ASSUME IInv, NEW off \in BOOLEAN, SwitchGames(off) PROVE IInv'
  <1>1. Outcome(current_game, told)
    BY TryAutohostOutcome DEF SwitchGames, Outcome
  <1> QED
    BY <1>1, CommandInv, RegistryFacts DEF SwitchGames

LEMMA UnhostCommandInv == ASSUME IInv, UnhostCommand PROVE IInv'
  <1>1. /\ current_game # NoGame /\ UnhostGame /\ asked' = asked \union {current_game}
        /\ UNCHANGED <<games, host_counter, gproxy_keys, switches, events, phase, logins, unhosts>>
    BY DEF UnhostCommand
  <1>2. Outcome(current_game', told')
    BY <1>1 DEF Outcome
  <1>3. /\ events' \in Seq(News(host_counter')) /\ Queue'
        /\ Starting' = Starting /\ Ending' = Ending
    BY <1>1, <1>2, QueueKept
  <1> QED
    BY <1>1, <1>3, UnhostGameInv, RegistryFacts

(***************************************************************************)
(* Elsewhere                                                               *)
(***************************************************************************)

\* Nothing changes but the queue, and what was asked for.
LEMMA EventSent ==
    ASSUME IInv, NEW type \in {"logged_in", "registered", "unhost"}, NEW hc \in 0..host_counter,
           Emit(type, hc), type = "logged_in" <=> hc = NoGame,
           type # "logged_in" => phase[hc] # "closed",
           UNCHANGED <<registry, switches, phase, closing>>,
           asked \subseteq asked', asked' \in SUBSET (1..host_counter),
           type = "unhost" => hc \in asked',
           logins' \in 0..MaxLogins, unhosts' \in 0..MaxUnhosts
    PROVE  IInv'
  <1>1. /\ events' \in Seq(News(host_counter')) /\ Queue'
        /\ Starting \subseteq Starting' /\ Ending \subseteq Ending'
    <2>1. hc # NoGame => hc \in 1..host_counter
      BY RegistryFacts DEF NoGame
    <2> QED
      BY <2>1, Sent DEF IInv, Types, registry
  <1>2. Outcome(current_game, told)
    BY DEF Outcome, registry
  <1> QED
    BY <1>1, <1>2, HandlerInv, RegistryFacts DEF IInv, Placed, KeysKept, registry, switches

LEMMA LoggedInInv == ASSUME IInv, LoggedIn PROVE IInv'
  <1>1. logins' \in 0..MaxLogins /\ unhosts' = unhosts /\ unhosts \in 0..MaxUnhosts
    BY HostingAssumption DEF LoggedIn, IInv, TypeOK
  <1>2. NoGame \in 0..host_counter
    BY RegistryFacts DEF NoGame
  <1> QED
    BY <1>1, <1>2, EventSent, RegistryFacts DEF LoggedIn

\* A game that is running has its host counter.
LEMMA RunningFacts ==
    ASSUME IInv, NEW hc \in Running
    PROVE  hc \in 1..host_counter /\ hc \in 0..host_counter /\ hc # NoGame /\ phase[hc] # "closed"
  <1>1. hc \in Games /\ phase[hc] # "none" /\ phase[hc] # "closed"
    BY DEF Running
  <1>2. hc \in Nat \ {0} /\ hc <= host_counter
    BY <1>1, HostingAssumption DEF IInv, TypeOK, Games
  <1> QED
    BY <1>1, <1>2, RegistryFacts DEF NoGame

LEMMA RegisterKeyInv == ASSUME IInv, NEW hc \in Games, RegisterKey(hc) PROVE IInv'
  <1>1. /\ hc \in Running /\ Emit("registered", hc)
        /\ UNCHANGED <<registry, switches, phase, closing, inputs>>
    BY DEF RegisterKey
  <1>2. logins' \in 0..MaxLogins /\ unhosts' \in 0..MaxUnhosts /\ asked' = asked
    BY <1>1 DEF IInv, TypeOK, inputs
  <1> QED
    BY <1>1, <1>2, RunningFacts, EventSent, RegistryFacts

LEMMA TypeUnhostInv == ASSUME IInv, NEW hc \in Games, TypeUnhost(hc) PROVE IInv'
  <1>1. /\ hc \in Running /\ Emit("unhost", hc) /\ asked' = asked \union {hc}
        /\ UNCHANGED <<registry, switches, phase, closing, logins>>
    BY DEF TypeUnhost
  <1>2. logins' \in 0..MaxLogins /\ unhosts' \in 0..MaxUnhosts
    BY HostingAssumption DEF TypeUnhost, IInv, TypeOK
  <1>3. asked' \in SUBSET (1..host_counter)
    BY <1>1, RunningFacts, RegistryFacts
  <1> QED
    BY <1>1, <1>2, <1>3, RunningFacts, EventSent

\* A game started or ended, and says so.
LEMMA GameMovesInv ==
    ASSUME IInv, NEW hc \in 1..host_counter, hc \in Running,
           NEW type \in {"started", "deleted"}, Emit(type, hc),
           phase' = [phase EXCEPT ![hc] = IF type = "started" THEN "started" ELSE "closed"],
           UNCHANGED <<registry, switches, closing, inputs>>
    PROVE  IInv'
  <1>1. /\ host_counter \in Nat /\ 1..host_counter \subseteq Games /\ hc \in Games
        /\ phase \in [Games -> {"none", "lobby", "started", "closed", "lost"}]
        /\ \A g \in Games : phase[g] = "none" <=> g > host_counter
        /\ hc <= host_counter /\ ~(hc > host_counter) /\ hc \in 0..host_counter /\ hc # NoGame
        /\ phase[hc] \in {"lobby", "started"}
    BY HostingAssumption DEF IInv, TypeOK, Games, NoGame, Running
  <1>2. /\ phase' \in [Games -> {"none", "lobby", "started", "closed", "lost"}]
        /\ phase'[hc] = IF type = "started" THEN "started" ELSE "closed"
        /\ \A g \in Games : g # hc => phase'[g] = phase[g]
    BY <1>1
  <1>3. /\ events' \in Seq(News(host_counter')) /\ Queue'
        /\ Starting \subseteq Starting' /\ Ending \subseteq Ending'
        /\ type = "started" => hc \in Starting'
        /\ type = "deleted" => hc \in Ending'
    BY <1>1, <1>2, Sent DEF IInv, Types, registry, inputs
  <1>4. \A g \in Games : phase'[g] = "none" <=> g > host_counter
    BY <1>1, <1>2
  <1>5. TypeOK'
    BY <1>2, <1>3, <1>4 DEF IInv, TypeOK, News, Types, registry, switches, inputs
  <1>6. KeysKept'
    BY <1>1, <1>2, <1>3, RegistryFacts DEF IInv, KeysKept, registry
  <1>7. UnhostHitsOwnLobby' /\ OnlyLobbyTold'
    BY DEF IInv, UnhostHitsOwnLobby, OnlyLobbyTold, registry, inputs
  <1>8. current_game # NoGame => \/ phase'[current_game] \in {"lobby", "lost"}
                                \/ current_game \in Starting' \union Ending'
    BY <1>1, <1>2, <1>3, RegistryFacts DEF IInv, Placed
  <1>9. \A g \in games : phase'[g] \in {"started", "lost"} \/ g \in Ending'
    BY <1>1, <1>2, <1>3, RegistryFacts DEF IInv, Placed
  <1>10. Running' \subseteq Running
    BY <1>1, <1>2, HostingAssumption DEF Running
  <1>11. Placed'
    BY <1>8, <1>9, <1>10 DEF IInv, Placed, registry
  <1> QED
    BY <1>3, <1>5, <1>6, <1>7, <1>11 DEF IInv

LEMMA EventGameStartedInv == ASSUME IInv, NEW hc \in Games, EventGameStarted(hc) PROVE IInv'
  <1>1. /\ phase[hc] = "lobby" /\ phase' = [phase EXCEPT ![hc] = "started"]
        /\ Emit("started", hc) /\ UNCHANGED <<registry, switches, closing, inputs>>
    BY DEF EventGameStarted
  <1>2. hc \in 1..host_counter /\ hc \in Running
    BY <1>1, RunningFacts DEF Running
  <1> QED
    BY <1>1, <1>2, GameMovesInv

LEMMA GameEndsInv == ASSUME IInv, NEW hc \in Games, GameEnds(hc) PROVE IInv'
  <1>1. /\ phase[hc] \in {"lobby", "started"} /\ phase' = [phase EXCEPT ![hc] = "closed"]
        /\ Emit("deleted", hc) /\ UNCHANGED <<registry, switches, closing, inputs>>
    BY DEF GameEnds, Running
  <1>2. hc \in 1..host_counter /\ hc \in Running
    BY <1>1, RunningFacts DEF Running
  <1> QED
    BY <1>1, <1>2, GameMovesInv

LEMMA GameLostInv == ASSUME IInv, NEW hc \in Games, GameLost(hc) PROVE IInv'
  <1>1. /\ hc \in Running /\ phase' = [phase EXCEPT ![hc] = "lost"]
        /\ UNCHANGED <<registry, switches, events, closing, inputs>>
    BY DEF GameLost
  <1>2. /\ hc \in 1..host_counter /\ ~(hc > host_counter) /\ 1..host_counter \subseteq Games
        /\ phase[hc] \in {"lobby", "started"}
        /\ phase \in [Games -> {"none", "lobby", "started", "closed", "lost"}]
    BY <1>1, RunningFacts, HostingAssumption DEF Running, IInv, TypeOK, Games
  <1>3. /\ phase' \in [Games -> {"none", "lobby", "started", "closed", "lost"}]
        /\ phase'[hc] = "lost"
        /\ \A g \in Games : g # hc => phase'[g] = phase[g]
    BY <1>1, <1>2
  <1>4. \A g \in Games : phase'[g] = "none" <=> g > host_counter
    BY <1>2, <1>3 DEF IInv, TypeOK
  <1>5. TypeOK'
    BY <1>1, <1>3, <1>4 DEF IInv, TypeOK, registry, switches, inputs
  <1>6. Starting' = Starting /\ Ending' = Ending
    BY <1>1 DEF Starting, Ending, InEvents
  <1>7. \A i \in DOMAIN events : events[i].type # "logged_in" => events[i].host_counter \in Games
    <2>1. \A i \in DOMAIN events : events[i] \in News(host_counter)
      <3>1. events \in Seq(News(host_counter))
        BY DEF IInv, TypeOK, News, Types
      <3> QED
        BY <3>1
    <2>2. \A i \in DOMAIN events : events[i].type # "logged_in" => events[i].host_counter # 0
      BY DEF IInv, Queue, NewsTrue, NoGame
    <2> QED
      BY <1>2, <2>1, <2>2, RegistryFacts DEF News
  <1>8. Queue'
    <2>1. NewsTrue'
      BY <1>1, <1>2, <1>3, <1>6, <1>7 DEF IInv, Queue, NewsTrue, inputs
    <2>2. DeletedLast'
      BY <1>1 DEF IInv, Queue, DeletedLast
    <2> QED
      BY <2>1, <2>2 DEF Queue
  <1>9. Placed'
    <2>1. current_game # NoGame => \/ phase'[current_game] \in {"lobby", "lost"}
                                  \/ current_game \in Starting' \union Ending'
      BY <1>2, <1>3, <1>6, RegistryFacts DEF IInv, Placed
    <2>2. \A g \in games : phase'[g] \in {"started", "lost"} \/ g \in Ending'
      BY <1>2, <1>3, <1>6, RegistryFacts DEF IInv, Placed
    <2>3. Running' \subseteq Running
      BY <1>3 DEF Running
    <2> QED
      BY <1>1, <2>1, <2>2, <2>3 DEF IInv, Placed, registry
  <1>10. KeysKept'
    BY <1>1, <1>2, <1>3, <1>6, RegistryFacts DEF IInv, KeysKept, registry
  <1>11. UnhostHitsOwnLobby' /\ OnlyLobbyTold'
    BY <1>1 DEF IInv, UnhostHitsOwnLobby, OnlyLobbyTold, registry, inputs
  <1> QED
    BY <1>5, <1>8, <1>9, <1>10, <1>11 DEF IInv

(***************************************************************************)
(* Theorems                                                                *)
(***************************************************************************)

LEMMA InitInv == Init => IInv
  <1> SUFFICES ASSUME Init PROVE IInv
    OBVIOUS
  <1>1. \A hc \in Games : hc > 0
    BY HostingAssumption DEF Games
  <1>2. TypeOK
    <2>1. /\ events = <<>> /\ phase \in [Games -> {"none", "lobby", "started", "closed", "lost"}]
          /\ \A hc \in Games : phase[hc] = "none"
      BY DEF Init
    <2>2. /\ current_game \in 0..host_counter /\ told \in 0..host_counter
          /\ host_counter \in 0..MaxHosted /\ logins \in 0..MaxLogins /\ unhosts \in 0..MaxUnhosts
      BY HostingAssumption DEF Init, NoGame
    <2>3. {autohost_enabled, games_disabled} \subseteq BOOLEAN
      BY HostingAssumption DEF Init
    <2>4. {games, gproxy_keys, closing, asked} \subseteq SUBSET (1..host_counter)
      BY DEF Init
    <2>5. \A hc \in Games : phase[hc] = "none" <=> hc > host_counter
      BY <1>1, <2>1 DEF Init
    <2> QED
      BY <2>1, <2>2, <2>4, <2>5, <2>3 DEF TypeOK
  <1>3. Queue
    BY DEF Init, Queue, NewsTrue, DeletedLast
  <1>4. Placed /\ KeysKept /\ UnhostHitsOwnLobby /\ OnlyLobbyTold
    BY DEF Init, Placed, Running, KeysKept, UnhostHitsOwnLobby, OnlyLobbyTold
  <1> QED
    BY <1>2, <1>3, <1>4 DEF IInv

LEMMA NextInv == IInv /\ [Next]_vars => IInv'
  <1> SUFFICES ASSUME IInv, [Next]_vars PROVE IInv'
    OBVIOUS
  <1>1. CASE HandleEvent
    BY <1>1, LoggedInHandled, GProxyRegisteredHandled, UnhostHandled, GameStartedHandled,
       DeletedHandled DEF HandleEvent
  <1>2. CASE CreateGame \/ UnhostCommand \/ LoggedIn
    BY <1>2, CreateGameInv, UnhostCommandInv, LoggedInInv
  <1>3. CASE \E b \in BOOLEAN : SwitchAutohost(b) \/ SwitchGames(b)
    BY <1>3, SwitchAutohostInv, SwitchGamesInv
  <1>4. CASE \E hc \in Games : \/ RegisterKey(hc) \/ TypeUnhost(hc) \/ EventGameStarted(hc)
                               \/ GameEnds(hc) \/ GameLost(hc)
    BY <1>4, RegisterKeyInv, TypeUnhostInv, EventGameStartedInv, GameEndsInv, GameLostInv
  <1>5. CASE UNCHANGED vars
    BY <1>5 DEF vars, registry, switches, inputs, IInv, TypeOK, Queue, NewsTrue, DeletedLast, Placed,
                KeysKept, UnhostHitsOwnLobby, OnlyLobbyTold, Running, Starting, Ending, InEvents
  <1> QED
    BY <1>1, <1>2, <1>3, <1>4, <1>5 DEF Next

\* What every reachable state satisfies, whatever was hosted and unhosted.
LEMMA Inductive == Spec => []IInv
  BY InitInv, NextInv, PTL DEF Spec

(* BotCore's two places for games are right up to the events on their way, *)
(* whatever order games start, end and are unhosted in (handle_event of    *)
(* bot/mod.rs).                                                            *)
THEOREM RegistryRight == Spec => []RegistryExact
  <1>1. IInv => RegistryExact
    BY DEF IInv, Placed, RegistryExact, Starting, Ending
  <1> QED
    BY <1>1, Inductive, PTL

(* No reconnect key outlives the handled end of its game (GameDeleted).     *)
THEOREM NoKeyLeft == Spec => []KeysReclaimed
  <1>1. IInv => KeysReclaimed
    BY DEF IInv, KeysKept, KeysReclaimed, Ending
  <1> QED
    BY <1>1, Inductive, PTL

(* An !unhost typed in a game never closes another (dispatch_lobby_command). *)
THEOREM UnhostMeantIt == Spec => []UnhostHitsOwnLobby
  <1>1. IInv => UnhostHitsOwnLobby
    BY DEF IInv
  <1> QED
    BY <1>1, Inductive, PTL

(* Servers are told of the lobby or of no game (CreateGame, UncreateGame).  *)
THEOREM LobbyOrNothing == Spec => []OnlyLobbyTold
  <1>1. IInv => OnlyLobbyTold
    BY DEF IInv
  <1> QED
    BY <1>1, Inductive, PTL
=============================================================================
