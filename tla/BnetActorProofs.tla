--------------------------- MODULE BnetActorProofs ---------------------------
(***************************************************************************)
(* That BotCore's lobby and what the actor was told to advertise do not    *)
(* drift apart, and that what the server lists, or the channel the bot is  *)
(* in, follows what the actor advertises: for any number of games,         *)
(* commands and lost connections.                                          *)
(*                                                                         *)
(* The first rests on IInv, about the commands on their way; the second on *)
(* ActorInv, about the packets that wait for flood control: at most one is *)
(* a refresh, and none without an advertised game (OutRule), none is left  *)
(* over from an earlier connection (Connection), and sending them all      *)
(* makes the server list the advertised game, if that can be listed, or    *)
(* none (Coming).                                                          *)
(***************************************************************************)
EXTENDS BnetActor, FiniteSetTheorems, WellFoundedInduction, TLAPS

\* An UncreateGame names no game.
CommandType == [type : {"chat", "create"}, hc : Nat] \union [type : {"uncreate"}, hc : {NoGame}]

\* LastWord and Word of any queue q and advertised game.
Last(q, i) ==
    /\ i = 0 \/ q[i].type # "chat"
    /\ \A j \in i + 1..Len(q) : q[j].type = "chat"
WordAt(q, game, i) == IF i = 0 THEN game ELSE q[i].hc

\* There is a last word, and every last word is about one of these games.
Says(q, game, games) ==
    /\ \E i \in 0..Len(q) : Last(q, i)
    /\ \A i \in 0..Len(q) : Last(q, i) => WordAt(q, game, i) \in games

\* Whom the word may be about: anybody once a command was thrown away.
MayBe == IF discarded = {} THEN {NoGame, lobby} ELSE Nat

IInv ==
    /\ cmds \in Seq(CommandType) /\ {host_counter, lobby, advertised} \subseteq Nat
    /\ Says(cmds, advertised, MayBe)

(***************************************************************************)
(* Queues                                                                  *)
(***************************************************************************)

\* A command about a game has the last word as soon as it is sent.
LEMMA WordGiven ==
    ASSUME NEW q \in Seq(CommandType), NEW c \in CommandType, c.type # "chat",
           NEW game, NEW games, c.hc \in games
    PROVE  Says(Append(q, c), game, games)
  <1> DEFINE r == Append(q, c)
  <1>1. r \in Seq(CommandType) /\ Len(r) = Len(q) + 1 /\ r[Len(r)] = c /\ Len(q) \in Nat
    OBVIOUS
  <1> HIDE DEF r
  <1>2. Len(r) \in 0..Len(r) /\ Last(r, Len(r))
    BY <1>1 DEF Last
  <1>3. ASSUME NEW i \in 0..Len(r), Last(r, i) PROVE i = Len(r)
    BY <1>1, <1>3 DEF Last
  <1>4. WordAt(r, game, Len(r)) = c.hc
    BY <1>1 DEF WordAt
  <1> QED
    BY <1>2, <1>3, <1>4 DEF Says, r

\* Other commands leave it as it is.
LEMMA WordKept ==
    ASSUME NEW q \in Seq(CommandType), NEW c \in CommandType, c.type = "chat",
           NEW game, NEW games, Says(q, game, games)
    PROVE  Says(Append(q, c), game, games)
  <1> DEFINE r == Append(q, c)
  <1>1. /\ Len(r) = Len(q) + 1 /\ r[Len(r)] = c /\ Len(q) \in Nat
        /\ \A i \in 1..Len(q) : r[i] = q[i]
    OBVIOUS
  <1> HIDE DEF r
  <1>2. ASSUME NEW i \in 0..Len(q)
        PROVE  (Last(r, i) <=> Last(q, i)) /\ WordAt(r, game, i) = WordAt(q, game, i)
    BY <1>1 DEF Last, WordAt
  <1>3. ~Last(r, Len(r))
    BY <1>1 DEF Last
  <1> QED
    BY <1>1, <1>2, <1>3 DEF Says, r

\* The actor takes the head: a word it was not the last of stays, the last one
\* is done.
LEMMA WordDone ==
    ASSUME NEW q \in Seq(CommandType), q # <<>>, NEW old, NEW games, Says(q, old, games),
           NEW game, game = IF Head(q).type = "chat" THEN old ELSE Head(q).hc
    PROVE  Says(Tail(q), game, games)
  <1> DEFINE r == Tail(q)
  <1>1. /\ Len(q) \in Nat \ {0} /\ Len(r) = Len(q) - 1 /\ Head(q) = q[1]
        /\ \A i \in 1..Len(r) : r[i] = q[i + 1]
    OBVIOUS
  <1> HIDE DEF r
  <1>2. ASSUME NEW i \in 1..Len(r)
        PROVE  (Last(r, i) <=> Last(q, i + 1)) /\ WordAt(r, game, i) = WordAt(q, old, i + 1)
    <2>1. Last(r, i) => Last(q, i + 1)
      <3>1. SUFFICES ASSUME Last(r, i) PROVE Last(q, i + 1)
        OBVIOUS
      <3>2. ASSUME NEW j \in i + 2..Len(q) PROVE q[j].type = "chat"
        <4>1. j - 1 \in i + 1..Len(r) /\ r[j - 1] = q[j]
          BY <1>1
        <4> QED
          BY <3>1, <4>1 DEF Last
      <3> QED
        BY <1>1, <3>1, <3>2 DEF Last
    <2>2. Last(q, i + 1) => Last(r, i)
      BY <1>1, SMTT(15), ZenonT(40) DEF Last
    <2>3. WordAt(r, game, i) = WordAt(q, old, i + 1)
      BY <1>1 DEF WordAt
    <2> QED
      BY <2>1, <2>2, <2>3
  <1>3. Last(r, 0) <=> Last(q, 0) \/ Last(q, 1)
    <2>1. Last(r, 0) => \A j \in 2..Len(q) : q[j].type = "chat"
      <3>1. SUFFICES ASSUME Last(r, 0), NEW j \in 2..Len(q) PROVE q[j].type = "chat"
        OBVIOUS
      <3>2. j - 1 \in 1..Len(r) /\ r[j - 1] = q[j]
        BY <1>1
      <3> QED
        BY <3>1, <3>2 DEF Last
    <2>2. (\A j \in 2..Len(q) : q[j].type = "chat") => Last(r, 0)
      BY <1>1 DEF Last
    <2>3. (\A j \in 2..Len(q) : q[j].type = "chat") <=> Last(q, 0) \/ Last(q, 1)
      BY <1>1 DEF Last
    <2> QED
      BY <2>1, <2>2, <2>3
  <1>4. \E i \in 0..Len(r) : Last(r, i)
    <2>1. PICK i \in 0..Len(q) : Last(q, i)
      BY DEF Says
    <2>2. CASE i \in {0, 1}
      BY <1>1, <1>3, <2>1, <2>2
    <2>3. CASE i \notin {0, 1}
      <3>1. i - 1 \in 1..Len(r) /\ (i - 1) + 1 = i
        BY <1>1, <2>3
      <3>2. Last(r, i - 1)
        BY <1>2, <2>1, <3>1
      <3> QED
        BY <1>1, <3>1, <3>2
    <2> QED
      BY <2>2, <2>3
  <1>5. ASSUME NEW i \in 0..Len(r), Last(r, i) PROVE WordAt(r, game, i) \in games
    <2>1. CASE i = 0
      <3>1. Last(q, 0) => WordAt(r, game, i) = WordAt(q, old, 0)
        BY <1>1, <2>1 DEF Last, WordAt
      <3>2. Last(q, 1) => WordAt(r, game, i) = WordAt(q, old, 1)
        BY <1>1, <2>1 DEF Last, WordAt
      <3> QED
        BY <1>1, <1>3, <1>5, <2>1, <3>1, <3>2 DEF Says
    <2>2. CASE i # 0
      <3>1. i \in 1..Len(r) /\ i + 1 \in 0..Len(q)
        BY <1>1, <2>2
      <3> QED
        BY <1>2, <1>5, <3>1 DEF Says
    <2> QED
      BY <2>1, <2>2
  <1> QED
    BY <1>4, <1>5 DEF Says, r

(***************************************************************************)
(* The steps                                                               *)
(***************************************************************************)

LEMMA InitInv == Init => IInv
  BY DEF Init, IInv, Says, Last, WordAt, MayBe, NoGame

\* Steps that change neither what the actor was told nor the lobby.
LEMMA Unconcerned ==
    ASSUME IInv, UNCHANGED <<cmds, host_counter, lobby, advertised, discarded>>
    PROVE  IInv'
  BY DEF IInv, MayBe

LEMMA CommandTypes ==
    /\ Command("chat", NoGame) \in CommandType /\ Command("uncreate", NoGame) \in CommandType
    /\ \A hc \in Nat : Command("create", hc) \in CommandType
  BY DEF Command, CommandType, NoGame

LEMMA CreateInv ==
    ASSUME IInv, NEW privately, NEW listable, Create(privately, listable), UNCHANGED <<advertised, discarded>>
    PROVE  IInv'
  <1> DEFINE q == Append(cmds, Command("chat", NoGame))
             c == Command("create", lobby')
  <1>1. /\ cmds \in Seq(CommandType) /\ host_counter' \in Nat /\ lobby' \in Nat
        /\ advertised' \in Nat /\ UNCHANGED discarded
    BY DEF IInv, Create
  <1>2. q \in Seq(CommandType) /\ c \in CommandType /\ c.type # "chat" /\ c.hc = lobby'
    BY <1>1, CommandTypes DEF Command
  <1>3. cmds' = Append(q, c)
    BY <1>1, CommandTypes DEF Create
  <1>4. lobby' \in MayBe'
    BY <1>1 DEF MayBe
  <1> HIDE DEF q, c
  <1>5. Says(cmds', advertised', MayBe')
    BY <1>2, <1>3, <1>4, WordGiven
  <1> QED
    BY <1>1, <1>2, <1>3, <1>5 DEF IInv

LEMMA UncreateGameInv ==
    ASSUME IInv, UncreateGame
    PROVE  IInv'
  <1> DEFINE c == Command("uncreate", NoGame)
  <1>1. /\ cmds \in Seq(CommandType) /\ cmds' = Append(cmds, c)
        /\ {host_counter', lobby', advertised'} \subseteq Nat
    BY DEF IInv, UncreateGame, actor, NoGame
  <1>2. c \in CommandType /\ c.type # "chat" /\ c.hc = NoGame
    BY CommandTypes DEF Command
  <1>3. NoGame \in MayBe'
    BY DEF MayBe, NoGame
  <1> HIDE DEF c
  <1>4. Says(cmds', advertised', MayBe')
    BY <1>1, <1>2, <1>3, WordGiven
  <1> QED
    BY <1>1, <1>2, <1>4 DEF IInv

LEMMA ChatInv ==
    ASSUME IInv, Chat
    PROVE  IInv'
  <1> DEFINE c == Command("chat", NoGame)
  <1>1. /\ cmds \in Seq(CommandType) /\ cmds' = Append(cmds, c)
        /\ UNCHANGED <<host_counter, lobby, advertised, discarded>>
    BY DEF IInv, Chat, actor
  <1>2. c \in CommandType /\ c.type = "chat"
    BY CommandTypes DEF Command
  <1>3. Says(cmds, advertised, MayBe) /\ MayBe' = MayBe
    BY <1>1 DEF IInv, MayBe
  <1> HIDE DEF c
  <1>4. Says(cmds', advertised', MayBe')
    BY <1>1, <1>2, <1>3, WordKept
  <1> QED
    BY <1>1, <1>2, <1>4 DEF IInv

LEMMA HandleCommandInv ==
    ASSUME IInv, HandleCommand
    PROVE  IInv'
  <1>1. /\ cmds \in Seq(CommandType) /\ cmds # <<>> /\ cmds' = Tail(cmds)
        /\ UNCHANGED <<host_counter, lobby, discarded>> /\ MayBe' = MayBe
        /\ Says(cmds, advertised, MayBe)
    BY DEF IInv, HandleCommand, core, MayBe
  <1>2. Head(cmds) \in CommandType
    BY <1>1
  <1>3. advertised' = IF Head(cmds).type = "chat" THEN advertised ELSE Head(cmds).hc
    <2>1. Head(cmds).type = "uncreate" => Head(cmds).hc = NoGame
      BY <1>2 DEF CommandType
    <2> QED
      BY <1>2, <2>1 DEF HandleCommand, HandleChat, HandleCreateGame, HandleUncreateGame,
                        Uncreated
  <1>4. Says(cmds', advertised', MayBe')
    BY <1>1, <1>3, WordDone
  <1> QED
    BY <1>1, <1>2, <1>3, <1>4 DEF IInv, CommandType, NoGame

LEMMA DiscardCommandInv ==
    ASSUME IInv, DiscardCommand
    PROVE  IInv'
  <1>1. /\ cmds \in Seq(CommandType) /\ cmds # <<>> /\ cmds' = Tail(cmds)
        /\ UNCHANGED <<host_counter, lobby, advertised>>
        /\ Says(cmds, advertised, MayBe) /\ advertised \in Nat
    BY DEF IInv, DiscardCommand, core, actor
  <1>2. Says(cmds', advertised', MayBe')
    <2>1. CASE Head(cmds).type = "chat"
      <3>1. MayBe' = MayBe
        BY <1>1, <2>1 DEF MayBe, DiscardCommand
      <3> QED
        BY <1>1, <2>1, <3>1, WordDone
    <2>2. CASE Head(cmds).type # "chat"
      <3>1. MayBe' = Nat
        BY <2>2 DEF MayBe, DiscardCommand
      <3>2. Says(Tail(cmds), Head(cmds).hc, MayBe)
        BY <1>1, <2>2, WordDone
      <3>3. ASSUME NEW i \in 0..Len(Tail(cmds)) PROVE WordAt(Tail(cmds), advertised, i) \in Nat
        BY <1>1 DEF WordAt, CommandType, NoGame
      <3> QED
        BY <1>1, <3>1, <3>2, <3>3 DEF Says
    <2> QED
      BY <2>1, <2>2
  <1> QED
    BY <1>1, <1>2 DEF IInv

LEMMA NextInv == IInv /\ [Next]_vars => IInv'
  <1> SUFFICES ASSUME IInv, [Next]_vars PROVE IInv'
    OBVIOUS
  <1>1. ASSUME NEW privately \in BOOLEAN, NEW listable \in BOOLEAN, CreateGame(privately, listable) PROVE IInv'
    BY <1>1, CreateInv DEF CreateGame, actor
  <1>2. CASE UncreateGame
    BY <1>2, UncreateGameInv
  <1>3. CASE Chat
    BY <1>3, ChatInv
  <1>4. CASE HandleLoggedIn
    <2>1. UNCHANGED <<advertised, discarded>>
      BY <1>4 DEF HandleLoggedIn, actor
    <2>2. CASE \E listable \in BOOLEAN : Create(FALSE, listable)
      BY <2>1, <2>2, CreateInv
    <2>3. CASE UNCHANGED <<core, cmds>>
      BY <2>1, <2>3, Unconcerned DEF core
    <2> QED
      BY <1>4, <2>2, <2>3 DEF HandleLoggedIn
  <1>5. CASE ConnectFails \/ Connected \/ Disconnected \/ WaitOver
    <2>1. UNCHANGED <<cmds, host_counter, lobby, advertised, discarded>>
      BY <1>5 DEF ConnectFails, Connected, Disconnected, WaitOver, core
    <2> QED
      BY <2>1, Unconcerned
  <1>6. CASE DiscardCommand
    BY <1>6, DiscardCommandInv
  <1>7. CASE HandleFrame
    <2>1. UNCHANGED <<cmds, host_counter, lobby, advertised, discarded>>
      BY <1>7 DEF HandleFrame, AuthInfo, AuthCheck, AccountLogon, Logon, LogonProof, EnterChat,
                  core, actor
    <2> QED
      BY <2>1, Unconcerned
  <1>8. CASE HandleCommand
    BY <1>8, HandleCommandInv
  <1>9. CASE RefreshTick \/ FlushOnePacket
    <2>1. UNCHANGED <<cmds, host_counter, lobby, advertised, discarded>>
      BY <1>9 DEF RefreshTick, FlushOnePacket, core
    <2> QED
      BY <2>1, Unconcerned
  <1>10. CASE UNCHANGED vars
    BY <1>10, Unconcerned DEF vars, core, actor
  <1> QED
    BY <1>1, <1>2, <1>3, <1>4, <1>5, <1>6, <1>7, <1>8, <1>9, <1>10 DEF Next

LEMMA Inductive == Spec => []IInv
  BY InitInv, NextInv, PTL DEF Spec

\* Whatever is lost, unhosted and hosted again in whatever order: an actor that
\* threw no command away comes to advertise the lobby or nothing.
THEOREM LobbyAdvertised == Spec => []OnlyLobbyAdvertised
  <1>1. IInv => OnlyLobbyAdvertised
    <2>1. SUFFICES ASSUME IInv, discarded = {} PROVE Told \in {NoGame, lobby}
      BY DEF OnlyLobbyAdvertised
    <2>2. Says(cmds, advertised, {NoGame, lobby})
      BY <2>1 DEF IInv, MayBe
    <2>3. \A i \in 0..Len(cmds) : (LastWord(i) <=> Last(cmds, i))
                                  /\ Word(i) = WordAt(cmds, advertised, i)
      BY DEF LastWord, Last, Word, WordAt
    <2>4. PICK i \in 0..Len(cmds) : LastWord(i) /\ Told = Word(i)
      BY <2>2, <2>3 DEF Says, Told
    <2> QED
      BY <2>2, <2>3, <2>4 DEF Says
  <1> QED
    BY <1>1, Inductive, PTL

(***************************************************************************)
(* Counting up                                                             *)
(***************************************************************************)

\* What is in a set of numbers has a smallest one.
LEMMA Smallest ==
    ASSUME NEW S \in SUBSET Nat, S # {}
    PROVE  \E x \in S : \A y \in S : x <= y
  <1>1. PICK x \in S : \A y \in S : ~ (<<y, x>> \in OpToRel(<, Nat))
    BY WFMin, NatLessThanWellFounded
  <1>2. ASSUME NEW y \in S PROVE x <= y
    <2>1. x \in Nat /\ y \in Nat
      OBVIOUS
    <2>2. y < x => <<y, x>> \in OpToRel(<, Nat)
      BY <2>1 DEF OpToRel
    <2>3. ~(y < x)
      BY <1>1, <2>2
    <2> QED BY <2>1, <2>3
  <1> QED BY <1>2

\* A set with 0 and with every number after one of its own has all numbers.
LEMMA CountUp ==
    ASSUME NEW n \in Nat, NEW S, 0 \in S, \A i \in 1..n : i - 1 \in S => i \in S
    PROVE  0..n \subseteq S
  <1> SUFFICES ASSUME (0..n) \ S # {} PROVE FALSE
    OBVIOUS
  <1>1. PICK m \in (0..n) \ S : \A y \in (0..n) \ S : m <= y
    <2>1. (0..n) \ S \in SUBSET Nat
      OBVIOUS
    <2> QED BY <2>1, Smallest
  <1>2. m \in 1..n /\ m - 1 \in 0..n /\ ~(m <= m - 1)
    BY <1>1
  <1> QED BY <1>1, <1>2

\* f starts with first, and each value of it is the next of the one before.
Steps(f, n, first, next) == f[0] = first /\ \A i \in 1..n : f[i] = next[<<i, f[i - 1]>>]

\* A function may be given so.
LEMMA Recursion ==
    ASSUME NEW n \in Nat, NEW V, NEW first \in V, NEW next \in [(1..n) \X V -> V]
    PROVE  \E f \in [0..n -> V] : Steps(f, n, first, next)
  <1> DEFINE Good(k, f) == Steps(f, k, first, next)
             S == {k \in 0..n : \E f \in [0..k -> V] : Good(k, f)}
  <1>1. 0 \in S
    <2> DEFINE f == [i \in 0..0 |-> first]
    <2>1. f \in [0..0 -> V] /\ Good(0, f)
      BY DEF Steps
    <2> HIDE DEF f, Good
    <2> QED BY <2>1
  <1>2. ASSUME NEW k \in 1..n, k - 1 \in S PROVE k \in S
    <2>1. PICK f \in [0..k - 1 -> V] : Good(k - 1, f)
      BY <1>2
    <2> DEFINE e == next[<<k, f[k - 1]>>]
               g == [i \in 0..k |-> IF i = k THEN e ELSE f[i]]
    <2>2. k - 1 \in 0..k - 1 /\ k \in Nat /\ k # 0
      OBVIOUS
    <2>3. e \in V
      BY <2>1, <2>2
    <2>4. \A i \in 0..k - 1 : g[i] = f[i]
      BY <2>2
    <2>5. g[k] = e /\ g \in [0..k -> V]
      BY <2>1, <2>2, <2>3
    <2> HIDE DEF g
    <2>6. g[0] = first
      BY <2>1, <2>2, <2>4 DEF Steps
    <2>7. ASSUME NEW i \in 1..k PROVE g[i] = next[<<i, g[i - 1]>>]
      <3>1. CASE i = k
        BY <2>2, <2>4, <2>5, <3>1
      <3>2. CASE i # k
        <4>1. i \in 1..k - 1 /\ i \in 0..k - 1 /\ i - 1 \in 0..k - 1
          BY <2>2, <3>2
        <4> QED BY <2>1, <2>4, <4>1 DEF Steps
      <3> QED BY <3>1, <3>2
    <2>8. Good(k, g)
      BY <2>6, <2>7 DEF Steps
    <2> HIDE DEF Good
    <2> QED BY <2>5, <2>8
  <1>3. 0..n \subseteq S
    <2> HIDE DEF S
    <2> QED BY <1>1, <1>2, CountUp
  <1>4. PICK f \in [0..n -> V] : Good(n, f)
    <2> HIDE DEF Good
    <2> QED BY <1>3
  <1> QED BY <1>4

\* Where every step keeps to V the function ends in V.
LEMMA Reached ==
    ASSUME NEW n \in Nat, NEW V, NEW f, f[0] \in V,
           \A i \in 1..n : f[i - 1] \in V => f[i] \in V
    PROVE  f[n] \in V
  <1> DEFINE S == {i \in 0..n : f[i] \in V}
  <1>1. 0 \in S /\ \A i \in 1..n : i - 1 \in S => i \in S
    OBVIOUS
  <1> HIDE DEF S
  <1>2. n \in S
    BY <1>1, CountUp
  <1> QED BY <1>2 DEF S

(***************************************************************************)
(* The queue of packets                                                    *)
(***************************************************************************)

\* One step of WithoutAdv.
Kept1(q, i, s) == IF q[i].id = "startadvex3" THEN s ELSE Append(s, q[i])

\* What is left of the queue is what was in it and is no refresh.
LEMMA Retained ==
    ASSUME NEW A, NEW q \in Seq(A)
    PROVE  WithoutAdv(q) \in Seq({p \in A : p.id # "startadvex3"})
  <1> DEFINE n == Len(q)
             B == {p \in A : p.id # "startadvex3"}
             V == Seq(B)
             Rec(f) == f = [i \in 0..n |-> IF i = 0 THEN <<>>
                                           ELSE IF q[i].id = "startadvex3" THEN f[i - 1]
                                                ELSE Append(f[i - 1], q[i])]
             next == [x \in (1..n) \X V |-> Kept1(q, x[1], x[2])]
             kept == CHOOSE f : Rec(f)
  <1>1. n \in Nat /\ <<>> \in V
    OBVIOUS
  <1>a. \A a \in A : a.id # "startadvex3" => a \in B
    OBVIOUS
  <1>2. ASSUME NEW i \in 1..n, NEW s \in V PROVE Kept1(q, i, s) \in V
    <2>0. q \in Seq(A)
      OBVIOUS
    <2> HIDE DEF B
    <2>1. q[i] \in A
      BY <2>0
    <2> QED BY <1>a, <2>1 DEF Kept1
  <1>3. next \in [(1..n) \X V -> V]
    <2> HIDE DEF V, n
    <2> QED BY <1>2
  <1>4. PICK f \in [0..n -> V] : Steps(f, n, <<>>, next)
    <2> HIDE DEF next, V, n
    <2>1. \E f \in [0..n -> V] : Steps(f, n, <<>>, next)
      BY <1>1, <1>3, Recursion
    <2> QED BY <2>1
  <1>5. Rec(f)
    <2>1. ASSUME NEW i \in 1..n PROVE f[i] = Kept1(q, i, f[i - 1])
      <3>1. i - 1 \in 0..n
        BY <1>1
      <3>2. f[i - 1] \in V
        BY <3>1
      <3> HIDE DEF V, n
      <3> QED BY <1>4, <3>2 DEF Steps
    <2>2. f = [i \in 0..n |-> f[i]]
      BY <1>4
    <2> HIDE DEF V, next, n
    <2>3. ASSUME NEW i \in 0..n
          PROVE  f[i] = IF i = 0 THEN <<>> ELSE IF q[i].id = "startadvex3" THEN f[i - 1]
                                                ELSE Append(f[i - 1], q[i])
      <3>1. CASE i = 0
        BY <1>4, <3>1 DEF Steps
      <3>2. CASE i # 0
        <4>1. i \in 1..n
          BY <1>1, <3>2
        <4> QED BY <2>1, <3>2, <4>1 DEF Kept1
      <3> QED BY <3>1, <3>2
    <2> QED BY <2>2, <2>3
  <1>6. Rec(kept)
    <2> HIDE DEF Rec
    <2> QED BY <1>5, Zenon
  <1>7. WithoutAdv(q) = kept[n]
    BY Zenon DEF WithoutAdv
  <1> HIDE DEF kept
  <1>8. kept[n] \in V
    <2> HIDE DEF V, n, next
    <2>1. kept[0] = <<>>
      <3>1. 0 \in 0..n
        BY <1>1
      <3> QED BY <1>6, <3>1
    <2>2. \A i \in 1..n : kept[i] = Kept1(q, i, kept[i - 1])
      <3> SUFFICES ASSUME NEW i \in 1..n PROVE kept[i] = Kept1(q, i, kept[i - 1])
        OBVIOUS
      <3>1. i \in 0..n /\ i # 0
        BY <1>1
      <3> QED BY <1>6, <3>1 DEF Kept1
    <2>3. kept[0] \in V /\ \A i \in 1..n : kept[i - 1] \in V => kept[i] \in V
      BY <1>1, <1>2, <2>1, <2>2
    <2> HIDE DEF Rec
    <2> QED BY <1>1, <2>3, Reached
  <1> QED BY <1>7, <1>8

(***************************************************************************)
(* What the server lists                                                   *)
(***************************************************************************)

\* The packets of a queue that are about a listing, and the last of them.
About(q) == {i \in DOMAIN q : q[i].id \in {"startadvex3", "stopadv"}}
LastOf(S) == CHOOSE i \in S : \A j \in S : j <= i

\* What a server that lists old comes to list with the queue.
Lists(q, old) == IF About(q) = {} THEN old ELSE q[LastOf(About(q))].hc

\* ListedAfter, of any queue and any game listed before.
LEMMA ListedIs == \A q : ListedAfter(q) = Lists(q, listed)
  BY DEF ListedAfter, Lists, About, LastOf

\* The last one of some numbers.
LEMMA LastIs ==
    ASSUME NEW S \in SUBSET Nat, NEW i \in S, \A j \in S : j <= i
    PROVE  LastOf(S) = i
  <1>1. \A k \in S : (\A j \in S : j <= k) => k = i
    OBVIOUS
  <1> QED BY <1>1 DEF LastOf

\* Some numbers up to n have a last one.
LEMMA LastExists ==
    ASSUME NEW n \in Nat, NEW S \in SUBSET (1..n), S # {}
    PROVE  LastOf(S) \in S /\ \A j \in S : j <= LastOf(S)
  <1> DEFINE T == {n - i : i \in S}
  <1>1. PICK x \in T : \A y \in T : x <= y
    <2>1. T \in SUBSET Nat /\ T # {}
      <3>1. \A i \in S : n - i \in Nat
        OBVIOUS
      <3> QED BY <3>1
    <2> HIDE DEF T
    <2> QED BY <2>1, Smallest
  <1>2. PICK i \in S : x = n - i
    OBVIOUS
  <1>3. ASSUME NEW j \in S PROVE j <= i
    <2>1. n - i <= n - j
      BY <1>1, <1>2
    <2>2. i \in Nat /\ j \in Nat
      OBVIOUS
    <2> QED BY <2>1, <2>2
  <1>4. S \in SUBSET Nat
    OBVIOUS
  <1>5. LastOf(S) = i
    BY <1>3, <1>4, LastIs
  <1> QED BY <1>3, <1>5

\* A packet about a listing has the last word, others have none.
LEMMA ListsAppend ==
    ASSUME NEW A, NEW q \in Seq(A), NEW p \in A, NEW old
    PROVE  Lists(Append(q, p), old) = IF p.id \in {"startadvex3", "stopadv"} THEN p.hc
                                      ELSE Lists(q, old)
  <1> DEFINE r == Append(q, p)
  <1>1. /\ DOMAIN q = 1..Len(q) /\ DOMAIN r = 1..(Len(q) + 1) /\ Len(q) \in Nat
        /\ r[Len(q) + 1] = p /\ \A i \in 1..Len(q) : r[i] = q[i]
    OBVIOUS
  <1> HIDE DEF r
  <1>2. CASE p.id \in {"startadvex3", "stopadv"}
    <2>1. Len(q) + 1 \in About(r) /\ About(r) \in SUBSET Nat
      BY <1>1, <1>2 DEF About
    <2>2. \A j \in About(r) : j <= Len(q) + 1
      BY <1>1 DEF About
    <2>3. LastOf(About(r)) = Len(q) + 1
      BY <1>1, <2>1, <2>2, LastIs
    <2> QED BY <1>1, <1>2, <2>1, <2>3 DEF Lists, r
  <1>3. CASE p.id \notin {"startadvex3", "stopadv"}
    <2>1. About(r) = About(q) /\ About(q) \in SUBSET (1..Len(q))
      BY <1>1, <1>3 DEF About
    <2>2. CASE About(q) = {}
      BY <1>3, <2>1, <2>2 DEF Lists, r
    <2>3. CASE About(q) # {}
      <3>1. LastOf(About(q)) \in 1..Len(q)
        BY <1>1, <2>1, <2>3, LastExists
      <3>2. r[LastOf(About(q))] = q[LastOf(About(q))]
        BY <1>1, <3>1
      <3> QED BY <1>3, <2>1, <2>3, <3>2 DEF Lists, r
    <2> QED BY <2>2, <2>3
  <1> QED BY <1>2, <1>3

\* The head sent, the server comes to list the same as before.
LEMMA ListsFlush ==
    ASSUME NEW A, NEW q \in Seq(A), q # <<>>, NEW old
    PROVE  Lists(Tail(q), Lists(<<Head(q)>>, old)) = Lists(q, old)
  <1> DEFINE r == Tail(q)
             h == <<Head(q)>>
  <1>1. /\ Len(q) \in Nat \ {0} /\ DOMAIN q = 1..Len(q) /\ DOMAIN r = 1..(Len(q) - 1)
        /\ \A i \in 1..(Len(q) - 1) : r[i] = q[i + 1]
        /\ DOMAIN h = {1} /\ h[1] = q[1]
    OBVIOUS
  <1> HIDE DEF r, h
  <1>2. /\ About(r) \in SUBSET (1..(Len(q) - 1)) /\ About(q) \in SUBSET (1..Len(q))
        /\ About(h) \subseteq {1} /\ (1 \in About(h) <=> 1 \in About(q))
        /\ \A i \in 1..(Len(q) - 1) : i \in About(r) <=> i + 1 \in About(q)
    BY <1>1 DEF About
  <1>3. CASE About(r) # {}
    <2> DEFINE m == LastOf(About(r))
    <2>1. m \in About(r) /\ \A j \in About(r) : j <= m
      <3>1. Len(q) - 1 \in Nat
        BY <1>1
      <3> QED BY <1>2, <1>3, <3>1, LastExists
    <2> HIDE DEF m
    <2>2. m + 1 \in About(q) /\ r[m] = q[m + 1] /\ m \in Nat
      BY <1>1, <1>2, <2>1
    <2>3. ASSUME NEW j \in About(q) PROVE j <= m + 1
      <3>1. CASE j = 1
        BY <2>2, <3>1
      <3>2. CASE j # 1
        <4>1. j - 1 \in 1..(Len(q) - 1) /\ (j - 1) + 1 = j
          BY <1>1, <1>2, <3>2
        <4>2. j - 1 \in About(r)
          BY <1>2, <4>1
        <4> QED BY <2>1, <2>2, <4>1, <4>2
      <3> QED BY <3>1, <3>2
    <2>4. About(q) \in SUBSET Nat
      BY <1>2
    <2>5. LastOf(About(q)) = m + 1
      BY <2>2, <2>3, <2>4, LastIs
    <2> QED BY <1>3, <2>2, <2>5 DEF Lists, m, r
  <1>4. CASE About(r) = {}
    <2>1. ASSUME NEW j \in About(q) PROVE j = 1
      <3>1. CASE j # 1
        <4>1. j - 1 \in 1..(Len(q) - 1) /\ (j - 1) + 1 = j
          BY <1>1, <1>2, <3>1
        <4> QED BY <1>2, <1>4, <4>1
      <3> QED BY <3>1
    <2>2. Lists(r, Lists(h, old)) = Lists(h, old)
      BY <1>4 DEF Lists
    <2>3. CASE 1 \in About(q)
      <3>1. About(q) = {1} /\ About(h) = {1}
        BY <1>2, <2>1, <2>3
      <3>2. LastOf({1}) = 1
        BY LastIs
      <3> QED BY <1>1, <2>2, <3>1, <3>2 DEF Lists, r, h
    <2>4. CASE 1 \notin About(q)
      <3>1. About(q) = {} /\ About(h) = {}
        BY <1>2, <2>1, <2>4
      <3> QED BY <2>2, <3>1 DEF Lists, r, h
    <2> QED BY <2>3, <2>4
  <1> QED BY <1>3, <1>4

(***************************************************************************)
(* The queue of packets and the game                                       *)
(***************************************************************************)

\* A CreateGame names a game, and STOPADV none.
SentType(h) == {c \in [type : {"chat", "create", "uncreate"}, hc : 0..h] :
                    c.type = "create" => c.hc # NoGame}
OutType(h) == {p \in [id : {"chatcommand", "startadvex3", "stopadv", "enterchat"}, hc : 0..h] :
                    p.id = "stopadv" => p.hc = NoGame}

\* At most one refresh waits, and none while no game is advertised.
OutRule(q, game) ==
    /\ \A i, j \in DOMAIN q : q[i].id = "startadvex3" /\ q[j].id = "startadvex3" => i = j
    /\ \A i \in DOMAIN q : q[i].id = "startadvex3" => game # NoGame

\* An empty queue keeps to that, ...
LEMMA RuleEmpty == \A game : OutRule(<<>>, game)
  BY DEF OutRule

\* ... and so does what is left when the head is sent.
LEMMA RuleTail ==
    ASSUME NEW A, NEW q \in Seq(A), q # <<>>, NEW game, OutRule(q, game)
    PROVE  OutRule(Tail(q), game)
  <1> DEFINE r == Tail(q)
  <1>1. /\ Len(q) \in Nat \ {0} /\ DOMAIN q = 1..Len(q) /\ DOMAIN r = 1..(Len(q) - 1)
        /\ \A i \in 1..(Len(q) - 1) : r[i] = q[i + 1]
    OBVIOUS
  <1> HIDE DEF r
  <1>2. \A i \in DOMAIN r : i \in Nat /\ i + 1 \in DOMAIN q /\ r[i] = q[i + 1]
    BY <1>1
  <1>3. OutRule(r, game)
    BY <1>2 DEF OutRule
  <1> QED BY <1>3 DEF r

\* A packet that is no refresh changes nothing about that.
LEMMA RuleAppend ==
    ASSUME NEW A, NEW q \in Seq(A), NEW p, p.id # "startadvex3", NEW game, OutRule(q, game)
    PROVE  OutRule(Append(q, p), game)
  <1> DEFINE r == Append(q, p)
  <1>1. /\ DOMAIN q = 1..Len(q) /\ DOMAIN r = 1..(Len(q) + 1) /\ Len(q) \in Nat
        /\ r[Len(q) + 1] = p /\ \A i \in 1..Len(q) : r[i] = q[i]
    OBVIOUS
  <1> HIDE DEF r
  <1>2. \A i \in DOMAIN r : r[i].id = "startadvex3" => i \in DOMAIN q /\ r[i] = q[i]
    BY <1>1
  <1>3. OutRule(r, game)
    BY <1>2 DEF OutRule
  <1> QED BY <1>3 DEF r

\* The refreshes gone, any game may be the advertised one; and the new refresh
\* is the only one.
LEMMA RuleRetained ==
    ASSUME NEW A, NEW q \in Seq(A), NEW game
    PROVE  /\ OutRule(WithoutAdv(q), game)
           /\ game # NoGame => OutRule(Append(WithoutAdv(q), Packet("startadvex3", game)), game)
  <1> DEFINE w == WithoutAdv(q)
             p == Packet("startadvex3", game)
             r == Append(w, p)
             B == {a \in A : a.id # "startadvex3"}
  <1>1. w \in Seq(B)
    BY Retained
  <1>2. p.hc = game
    BY DEF Packet
  <1> HIDE DEF w, p
  <1>3. \A i \in DOMAIN w : w[i].id # "startadvex3"
    <2>1. \A i \in DOMAIN w : w[i] \in B
      <3> HIDE DEF B
      <3> QED BY <1>1
    <2> QED BY <2>1
  <1>4. /\ DOMAIN w = 1..Len(w) /\ DOMAIN r = 1..(Len(w) + 1) /\ Len(w) \in Nat
        /\ r[Len(w) + 1] = p /\ \A i \in 1..Len(w) : r[i] = w[i]
    <2> HIDE DEF B
    <2> QED BY <1>1
  <1> HIDE DEF r
  <1>5. OutRule(w, game)
    BY <1>3 DEF OutRule
  <1>6. \A i \in DOMAIN r : r[i].id = "startadvex3" => i = Len(w) + 1
    BY <1>3, <1>4
  <1>7. game # NoGame => OutRule(r, game)
    BY <1>2, <1>4, <1>6 DEF OutRule
  <1> QED BY <1>5, <1>7 DEF w, p, r

(***************************************************************************)
(* Types and the listing                                                   *)
(***************************************************************************)

\* The types of what is not a queue, ...
Scalars ==
    /\ host_counter \in 0..MaxHosted /\ lobby \in 0..host_counter
    /\ advertised \in 0..host_counter /\ listed \in 0..host_counter
    /\ uncreates \in 0..MaxUncreates /\ chats \in 0..MaxChats /\ losses \in 0..MaxLosses
    /\ private \subseteq Games /\ unlistable \subseteq Games /\ discarded \subseteq 0..host_counter
    /\ login_event \in BOOLEAN /\ logged_in \in BOOLEAN /\ in_channel \in BOOLEAN
    /\ conn \in {"connecting", "serving", "waiting"}

\* ... and of the queues.
Queues ==
    /\ answers \in Seq({"auth_info", "auth_check", "accountlogon", "logonproof", "enterchat"})
    /\ cmds \in Seq(SentType(host_counter)) /\ out_packets \in Seq(OutType(host_counter))

\* What belongs to a connection is gone with it, and to a login before it.
Connection ==
    /\ ~logged_in => out_packets = <<>> /\ Len(answers) <= 1 /\ listed = NoGame
    /\ conn # "serving" => answers = <<>> /\ listed = NoGame
    /\ conn = "connecting" => ~logged_in

\* The server comes to list the advertised game, if it can, or none; without one the bot is in
\* the channel or on its way.
Coming == Lists(out_packets, listed) \in {NoGame, advertised} \/ advertised \in unlistable
Returns == logged_in /\ conn = "serving" /\ advertised = NoGame =>
               in_channel \/ Returning \/ "enterchat" \in {answers[i] : i \in DOMAIN answers}

\* The inductive invariant.
ActorInv ==
    /\ Scalars /\ Queues /\ Connection /\ OutRule(out_packets, advertised)
    /\ conn = "serving" => Coming
    /\ Returns

\* A few packets of the queue.
LEMMA PacketTypes ==
    ASSUME NEW h \in Nat
    PROVE  /\ \A g \in 0..h : Packet("startadvex3", g) \in OutType(h)
           /\ Packet("chatcommand", NoGame) \in OutType(h)
           /\ Packet("stopadv", NoGame) \in OutType(h) /\ Packet("enterchat", NoGame) \in OutType(h)
           /\ Command("chat", NoGame) \in SentType(h) /\ Command("uncreate", NoGame) \in SentType(h)
           /\ \A g \in 1..h : Command("create", g) \in SentType(h)
           /\ \A g : /\ Packet("startadvex3", g).id = "startadvex3"
                     /\ Packet("startadvex3", g).hc = g
           /\ Packet("chatcommand", NoGame).id = "chatcommand"
           /\ Packet("stopadv", NoGame).id = "stopadv" /\ Packet("stopadv", NoGame).hc = NoGame
           /\ Packet("enterchat", NoGame).id = "enterchat"
  BY DEF Packet, Command, OutType, SentType, NoGame

\* With more games the queues may hold more.
LEMMA QueueGrows ==
    ASSUME NEW h \in Nat, NEW g \in Nat, h <= g
    PROVE  SentType(h) \subseteq SentType(g) /\ OutType(h) \subseteq OutType(g)
  <1>1. 0..h \subseteq 0..g
    OBVIOUS
  <1> QED BY <1>1 DEF SentType, OutType

\* A sequence over a set is one over any larger set.
LEMMA SeqWider ==
    ASSUME NEW A, NEW B, A \subseteq B, NEW q \in Seq(A)
    PROVE  q \in Seq(B)
  OBVIOUS

\* The invariant is enough for the types, ...
LEMMA TypesFollow == ActorInv => TypeOK
  <1> SUFFICES ASSUME ActorInv PROVE TypeOK
    OBVIOUS
  <1>1. Scalars /\ Queues /\ Connection /\ OutRule(out_packets, advertised)
    BY DEF ActorInv
  <1>2. cmds \in Seq([type : {"chat", "create", "uncreate"}, hc : 0..host_counter])
    <2>1. SentType(host_counter) \subseteq [type : {"chat", "create", "uncreate"}, hc : 0..host_counter]
      BY DEF SentType
    <2>2. cmds \in Seq(SentType(host_counter))
      BY <1>1 DEF Queues
    <2> QED BY <2>1, <2>2, SeqWider
  <1>3. out_packets \in Seq([id : {"chatcommand", "startadvex3", "stopadv", "enterchat"},
                             hc : 0..host_counter])
    <2>1. OutType(host_counter) \subseteq
              [id : {"chatcommand", "startadvex3", "stopadv", "enterchat"}, hc : 0..host_counter]
      BY DEF OutType
    <2>2. out_packets \in Seq(OutType(host_counter))
      BY <1>1 DEF Queues
    <2> QED BY <2>1, <2>2, SeqWider
  <1>4. Cardinality(Refreshes) <= 1
    <2>1. \A i, j \in Refreshes : i = j
      BY <1>1 DEF OutRule, Refreshes
    <2>2. CASE Refreshes = {}
      BY <2>2, FS_EmptySet
    <2>3. CASE Refreshes # {}
      <3>1. PICK i : Refreshes = {i}
        BY <2>1, <2>3
      <3>2. Cardinality(Refreshes) = 1
        BY <3>1, FS_Singleton
      <3> QED BY <3>2
    <2> QED BY <2>2, <2>3
  <1> QED BY <1>1, <1>2, <1>3, <1>4 DEF Scalars, Queues, Connection, TypeOK

\* ... and for the listing.
LEMMA ListingHolds == ActorInv => ListingFollows
  BY ListedIs DEF ActorInv, Coming, Returns, ListingFollows

\* It holds at the start.
LEMMA ActorInit == Init => ActorInv
  <1> SUFFICES ASSUME Init PROVE ActorInv
    OBVIOUS
  <1>1. {MaxHosted, MaxUncreates, MaxChats, MaxLosses} \subseteq Nat
    BY BnetAssumption
  <1>2. Scalars
    <2>1. 0 \in 0..MaxHosted /\ 0 \in 0..MaxUncreates /\ 0 \in 0..MaxChats /\ 0 \in 0..MaxLosses
      BY <1>1
    <2>2. 0 \in 0..0
      OBVIOUS
    <2> QED BY <2>1, <2>2 DEF Init, Scalars, NoGame
  <1>3. Queues
    BY DEF Init, Queues
  <1>4. Connection
    BY DEF Init, Connection
  <1>5. OutRule(out_packets, advertised)
    BY RuleEmpty DEF Init
  <1> QED BY <1>2, <1>3, <1>4, <1>5 DEF Init, ActorInv, Returns

\* Steps that leave the actor and the server alone.
LEMMA OthersActor ==
    ASSUME ActorInv, UNCHANGED <<actor, server>>, Scalars', cmds' \in Seq(SentType(host_counter')),
           host_counter <= host_counter', unlistable \subseteq unlistable'
    PROVE  ActorInv'
  <1>1. UNCHANGED <<conn, logged_in, advertised, out_packets, answers, listed, in_channel>>
    BY DEF actor, server
  <1>2. host_counter \in Nat /\ host_counter' \in Nat
    BY BnetAssumption DEF ActorInv, Scalars
  <1>3. OutType(host_counter) \subseteq OutType(host_counter')
    BY <1>2, QueueGrows
  <1>4. Queues'
    <2>1. out_packets \in Seq(OutType(host_counter'))
      BY <1>3 DEF ActorInv, Queues
    <2> QED BY <1>1, <2>1 DEF ActorInv, Queues
  <1>5. Connection' /\ OutRule(out_packets, advertised)' /\ Returns' /\ (Coming => Coming')
    BY <1>1 DEF ActorInv, Connection, Returns, Returning, Coming, OutRule
  <1> QED BY <1>1, <1>4, <1>5 DEF ActorInv

\* A new game of BotCore leaves the actor alone.
LEMMA CreateActor ==
    ASSUME ActorInv, NEW privately, NEW listable, Create(privately, listable), UNCHANGED <<actor, server, discarded, losses>>,
           login_event' \in BOOLEAN
    PROVE  ActorInv'
  <1>1. /\ host_counter < MaxHosted /\ host_counter' = host_counter + 1 /\ lobby' = host_counter'
        /\ private' = (IF privately THEN private \union {lobby'} ELSE private)
        /\ unlistable' = (IF listable THEN unlistable ELSE unlistable \union {lobby'})
        /\ cmds' = cmds \o <<Command("chat", NoGame), Command("create", lobby')>>
        /\ UNCHANGED <<uncreates, chats, conn, logged_in, advertised, listed, in_channel,
                       discarded, losses>>
    BY DEF Create, actor, server
  <1>2. /\ host_counter \in Nat /\ host_counter' \in Nat /\ host_counter <= host_counter'
        /\ host_counter' \in 0..MaxHosted /\ 0..host_counter \subseteq 0..host_counter'
        /\ lobby' \in 1..host_counter' /\ Games \subseteq Games' /\ lobby' \in Games'
    BY <1>1, BnetAssumption DEF ActorInv, Scalars, Games
  <1>3. Scalars'
    BY <1>1, <1>2 DEF ActorInv, Scalars
  <1>4. cmds' \in Seq(SentType(host_counter'))
    <2>1. Command("chat", NoGame) \in SentType(host_counter')
          /\ Command("create", lobby') \in SentType(host_counter')
      BY <1>2, PacketTypes
    <2>2. cmds \in Seq(SentType(host_counter')) 
      <3>1. SentType(host_counter) \subseteq SentType(host_counter')
        BY <1>2, QueueGrows
      <3> QED BY <3>1 DEF ActorInv, Queues
    <2> QED BY <1>1, <2>1, <2>2
  <1> QED BY <1>1, <1>2, <1>3, <1>4, OthersActor

\* A command of BotCore without a new game.
LEMMA SentActor ==
    ASSUME ActorInv, UncreateGame \/ Chat
    PROVE  ActorInv'
  <1>1. PICK c \in {Command("chat", NoGame), Command("uncreate", NoGame)} : cmds' = Append(cmds, c)
    BY DEF UncreateGame, Chat
  <1>2. UNCHANGED <<host_counter, private, unlistable, login_event, actor, server, discarded, losses>>
    BY DEF UncreateGame, Chat
  <1>3. Scalars'
    <2>1. lobby' \in {NoGame, lobby} /\ (uncreates' \in 0..MaxUncreates) /\ (chats' \in 0..MaxChats)
      <3>1. /\ uncreates \in 0..MaxUncreates /\ chats \in 0..MaxChats
            /\ MaxUncreates \in Nat /\ MaxChats \in Nat
        BY BnetAssumption DEF ActorInv, Scalars
      <3>2. lobby' \in {NoGame, lobby}
        BY DEF UncreateGame, Chat
      <3>3. uncreates' = uncreates \/ (uncreates < MaxUncreates /\ uncreates' = uncreates + 1)
        BY DEF UncreateGame, Chat
      <3>4. chats' = chats \/ (chats < MaxChats /\ chats' = chats + 1)
        BY DEF UncreateGame, Chat
      <3>5. uncreates' \in 0..MaxUncreates
        BY <3>1, <3>3
      <3>6. chats' \in 0..MaxChats
        BY <3>1, <3>4
      <3> QED BY <3>2, <3>5, <3>6
    <2>2. host_counter \in Nat
      BY BnetAssumption DEF ActorInv, Scalars
    <2> QED BY <1>2, <2>1, <2>2 DEF ActorInv, Scalars, actor, server, NoGame, Games
  <1>4. host_counter \in Nat /\ c \in SentType(host_counter)
    BY <1>1, BnetAssumption, PacketTypes DEF ActorInv, Scalars
  <1>5. cmds' \in Seq(SentType(host_counter'))
    BY <1>1, <1>2, <1>4 DEF ActorInv, Queues
  <1> QED BY <1>2, <1>3, <1>4, <1>5, OthersActor

\* So does a command thrown away.
LEMMA DiscardActor ==
    ASSUME ActorInv, DiscardCommand
    PROVE  ActorInv'
  <1>1. /\ cmds # <<>> /\ cmds' = Tail(cmds)
        /\ discarded' = (IF Head(cmds).type = "chat" THEN discarded
                         ELSE discarded \union {Head(cmds).hc})
        /\ UNCHANGED <<host_counter, lobby, uncreates, chats, private, unlistable, login_event, actor, server, losses>>
    BY DEF DiscardCommand, core
  <1>2. cmds \in Seq(SentType(host_counter)) /\ Head(cmds) \in SentType(host_counter)
    BY <1>1 DEF ActorInv, Queues
  <1>3. Head(cmds).hc \in 0..host_counter
    BY <1>2 DEF SentType
  <1>4. Scalars'
    BY <1>1, <1>3 DEF ActorInv, Scalars, actor, server, Games
  <1>5. cmds' \in Seq(SentType(host_counter'))
    BY <1>1, <1>2
  <1>6. host_counter <= host_counter'
    BY <1>1, BnetAssumption DEF ActorInv, Scalars
  <1> QED BY <1>1, <1>4, <1>5, <1>6, OthersActor

\* What the connection's own steps leave: BotCore, the queue of packets, the game.
LEMMA ConnectionActor ==
    ASSUME ActorInv, ConnectFails \/ Connected \/ Disconnected \/ WaitOver
    PROVE  ActorInv'
  <1>1. UNCHANGED <<host_counter, lobby, uncreates, chats, private, unlistable, login_event, cmds, advertised,
                    discarded>>
    BY DEF ConnectFails, Connected, Disconnected, WaitOver, core
  <1>2. Scalars /\ Queues /\ Connection /\ OutRule(out_packets, advertised)
    BY DEF ActorInv
  <1>3. losses' \in 0..MaxLosses
    BY <1>2, BnetAssumption DEF ConnectFails, Connected, Disconnected, WaitOver, Wait, Scalars
  <1>4. /\ conn' \in {"connecting", "serving", "waiting"}
        /\ logged_in' \in {logged_in, FALSE} /\ in_channel' \in {in_channel, FALSE}
        /\ listed' \in {listed, NoGame}
    BY DEF ConnectFails, Connected, Disconnected, WaitOver, Wait, server
  <1>5. Scalars'
    <2>1. NoGame \in 0..host_counter
      BY <1>2, BnetAssumption DEF Scalars, NoGame
    <2> QED BY <1>1, <1>2, <1>3, <1>4, <2>1 DEF Scalars, Games
  <1>6. /\ out_packets' \in {out_packets, <<>>}
        /\ answers' \in {answers, <<>>, <<"auth_info">>}
    BY DEF ConnectFails, Connected, Disconnected, WaitOver, Wait, server, OutReset
  <1>7. Queues'
    <2> DEFINE F == {"auth_info", "auth_check", "accountlogon", "logonproof", "enterchat"}
    <2>1. <<"auth_info">> \in Seq(F) /\ answers \in Seq(F) /\ <<>> \in Seq(F)
      BY <1>2 DEF Queues
    <2>2. answers' \in Seq(F)
      <3> HIDE DEF F
      <3> QED BY <1>6, <2>1
    <2>3. cmds' \in Seq(SentType(host_counter))
      BY <1>1, <1>2 DEF Queues
    <2>4. out_packets' \in Seq(OutType(host_counter))
      <3>1. out_packets \in Seq(OutType(host_counter)) /\ <<>> \in Seq(OutType(host_counter))
        BY <1>2 DEF Queues
      <3> QED BY <1>6, <3>1
    <2> QED BY <1>1, <2>2, <2>3, <2>4 DEF Queues
  <1>8. OutRule(out_packets', advertised')
    BY <1>1, <1>2, <1>6, RuleEmpty
  <1>9. Connection' /\ (conn' = "serving" => Coming') /\ Returns'
    <2>1. CASE ConnectFails \/ Disconnected
      <3>1. conn' = "waiting" /\ UNCHANGED <<logged_in, out_packets>>
        BY <2>1 DEF ConnectFails, Disconnected, Wait
      <3>2. answers' = <<>> /\ listed' = NoGame
        BY <1>2, <2>1 DEF ConnectFails, Disconnected, Connection, server
      <3>3. Len(<<>>) <= 1
        OBVIOUS
      <3> QED BY <1>2, <3>1, <3>2, <3>3 DEF Connection, Returns
    <2>2. CASE WaitOver
      <3>1. conn' = "connecting" /\ ~logged_in' /\ out_packets' = <<>>
            /\ answers' = <<>> /\ listed' = NoGame
        BY <1>2, <2>2 DEF WaitOver, OutReset, Connection, server
      <3>2. Len(<<>>) <= 1
        OBVIOUS
      <3> QED BY <3>1, <3>2 DEF Connection, Returns
    <2>3. CASE Connected
      <3>1. /\ conn' = "serving" /\ answers' = <<"auth_info">> /\ ~logged_in' /\ listed' = NoGame
            /\ out_packets' = <<>>
        BY <1>2, <2>3 DEF Connected, Connection
      <3>2. Len(<<"auth_info">>) <= 1
        OBVIOUS
      <3>3. Lists(<<>>, NoGame) = NoGame
        BY DEF Lists, About
      <3> QED BY <3>1, <3>2, <3>3 DEF Connection, Returns, Coming
    <2> QED BY <2>1, <2>2, <2>3
  <1> QED BY <1>5, <1>7, <1>8, <1>9 DEF ActorInv

\* The answers of the server.
LEMMA FrameActor ==
    ASSUME ActorInv, HandleFrame
    PROVE  ActorInv'
  <1> DEFINE F == {"auth_info", "auth_check", "accountlogon", "logonproof", "enterchat"}
  <1>1. /\ conn = "serving" /\ answers # <<>>
        /\ UNCHANGED <<host_counter, lobby, uncreates, chats, private, unlistable, cmds, conn, advertised,
                       out_packets, listed, discarded, losses>>
    BY DEF HandleFrame, AuthInfo, AuthCheck, AccountLogon, Logon, LogonProof, EnterChat, Frame,
           core, actor
  <1>2. Scalars /\ Queues /\ Connection /\ OutRule(out_packets, advertised) /\ Coming /\ Returns
    BY <1>1 DEF ActorInv
  <1>3. answers \in Seq(F) /\ Tail(answers) \in Seq(F) /\ Len(answers) \in Nat
        /\ Len(Tail(answers)) = Len(answers) - 1
    BY <1>1, <1>2 DEF Queues
  <1>4. \/ EnterChat
        \/ \E next \in F : answers' = Append(Tail(answers), next)
    BY DEF HandleFrame, AuthInfo, AuthCheck, AccountLogon, Logon, LogonProof
  <1>5. answers' \in Seq(F) /\ Len(answers') <= Len(answers)
    <2>1. CASE EnterChat
      BY <1>3, <2>1 DEF EnterChat
    <2>2. ASSUME NEW next \in F, answers' = Append(Tail(answers), next)
          PROVE  answers' \in Seq(F) /\ Len(answers') <= Len(answers)
      <3> HIDE DEF F
      <3> QED BY <1>3, <2>2
    <2> QED BY <1>4, <2>1, <2>2
  <1>6. /\ logged_in' \in BOOLEAN /\ login_event' \in BOOLEAN /\ in_channel' \in BOOLEAN
        /\ logged_in => logged_in'
    BY <1>2 DEF HandleFrame, AuthInfo, AuthCheck, AccountLogon, Logon, LogonProof, EnterChat,
                actor, Scalars
  <1>7. Scalars'
    BY <1>1, <1>2, <1>6 DEF Scalars, Games
  <1>8. Queues'
    BY <1>1, <1>2, <1>5 DEF Queues
  <1>9. Connection'
    <2>1. ~logged_in' => Len(answers') <= 1
      BY <1>2, <1>3, <1>5, <1>6 DEF Connection, Scalars
    <2> QED BY <1>1, <1>2, <1>6, <2>1 DEF Connection, Scalars
  <1>10. Coming' /\ OutRule(out_packets', advertised')
    BY <1>1, <1>2 DEF Coming
  <1>11. Returns'
    <2>1. CASE EnterChat
      BY <2>1 DEF EnterChat, Returns
    <2>2. CASE LogonProof
      <3>1. answers' = Append(Tail(answers), "enterchat")
        BY <2>2 DEF LogonProof
      <3>2. Len(answers') \in DOMAIN answers' /\ answers'[Len(answers')] = "enterchat"
        <4> HIDE DEF F
        <4> QED BY <1>3, <3>1
      <3> QED BY <3>2 DEF Returns
    <2>3. CASE AuthInfo \/ AuthCheck \/ AccountLogon
      <3>1. PICK next \in F : answers' = Append(Tail(answers), next)
        BY <2>3 DEF AuthInfo, AuthCheck, AccountLogon, Logon
      <3>2. UNCHANGED <<logged_in, in_channel>> /\ Head(answers) # "enterchat"
        BY <2>3 DEF AuthInfo, AuthCheck, AccountLogon, Logon, Frame, actor
      <3>3. ASSUME NEW i \in DOMAIN answers, answers[i] = "enterchat"
            PROVE  \E j \in DOMAIN answers' : answers'[j] = "enterchat"
        <4>1. i \in 1..Len(answers) /\ answers[1] = Head(answers)
          BY <1>1, <1>3
        <4>2. i - 1 \in 1..Len(Tail(answers)) /\ Tail(answers)[i - 1] = answers[i]
          BY <1>1, <1>3, <3>2, <3>3, <4>1
        <4>3. i - 1 \in DOMAIN answers' /\ answers'[i - 1] = Tail(answers)[i - 1]
          <5> HIDE DEF F
          <5> QED BY <1>3, <3>1, <4>2
        <4> QED BY <3>3, <4>2, <4>3
      <3>4. "enterchat" \in {answers[i] : i \in DOMAIN answers}
                => "enterchat" \in {answers'[i] : i \in DOMAIN answers'}
        BY <3>3
      <3>5. Returning' <=> Returning
        BY <1>1 DEF Returning
      <3> QED BY <1>1, <1>2, <3>2, <3>4, <3>5 DEF Returns
    <2> QED BY <2>1, <2>2, <2>3 DEF HandleFrame
  <1> QED BY <1>7, <1>8, <1>9, <1>10, <1>11 DEF ActorInv

\* What is left of the queue without its refreshes is of the same type.
LEMMA WithoutTypes ==
    ASSUME NEW A, NEW q \in Seq(A)
    PROVE  WithoutAdv(q) \in Seq(A)
  <1>1. {p \in A : p.id # "startadvex3"} \subseteq A
    OBVIOUS
  <1>2. WithoutAdv(q) \in Seq({p \in A : p.id # "startadvex3"})
    BY Retained
  <1> QED BY <1>1, <1>2, SeqWider

\* After a refresh of a game that can be listed the server comes to list it.
LEMMA RefreshSays ==
    ASSUME ActorInv, NEW g \in 1..host_counter
    PROVE  /\ Refresh(g) \in Seq(OutType(host_counter)) /\ OutRule(Refresh(g), g)
           /\ g \in unlistable \/ \A l : Lists(Refresh(g), l) = g
  <1> DEFINE w == WithoutAdv(out_packets)
             p == Packet("startadvex3", g)
  <1>1. host_counter \in Nat /\ out_packets \in Seq(OutType(host_counter)) /\ g # NoGame
    BY BnetAssumption DEF ActorInv, Scalars, Queues, NoGame
  <1>2. w \in Seq(OutType(host_counter))
    BY <1>1, WithoutTypes
  <1>3. p \in OutType(host_counter) /\ p.id = "startadvex3" /\ p.hc = g
    BY <1>1, PacketTypes
  <1>4. OutRule(Append(w, p), g) /\ OutRule(out_packets, g)
    BY <1>1, RuleRetained DEF ActorInv, OutRule
  <1>5. Refresh(g) = IF g \in unlistable THEN out_packets ELSE Append(w, p)
    BY DEF Refresh
  <1> HIDE DEF w, p
  <1>6. \A l : Lists(Append(w, p), l) = g
    BY <1>2, <1>3, ListsAppend
  <1> QED BY <1>1, <1>2, <1>3, <1>4, <1>5, <1>6

\* What HandleCommand does to the queue of packets.
LEMMA QueueActor ==
    ASSUME ActorInv, conn = "serving", NEW q \in Seq(OutType(host_counter)), IfLoggedIn(q),
           advertised' \in 0..host_counter, OutRule(q, advertised'),
           Lists(q, listed) \in {NoGame, advertised'} \/ advertised' \in unlistable,
           advertised' = NoGame =>
               in_channel \/ (\E i \in DOMAIN q : q[i].id = "enterchat")
                          \/ "enterchat" \in {answers[i] : i \in DOMAIN answers},
           UNCHANGED <<core, login_event, conn, logged_in, server, discarded, losses>>,
           cmds' \in Seq(SentType(host_counter))
    PROVE  ActorInv'
  <1>1. Scalars /\ Queues /\ Connection
    BY DEF ActorInv
  <1>2. UNCHANGED <<host_counter, lobby, uncreates, chats, private, unlistable, login_event, conn, logged_in,
                    answers, listed, in_channel, discarded, losses>>
    BY DEF core, server
  <1>3. Scalars'
    BY <1>1, <1>2 DEF Scalars, Games
  <1>4. CASE logged_in
    <2>1. out_packets' = q
      BY <1>4 DEF IfLoggedIn
    <2>2. Queues' /\ Connection' /\ OutRule(out_packets', advertised') /\ Coming'
      BY <1>1, <1>2, <1>4, <2>1 DEF Queues, Connection, Coming
    <2>3. Returns'
      BY <1>2, <2>1 DEF Returns, Returning
    <2> QED BY <1>3, <2>2, <2>3 DEF ActorInv
  <1>5. CASE ~logged_in
    <2>1. out_packets' = <<>> /\ out_packets = <<>> /\ listed = NoGame
      BY <1>1, <1>5 DEF IfLoggedIn, Connection
    <2>2. Queues' /\ Connection'
      BY <1>1, <1>2, <2>1 DEF Queues, Connection
    <2>3. OutRule(out_packets', advertised')
      BY <2>1, RuleEmpty
    <2>4. Coming'
      BY <1>2, <2>1 DEF Coming, Lists, About
    <2>5. Returns'
      BY <1>2, <1>5 DEF Returns
    <2> QED BY <1>3, <2>2, <2>3, <2>4, <2>5 DEF ActorInv
  <1> QED BY <1>1, <1>4, <1>5 DEF Scalars

\* A command keeps the invariant, ...
LEMMA CommandActor ==
    ASSUME ActorInv, HandleCommand
    PROVE  ActorInv'
  <1>1. /\ conn = "serving" /\ cmds # <<>> /\ cmds' = Tail(cmds)
        /\ HandleChat \/ HandleCreateGame \/ HandleUncreateGame
        /\ UNCHANGED <<core, login_event, conn, logged_in, server, discarded, losses>>
    BY DEF HandleCommand
  <1>2. /\ Scalars /\ Queues /\ OutRule(out_packets, advertised) /\ Coming /\ Returns
        /\ host_counter \in Nat /\ out_packets \in Seq(OutType(host_counter))
    BY <1>1, BnetAssumption DEF ActorInv, Scalars, Queues
  <1>3. cmds' \in Seq(SentType(host_counter)) /\ Head(cmds) \in SentType(host_counter)
    BY <1>1, <1>2 DEF Queues
  <1>4. CASE HandleChat
    <2> DEFINE p == Packet("chatcommand", NoGame)
               q == Append(out_packets, p)
    <2>1. p \in OutType(host_counter) /\ p.id = "chatcommand"
      BY <1>2, PacketTypes
    <2>2. IfLoggedIn(q) /\ advertised' = advertised
      BY <1>4 DEF HandleChat
    <2> HIDE DEF p
    <2>3. q \in Seq(OutType(host_counter)) /\ OutRule(q, advertised)
      BY <1>2, <2>1, RuleAppend
    <2>4. Lists(q, listed) = Lists(out_packets, listed)
      BY <1>2, <2>1, ListsAppend
    <2>5. ASSUME NEW i \in DOMAIN out_packets PROVE i \in DOMAIN q /\ q[i] = out_packets[i]
      BY <1>2
    <2> HIDE DEF q
    <2>6. CASE logged_in
      <3>1. advertised' = NoGame =>
               in_channel \/ (\E i \in DOMAIN q : q[i].id = "enterchat")
                          \/ "enterchat" \in {answers[i] : i \in DOMAIN answers}
        BY <1>1, <1>2, <2>2, <2>5, <2>6 DEF Returns, Returning
      <3>2. /\ advertised' \in 0..host_counter
            /\ Lists(q, listed) \in {NoGame, advertised'} \/ advertised' \in unlistable
        BY <1>2, <2>2, <2>4 DEF Scalars, Coming
      <3> QED BY <1>1, <1>3, <2>2, <2>3, <3>1, <3>2, QueueActor
    <2>7. CASE ~logged_in
      <3>1. UNCHANGED out_packets
        BY <2>2, <2>7 DEF IfLoggedIn
      <3>2. UNCHANGED <<host_counter, lobby, uncreates, chats, private, unlistable, login_event, actor, server,
                        discarded, losses>>
        BY <1>1, <2>2, <3>1 DEF core, actor
      <3>3. Scalars'
        BY <1>2, <3>2 DEF Scalars, actor, server, Games
      <3>4. host_counter <= host_counter' /\ cmds' \in Seq(SentType(host_counter'))
        BY <1>2, <1>3, <3>2
      <3> QED BY <3>2, <3>3, <3>4, OthersActor
    <2> QED BY <2>6, <2>7
  <1>5. CASE HandleCreateGame
    <2> DEFINE g == Head(cmds).hc
    <2>1. g \in 1..host_counter /\ advertised' = g /\ IfLoggedIn(Refresh(g))
      BY <1>2, <1>3, <1>5 DEF HandleCreateGame, SentType, NoGame
    <2> HIDE DEF g
    <2>2. /\ Refresh(g) \in Seq(OutType(host_counter)) /\ OutRule(Refresh(g), g)
          /\ Lists(Refresh(g), listed) = g \/ g \in unlistable
      BY <2>1, RefreshSays
    <2>3. advertised' \in 0..host_counter /\ advertised' # NoGame
      BY <1>2, <2>1 DEF NoGame
    <2> QED BY <1>1, <1>3, <2>1, <2>2, <2>3, QueueActor
  <1>6. CASE HandleUncreateGame
    <2> DEFINE w == WithoutAdv(out_packets)
               s == Packet("stopadv", NoGame)
               e == Packet("enterchat", NoGame)
               q == Append(Append(w, s), e)
    <2>1. /\ s \in OutType(host_counter) /\ e \in OutType(host_counter)
          /\ s.id = "stopadv" /\ s.hc = NoGame /\ e.id = "enterchat"
      BY <1>2, PacketTypes
    <2>2. w \in Seq(OutType(host_counter)) /\ OutRule(w, NoGame)
      BY <1>2, WithoutTypes, RuleRetained
    <2>3. IfLoggedIn(w \o <<s, e>>) /\ advertised' = NoGame
      BY <1>6 DEF HandleUncreateGame, Uncreated, UncreateAndReturn
    <2> HIDE DEF w, s, e
    <2>4. Append(w, s) \in Seq(OutType(host_counter)) /\ q \in Seq(OutType(host_counter))
      BY <2>1, <2>2
    <2>5. w \o <<s, e>> = q
      BY <2>1, <2>2
    <2>6. Len(q) \in DOMAIN q /\ q[Len(q)].id = "enterchat"
      BY <2>1, <2>2, <2>4
    <2>7. OutRule(q, NoGame)
      <3>1. OutRule(Append(w, s), NoGame)
        BY <2>1, <2>2, RuleAppend
      <3> QED BY <2>1, <2>4, <3>1, RuleAppend
    <2>8. Lists(q, listed) = NoGame
      <3>1. Lists(Append(w, s), listed) = NoGame
        BY <2>1, <2>2, ListsAppend
      <3>2. Lists(q, listed) = Lists(Append(w, s), listed)
        BY <2>1, <2>4, ListsAppend
      <3> QED BY <3>1, <3>2
    <2> HIDE DEF q
    <2>9. IfLoggedIn(q)
      BY <2>3, <2>5
    <2>10. advertised' \in 0..host_counter
      BY <1>2, <2>3 DEF NoGame
    <2> QED BY <1>1, <1>3, <2>3, <2>4, <2>6, <2>7, <2>8, <2>9, <2>10, QueueActor
  <1> QED BY <1>1, <1>4, <1>5, <1>6

\* ... a refresh does, ...
LEMMA TickActor ==
    ASSUME ActorInv, RefreshTick
    PROVE  ActorInv'
  <1>1. /\ conn = "serving" /\ advertised # NoGame /\ IfLoggedIn(Refresh(advertised))
        /\ UNCHANGED <<core, login_event, cmds, conn, logged_in, advertised, server, discarded, losses>>
    BY DEF RefreshTick, PublicRefreshed
  <1>2. /\ advertised \in 0..host_counter /\ advertised \in 1..host_counter
        /\ cmds' \in Seq(SentType(host_counter))
    BY <1>1, BnetAssumption DEF ActorInv, Scalars, Queues, NoGame
  <1>3. /\ Refresh(advertised) \in Seq(OutType(host_counter))
        /\ OutRule(Refresh(advertised), advertised)
        /\ Lists(Refresh(advertised), listed) = advertised \/ advertised \in unlistable
    BY <1>2, RefreshSays
  <1> QED BY <1>1, <1>2, <1>3, QueueActor

\* ... and a packet sent.
LEMMA FlushActor ==
    ASSUME ActorInv, FlushOnePacket
    PROVE  ActorInv'
  <1> DEFINE F == {"auth_info", "auth_check", "accountlogon", "logonproof", "enterchat"}
             h == Head(out_packets)
  <1>1. /\ conn = "serving" /\ out_packets # <<>> /\ out_packets' = Tail(out_packets)
        /\ listed' = Lists(<<h>>, listed)
        /\ answers' = (IF h.id = "enterchat" THEN Append(answers, "enterchat") ELSE answers)
        /\ in_channel' = (in_channel /\ h.id # "startadvex3")
        /\ UNCHANGED <<host_counter, lobby, uncreates, chats, private, unlistable, login_event, cmds, conn,
                       logged_in, advertised, discarded, losses>>
    BY ListedIs DEF FlushOnePacket, core
  <1>2. /\ Scalars /\ Queues /\ Connection /\ OutRule(out_packets, advertised) /\ Coming /\ Returns
        /\ host_counter \in Nat /\ out_packets \in Seq(OutType(host_counter)) /\ answers \in Seq(F)
    BY <1>1, BnetAssumption, SMTT(15), ZenonT(40) DEF ActorInv, Scalars, Queues
  <1>3. /\ h \in OutType(host_counter) /\ Tail(out_packets) \in Seq(OutType(host_counter))
        /\ h = out_packets[1] /\ 1 \in DOMAIN out_packets
        /\ DOMAIN out_packets = 1..Len(out_packets) /\ Len(out_packets) \in Nat
        /\ DOMAIN Tail(out_packets) = 1..(Len(out_packets) - 1)
        /\ \A i \in 1..(Len(out_packets) - 1) : Tail(out_packets)[i] = out_packets[i + 1]
    BY <1>1, <1>2
  <1>4. listed' \in 0..host_counter
    <2>1. h.hc \in 0..host_counter
      BY <1>3 DEF OutType
    <2>2. Lists(<<h>>, listed) \in {h.hc, listed}
      <3>1. \A i \in About(<<h>>) : i = 1
        BY DEF About
      <3>2. CASE About(<<h>>) = {}
        BY <3>2 DEF Lists
      <3>3. CASE About(<<h>>) # {}
        <4>1. About(<<h>>) = {1}
          BY <3>1, <3>3
        <4>2. LastOf({1}) = 1
          BY LastIs
        <4> QED BY <4>1, <4>2 DEF Lists
      <3> QED BY <3>2, <3>3
    <2> QED BY <1>1, <1>2, <2>1, <2>2 DEF Scalars
  <1>5. Scalars'
    BY <1>1, <1>2, <1>4 DEF Scalars, Games
  <1>6. logged_in
    BY <1>1, <1>2 DEF Connection
  <1>7. answers' \in Seq(F)
    <2>1. "enterchat" \in F
      OBVIOUS
    <2> HIDE DEF F
    <2> QED BY <1>1, <1>2, <2>1
  <1>8. Queues' /\ Connection'
    BY <1>1, <1>2, <1>3, <1>6, <1>7 DEF Queues, Connection
  <1>9. OutRule(out_packets', advertised')
    BY <1>1, <1>2, RuleTail
  <1>10. Coming'
    <2>1. Lists(Tail(out_packets), Lists(<<h>>, listed)) = Lists(out_packets, listed)
      BY <1>1, <1>2, ListsFlush
    <2> QED BY <1>1, <1>2, <2>1 DEF Coming
  <1>11. Returns'
    <2> SUFFICES ASSUME advertised = NoGame
                 PROVE  \/ in_channel' \/ Returning'
                        \/ "enterchat" \in {answers'[i] : i \in DOMAIN answers'}
      BY <1>1 DEF Returns
    <2>1. in_channel \/ Returning \/ "enterchat" \in {answers[i] : i \in DOMAIN answers}
      BY <1>1, <1>2, <1>6 DEF Returns
    <2>2. h.id # "startadvex3"
      BY <1>2, <1>3 DEF OutRule
    <2>3. CASE in_channel
      BY <1>1, <2>2, <2>3
    <2>4. CASE h.id = "enterchat"
      <3>1. answers' = Append(answers, "enterchat")
        BY <1>1, <2>4
      <3>2. Len(answers') \in DOMAIN answers' /\ answers'[Len(answers')] = "enterchat"
        <4>1. "enterchat" \in F
          OBVIOUS
        <4> HIDE DEF F
        <4> QED BY <1>2, <3>1, <4>1
      <3> QED BY <3>2
    <2>5. CASE h.id # "enterchat" /\ Returning
      <3>1. PICK i \in DOMAIN out_packets : out_packets[i].id = "enterchat"
        BY <2>5 DEF Returning
      <3>2. i - 1 \in 1..(Len(out_packets) - 1) /\ (i - 1) + 1 = i
        BY <1>3, <2>5, <3>1
      <3>3. i - 1 \in DOMAIN out_packets' /\ out_packets'[i - 1].id = "enterchat"
        BY <1>1, <1>3, <3>1, <3>2
      <3> QED BY <3>3 DEF Returning
    <2>6. CASE h.id # "enterchat" /\ "enterchat" \in {answers[i] : i \in DOMAIN answers}
      BY <1>1, <2>6
    <2> QED BY <2>1, <2>3, <2>4, <2>5, <2>6
  <1> QED BY <1>5, <1>8, <1>9, <1>10, <1>11 DEF ActorInv

\* Every step does, ...
LEMMA ActorNext == ActorInv /\ [Next]_vars => ActorInv'
  <1> SUFFICES ASSUME ActorInv, [Next]_vars PROVE ActorInv'
    OBVIOUS
  <1>a. login_event \in BOOLEAN /\ host_counter \in Nat
    BY BnetAssumption DEF ActorInv, Scalars
  <1>1. ASSUME NEW privately \in BOOLEAN, NEW listable \in BOOLEAN, CreateGame(privately, listable) PROVE ActorInv'
    BY <1>a, <1>1, CreateActor DEF CreateGame
  <1>2. CASE UncreateGame \/ Chat
    BY <1>2, SentActor
  <1>3. CASE HandleLoggedIn
    <2>1. UNCHANGED <<actor, server, discarded, losses>> /\ login_event' = FALSE
      BY <1>3 DEF HandleLoggedIn
    <2>2. CASE \E listable \in BOOLEAN : Create(FALSE, listable)
      BY <2>1, <2>2, CreateActor
    <2>3. CASE UNCHANGED <<core, cmds>>
      <3>1. Scalars'
        BY <2>1, <2>3 DEF ActorInv, Scalars, core, actor, server, Games
      <3>2. /\ cmds' \in Seq(SentType(host_counter')) /\ host_counter <= host_counter'
            /\ unlistable \subseteq unlistable'
        BY <1>a, <2>3 DEF ActorInv, Queues, core
      <3> QED BY <2>1, <3>1, <3>2, OthersActor
    <2> QED BY <1>3, <2>2, <2>3 DEF HandleLoggedIn
  <1>4. CASE ConnectFails \/ Connected \/ Disconnected \/ WaitOver
    BY <1>4, ConnectionActor
  <1>5. CASE DiscardCommand
    BY <1>5, DiscardActor
  <1>6. CASE HandleFrame
    BY <1>6, FrameActor
  <1>7. CASE HandleCommand
    BY <1>7, CommandActor
  <1>8. CASE RefreshTick
    BY <1>8, TickActor
  <1>9. CASE FlushOnePacket
    BY <1>9, FlushActor
  <1>10. CASE UNCHANGED vars
    <2>1. Scalars'
      BY <1>10 DEF ActorInv, Scalars, vars, core, actor, server, Games
    <2>2. /\ cmds' \in Seq(SentType(host_counter')) /\ host_counter <= host_counter'
          /\ unlistable \subseteq unlistable'
      BY <1>a, <1>10 DEF ActorInv, Queues, vars, core
    <2> QED BY <1>10, <2>1, <2>2, OthersActor DEF vars
  <1> QED
    BY <1>1, <1>2, <1>3, <1>4, <1>5, <1>6, <1>7, <1>8, <1>9, <1>10 DEF Next

\* ... so it holds always.
LEMMA ActorAlways == Spec => []ActorInv
  BY ActorInit, ActorNext, PTL DEF Spec

\* Types; of the packets that wait for flood control at most one is a refresh
\* (queue_game_refresh), and nothing comes between the packets of a logon.
THEOREM TypeCorrect == Spec => []TypeOK
  BY ActorAlways, TypesFollow, PTL

\* What the server's list comes to when the queue is flushed is the advertised game
\* or nothing, and without a game the bot is in its channel or on its way there
\* (queue_game_refresh, UncreateGame, connect_and_serve).
THEOREM ListingIsFollowed == Spec => []ListingFollows
  BY ActorAlways, ListingHolds, PTL
=============================================================================
