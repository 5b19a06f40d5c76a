--------------------------- MODULE ModerationProofs ---------------------------
(***************************************************************************)
(* That a ban which holds all through a join keeps the joiner out, for any *)
(* number of realms, games, players and orders: every list the join has    *)
(* still to look at, or has looked at in vain, is accounted for.  And that *)
(* a mute silences its player for its time and nobody for longer: every    *)
(* order that may be on a list, or that a join or an unmute may have       *)
(* missed on its way through the lists, is accounted for.                  *)
(***************************************************************************)
EXTENDS Moderation, TLAPS

LEMMA ServerTypes ==
    /\ DbServers \in Seq(Realms) /\ Len(DbServers) \in Nat \ {0}
    /\ Len(Servers) \in Nat /\ \A i \in 1..Len(Servers) : Servers[i] \in OnBattleNet
    /\ \A i \in 1..Len(DbServers) : DbServers[i] \in Realms
    /\ OnBattleNet \subseteq Realms
  <1>1. CASE Servers = <<>>
    <2>1. DbServers = <<NoRealm>> /\ OnBattleNet = {}
      BY <1>1 DEF DbServers, OnBattleNet
    <2>2. Realms = {NoRealm}
      BY <2>1 DEF Realms
    <2> QED BY <1>1, <2>1, <2>2
  <1>2. CASE Servers # <<>>
    <2>1. DbServers = Servers /\ Realms = OnBattleNet
      BY <1>2 DEF DbServers, Realms, OnBattleNet
    <2>2. Servers \in Seq(OnBattleNet)
      BY ModerationAssumption
    <2>3. Len(Servers) \in Nat \ {0}
      BY <1>2, <2>2
    <2>4. \A i \in 1..Len(Servers) : Servers[i] \in OnBattleNet
      BY <2>2
    <2> QED BY <2>1, <2>2, <2>3, <2>4
  <1> QED BY <1>1, <1>2

Jobs == {Idle} \union Joins \union Mutings \union Unmutings
Expiry == Nat \union {NoMute}

\* The conjuncts of the type invariant, by what they are about.
TablesOK == mutes \in [Realms -> [Names -> Expiry]] /\ bans \subseteq OnBattleNet \X Names
SeatsOK ==
    /\ seats \in [Games -> SUBSET Names]
    /\ muted \in [Games -> [Names -> Expiry]]
    /\ realm \in [Games -> [Names -> OnBattleNet \union {NoRealm}]]
    /\ \A g \in Games, n \in Names :
          n \notin seats[g] => muted[g][n] = NoMute /\ realm[g][n] = NoRealm
JobsOK == job \in [Games -> Jobs]

LEMMA TypeParts == TypeOK <=> TablesOK /\ SeatsOK /\ JobsOK /\ now \in Nat /\ lobby \in Games
  BY DEF TypeOK, TablesOK, SeatsOK, JobsOK, Jobs, Expiry

LEMMA TypeInit == Init => TypeOK
  <1> SUFFICES ASSUME Init PROVE TypeOK
    OBVIOUS
  <1>1. TablesOK
    BY DEF Init, TablesOK, Expiry
  <1>2. SeatsOK
    BY DEF Init, SeatsOK, Expiry
  <1>3. JobsOK
    BY DEF Init, JobsOK, Jobs
  <1>4. now \in Nat /\ lobby \in Games
    BY ModerationAssumption DEF Init, Games
  <1> QED BY <1>1, <1>2, <1>3, <1>4, TypeParts

(***************************************************************************)
(* One operation's effect on a game                                        *)
(***************************************************************************)

\* A job is replaced by another.
LEMMA JobSet ==
    ASSUME JobsOK, NEW g \in Games, NEW j \in Jobs, job' = [job EXCEPT ![g] = j]
    PROVE  JobsOK'
  BY DEF JobsOK

LEMMA JobFinished == ASSUME JobsOK, NEW g \in Games, Finish(g) PROVE JobsOK'
  BY DEF JobsOK, Jobs, Finish

\* Which jobs a kind stands for.
LEMMA JobKinds ==
    ASSUME JobsOK, NEW g \in Games
    PROVE  /\ job[g].kind = "join" => job[g] \in Joins
           /\ job[g].kind = "mute" => job[g] \in Mutings
           /\ job[g].kind = "unmute" => job[g] \in Unmutings
  <1>1. job[g] \in Jobs
    BY DEF JobsOK
  <1> QED BY <1>1 DEF Jobs, Idle, Joins, Mutings, Unmutings

\* A joiner asks one list, of bans or of mutes, after another.
LEMMA JoinTypes ==
    ASSUME NEW n \in Names, NEW ask \in {"ban", "mute"}
    PROVE  /\ JoinJob(n, ask, 1) \in Joins
           /\ \A i \in Nat \ {0} : i < Len(DbServers) => JoinJob(n, ask, i + 1) \in Joins
  <1>1. DOMAIN DbServers = 1..Len(DbServers) /\ 1 \in DOMAIN DbServers
    BY ServerTypes
  <1> QED BY <1>1, ServerTypes DEF Joins, JoinJob

LEMMA UnmuteTypes ==
    ASSUME NEW n \in Names, NEW failed \in BOOLEAN
    PROVE  /\ UnmuteJob(n, 1, failed) \in Unmutings
           /\ \A i \in Nat \ {0} : i < Len(DbServers) => UnmuteJob(n, i + 1, failed) \in Unmutings
  <1>1. DOMAIN DbServers = 1..Len(DbServers) /\ 1 \in DOMAIN DbServers
    BY ServerTypes
  <1> QED BY <1>1, ServerTypes DEF Unmutings, UnmuteJob

LEMMA FewerServers == Len(Servers) <= Len(DbServers)
  BY ServerTypes DEF DbServers

LEMMA SeatTaken ==
    ASSUME SeatsOK, NEW g \in Games, job[g].name \in Names, NEW until \in Expiry, NEW possible,
           Seat(g, until, possible)
    PROVE  SeatsOK'
  <1>1. seats' \in [Games -> SUBSET Names]
    BY DEF SeatsOK, Seat
  <1>2. muted' \in [Games -> [Names -> Expiry]]
    BY DEF SeatsOK, Seat
  <1>3. realm' \in [Games -> [Names -> OnBattleNet \union {NoRealm}]]
    BY DEF SeatsOK, Seat
  <1>4. ASSUME NEW h \in Games, NEW n \in Names, n \notin seats'[h]
        PROVE  muted'[h][n] = NoMute /\ realm'[h][n] = NoRealm
    <2>1. n \notin seats[h] /\ ~(h = g /\ n = job[g].name)
      BY <1>4 DEF SeatsOK, Seat
    <2>2. muted'[h][n] = muted[h][n] /\ realm'[h][n] = realm[h][n]
      BY <2>1 DEF SeatsOK, Seat
    <2> QED BY <2>1, <2>2 DEF SeatsOK
  <1> QED BY <1>1, <1>2, <1>3, <1>4 DEF SeatsOK

LEMMA Obeyed ==
    ASSUME SeatsOK, NEW g \in Games, NEW n \in Names, NEW until \in Expiry, Obeys(g, n, until),
           UNCHANGED <<seats, realm>>
    PROVE  SeatsOK'
  <1>1. CASE n \in seats[g]
    <2>1. muted' = [muted EXCEPT ![g][n] = until] /\ UNCHANGED <<seats, realm>>
      BY <1>1 DEF Obeys
    <2>2. muted' \in [Games -> [Names -> Expiry]]
      BY <2>1 DEF SeatsOK
    <2>3. ASSUME NEW h \in Games, NEW m \in Names, m \notin seats'[h]
          PROVE  muted'[h][m] = NoMute /\ realm'[h][m] = NoRealm
      <3>1. ~(h = g /\ m = n) /\ m \notin seats[h]
        BY <1>1, <2>1, <2>3
      <3>2. muted'[h][m] = muted[h][m]
        BY <2>1, <3>1 DEF SeatsOK
      <3> QED BY <2>1, <3>1, <3>2 DEF SeatsOK
    <2> QED BY <2>1, <2>2, <2>3 DEF SeatsOK
  <1>2. CASE n \notin seats[g]
    BY <1>2 DEF Obeys, SeatsOK
  <1> QED BY <1>1, <1>2

\* What a mute that is found says.
LEMMA FoundTypes ==
    ASSUME TablesOK, NEW n \in Names, NEW i \in DOMAIN DbServers
    PROVE  MuteFound(n, i) \in Expiry
  <1>1. DbServers[i] \in Realms
    BY DEF Realms
  <1>2. mutes[DbServers[i]][n] \in Expiry
    BY <1>1 DEF TablesOK
  <1> QED BY <1>2 DEF MuteFound, Expiry

(***************************************************************************)
(* Types                                                                   *)
(***************************************************************************)

LEMMA TypeNext == TypeOK /\ [Next]_vars => TypeOK'
  <1> SUFFICES ASSUME TypeOK, [Next]_vars PROVE TypeOK'
    OBVIOUS
  <1>a. TablesOK /\ SeatsOK /\ JobsOK /\ now \in Nat /\ lobby \in Games
    BY TypeParts
  <1>b. ASSUME TablesOK', SeatsOK', JobsOK', now' \in Nat, lobby' \in Games PROVE TypeOK'
    BY <1>b DEF TypeOK, TablesOK, SeatsOK, JobsOK, Jobs, Expiry
  <1>t. ASSUME UNCHANGED tables PROVE TablesOK'
    BY <1>a, <1>t DEF TablesOK, tables
  <1>m. ASSUME NEW r \in Realms, NEW n \in Names, NEW until \in Expiry, bans' = bans,
               mutes' = mutes \/ mutes' = [mutes EXCEPT ![r][n] = until]
        PROVE  TablesOK'
    BY <1>a, <1>m DEF TablesOK
  <1>s. ASSUME UNCHANGED <<seats, muted, realm>> PROVE SeatsOK'
    BY <1>a, <1>s DEF SeatsOK
  <1>j. ASSUME UNCHANGED job PROVE JobsOK'
    BY <1>a, <1>j DEF JobsOK
  <1>1. ASSUME NEW g \in Games, BanCheck(g) PROVE TypeOK'
    <2>1. UNCHANGED <<tables, now, lobby, seats, muted, realm>>
      BY <1>1 DEF BanCheck, games
    <2>2. job[g] \in Joins
      BY <1>1, <1>a, JobKinds DEF BanCheck
    <2>3. job[g].name \in Names /\ job[g].server \in Nat \ {0}
      BY <2>2, ServerTypes DEF Joins
    <2>4. CASE Finish(g)
      BY <1>a, <1>b, <1>s, <1>t, <2>1, <2>4, JobFinished
    <2>5. CASE job' = [job EXCEPT ![g] = IF @.server < Len(Servers)
                                         THEN JoinJob(@.name, "ban", @.server + 1)
                                         ELSE JoinJob(@.name, "mute", 1)]
      <3> DEFINE j == IF job[g].server < Len(Servers)
                      THEN JoinJob(job[g].name, "ban", job[g].server + 1)
                      ELSE JoinJob(job[g].name, "mute", 1)
      <3>1. j \in Jobs
        BY <2>3, JoinTypes, FewerServers, ServerTypes DEF Jobs
      <3>2. job' = [job EXCEPT ![g] = j]
        BY <2>5
      <3>3. JobsOK'
        BY <1>a, <3>1, <3>2, JobSet
      <3> QED BY <1>a, <1>b, <1>s, <1>t, <2>1, <3>3
    <2> QED BY <1>1, <2>4, <2>5 DEF BanCheck
  <1>2. ASSUME NEW g \in Games, MuteCheck(g) PROVE TypeOK'
    <2> DEFINE found == MuteFound(job[g].name, job[g].server)
               more == job[g].server < Len(DbServers)
               next == /\ job' = [job EXCEPT ![g] = JoinJob(@.name, "mute", @.server + 1)]
                       /\ UNCHANGED <<seats, muted, realm, due>>
    <2>1. UNCHANGED <<tables, now, lobby>>
      BY <1>2 DEF MuteCheck
    <2>2. job[g] \in Joins
      BY <1>2, <1>a, JobKinds DEF MuteCheck
    <2>3. job[g].name \in Names /\ job[g].server \in Nat \ {0} /\ job[g].server \in DOMAIN DbServers
      BY <2>2, ServerTypes DEF Joins
    <2>4. found \in Expiry /\ NoMute \in Expiry
      BY <1>a, <2>3, FoundTypes DEF Expiry
    <2>5. ASSUME NEW until \in Expiry, NEW possible, Seat(g, until, possible) PROVE TypeOK'
      <3>1. SeatsOK'
        BY <1>a, <2>3, <2>5, SeatTaken
      <3>2. Finish(g)
        BY <2>5 DEF Seat
      <3>3. JobsOK'
        BY <1>a, <3>2, JobFinished
      <3> QED BY <1>a, <1>b, <1>t, <2>1, <3>1, <3>3
    <2>6. ASSUME more, next PROVE TypeOK'
      <3>1. JoinJob(job[g].name, "mute", job[g].server + 1) \in Jobs
        BY <2>3, <2>6, JoinTypes DEF Jobs
      <3>2. job' = [job EXCEPT ![g] = JoinJob(job[g].name, "mute", job[g].server + 1)]
        BY <2>6
      <3>3. JobsOK'
        BY <1>a, <3>1, <3>2, JobSet
      <3> QED BY <1>a, <1>b, <1>s, <1>t, <2>1, <2>6, <3>3
    <2>7. \/ Seat(g, found, during[g]) \/ Seat(g, NoMute, during[g])
          \/ Seat(g, NoMute, during[g] \union {NoMute}) \/ (more /\ next)
      BY <1>2 DEF MuteCheck
    <2> HIDE DEF found, more, next
    <2> QED BY <2>4, <2>5, <2>6, <2>7
  <1>3. ASSUME NEW g \in Games, MuteAdd(g) PROVE TypeOK'
    <2>1. job[g] \in Mutings /\ Finish(g)
      BY <1>3, <1>a, JobKinds DEF MuteAdd
    <2>2. TablesOK'
      <3>1. job[g].realm \in Realms /\ job[g].name \in Names /\ job[g].until \in Expiry
        BY <2>1 DEF Mutings, Expiry
      <3>2. bans' = bans
        BY <1>3 DEF MuteAdd
      <3>3. \/ mutes' = mutes
            \/ mutes' = [mutes EXCEPT ![job[g].realm][job[g].name] = job[g].until]
        BY <1>3 DEF MuteAdd, Upsert
      <3> QED BY <1>m, <3>1, <3>2, <3>3
    <2>3. UNCHANGED <<now, lobby, seats, muted, realm>>
      BY <1>3 DEF MuteAdd, games
    <2> QED BY <1>a, <1>b, <1>s, <2>1, <2>2, <2>3, JobFinished
  <1>4. ASSUME NEW g \in Games, MuteRemove(g) PROVE TypeOK'
    <2>1. job[g] \in Unmutings
      BY <1>4, <1>a, JobKinds DEF MuteRemove
    <2>2. /\ job[g].name \in Names /\ job[g].server \in Nat \ {0} /\ job[g].server \in DOMAIN DbServers
          /\ job[g].server <= Len(DbServers) /\ DbServers[job[g].server] \in Realms
          /\ job[g].failed \in BOOLEAN
      BY <2>1, ServerTypes DEF Unmutings
    <2>3. UNCHANGED <<bans, now, lobby, seats, muted, realm>>
      BY <1>4 DEF MuteRemove, games
    <2>4. mutes' = mutes \/ mutes' = [mutes EXCEPT ![DbServers[job[g].server]][job[g].name] = NoMute]
      BY <1>4 DEF MuteRemove, RemoveFrom
    <2>5. TablesOK'
      <3>1. NoMute \in Expiry
        BY DEF Expiry
      <3> QED BY <1>m, <2>2, <2>3, <2>4, <3>1
    <2>6. JobsOK'
      <3> DEFINE failed == job[g].failed \/ failures' > failures
                 j == IF job[g].server = Len(DbServers) THEN Idle
                      ELSE UnmuteJob(job[g].name, job[g].server + 1, failed)
      <3>1. failed \in BOOLEAN
        BY <2>2
      <3>2. j \in Jobs
        <4> HIDE DEF failed
        <4>1. CASE job[g].server = Len(DbServers)
          BY <4>1 DEF Jobs
        <4>2. CASE job[g].server # Len(DbServers)
          <5>1. job[g].server < Len(DbServers)
            BY <2>2, <4>2, ServerTypes
          <5> QED BY <2>2, <3>1, <4>2, <5>1, UnmuteTypes DEF Jobs
        <4> QED BY <4>1, <4>2
      <3>3. job' = [job EXCEPT ![g] = j]
        BY <1>4 DEF MuteRemove
      <3> QED BY <1>a, <3>2, <3>3, JobSet
    <2> QED BY <1>a, <1>b, <1>s, <2>3, <2>5, <2>6
  <1>5. ASSUME NEW g \in Games, NEW n \in Names, Reqjoin(g, n) PROVE TypeOK'
    <2> DEFINE j == JoinJob(n, IF Servers = <<>> THEN "mute" ELSE "ban", 1)
    <2>1. j \in Jobs
      BY JoinTypes DEF Jobs
    <2>2. job' = [job EXCEPT ![g] = j] /\ UNCHANGED <<tables, now, lobby, seats, muted, realm>>
      BY <1>5 DEF Reqjoin, games
    <2>3. JobsOK'
      BY <1>a, <2>1, <2>2, JobSet
    <2> QED BY <1>a, <1>b, <1>s, <1>t, <2>2, <2>3
  <1>6. ASSUME NEW g \in Games, NEW n \in Names, NEW term \in Terms, Mute(g, n, term) PROVE TypeOK'
    <2> DEFINE until == IF term = 0 THEN ForGood ELSE now + term
               r == IF n \in seats[g] /\ realm[g][n] # NoRealm THEN realm[g][n] ELSE DbServers[1]
    <2>1. until \in Nat /\ until \in Expiry
      BY <1>a, ModerationAssumption DEF ForGood, Expiry
    <2>2. r \in Realms
      BY <1>a, ServerTypes DEF SeatsOK
    <2>3. /\ Obeys(g, n, until) /\ job' = [job EXCEPT ![g] = MuteJob(n, r, until)]
          /\ UNCHANGED <<tables, now, lobby, seats, realm>>
      BY <1>6 DEF Mute
    <2>4. MuteJob(n, r, until) \in Jobs
      BY <2>1, <2>2 DEF Jobs, Mutings, MuteJob
    <2> HIDE DEF until, r
    <2>5. JobsOK' /\ SeatsOK'
      BY <1>a, <2>1, <2>3, <2>4, JobSet, Obeyed
    <2> QED BY <1>a, <1>b, <1>t, <2>3, <2>5
  <1>7. ASSUME NEW g \in Games, NEW n \in Names, Unmute(g, n) PROVE TypeOK'
    <2>1. /\ Obeys(g, n, NoMute) /\ job' = [job EXCEPT ![g] = UnmuteJob(n, 1, FALSE)]
          /\ UNCHANGED <<tables, now, lobby, seats, realm>>
      BY <1>7 DEF Unmute
    <2>2. UnmuteJob(n, 1, FALSE) \in Jobs /\ NoMute \in Expiry
      BY UnmuteTypes DEF Jobs, Expiry
    <2>3. JobsOK' /\ SeatsOK'
      BY <1>a, <2>1, <2>2, JobSet, Obeyed
    <2> QED BY <1>a, <1>b, <1>t, <2>1, <2>3
  <1>8. ASSUME NEW g \in Games, NEW n \in Names, RelayChat(g, n) PROVE TypeOK'
    <2>1. muted' = [muted EXCEPT ![g][n] = NoMute] /\ UNCHANGED <<tables, now, lobby, seats, realm, job>>
      BY <1>8 DEF RelayChat
    <2>2. SeatsOK'
      BY <1>a, <2>1 DEF SeatsOK, Expiry
    <2> QED BY <1>a, <1>b, <1>t, <1>j, <2>1, <2>2
  <1>9. ASSUME NEW g \in Games, NEW n \in Names, Leave(g, n) PROVE TypeOK'
    <2>1. /\ seats' = [seats EXCEPT ![g] = @ \ {n}] /\ muted' = [muted EXCEPT ![g][n] = NoMute]
          /\ realm' = [realm EXCEPT ![g][n] = NoRealm] /\ UNCHANGED <<tables, now, lobby, job>>
      BY <1>9 DEF Leave
    <2>2. SeatsOK'
      BY <1>a, <2>1 DEF SeatsOK, Expiry
    <2> QED BY <1>a, <1>b, <1>t, <1>j, <2>1, <2>2
  <1>10. ASSUME NEW n \in Names, NEW r \in OnBattleNet, SpoofCheck(n, r) PROVE TypeOK'
    <2>1. /\ n \in seats[lobby] /\ realm' = [realm EXCEPT ![lobby][n] = r]
          /\ UNCHANGED <<tables, now, lobby, seats, muted, job>>
      BY <1>10 DEF SpoofCheck, Verify
    <2>2. SeatsOK'
      BY <1>a, <2>1 DEF SeatsOK
    <2> QED BY <1>a, <1>b, <1>t, <1>j, <2>1, <2>2
  <1>11. ASSUME NEW n \in Names, NEW r \in OnBattleNet, BanAdd(r, n) \/ BanRemove(r, n)
         PROVE  TypeOK'
    <2>1. UNCHANGED <<mutes, now, lobby, seats, muted, realm, job>>
      BY <1>11 DEF BanAdd, BanRemove, games
    <2>2. bans' \subseteq OnBattleNet \X Names
      BY <1>a, <1>11 DEF BanAdd, BanRemove, TablesOK
    <2> QED BY <1>a, <1>b, <1>s, <1>j, <2>1, <2>2 DEF TablesOK
  <1>12. CASE NextLobby
    BY <1>12, <1>a, <1>b, <1>s, <1>t, <1>j, ModerationAssumption DEF NextLobby, Games
  <1>13. CASE Tick
    BY <1>13, <1>a, <1>b, <1>s, <1>t, <1>j DEF Tick, games
  <1>14. CASE Restart
    <2>1. UNCHANGED <<tables, now>> /\ lobby' \in Games
      BY <1>14, ModerationAssumption DEF Restart, Games
    <2>2. SeatsOK'
      BY <1>14 DEF Restart, SeatsOK, Expiry
    <2>3. JobsOK'
      BY <1>14 DEF Restart, JobsOK, Jobs
    <2> QED BY <1>a, <1>b, <1>t, <2>1, <2>2, <2>3
  <1>15. CASE UNCHANGED vars
    BY <1>15, <1>a, <1>b, <1>s, <1>t, <1>j DEF vars, games
  <1> QED BY <1>1, <1>2, <1>3, <1>4, <1>5, <1>6, <1>7, <1>8, <1>9, <1>10, <1>11, <1>12, <1>13,
             <1>14, <1>15 DEF Next

(* What the tables, the games' players and the actors' jobs are, at all     *)
(* times.                                                                   *)
THEOREM TypeCorrect == Spec => []TypeOK
  <1> QED BY TypeInit, TypeNext, PTL DEF Spec


(***************************************************************************)
(* Bans                                                                    *)
(***************************************************************************)

\* Of a join: its bans are in force, and are on lists it has still to look
\* at; it comes to the mutes only when there are none.
Accounted(g) ==
    /\ \A b \in barred[g] : b \in bans /\ b[2] = job[g].name
    /\ job[g].ask = "ban" =>
          /\ job[g].server <= Len(Servers)
          /\ \A b \in barred[g] : \E i \in job[g].server..Len(Servers) : b[1] = Servers[i]
    /\ job[g].ask = "mute" => barred[g] = {}

BanInv ==
    /\ barred \in [Games -> SUBSET (OnBattleNet \X Names)]
    /\ \A g \in Games : job[g].kind = "join" => Accounted(g)

LEMMA BanInit == Init => BanInv
  BY DEF Init, BanInv, Idle

\* A game's join is where it was, and no ban it had is gone.
LEMMA StillAccounted ==
    ASSUME NEW g \in Games, Accounted(g), job'[g] = job[g], barred'[g] \subseteq barred[g],
           barred'[g] \subseteq bans'
    PROVE  Accounted(g)'
  BY DEF Accounted

\* A step of game g's actor, the others' jobs and all bans as they were.
LEMMA OneJob ==
    ASSUME TypeOK, BanInv, NEW g \in Games, NEW j, NEW left,
           job' = [job EXCEPT ![g] = j], bans' = bans,
           barred' = [barred EXCEPT ![g] = left], left \subseteq OnBattleNet \X Names,
           j.kind = "join" => Accounted(g)'
    PROVE  BanInv'
  <1>1. barred' \in [Games -> SUBSET (OnBattleNet \X Names)]
    BY DEF BanInv
  <1>2. ASSUME NEW h \in Games, job'[h].kind = "join" PROVE Accounted(h)'
    <2>1. CASE h = g
      <3>1. job'[g] = j
        BY DEF TypeOK
      <3> QED BY <1>2, <2>1, <3>1
    <2>2. CASE h # g
      <3>1. job'[h] = job[h] /\ barred'[h] = barred[h]
        BY <2>2 DEF TypeOK, BanInv
      <3>2. Accounted(h)
        BY <1>2, <3>1 DEF BanInv
      <3>3. barred'[h] \subseteq bans'
        BY <3>1, <3>2 DEF Accounted
      <3> QED BY <3>1, <3>2, <3>3, StillAccounted
    <2> QED BY <2>1, <2>2
  <1> QED BY <1>1, <1>2 DEF BanInv

\* A step that starts or ends no join and ends no ban.
LEMMA OtherJob ==
    ASSUME TypeOK, BanInv, NEW g \in Games, NEW j, j.kind # "join",
           job' = [job EXCEPT ![g] = j], bans' = bans, barred' = barred
    PROVE  BanInv'
  <1>1. barred' = [barred EXCEPT ![g] = barred[g]] /\ barred[g] \subseteq OnBattleNet \X Names
    BY DEF BanInv
  <1> QED BY <1>1, OneJob

LEMMA NotJoins ==
    /\ Idle.kind # "join"
    /\ \A n, r, until : MuteJob(n, r, until).kind # "join"
    /\ \A n, i, failed : UnmuteJob(n, i, failed).kind # "join"
  BY DEF Idle, MuteJob, UnmuteJob

\* No job changes.
LEMMA NoJob ==
    ASSUME BanInv, job' = job, barred' \in [Games -> SUBSET (OnBattleNet \X Names)],
           \A g \in Games : \A b \in barred'[g] : b \in barred[g] /\ (b \in bans => b \in bans')
    PROVE  BanInv'
  <1>1. ASSUME NEW g \in Games, job'[g].kind = "join" PROVE Accounted(g)'
    <2>1. Accounted(g)
      BY <1>1 DEF BanInv
    <2>2. barred'[g] \subseteq barred[g] /\ barred'[g] \subseteq bans'
      BY <2>1 DEF Accounted
    <2> QED BY <2>1, <2>2, StillAccounted
  <1> QED BY <1>1 DEF BanInv

LEMMA BanNext == TypeOK /\ BanInv /\ [Next]_vars => BanInv'
  <1> SUFFICES ASSUME TypeOK, BanInv, [Next]_vars PROVE BanInv'
    OBVIOUS
  <1>a. JobsOK /\ bans \subseteq OnBattleNet \X Names
    BY TypeParts DEF TablesOK
  <1>1. ASSUME NEW g \in Games, NEW n \in Names, Reqjoin(g, n) PROVE BanInv'
    <2> DEFINE ask == IF Servers = <<>> THEN "mute" ELSE "ban"
               j == JoinJob(n, ask, 1)
               left == {b \in bans : b[2] = n}
    <2>1. job' = [job EXCEPT ![g] = j] /\ barred' = [barred EXCEPT ![g] = left] /\ bans' = bans
      BY <1>1 DEF Reqjoin, tables
    <2>2. job'[g] = j /\ barred'[g] = left
      BY <2>1 DEF TypeOK, BanInv
    <2>3. j.name = n /\ j.ask = ask /\ j.server = 1
      BY DEF JoinJob
    <2>4. Servers = <<>> => left = {}
      BY <1>a DEF OnBattleNet
    <2>5. Servers # <<>> => 1 <= Len(Servers)
      BY ModerationAssumption
    <2>6. \A b \in left : \E i \in 1..Len(Servers) : b[1] = Servers[i]
      BY <1>a, ModerationAssumption DEF OnBattleNet
    <2> HIDE DEF j, left
    <2>7. \A b \in left : b \in bans /\ b[2] = n
      BY DEF left
    <2>8. Accounted(g)'
      BY <2>1, <2>2, <2>3, <2>4, <2>5, <2>6, <2>7 DEF Accounted
    <2>9. left \subseteq OnBattleNet \X Names
      BY <1>a DEF left
    <2> QED BY <2>1, <2>8, <2>9, OneJob
  <1>2. ASSUME NEW g \in Games, BanCheck(g) PROVE BanInv'
    <2>1. /\ job[g].kind = "join" /\ job[g].ask = "ban" /\ bans' = bans /\ Accounted(g)
      BY <1>2 DEF BanCheck, BanInv, tables
    <2>2. CASE Finish(g) /\ UNCHANGED barred
      BY <2>1, <2>2, OtherJob, NotJoins DEF Finish
    <2>3. ASSUME \/ ~BanFound(g) /\ UNCHANGED barred
                 \/ barred' = [barred EXCEPT ![g] = {b \in @ : b[1] # Servers[job[g].server]}],
                 job' = [job EXCEPT ![g] = IF @.server < Len(Servers)
                                           THEN JoinJob(@.name, "ban", @.server + 1)
                                           ELSE JoinJob(@.name, "mute", 1)]
          PROVE  BanInv'
      <3> DEFINE i == job[g].server
                 j == IF i < Len(Servers) THEN JoinJob(job[g].name, "ban", i + 1)
                      ELSE JoinJob(job[g].name, "mute", 1)
                 left == {b \in barred[g] : b[1] # Servers[i]}
      <3>1. job[g] \in Joins /\ i \in Nat /\ i <= Len(Servers) /\ Len(Servers) \in Nat
        BY <1>a, <2>1, JobKinds, ServerTypes DEF Joins, Accounted
      <3>2. ~BanFound(g) => left = barred[g]
        <4>1. ASSUME ~BanFound(g), NEW b \in barred[g] PROVE b[1] # Servers[i]
          <5>1. b \in bans /\ b[2] = job[g].name
            BY <2>1, <4>1 DEF Accounted
          <5>2. b = <<b[1], b[2]>>
            BY <1>a, <5>1
          <5> QED BY <4>1, <5>1, <5>2 DEF BanFound
        <4> QED BY <4>1
      <3>3. barred' = [barred EXCEPT ![g] = left]
        BY <2>3, <3>2 DEF BanInv
      <3>4. job' = [job EXCEPT ![g] = j]
        BY <2>3
      <3>5. left \subseteq OnBattleNet \X Names /\ left \subseteq barred[g]
        BY DEF BanInv
      <3>6. \A b \in left : /\ b \in bans /\ b[2] = job[g].name
                            /\ \E k \in i + 1..Len(Servers) : b[1] = Servers[k]
        BY <2>1, <3>1 DEF Accounted
      <3>7. job'[g] = j /\ barred'[g] = left
        BY <3>3, <3>4 DEF TypeOK, BanInv
      <3>8. j.name = job[g].name
        BY DEF JoinJob
      <3>9. CASE i < Len(Servers)
        <4>1. j.ask = "ban" /\ j.server = i + 1
          BY <3>9 DEF JoinJob
        <4> HIDE DEF j, left, i
        <4>2. Accounted(g)'
          BY <2>1, <3>1, <3>6, <3>7, <3>8, <3>9, <4>1 DEF Accounted
        <4> QED BY <2>1, <3>3, <3>4, <3>5, <4>2, OneJob
      <3>10. CASE ~(i < Len(Servers))
        <4>1. j.ask = "mute"
          BY <3>10 DEF JoinJob
        <4>2. left = {}
          BY <3>1, <3>6, <3>10
        <4> HIDE DEF j, left, i
        <4>3. Accounted(g)'
          BY <3>7, <4>1, <4>2 DEF Accounted
        <4> QED BY <2>1, <3>3, <3>4, <3>5, <4>3, OneJob
      <3> QED BY <3>9, <3>10
    <2> QED BY <1>2, <2>2, <2>3 DEF BanCheck
  <1>3. ASSUME NEW g \in Games, MuteCheck(g) PROVE BanInv'
    <2>1. /\ job[g].kind = "join" /\ job[g].ask = "mute" /\ bans' = bans /\ barred' = barred
          /\ Accounted(g)
      BY <1>3 DEF MuteCheck, BanInv, tables
    <2>2. CASE Finish(g)
      BY <2>1, <2>2, OtherJob, NotJoins DEF Finish
    <2>3. CASE job' = [job EXCEPT ![g] = JoinJob(@.name, "mute", @.server + 1)]
      <3> DEFINE j == JoinJob(job[g].name, "mute", job[g].server + 1)
      <3>1. job' = [job EXCEPT ![g] = j] /\ j.ask = "mute"
        BY <2>3 DEF JoinJob
      <3>2. barred[g] = {} /\ barred' = [barred EXCEPT ![g] = {}]
        BY <2>1 DEF Accounted, BanInv
      <3>3. job'[g] = j /\ barred'[g] = {}
        BY <3>1, <3>2 DEF TypeOK, BanInv
      <3> HIDE DEF j
      <3>4. Accounted(g)'
        BY <3>1, <3>3 DEF Accounted
      <3> QED BY <2>1, <3>1, <3>2, <3>4, OneJob
    <2> QED BY <1>3, <2>2, <2>3 DEF MuteCheck, Seat
  <1>4. ASSUME NEW g \in Games, MuteAdd(g) PROVE BanInv'
    BY <1>4, OtherJob, NotJoins DEF MuteAdd, Finish
  <1>5. ASSUME NEW g \in Games, MuteRemove(g) PROVE BanInv'
    <2> DEFINE failed == job[g].failed \/ failures' > failures
               more == UnmuteJob(job[g].name, job[g].server + 1, failed)
               j == IF job[g].server = Len(DbServers) THEN Idle ELSE more
    <2>1. job' = [job EXCEPT ![g] = j] /\ bans' = bans /\ barred' = barred
      BY <1>5 DEF MuteRemove
    <2>2. j.kind # "join"
      <3>1. more.kind # "join"
        BY NotJoins
      <3> HIDE DEF more
      <3> QED BY <3>1, NotJoins
    <2> HIDE DEF j
    <2> QED BY <2>1, <2>2, OtherJob
  <1>6. ASSUME NEW g \in Games, NEW n \in Names,
               Unmute(g, n) \/ \E term \in Terms : Mute(g, n, term)
        PROVE  BanInv'
    <2>1. \/ job' = [job EXCEPT ![g] = UnmuteJob(n, 1, FALSE)]
          \/ \E r, until : job' = [job EXCEPT ![g] = MuteJob(n, r, until)]
      BY <1>6 DEF Unmute, Mute
    <2>2. bans' = bans /\ barred' = barred
      BY <1>6 DEF Unmute, Mute, tables
    <2>3. ASSUME NEW j, j.kind # "join", job' = [job EXCEPT ![g] = j] PROVE BanInv'
      BY <2>2, <2>3, OtherJob
    <2>4. CASE job' = [job EXCEPT ![g] = UnmuteJob(n, 1, FALSE)]
      <3>1. UnmuteJob(n, 1, FALSE).kind # "join"
        BY NotJoins
      <3> QED BY <2>3, <2>4, <3>1
    <2>5. ASSUME NEW r, NEW until, job' = [job EXCEPT ![g] = MuteJob(n, r, until)] PROVE BanInv'
      <3>1. MuteJob(n, r, until).kind # "join"
        BY NotJoins
      <3> QED BY <2>3, <2>5, <3>1
    <2> QED BY <2>1, <2>4, <2>5
  <1>7. ASSUME UNCHANGED <<bans, job, barred>> PROVE BanInv'
    BY <1>7, NoJob DEF BanInv
  <1>8. ASSUME NEW g \in Games, NEW n \in Names, RelayChat(g, n) \/ Leave(g, n) PROVE BanInv'
    BY <1>7, <1>8 DEF RelayChat, Leave, tables, history
  <1>9. ASSUME NEW n \in Names, NEW r \in OnBattleNet, SpoofCheck(n, r) PROVE BanInv'
    BY <1>7, <1>9 DEF SpoofCheck, Verify, tables, history
  <1>10. ASSUME NEW n \in Names, NEW r \in OnBattleNet, BanAdd(r, n) PROVE BanInv'
    <2>1. job' = job /\ barred' = barred /\ bans \subseteq bans'
      BY <1>10 DEF BanAdd, history
    <2> QED BY <2>1, NoJob DEF BanInv
  <1>11. ASSUME NEW n \in Names, NEW r \in OnBattleNet, BanRemove(r, n) PROVE BanInv'
    <2>1. /\ job' = job /\ barred' = [g \in Games |-> barred[g] \ {<<r, n>>}]
          /\ bans' = bans \ {<<r, n>>}
      BY <1>11 DEF BanRemove
    <2>2. barred' \in [Games -> SUBSET (OnBattleNet \X Names)]
      BY <2>1 DEF BanInv
    <2>3. \A g \in Games : \A b \in barred'[g] : b \in barred[g] /\ (b \in bans => b \in bans')
      BY <2>1
    <2> QED BY <2>1, <2>2, <2>3, NoJob
  <1>12. CASE NextLobby \/ Tick
    BY <1>7, <1>12 DEF NextLobby, Tick, tables, history
  <1>13. CASE Restart
    BY <1>13 DEF Restart, BanInv, Idle
  <1>14. CASE UNCHANGED vars
    BY <1>7, <1>14 DEF vars, tables, history
  <1> QED BY <1>1, <1>2, <1>3, <1>4, <1>5, <1>6, <1>8, <1>9, <1>10, <1>11, <1>12, <1>13, <1>14
          DEF Next

\* Who gets a seat has passed all the lists.
LEMMA SeatsUnbarred ==
    TypeOK /\ BanInv /\ [Next]_vars
        => \A g \in Games : seats'[g] \ seats[g] # {} => barred[g] = {}
  <1> SUFFICES ASSUME TypeOK, BanInv, [Next]_vars, NEW g \in Games, seats'[g] \ seats[g] # {}
               PROVE  barred[g] = {}
    OBVIOUS
  <1>1. ASSUME NEW h \in Games, MuteCheck(h) PROVE barred[g] = {}
    <2>1. job[h].kind = "join" /\ job[h].ask = "mute"
      BY <1>1 DEF MuteCheck
    <2>2. barred[h] = {}
      BY <2>1 DEF BanInv, Accounted
    <2>3. seats' = seats \/ seats' = [seats EXCEPT ![h] = @ \union {job[h].name}]
      BY <1>1 DEF MuteCheck, Seat
    <2>4. g = h
      BY <2>3 DEF TypeOK
    <2> QED BY <2>2, <2>4
  <1>2. ASSUME NEW h \in Games, NEW n \in Names, Leave(h, n) PROVE FALSE
    BY <1>2 DEF Leave, TypeOK
  <1>3. Restart => FALSE
    BY DEF Restart
  <1>4. ASSUME NEW h \in Games, BanCheck(h) \/ MuteAdd(h) \/ MuteRemove(h) PROVE FALSE
    BY <1>4 DEF BanCheck, MuteAdd, MuteRemove, games
  <1>5. ASSUME NEW h \in Games, NEW n \in Names,
               \/ Reqjoin(h, n) \/ Unmute(h, n) \/ RelayChat(h, n)
               \/ \E term \in Terms : Mute(h, n, term)
        PROVE  FALSE
    BY <1>5 DEF Reqjoin, Unmute, RelayChat, Mute, games
  <1>6. ASSUME NEW n \in Names, NEW r \in OnBattleNet,
               SpoofCheck(n, r) \/ BanAdd(r, n) \/ BanRemove(r, n)
        PROVE  FALSE
    BY <1>6 DEF SpoofCheck, Verify, BanAdd, BanRemove, games
  <1>7. NextLobby \/ Tick \/ UNCHANGED vars => FALSE
    BY DEF NextLobby, Tick, vars, games
  <1> QED BY <1>1, <1>2, <1>3, <1>4, <1>5, <1>6, <1>7 DEF Next

(* A joiner whose name is on a realm's ban list all through the join is not *)
(* let in, whatever BotCore and the other games do between the joiner's     *)
(* checks, unless the database fails to answer for that realm.              *)
THEOREM BansHold == Spec => BannedStayOut
  <1>1. TypeOK /\ BanInv /\ [Next]_vars
            => [\A g \in Games : seats'[g] \ seats[g] # {} => barred[g] = {}]_vars
    BY SeatsUnbarred
  <1> QED BY <1>1, TypeInit, TypeNext, BanInit, BanNext, PTL DEF Spec, BannedStayOut

(***************************************************************************)
(* Mutes                                                                   *)
(*                                                                         *)
(* A mute is in three places: on a list, in the mind of an actor that is   *)
(* between two lists, and with its player.  The invariant says of each     *)
(* what orders it can be from, and, where it is none, that one of those    *)
(* orders is over.                                                         *)
(***************************************************************************)

\* Some of these is no longer, or never was, in effect.
Lapses(S) == \E until \in S : ~InEffect(until)

\* What the history is made of.
HistoryOK ==
    /\ last \in [Names -> SUBSET Expiry] /\ during \in [Games -> SUBSET Expiry]
    /\ due \in [Games -> [Names -> SUBSET Expiry]] /\ failures \in Nat

\* A job has heard of what other games order about its name meanwhile.
Heard(g) == job[g] # Idle => Underway(g, job[g].name) \subseteq during[g]

\* The lists a join has still to ask for a mute.
ToAsk(g) == (IF job[g].ask = "ban" THEN 1 ELSE job[g].server)..Len(DbServers)

\* Whatever a list says of a joiner was ordered before or during the join;
\* and if the lists still to be asked say nothing, some such order is over.
JoinKnows(g) == job[g].kind = "join" =>
    /\ \A r \in Realms : mutes[r][job[g].name] \in during[g] \union {NoMute}
    /\ (\A k \in ToAsk(g) : ~InEffect(mutes[DbServers[k]][job[g].name])) => Lapses(during[g])

\* The lists an unmute is through with say nothing but what was ordered
\* meanwhile.
UnmuteKnows(g) == job[g].kind = "unmute" /\ ~job[g].failed =>
    \A k \in 1..job[g].server - 1 : mutes[DbServers[k]][job[g].name] \in during[g] \union {NoMute}

JobKnows(g) == JoinKnows(g) /\ UnmuteKnows(g)
Unmuting(n) == \E g \in Games : job[g].kind = "unmute" /\ job[g].name = n

\* Whatever a list says of a name is one of its last orders; and if none
\* says anything, some last order is over or an unmute is under way.
Known(n) ==
    /\ \A r \in Realms : mutes[r][n] \in last[n] \union {NoMute}
    /\ (\A r \in Realms : ~InEffect(mutes[r][n])) => Lapses(last[n]) \/ Unmuting(n)

\* A player is under one of the orders due, or under none and one is over.
SeatDue(g, n) ==
    n \in seats[g] => muted[g][n] \in due[g][n] \/ (muted[g][n] = NoMute /\ Lapses(due[g][n]))

MuteInv ==
    /\ HistoryOK
    /\ \A g \in Games : Heard(g) /\ JobKnows(g)
    /\ \A n \in Names : Known(n)
    /\ \A g \in Games, n \in Names : SeatDue(g, n)

\* No mute is none in effect.
LEMMA NoMuteOver == now \in Nat => ~InEffect(NoMute) /\ NoMute \in Expiry
  BY DEF InEffect, NoMute, ForGood, Expiry

\* What is over stays over.
LEMMA StillOver ==
    ASSUME now \in Nat, now' \in Nat, now <= now', NEW until \in Expiry, ~InEffect(until)
    PROVE  ~InEffect(until)'
  BY DEF InEffect, Expiry, ForGood, NoMute

\* What may be over stays so, with time and more orders.
LEMMA LapsesMore ==
    ASSUME now \in Nat, now' \in Nat, now <= now', NEW S \in SUBSET Expiry, NEW T, S \subseteq T,
           Lapses(S)
    PROVE  \E until \in T : ~InEffect(until)'
  BY StillOver DEF Lapses

\* The lists asked and to be asked are realms'.
LEMMA AskedTypes ==
    ASSUME JobsOK, NEW g \in Games
    PROVE  /\ job[g].kind = "join" => \A k \in ToAsk(g) : DbServers[k] \in Realms
           /\ job[g].kind = "unmute" =>
                 \A k \in 1..job[g].server - 1 : DbServers[k] \in Realms
  <1>1. ASSUME job[g].kind = "join" \/ job[g].kind = "unmute"
        PROVE  job[g].server \in Nat \ {0} /\ job[g].server <= Len(DbServers)
    <2>1. job[g] \in Joins \/ job[g] \in Unmutings
      BY <1>1, JobKinds
    <2> QED BY <2>1, ServerTypes DEF Joins, Unmutings
  <1>2. Len(DbServers) \in Nat /\ \A k \in 1..Len(DbServers) : DbServers[k] \in Realms
    BY ServerTypes
  <1> QED BY <1>1, <1>2 DEF ToAsk

\* Every job is about a player.
LEMMA NamedJobs == ASSUME JobsOK, NEW g \in Games, job[g] # Idle PROVE job[g].name \in Names
  <1>1. job[g] \in Joins \/ job[g] \in Mutings \/ job[g] \in Unmutings
    BY DEF JobsOK, Jobs
  <1> QED BY <1>1 DEF Joins, Mutings, Unmutings

\* What other games are ordering is when mutes expire.
LEMMA UnderwayTypes ==
    ASSUME JobsOK, NEW g \in Games, NEW n PROVE Underway(g, n) \subseteq Expiry
  <1>1. ASSUME NEW h \in Games, job[h].kind \in {"mute", "unmute"} PROVE job[h].until \in Expiry
    <2>1. job[h] \in Mutings \/ job[h] \in Unmutings
      BY <1>1, JobKinds
    <2> QED BY <2>1 DEF Mutings, Unmutings, Expiry
  <1> QED BY <1>1 DEF Underway

(***************************************************************************)
(* What a step leaves of it                                                *)
(***************************************************************************)

\* An actor goes on with its job or ends it.
LEMMA HeardOn ==
    ASSUME JobsOK, \A h \in Games : Heard(h), NEW g \in Games, NEW j,
           job' = [job EXCEPT ![g] = j],
           \/ j = Idle
           \/ /\ job[g] # Idle /\ j.name = job[g].name
              /\ j.kind \in {"mute", "unmute"}
                    => job[g].kind \in {"mute", "unmute"} /\ j.until = job[g].until,
           \A h \in Games : during[h] \subseteq during'[h]
    PROVE  \A h \in Games : Heard(h)'
  <1> SUFFICES ASSUME NEW h \in Games, job'[h] # Idle, NEW k \in Games \ {h},
                      job'[k].kind \in {"mute", "unmute"}, job'[k].name = job'[h].name
               PROVE  job'[k].until \in during'[h]
    BY DEF Heard, Underway
  <1>1. job[h] # Idle /\ job[h].name = job'[h].name
    <2>1. CASE h = g
      BY <2>1 DEF JobsOK
    <2>2. CASE h # g
      BY <2>2 DEF JobsOK
    <2> QED BY <2>1, <2>2
  <1>2. /\ job[k].kind \in {"mute", "unmute"} /\ job[k].name = job'[k].name
        /\ job[k].until = job'[k].until
    <2>1. CASE k = g
      BY <2>1 DEF JobsOK, Idle
    <2>2. CASE k # g
      BY <2>2 DEF JobsOK
    <2> QED BY <2>1, <2>2
  <1>3. job[k].until \in Underway(h, job[h].name)
    BY <1>1, <1>2 DEF Underway
  <1> QED BY <1>1, <1>2, <1>3 DEF Heard

\* An actor begins a job.
LEMMA HeardBegin ==
    ASSUME JobsOK, \A h \in Games : Heard(h), NEW g \in Games, NEW j, NEW n, NEW order, NEW before,
           job[g] = Idle, job' = [job EXCEPT ![g] = j], j.name = n, Begin(g, n, order, before),
           j.kind \in {"mute", "unmute"} => j.until \in order
    PROVE  \A h \in Games : Heard(h)'
  <1> SUFFICES ASSUME NEW h \in Games, job'[h] # Idle, NEW k \in Games \ {h},
                      job'[k].kind \in {"mute", "unmute"}, job'[k].name = job'[h].name
               PROVE  job'[k].until \in during'[h]
    BY DEF Heard, Underway
  <1>1. CASE h = g
    <2>1. job'[k] = job[k] /\ job'[h] = j
      BY <1>1 DEF JobsOK
    <2>2. job[k].until \in Underway(g, n)
      BY <1>1, <2>1 DEF Underway
    <2> QED BY <1>1, <2>1, <2>2 DEF Begin
  <1>2. CASE h # g
    <2>1. job'[h] = job[h] /\ during[h] \subseteq during'[h]
      BY <1>2 DEF JobsOK, Begin
    <2>2. CASE k = g
      <3>1. job'[k] = j
        BY <2>2 DEF JobsOK
      <3> QED BY <1>2, <2>1, <2>2, <3>1 DEF Begin
    <2>3. CASE k # g
      <3>1. job'[k] = job[k]
        BY <2>3 DEF JobsOK
      <3>2. job[k].until \in Underway(h, job[h].name)
        BY <2>1, <3>1 DEF Underway
      <3> QED BY <2>1, <3>1, <3>2 DEF Heard
    <2> QED BY <2>2, <2>3
  <1> QED BY <1>1, <1>2

\* A game's job is where it was, and what changed on a list it has heard of.
LEMMA StillKnows ==
    ASSUME JobsOK, HistoryOK, now \in Nat, now' \in Nat, now <= now', NEW h \in Games, JobKnows(h),
           job'[h] = job[h], during[h] \subseteq during'[h],
           \A r \in Realms : \/ mutes'[r][job[h].name] = mutes[r][job[h].name]
                             \/ mutes'[r][job[h].name] \in during[h]
    PROVE  JobKnows(h)'
  <1> DEFINE m == job[h].name
  <1>1. JoinKnows(h)'
    <2> SUFFICES ASSUME job[h].kind = "join"
                 PROVE  /\ \A r \in Realms : mutes'[r][m] \in during'[h] \union {NoMute}
                        /\ (\A k \in ToAsk(h) : ~InEffect(mutes[DbServers[k]][m])')
                              => \E until \in during'[h] : ~InEffect(until)'
      BY DEF JoinKnows, ToAsk, Lapses
    <2>1. \A r \in Realms : mutes[r][m] \in during[h] \union {NoMute}
      BY DEF JobKnows, JoinKnows
    <2>2. \A r \in Realms : mutes'[r][m] \in during'[h] \union {NoMute}
      BY <2>1
    <2>3. ASSUME \A k \in ToAsk(h) : ~InEffect(mutes[DbServers[k]][m])'
          PROVE  \E until \in during'[h] : ~InEffect(until)'
      <3>1. CASE \A k \in ToAsk(h) : ~InEffect(mutes[DbServers[k]][m])
        <4>1. Lapses(during[h])
          BY <3>1 DEF JobKnows, JoinKnows
        <4>2. during[h] \in SUBSET Expiry
          BY DEF HistoryOK
        <4> QED BY <4>1, <4>2, LapsesMore
      <3>2. ASSUME NEW k \in ToAsk(h), InEffect(mutes[DbServers[k]][m])
            PROVE  \E until \in during'[h] : ~InEffect(until)'
        <4>1. ~InEffect(mutes[DbServers[k]][m])'
          BY <2>3
        <4>2. mutes[DbServers[k]][m] # NoMute
          BY <3>2, NoMuteOver
        <4>3. DbServers[k] \in Realms
          BY <3>2, AskedTypes
        <4>4. mutes[DbServers[k]][m] \in during[h]
          BY <2>1, <4>2, <4>3
        <4>5. mutes'[DbServers[k]][m] \in during'[h]
          BY <4>3, <4>4
        <4> QED BY <4>1, <4>5 DEF InEffect
      <3> QED BY <3>1, <3>2
    <2> QED BY <2>2, <2>3
  <1>2. UnmuteKnows(h)'
    <2> SUFFICES ASSUME job[h].kind = "unmute", ~job[h].failed, NEW k \in 1..job[h].server - 1
                 PROVE  mutes'[DbServers[k]][m] \in during'[h] \union {NoMute}
      BY DEF UnmuteKnows
    <2>1. mutes[DbServers[k]][m] \in during[h] \union {NoMute}
      BY DEF JobKnows, UnmuteKnows
    <2> QED BY <2>1, AskedTypes
  <1> QED BY <1>1, <1>2 DEF JobKnows
\* Nothing happened to a name but that orders about it were added.
LEMMA StillKnown ==
    ASSUME HistoryOK, now \in Nat, now' \in Nat, now <= now', NEW n \in Names, Known(n),
           last[n] \subseteq last'[n], \A r \in Realms : mutes'[r][n] = mutes[r][n],
           Unmuting(n) => Unmuting(n)' \/ NoMute \in last'[n]
    PROVE  Known(n)'
  <1>1. \A r \in Realms : mutes'[r][n] \in last'[n] \union {NoMute}
    BY DEF Known
  <1>2. ASSUME \A r \in Realms : ~InEffect(mutes[r][n])', ~Unmuting(n)'
        PROVE  \E until \in last'[n] : ~InEffect(until)'
    <2>1. CASE \E r \in Realms : InEffect(mutes[r][n])
      <3>1. PICK r \in Realms : InEffect(mutes[r][n])
        BY <2>1
      <3>2. mutes[r][n] # NoMute
        BY <3>1, NoMuteOver
      <3>3. mutes'[r][n] \in last'[n]
        BY <3>2 DEF Known
      <3> QED BY <1>2, <3>3 DEF InEffect
    <2>2. CASE \A r \in Realms : ~InEffect(mutes[r][n])
      <3>1. CASE Lapses(last[n])
        <4>1. last[n] \in SUBSET Expiry
          BY DEF HistoryOK
        <4> QED BY <3>1, <4>1, LapsesMore
      <3>2. CASE NoMute \in last'[n]
        BY <3>2 DEF InEffect, NoMute, ForGood
      <3> QED BY <1>2, <2>2, <3>1, <3>2 DEF Known
    <2> QED BY <2>1, <2>2
  <1> QED BY <1>1, <1>2 DEF Known, Lapses

\* A player's orders stay.
LEMMA StillDue ==
    ASSUME HistoryOK, now \in Nat, now' \in Nat, now <= now', NEW g \in Games, NEW n \in Names,
           SeatDue(g, n), n \in seats'[g] => n \in seats[g], muted'[g][n] = muted[g][n],
           due'[g][n] = due[g][n]
    PROVE  SeatDue(g, n)'
  <1>1. CASE Lapses(due[g][n])
    <2>1. due[g][n] \in SUBSET Expiry
      BY DEF HistoryOK
    <2>2. \E until \in due'[g][n] : ~InEffect(until)'
      BY <1>1, <2>1, LapsesMore
    <2> QED BY <2>2 DEF SeatDue, Lapses
  <1>2. CASE ~Lapses(due[g][n])
    BY <1>2 DEF SeatDue
  <1> QED BY <1>1, <1>2

\* Who is not in the middle of an unmute leaves the unmutes as they are.
LEMMA StillUnmuting ==
    ASSUME JobsOK, NEW g \in Games, NEW j, job' = [job EXCEPT ![g] = j], NEW n,
           job[g].kind = "unmute" /\ job[g].name = n => j.kind = "unmute" /\ j.name = n
    PROVE  Unmuting(n) => Unmuting(n)'
  <1> SUFFICES ASSUME NEW h \in Games, job[h].kind = "unmute", job[h].name = n
               PROVE  job'[h].kind = "unmute" /\ job'[h].name = n
    BY DEF Unmuting
  <1>1. CASE h = g
    BY <1>1 DEF JobsOK
  <1>2. CASE h # g
    BY <1>2 DEF JobsOK
  <1> QED BY <1>1, <1>2

\* A step that changes nothing the invariant is about but the time.
LEMMA MuteQuiet ==
    ASSUME TypeOK, MuteInv, now' \in Nat, now <= now', failures' \in Nat,
           UNCHANGED <<mutes, job, last, during, due, seats, muted>>
    PROVE  MuteInv'
  <1>1. JobsOK /\ now \in Nat /\ HistoryOK
    BY TypeParts DEF MuteInv
  <1>2. HistoryOK'
    BY <1>1 DEF HistoryOK
  <1>3. ASSUME NEW g \in Games PROVE Heard(g)' /\ JobKnows(g)'
    <2>1. Heard(g)'
      BY DEF MuteInv, Heard, Underway
    <2>2. JobKnows(g)
      BY DEF MuteInv
    <2> QED BY <1>1, <2>1, <2>2, StillKnows
  <1>4. ASSUME NEW n \in Names PROVE Known(n)'
    <2>1. Known(n) /\ (Unmuting(n) => Unmuting(n)')
      BY DEF MuteInv, Unmuting
    <2> QED BY <1>1, <2>1, StillKnown
  <1>5. ASSUME NEW g \in Games, NEW n \in Names PROVE SeatDue(g, n)'
    <2>1. SeatDue(g, n)
      BY DEF MuteInv
    <2> QED BY <1>1, <2>1, StillDue
  <1> QED BY <1>2, <1>3, <1>4, <1>5 DEF MuteInv

\* At the start nobody is under an order.
LEMMA MuteInit == Init => MuteInv
  <1> SUFFICES ASSUME Init PROVE MuteInv
    OBVIOUS
  <1>1. HistoryOK
    BY DEF Init, HistoryOK, Expiry
  <1>2. ASSUME NEW g \in Games PROVE Heard(g) /\ JobKnows(g)
    BY DEF Init, Heard, JobKnows, JoinKnows, UnmuteKnows, Idle
  <1>3. ASSUME NEW n \in Names PROVE Known(n)
    <2>1. last[n] = {NoMute} /\ \A r \in Realms : mutes[r][n] = NoMute
      BY DEF Init
    <2>2. ~InEffect(NoMute)
      BY DEF Init, InEffect, NoMute, ForGood
    <2> QED BY <2>1, <2>2 DEF Known, Lapses
  <1>4. ASSUME NEW g \in Games, NEW n \in Names PROVE SeatDue(g, n)
    BY DEF Init, SeatDue
  <1> QED BY <1>1, <1>2, <1>3, <1>4 DEF MuteInv

(***************************************************************************)
(* The steps                                                               *)
(***************************************************************************)

\* A step of one actor that leaves the tables as they are: what is left to
\* show is that its own job knows what it should.
LEMMA OwnJob ==
    ASSUME TypeOK, MuteInv, NEW g \in Games, NEW j, job' = [job EXCEPT ![g] = j],
           UNCHANGED <<mutes, now>>, \A h \in Games \ {g} : during[h] \subseteq during'[h],
           JobKnows(g)'
    PROVE  \A h \in Games : JobKnows(h)'
  <1> SUFFICES ASSUME NEW h \in Games \ {g} PROVE JobKnows(h)'
    OBVIOUS
  <1>1. JobsOK /\ HistoryOK /\ now \in Nat /\ JobKnows(h)
    BY TypeParts DEF MuteInv
  <1>2. job'[h] = job[h]
    BY <1>1 DEF JobsOK
  <1> QED BY <1>1, <1>2, StillKnows

\* Only joins and unmutes have to know anything.
LEMMA NoKnowledge ==
    ASSUME NEW g, job[g].kind # "join", job[g].kind # "unmute" PROVE JobKnows(g)
  BY DEF JobKnows, JoinKnows, UnmuteKnows

\* A joiner looks at the next list of bans.
LEMMA MuteInvBanCheck ==
    ASSUME TypeOK, MuteInv, NEW g \in Games, BanCheck(g) PROVE MuteInv'
  <1> DEFINE j == IF job[g].server < Len(Servers)
                  THEN JoinJob(job[g].name, "ban", job[g].server + 1)
                  ELSE JoinJob(job[g].name, "mute", 1)
  <1>1. JobsOK /\ HistoryOK /\ now \in Nat /\ job[g] \in Joins /\ job[g].ask = "ban"
    BY TypeParts, JobKinds DEF MuteInv, BanCheck
  <1>2. /\ UNCHANGED <<mutes, now, seats, muted, last, during, due>>
        /\ job' = [job EXCEPT ![g] = Idle] \/ job' = [job EXCEPT ![g] = j]
    BY DEF BanCheck, tables, games, Finish
  <1>3. failures' \in Nat
    BY <1>1 DEF BanCheck, Works, Fails, HistoryOK
  <1>4. HistoryOK'
    BY <1>1, <1>2, <1>3 DEF HistoryOK
  <1>5. /\ j.kind = "join" /\ j.name = job[g].name
        /\ (IF j.ask = "ban" THEN 1 ELSE j.server) = 1
    BY DEF JoinJob
  <1>6. job[g].kind = "join" /\ job[g] # Idle
    BY <1>1 DEF Joins, Idle
  <1> HIDE DEF j
  <1>7. PICK i \in {Idle, j} : job' = [job EXCEPT ![g] = i]
    BY <1>2
  <1>8. \A h \in Games : Heard(h)'
    <2>1. \A h \in Games : Heard(h) /\ during[h] \subseteq during'[h]
      BY <1>2 DEF MuteInv
    <2> QED BY <1>1, <1>5, <1>6, <1>7, <2>1, HeardOn
  <1>9. JobKnows(g)'
    <2>1. job'[g] = i
      BY <1>1, <1>7 DEF JobsOK
    <2>2. CASE i = Idle
      BY <2>1, <2>2 DEF JobKnows, JoinKnows, UnmuteKnows, Idle
    <2>3. CASE i = j
      <3>1. ToAsk(g) = 1..Len(DbServers) /\ ToAsk(g)' = 1..Len(DbServers)
        BY <1>1, <1>5, <2>1, <2>3 DEF ToAsk
      <3>2. JoinKnows(g)
        BY DEF MuteInv, JobKnows
      <3>3. JoinKnows(g)'
        BY <1>2, <1>5, <1>6, <2>1, <2>3, <3>1, <3>2 DEF JoinKnows, Lapses, InEffect
      <3> QED BY <1>5, <2>1, <2>3, <3>3 DEF JobKnows, UnmuteKnows
    <2> QED BY <2>2, <2>3
  <1>10. \A h \in Games : JobKnows(h)'
    BY <1>2, <1>7, <1>9, OwnJob
  <1>11. ASSUME NEW n \in Names PROVE Known(n)'
    <2>1. Unmuting(n) => Unmuting(n)'
      BY <1>1, <1>6, <1>7, StillUnmuting
    <2>2. Known(n)
      BY DEF MuteInv
    <2> QED BY <1>1, <1>2, <2>1, <2>2, StillKnown
  <1>12. ASSUME NEW h \in Games, NEW n \in Names PROVE SeatDue(h, n)'
    BY <1>1, <1>2, StillDue DEF MuteInv
  <1> QED BY <1>4, <1>8, <1>10, <1>11, <1>12 DEF MuteInv

\* What the lists say when asked one after another.
LEMMA MuteOrNone ==
    ASSUME TypeOK, MuteInv, NEW g \in Games, job[g].kind = "join", job[g].ask = "mute"
    PROVE  LET found == MuteFound(job[g].name, job[g].server)
           IN  /\ found # NoMute => found \in during[g]
               /\ found = NoMute =>
                     ~InEffect(mutes[DbServers[job[g].server]][job[g].name])
               /\ found = NoMute /\ ~(job[g].server < Len(DbServers)) => Lapses(during[g])
  <1> DEFINE i == job[g].server
             u == mutes[DbServers[i]][job[g].name]
  <1>1. JobsOK /\ now \in Nat /\ JoinKnows(g)
    BY TypeParts DEF MuteInv, JobKnows
  <1>2. job[g] \in Joins
    BY <1>1, JobKinds
  <1>3. i \in Nat \ {0} /\ i <= Len(DbServers) /\ Len(DbServers) \in Nat
    BY <1>2, ServerTypes DEF Joins
  <1>4. DbServers[i] \in Realms
    BY <1>3, ServerTypes
  <1>5. u \in during[g] \union {NoMute}
    BY <1>1, <1>4 DEF JoinKnows
  <1>6. ~InEffect(NoMute)
    BY <1>1, NoMuteOver
  <1>7. CASE InEffect(u)
    BY <1>5, <1>6, <1>7 DEF MuteFound
  <1>8. CASE ~InEffect(u)
    <2>1. ASSUME ~(i < Len(DbServers)) PROVE Lapses(during[g])
      <3>1. ToAsk(g) = {i}
        BY <1>3, <2>1 DEF ToAsk
      <3> QED BY <1>1, <1>8, <3>1 DEF JoinKnows
    <2> QED BY <1>8, <2>1 DEF MuteFound
  <1> QED BY <1>7, <1>8

\* The joiner takes a seat under one of the orders of the join.
LEMMA MuteInvSeat ==
    ASSUME TypeOK, MuteInv, NEW g \in Games, job[g] \in Joins, NEW until \in Expiry,
           NEW possible \in SUBSET Expiry, Seat(g, until, possible), failures' \in Nat,
           UNCHANGED <<mutes, now, last>>,
           until \in possible \/ (until = NoMute /\ Lapses(possible))
    PROVE  MuteInv'
  <1> DEFINE n == job[g].name
  <1>1. /\ JobsOK /\ HistoryOK /\ now \in Nat /\ n \in Names /\ job[g].kind = "join"
        /\ SeatsOK
    BY TypeParts DEF MuteInv, Joins
  <1>2. /\ job' = [job EXCEPT ![g] = Idle] /\ during' = during
        /\ seats' = [seats EXCEPT ![g] = @ \union {n}]
        /\ muted' = [muted EXCEPT ![g][n] = until]
        /\ due' = [due EXCEPT ![g][n] = possible]
    BY DEF Seat, Finish
  <1>3. HistoryOK'
    BY <1>1, <1>2 DEF HistoryOK
  <1>4. \A h \in Games : Heard(h)'
    <2>1. \A h \in Games : Heard(h) /\ during[h] \subseteq during'[h]
      BY <1>2 DEF MuteInv
    <2> QED BY <1>1, <1>2, <2>1, HeardOn
  <1>5. \A h \in Games : JobKnows(h)'
    <2>1. job'[g] = Idle
      BY <1>1, <1>2 DEF JobsOK
    <2>2. JobKnows(g)'
      BY <2>1 DEF JobKnows, JoinKnows, UnmuteKnows, Idle
    <2> QED BY <1>2, <2>2, OwnJob
  <1>6. ASSUME NEW m \in Names PROVE Known(m)'
    <2>1. Unmuting(m) => Unmuting(m)'
      BY <1>1, <1>2, StillUnmuting
    <2>2. Known(m)
      BY DEF MuteInv
    <2> QED BY <1>1, <1>2, <2>1, <2>2, StillKnown
  <1>7. ASSUME NEW h \in Games, NEW m \in Names PROVE SeatDue(h, m)'
    <2>1. CASE h = g /\ m = n
      <3>1. muted'[h][m] = until /\ due'[h][m] = possible
        BY <1>1, <1>2, <2>1 DEF SeatsOK, HistoryOK
      <3> QED BY <3>1 DEF SeatDue, Lapses, InEffect
    <2>2. CASE ~(h = g /\ m = n)
      <3>1. /\ m \in seats'[h] => m \in seats[h]
            /\ muted'[h][m] = muted[h][m] /\ due'[h][m] = due[h][m]
        BY <1>1, <1>2, <2>2 DEF SeatsOK, HistoryOK
      <3>2. SeatDue(h, m)
        BY DEF MuteInv
      <3> QED BY <1>1, <3>1, <3>2, StillDue
    <2> QED BY <2>1, <2>2
  <1> QED BY <1>3, <1>4, <1>5, <1>6, <1>7 DEF MuteInv

\* A joiner looks at the next list of mutes.
LEMMA MuteInvMuteCheck ==
    ASSUME TypeOK, MuteInv, NEW g \in Games, MuteCheck(g) PROVE MuteInv'
  <1> DEFINE n == job[g].name
             i == job[g].server
             found == MuteFound(n, i)
             more == i < Len(DbServers)
             next == /\ job' = [job EXCEPT ![g] = JoinJob(@.name, "mute", @.server + 1)]
                     /\ UNCHANGED <<seats, muted, realm, due>>
  <1>1. /\ JobsOK /\ TablesOK /\ HistoryOK /\ now \in Nat
        /\ job[g].kind = "join" /\ job[g].ask = "mute" /\ UNCHANGED <<mutes, now, last>>
    BY TypeParts DEF MuteInv, MuteCheck, tables
  <1>2. job[g] \in Joins /\ job[g] # Idle
    BY <1>1, JobKinds DEF Idle
  <1>3. n \in Names /\ i \in Nat \ {0} /\ i \in DOMAIN DbServers
    BY <1>2, ServerTypes DEF Joins
  <1>4. found \in Expiry /\ NoMute \in Expiry /\ ~InEffect(NoMute)
    BY <1>1, <1>3, FoundTypes, NoMuteOver
  <1>5. /\ found # NoMute => found \in during[g]
        /\ found = NoMute => ~InEffect(mutes[DbServers[i]][n])
        /\ found = NoMute /\ ~more => Lapses(during[g])
    BY <1>1, MuteOrNone
  <1>6. failures' \in Nat
    BY <1>1 DEF MuteCheck, Works, Fails, HistoryOK
  <1>7. during[g] \in SUBSET Expiry
    BY <1>1 DEF HistoryOK
  <1>8. ASSUME NEW possible \in {during[g], during[g] \union {NoMute}}, more, next,
               during' = [during EXCEPT ![g] = possible],
               ~InEffect(mutes[DbServers[i]][n]) \/ NoMute \in possible
        PROVE  MuteInv'
    <2> DEFINE j == JoinJob(n, "mute", i + 1)
    <2>1. job' = [job EXCEPT ![g] = j] /\ UNCHANGED <<seats, muted, due>>
      BY <1>8
    <2>2. j.kind = "join" /\ j.name = n /\ j.ask = "mute" /\ j.server = i + 1
      BY DEF JoinJob
    <2> HIDE DEF j, next
    <2>3. job'[g] = j /\ during'[g] = possible
      BY <1>1, <1>8, <2>1 DEF JobsOK, HistoryOK
    <2>4. \A h \in Games : during[h] \subseteq during'[h]
      BY <1>1, <1>8 DEF HistoryOK
    <2>5. HistoryOK'
      <3>1. during' \in [Games -> SUBSET Expiry]
        BY <1>1, <1>4, <1>7, <1>8 DEF HistoryOK
      <3> QED BY <1>1, <1>6, <2>1, <3>1 DEF HistoryOK
    <2>6. \A h \in Games : Heard(h)'
      <3>1. \A h \in Games : Heard(h)
        BY DEF MuteInv
      <3> QED BY <1>1, <1>2, <2>1, <2>2, <2>4, <3>1, HeardOn
    <2>7. JobKnows(g)'
      <3>1. JoinKnows(g)
        BY DEF MuteInv, JobKnows
      <3>2. \A r \in Realms : mutes'[r][n] \in during'[g] \union {NoMute}
        BY <1>1, <1>8, <2>3, <3>1 DEF JoinKnows
      <3>3. ASSUME \A k \in i + 1..Len(DbServers) : ~InEffect(mutes[DbServers[k]][n])
            PROVE  Lapses(possible)
        <4>1. CASE NoMute \in possible
          BY <1>4, <4>1 DEF Lapses
        <4>2. CASE ~InEffect(mutes[DbServers[i]][n])
          <5>1. \A k \in ToAsk(g) : k = i \/ k \in i + 1..Len(DbServers)
            BY <1>1, <1>3, ServerTypes DEF ToAsk
          <5>2. Lapses(during[g])
            BY <1>1, <3>1, <3>3, <4>2, <5>1 DEF JoinKnows
          <5> QED BY <1>8, <5>2 DEF Lapses
        <4> QED BY <1>8, <4>1, <4>2
      <3>4. ToAsk(g)' = i + 1..Len(DbServers)
        BY <2>2, <2>3 DEF ToAsk
      <3>5. JoinKnows(g)'
        BY <1>1, <2>2, <2>3, <3>2, <3>3, <3>4 DEF JoinKnows, Lapses, InEffect
      <3> QED BY <2>2, <2>3, <3>5 DEF JobKnows, UnmuteKnows
    <2>8. \A h \in Games : JobKnows(h)'
      BY <1>1, <2>1, <2>4, <2>7, OwnJob
    <2>9. ASSUME NEW m \in Names PROVE Known(m)'
      <3>1. Unmuting(m) => Unmuting(m)'
        BY <1>1, <2>1, StillUnmuting
      <3>2. Known(m)
        BY DEF MuteInv
      <3> QED BY <1>1, <3>1, <3>2, StillKnown
    <2>10. ASSUME NEW h \in Games, NEW m \in Names PROVE SeatDue(h, m)'
      <3>1. SeatDue(h, m)
        BY DEF MuteInv
      <3> QED BY <1>1, <2>1, <3>1, StillDue
    <2> QED BY <2>5, <2>6, <2>8, <2>9, <2>10 DEF MuteInv
  <1>9. ASSUME NEW until \in Expiry, NEW possible \in SUBSET Expiry, Seat(g, until, possible),
               until \in possible \/ (until = NoMute /\ Lapses(possible))
        PROVE  MuteInv'
    BY <1>1, <1>2, <1>6, <1>9, MuteInvSeat
  <1>10. \/ found # NoMute /\ Seat(g, found, during[g])
         \/ found = NoMute /\ ~more /\ Seat(g, NoMute, during[g])
         \/ found = NoMute /\ more /\ next /\ UNCHANGED during
         \/ Seat(g, NoMute, during[g] \union {NoMute})
         \/ more /\ next /\ during' = [during EXCEPT ![g] = @ \union {NoMute}]
    BY DEF MuteCheck
  <1> HIDE DEF found, more, next
  <1>11. CASE found # NoMute /\ Seat(g, found, during[g])
    BY <1>4, <1>5, <1>7, <1>9, <1>11
  <1>12. CASE found = NoMute /\ ~more /\ Seat(g, NoMute, during[g])
    BY <1>4, <1>5, <1>7, <1>9, <1>12
  <1>13. CASE found = NoMute /\ more /\ next /\ UNCHANGED during
    <2>1. during' = [during EXCEPT ![g] = during[g]]
      BY <1>1, <1>13 DEF HistoryOK
    <2> QED BY <1>5, <1>8, <1>13, <2>1
  <1>14. CASE Seat(g, NoMute, during[g] \union {NoMute})
    BY <1>4, <1>7, <1>9, <1>14
  <1>15. CASE more /\ next /\ during' = [during EXCEPT ![g] = @ \union {NoMute}]
    BY <1>8, <1>15
  <1> QED BY <1>10, <1>11, <1>12, <1>13, <1>14, <1>15

\* A joiner comes to the lists knowing the last orders and those under way.
LEMMA MuteInvReqjoin ==
    ASSUME TypeOK, MuteInv, NEW g \in Games, NEW n \in Names, Reqjoin(g, n) PROVE MuteInv'
  <1> DEFINE j == JoinJob(n, IF Servers = <<>> THEN "mute" ELSE "ban", 1)
  <1>1. /\ JobsOK /\ HistoryOK /\ now \in Nat /\ Known(n)
    BY TypeParts DEF MuteInv
  <1>2. /\ job[g] = Idle /\ job' = [job EXCEPT ![g] = j] /\ Begin(g, n, {}, last[n])
        /\ UNCHANGED <<mutes, now, seats, muted, last, due, failures>>
    BY DEF Reqjoin, Free, tables, games, bounds
  <1>3. /\ j.kind = "join" /\ j.name = n /\ (IF j.ask = "ban" THEN 1 ELSE j.server) = 1
    BY DEF JoinJob
  <1> HIDE DEF j
  <1>4. /\ job'[g] = j /\ during'[g] = Underway(g, n) \union last[n]
        /\ \A h \in Games \ {g} : during'[h] = during[h]
    BY <1>1, <1>2 DEF JobsOK, Begin
  <1>5. HistoryOK'
    <2>1. Underway(g, n) \union last[n] \in SUBSET Expiry
      BY <1>1, UnderwayTypes DEF HistoryOK
    <2>2. during' \in [Games -> SUBSET Expiry]
      BY <1>1, <1>2, <2>1 DEF Begin, HistoryOK
    <2> QED BY <1>1, <1>2, <2>2 DEF HistoryOK
  <1>6. \A h \in Games : Heard(h)'
    <2>1. \A h \in Games : Heard(h)
      BY DEF MuteInv
    <2> QED BY <1>1, <1>2, <1>3, <2>1, HeardBegin
  <1>7. JobKnows(g)'
    <2>1. \A r \in Realms : mutes'[r][n] \in during'[g] \union {NoMute}
      BY <1>1, <1>2, <1>4 DEF Known
    <2>2. ASSUME \A k \in 1..Len(DbServers) : ~InEffect(mutes[DbServers[k]][n])
          PROVE  Lapses(during'[g])
      <3>1. \A r \in Realms : ~InEffect(mutes[r][n])
        BY <2>2, ServerTypes DEF Realms
      <3>2. CASE Lapses(last[n])
        BY <1>4, <3>2 DEF Lapses
      <3>3. CASE Unmuting(n)
        <4>1. PICK h \in Games : job[h].kind = "unmute" /\ job[h].name = n
          BY <3>3 DEF Unmuting
        <4>2. h # g
          BY <1>2, <4>1 DEF Idle
        <4>3. job[h].until = NoMute
          BY <1>1, <4>1, JobKinds DEF Unmutings
        <4>4. NoMute \in Underway(g, n)
          BY <4>1, <4>2, <4>3 DEF Underway
        <4> QED BY <1>1, <1>4, <4>4, NoMuteOver DEF Lapses
      <3> QED BY <1>1, <3>1, <3>2, <3>3 DEF Known
    <2>3. ToAsk(g)' = 1..Len(DbServers)
      BY <1>3, <1>4 DEF ToAsk
    <2>4. JoinKnows(g)'
      BY <1>2, <1>3, <1>4, <2>1, <2>2, <2>3 DEF JoinKnows, Lapses, InEffect
    <2> QED BY <1>3, <1>4, <2>4 DEF JobKnows, UnmuteKnows
  <1>8. \A h \in Games : JobKnows(h)'
    BY <1>2, <1>4, <1>7, OwnJob
  <1>9. ASSUME NEW m \in Names PROVE Known(m)'
    <2>1. Unmuting(m) => Unmuting(m)'
      <3>1. job[g].kind # "unmute"
        BY <1>2 DEF Idle
      <3> QED BY <1>1, <1>2, <3>1, StillUnmuting
    <2>2. Known(m)
      BY DEF MuteInv
    <2> QED BY <1>1, <1>2, <2>1, <2>2, StillKnown
  <1>10. ASSUME NEW h \in Games, NEW m \in Names PROVE SeatDue(h, m)'
    <2>1. SeatDue(h, m)
      BY DEF MuteInv
    <2> QED BY <1>1, <1>2, <2>1, StillDue
  <1> QED BY <1>5, <1>6, <1>8, <1>9, <1>10 DEF MuteInv

\* An order is given: its player is under it, and jobs about the name hear
\* of it.
LEMMA MuteInvOrder ==
    ASSUME TypeOK, MuteInv, NEW g \in Games, NEW n \in Names, NEW until \in Expiry, NEW j,
           job[g] = Idle, job' = [job EXCEPT ![g] = j], Begin(g, n, {until}, {}),
           Obeys(g, n, until), UNCHANGED <<mutes, now, seats, last, failures>>,
           j.kind \in {"mute", "unmute"}, j.name = n, j.until = until,
           j.kind = "unmute" => j.server = 1
    PROVE  MuteInv'
  <1>1. JobsOK /\ HistoryOK /\ now \in Nat /\ SeatsOK
    BY TypeParts DEF MuteInv
  <1>2. /\ job'[g] = j /\ during'[g] = Underway(g, n)
        /\ \A h \in Games \ {g} : /\ during[h] \subseteq during'[h]
                                  /\ during'[h] \subseteq during[h] \union {until}
    BY <1>1 DEF JobsOK, Begin
  <1>3. HistoryOK'
    <2>1. during' \in [Games -> SUBSET Expiry]
      <3>1. DOMAIN during' = Games /\ during' = [h \in Games |-> during'[h]]
        BY DEF Begin
      <3>2. ASSUME NEW h \in Games PROVE during'[h] \subseteq Expiry
        <4>1. during[h] \subseteq Expiry /\ Underway(g, n) \subseteq Expiry
          BY <1>1, UnderwayTypes DEF HistoryOK
        <4> QED BY <1>2, <4>1
      <3> QED BY <3>1, <3>2
    <2>2. due' \in [Games -> [Names -> SUBSET Expiry]]
      BY <1>1, SMTT(15), ZenonT(40) DEF HistoryOK, Obeys
    <2> QED BY <1>1, <2>1, <2>2 DEF HistoryOK
  <1>4. \A h \in Games : Heard(h)'
    <2>1. \A h \in Games : Heard(h)
      BY DEF MuteInv
    <2> QED BY <1>1, <2>1, HeardBegin
  <1>5. \A h \in Games : JobKnows(h)'
    <2>1. JobKnows(g)'
      BY <1>2 DEF JobKnows, JoinKnows, UnmuteKnows
    <2> QED BY <1>2, <2>1, OwnJob
  <1>6. ASSUME NEW m \in Names PROVE Known(m)'
    <2>1. job[g].kind # "unmute"
      BY DEF Idle
    <2>2. Unmuting(m) => Unmuting(m)'
      BY <1>1, <2>1, StillUnmuting
    <2>3. Known(m)
      BY DEF MuteInv
    <2> QED BY <1>1, <2>2, <2>3, StillKnown
  <1>7. ASSUME NEW h \in Games, NEW m \in Names PROVE SeatDue(h, m)'
    <2>1. CASE h = g /\ m = n /\ n \in seats[g]
      <3>1. muted'[h][m] = until /\ due'[h][m] = {until}
        BY <1>1, <2>1 DEF Obeys, SeatsOK, HistoryOK
      <3> QED BY <3>1 DEF SeatDue
    <2>2. CASE ~(h = g /\ m = n /\ n \in seats[g])
      <3>1. muted'[h][m] = muted[h][m] /\ due'[h][m] = due[h][m]
        BY <1>1, <2>2 DEF Obeys, SeatsOK, HistoryOK
      <3>2. SeatDue(h, m)
        BY DEF MuteInv
      <3> QED BY <1>1, <3>1, <3>2, StillDue
    <2> QED BY <2>1, <2>2
  <1> QED BY <1>3, <1>4, <1>5, <1>6, <1>7 DEF MuteInv

\* Both orders are given so.
LEMMA MuteInvMute ==
    ASSUME TypeOK, MuteInv, NEW g \in Games, NEW n \in Names,
           Unmute(g, n) \/ \E term \in Terms : Mute(g, n, term)
    PROVE  MuteInv'
  <1>1. now \in Nat
    BY TypeParts
  <1>2. CASE Unmute(g, n)
    <2>1. /\ job[g] = Idle /\ job' = [job EXCEPT ![g] = UnmuteJob(n, 1, FALSE)]
          /\ Begin(g, n, {NoMute}, {}) /\ Obeys(g, n, NoMute)
          /\ UNCHANGED <<mutes, now, seats, last, failures>>
      BY <1>2 DEF Unmute, Free, tables
    <2> DEFINE j == UnmuteJob(n, 1, FALSE)
    <2>2. j.kind = "unmute" /\ j.name = n /\ j.until = NoMute /\ j.server = 1
      BY DEF UnmuteJob
    <2>3. NoMute \in Expiry
      BY DEF Expiry
    <2> HIDE DEF j
    <2> QED BY <2>1, <2>2, <2>3, MuteInvOrder DEF j
  <1>3. ASSUME NEW term \in Terms, Mute(g, n, term) PROVE MuteInv'
    <2> DEFINE until == IF term = 0 THEN ForGood ELSE now + term
               r == IF n \in seats[g] /\ realm[g][n] # NoRealm THEN realm[g][n] ELSE DbServers[1]
               j == MuteJob(n, r, until)
    <2>1. /\ job[g] = Idle /\ job' = [job EXCEPT ![g] = j]
          /\ Begin(g, n, {until}, {}) /\ Obeys(g, n, until)
          /\ UNCHANGED <<mutes, now, seats, last, failures>>
      BY <1>3 DEF Mute, Free, tables
    <2>2. j.kind = "mute" /\ j.name = n /\ j.until = until
      BY DEF MuteJob
    <2>3. until \in Expiry
      BY <1>1, ModerationAssumption DEF Expiry, ForGood
    <2> HIDE DEF j, until, r
    <2> QED BY <2>1, <2>2, <2>3, MuteInvOrder
  <1> QED BY <1>2, <1>3

\* A mute is written to its list: what any other list says of the name may
\* still be in force.
LEMMA MuteInvMuteAdd ==
    ASSUME TypeOK, MuteInv, NEW g \in Games, MuteAdd(g) PROVE MuteInv'
  <1> DEFINE n == job[g].name
             r == job[g].realm
             until == job[g].until
             order == {until} \union during[g] \union Elsewhere(r, n)
  <1>1. /\ JobsOK /\ TablesOK /\ HistoryOK /\ now \in Nat /\ job[g].kind = "mute"
        /\ job' = [job EXCEPT ![g] = Idle] /\ UNCHANGED <<now, seats, muted, during, due>>
    BY TypeParts DEF MuteInv, MuteAdd, games, Finish
  <1>2. job[g] \in Mutings
    BY <1>1, JobKinds
  <1>3. n \in Names /\ r \in Realms /\ until \in Nat /\ until \in Expiry
    BY <1>2 DEF Mutings, Expiry
  <1>4. failures' \in Nat
    BY <1>1 DEF MuteAdd, Works, Fails, HistoryOK
  <1>5. \/ mutes' = [mutes EXCEPT ![r][n] = until] /\ last' = [last EXCEPT ![n] = order]
        \/ UNCHANGED <<mutes, last>>
    BY DEF MuteAdd, Upsert
  <1>6. order \in SUBSET Expiry
    <2>1. Elsewhere(r, n) \subseteq Expiry
      BY <1>1, <1>3 DEF Elsewhere, TablesOK
    <2> QED BY <1>1, <1>3, <2>1 DEF HistoryOK
  <1>7. \A s \in Realms \ {r} : mutes[s][n] \in order \union {NoMute}
    BY DEF Elsewhere
  <1>8. until \in order
    OBVIOUS
  <1> HIDE DEF n, r, until, order
  <1>9. HistoryOK'
    BY <1>1, <1>4, <1>5, <1>6 DEF HistoryOK
  <1>10. job'[g] = Idle
    BY <1>1 DEF JobsOK
  <1>11. \A h \in Games : Heard(h)'
    <2>1. \A h \in Games : Heard(h) /\ during[h] \subseteq during'[h]
      BY <1>1 DEF MuteInv
    <2> QED BY <1>1, <2>1, HeardOn
  <1>12. ASSUME NEW h \in Games PROVE JobKnows(h)'
    <2>1. CASE h = g
      BY <1>10, <2>1, NoKnowledge DEF JobKnows, JoinKnows, UnmuteKnows, Idle
    <2>2. CASE h # g
      <3>1. job'[h] = job[h] /\ JobKnows(h) /\ Heard(h)
        BY <1>1, <2>2 DEF JobsOK, MuteInv
      <3>2. CASE job[h] = Idle
        BY <3>1, <3>2 DEF JobKnows, JoinKnows, UnmuteKnows, Idle
      <3>3. CASE job[h] # Idle
        <4>1. ASSUME NEW s \in Realms
              PROVE  \/ mutes'[s][job[h].name] = mutes[s][job[h].name]
                     \/ mutes'[s][job[h].name] \in during[h]
          <5>1. CASE job[h].name = n
            <6>1. until \in Underway(h, job[h].name)
              BY <1>1, <2>2, <5>1 DEF Underway, n, until
            <6>2. until \in during[h]
              BY <3>1, <3>3, <6>1 DEF Heard
            <6> QED BY <1>1, <1>3, <1>5, <5>1, <6>2 DEF TablesOK
          <5>2. CASE job[h].name # n
            <6>1. job[h].name \in Names
              BY <1>1, <3>3, NamedJobs
            <6> QED BY <1>1, <1>3, <1>5, <5>2, <6>1 DEF TablesOK
          <5> QED BY <5>1, <5>2
        <4> QED BY <1>1, <3>1, <4>1, StillKnows
      <3> QED BY <3>2, <3>3
    <2> QED BY <2>1, <2>2
  <1>13. ASSUME NEW m \in Names PROVE Known(m)'
    <2>1. Unmuting(m) => Unmuting(m)'
      BY <1>1, StillUnmuting
    <2>2. Known(m)
      BY DEF MuteInv
    <2>3. CASE /\ m = n /\ mutes' = [mutes EXCEPT ![r][n] = until]
               /\ last' = [last EXCEPT ![n] = order]
      <3>1. last'[n] = order
        BY <1>1, <1>3, <2>3 DEF HistoryOK
      <3>2. mutes'[r][n] = until /\ \A s \in Realms \ {r} : mutes'[s][n] = mutes[s][n]
        BY <1>1, <1>3, <2>3 DEF TablesOK
      <3>3. \A s \in Realms : mutes'[s][n] \in last'[n] \union {NoMute}
        BY <1>7, <1>8, <3>1, <3>2
      <3> QED BY <1>3, <1>8, <2>3, <3>1, <3>2, <3>3 DEF Known, Lapses, InEffect
    <2>4. CASE m # n \/ UNCHANGED <<mutes, last>>
      <3>1. (\A s \in Realms : mutes'[s][m] = mutes[s][m]) /\ last'[m] = last[m]
        BY <1>1, <1>5, <2>4 DEF TablesOK, HistoryOK
      <3> QED BY <1>1, <2>1, <2>2, <3>1, StillKnown
    <2> QED BY <1>5, <2>3, <2>4
  <1>14. ASSUME NEW h \in Games, NEW m \in Names PROVE SeatDue(h, m)'
    <2>1. SeatDue(h, m)
      BY DEF MuteInv
    <2> QED BY <1>1, <2>1, StillDue
  <1> QED BY <1>9, <1>11, <1>12, <1>13, <1>14 DEF MuteInv

\* An unmute is through with a list, or with all.
LEMMA MuteInvMuteRemove ==
    ASSUME TypeOK, MuteInv, NEW g \in Games, MuteRemove(g) PROVE MuteInv'
  <1> DEFINE n == job[g].name
             i == job[g].server
             r == DbServers[i]
             done == i = Len(DbServers)
             failed == job[g].failed \/ failures' > failures
             j == IF done THEN Idle ELSE UnmuteJob(n, i + 1, failed)
             order == {NoMute} \union during[g] \union (IF failed THEN Left(n) ELSE {})
  <1>1. /\ JobsOK /\ TablesOK /\ HistoryOK /\ now \in Nat /\ job[g].kind = "unmute"
        /\ job' = [job EXCEPT ![g] = j] /\ UNCHANGED <<now, seats, muted, during, due>>
        /\ last' = IF done THEN [last EXCEPT ![n] = order] ELSE last
    BY TypeParts DEF MuteInv, MuteRemove, games
  <1>2. job[g] \in Unmutings /\ job[g] # Idle
    BY <1>1, JobKinds DEF Idle
  <1>3. /\ n \in Names /\ i \in Nat \ {0} /\ i <= Len(DbServers) /\ Len(DbServers) \in Nat
        /\ r \in Realms /\ job[g].failed \in BOOLEAN /\ job[g].until = NoMute
    BY <1>2, ServerTypes DEF Unmutings
  <1>4. /\ failures' \in Nat
        /\ ~failed => ~job[g].failed /\ mutes' = [mutes EXCEPT ![r][n] = NoMute]
        /\ mutes' = mutes \/ mutes' = [mutes EXCEPT ![r][n] = NoMute]
    BY <1>1 DEF MuteRemove, Works, Fails, HistoryOK, RemoveFrom
  <1>5. NoMute \in Expiry /\ ~InEffect(NoMute)
    BY <1>1, NoMuteOver
  <1>6. /\ j = Idle \/ (j.kind = "unmute" /\ j.name = n /\ j.until = NoMute)
        /\ ~done => j.kind = "unmute" /\ j.name = n /\ j.server = i + 1 /\ j.failed = failed
    BY DEF UnmuteJob
  <1>7. \A s \in Realms, m \in Names :
           mutes'[s][m] = mutes[s][m] \/ (m = n /\ mutes'[s][m] = NoMute)
    BY <1>1, <1>3, <1>4 DEF TablesOK
  <1>8. Left(n) \subseteq Expiry
    BY <1>1, <1>3, <1>5, <1>7 DEF Left, TablesOK
  <1>9. order \in SUBSET Expiry /\ NoMute \in order
    BY <1>1, <1>5, <1>8 DEF HistoryOK
  <1>10. failed => \A s \in Realms : mutes'[s][n] \in order
    BY DEF Left
  <1>11. during[g] \subseteq order
    OBVIOUS
  <1>12. ASSUME ~failed, NEW k \in 1..i
         PROVE  mutes'[DbServers[k]][n] \in during[g] \union {NoMute}
    <2>1. CASE k = i
      BY <1>1, <1>3, <1>4, <1>12, <2>1 DEF TablesOK
    <2>2. CASE k # i
      <3>1. k \in 1..i - 1
        BY <1>3, <2>2
      <3>2. UnmuteKnows(g)
        BY DEF MuteInv, JobKnows
      <3>3. mutes[DbServers[k]][n] \in during[g] \union {NoMute}
        BY <1>1, <1>4, <1>12, <3>1, <3>2 DEF UnmuteKnows
      <3>4. DbServers[k] \in Realms
        BY <1>3, ServerTypes
      <3> QED BY <1>3, <1>7, <3>3, <3>4
    <2> QED BY <2>1, <2>2
  <1> HIDE DEF r, failed, j, order, done
  <1>13. HistoryOK'
    BY <1>1, <1>3, <1>4, <1>9 DEF HistoryOK
  <1>14. job'[g] = j
    BY <1>1 DEF JobsOK
  <1>15. \A h \in Games : Heard(h)'
    <2>1. \A h \in Games : Heard(h) /\ during[h] \subseteq during'[h]
      BY <1>1 DEF MuteInv
    <2>2. \/ j = Idle
          \/ /\ job[g] # Idle /\ j.name = job[g].name
             /\ j.kind \in {"mute", "unmute"}
                   => job[g].kind \in {"mute", "unmute"} /\ j.until = job[g].until
      BY <1>1, <1>2, <1>3, <1>6
    <2> QED BY <1>1, <2>1, <2>2, HeardOn
  <1>16. ASSUME NEW h \in Games PROVE JobKnows(h)'
    <2>1. CASE h = g
      <3>1. JoinKnows(g)'
        BY <1>6, <1>14 DEF JoinKnows, Idle
      <3>2. UnmuteKnows(g)'
        <4>1. CASE done
          BY <1>14, <4>1 DEF UnmuteKnows, Idle, j
        <4>2. CASE ~done
          <5>1. /\ job'[g].server - 1 = i /\ job'[g].failed = failed
                /\ job'[g].name = n /\ during'[g] = during[g]
            BY <1>1, <1>3, <1>6, <1>14, <4>2
          <5> HIDE DEF i, n
          <5>2. ASSUME ~failed, NEW k \in 1..job'[g].server - 1
                PROVE  mutes'[DbServers[k]][job'[g].name] \in during'[g] \union {NoMute}
            BY <1>12, <5>1, <5>2
          <5> QED BY <5>1, <5>2 DEF UnmuteKnows
        <4> QED BY <4>1, <4>2
      <3> QED BY <2>1, <3>1, <3>2 DEF JobKnows
    <2>2. CASE h # g
      <3>1. job'[h] = job[h] /\ JobKnows(h) /\ Heard(h)
        BY <1>1, <2>2 DEF JobsOK, MuteInv
      <3>2. CASE job[h] = Idle
        BY <3>1, <3>2 DEF JobKnows, JoinKnows, UnmuteKnows, Idle
      <3>3. CASE job[h] # Idle
        <4>1. job[h].name \in Names
          BY <1>1, <3>3, NamedJobs
        <4>2. ASSUME NEW s \in Realms
              PROVE  \/ mutes'[s][job[h].name] = mutes[s][job[h].name]
                     \/ mutes'[s][job[h].name] \in during[h]
          <5>1. CASE job[h].name = n
            <6>1. NoMute \in Underway(h, job[h].name)
              BY <1>1, <1>3, <2>2, <5>1 DEF Underway
            <6>2. NoMute \in during[h]
              BY <3>1, <3>3, <6>1 DEF Heard
            <6> QED BY <1>7, <4>1, <6>2
          <5>2. CASE job[h].name # n
            BY <1>7, <4>1, <5>2
          <5> QED BY <5>1, <5>2
        <4> QED BY <1>1, <3>1, <4>2, StillKnows
      <3> QED BY <3>2, <3>3
    <2> QED BY <2>1, <2>2
  <1>17. ASSUME NEW m \in Names PROVE Known(m)'
    <2>1. Known(m)
      BY DEF MuteInv
    <2>2. CASE m # n
      <3>1. Unmuting(m) => Unmuting(m)'
        BY <1>1, <2>2, StillUnmuting
      <3>2. (\A s \in Realms : mutes'[s][m] = mutes[s][m]) /\ last'[m] = last[m]
        BY <1>1, <1>7, <2>2 DEF HistoryOK
      <3> QED BY <1>1, <2>1, <3>1, <3>2, StillKnown
    <2>3. CASE m = n /\ ~done
      <3>1. Unmuting(m)'
        BY <1>6, <1>14, <2>3 DEF Unmuting
      <3>2. \A s \in Realms : mutes'[s][m] \in last'[m] \union {NoMute}
        BY <1>1, <1>7, <2>1, <2>3 DEF Known
      <3> QED BY <3>1, <3>2 DEF Known
    <2>4. CASE m = n /\ done
      <3>1. last'[m] = order
        BY <1>1, <1>3, <2>4 DEF HistoryOK
      <3>2. Lapses(last[m])'
        BY <1>1, <1>5, <1>9, <3>1 DEF Lapses, InEffect
      <3>3. \A s \in Realms : mutes'[s][m] \in last'[m] \union {NoMute}
        <4>1. CASE failed
          BY <1>10, <2>4, <3>1, <4>1
        <4>2. CASE ~failed
          <5> SUFFICES ASSUME NEW s \in Realms PROVE mutes'[s][m] \in last'[m] \union {NoMute}
            OBVIOUS
          <5>1. PICK k \in 1..Len(DbServers) : s = DbServers[k]
            BY ServerTypes DEF Realms
          <5>2. k \in 1..i
            BY <2>4 DEF done
          <5> QED BY <1>11, <1>12, <2>4, <3>1, <4>2, <5>1, <5>2
        <4> QED BY <4>1, <4>2
      <3> QED BY <3>2, <3>3 DEF Known
    <2> QED BY <2>2, <2>3, <2>4
  <1>18. ASSUME NEW h \in Games, NEW m \in Names PROVE SeatDue(h, m)'
    <2>1. SeatDue(h, m)
      BY DEF MuteInv
    <2> QED BY <1>1, <2>1, StillDue
  <1> QED BY <1>13, <1>15, <1>16, <1>17, <1>18 DEF MuteInv

\* A message, or whoever leaves.
LEMMA MuteInvSpeak ==
    ASSUME TypeOK, MuteInv, NEW g \in Games, NEW n \in Names, RelayChat(g, n) \/ Leave(g, n)
    PROVE  MuteInv'
  <1>1. /\ JobsOK /\ HistoryOK /\ now \in Nat /\ SeatsOK
        /\ muted' = [muted EXCEPT ![g][n] = NoMute]
        /\ UNCHANGED <<mutes, now, job, failures, last, during>>
    BY TypeParts DEF MuteInv, RelayChat, Leave, tables, bounds, history
  <1>2. \/ UNCHANGED <<seats, due>> /\ muted[g][n] # NoMute /\ ~InEffect(muted[g][n])
        \/ /\ seats' = [seats EXCEPT ![g] = @ \ {n}]
           /\ due' = [due EXCEPT ![g][n] = {NoMute}]
    BY DEF RelayChat, Leave, Silenced, history
  <1>3. HistoryOK'
    <2>1. {NoMute} \in SUBSET Expiry
      BY DEF Expiry
    <2>2. due' = due \/ due' = [due EXCEPT ![g][n] = {NoMute}]
      BY <1>2
    <2>3. due' \in [Games -> [Names -> SUBSET Expiry]]
      BY <1>1, <2>1, <2>2, SMTT(15), ZenonT(40) DEF HistoryOK
    <2> QED BY <1>1, <2>3 DEF HistoryOK
  <1>4. ASSUME NEW h \in Games PROVE Heard(h)' /\ JobKnows(h)'
    <2>1. Heard(h)'
      BY <1>1 DEF MuteInv, Heard, Underway
    <2>2. JobKnows(h)
      BY DEF MuteInv
    <2> QED BY <1>1, <2>1, <2>2, StillKnows
  <1>5. ASSUME NEW m \in Names PROVE Known(m)'
    <2>1. Known(m) /\ (Unmuting(m) => Unmuting(m)')
      BY <1>1 DEF MuteInv, Unmuting
    <2> QED BY <1>1, <2>1, StillKnown
  <1>6. ASSUME NEW h \in Games, NEW m \in Names PROVE SeatDue(h, m)'
    <2>1. SeatDue(h, m)
      BY DEF MuteInv
    <2>2. CASE h = g /\ m = n
      <3>1. muted'[h][m] = NoMute
        BY <1>1, <2>2 DEF SeatsOK
      <3>2. CASE UNCHANGED <<seats, due>> /\ muted[g][n] # NoMute /\ ~InEffect(muted[g][n])
        BY <1>1, <2>1, <2>2, <3>1, <3>2 DEF SeatDue, Lapses, InEffect
      <3>3. CASE seats' = [seats EXCEPT ![g] = @ \ {n}]
        BY <1>1, <2>2, <3>3 DEF SeatDue, SeatsOK
      <3> QED BY <1>2, <3>2, <3>3
    <2>3. CASE ~(h = g /\ m = n)
      <3>1. /\ m \in seats'[h] => m \in seats[h]
            /\ muted'[h][m] = muted[h][m] /\ due'[h][m] = due[h][m]
        BY <1>1, <1>2, <2>3 DEF SeatsOK, HistoryOK
      <3> QED BY <1>1, <2>1, <3>1, StillDue
    <2> QED BY <2>2, <2>3
  <1> QED BY <1>3, <1>4, <1>5, <1>6 DEF MuteInv

\* The bot restarts: unmutes under way may or may not have been carried out.
LEMMA MuteInvRestart == ASSUME TypeOK, MuteInv, Restart PROVE MuteInv'
  <1>1. TablesOK /\ HistoryOK /\ now \in Nat
    BY TypeParts DEF MuteInv
  <1>2. /\ UNCHANGED <<mutes, now, failures>> /\ seats' = [g \in Games |-> {}]
        /\ job' = [g \in Games |-> Idle] /\ during' = [g \in Games |-> {}]
        /\ due' = [g \in Games |-> [n \in Names |-> {NoMute}]]
        /\ last' = [n \in Names |-> IF Unmuting(n) THEN last[n] \union Left(n) ELSE last[n]]
    BY DEF Restart, tables, Unmuting
  <1>3. ASSUME NEW n \in Names
        PROVE  /\ last'[n] \subseteq Expiry /\ last[n] \subseteq last'[n]
               /\ Unmuting(n) => NoMute \in last'[n]
    <2>1. Left(n) \subseteq Expiry /\ NoMute \in Left(n)
      BY <1>1, <1>2, NoMuteOver DEF Left, TablesOK
    <2>2. last[n] \subseteq Expiry
      BY <1>1 DEF HistoryOK
    <2>3. last'[n] = IF Unmuting(n) THEN last[n] \union Left(n) ELSE last[n]
      BY <1>2
    <2> HIDE DEF Left, Unmuting
    <2> QED BY <2>1, <2>2, <2>3
  <1>4. HistoryOK'
    <2>1. last' = [n \in Names |-> last'[n]]
      BY <1>2
    <2>2. last' \in [Names -> SUBSET Expiry]
      BY <1>3, <2>1
    <2> QED BY <1>1, <1>2, <2>2, NoMuteOver DEF HistoryOK
  <1>5. ASSUME NEW g \in Games PROVE Heard(g)' /\ JobKnows(g)'
    BY <1>2 DEF Heard, JobKnows, JoinKnows, UnmuteKnows, Idle
  <1>6. ASSUME NEW n \in Names PROVE Known(n)'
    <2>1. Known(n)
      BY DEF MuteInv
    <2> QED BY <1>1, <1>2, <1>3, <2>1, StillKnown
  <1>7. ASSUME NEW g \in Games, NEW n \in Names PROVE SeatDue(g, n)'
    BY <1>2 DEF SeatDue
  <1> QED BY <1>4, <1>5, <1>6, <1>7 DEF MuteInv

\* Every step keeps it.
LEMMA MuteNext == TypeOK /\ MuteInv /\ [Next]_vars => MuteInv'
  <1> SUFFICES ASSUME TypeOK, MuteInv, [Next]_vars PROVE MuteInv'
    OBVIOUS
  <1>1. now \in Nat /\ failures \in Nat
    BY TypeParts DEF MuteInv, HistoryOK
  <1>2. ASSUME NEW g \in Games, BanCheck(g) \/ MuteCheck(g) \/ MuteAdd(g) \/ MuteRemove(g)
        PROVE  MuteInv'
    BY <1>2, MuteInvBanCheck, MuteInvMuteCheck, MuteInvMuteAdd, MuteInvMuteRemove
  <1>3. ASSUME NEW g \in Games, NEW n \in Names,
               \/ Reqjoin(g, n) \/ Unmute(g, n) \/ RelayChat(g, n) \/ Leave(g, n)
               \/ \E term \in Terms : Mute(g, n, term)
        PROVE  MuteInv'
    BY <1>3, MuteInvReqjoin, MuteInvMute, MuteInvSpeak
  <1>4. ASSUME NEW n \in Names, NEW r \in OnBattleNet,
               SpoofCheck(n, r) \/ BanAdd(r, n) \/ BanRemove(r, n)
        PROVE  MuteInv'
    <2>1. UNCHANGED <<mutes, job, last, during, due, seats, muted, now, failures>>
      BY <1>4 DEF SpoofCheck, BanAdd, BanRemove, tables, games, bounds, history
    <2> QED BY <1>1, <2>1, MuteQuiet
  <1>5. CASE NextLobby \/ Tick \/ UNCHANGED vars
    <2>1. /\ UNCHANGED <<mutes, job, last, during, due, seats, muted, failures>>
          /\ now' = now \/ now' = now + 1
      BY <1>5 DEF NextLobby, Tick, vars, tables, games, bounds, history
    <2>2. now' \in Nat /\ now <= now'
      BY <1>1, <2>1
    <2> QED BY <1>1, <2>1, <2>2, MuteQuiet
  <1>6. CASE Restart
    BY <1>6, MuteInvRestart
  <1> QED BY <1>2, <1>3, <1>4, <1>5, <1>6 DEF Next

\* It is what the properties say, and more.
LEMMA MuteInvShows == TypeOK /\ MuteInv => MutedStaySilent /\ OthersSpeak
  <1> SUFFICES ASSUME TypeOK, MuteInv, NEW g \in Games, NEW n \in seats[g]
               PROVE  /\ ~Silenced(g, n) => \E until \in due[g][n] : ~InEffect(until)
                      /\ Silenced(g, n) => \E until \in due[g][n] : InEffect(until)
    BY DEF MutedStaySilent, OthersSpeak
  <1>1. n \in Names /\ now \in Nat
    BY TypeParts DEF SeatsOK
  <1>2. muted[g][n] \in due[g][n] \/ (muted[g][n] = NoMute /\ Lapses(due[g][n]))
    BY <1>1 DEF MuteInv, SeatDue
  <1> QED BY <1>1, <1>2, NoMuteOver DEF Silenced, Lapses

(* A player is silent while the mute lasts that was ordered last, in this   *)
(* game or, before the player joined, in any: whatever orders of several    *)
(* games, joins, calls to the database that fail and restarts of the bot    *)
(* come between, for any number of realms, names and games.                 *)
THEOREM MutesHold == Spec => []MutedStaySilent
  <1>1. TypeOK /\ MuteInv => MutedStaySilent
    BY MuteInvShows
  <1> QED BY <1>1, TypeInit, TypeNext, MuteInit, MuteNext, PTL DEF Spec

(* Nobody is silenced but by an order that may be the last one and whose    *)
(* time is not over.                                                        *)
THEOREM MutesEnd == Spec => []OthersSpeak
  <1>1. TypeOK /\ MuteInv => OthersSpeak
    BY MuteInvShows
  <1> QED BY <1>1, TypeInit, TypeNext, MuteInit, MuteNext, PTL DEF Spec

=============================================================================
