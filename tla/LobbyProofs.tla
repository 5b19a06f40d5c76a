----------------------------- MODULE LobbyProofs -----------------------------
(***************************************************************************)
(* That players, slots and PIDs stay in step, for any number of slots, any *)
(* maps and any sequence of joins, leaves and commands.                    *)
(***************************************************************************)
EXTENDS Lobby, FiniteSetTheorems, WellFoundedInduction, TLAPS

Statuses == {"open", "closed", "occupied"}

\* Slots as a function of the same positions as ever.
SlotsOK(ss) == ss \in [DOMAIN map.slots -> Slot]

IsHuman(s) == s.status = "occupied" /\ ~s.computer

\* SlotsSeatPlayers slot by slot, and that no human slot is taken by nobody.
Seats(ss, ps) ==
    /\ \A p \in ps : \E s \in DOMAIN ss : ss[s].pid = p
    /\ \A s \in DOMAIN ss : ss[s].pid # 0 <=> IsHuman(ss[s])
    /\ \A s \in DOMAIN ss : ss[s].pid # 0 => ss[s].pid \in ps
    /\ \A s, t \in DOMAIN ss : ss[s].pid = ss[t].pid /\ ss[s].pid # 0 => s = t

IInv == TypeOK /\ Seats(slots, Seated) /\ HostPresent

(***************************************************************************)
(* Numbers                                                                 *)
(***************************************************************************)

LEMMA MinIn ==
    ASSUME NEW S, S \subseteq Nat, S # {}
    PROVE  Min(S) \in S
  <1>1. PICK x \in S : \A y \in S : ~ (<<y, x>> \in OpToRel(<, Nat))
    BY WFMin, NatLessThanWellFounded
  <1>2. \A y \in S : x <= y
    <2> SUFFICES ASSUME NEW y \in S, ~(x <= y) PROVE FALSE
      OBVIOUS
    <2>1. y < x
      OBVIOUS
    <2>2. <<y, x>> \in OpToRel(<, Nat)
      BY <2>1 DEF OpToRel
    <2> QED
      BY <1>1, <2>2
  <1> QED
    BY <1>2 DEF Min

LEMMA PidTypes ==
    /\ Pids \subseteq Nat \ {0} /\ Pids \subseteq 0..MaxSlots /\ IsFiniteSet(Pids)
    /\ Cardinality(Pids) = MaxSlots /\ MaxSlots \in Nat \ {0} /\ MaxSlots \in Pids
    /\ NoHost \notin Pids /\ NoHost \in Nat
  BY LobbyAssumption, FS_Interval DEF Pids, NoHost

\* Who takes all PIDs but one.
LEMMA PidsLeft ==
    ASSUME NEW S \in SUBSET Pids
    PROVE  /\ Cardinality(S) \in Nat
           /\ Cardinality(S) < MaxSlots - 1 =>
                 \A h \in Nat : (Pids \ S) \ {h} # {} /\ \A p \in Pids : S \union {p} # Pids
           /\ Cardinality(S) >= MaxSlots - 1 =>
                 S = Pids \/ \E p \in Pids \ S : S \union {p} = Pids
  <1>1. IsFiniteSet(S) /\ Cardinality(S) \in Nat
    BY PidTypes, FS_Subset, FS_CardinalityType
  <1>2. /\ IsFiniteSet(Pids \ S)
        /\ Cardinality(Pids \ S) = MaxSlots - Cardinality(S)
    <2>1. Pids \intersect S = S
      OBVIOUS
    <2> QED
      BY <1>1, <2>1, PidTypes, FS_Difference
  <1>3. ASSUME Cardinality(S) < MaxSlots - 1, NEW h
        PROVE  (Pids \ S) \ {h} # {}
    <2>1. SUFFICES ASSUME (Pids \ S) \ {h} = {} PROVE FALSE
      OBVIOUS
    <2>2. Pids \ S \subseteq {h}
      BY <2>1
    <2>3. IsFiniteSet({h}) /\ Cardinality({h}) = 1
      BY FS_Singleton
    <2>4. Cardinality(Pids \ S) <= 1
      BY <2>2, <2>3, FS_Subset
    <2> QED
      BY <1>1, <1>2, <1>3, <2>4, PidTypes
  <1>4. ASSUME Cardinality(S) < MaxSlots - 1, NEW p \in Pids
        PROVE  S \union {p} # Pids
    <2>1. (Pids \ S) \ {p} # {}
      BY <1>3, <1>4
    <2> QED
      BY <2>1
  <1>5. ASSUME Cardinality(S) >= MaxSlots - 1, S # Pids
        PROVE  \E p \in Pids \ S : S \union {p} = Pids
    <2>1. PICK p : p \in Pids \ S
      BY <1>5
    <2>2. SUFFICES ASSUME S \union {p} # Pids PROVE FALSE
      BY <2>1
    <2>3. PICK q : q \in Pids \ S /\ q # p
      BY <2>1, <2>2
    <2>4. {p, q} \subseteq Pids \ S
      BY <2>1, <2>3
    <2>5. IsFiniteSet({p}) /\ Cardinality({p}) = 1 /\ IsFiniteSet({q}) /\ Cardinality({q}) = 1
      BY FS_Singleton
    <2>6. IsFiniteSet({p} \union {q}) /\ Cardinality({p} \union {q}) = 2
      <3>1. q \notin {p}
        BY <2>3
      <3> QED
        BY <2>5, <3>1, FS_AddElement
    <2>7. {p} \union {q} = {p, q}
      OBVIOUS
    <2>8. 2 <= Cardinality(Pids \ S)
      BY <1>2, <2>4, <2>6, <2>7, FS_Subset
    <2> QED
      BY <1>1, <1>2, <1>5, <2>8, PidTypes
  <1> QED
    BY <1>1, <1>3, <1>4, <1>5

(***************************************************************************)
(* What the operations do to the slots                                     *)
(***************************************************************************)

\* Nobody moves: every human slot is one as before, with the same PID.
LEMMA SeatsSame ==
    ASSUME NEW D, NEW a \in [D -> Slot], NEW b \in [D -> Slot], NEW P, Seats(a, P),
           \A s \in D : b[s].pid = a[s].pid /\ (IsHuman(b[s]) <=> IsHuman(a[s]))
    PROVE  Seats(b, P)
  <1>1. DOMAIN a = D /\ DOMAIN b = D
    OBVIOUS
  <1> QED
    BY <1>1 DEF Seats, IsHuman

\* Humans change places.
LEMMA SeatsPermuted ==
    ASSUME NEW D, NEW a \in [D -> Slot], NEW b \in [D -> Slot], NEW P, Seats(a, P),
           NEW f \in Bijection(D, D),
           \A s \in D : b[s].pid = a[f[s]].pid /\ (IsHuman(b[s]) <=> IsHuman(a[f[s]]))
    PROVE  Seats(b, P)
  <1>1. DOMAIN a = D /\ DOMAIN b = D
    OBVIOUS
  <1>2. ASSUME NEW p \in P PROVE \E s \in D : b[s].pid = p
    <2>1. PICK t \in D : a[t].pid = p
      BY <1>1 DEF Seats
    <2>2. PICK s \in D : f[s] = t
      BY DEF Bijection, Surjection
    <2> QED
      BY <2>1, <2>2
  <1>3. ASSUME NEW s \in D
        PROVE  /\ b[s].pid # 0 <=> IsHuman(b[s])
               /\ b[s].pid # 0 => b[s].pid \in P
    <2>1. f[s] \in D
      BY DEF Bijection, Injection
    <2> QED
      BY <1>1, <2>1 DEF Seats, IsHuman
  <1>4. ASSUME NEW s \in D, NEW t \in D, b[s].pid = b[t].pid, b[s].pid # 0 PROVE s = t
    <2>1. f \in [D -> D] /\ f[s] \in D /\ f[t] \in D
      BY DEF Bijection, Injection
    <2>2. f[s] = f[t]
      BY <1>1, <1>4, <2>1 DEF Seats
    <2> QED
      BY <2>1, <2>2 DEF Bijection, Injection, IsInjective
  <1> QED
    BY <1>1, <1>2, <1>3, <1>4 DEF Seats

\* A joiner takes a slot nobody has.
LEMMA SeatsTaken ==
    ASSUME NEW D, NEW a \in [D -> Slot], NEW b \in [D -> Slot], NEW P, Seats(a, P),
           0 \notin P, NEW k \in D, a[k].pid = 0, NEW pid, pid \notin P, pid # 0,
           b[k].pid = pid, IsHuman(b[k]), \A s \in D \ {k} : b[s] = a[s]
    PROVE  Seats(b, P \union {pid})
  <1>1. DOMAIN a = D /\ DOMAIN b = D
    OBVIOUS
  <1>2. ASSUME NEW p \in P \union {pid} PROVE \E s \in D : b[s].pid = p
    <2>1. CASE p = pid
      BY <2>1
    <2>2. CASE p # pid
      <3>1. PICK s \in D : a[s].pid = p
        BY <1>1, <2>2 DEF Seats
      <3>2. CASE s = k
        <4>1. p = 0 /\ p \in P
          BY <2>2, <3>1, <3>2
        <4> QED
          BY <4>1
      <3> QED
        BY <3>1, <3>2
    <2> QED
      BY <2>1, <2>2
  <1>3. ASSUME NEW s \in D
        PROVE  /\ b[s].pid # 0 <=> IsHuman(b[s])
               /\ b[s].pid # 0 => b[s].pid \in P \union {pid}
    <2>1. CASE s = k
      BY <2>1
    <2>2. CASE s # k
      BY <1>1, <2>2 DEF Seats, IsHuman
    <2> QED
      BY <2>1, <2>2
  <1>4. ASSUME NEW s \in D, NEW t \in D, b[s].pid = b[t].pid, b[s].pid # 0 PROVE s = t
    <2>1. \A u \in D \ {k} : b[u].pid # 0 => b[u].pid # pid
      BY <1>1 DEF Seats
    <2> QED
      BY <1>1, <1>4, <2>1 DEF Seats
  <1> QED
    BY <1>1, <1>2, <1>3, <1>4 DEF Seats

\* Those gone leave their slots, which somebody may have closed since.
LEMMA SeatsFreed ==
    ASSUME NEW D, NEW a \in [D -> Slot], NEW b \in [D -> Slot], NEW P, Seats(a, P), NEW gone,
           0 \notin P,
           \A s \in D : IF a[s].pid \in gone THEN b[s].pid = 0 /\ ~IsHuman(b[s])
                        ELSE b[s].pid = a[s].pid /\ (IsHuman(b[s]) <=> IsHuman(a[s]))
    PROVE  Seats(b, P \ gone)
  <1>1. DOMAIN a = D /\ DOMAIN b = D
    OBVIOUS
  <1>2. ASSUME NEW p \in P \ gone PROVE \E s \in D : b[s].pid = p
    BY <1>1 DEF Seats
  <1>3. ASSUME NEW s \in D
        PROVE  /\ b[s].pid # 0 <=> IsHuman(b[s])
               /\ b[s].pid # 0 => b[s].pid = a[s].pid /\ b[s].pid \in P \ gone
    <2>1. CASE a[s].pid \in gone
      BY <2>1
    <2>2. CASE a[s].pid \notin gone
      <3>1. b[s].pid = a[s].pid /\ (IsHuman(b[s]) <=> IsHuman(a[s]))
        BY <2>2
      <3>2. a[s].pid # 0 <=> IsHuman(a[s])
        BY <1>1 DEF Seats, IsHuman
      <3>3. a[s].pid # 0 => a[s].pid \in P
        BY <1>1 DEF Seats
      <3> QED
        BY <2>2, <3>1, <3>2, <3>3
    <2> QED
      BY <2>1, <2>2
  <1>4. ASSUME NEW s \in D, NEW t \in D, b[s].pid = b[t].pid, b[s].pid # 0 PROVE s = t
    BY <1>1, <1>3, <1>4 DEF Seats
  <1> QED
    BY <1>1, <1>2, <1>3, <1>4 DEF Seats

\* What Seats says in the words of SlotsSeatPlayers.
LEMMA SeatsMean ==
    ASSUME Seats(slots, Seated), 0 \notin Seated
    PROVE  SlotsSeatPlayers
  <1>1. ASSUME NEW p \in Seated
        PROVE  \E s \in Sids : SlotOf(slots, p) = {s}
                  /\ slots[s].status = "occupied" /\ ~slots[s].computer
    <2>1. PICK s \in Sids : slots[s].pid = p
      BY DEF Seats, Sids
    <2>2. p # 0
      OBVIOUS
    <2>3. \A t \in Sids : slots[t].pid = p => t = s
      BY <2>1, <2>2 DEF Seats, Sids
    <2>4. SlotOf(slots, p) = {s}
      BY <2>1, <2>3 DEF SlotOf
    <2>5. slots[s].status = "occupied" /\ ~slots[s].computer
      BY <2>1, <2>2 DEF Seats, Sids, IsHuman
    <2> QED
      BY <2>4, <2>5
  <1> QED
    BY <1>1 DEF SlotsSeatPlayers, Seats, Sids

LEMMA SlotReset ==
    ASSUME NEW s \in Slot, NEW status \in Statuses
    PROVE  LET reset == [s EXCEPT !.status = status, !.pid = 0, !.computer = FALSE,
                                  !.download = 255]
           IN  reset \in Slot /\ reset.pid = 0 /\ (status # "occupied" => ~IsHuman(reset))
  <1>1. 0 \in 0..MaxSlots
    BY PidTypes
  <1>2. [s EXCEPT !.status = status, !.pid = 0, !.computer = FALSE, !.download = 255] \in Slot
    BY <1>1, ZenonT(60) DEF Slot, Statuses
  <1> QED
    BY <1>2 DEF Slot, IsHuman, Statuses

LEMMA SlotFreed ==
    ASSUME NEW s \in Slot
    PROVE  [s EXCEPT !.pid = 0, !.status = "open", !.computer = FALSE, !.download = 255] \in Slot
  <1>1. 0 \in 0..MaxSlots
    BY PidTypes
  <1> QED
    BY <1>1, ZenonT(60) DEF Slot

(***************************************************************************)
(* The steps                                                               *)
(***************************************************************************)

LEMMA InvParts ==
    ASSUME IInv
    PROVE  /\ slots \in [Sids -> Slot] /\ Sids = DOMAIN slots /\ Sids = DOMAIN map.slots
           /\ Sids # {} /\ Sids \subseteq Nat
           /\ Seated \in SUBSET Pids /\ 0 \notin Seated /\ Seats(slots, Seated)
           /\ \A s \in Sids : slots[s] \in Slot
           /\ \A s \in Sids : slots[s].pid # 0 => slots[s].pid \in Seated
           /\ \A s \in Sids : slots[s].status # "occupied" => slots[s].pid = 0
  <1>1. slots \in [Sids -> Slot] /\ Sids = DOMAIN slots /\ Sids = DOMAIN map.slots
    BY DEF IInv, TypeOK, Sids
  <1>2. map \in Maps /\ IsGameMap(map)
    BY LobbyAssumption DEF IInv, TypeOK
  <1>3. PICK n \in 1..MaxSlots : map.slots \in [1..n -> Slot]
    BY <1>2 DEF IsGameMap
  <1>4. Sids = 1..n
    BY <1>1, <1>3
  <1>5. Sids # {} /\ Sids \subseteq Nat
    <2>1. n \in Nat /\ 1 \in 1..n
      BY PidTypes
    <2>2. 1..n \subseteq Nat /\ 1..n # {}
      BY <2>1
    <2> QED
      BY <1>4, <2>2
  <1>6. Seated \in SUBSET Pids /\ 0 \notin Seated /\ Seats(slots, Seated)
    BY PidTypes DEF IInv, TypeOK
  <1>7. \A s \in Sids : slots[s] \in Slot
    BY <1>1
  <1> QED
    BY <1>1, <1>5, <1>6, <1>7 DEF Seats, IsHuman

\* A step that only changes the slots and tells the clients.
LEMMA Rearranged ==
    ASSUME IInv, slots' \in [Sids -> Slot], Seats(slots', Seated), shown' = slots',
           UNCHANGED <<map, players, virtual_host_pid, countdown, autostart, started,
                       slot_info_changed>>
    PROVE  IInv'
  <1>1. Sids' = Sids /\ Seated' = Seated
    BY DEF Sids, Seated
  <1>2. TypeOK'
    BY <1>1 DEF IInv, TypeOK
  <1>3. Seats(slots', Seated') /\ HostPresent'
    BY <1>1 DEF IInv, HostPresent
  <1> QED
    BY <1>2, <1>3 DEF IInv

\* The players left are some of those before, each as they were.
LEMMA WithoutThem ==
    ASSUME NEW gone
    PROVE  /\ DOMAIN Without(players, gone) = Seated \ gone
           /\ \A p \in Seated \ gone : Without(players, gone)[p] = players[p]
  BY DEF Without, Restrict, Seated

\* remove_player leaves a host behind.
LEMMA Removed ==
    ASSUME IInv, NEW gone \in SUBSET Seated, gone # {},
           NEW left \in [Sids -> Slot], Seats(left, Seated \ gone), Remove(gone, left)
    PROVE  IInv'
  <1>1. slots' = left /\ Seated' = Seated \ gone /\ DOMAIN slots' = Sids
    BY WithoutThem DEF Remove, Seated
  <1>2. Seats(slots', Seated')
    BY <1>1
  <1>3. Seated' # Pids
    BY <1>1, InvParts
  <1>4. HostPresent' /\ virtual_host_pid' \in Pids \union {NoHost}
    <2>1. CASE virtual_host_pid = NoHost /\ ~started
      <3>1. Seated = Pids
        BY <2>1 DEF IInv, HostPresent
      <3>2. PICK first \in gone : virtual_host_pid' = NewPid(Without(players, {first}), NoHost)
        BY <2>1 DEF Remove, CreateVirtualHost
      <3>3. first \in Pids /\ first # NoHost /\ first \in Nat
        BY InvParts, PidTypes
      <3>4. (Pids \ DOMAIN Without(players, {first})) \ {NoHost} = {first}
        BY <3>1, <3>3, WithoutThem, SMTT(15), ZenonT(40)
      <3>5. Min({first}) = first
        BY <3>3, MinIn
      <3>6. virtual_host_pid' = first
        BY <3>2, <3>4, <3>5 DEF NewPid
      <3>7. ~started'
        BY <2>1 DEF Remove
      <3> QED
        BY <1>1, <1>3, <3>3, <3>6, <3>7 DEF HostPresent
    <2>2. CASE ~(virtual_host_pid = NoHost /\ ~started)
      <3>1. virtual_host_pid' = virtual_host_pid /\ started' = started
        BY <2>2 DEF Remove, CreateVirtualHost
      <3>2. /\ virtual_host_pid \notin Seated
            /\ virtual_host_pid = NoHost <=> started \/ Seated = Pids
            /\ virtual_host_pid \in Pids \union {NoHost}
        BY DEF IInv, HostPresent, TypeOK
      <3> QED
        BY <1>1, <1>3, <2>2, <3>1, <3>2 DEF HostPresent
    <2> QED
      BY <2>1, <2>2
  <1>5. TypeOK'
    <2>1. Seated' \subseteq Pids /\ (\A p \in Seated : players[p] \in Player)'
      BY <1>1, WithoutThem, InvParts DEF Remove, IInv, TypeOK, Seated
    <2>2. Sids' = Sids
      BY <1>1 DEF Sids
    <2>3. countdown' \in 0..CountdownFrom \union {None}
      BY DEF Remove, CancelCountdown
    <2>4. shown' \in [Sids -> Slot]
      BY <1>1 DEF Remove, SendSlotInfo, IInv, TypeOK
    <2>5. slots' \in [Sids -> Slot]
      BY <1>1
    <2>6. UNCHANGED <<map, autostart, started, slot_info_changed>>
      BY DEF Remove
    <2> QED
      BY <1>4, <2>1, <2>2, <2>3, <2>4, <2>5, <2>6 DEF IInv, TypeOK
  <1> QED
    BY <1>2, <1>4, <1>5 DEF IInv

LEMMA SlotTaken ==
    ASSUME NEW s \in Slot, NEW pid \in 0..MaxSlots
    PROVE  LET taken == [s EXCEPT !.pid = pid, !.status = "occupied", !.computer = FALSE,
                                  !.download = 255]
           IN  taken \in Slot /\ taken.pid = pid /\ IsHuman(taken)
  BY ZenonT(60) DEF Slot, IsHuman

\* What becomes of slots and players when pid gets the first open slot.
LEMMA Seating ==
    ASSUME IInv, OpenSlots # {}, NEW pid \in Pids, pid \notin Seated,
           slots' = [slots EXCEPT ![Min(OpenSlots)] =
                       [@ EXCEPT !.pid = pid, !.status = "occupied", !.computer = FALSE,
                                 !.download = 255]],
           players' = [p \in Seated \union {pid} |->
                          IF p = pid THEN NewPlayer ELSE players[p]]
    PROVE  /\ slots' \in [Sids -> Slot] /\ Seated' = Seated \union {pid}
           /\ Seats(slots', Seated') /\ \A p \in Seated' : players'[p] \in Player
  <1>1. Min(OpenSlots) \in OpenSlots
    BY InvParts, MinIn DEF OpenSlots
  <1>2. Min(OpenSlots) \in Sids /\ slots[Min(OpenSlots)].pid = 0
    BY <1>1, InvParts DEF OpenSlots
  <1>3. pid # 0 /\ pid \in 0..MaxSlots
    BY PidTypes
  <1>4. Seated' = Seated \union {pid}
    BY DEF Seated
  <1>5. slots' \in [Sids -> Slot] /\ Seats(slots', Seated')
    <2> DEFINE k == Min(OpenSlots)
               taken == [slots[k] EXCEPT !.pid = pid, !.status = "occupied",
                                         !.computer = FALSE, !.download = 255]
    <2>1. slots \in [Sids -> Slot] /\ Seats(slots, Seated) /\ 0 \notin Seated
      BY InvParts
    <2>2. slots[k] \in Slot
      BY <1>2, <2>1
    <2>3. taken \in Slot /\ taken.pid = pid /\ IsHuman(taken)
      BY <1>3, <2>2, SlotTaken, SMTT(15), ZenonT(40)
    <2>4. slots' = [slots EXCEPT ![k] = taken]
      OBVIOUS
    <2> HIDE DEF taken, k
    <2>5. /\ slots' \in [Sids -> Slot] /\ slots'[k] = taken
          /\ \A s \in Sids \ {k} : slots'[s] = slots[s]
      BY <1>2, <2>1, <2>3, <2>4 DEF k
    <2>6. k \in Sids /\ slots[k].pid = 0
      BY <1>2 DEF k
    <2>7. slots'[k].pid = pid /\ IsHuman(slots'[k])
      BY <2>3, <2>5
    <2>8. Seats(slots', Seated \union {pid})
      BY <1>3, <2>1, <2>5, <2>6, <2>7, SeatsTaken, ZenonT(200)
    <2> QED
      BY <1>4, <2>5, <2>8
  <1>6. \A p \in Seated' : players'[p] \in Player
    BY <1>4 DEF NewPlayer, Player, IInv, TypeOK
  <1> QED
    BY <1>4, <1>5, <1>6

LEMMA JoinInv ==
    ASSUME IInv, Join PROVE IInv'
  <1> DEFINE pid == NewPid(players, HostAfterJoin)
             free == (Pids \ Seated) \ {HostAfterJoin}
  <1>1. /\ ~started /\ OpenSlots # {} /\ virtual_host_pid' = HostAfterJoin
        /\ UNCHANGED <<map, countdown, autostart, started, slot_info_changed>>
    BY DEF Join
  <1>2. /\ virtual_host_pid \notin Seated /\ virtual_host_pid \in Pids \union {NoHost}
        /\ virtual_host_pid = NoHost <=> Seated = Pids
    BY <1>1 DEF IInv, TypeOK, HostPresent
  <1>3. pid = IF free = {} THEN NoHost ELSE Min(free)
    BY DEF NewPid, Seated
  <1>4. free # {} => pid \in free /\ pid \in Pids /\ pid \notin Seated /\ pid # NoHost
    <2> SUFFICES ASSUME free # {} PROVE pid \in free /\ pid \in Pids /\ pid \notin Seated /\ pid # NoHost
      OBVIOUS
    <2>1. free \subseteq Nat
      BY PidTypes
    <2>2. free \subseteq Pids /\ free \cap Seated = {} /\ NoHost \notin free
      BY PidTypes
    <2> HIDE DEF free, pid
    <2>3. Min(free) \in free
      BY <2>1, MinIn
    <2>4. pid \in free
      BY <1>3, <2>3
    <2> QED
      BY <2>2, <2>4
  <1>5. CASE pid = NoHost
    <2>1. free = {}
      BY <1>4, <1>5
    <2>2. Cardinality(Seated) >= MaxSlots - 1
      <3>1. virtual_host_pid \in Nat /\ Cardinality(Seated) \in Nat
        BY <1>2, InvParts, PidTypes, PidsLeft
      <3>2. ~(Cardinality(Seated) < MaxSlots - 1)
        BY <2>1, <3>1, InvParts, PidsLeft, PidTypes DEF HostAfterJoin
      <3> QED
        BY <3>1, <3>2, PidTypes
    <2>3. HostAfterJoin = NoHost /\ Seated = Pids
      BY <2>1, <2>2, InvParts, PidTypes DEF HostAfterJoin
    <2>4. UNCHANGED <<slots, players, shown>>
      BY <1>5 DEF Join
    <2>5. virtual_host_pid' = virtual_host_pid
      BY <1>1, <1>2, <2>3
    <2> QED
      BY <1>1, <2>4, <2>5 DEF IInv, TypeOK, HostPresent, Sids, Seated
  <1>6. CASE pid # NoHost
    <2>1. pid \in Pids /\ pid \notin Seated /\ pid # HostAfterJoin
      BY <1>3, <1>4, <1>6
    <2>2. /\ slots' \in [Sids -> Slot] /\ Seated' = Seated \union {pid}
          /\ Seats(slots', Seated') /\ \A p \in Seated' : players'[p] \in Player
      <3>1. /\ slots' = [slots EXCEPT ![Min(OpenSlots)] =
                       [@ EXCEPT !.pid = pid, !.status = "occupied", !.computer = FALSE,
                                 !.download = 255]]
            /\ players' = [p \in Seated \union {pid} |->
                          IF p = pid THEN NewPlayer ELSE players[p]]
        BY <1>6 DEF Join
      <3> HIDE DEF pid
      <3> QED
        BY <1>1, <2>1, <3>1, Seating
    <2> HIDE DEF pid
    <2>3. HostPresent' /\ virtual_host_pid' \in Pids \union {NoHost}
      <3>1. CASE Cardinality(Seated) >= MaxSlots - 1
        <4>1. virtual_host_pid' = NoHost
          BY <1>1, <3>1 DEF HostAfterJoin
        <4>2. Seated' = Pids
          BY <2>1, <2>2, <3>1, InvParts, PidsLeft
        <4> QED
          BY <1>1, <4>1, <4>2, PidTypes DEF HostPresent
      <3>2. CASE ~(Cardinality(Seated) >= MaxSlots - 1)
        <4>1. virtual_host_pid' = virtual_host_pid /\ HostAfterJoin = virtual_host_pid
          BY <1>1, <3>2 DEF HostAfterJoin
        <4>2. Cardinality(Seated) < MaxSlots - 1
          BY <3>2, InvParts, PidsLeft, PidTypes
        <4>3. Seated' # Pids /\ Seated # Pids
          BY <2>1, <2>2, <4>2, InvParts, PidsLeft
        <4> QED
          BY <1>1, <1>2, <2>1, <2>2, <4>1, <4>3 DEF HostPresent
      <3> QED
        BY <3>1, <3>2
    <2>4. TypeOK'
      <3>1. Sids' = Sids /\ Seated' \subseteq Pids
        BY <2>1, <2>2, InvParts DEF Sids
      <3>2. shown' = slots'
        BY <1>6 DEF Join, SendSlotInfo, pid
      <3> QED
        BY <1>1, <2>2, <2>3, <3>1, <3>2 DEF IInv, TypeOK
    <2> QED
      BY <2>2, <2>3, <2>4 DEF IInv
  <1> QED
    BY <1>5, <1>6

\* The slots of those gone, freed.
LEMMA FreedSlots ==
    ASSUME IInv, NEW gone \in SUBSET Seated
    PROVE  /\ Freed(slots, gone) \in [Sids -> Slot]
           /\ Seats(Freed(slots, gone), Seated \ gone)
           /\ \A s \in Sids : slots[s].pid \in gone => /\ Freed(slots, gone)[s].pid = 0
                                                     /\ ~IsHuman(Freed(slots, gone)[s])
  <1> DEFINE b == Freed(slots, gone)
  <1>1. b \in [Sids -> Slot]
    BY InvParts, SlotFreed DEF Freed
  <1>2. \A s \in Sids : IF slots[s].pid \in gone THEN b[s].pid = 0 /\ ~IsHuman(b[s])
                        ELSE b[s].pid = slots[s].pid /\ (IsHuman(b[s]) <=> IsHuman(slots[s]))
    BY InvParts DEF Freed, IsHuman, Slot
  <1> QED
    BY <1>1, <1>2, InvParts, SeatsFreed

LEMMA LeaveInv ==
    ASSUME IInv, NEW gone \in SUBSET Seated, gone # {}, Remove(gone, Freed(slots, gone))
    PROVE  IInv'
  BY FreedSlots, Removed

LEMMA SetSlotOpenInv ==
    ASSUME IInv, NEW sid \in Sids, NEW status \in {"open", "closed"}, SetSlotOpen(sid, status)
    PROVE  IInv'
  <1> status \in Statuses
    BY DEF Statuses
  <1>1. CASE Human(sid)
    <2> DEFINE pid == slots[sid].pid
               freed == Freed(slots, {pid})
               left == Reset(freed, sid, status)
    <2>1. pid # 0 /\ pid \in Seated
      BY <1>1, InvParts DEF Human, Seats, IsHuman
    <2>2. freed \in [Sids -> Slot] /\ Seats(freed, Seated \ {pid})
      BY <2>1, FreedSlots
    <2>3. freed[sid].pid = 0 /\ ~IsHuman(freed[sid])
      BY <2>1, FreedSlots
    <2> HIDE DEF freed
    <2>4. left \in [Sids -> Slot]
      <3> DEFINE reset == [freed[sid] EXCEPT !.status = status, !.pid = 0, !.computer = FALSE,
                                             !.download = 255]
      <3>1. freed[sid] \in Slot
        BY <2>2
      <3>2. reset \in Slot
        BY <3>1, SlotReset, SMTT(15), ZenonT(40)
      <3>3. left = [freed EXCEPT ![sid] = reset]
        BY DEF Reset
      <3> HIDE DEF reset, left
      <3> QED
        BY <2>2, <3>2, <3>3
    <2>5. \A s \in Sids : left[s].pid = freed[s].pid /\ (IsHuman(left[s]) <=> IsHuman(freed[s]))
      BY <2>2, <2>3 DEF Reset, IsHuman, Slot
    <2>6. Seats(left, Seated \ {pid})
      BY <2>2, <2>4, <2>5, SeatsSame
    <2>7. Remove({pid}, left)
      BY <1>1 DEF SetSlotOpen, freed
    <2> HIDE DEF left, pid
    <2> QED
      BY <2>1, <2>4, <2>6, <2>7, Removed
  <1>2. CASE ~Human(sid)
    <2>1. slots' = Reset(slots, sid, status) /\ slots' \in [Sids -> Slot]
      <3>1. slots' = Reset(slots, sid, status)
        BY <1>2 DEF SetSlotOpen
      <3>2. slots[sid] \in Slot /\ slots \in [Sids -> Slot]
        BY InvParts
      <3> QED
        BY <3>1, <3>2, SlotReset, SMTT(15), ZenonT(40) DEF Reset
    <2>2. slots[sid].pid = 0
      BY <1>2, InvParts DEF Human, Seats, IsHuman
    <2>3. \A s \in Sids :
             slots'[s].pid = slots[s].pid /\ (IsHuman(slots'[s]) <=> IsHuman(slots[s]))
      BY <1>2, <2>1, <2>2, InvParts DEF Reset, IsHuman, Human, Slot
    <2>4. Seats(slots', Seated)
      BY <2>1, <2>3, InvParts, SeatsSame
    <2> QED
      BY <1>2, <2>1, <2>4, Rearranged DEF SetSlotOpen, SendSlotInfo
  <1> QED
    BY <1>1, <1>2

LEMMA SetAllSlotsInv ==
    ASSUME IInv, NEW from \in {"open", "closed"}, NEW status \in {"open", "closed"},
           SetAllSlots(from, status)
    PROVE  IInv'
  <1>1. ASSUME NEW s \in Sids
        PROVE  /\ slots'[s] \in Slot
               /\ slots'[s].pid = slots[s].pid /\ (IsHuman(slots'[s]) <=> IsHuman(slots[s]))
    <2>1. slots[s] \in Slot
      BY InvParts
    <2>2. CASE slots[s].status = from
      <3>1. slots[s].pid = 0 /\ ~IsHuman(slots[s])
        BY <2>2, InvParts DEF IsHuman
      <3> DEFINE reset == [slots[s] EXCEPT !.status = status, !.pid = 0, !.computer = FALSE,
                                           !.download = 255]
      <3>2. slots'[s] = reset
        BY <2>2, InvParts DEF SetAllSlots, Reset
      <3>3. reset \in Slot /\ reset.pid = 0 /\ ~IsHuman(reset)
        <4>1. status \in Statuses /\ status # "occupied"
          BY DEF Statuses
        <4> QED
          BY <2>1, <4>1, SlotReset, ZenonT(60)
      <3> HIDE DEF reset
      <3> QED
        BY <3>1, <3>2, <3>3
    <2>3. CASE slots[s].status # from
      <3>1. slots'[s] = slots[s]
        BY <2>3 DEF SetAllSlots
      <3> QED
        BY <2>1, <3>1
    <2> QED
      BY <2>2, <2>3
  <1>2. slots' \in [Sids -> Slot]
    BY <1>1 DEF SetAllSlots
  <1>3. Seats(slots', Seated)
    BY <1>1, <1>2, InvParts, SeatsSame
  <1> QED
    BY <1>2, <1>3, Rearranged DEF SetAllSlots, SendSlotInfo

\* A slot's player on another slot's team, and in its colour.
LEMMA SlotMoved ==
    ASSUME NEW s \in Slot, NEW kept \in Slot
    PROVE  LET team == [s EXCEPT !.team = kept.team]
               both == [s EXCEPT !.team = kept.team, !.colour = kept.colour]
           IN  /\ team \in Slot /\ team.pid = s.pid /\ (IsHuman(team) <=> IsHuman(s))
               /\ both \in Slot /\ both.pid = s.pid /\ (IsHuman(both) <=> IsHuman(s))
  <1>1. kept.team \in 0..MaxSlots /\ kept.colour \in 0..MaxSlots
    BY DEF Slot
  <1>2. [s EXCEPT !.team = kept.team] \in Slot
    BY <1>1 DEF Slot
  <1>3. [s EXCEPT !.team = kept.team, !.colour = kept.colour] \in Slot
    BY <1>1, SMTT(15), ZenonT(40) DEF Slot
  <1> QED
    BY <1>2, <1>3 DEF Slot, IsHuman

LEMMA SwapSlotsInv ==
    ASSUME IInv, NEW i \in Sids, NEW j \in Sids, SwapSlots(i, j)
    PROVE  IInv'
  <1> DEFINE f == [s \in Sids |-> IF s = i THEN j ELSE IF s = j THEN i ELSE s]
  <1>1. f \in Bijection(Sids, Sids)
    <2>1. f \in [Sids -> Sids]
      OBVIOUS
    <2>2. \A s, t \in Sids : f[s] = f[t] => s = t
      OBVIOUS
    <2>3. ASSUME NEW t \in Sids PROVE \E s \in Sids : f[s] = t
      <3>1. f[t] \in Sids /\ f[f[t]] = t
        OBVIOUS
      <3> QED
        BY <3>1
    <2> HIDE DEF f
    <2>4. f \in Injection(Sids, Sids)
      BY <2>1, <2>2 DEF Injection, IsInjective
    <2>5. f \in Surjection(Sids, Sids)
      BY <2>1, <2>3 DEF Surjection
    <2> QED
      BY <2>4, <2>5 DEF Bijection
  <1>2. /\ slots[i] \in Slot /\ slots[j] \in Slot /\ i # j
        /\ slots' = Swapped(i, j) /\ Sids = DOMAIN slots
    BY InvParts DEF SwapSlots
  <1>3. ASSUME NEW s \in Sids
        PROVE  /\ slots'[s] \in Slot
               /\ slots'[s].pid = slots[f[s]].pid
               /\ IsHuman(slots'[s]) <=> IsHuman(slots[f[s]])
    <2>1. slots[s] \in Slot
      BY InvParts
    <2>2. CASE s = i
      <3> DEFINE team == [slots[j] EXCEPT !.team = slots[i].team]
                 both == [slots[j] EXCEPT !.team = slots[i].team, !.colour = slots[i].colour]
      <3>1. \/ slots'[s] = [slots[j] EXCEPT !.team = slots[i].team, !.colour = slots[i].colour]
            \/ slots'[s] = [slots[j] EXCEPT !.team = slots[i].team]
            \/ slots'[s] = slots[j]
        BY <1>2, <2>2, InvParts DEF Swapped
      <3> QED
        <4>1. /\ team \in Slot /\ team.pid = slots[j].pid
              /\ IsHuman(team) <=> IsHuman(slots[j])
              /\ both \in Slot /\ both.pid = slots[j].pid
              /\ IsHuman(both) <=> IsHuman(slots[j])
          BY <1>2, SlotMoved
        <4>2. slots'[s] = both \/ slots'[s] = team \/ slots'[s] = slots[j]
          BY <3>1
        <4>3. f[s] = j
          BY <2>2, <1>2
        <4> HIDE DEF team, both, f
        <4> QED
          BY <1>2, <4>1, <4>2, <4>3
    <2>3. CASE s = j
      <3> DEFINE team == [slots[i] EXCEPT !.team = slots[j].team]
                 both == [slots[i] EXCEPT !.team = slots[j].team, !.colour = slots[j].colour]
      <3>1. \/ slots'[s] = [slots[i] EXCEPT !.team = slots[j].team, !.colour = slots[j].colour]
            \/ slots'[s] = [slots[i] EXCEPT !.team = slots[j].team]
            \/ slots'[s] = slots[i]
        BY <1>2, <2>3, InvParts DEF Swapped
      <3> QED
        <4>1. /\ team \in Slot /\ team.pid = slots[i].pid
              /\ IsHuman(team) <=> IsHuman(slots[i])
              /\ both \in Slot /\ both.pid = slots[i].pid
              /\ IsHuman(both) <=> IsHuman(slots[i])
          BY <1>2, SlotMoved
        <4>2. slots'[s] = both \/ slots'[s] = team \/ slots'[s] = slots[i]
          BY <3>1
        <4>3. f[s] = i
          BY <2>3, <1>2
        <4> HIDE DEF team, both, f
        <4> QED
          BY <1>2, <4>1, <4>2, <4>3
    <2>4. CASE s # i /\ s # j
      <3>1. slots'[s] = slots[s]
        BY <2>4, InvParts DEF SwapSlots, Swapped
      <3> QED
        BY <2>1, <2>4, <3>1
    <2> QED
      BY <2>2, <2>3, <2>4
  <1> HIDE DEF f
  <1>4. slots' \in [Sids -> Slot]
    BY <1>3, InvParts DEF SwapSlots, Swapped
  <1>5. Seats(slots', Seated)
    BY <1>1, <1>3, <1>4, InvParts, SeatsPermuted
  <1> QED
    BY <1>4, <1>5, Rearranged DEF SwapSlots, SendSlotInfo

LEMMA ShufflePlayersInv ==
    ASSUME IInv, ShufflePlayers
    PROVE  IInv'
  <1> DEFINE seats == {s \in Sids : Human(s)}
  <1>1. PICK g \in Bijection(seats, seats) :
           slots' = [s \in Sids |->
                       IF s \in seats THEN [slots[s] EXCEPT !.pid = slots[g[s]].pid,
                                                            !.download = slots[g[s]].download]
                       ELSE slots[s]]
    BY DEF ShufflePlayers
  <1> DEFINE f == [s \in Sids |-> IF s \in seats THEN g[s] ELSE s]
  <1>2. /\ g \in [seats -> seats] /\ \A s, t \in seats : g[s] = g[t] => s = t
        /\ \A t \in seats : \E s \in seats : g[s] = t
    BY DEF Bijection, Injection, Surjection, IsInjective
  <1>3. seats \subseteq Sids /\ \A s \in Sids : IsHuman(slots[s]) <=> s \in seats
    BY DEF IsHuman, Human
  <1> HIDE DEF seats
  <1>4. f \in Bijection(Sids, Sids)
    <2>1. f \in [Sids -> Sids]
      BY <1>2, <1>3
    <2>2. \A s, t \in Sids : f[s] = f[t] => s = t
      BY <1>2, <1>3
    <2>3. \A t \in Sids : \E s \in Sids : f[s] = t
      BY <1>2, <1>3
    <2> HIDE DEF f
    <2>4. f \in Injection(Sids, Sids)
      BY <2>1, <2>2 DEF Injection, IsInjective
    <2>5. f \in Surjection(Sids, Sids)
      BY <2>1, <2>3 DEF Surjection
    <2> QED
      BY <2>4, <2>5 DEF Bijection
  <1>5. ASSUME NEW s \in Sids
        PROVE  /\ slots'[s] \in Slot
               /\ slots'[s].pid = slots[f[s]].pid
               /\ IsHuman(slots'[s]) <=> IsHuman(slots[f[s]])
    <2>1. slots[s] \in Slot /\ f[s] \in Sids /\ slots[f[s]] \in Slot
      BY <1>2, <1>3, InvParts
    <2>2. CASE s \in seats
      <3>1. f[s] = g[s] /\ f[s] \in seats
        BY <1>2, <2>2
      <3>2. slots'[s] = [slots[s] EXCEPT !.pid = slots[f[s]].pid,
                                         !.download = slots[f[s]].download]
        BY <1>1, <2>2, <3>1
      <3> HIDE DEF f
      <3>3. slots'[s] \in Slot
        <4>1. /\ slots[f[s]].pid \in 0..MaxSlots
              /\ slots[f[s]].download \in {255} \union 0..100
          BY <2>1 DEF Slot
        <4> QED
          BY <2>1, <3>2, <4>1, SMTT(15), ZenonT(40) DEF Slot
      <3>4. slots'[s].pid = slots[f[s]].pid /\ (IsHuman(slots'[s]) <=> IsHuman(slots[s]))
        BY <2>1, <3>2 DEF Slot, IsHuman
      <3> QED
        BY <1>3, <2>1, <2>2, <3>1, <3>3, <3>4
    <2>3. CASE s \notin seats
      BY <1>1, <2>1, <2>3
    <2> QED
      BY <2>2, <2>3
  <1> HIDE DEF f
  <1>6. slots' \in [Sids -> Slot]
    BY <1>1, <1>5
  <1>7. Seats(slots', Seated)
    BY <1>4, <1>5, <1>6, InvParts, SeatsPermuted
  <1> QED
    BY <1>6, <1>7, Rearranged DEF ShufflePlayers, SendSlotInfo

\* The slot a player sits in.
LEMMA MySlot ==
    ASSUME IInv, NEW pid \in Seated
    PROVE  (CHOOSE s \in SlotOf(slots, pid) : TRUE) \in Sids
  <1>1. \E s \in Sids : slots[s].pid = pid
    BY InvParts DEF Seats
  <1> QED
    BY <1>1 DEF SlotOf

\* A change of team with custom forces swaps two slots.
LEMMA Moves ==
    ASSUME IInv, NEW pid, NEW team, ChangeTeamByMoving(pid, team)
    PROVE  \E i, j \in Sids : SwapSlots(i, j)
  <1> DEFINE mine == CHOOSE s \in SlotOf(slots, pid) : TRUE
             open == {s \in Sids : slots[s].status = "open" /\ slots[s].team = team}
             after == {s \in open : slots[mine].team = team => s >= mine}
             target == Min(IF after # {} THEN after ELSE open)
  <1>1. pid \in Seated /\ open # {} /\ SwapSlots(mine, target)
    BY DEF ChangeTeamByMoving
  <1>2. mine \in Sids
    BY <1>1, MySlot
  <1>3. open \subseteq Sids /\ after \subseteq open /\ Sids \subseteq Nat
    BY InvParts
  <1> HIDE DEF mine, open, after
  <1>4. target \in Sids
    BY <1>1, <1>3, MinIn
  <1> HIDE DEF target
  <1> QED
    BY <1>1, <1>2, <1>4

LEMMA ChangeTeamByMovingInv ==
    ASSUME IInv, NEW pid, NEW team, ChangeTeamByMoving(pid, team)
    PROVE  IInv'
  <1>1. PICK i \in Sids, j \in Sids : SwapSlots(i, j)
    BY Moves
  <1> QED
    BY <1>1, SwapSlotsInv

LEMMA NewColourType == NewColour \in 0..MaxSlots
  <1> DEFINE free == {k \in 0..MaxSlots - 1 : \A s \in Sids : slots[s].colour # k}
  <1>1. free \subseteq Nat /\ free \subseteq 0..MaxSlots /\ MaxSlots \in 0..MaxSlots
    BY PidTypes
  <1>2. NewColour = IF free = {} THEN MaxSlots ELSE Min(free)
    BY DEF NewColour
  <1> HIDE DEF free
  <1> QED
    BY <1>1, <1>2, MinIn

\* A slot in a new colour, on a new team or not.
LEMMA SlotRecoloured ==
    ASSUME NEW s \in Slot, NEW t \in 0..MaxSlots, NEW c \in 0..MaxSlots
    PROVE  LET colour == [s EXCEPT !.colour = c]
               both == [s EXCEPT !.team = t, !.colour = c]
           IN  /\ colour \in Slot /\ colour.pid = s.pid /\ (IsHuman(colour) <=> IsHuman(s))
               /\ both \in Slot /\ both.pid = s.pid /\ (IsHuman(both) <=> IsHuman(s))
  <1>1. [s EXCEPT !.colour = c] \in Slot
    BY DEF Slot
  <1>2. [s EXCEPT !.team = t, !.colour = c] \in Slot
    BY DEF Slot
  <1> QED
    BY <1>1, <1>2 DEF Slot, IsHuman

LEMMA ChangeTeamInv ==
    ASSUME IInv, NEW pid, NEW team \in 0..MaxSlots, ChangeTeam(pid, team)
    PROVE  IInv'
  <1>1. ASSUME NEW s \in Sids
        PROVE  /\ slots'[s] \in Slot
               /\ slots'[s].pid = slots[s].pid /\ (IsHuman(slots'[s]) <=> IsHuman(slots[s]))
    <2> DEFINE c == TeamColour(team, slots[s].colour)
               both == [slots[s] EXCEPT !.team = team, !.colour = c]
    <2>1. slots[s] \in Slot /\ slots[s].colour \in 0..MaxSlots
      BY InvParts DEF Slot
    <2>2. c \in 0..MaxSlots
      BY <2>1, NewColourType, PidTypes DEF TeamColour, Obs
    <2>3. slots'[s] = both \/ slots'[s] = slots[s]
      BY DEF ChangeTeam
    <2> HIDE DEF c
    <2>4. both \in Slot /\ both.pid = slots[s].pid /\ (IsHuman(both) <=> IsHuman(slots[s]))
      BY <2>1, <2>2, SlotRecoloured, ZenonT(60)
    <2> HIDE DEF both
    <2> QED
      BY <2>1, <2>3, <2>4
  <1>2. slots' \in [Sids -> Slot]
    BY <1>1 DEF ChangeTeam
  <1>3. Seats(slots', Seated)
    BY <1>1, <1>2, InvParts, SeatsSame
  <1> QED
    BY <1>2, <1>3, Rearranged DEF ChangeTeam, SendSlotInfo

LEMMA ChangeColourInv ==
    ASSUME IInv, NEW pid, NEW colour \in 0..MaxSlots, ChangeColour(pid, colour)
    PROVE  IInv'
  <1> DEFINE mine == CHOOSE s \in SlotOf(slots, pid) : TRUE
  <1>1. mine \in Sids
    BY MySlot DEF ChangeColour
  <1>2. ASSUME NEW s \in Sids
        PROVE  \/ slots'[s] = slots[s]
               \/ \E c \in 0..MaxSlots : slots'[s] = [slots[s] EXCEPT !.colour = c]
    <2>1. slots[mine].colour \in 0..MaxSlots
      BY <1>1, InvParts DEF Slot
    <2> QED
      BY <2>1 DEF ChangeColour
  <1>3. ASSUME NEW s \in Sids
        PROVE  /\ slots'[s] \in Slot
               /\ slots'[s].pid = slots[s].pid /\ (IsHuman(slots'[s]) <=> IsHuman(slots[s]))
    <2>1. slots[s] \in Slot
      BY InvParts
    <2>2. CASE slots'[s] = slots[s]
      BY <2>1, <2>2
    <2>3. CASE slots'[s] # slots[s]
      <3>1. PICK c \in 0..MaxSlots : slots'[s] = [slots[s] EXCEPT !.colour = c]
        BY <1>2, <2>3
      <3> DEFINE new == [slots[s] EXCEPT !.colour = c]
      <3>2. new \in Slot /\ new.pid = slots[s].pid /\ (IsHuman(new) <=> IsHuman(slots[s]))
        BY <2>1, SlotRecoloured
      <3>3. slots'[s] = new
        BY <3>1
      <3> HIDE DEF new
      <3> QED
        BY <3>2, <3>3
    <2> QED
      BY <2>2, <2>3
  <1>4. slots' \in [Sids -> Slot]
    BY <1>3 DEF ChangeColour
  <1>5. Seats(slots', Seated)
    BY <1>3, <1>4, InvParts, SeatsSame
  <1> QED
    BY <1>4, <1>5, Rearranged DEF ChangeColour, SendSlotInfo

\* A step that leaves the slots and the PIDs alone.
LEMMA PidsUntouched ==
    ASSUME IInv, UNCHANGED <<map, slots, virtual_host_pid, started>>, Seated' = Seated,
           \A p \in Seated : players'[p] \in Player,
           countdown' \in 0..CountdownFrom \union {None}, autostart' \in Nat,
           slot_info_changed' \in BOOLEAN, shown' \in [Sids -> Slot]
    PROVE  IInv'
  <1>1. Sids' = Sids
    BY DEF Sids
  <1>2. TypeOK'
    BY <1>1 DEF IInv, TypeOK
  <1>3. Seats(slots', Seated') /\ HostPresent'
    BY DEF IInv, HostPresent
  <1> QED
    BY <1>2, <1>3 DEF IInv

LEMMA CountdownTypes ==
    /\ CountdownFrom \in 0..CountdownFrom \union {None}
    /\ None \in 0..CountdownFrom \union {None}
  BY LobbyAssumption

LEMMA MapSizeInv ==
    ASSUME IInv, NEW pid, NEW flag, NEW pct \in MapSizes, MapSize(pid, flag, pct)
    PROVE  IInv'
  <1> DEFINE complete == flag = 1 /\ pct = 100
             dropped == ~complete /\ (DownloadMode = 0 \/ ~HasMapData)
             status == DownloadStatus(pct)
  <1>1. pid \in Seated
    BY DEF MapSize
  <1>2. CASE dropped
    <2>1. Remove({pid}, Freed(slots, {pid}))
      BY <1>2 DEF MapSize
    <2> QED
      BY <1>1, <2>1, LeaveInv
  <1>3. CASE ~dropped
    <2>1. /\ \E f, s \in BOOLEAN :
                players' = [players EXCEPT ![pid] =
                              [@ EXCEPT !.finished = f, !.started = s, !.confirmed = complete]]
          /\ slots' = [s \in Sids |-> IF slots[s].pid = pid
                                      THEN [slots[s] EXCEPT !.download = status] ELSE slots[s]]
          /\ SlotInfoLater /\ MaybeAutostart
          /\ UNCHANGED <<map, autostart, virtual_host_pid, started, shown>>
      <3>1. players[pid] \in Player
        BY <1>1 DEF IInv, TypeOK
      <3> DEFINE permitted == DownloadMode # 2 \/ players[pid].allowed
                 f == players[pid].finished \/ (complete /\ players[pid].started)
                 s == players[pid].started \/ (~complete /\ permitted /\ flag = 1)
      <3>2. f \in BOOLEAN /\ s \in BOOLEAN
        BY <3>1 DEF Player
      <3>3. players' = [players EXCEPT ![pid] =
                          [@ EXCEPT !.finished = f, !.started = s, !.confirmed = complete]]
        BY <1>3 DEF MapSize
      <3> HIDE DEF f, s
      <3> QED
        BY <1>3, <3>2, <3>3 DEF MapSize
    <2>2. Seated' = Seated /\ \A p \in Seated : players'[p] \in Player
      <3>1. \A p \in Seated : players[p] \in Player
        BY DEF IInv, TypeOK
      <3>2. complete \in BOOLEAN
        OBVIOUS
      <3> HIDE DEF complete
      <3>3. PICK f \in BOOLEAN, s \in BOOLEAN :
                players' = [players EXCEPT ![pid] =
                              [@ EXCEPT !.finished = f, !.started = s, !.confirmed = complete]]
        BY <2>1
      <3>4. [players[pid] EXCEPT !.finished = f, !.started = s, !.confirmed = complete]
               \in Player
        BY <1>1, <3>1, <3>2 DEF Player
      <3>5. Seated' = Seated
        BY <3>3 DEF Seated
      <3> QED
        BY <3>1, <3>3, <3>4, <3>5 DEF Seated
    <2>3. status \in 0..100
      BY LobbyAssumption DEF DownloadStatus
    <2> HIDE DEF status
    <2>4. ASSUME NEW s \in Sids
          PROVE  /\ slots'[s] \in Slot
                 /\ slots'[s].pid = slots[s].pid /\ (IsHuman(slots'[s]) <=> IsHuman(slots[s]))
      <3> DEFINE new == [slots[s] EXCEPT !.download = status]
      <3>1. slots[s] \in Slot
        BY InvParts
      <3>2. new \in Slot
        BY <2>3, <3>1 DEF Slot
      <3>3. new.pid = slots[s].pid /\ (IsHuman(new) <=> IsHuman(slots[s]))
        BY <3>1 DEF Slot, IsHuman
      <3>4. slots'[s] = new \/ slots'[s] = slots[s]
        BY <2>1
      <3> HIDE DEF new
      <3> QED
        BY <3>1, <3>2, <3>3, <3>4
    <2>5. slots' \in [Sids -> Slot]
      BY <2>1, <2>4
    <2>6. Seats(slots', Seated')
      BY <2>2, <2>4, <2>5, InvParts, SeatsSame
    <2>7. countdown' \in 0..CountdownFrom \union {None} /\ slot_info_changed' \in BOOLEAN
      BY <2>1, CountdownTypes DEF MaybeAutostart, SlotInfoLater, IInv, TypeOK
    <2>8. HostPresent'
      BY <2>1, <2>2 DEF IInv, HostPresent
    <2>9. TypeOK'
      <3>1. Sids' = Sids
        BY <2>5 DEF Sids
      <3> QED
        BY <2>1, <2>2, <2>5, <2>7, <3>1 DEF IInv, TypeOK
    <2> QED
      BY <2>6, <2>8, <2>9 DEF IInv
  <1> QED
    BY <1>2, <1>3

LEMMA ApproveDownloadInv ==
    ASSUME IInv, NEW pid, ApproveDownload(pid)
    PROVE  IInv'
  <1>1. pid \in Seated /\ \A p \in Seated : players[p] \in Player
    BY DEF ApproveDownload, IInv, TypeOK
  <1>2. [players[pid] EXCEPT !.allowed = TRUE, !.started = TRUE] \in Player
    BY <1>1 DEF Player
  <1>3. Seated' = Seated
    BY DEF Seated, ApproveDownload
  <1>4. \A p \in Seated : players'[p] \in Player
    BY <1>1, <1>2 DEF ApproveDownload, Seated
  <1>5. UNCHANGED <<map, slots, virtual_host_pid, countdown, autostart, started,
                    slot_info_changed, shown>>
    BY DEF ApproveDownload
  <1> QED
    BY <1>3, <1>4, <1>5, PidsUntouched DEF IInv, TypeOK

\* !autostart, !start, !abort and the ticks: the countdown and what was sent.
LEMMA CountdownInv ==
    ASSUME IInv,
           \/ \E n \in 0..MaxSlots : SetAutostart(n)
           \/ StartCommand \/ AbortCommand \/ TickCountdown \/ SlotInfoTick
    PROVE  IInv'
  <1>1. UNCHANGED <<map, slots, players, virtual_host_pid, started>>
    BY DEF SetAutostart, StartCommand, AbortCommand, TickCountdown, SlotInfoTick
  <1>2. Seated' = Seated /\ \A p \in Seated : players'[p] \in Player
    BY <1>1 DEF Seated, IInv, TypeOK
  <1>3. countdown' \in 0..CountdownFrom \union {None}
    <2>1. countdown \in 0..CountdownFrom \union {None} /\ CountdownFrom \in Nat
      BY LobbyAssumption DEF IInv, TypeOK
    <2>2. CASE TickCountdown
      <3>1. countdown # None /\ countdown > 0 /\ countdown' = countdown - 1
        BY <2>2 DEF TickCountdown, CountingDown
      <3> QED
        BY <2>1, <3>1
    <2>3. CASE ~TickCountdown
      BY <2>1, <2>3, CountdownTypes
         DEF SetAutostart, MaybeAutostart, StartCommand, AbortCommand, SlotInfoTick
    <2> QED
      BY <2>2, <2>3
  <1>4. autostart' \in Nat
    BY PidTypes DEF IInv, TypeOK, SetAutostart, StartCommand, AbortCommand, TickCountdown,
                    SlotInfoTick
  <1>5. slot_info_changed' \in BOOLEAN
    BY DEF IInv, TypeOK, SetAutostart, StartCommand, AbortCommand, TickCountdown, SlotInfoTick
  <1>6. shown' \in [Sids -> Slot]
    <2>1. shown' = shown \/ shown' = slots
      BY <1>1 DEF SetAutostart, StartCommand, AbortCommand, TickCountdown, SlotInfoTick,
                  SendSlotInfo
    <2> QED
      BY <2>1, InvParts DEF IInv, TypeOK
  <1> QED
    BY <1>1, <1>2, <1>3, <1>4, <1>5, <1>6, PidsUntouched

LEMMA EventGameStartedInv ==
    ASSUME IInv, EventGameStarted
    PROVE  IInv'
  <1>1. /\ UNCHANGED <<map, slots, players, autostart, slot_info_changed>>
        /\ countdown' = None /\ started' = TRUE /\ virtual_host_pid' = NoHost /\ shown' = slots
    BY DEF EventGameStarted, SendSlotInfo
  <1>2. Sids' = Sids /\ Seated' = Seated
    BY <1>1 DEF Sids, Seated
  <1>3. HostPresent'
    BY <1>1, <1>2, PidTypes DEF IInv, TypeOK, HostPresent
  <1>4. TypeOK'
    BY <1>1, <1>2, InvParts, CountdownTypes DEF IInv, TypeOK
  <1> QED
    BY <1>1, <1>2, <1>3, <1>4 DEF IInv

LEMMA InitInv == Init => IInv
  <1> SUFFICES ASSUME Init PROVE IInv
    OBVIOUS
  <1>1. /\ map \in Maps /\ slots = map.slots /\ shown = slots /\ players = <<>>
        /\ slot_info_changed = FALSE /\ virtual_host_pid = 1
        /\ countdown = None /\ autostart = AutostartPlayers /\ started = FALSE
    BY DEF Init
  <1>2. IsGameMap(map)
    BY <1>1, LobbyAssumption
  <1>3. PICK n \in 1..MaxSlots : map.slots \in [1..n -> Slot]
    BY <1>2 DEF IsGameMap
  <1>4. Sids = 1..n /\ slots \in [Sids -> Slot] /\ Sids = DOMAIN map.slots
    BY <1>1, <1>3 DEF Sids
  <1>5. Seated = {}
    BY <1>1 DEF Seated
  <1>6. 1 \in Pids /\ 1 # NoHost
    BY PidTypes DEF Pids, NoHost
  <1>7. TypeOK
    BY <1>1, <1>4, <1>5, <1>6, CountdownTypes, LobbyAssumption DEF TypeOK
  <1>8. Seats(slots, Seated)
    <2>1. \A s \in Sids : slots[s].pid = 0 /\ ~IsHuman(slots[s])
      BY <1>1, <1>2, <1>4 DEF IsGameMap, IsHuman
    <2> QED
      BY <1>4, <1>5, <2>1 DEF Seats
  <1>9. HostPresent
    BY <1>1, <1>5, <1>6 DEF HostPresent
  <1> QED
    BY <1>7, <1>8, <1>9 DEF IInv

LEMMA NextInv == IInv /\ [Next]_vars => IInv'
  <1> SUFFICES ASSUME IInv, [Next]_vars PROVE IInv'
    OBVIOUS
  <1>1. CASE Join
    BY <1>1, JoinInv
  <1>2. ASSUME NEW pid \in Pids, Leave(pid) \/ ApproveDownload(pid) PROVE IInv'
    <2>1. CASE Leave(pid)
      BY <2>1, LeaveInv DEF Leave
    <2> QED
      BY <1>2, <2>1, ApproveDownloadInv
  <1>3. ASSUME NEW gone \in SUBSET Pids, PingKick(gone) PROVE IInv'
    BY <1>3, LeaveInv DEF PingKick
  <1>4. ASSUME NEW sid \in Sids, NEW status \in {"open", "closed"}, SetSlotOpen(sid, status)
        PROVE  IInv'
    BY <1>4, SetSlotOpenInv
  <1>5. CASE SetAllSlots("closed", "open") \/ SetAllSlots("open", "closed")
    BY <1>5, SetAllSlotsInv
  <1>6. ASSUME NEW i \in Sids, NEW j \in Sids, SwapCommand(i, j) PROVE IInv'
    BY <1>6, SwapSlotsInv DEF SwapCommand
  <1>7. CASE ShufflePlayers
    BY <1>7, ShufflePlayersInv
  <1>8. ASSUME NEW pid \in Pids, NEW team \in 0..MaxSlots,
               ChangeTeamByMoving(pid, team) \/ ChangeTeam(pid, team) \/ ChangeColour(pid, team)
        PROVE  IInv'
    BY <1>8, ChangeTeamByMovingInv, ChangeTeamInv, ChangeColourInv
  <1>9. ASSUME NEW pid \in Pids, NEW flag \in {1, 3}, NEW pct \in MapSizes,
               MapSize(pid, flag, pct)
        PROVE  IInv'
    BY <1>9, MapSizeInv
  <1>10. CASE (\E n \in 0..MaxSlots : SetAutostart(n)) \/ StartCommand \/ AbortCommand
              \/ TickCountdown \/ SlotInfoTick
    BY <1>10, CountdownInv
  <1>11. CASE EventGameStarted
    BY <1>11, EventGameStartedInv
  <1>12. CASE UNCHANGED vars
    BY <1>12 DEF vars, IInv, TypeOK, HostPresent, Sids, Seated
  <1> QED
    BY <1>1, <1>2, <1>3, <1>4, <1>5, <1>6, <1>7, <1>8, <1>9, <1>10, <1>11, <1>12 DEF Next

LEMMA Inductive == Spec => []IInv
  BY InitInv, NextInv, PTL DEF Spec

(***************************************************************************)
(* The theorems                                                            *)
(***************************************************************************)

\* Types: slots keep their positions, PIDs and download percentages their
\* ranges, and a countdown never passes below zero.
THEOREM TypeCorrect == Spec => []TypeOK
  BY Inductive, PTL DEF IInv

\* Whatever joins, leaves, kicks, swaps and commands happen in whatever order,
\* every player sits in one slot, no slot keeps the PID of somebody gone, and
\* the virtual host has a PID of its own unless players hold them all.
THEOREM PidsRight == Spec => []PidsExact
  <1>1. IInv => PidsExact
    BY InvParts, SeatsMean DEF IInv, PidsExact
  <1> QED
    BY <1>1, Inductive, PTL

(***************************************************************************)
(* Colours                                                                 *)
(***************************************************************************)

\* Whether the slots of a map have playing colours of their own, which is for
\* the map's author to see to.
MapFits(m) ==
    /\ \A s, t \in DOMAIN m.slots :
          m.slots[s].colour = m.slots[t].colour /\ m.slots[s].colour # Obs => s = t
    /\ ~m.forces => \A s \in DOMAIN m.slots : m.slots[s].team = Obs <=> m.slots[s].colour = Obs

\* What ColoursFit says of a step's slots, whose positions are as before.
LEMMA ColoursNow ==
    ASSUME IInv, IInv', map' = map
    PROVE  /\ Sids' = Sids
           /\ (/\ \A s, t \in Sids : slots'[s].colour = slots'[t].colour
                                        /\ slots'[s].colour # Obs => s = t
               /\ ~map.forces =>
                     \A s \in Sids : slots'[s].team = Obs <=> slots'[s].colour = Obs)
              => ColoursFit'
  <1>1. Sids' = Sids
    BY DEF IInv, TypeOK
  <1> QED
    BY <1>1 DEF ColoursFit

\* No slot changes its looks.
LEMMA LooksSame ==
    ASSUME IInv, IInv', map' = map, ColoursFit,
           \A s \in Sids : slots'[s].team = slots[s].team /\ slots'[s].colour = slots[s].colour
    PROVE  ColoursFit'
  BY ColoursNow DEF ColoursFit

LEMMA LooksTaken ==
    ASSUME NEW s \in Slot, NEW pid
    PROVE  LET t == [s EXCEPT !.pid = pid, !.status = "occupied", !.computer = FALSE,
                              !.download = 255]
           IN  t.team = s.team /\ t.colour = s.colour
  BY DEF Slot

LEMMA LooksFreed ==
    ASSUME IInv, NEW gone, NEW s \in Sids
    PROVE  /\ Freed(slots, gone)[s].team = slots[s].team
           /\ Freed(slots, gone)[s].colour = slots[s].colour
  <1>1. slots[s] \in Slot
    BY InvParts
  <1> QED
    BY <1>1 DEF Freed, Slot

LEMMA SwapSlotsFits ==
    ASSUME IInv, IInv', ColoursFit, NEW i \in Sids, NEW j \in Sids, SwapSlots(i, j)
    PROVE  ColoursFit'
  <1>1. /\ slots[i] \in Slot /\ slots[j] \in Slot /\ i # j /\ slots' = Swapped(i, j)
        /\ Sids = DOMAIN slots /\ map' = map
    BY InvParts DEF SwapSlots
  <1>2. \A s \in Sids \ {i, j} : slots'[s] = slots[s]
    BY <1>1 DEF Swapped
  <1>3. CASE map.fixed
    <2>1. /\ slots'[i] = [slots[j] EXCEPT !.team = slots[i].team, !.colour = slots[i].colour]
          /\ slots'[j] = [slots[i] EXCEPT !.team = slots[j].team, !.colour = slots[j].colour]
      BY <1>1, <1>3 DEF Swapped
    <2>2. /\ slots'[i].team = slots[i].team /\ slots'[i].colour = slots[i].colour
          /\ slots'[j].team = slots[j].team /\ slots'[j].colour = slots[j].colour
      BY <1>1, <2>1 DEF Slot
    <2>3. \A s \in Sids : slots'[s].team = slots[s].team /\ slots'[s].colour = slots[s].colour
      BY <1>2, <2>2
    <2> QED
      BY <1>1, <2>3, LooksSame
  <1>4. CASE ~map.fixed
    <2>1. \/ /\ map.forces
             /\ slots'[i] = [slots[j] EXCEPT !.team = slots[i].team]
             /\ slots'[j] = [slots[i] EXCEPT !.team = slots[j].team]
          \/ ~map.forces /\ slots'[i] = slots[j] /\ slots'[j] = slots[i]
      BY <1>1, <1>4 DEF Swapped
    <2>2. /\ slots'[i].colour = slots[j].colour /\ slots'[j].colour = slots[i].colour
          /\ ~map.forces => slots'[i].team = slots[j].team /\ slots'[j].team = slots[i].team
      BY <1>1, <2>1 DEF Slot
    <2>3. \A s, t \in Sids : slots'[s].colour = slots'[t].colour
                                /\ slots'[s].colour # Obs => s = t
      BY <1>1, <1>2, <2>2 DEF ColoursFit
    <2>4. ~map.forces => \A s \in Sids : slots'[s].team = Obs <=> slots'[s].colour = Obs
      BY <1>1, <1>2, <2>2 DEF ColoursFit
    <2> QED
      BY <1>1, <2>3, <2>4, ColoursNow
  <1> QED
    BY <1>3, <1>4

\* Who stops observing finds a colour: the slots are not more than the colours,
\* and one of them has none.
LEMMA NewColourFree ==
    ASSUME IInv, NEW mine \in Sids, slots[mine].colour = Obs
    PROVE  /\ NewColour \in 0..MaxSlots - 1
           /\ \A s \in Sids : slots[s].colour # NewColour
  <1> DEFINE colours == 0..MaxSlots - 1
             free == {k \in colours : \A s \in Sids : slots[s].colour # k}
             others == Sids \ {mine}
             f == [k \in colours |-> CHOOSE s \in others : slots[s].colour = k]
  <1>1. free \subseteq Nat /\ NewColour = IF free = {} THEN MaxSlots ELSE Min(free)
    BY DEF NewColour
  <1>2. free # {}
    <2>1. SUFFICES ASSUME free = {} PROVE FALSE
      OBVIOUS
    <2>2. /\ IsFiniteSet(colours) /\ Cardinality(colours) = MaxSlots
          /\ IsFiniteSet(others) /\ Cardinality(others) < MaxSlots
      <3>1. MaxSlots \in Nat \ {0}
        BY PidTypes
      <3>2. IsFiniteSet(colours) /\ Cardinality(colours) = MaxSlots
        BY <3>1, FS_Interval
      <3>3. PICK n \in 1..MaxSlots : Sids = 1..n
        <4>1. map \in Maps /\ Sids = DOMAIN map.slots /\ IsGameMap(map)
          BY LobbyAssumption DEF IInv, TypeOK
        <4> QED
          BY <4>1 DEF IsGameMap
      <3>4. IsFiniteSet(Sids) /\ Cardinality(Sids) = n
        BY <3>1, <3>3, FS_Interval
      <3>5. IsFiniteSet(others) /\ Cardinality(others) = Cardinality(Sids) - 1
        BY <3>4, FS_RemoveElement
      <3> QED
        BY <3>1, <3>2, <3>3, <3>4, <3>5
    <2>3. ASSUME NEW k \in colours PROVE f[k] \in others /\ slots[f[k]].colour = k
      <3>1. PICK s \in Sids : slots[s].colour = k
        BY <2>1
      <3>2. s # mine
        BY <3>1, PidTypes DEF Obs
      <3> QED
        BY <3>1, <3>2
    <2>4. f \in [colours -> others]
      BY <2>3
    <2> HIDE DEF colours, others, f
    <2>5. PICK k \in colours, l \in colours : k # l /\ f[k] = f[l]
      BY <2>2, <2>4, FS_PigeonHole
    <2> QED
      BY <2>3, <2>5
  <1>3. NewColour \in free
    BY <1>1, <1>2, MinIn
  <1> QED
    BY <1>3

LEMMA ChangeTeamFits ==
    ASSUME IInv, IInv', ColoursFit, NEW pid, NEW team \in 0..MaxSlots, ChangeTeam(pid, team)
    PROVE  ColoursFit'
  <1>1. /\ pid \in Seated /\ ~map.forces /\ map' = map
        /\ slots' = [s \in Sids |->
              IF slots[s].pid # pid THEN slots[s]
              ELSE [slots[s] EXCEPT !.team = team, !.colour = TeamColour(team, @)]]
    BY DEF ChangeTeam
  <1>2. pid # 0
    BY <1>1, InvParts
  <1>3. PICK mine \in Sids : slots[mine].pid = pid /\ \A s \in Sids : slots[s].pid = pid => s = mine
    <2>1. Seats(slots, Seated) /\ Sids = DOMAIN slots
      BY InvParts
    <2>2. \A p \in Seated : \E s \in Sids : slots[s].pid = p
      BY <2>1 DEF Seats
    <2>3. \A s, t \in Sids : slots[s].pid = slots[t].pid /\ slots[s].pid # 0 => s = t
      BY <2>1 DEF Seats
    <2>4. pid \in Seated
      BY <1>1
    <2> QED
      BY <1>2, <2>2, <2>3, <2>4
  <1> DEFINE c == TeamColour(team, slots[mine].colour)
  <1>4. slots'[mine].team = team /\ slots'[mine].colour = c
    <2>1. slots[mine] \in Slot
      BY InvParts
    <2>2. slots'[mine] = [slots[mine] EXCEPT !.team = team, !.colour = c]
      BY <1>1, <1>3
    <2> HIDE DEF c
    <2> QED
      BY <2>1, <2>2 DEF Slot
  <1>5. \A s \in Sids \ {mine} : slots'[s] = slots[s]
    BY <1>1, <1>3
  <1>6. c = Obs <=> team = Obs
    BY NewColourFree, PidTypes DEF TeamColour, Obs
  <1>7. c # Obs => \A s \in Sids \ {mine} : slots[s].colour # c
    <2>1. CASE team # Obs /\ slots[mine].colour = Obs
      <3>1. c = NewColour
        BY <2>1 DEF TeamColour
      <3> QED
        BY <2>1, <3>1, NewColourFree
    <2>2. CASE team # Obs /\ slots[mine].colour # Obs
      <3>1. c = slots[mine].colour
        BY <2>2 DEF TeamColour
      <3> QED
        BY <2>2, <3>1 DEF ColoursFit
    <2> QED
      BY <1>6, <2>1, <2>2
  <1> HIDE DEF c
  <1>8. \A s, t \in Sids : slots'[s].colour = slots'[t].colour
                              /\ slots'[s].colour # Obs => s = t
    BY <1>4, <1>5, <1>7 DEF ColoursFit
  <1>9. \A s \in Sids : slots'[s].team = Obs <=> slots'[s].colour = Obs
    BY <1>1, <1>4, <1>5, <1>6, SMTT(15), ZenonT(40) DEF ColoursFit
  <1> QED
    BY <1>1, <1>8, <1>9, ColoursNow

LEMMA ChangeColourFits ==
    ASSUME IInv, IInv', ColoursFit, NEW pid, NEW colour \in 0..MaxSlots,
           ChangeColour(pid, colour)
    PROVE  ColoursFit'
  <1> DEFINE mine == CHOOSE s \in SlotOf(slots, pid) : TRUE
             holders == {s \in Sids : slots[s].colour = colour}
             holder == Min(holders)
  <1>1. /\ pid \in Seated /\ map' = map /\ colour < MaxSlots /\ slots[mine].team # Obs
        /\ slots' = [s \in Sids |->
              IF s = mine THEN [slots[s] EXCEPT !.colour = colour]
              ELSE IF holders # {} /\ s = holder
                   THEN [slots[s] EXCEPT !.colour = slots[mine].colour]
              ELSE slots[s]]
    BY DEF ChangeColour
  <1>2. mine \in Sids /\ \A s \in Sids : slots[s] \in Slot
    BY <1>1, MySlot, InvParts
  <1>3. colour # Obs
    BY <1>1, PidTypes DEF Obs
  <1>4. CASE holders = {}
    <2>1. slots'[mine].colour = colour /\ slots'[mine].team = slots[mine].team
      <3>1. slots'[mine] = [slots[mine] EXCEPT !.colour = colour]
        BY <1>1, <1>2
      <3> HIDE DEF mine
      <3> QED
        BY <1>2, <3>1 DEF Slot
    <2>2. \A s \in Sids \ {mine} : slots'[s] = slots[s] /\ slots[s].colour # colour
      BY <1>1, <1>4
    <2> HIDE DEF mine, holders
    <2>3. \A s, t \in Sids : slots'[s].colour = slots'[t].colour
                                /\ slots'[s].colour # Obs => s = t
      BY <2>1, <2>2 DEF ColoursFit
    <2>4. ~map.forces => \A s \in Sids : slots'[s].team = Obs <=> slots'[s].colour = Obs
      BY <1>1, <1>3, <2>1, <2>2, SMTT(15), ZenonT(40) DEF ColoursFit
    <2> QED
      BY <1>1, <2>3, <2>4, ColoursNow
  <1>5. CASE holders # {}
    <2>1. holders \subseteq Nat
      BY InvParts
    <2> HIDE DEF mine
    <2>2. holder \in Sids /\ slots[holder].colour = colour
      <3>1. holder \in holders
        BY <1>5, <2>1, MinIn
      <3> QED
        BY <3>1
    <2> HIDE DEF holder, holders
    <2>3. \A s \in Sids : slots[s].colour = colour => s = holder
      BY <1>3, <2>2 DEF ColoursFit
    <2>4. slots'[mine].colour = colour /\ slots'[mine].team = slots[mine].team
      <3>1. slots'[mine] = [slots[mine] EXCEPT !.colour = colour]
        BY <1>1, <1>2
      <3> QED
        BY <1>2, <3>1 DEF Slot
    <2>5. CASE holder = mine
      <3>1. \A s \in Sids : slots'[s].team = slots[s].team /\ slots'[s].colour = slots[s].colour
        BY <1>1, <1>2, <2>2, <2>4, <2>5
      <3> QED
        BY <1>1, <3>1, LooksSame
    <2>6. CASE holder # mine
      <3>1. slots'[holder].colour = slots[mine].colour /\ slots'[holder].team = slots[holder].team
        <4>1. slots'[holder] = [slots[holder] EXCEPT !.colour = slots[mine].colour]
          BY <1>1, <1>5, <2>2, <2>6
        <4> QED
          BY <1>2, <2>2, <4>1 DEF Slot
      <3>2. \A s \in Sids \ {mine, holder} : slots'[s] = slots[s]
        BY <1>1
      <3>3. \A s, t \in Sids : slots'[s].colour = slots'[t].colour
                                  /\ slots'[s].colour # Obs => s = t
        BY <1>2, <2>2, <2>3, <2>4, <2>6, <3>1, <3>2 DEF ColoursFit
      <3>4. ~map.forces => \A s \in Sids : slots'[s].team = Obs <=> slots'[s].colour = Obs
        BY <1>1, <1>2, <1>3, <2>2, <2>4, <3>1, <3>2 DEF ColoursFit
      <3> QED
        BY <1>1, <3>3, <3>4, ColoursNow
    <2> QED
      BY <2>5, <2>6
  <1> QED
    BY <1>4, <1>5

LEMMA ColoursNext == IInv /\ IInv' /\ ColoursFit /\ [Next]_vars => ColoursFit'
  <1> SUFFICES ASSUME IInv, IInv', ColoursFit, [Next]_vars PROVE ColoursFit'
    OBVIOUS
  <1> DEFINE Looks == \A s \in Sids : slots'[s].team = slots[s].team
                                      /\ slots'[s].colour = slots[s].colour
  <1>0. /\ slots \in [Sids -> Slot] /\ Sids = DOMAIN slots
        /\ \A s \in Sids : slots[s] \in Slot
    BY InvParts
  <1>1. CASE Join
    <2> DEFINE k == Min(OpenSlots)
               taken(pid) == [slots[k] EXCEPT !.pid = pid, !.status = "occupied",
                                              !.computer = FALSE, !.download = 255]
    <2>1. slots' = slots \/ \E pid : slots' = [slots EXCEPT ![k] = taken(pid)]
      BY <1>1 DEF Join
    <2>2. k \in Sids
      <3>1. OpenSlots # {} /\ OpenSlots \subseteq Nat /\ OpenSlots \subseteq Sids
        BY <1>1, InvParts DEF Join, OpenSlots
      <3> QED
        BY <3>1, MinIn
    <2>3. \A pid : taken(pid).team = slots[k].team /\ taken(pid).colour = slots[k].colour
      BY <1>0, <2>2, LooksTaken
    <2> HIDE DEF k, taken
    <2>4. Looks
      BY <1>0, <2>1, <2>2, <2>3
    <2> QED
      BY <1>1, <2>4, LooksSame DEF Join
  <1>2. ASSUME NEW gone, Remove(gone, Freed(slots, gone)) PROVE ColoursFit'
    <2>1. slots' = Freed(slots, gone) /\ map' = map
      BY <1>2 DEF Remove
    <2> QED
      BY <2>1, LooksFreed, LooksSame
  <1>3. ASSUME NEW pid, ApproveDownload(pid) PROVE ColoursFit'
    BY <1>3, LooksSame DEF ApproveDownload
  <1>4. ASSUME NEW sid \in Sids, NEW status \in {"open", "closed"}, SetSlotOpen(sid, status)
        PROVE  ColoursFit'
    <2> DEFINE gone == {slots[sid].pid}
               freed == Freed(slots, gone)
    <2>1. map' = map /\ (slots' = Reset(slots, sid, status) \/ slots' = Reset(freed, sid, status))
      <3>1. map' = map
        BY <1>4 DEF SetSlotOpen, Remove
      <3>2. slots' = Reset(slots, sid, status) \/ slots' = Reset(freed, sid, status)
        BY <1>4 DEF SetSlotOpen, Remove
      <3> QED
        BY <3>1, <3>2
    <2>2. freed \in [Sids -> Slot]
      BY <1>0, SlotFreed, ZenonT(60) DEF Freed
    <2>3. \A s \in Sids : freed[s].team = slots[s].team /\ freed[s].colour = slots[s].colour
      BY LooksFreed
    <2> HIDE DEF freed
    <2>4. ASSUME NEW ss \in [Sids -> Slot], NEW s \in Sids
          PROVE  /\ Reset(ss, sid, status)[s].team = ss[s].team
                 /\ Reset(ss, sid, status)[s].colour = ss[s].colour
      <3>1. ss[s] \in Slot
        OBVIOUS
      <3> QED
        BY <3>1 DEF Reset, Slot
    <2>5. Looks
      BY <1>0, <2>1, <2>2, <2>3, <2>4
    <2> QED
      BY <2>1, <2>5, LooksSame
  <1>5. ASSUME NEW from, NEW status \in {"open", "closed"}, SetAllSlots(from, status)
        PROVE  ColoursFit'
    <2>1. map' = map /\ \A s \in Sids : \/ slots'[s] = slots[s]
                                        \/ slots'[s] = Reset(slots, s, status)[s]
      BY <1>5 DEF SetAllSlots
    <2>2. ASSUME NEW s \in Sids
          PROVE  /\ Reset(slots, s, status)[s].team = slots[s].team
                 /\ Reset(slots, s, status)[s].colour = slots[s].colour
      <3>1. slots[s] \in Slot
        BY <1>0
      <3> QED
        BY <1>0, <3>1, SMTT(15), ZenonT(40) DEF Reset, Slot
    <2>3. Looks
      BY <2>1, <2>2
    <2> QED
      BY <2>1, <2>3, LooksSame
  <1>6. ASSUME NEW i \in Sids, NEW j \in Sids, SwapCommand(i, j) PROVE ColoursFit'
    BY <1>6, SwapSlotsFits DEF SwapCommand
  <1>7. CASE ShufflePlayers
    <2>1. map' = map /\ \A s \in Sids :
             \/ slots'[s] = slots[s]
             \/ \E p, d : slots'[s] = [slots[s] EXCEPT !.pid = p, !.download = d]
      BY <1>7 DEF ShufflePlayers
    <2>2. ASSUME NEW s \in Sids
          PROVE  slots'[s].team = slots[s].team /\ slots'[s].colour = slots[s].colour
      <3>1. CASE slots'[s] = slots[s]
        BY <3>1
      <3>2. ASSUME NEW p, NEW d, slots'[s] = [slots[s] EXCEPT !.pid = p, !.download = d]
            PROVE  slots'[s].team = slots[s].team /\ slots'[s].colour = slots[s].colour
        BY <1>0, <3>2 DEF Slot
      <3> QED
        BY <2>1, <3>1, <3>2
    <2> QED
      BY <2>1, <2>2, LooksSame
  <1>8. ASSUME NEW pid \in Pids, NEW team \in 0..MaxSlots, ChangeTeamByMoving(pid, team)
        PROVE  ColoursFit'
    <2>1. PICK i \in Sids, j \in Sids : SwapSlots(i, j)
      BY <1>8, Moves
    <2> QED
      BY <2>1, SwapSlotsFits
  <1>9. ASSUME NEW pid \in Pids, NEW team \in 0..MaxSlots,
               ChangeTeam(pid, team) \/ ChangeColour(pid, team)
        PROVE  ColoursFit'
    BY <1>9, ChangeTeamFits, ChangeColourFits
  <1>10. ASSUME NEW pid, NEW flag, NEW pct, MapSize(pid, flag, pct) PROVE ColoursFit'
    <2>1. CASE Remove({pid}, Freed(slots, {pid}))
      BY <1>2, <2>1
    <2>2. CASE ~Remove({pid}, Freed(slots, {pid}))
      <3>1. map' = map /\ slots' = [s \in Sids |-> IF slots[s].pid = pid
                              THEN [slots[s] EXCEPT !.download = DownloadStatus(pct)] ELSE slots[s]]
        BY <1>10, <2>2 DEF MapSize
      <3>2. Looks
        BY <1>0, <3>1 DEF Slot
      <3> QED
        BY <3>1, <3>2, LooksSame
    <2> QED
      BY <2>1, <2>2
  <1>11. CASE \/ \E n \in 0..MaxSlots : SetAutostart(n)
              \/ StartCommand \/ AbortCommand \/ TickCountdown \/ EventGameStarted
              \/ SlotInfoTick \/ UNCHANGED vars
    <2>1. UNCHANGED <<map, slots>>
      BY <1>11 DEF SetAutostart, StartCommand, AbortCommand, TickCountdown, EventGameStarted,
                   SlotInfoTick, vars
    <2> QED
      BY <2>1, LooksSame
  <1> QED
    BY <1>1, <1>2, <1>3, <1>4, <1>5, <1>6, <1>7, <1>8, <1>9, <1>10, <1>11
       DEF Next, Leave, PingKick

\* On maps whose slots have playing colours of their own no two players ever
\* get one colour, whatever they and the admin change, and an observer who
\* wants to play always finds a colour.
THEOREM ColoursStayFit ==
    ASSUME \A m \in Maps : MapFits(m)
    PROVE  Spec => []ColoursFit
  <1>1. Init => ColoursFit
    <2>1. SUFFICES ASSUME Init PROVE ColoursFit
      OBVIOUS
    <2>2. map \in Maps /\ slots = map.slots /\ MapFits(map)
      BY <2>1 DEF Init
    <2> QED
      BY <2>2 DEF MapFits, ColoursFit, Sids
  <1>2. IInv /\ IInv' /\ ColoursFit /\ [Next]_vars => ColoursFit'
    BY ColoursNext
  <1> QED
    BY <1>1, <1>2, Inductive, PTL DEF Spec

(***************************************************************************)
(* Clients and countdown                                                   *)
(***************************************************************************)

\* Whatever changes slots sends them or leaves word for the tick.
THEOREM SlotsShown == Spec => []ClientsShown
  <1>1. Init => ClientsShown
    BY DEF Init, ClientsShown
  <1>2. ClientsShown /\ [Next]_vars => ClientsShown'
    <2> SUFFICES ASSUME ClientsShown, [Next]_vars PROVE ClientsShown'
      OBVIOUS
    <2>1. CASE Join
      BY <2>1 DEF ClientsShown, Join, SendSlotInfo
    <2>2. ASSUME NEW gone, NEW left, Remove(gone, left) PROVE ClientsShown'
      BY <2>2 DEF ClientsShown, Remove, SendSlotInfo
    <2>3. ASSUME NEW sid, NEW status, SetSlotOpen(sid, status) PROVE ClientsShown'
      BY <2>2, <2>3 DEF ClientsShown, SetSlotOpen, SendSlotInfo
    <2>4. ASSUME NEW from, NEW status, SetAllSlots(from, status) PROVE ClientsShown'
      BY <2>4 DEF ClientsShown, SetAllSlots, SendSlotInfo
    <2>5. ASSUME NEW i, NEW j, SwapSlots(i, j) PROVE ClientsShown'
      BY <2>5 DEF ClientsShown, SwapSlots, SendSlotInfo
    <2>6. CASE ShufflePlayers
      BY <2>6 DEF ClientsShown, ShufflePlayers, SendSlotInfo
    <2>7. ASSUME NEW pid, NEW team,
                 ChangeTeamByMoving(pid, team) \/ ChangeTeam(pid, team) \/ ChangeColour(pid, team)
          PROVE  ClientsShown'
      <3>1. (\E i, j : SwapSlots(i, j)) \/ shown' = slots'
        BY <2>7 DEF ChangeTeamByMoving, ChangeTeam, ChangeColour, SendSlotInfo
      <3> QED
        BY <2>5, <3>1 DEF ClientsShown
    <2>8. ASSUME NEW pid, NEW flag, NEW pct, MapSize(pid, flag, pct) PROVE ClientsShown'
      <3>1. \/ Remove({pid}, Freed(slots, {pid}))
            \/ SlotInfoLater /\ UNCHANGED <<started, shown>>
        BY <2>8 DEF MapSize
      <3> QED
        BY <2>2, <3>1 DEF ClientsShown, SlotInfoLater
    <2>9. CASE SlotInfoTick \/ EventGameStarted
      BY <2>9 DEF ClientsShown, SlotInfoTick, EventGameStarted, SendSlotInfo
    <2>10. CASE \/ \E pid \in Pids : ApproveDownload(pid)
                \/ \E n \in 0..MaxSlots : SetAutostart(n)
                \/ StartCommand \/ AbortCommand \/ TickCountdown \/ UNCHANGED vars
      BY <2>10 DEF ClientsShown, ApproveDownload, SetAutostart, StartCommand, AbortCommand,
                   TickCountdown, vars
    <2> QED
      BY <2>1, <2>2, <2>3, <2>4, <2>5, <2>6, <2>7, <2>8, <2>9, <2>10
         DEF Next, Leave, PingKick, SwapCommand
  <1> QED
    BY <1>1, <1>2, PTL DEF Spec

\* A countdown is over once the game has started.
CountdownInLobby == started => countdown = None

LEMMA CountdownStep ==
    ASSUME CountdownInLobby, [Next]_vars
    PROVE  /\ CountdownInLobby'
           /\ \/ Seated' = Seated
              \/ \E pid : Seated' = Seated \union {pid}
              \/ countdown' = None /\ started' = started
  <1> DEFINE Goal == /\ CountdownInLobby'
                     /\ \/ Seated' = Seated
                        \/ \E pid : Seated' = Seated \union {pid}
                        \/ countdown' = None /\ started' = started
  <1> SUFFICES Goal
    OBVIOUS
  <1>1. CASE Join
    <2>1. players' = players \/ \E pid : DOMAIN players' = Seated \union {pid}
      BY <1>1 DEF Join
    <2> QED
      BY <1>1, <2>1 DEF Join, CountdownInLobby, Seated
  <1>2. ASSUME NEW gone, NEW left, Remove(gone, left) PROVE Goal
    BY <1>2 DEF Remove, CancelCountdown, CountdownInLobby
  <1>3. ASSUME UNCHANGED <<players, countdown, started>> PROVE Goal
    BY <1>3 DEF CountdownInLobby, Seated
  <1>4. ASSUME NEW sid, NEW status, SetSlotOpen(sid, status) PROVE Goal
    BY <1>2, <1>3, <1>4 DEF SetSlotOpen
  <1>5. ASSUME NEW pid, NEW team,
               ChangeTeamByMoving(pid, team) \/ ChangeTeam(pid, team) \/ ChangeColour(pid, team)
        PROVE  Goal
    BY <1>3, <1>5 DEF ChangeTeamByMoving, SwapSlots, ChangeTeam, ChangeColour
  <1>6. ASSUME NEW pid, NEW flag, NEW pct, MapSize(pid, flag, pct) PROVE Goal
    <2>1. CASE Remove({pid}, Freed(slots, {pid}))
      BY <1>2, <2>1
    <2>2. CASE ~Remove({pid}, Freed(slots, {pid}))
      <3>1. ~started /\ started' = started /\ DOMAIN players' = DOMAIN players
        BY <1>6, <2>2 DEF MapSize
      <3> QED
        BY <3>1 DEF CountdownInLobby, Seated
    <2> QED
      BY <2>1, <2>2
  <1>7. ASSUME NEW pid, ApproveDownload(pid) PROVE Goal
    BY <1>7 DEF ApproveDownload, CountdownInLobby, Seated
  <1>8. ASSUME NEW n, SetAutostart(n) PROVE Goal
    BY <1>8 DEF SetAutostart, MaybeAutostart, CountdownStarts, CountdownInLobby, Seated
  <1>9. CASE StartCommand \/ AbortCommand \/ TickCountdown \/ EventGameStarted
    BY <1>9 DEF StartCommand, AbortCommand, TickCountdown, EventGameStarted, CountdownStarts,
                CountingDown, CountdownInLobby, Seated
  <1>10. CASE \/ \E from, status : SetAllSlots(from, status)
              \/ \E i, j : SwapCommand(i, j)
              \/ ShufflePlayers \/ SlotInfoTick \/ UNCHANGED vars
    BY <1>3, <1>10 DEF SetAllSlots, SwapCommand, SwapSlots, ShufflePlayers, SlotInfoTick, vars
  <1> QED
    BY <1>1, <1>2, <1>4, <1>5, <1>6, <1>7, <1>8, <1>9, <1>10 DEF Next, Leave, PingKick

\* Whoever goes takes the countdown with them: a step that keeps a countdown
\* or starts the game keeps all players.
THEOREM NobodyTakenAlong == Spec => CountdownIntact
  <1>1. Init => CountdownInLobby
    BY DEF Init, CountdownInLobby
  <1>2. CountdownInLobby /\ [Next]_vars
           => [countdown # None /\ (countdown' # None \/ started')
                 => Seated \subseteq DOMAIN players']_vars
    <2> SUFFICES ASSUME CountdownInLobby, [Next]_vars, countdown # None,
                        countdown' # None \/ started'
                 PROVE  Seated \subseteq DOMAIN players'
      OBVIOUS
    <2>1. ~started
      BY DEF CountdownInLobby
    <2> QED
      BY <2>1, CountdownStep DEF Seated
  <1>3. CountdownInLobby /\ [Next]_vars => CountdownInLobby'
    BY CountdownStep
  <1> QED
    BY <1>1, <1>2, <1>3, PTL DEF Spec, CountdownIntact
=============================================================================
