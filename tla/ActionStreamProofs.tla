-------------------------- MODULE ActionStreamProofs --------------------------
(***************************************************************************)
(* That every client and the replay are on the same stream, that the       *)
(* checksum queues stay aligned with the turns, that nobody is dropped     *)
(* unless a game did diverge, and that no majority ever is: for any        *)
(* players, any of them behind GProxy++, any number of beats, actions,     *)
(* leaves, spare keepalives and games that diverge.                        *)
(*                                                                         *)
(* The inductive invariant is AInv: the properties, that nobody played or  *)
(* was compared before all had loaded (Early), that what was compared was  *)
(* played and what was played was handed (Turns), that the comparison runs *)
(* only while everybody has a turn waiting (Compares), and that a game     *)
(* that diverged is counted (Faulty).                                      *)
(***************************************************************************)
EXTENDS ActionStream, FiniteSetTheorems, SequenceTheorems, WellFoundedInduction, TLAPS

\* An action in the queue, and what the host sends: a piece of the queue, an
\* empty batch, or who left.
Action == [pid : Pids, len : Lengths]
Packet == [kind : {"part", "beat", "empty", "left"}, acts : Seq(Action) \union Seq(Pids)]

(***************************************************************************)
(* Counting up                                                             *)
(***************************************************************************)

\* What is in a set of numbers has a smallest one.
LEMMA Smallest ==
    ASSUME NEW S \in SUBSET Nat, S # {}
    PROVE  \E x \in S : \A y \in S : x <= y
  <1>1. PICK x \in S : \A y \in S : ~ (<<y, x>> \in OpToRel(<, Nat))
    BY WFMin, NatLessThanWellFounded
  <1>2. ASSUME NEW y \in S PROVE x <= y
    <2>1. x \in Nat /\ y \in Nat
      OBVIOUS
    <2>2. y < x => <<y, x>> \in OpToRel(<, Nat)
      BY <2>1 DEF OpToRel
    <2>3. ~(y < x)
      BY <1>1, <2>2
    <2> QED BY <2>1, <2>3
  <1> QED BY <1>2

\* A set with 0 and with every number after one of its own has all numbers.
LEMMA CountUp ==
    ASSUME NEW n \in Nat, NEW S, 0 \in S, \A i \in 1..n : i - 1 \in S => i \in S
    PROVE  0..n \subseteq S
  <1> SUFFICES ASSUME (0..n) \ S # {} PROVE FALSE
    OBVIOUS
  <1>1. PICK m \in (0..n) \ S : \A y \in (0..n) \ S : m <= y
    <2>1. (0..n) \ S \in SUBSET Nat
      OBVIOUS
    <2> QED BY <2>1, Smallest
  <1>2. m \in 1..n /\ m - 1 \in 0..n /\ ~(m <= m - 1)
    BY <1>1
  <1> QED BY <1>1, <1>2

\* f starts with first, and each value of it is the next of the one before.
Steps(f, n, first, next) == f[0] = first /\ \A i \in 1..n : f[i] = next[<<i, f[i - 1]>>]

\* A function may be given so.
LEMMA Recursion ==
    ASSUME NEW n \in Nat, NEW V, NEW first \in V, NEW next \in [(1..n) \X V -> V]
    PROVE  \E f \in [0..n -> V] : Steps(f, n, first, next)
  <1> DEFINE Good(k, f) == Steps(f, k, first, next)
             S == {k \in 0..n : \E f \in [0..k -> V] : Good(k, f)}
  <1>1. 0 \in S
    <2> DEFINE f == [i \in 0..0 |-> first]
    <2>1. f \in [0..0 -> V] /\ Good(0, f)
      BY DEF Steps
    <2> HIDE DEF f, Good
    <2> QED BY <2>1
  <1>2. ASSUME NEW k \in 1..n, k - 1 \in S PROVE k \in S
    <2>1. PICK f \in [0..k - 1 -> V] : Good(k - 1, f)
      BY <1>2
    <2> DEFINE e == next[<<k, f[k - 1]>>]
               g == [i \in 0..k |-> IF i = k THEN e ELSE f[i]]
    <2>2. k - 1 \in 0..k - 1 /\ k \in Nat /\ k # 0
      OBVIOUS
    <2>3. e \in V
      BY <2>1, <2>2
    <2>4. \A i \in 0..k - 1 : g[i] = f[i]
      BY <2>2
    <2>5. g[k] = e /\ g \in [0..k -> V]
      BY <2>1, <2>2, <2>3
    <2> HIDE DEF g
    <2>6. g[0] = first
      BY <2>1, <2>2, <2>4 DEF Steps
    <2>7. ASSUME NEW i \in 1..k PROVE g[i] = next[<<i, g[i - 1]>>]
      <3>1. CASE i = k
        BY <2>2, <2>4, <2>5, <3>1
      <3>2. CASE i # k
        <4>1. i \in 1..k - 1 /\ i \in 0..k - 1 /\ i - 1 \in 0..k - 1
          BY <2>2, <3>2
        <4> QED BY <2>1, <2>4, <4>1 DEF Steps
      <3> QED BY <3>1, <3>2
    <2>8. Good(k, g)
      BY <2>6, <2>7 DEF Steps
    <2> HIDE DEF Good
    <2> QED BY <2>5, <2>8
  <1>3. 0..n \subseteq S
    <2> HIDE DEF S
    <2> QED BY <1>1, <1>2, CountUp
  <1>4. PICK f \in [0..n -> V] : Good(n, f)
    <2> HIDE DEF Good
    <2> QED BY <1>3
  <1> QED BY <1>4

\* Where every step keeps to V the function ends in V.
LEMMA Reached ==
    ASSUME NEW n \in Nat, NEW V, NEW f, f[0] \in V,
           \A i \in 1..n : f[i - 1] \in V => f[i] \in V
    PROVE  f[n] \in V
  <1> DEFINE S == {i \in 0..n : f[i] \in V}
  <1>1. 0 \in S /\ \A i \in 1..n : i - 1 \in S => i \in S
    OBVIOUS
  <1> HIDE DEF S
  <1>2. n \in S
    BY <1>1, CountUp
  <1> QED BY <1>2 DEF S

(***************************************************************************)
(* The queue of actions                                                    *)
(***************************************************************************)

\* One step of PurgeActions and of Chunks.
Kept1(S, i, s) == IF actions[i].pid \in S THEN s ELSE Append(s, actions[i])

\* PurgeActions is reached action by action, from an empty queue.
LEMMA PurgedSteps ==
    ASSUME NEW P, NEW S, actions \in Seq([pid : P, len : Lengths])
    PROVE  \E kept : /\ kept[0] = <<>> /\ PurgeActions(S) = kept[Len(actions)]
                     /\ \A i \in 0..Len(actions) : kept[i] \in Seq([pid : P \ S, len : Lengths])
                     /\ \A i \in 1..Len(actions) : kept[i] = Kept1(S, i, kept[i - 1])
  <1> DEFINE n == Len(actions)
             A == [pid : P, len : Lengths]
             B == [pid : P \ S, len : Lengths]
             V == Seq(B)
             Rec(f) == f = [i \in 0..n |-> IF i = 0 THEN <<>>
                                           ELSE IF actions[i].pid \in S THEN f[i - 1]
                                                ELSE Append(f[i - 1], actions[i])]
             next == [x \in (1..n) \X V |-> Kept1(S, x[1], x[2])]
             kept == CHOOSE f : Rec(f)
  <1>1. n \in Nat /\ <<>> \in V
    OBVIOUS
  <1>a. \A a \in A : a.pid \notin S => a \in B
    OBVIOUS
  <1>2. ASSUME NEW i \in 1..n, NEW s \in V PROVE Kept1(S, i, s) \in V
    <2>0. actions \in Seq(A)
      OBVIOUS
    <2> HIDE DEF A, B
    <2>1. actions[i] \in A
      BY <2>0
    <2> QED BY <1>a, <2>1 DEF Kept1
  <1>3. next \in [(1..n) \X V -> V]
    <2> HIDE DEF V, n
    <2> QED BY <1>2
  <1>4. PICK f \in [0..n -> V] : Steps(f, n, <<>>, next)
    <2> HIDE DEF next, V, n
    <2>1. \E f \in [0..n -> V] : Steps(f, n, <<>>, next)
      BY <1>1, <1>3, Recursion
    <2> QED BY <2>1
  <1>5. Rec(f)
    <2>1. ASSUME NEW i \in 1..n PROVE f[i] = Kept1(S, i, f[i - 1])
      <3>1. i - 1 \in 0..n
        BY <1>1
      <3>2. f[i - 1] \in V
        BY <3>1
      <3> HIDE DEF V, n
      <3> QED BY <1>4, <3>2 DEF Steps
    <2>2. f = [i \in 0..n |-> f[i]]
      BY <1>4
    <2> HIDE DEF V, next, n
    <2>3. ASSUME NEW i \in 0..n
          PROVE  f[i] = IF i = 0 THEN <<>> ELSE IF actions[i].pid \in S THEN f[i - 1]
                                                ELSE Append(f[i - 1], actions[i])
      <3>1. CASE i = 0
        BY <1>4, <3>1 DEF Steps
      <3>2. CASE i # 0
        <4>1. i \in 1..n
          BY <1>1, <3>2
        <4> QED BY <2>1, <3>2, <4>1 DEF Kept1
      <3> QED BY <3>1, <3>2
    <2> QED BY <2>2, <2>3
  <1>6. Rec(kept)
    <2> HIDE DEF Rec
    <2> QED BY <1>5, Zenon
  <1>7. PurgeActions(S) = kept[n]
    BY Zenon DEF PurgeActions
  <1> HIDE DEF kept
  <1>8. kept[0] = <<>>
    <2> HIDE DEF V, n, next
    <2>1. 0 \in 0..n
      BY <1>1
    <2> QED BY <1>6, <2>1
  <1>9. \A i \in 1..n : kept[i] = Kept1(S, i, kept[i - 1])
    <2> HIDE DEF V, n, next
    <2> SUFFICES ASSUME NEW i \in 1..n PROVE kept[i] = Kept1(S, i, kept[i - 1])
      OBVIOUS
    <2>1. i \in 0..n /\ i # 0
      BY <1>1
    <2> QED BY <1>6, <2>1 DEF Kept1
  <1>10. \A i \in 0..n : kept[i] \in V
    <2> DEFINE T == {i \in 0..n : kept[i] \in V}
    <2> HIDE DEF V, n, next, Rec
    <2>1. 0 \in T /\ \A i \in 1..n : i - 1 \in T => i \in T
      BY <1>1, <1>2, <1>8, <1>9, SMTT(15), ZenonT(40)
    <2> HIDE DEF T
    <2>2. 0..n \subseteq T
      BY <1>1, <2>1, CountUp
    <2> QED BY <2>2 DEF T
  <1> HIDE DEF Rec, next
  <1> QED BY <1>7, <1>8, <1>9, <1>10, Zenon

\* The queue without somebody's actions is a queue of the others' actions.
LEMMA Purged ==
    ASSUME NEW P, NEW S, actions \in Seq([pid : P, len : Lengths])
    PROVE  PurgeActions(S) \in Seq([pid : P \ S, len : Lengths])
  <1>1. PICK kept : /\ PurgeActions(S) = kept[Len(actions)]
                    /\ \A i \in 0..Len(actions) :
                          kept[i] \in Seq([pid : P \ S, len : Lengths])
    BY PurgedSteps
  <1>2. Len(actions) \in 0..Len(actions)
    OBVIOUS
  <1> QED BY <1>1, <1>2

\* Of the first k places of a queue e picks those that somebody outside S has
\* an action at, in their order, and what is there is the new queue.
Picks(e, old, k, new, S) ==
    /\ \A i, j \in 1..Len(new) : i < j => e[i] < e[j]
    /\ \A i \in 1..Len(new) : new[i] = old[e[i]]
    /\ \A j \in 1..k : old[j].pid \notin S <=> \E i \in 1..Len(new) : e[i] = j
Thinned(old, k, new, S) == \E e \in [1..Len(new) -> 1..k] : Picks(e, old, k, new, S)

\* One more action is left out or put to the end.
LEMMA ThinnedOn ==
    ASSUME NEW old, NEW k \in Nat \ {0}, NEW A, NEW new \in Seq(A), NEW S, old[k] \in A,
           Thinned(old, k - 1, new, S)
    PROVE  Thinned(old, k, IF old[k].pid \in S THEN new ELSE Append(new, old[k]), S)
  <1> DEFINE n == Len(new)
             a == old[k]
  <1>1. PICK e \in [1..n -> 1..(k - 1)] : Picks(e, old, k - 1, new, S)
    BY DEF Thinned
  <1>2. /\ n \in Nat /\ k \notin 1..(k - 1) /\ 1..(k - 1) \subseteq 1..k
        /\ \A j \in 1..k : j = k \/ j \in 1..(k - 1)
    OBVIOUS
  <1>3. \A i \in 1..n : e[i] \in 1..(k - 1)
    BY <1>1
  <1>4. /\ \A i, j \in 1..n : i < j => e[i] < e[j]
        /\ \A i \in 1..n : new[i] = old[e[i]]
        /\ \A j \in 1..(k - 1) : old[j].pid \notin S <=> \E i \in 1..n : e[i] = j
    BY <1>1 DEF Picks
  <1>5. CASE a.pid \in S
    <2>1. e \in [1..n -> 1..k]
      BY <1>1, <1>2
    <2>2. \A j \in 1..k : old[j].pid \notin S <=> \E i \in 1..n : e[i] = j
      BY <1>2, <1>3, <1>4, <1>5
    <2>3. Picks(e, old, k, new, S)
      BY <1>4, <2>2 DEF Picks
    <2>4. Thinned(old, k, new, S)
      BY <2>1, <2>3 DEF Thinned
    <2> QED BY <1>5, <2>4
  <1>6. CASE a.pid \notin S
    <2> DEFINE s == Append(new, a)
               d == [i \in 1..(n + 1) |-> IF i = n + 1 THEN k ELSE e[i]]
    <2>1. Len(s) = n + 1 /\ s[n + 1] = a /\ \A i \in 1..n : s[i] = new[i]
      OBVIOUS
    <2>2. /\ \A i \in 1..(n + 1) : i = n + 1 \/ i \in 1..n
          /\ n + 1 \in 1..(n + 1) /\ n + 1 \notin 1..n /\ k \in 1..k
          /\ \A i \in 1..n : i \in 1..(n + 1)
      BY <1>2
    <2>3. d[n + 1] = k /\ \A i \in 1..n : d[i] = e[i]
      BY <2>2
    <2>4. d \in [1..(n + 1) -> 1..k]
      <3>1. \A i \in 1..(n + 1) : (IF i = n + 1 THEN k ELSE e[i]) \in 1..k
        BY <1>2, <1>3, <2>2
      <3> HIDE DEF n
      <3> QED BY <3>1
    <2> HIDE DEF d, s, n, a
    <2>5. \A i, j \in 1..(n + 1) : i < j => d[i] < d[j]
      <3> SUFFICES ASSUME NEW i \in 1..(n + 1), NEW j \in 1..(n + 1), i < j PROVE d[i] < d[j]
        OBVIOUS
      <3>1. i \in 1..n
        BY <1>2
      <3>2. d[i] = e[i] /\ e[i] \in 1..(k - 1)
        BY <1>3, <2>3, <3>1
      <3>3. CASE j = n + 1
        BY <2>3, <3>2, <3>3
      <3>4. CASE j \in 1..n
        BY <1>4, <2>3, <3>1, <3>4
      <3> QED BY <2>2, <3>3, <3>4
    <2>6. \A i \in 1..(n + 1) : s[i] = old[d[i]]
      BY <1>4, <2>1, <2>2, <2>3 DEF a
    <2>7. ASSUME NEW j \in 1..k
          PROVE  old[j].pid \notin S <=> \E i \in 1..(n + 1) : d[i] = j
      <3>1. CASE j = k
        BY <1>6, <2>2, <2>3, <3>1 DEF a
      <3>2. CASE j # k
        <4>1. j \in 1..(k - 1)
          BY <1>2, <3>2
        <4>2. (\E i \in 1..(n + 1) : d[i] = j) <=> \E i \in 1..n : e[i] = j
          BY <2>2, <2>3, <3>2
        <4> QED BY <1>4, <4>1, <4>2
      <3> QED BY <3>1, <3>2
    <2>8. Picks(d, old, k, s, S)
      BY <2>1, <2>5, <2>6, <2>7 DEF Picks
    <2>9. Thinned(old, k, s, S)
      BY <2>1, <2>4, <2>8 DEF Thinned
    <2> QED BY <1>6, <2>9 DEF s, a
  <1> QED BY <1>5, <1>6

\* PurgeActions drops the actions of S and no other, and keeps the order.
LEMMA PurgeThins ==
    ASSUME NEW S, actions \in Seq(Action)
    PROVE  Thinned(actions, Len(actions), PurgeActions(S), S)
  <1> DEFINE n == Len(actions)
             B == [pid : Pids \ S, len : Lengths]
  <1>1. PICK kept : /\ kept[0] = <<>> /\ PurgeActions(S) = kept[n]
                    /\ \A i \in 0..n : kept[i] \in Seq(B)
                    /\ \A i \in 1..n : kept[i] = Kept1(S, i, kept[i - 1])
    BY PurgedSteps DEF Action
  <1> DEFINE T == {i \in 0..n : Thinned(actions, i, kept[i], S)}
  <1>2. n \in Nat /\ \A i \in 1..n : actions[i] \in Action
    OBVIOUS
  <1> HIDE DEF n
  <1>3. \A q \in Seq(B) : q \in Seq(Action)
    <2>1. B \subseteq Action
      BY DEF Action
    <2> HIDE DEF B
    <2> QED BY <2>1
  <1> HIDE DEF B
  <1>4. Thinned(actions, 0, <<>>, S)
    <2> DEFINE e == [i \in 1..0 |-> 0]
    <2>1. Len(<<>>) = 0 /\ 1..0 = {} /\ e \in [1..0 -> 1..0]
      OBVIOUS
    <2> HIDE DEF e
    <2>2. Picks(e, actions, 0, <<>>, S)
      BY <2>1 DEF Picks
    <2> QED BY <2>1, <2>2 DEF Thinned
  <1>5. 0 \in T
    BY <1>1, <1>2, <1>4
  <1>6. ASSUME NEW i \in 1..n, i - 1 \in T PROVE i \in T
    <2>1. i \in Nat \ {0} /\ i \in 0..n /\ i - 1 \in 0..n /\ actions[i] \in Action
      BY <1>2
    <2>2. Thinned(actions, i - 1, kept[i - 1], S) /\ kept[i - 1] \in Seq(Action)
      BY <1>1, <1>3, <1>6, <2>1
    <2>3. kept[i] = IF actions[i].pid \in S THEN kept[i - 1] ELSE Append(kept[i - 1], actions[i])
      BY <1>1 DEF Kept1
    <2>4. Thinned(actions, i, kept[i], S)
      BY <2>1, <2>2, <2>3, ThinnedOn
    <2> QED BY <2>1, <2>4
  <1> HIDE DEF T
  <1>7. n \in T
    <2>1. 0..n \subseteq T
      BY <1>2, <1>5, <1>6, CountUp
    <2> QED BY <1>2, <2>1
  <1> QED BY <1>1, <1>7 DEF T, n

\* A queue without actions of S is thinned by leaving it alone.
LEMMA ThinnedByNone ==
    ASSUME NEW A, NEW old \in Seq(A), NEW S, \A i \in 1..Len(old) : old[i].pid \notin S
    PROVE  Thinned(old, Len(old), old, S)
  <1> DEFINE n == Len(old)
             e == [i \in 1..n |-> i]
  <1>1. n \in Nat
    OBVIOUS
  <1> HIDE DEF n
  <1>2. e \in [1..n -> 1..n] /\ \A i \in 1..n : e[i] = i
    OBVIOUS
  <1> HIDE DEF e
  <1>3. Picks(e, old, n, old, S)
    BY <1>1, <1>2 DEF Picks, n
  <1> QED BY <1>2, <1>3 DEF Thinned, n

\* What SequencesExt has of the ends of a sequence.
LEMMA PackedTypes ==
    ASSUME NEW A, NEW cs \in Seq(Seq(A)), cs # <<>>, NEW a \in A
    PROVE  Packed(cs, a) \in Seq(Seq(A)) /\ Packed(cs, a) # <<>>
  <1> DEFINE Q == Seq(A)
  <1>1. Last(cs) \in Q
    BY DEF Last
  <1>2. Front(cs) \in Seq(Q)
    BY DEF Front
  <1>3. Append(Last(cs), a) \in Q /\ <<a>> \in Q
    BY <1>1
  <1> HIDE DEF Q
  <1>4. ASSUME NEW s \in Seq(Q), NEW q \in Q
        PROVE  Append(s, q) \in Seq(Q) /\ Append(s, q) # <<>>
    <2>1. Append(s, q) \in Seq(Q) /\ Len(Append(s, q)) = Len(s) + 1 /\ Len(s) \in Nat
      OBVIOUS
    <2> QED BY <2>1
  <1>5. cs \in Seq(Q)
    BY DEF Q
  <1>6. Packed(cs, a) \in Seq(Q) /\ Packed(cs, a) # <<>>
    BY <1>1, <1>2, <1>3, <1>4, <1>5 DEF Packed
  <1> QED BY <1>6 DEF Q

\* Chunks is reached action by action, from one empty piece.
LEMMA ChunksSteps ==
    ASSUME NEW A, actions \in Seq(A)
    PROVE  \E cut : /\ cut[0] = << <<>> >> /\ Chunks = cut[Len(actions)]
                    /\ \A i \in 0..Len(actions) : cut[i] \in Seq(Seq(A)) /\ cut[i] # <<>>
                    /\ \A i \in 1..Len(actions) : cut[i] = Packed(cut[i - 1], actions[i])
  <1> DEFINE n == Len(actions)
             V == {cs \in Seq(Seq(A)) : cs # <<>>}
             Rec(f) == f = [i \in 0..n |-> IF i = 0 THEN << <<>> >>
                                           ELSE Packed(f[i - 1], actions[i])]
             next == [x \in (1..n) \X V |-> Packed(x[2], actions[x[1]])]
             cut == CHOOSE f : Rec(f)
  <1>1. n \in Nat /\ << <<>> >> \in V
    OBVIOUS
  <1>2. ASSUME NEW i \in 1..n, NEW s \in V PROVE Packed(s, actions[i]) \in V
    <2>1. actions[i] \in A
      OBVIOUS
    <2> QED BY <2>1, PackedTypes
  <1>3. next \in [(1..n) \X V -> V]
    <2> HIDE DEF V, n
    <2> QED BY <1>2
  <1>4. PICK f \in [0..n -> V] : Steps(f, n, << <<>> >>, next)
    <2> HIDE DEF next, V, n
    <2>1. \E f \in [0..n -> V] : Steps(f, n, << <<>> >>, next)
      BY <1>1, <1>3, Recursion
    <2> QED BY <2>1
  <1>5. Rec(f)
    <2>1. ASSUME NEW i \in 1..n PROVE f[i] = Packed(f[i - 1], actions[i])
      <3>1. i - 1 \in 0..n
        BY <1>1
      <3>2. f[i - 1] \in V
        BY <3>1
      <3> HIDE DEF V, n
      <3> QED BY <1>4, <3>2 DEF Steps
    <2>2. f = [i \in 0..n |-> f[i]]
      BY <1>4
    <2> HIDE DEF V, next, n
    <2>3. ASSUME NEW i \in 0..n
          PROVE  f[i] = IF i = 0 THEN << <<>> >> ELSE Packed(f[i - 1], actions[i])
      <3>1. CASE i = 0
        BY <1>4, <3>1 DEF Steps
      <3>2. CASE i # 0
        <4>1. i \in 1..n
          BY <1>1, <3>2
        <4> QED BY <2>1, <3>2, <4>1
      <3> QED BY <3>1, <3>2
    <2> QED BY <2>2, <2>3
  <1>6. Rec(cut)
    <2> HIDE DEF Rec
    <2> QED BY <1>5, Zenon
  <1>7. Chunks = cut[n]
    BY Zenon DEF Chunks
  <1> HIDE DEF cut
  <1>8. cut[0] = << <<>> >>
    <2> HIDE DEF n
    <2>1. 0 \in 0..n
      BY <1>1
    <2> QED BY <1>6, <2>1
  <1>9. \A i \in 1..n : cut[i] = Packed(cut[i - 1], actions[i])
    <2> SUFFICES ASSUME NEW i \in 1..n PROVE cut[i] = Packed(cut[i - 1], actions[i])
      OBVIOUS
    <2> HIDE DEF n
    <2>1. i \in 0..n /\ i # 0
      BY <1>1
    <2> QED BY <1>6, <2>1
  <1>10. \A i \in 0..n : cut[i] \in V
    <2> DEFINE S == {i \in 0..n : cut[i] \in V}
    <2> HIDE DEF V, n, Rec
    <2>1. 0 \in S /\ \A i \in 1..n : i - 1 \in S => i \in S
      BY <1>1, <1>2, <1>8, <1>9, SMTT(60)
    <2> HIDE DEF S
    <2>2. 0..n \subseteq S
      BY <1>1, <2>1, CountUp
    <2> QED BY <2>2 DEF S
  <1>11. \A i \in 0..n : cut[i] \in Seq(Seq(A)) /\ cut[i] # <<>>
    BY <1>10
  <1> HIDE DEF Rec, V, next
  <1> QED BY <1>7, <1>8, <1>9, <1>11

\* What a batch is cut into are sequences of actions, one of them at least.
LEMMA ChunksTypes ==
    ASSUME NEW A, actions \in Seq(A)
    PROVE  Chunks \in Seq(Seq(A)) /\ Chunks # <<>>
  <1>1. PICK cut : /\ Chunks = cut[Len(actions)]
                   /\ \A i \in 0..Len(actions) : cut[i] \in Seq(Seq(A)) /\ cut[i] # <<>>
    BY ChunksSteps
  <1>2. Len(actions) \in 0..Len(actions)
    OBVIOUS
  <1> QED BY <1>1, <1>2

\* The ends of L pieces of n actions: from 0 to n, never back.
Marks(at, L, n) ==
    /\ at \in [0..L -> 0..n]
    /\ at[0] = 0 /\ at[L] = n
    /\ \A j \in 1..L : at[j - 1] <= at[j]

\* The pieces are consecutive parts of the first k actions, and these their all.
Cut(pieces, k) ==
    \E at \in [0..Len(pieces) -> 0..k] :
        /\ Marks(at, Len(pieces), k)
        /\ \A j \in 1..Len(pieces) : pieces[j] = SubSeq(actions, at[j - 1] + 1, at[j])

\* A piece is empty only when it is the only one, and more than one action
\* share it only if they fit.
Sized(pieces) ==
    \A j \in 1..Len(pieces) :
        /\ pieces[j] = <<>> => Len(pieces) = 1
        /\ Len(pieces[j]) > 1 => Bytes(pieces[j]) <= ChunkBytes

\* The running total of what the first k actions take.
Totals(sum, acts, k) == sum[0] = 0 /\ \A i \in 1..k : sum[i] = sum[i - 1] + acts[i].len

\* The bytes of actions are reached so, action by action.
LEMMA BytesSteps ==
    ASSUME NEW acts \in Seq(Action)
    PROVE  \E sum \in [0..Len(acts) -> Nat] :
              Totals(sum, acts, Len(acts)) /\ Bytes(acts) = sum[Len(acts)]
  <1> DEFINE n == Len(acts)
             Rec(f) == f = [i \in 0..n |-> IF i = 0 THEN 0 ELSE f[i - 1] + acts[i].len]
             next == [x \in (1..n) \X Nat |-> x[2] + acts[x[1]].len]
             sum == CHOOSE f : Rec(f)
  <1>1. n \in Nat
    OBVIOUS
  <1>2. \A i \in 1..n : acts[i].len \in Nat
    <2> SUFFICES ASSUME NEW i \in 1..n PROVE acts[i].len \in Nat
      OBVIOUS
    <2>1. acts[i] \in Action
      OBVIOUS
    <2> QED BY <2>1, StreamAssumption DEF Action
  <1> HIDE DEF n
  <1>3. next \in [(1..n) \X Nat -> Nat]
    BY <1>2
  <1>4. PICK f \in [0..n -> Nat] : Steps(f, n, 0, next)
    <2> HIDE DEF next
    <2>1. \E f \in [0..n -> Nat] : Steps(f, n, 0, next)
      BY <1>1, <1>3, Recursion
    <2> QED BY <2>1
  <1>5. f[0] = 0 /\ \A i \in 1..n : f[i] = f[i - 1] + acts[i].len
    <2>1. ASSUME NEW i \in 1..n PROVE f[i] = f[i - 1] + acts[i].len
      <3>1. i - 1 \in 0..n
        BY <1>1
      <3>2. f[i - 1] \in Nat
        BY <3>1
      <3>3. next[<<i, f[i - 1]>>] = f[i - 1] + acts[i].len
        BY <3>2
      <3> HIDE DEF next
      <3> QED BY <1>4, <3>3 DEF Steps
    <2> HIDE DEF next
    <2> QED BY <1>4, <2>1 DEF Steps
  <1> HIDE DEF next
  <1>6. Rec(f)
    <2>1. f = [i \in 0..n |-> f[i]]
      BY <1>4
    <2>2. ASSUME NEW i \in 0..n
          PROVE  f[i] = IF i = 0 THEN 0 ELSE f[i - 1] + acts[i].len
      <3>1. i = 0 \/ i \in 1..n
        BY <1>1
      <3> QED BY <1>5, <3>1
    <2> QED BY <2>1, <2>2
  <1>7. Rec(sum)
    <2> HIDE DEF Rec
    <2> QED BY <1>6, Zenon
  <1>8. Bytes(acts) = sum[n]
    BY Zenon DEF Bytes, n
  <1> HIDE DEF sum
  <1>9. \A i \in 0..n : sum[i] = IF i = 0 THEN 0 ELSE sum[i - 1] + acts[i].len
    BY <1>7
  <1>10. sum[0] = 0 /\ \A i \in 1..n : sum[i] = sum[i - 1] + acts[i].len
    <2>1. \A i \in 1..n : i \in 0..n /\ i # 0
      BY <1>1
    <2>2. 0 \in 0..n
      BY <1>1
    <2> QED BY <1>9, <2>1, <2>2
  <1>11. \A i \in 0..n : sum[i] \in Nat
    <2> DEFINE S == {i \in 0..n : sum[i] \in Nat}
    <2>1. 0 \in S
      BY <1>1, <1>10
    <2>2. ASSUME NEW i \in 1..n, i - 1 \in S PROVE i \in S
      <3>1. i \in 0..n /\ sum[i - 1] \in Nat /\ acts[i].len \in Nat
        BY <1>1, <1>2, <2>2
      <3> QED BY <1>10, <3>1
    <2> HIDE DEF S
    <2>3. 0..n \subseteq S
      BY <1>1, <2>1, <2>2, CountUp
    <2> QED BY <2>3 DEF S
  <1>12. sum \in [0..n -> Nat]
    <2>1. sum = [i \in 0..n |-> sum[i]]
      <3>1. DOMAIN sum = 0..n
        BY <1>7
      <3>2. sum = [i \in DOMAIN sum |-> sum[i]]
        BY <1>7
      <3> HIDE DEF Rec
      <3> QED BY <3>1, <3>2
    <2> HIDE DEF Rec
    <2> QED BY <1>11, <2>1, ZenonT(60)
  <1> HIDE DEF Rec
  <1>13. Totals(sum, acts, n)
    BY <1>10 DEF Totals
  <1> QED BY <1>8, <1>12, <1>13, Zenon DEF n

\* They are a number, and one more action adds its own.
LEMMA BytesOfOneMore ==
    ASSUME NEW q \in Seq(Action), NEW a \in Action
    PROVE  Bytes(q) \in Nat /\ Bytes(Append(q, a)) = Bytes(q) + a.len
  <1> DEFINE r == Append(q, a)
             n == Len(q)
  <1>1. /\ r \in Seq(Action) /\ Len(r) = n + 1 /\ n \in Nat /\ r[n + 1] = a
        /\ \A i \in 1..n : r[i] = q[i]
    OBVIOUS
  <1> HIDE DEF r
  <1>2. PICK f \in [0..n -> Nat] : Totals(f, q, n) /\ Bytes(q) = f[n]
    BY BytesSteps
  <1> HIDE DEF n
  <1>3. PICK g \in [0..(n + 1) -> Nat] : Totals(g, r, n + 1) /\ Bytes(r) = g[n + 1]
    <2>1. \E g \in [0..Len(r) -> Nat] : Totals(g, r, Len(r)) /\ Bytes(r) = g[Len(r)]
      BY <1>1, BytesSteps
    <2> QED BY <1>1, <2>1, Zenon
  <1>4. g[n] = f[n]
    <2> DEFINE S == {i \in 0..n : g[i] = f[i]}
    <2>1. 0 \in S
      BY <1>1, <1>2, <1>3 DEF Totals
    <2>2. ASSUME NEW i \in 1..n, i - 1 \in S PROVE i \in S
      <3>1. i \in 1..(n + 1) /\ i \in 0..n
        BY <1>1
      <3>2. g[i] = g[i - 1] + r[i].len
        BY <1>3, <3>1 DEF Totals
      <3>3. f[i] = f[i - 1] + q[i].len /\ r[i] = q[i]
        BY <1>1, <1>2 DEF Totals
      <3>4. g[i - 1] = f[i - 1]
        BY <2>2
      <3> QED BY <3>1, <3>2, <3>3, <3>4
    <2> HIDE DEF S
    <2>3. n \in S
      <3>1. 0..n \subseteq S
        BY <1>1, <2>1, <2>2, CountUp
      <3> QED BY <1>1, <3>1
    <2> QED BY <2>3 DEF S
  <1>5. g[n + 1] = g[n] + a.len
    <2>1. n + 1 \in 1..(n + 1) /\ (n + 1) - 1 = n
      BY <1>1
    <2> QED BY <1>1, <1>3, <2>1 DEF Totals
  <1>6. f[n] \in Nat
    BY <1>1, <1>2
  <1> QED BY <1>2, <1>3, <1>4, <1>5, <1>6 DEF r

\* How a cut grows by an action: it joins the last piece, or opens one of its own.
Grows(cs, ds, a, A) ==
    /\ Len(cs) \in Nat \ {0} /\ Len(ds) \in Nat /\ cs[Len(cs)] \in Seq(A)
    /\ \A j \in 1..(Len(cs) - 1) : ds[j] = cs[j]
    /\ \/ Fits(cs[Len(cs)], a) /\ Len(ds) = Len(cs) /\ ds[Len(cs)] = Append(cs[Len(cs)], a)
       \/ ~Fits(cs[Len(cs)], a)
          /\ Len(ds) = Len(cs) + 1 /\ ds[Len(cs)] = cs[Len(cs)] /\ ds[Len(cs) + 1] = <<a>>

\* Packed does that.
LEMMA PackedPieces ==
    ASSUME NEW A, NEW cs \in Seq(Seq(A)), cs # <<>>, NEW a \in A
    PROVE  Grows(cs, Packed(cs, a), a, A)
  <1> DEFINE Q == Seq(A)
             L == Len(cs)
             ds == Packed(cs, a)
             f == SubSeq(cs, 1, L - 1)
  <1>1. cs \in Seq(Q) /\ <<a>> \in Q
    OBVIOUS
  <1>2. \A q \in Q : Append(q, a) \in Q
    OBVIOUS
  <1> HIDE DEF Q
  <1>3. L \in Nat \ {0} /\ cs[L] \in Q /\ L - 1 \in Nat
    BY <1>1
  <1>4. Last(cs) = cs[L] /\ Front(cs) = f
    BY DEF Last, Front
  <1>5. f \in Seq(Q) /\ Len(f) = L - 1 /\ \A j \in 1..(L - 1) : f[j] = cs[j]
    BY <1>1, <1>3
  <1>6. CASE Fits(cs[L], a)
    <2> DEFINE b == Append(cs[L], a)
    <2>1. b \in Q
      BY <1>2, <1>3
    <2>2. ds = Append(f, b)
      BY <1>4, <1>6 DEF Packed
    <2> HIDE DEF b, f, ds
    <2>3. Len(ds) = L /\ ds[L] = b /\ \A j \in 1..(L - 1) : ds[j] = cs[j]
      BY <1>3, <1>5, <2>1, <2>2
    <2> QED BY <1>3, <1>6, <2>3 DEF b, ds, Q, Grows
  <1>7. CASE ~Fits(cs[L], a)
    <2>1. ds = Append(cs, <<a>>)
      BY <1>4, <1>7 DEF Packed
    <2> HIDE DEF ds
    <2>2. Len(ds) = L + 1 /\ ds[L + 1] = <<a>> /\ \A j \in 1..L : ds[j] = cs[j]
      BY <1>1, <1>3, <2>1
    <2> QED BY <1>3, <1>7, <2>2 DEF ds, Q, Grows
  <1> QED BY <1>6, <1>7

\* A part of the queue with the action after it is the part that ends there.
LEMMA PartsGrow ==
    ASSUME NEW A, actions \in Seq(A), NEW k \in 1..Len(actions), NEW m \in 1..k
    PROVE  Append(SubSeq(actions, m, k - 1), actions[k]) = SubSeq(actions, m, k)
  <1> DEFINE p == SubSeq(actions, m, k - 1)
             q == SubSeq(actions, m, k)
             r == Append(p, actions[k])
  <1>1. /\ k \in Nat /\ m \in Nat /\ k - 1 \in Nat /\ k - m \in Nat /\ k - m + 1 \in Nat
        /\ actions[k] \in A
    OBVIOUS
  <1>2. /\ p \in Seq(A) /\ Len(p) = k - m
        /\ \A i \in 1..(k - m) : p[i] = actions[m + i - 1]
    BY <1>1
  <1>3. /\ q \in Seq(A) /\ Len(q) = k - m + 1
        /\ \A i \in 1..(k - m + 1) : q[i] = actions[m + i - 1]
    BY <1>1
  <1> HIDE DEF p, q
  <1>4. /\ r \in Seq(A) /\ Len(r) = k - m + 1 /\ r[k - m + 1] = actions[k]
        /\ \A i \in 1..(k - m) : r[i] = p[i]
    BY <1>1, <1>2
  <1> HIDE DEF r
  <1>5. \A i \in 1..(k - m + 1) : r[i] = q[i]
    <2>1. m + (k - m + 1) - 1 = k
      BY <1>1
    <2>2. \A i \in 1..(k - m + 1) : i = k - m + 1 \/ i \in 1..(k - m)
      BY <1>1
    <2>3. r[k - m + 1] = q[k - m + 1]
      <3>1. k - m + 1 \in 1..(k - m + 1)
        BY <1>1
      <3>2. q[k - m + 1] = actions[m + (k - m + 1) - 1]
        BY <1>3, <3>1
      <3> QED BY <1>4, <2>1, <3>2
    <2>4. \A i \in 1..(k - m) : r[i] = q[i]
      BY <1>1, <1>2, <1>3, <1>4
    <2> QED BY <2>2, <2>3, <2>4
  <1>6. r = q
    BY <1>3, <1>4, <1>5, SeqEqual
  <1> QED BY <1>6 DEF r, p, q

\* A part of one action.
LEMMA PartOfOne ==
    ASSUME NEW A, actions \in Seq(A), NEW k \in 1..Len(actions)
    PROVE  SubSeq(actions, k, k) = <<actions[k]>>
  <1> DEFINE p == SubSeq(actions, k, k)
             q == <<actions[k]>>
  <1>1. k \in Nat /\ actions[k] \in A
    OBVIOUS
  <1>2. p \in Seq(A) /\ Len(p) = 1 /\ p[1] = actions[k]
    BY <1>1
  <1>3. q \in Seq(A) /\ Len(q) = 1 /\ q[1] = actions[k]
    BY <1>1
  <1> HIDE DEF p, q
  <1>4. \A i \in 1..1 : p[i] = q[i]
    BY <1>2, <1>3
  <1>5. p = q
    BY <1>2, <1>3, <1>4, SeqEqual
  <1> QED BY <1>5 DEF p, q

\* An action joins the last piece.
Moved(at, L, n) == [j \in 0..L |-> IF j = L THEN n + 1 ELSE at[j]]

LEMMA LastMarkMoves ==
    ASSUME NEW L \in Nat \ {0}, NEW n \in Nat, NEW at, Marks(at, L, n)
    PROVE  LET to == Moved(at, L, n) IN
           /\ Marks(to, L, n + 1)
           /\ \A j \in 1..(L - 1) : to[j - 1] = at[j - 1] /\ to[j] = at[j]
           /\ to[L - 1] = at[L - 1] /\ at[L - 1] \in 0..n /\ to[L] = n + 1
  <1> DEFINE to == Moved(at, L, n)
  <1>1. /\ at \in [0..L -> 0..n] /\ at[0] = 0 /\ at[L] = n
        /\ \A j \in 1..L : at[j - 1] <= at[j]
    BY DEF Marks
  <1>2. \A j \in 0..L : at[j] \in 0..n
    BY <1>1
  <1>3. \A j \in 0..L : to[j] = IF j = L THEN n + 1 ELSE at[j]
    BY DEF Moved
  <1>4. to \in [0..L -> 0..(n + 1)]
    BY <1>2 DEF Moved
  <1> HIDE DEF to
  <1>5. /\ \A j \in 1..(L - 1) : to[j - 1] = at[j - 1] /\ to[j] = at[j]
        /\ to[L - 1] = at[L - 1] /\ at[L - 1] \in 0..n /\ to[L] = n + 1 /\ to[0] = 0
    BY <1>1, <1>2, <1>3
  <1>6. \A j \in 1..L : to[j - 1] <= to[j]
    BY <1>1, <1>2, <1>5
  <1>7. Marks(to, L, n + 1)
    BY <1>4, <1>5, <1>6 DEF Marks
  <1> QED BY <1>5, <1>7 DEF to

\* An action opens a piece of its own.
Added(at, L, n) == [j \in 0..(L + 1) |-> IF j = L + 1 THEN n + 1 ELSE at[j]]

LEMMA MarkIsAdded ==
    ASSUME NEW L \in Nat \ {0}, NEW n \in Nat, NEW at, Marks(at, L, n)
    PROVE  LET to == Added(at, L, n) IN
           /\ Marks(to, L + 1, n + 1)
           /\ \A j \in 1..L : to[j - 1] = at[j - 1] /\ to[j] = at[j]
           /\ to[L] = n /\ to[L + 1] = n + 1
  <1> DEFINE to == Added(at, L, n)
  <1>1. /\ at \in [0..L -> 0..n] /\ at[0] = 0 /\ at[L] = n
        /\ \A j \in 1..L : at[j - 1] <= at[j]
    BY DEF Marks
  <1>2. \A j \in 0..L : at[j] \in 0..n
    BY <1>1
  <1>3. \A j \in 0..(L + 1) : to[j] = IF j = L + 1 THEN n + 1 ELSE at[j]
    BY DEF Added
  <1>4. to \in [0..(L + 1) -> 0..(n + 1)]
    <2>1. \A j \in 0..(L + 1) : j = L + 1 \/ j \in 0..L
      OBVIOUS
    <2> QED BY <1>2, <2>1 DEF Added
  <1> HIDE DEF to
  <1>5. /\ \A j \in 1..L : to[j - 1] = at[j - 1] /\ to[j] = at[j]
        /\ to[L] = n /\ to[L + 1] = n + 1 /\ to[0] = 0
    BY <1>1, <1>2, <1>3, SMTT(15), ZenonT(40)
  <1>6. \A j \in 1..(L + 1) : to[j - 1] <= to[j]
    <2>1. \A j \in 1..(L + 1) : j = L + 1 \/ j \in 1..L
      OBVIOUS
    <2>2. to[(L + 1) - 1] <= to[L + 1]
      BY <1>5
    <2> QED BY <1>1, <1>5, <2>1, <2>2
  <1>7. Marks(to, L + 1, n + 1)
    BY <1>4, <1>5, <1>6 DEF Marks
  <1> QED BY <1>5, <1>7 DEF to

\* Packed takes in the next action of the queue.
LEMMA PackedCut ==
    ASSUME NEW A, actions \in Seq(A), NEW k \in 1..Len(actions),
           NEW cs \in Seq(Seq(A)), cs # <<>>, Cut(cs, k - 1)
    PROVE  Cut(Packed(cs, actions[k]), k)
  <1> DEFINE L == Len(cs)
             n == k - 1
             a == actions[k]
             ds == Packed(cs, a)
  <1>0. n \in Nat /\ n + 1 = k /\ a \in A
    OBVIOUS
  <1>1. /\ L \in Nat \ {0} /\ Len(ds) \in Nat /\ cs[L] \in Seq(A)
        /\ \A j \in 1..(L - 1) : ds[j] = cs[j]
        /\ \/ Fits(cs[L], a) /\ Len(ds) = L /\ ds[L] = Append(cs[L], a)
           \/ ~Fits(cs[L], a) /\ Len(ds) = L + 1 /\ ds[L] = cs[L] /\ ds[L + 1] = <<a>>
    <2>1. Grows(cs, ds, a, A)
      <3> HIDE DEF a
      <3> QED BY <1>0, PackedPieces
    <2> HIDE DEF ds, a
    <2> QED BY <2>1 DEF Grows
  <1>2. PICK at : /\ Marks(at, L, n)
                  /\ \A j \in 1..L : cs[j] = SubSeq(actions, at[j - 1] + 1, at[j])
    BY DEF Cut
  <1>3. \A m \in 1..k : Append(SubSeq(actions, m, n), a) = SubSeq(actions, m, k)
    BY PartsGrow
  <1>4. SubSeq(actions, k, k) = <<a>>
    BY PartOfOne
  <1>5. L \in Nat /\ \A j \in 1..L : j = L \/ j \in 1..(L - 1)
    BY <1>1
  <1> HIDE DEF L, ds, n, a
  <1>6. CASE Len(ds) = L /\ ds[L] = Append(cs[L], a)
    <2> DEFINE to == Moved(at, L, n)
    <2>1. /\ Marks(to, L, n + 1)
          /\ \A j \in 1..(L - 1) : to[j - 1] = at[j - 1] /\ to[j] = at[j]
          /\ to[L - 1] = at[L - 1] /\ at[L - 1] \in 0..n /\ to[L] = n + 1
      <3>1. L \in Nat \ {0}
        BY <1>1
      <3>2. Marks(at, L, n)
        BY <1>2
      <3> QED BY <1>0, <3>1, <3>2, LastMarkMoves
    <2> HIDE DEF to
    <2>2. \A j \in 1..(L - 1) : ds[j] = SubSeq(actions, to[j - 1] + 1, to[j])
      <3> SUFFICES ASSUME NEW j \in 1..(L - 1)
                   PROVE  ds[j] = SubSeq(actions, to[j - 1] + 1, to[j])
        OBVIOUS
      <3>1. j \in 1..L
        BY <1>5
      <3>2. ds[j] = cs[j] /\ cs[j] = SubSeq(actions, at[j - 1] + 1, at[j])
        BY <1>1, <1>2, <3>1
      <3> QED BY <2>1, <3>2
    <2>3. ds[L] = SubSeq(actions, to[L - 1] + 1, to[L])
      <3>1. L \in 1..L /\ at[L - 1] + 1 \in 1..k
        <4>1. L \in Nat \ {0}
          BY <1>1
        <4>2. at[L - 1] \in 0..n
          BY <2>1
        <4>3. n \in Nat /\ n + 1 = k
          BY <1>0
        <4> QED BY <4>1, <4>2, <4>3
      <3>2. at[L] = n
        BY <1>2 DEF Marks
      <3>3. cs[L] = SubSeq(actions, at[L - 1] + 1, n)
        BY <1>2, <3>1, <3>2
      <3>4. ds[L] = SubSeq(actions, at[L - 1] + 1, k)
        BY <1>3, <1>6, <3>1, <3>3
      <3> QED BY <1>0, <2>1, <3>4
    <2>4. \A j \in 1..L : ds[j] = SubSeq(actions, to[j - 1] + 1, to[j])
      BY <1>5, <2>2, <2>3
    <2>5. Marks(to, Len(ds), k) /\ \A j \in 1..Len(ds) : ds[j] = SubSeq(actions, to[j - 1] + 1, to[j])
      BY <1>0, <1>6, <2>1, <2>4
    <2> QED BY <2>5 DEF Cut, Marks, ds, a
  <1>7. CASE Len(ds) = L + 1 /\ ds[L] = cs[L] /\ ds[L + 1] = <<a>>
    <2> DEFINE to == Added(at, L, n)
    <2>1. /\ Marks(to, L + 1, n + 1)
          /\ \A j \in 1..L : to[j - 1] = at[j - 1] /\ to[j] = at[j]
          /\ to[L] = n /\ to[L + 1] = n + 1
      <3>1. L \in Nat \ {0}
        BY <1>1
      <3>2. Marks(at, L, n)
        BY <1>2
      <3> QED BY <1>0, <3>1, <3>2, MarkIsAdded, SMTT(15), ZenonT(40)
    <2> HIDE DEF to
    <2>2. \A j \in 1..L : ds[j] = cs[j]
      BY <1>1, <1>5, <1>7
    <2>3. \A j \in 1..L : ds[j] = SubSeq(actions, to[j - 1] + 1, to[j])
      BY <1>2, <2>1, <2>2
    <2>4. ds[L + 1] = SubSeq(actions, to[(L + 1) - 1] + 1, to[L + 1])
      <3>1. (L + 1) - 1 = L
        BY <1>5
      <3> QED BY <1>0, <1>4, <1>7, <2>1, <3>1
    <2>5. \A j \in 1..(L + 1) : j = L + 1 \/ j \in 1..L
      BY <1>5
    <2>6. \A j \in 1..(L + 1) : ds[j] = SubSeq(actions, to[j - 1] + 1, to[j])
      BY <2>3, <2>4, <2>5
    <2>7. Marks(to, Len(ds), k) /\ \A j \in 1..Len(ds) : ds[j] = SubSeq(actions, to[j - 1] + 1, to[j])
      BY <1>0, <1>7, <2>1, <2>6
    <2> QED BY <2>7 DEF Cut, Marks, ds, a
  <1> QED BY <1>1, <1>6, <1>7

\* ... and makes no piece too large.
LEMMA PackedSized ==
    ASSUME NEW cs \in Seq(Seq(Action)), cs # <<>>, NEW a \in Action, Sized(cs)
    PROVE  Sized(Packed(cs, a))
  <1> DEFINE L == Len(cs)
             ds == Packed(cs, a)
  <1>1. /\ L \in Nat \ {0} /\ cs[L] \in Seq(Action) /\ \A j \in 1..(L - 1) : ds[j] = cs[j]
        /\ \/ Fits(cs[L], a) /\ Len(ds) = L /\ ds[L] = Append(cs[L], a)
           \/ ~Fits(cs[L], a) /\ Len(ds) = L + 1 /\ ds[L] = cs[L] /\ ds[L + 1] = <<a>>
    <2>1. Grows(cs, ds, a, Action)
      BY PackedPieces
    <2> HIDE DEF ds
    <2> QED BY <2>1 DEF Grows
  <1> HIDE DEF L, ds
  <1>2. \A j \in 1..L : /\ cs[j] = <<>> => L = 1
                        /\ Len(cs[j]) > 1 => Bytes(cs[j]) <= ChunkBytes
    BY DEF Sized, L
  <1>3. CASE Fits(cs[L], a) /\ Len(ds) = L /\ ds[L] = Append(cs[L], a)
    <2> SUFFICES ASSUME NEW j \in 1..L
                 PROVE  /\ ds[j] = <<>> => L = 1
                        /\ Len(ds[j]) > 1 => Bytes(ds[j]) <= ChunkBytes
      BY <1>3 DEF Sized, ds
    <2>1. CASE j # L
      <3>1. j \in 1..(L - 1)
        BY <1>1, <2>1
      <3> QED BY <1>1, <1>2, <3>1
    <2>2. CASE j = L
      <3>1. Bytes(ds[L]) = Bytes(cs[L]) + a.len
        BY <1>1, <1>3, BytesOfOneMore
      <3>2. Len(ds[L]) = Len(cs[L]) + 1 /\ Len(cs[L]) \in Nat
        BY <1>1, <1>3
      <3>3. ds[L] # <<>>
        BY <3>2
      <3>4. Len(ds[L]) > 1 => cs[L] # <<>>
        BY <3>2
      <3> QED BY <1>3, <2>2, <3>1, <3>3, <3>4 DEF Fits
    <2> QED BY <2>1, <2>2
  <1>4. CASE ~Fits(cs[L], a) /\ Len(ds) = L + 1 /\ ds[L] = cs[L] /\ ds[L + 1] = <<a>>
    <2> SUFFICES ASSUME NEW j \in 1..(L + 1)
                 PROVE  /\ ds[j] = <<>> => L + 1 = 1
                        /\ Len(ds[j]) > 1 => Bytes(ds[j]) <= ChunkBytes
      BY <1>4 DEF Sized, ds
    <2>1. CASE j # L + 1
      <3>1. j \in 1..L /\ ds[j] = cs[j]
        BY <1>1, <1>4, <2>1
      <3>2. cs[L] # <<>>
        BY <1>4 DEF Fits
      <3>3. cs[j] # <<>>
        BY <1>1, <1>2, <3>1, <3>2
      <3> QED BY <1>2, <3>1, <3>3
    <2>2. CASE j = L + 1
      <3>1. ds[j] = <<a>> /\ Len(<<a>>) = 1 /\ <<a>> # <<>>
        BY <1>4, <2>2
      <3> QED BY <3>1
    <2> QED BY <2>1, <2>2
  <1> QED BY <1>1, <1>3, <1>4

\* Cutting loses nothing, moves nothing, and makes no piece too large.
LEMMA ChunksCut ==
    ASSUME actions \in Seq(Action)
    PROVE  Cut(Chunks, Len(actions)) /\ Sized(Chunks)
  <1> DEFINE n == Len(actions)
  <1>1. PICK cut : /\ cut[0] = << <<>> >> /\ Chunks = cut[n]
                   /\ \A i \in 0..n : cut[i] \in Seq(Seq(Action)) /\ cut[i] # <<>>
                   /\ \A i \in 1..n : cut[i] = Packed(cut[i - 1], actions[i])
    BY ChunksSteps
  <1> DEFINE S == {i \in 0..n : Cut(cut[i], i) /\ Sized(cut[i])}
  <1>2. n \in Nat
    OBVIOUS
  <1>3. 0 \in S
    <2>1. Cut(<< <<>> >>, 0)
      <3> DEFINE at == [j \in 0..1 |-> 0]
      <3>1. Len(<< <<>> >>) = 1 /\ << <<>> >>[1] = <<>> /\ SubSeq(actions, 1, 0) = <<>>
        OBVIOUS
      <3>0. \A j \in 1..1 : j = 1
        OBVIOUS
      <3>2. at \in [0..1 -> 0..0] /\ at[0] = 0 /\ at[1] = 0
        OBVIOUS
      <3> HIDE DEF at
      <3>4. at[1 - 1] = 0 /\ at[1 - 1] + 1 = 1
        BY <3>2
      <3> DEFINE b == << <<>> >>
      <3> HIDE DEF at, b
      <3>5. b[1] = SubSeq(actions, at[1 - 1] + 1, at[1])
        BY <3>1, <3>2, <3>4 DEF b
      <3>6. \A j \in 1..1 : at[j - 1] <= at[j] /\ b[j] = SubSeq(actions, at[j - 1] + 1, at[j])
        <4>1. at[1 - 1] <= at[1]
          BY <3>2, <3>4
        <4> QED BY <3>0, <3>5, <4>1
      <3>7. Len(b) = 1
        BY <3>1 DEF b
      <3>8. Cut(b, 0)
        BY <3>2, <3>6, <3>7 DEF Cut, Marks
      <3> QED BY <3>8 DEF b
    <2>2. Sized(<< <<>> >>)
      <3> DEFINE b == << <<>> >>
      <3>1. Len(b) = 1 /\ b[1] = <<>> /\ Len(<<>>) = 0
        OBVIOUS
      <3>2. \A j \in 1..1 : j = 1
        OBVIOUS
      <3> HIDE DEF b
      <3>3. Sized(b)
        BY <3>1, <3>2 DEF Sized
      <3> QED BY <3>3 DEF b
    <2>3. 0 \in 0..n
      BY <1>2
    <2>4. Cut(cut[0], 0) /\ Sized(cut[0])
      BY <1>1, <2>1, <2>2
    <2> QED BY <2>3, <2>4
  <1>4. ASSUME NEW i \in 1..n, i - 1 \in S PROVE i \in S
    <2>1. i - 1 \in 0..n /\ i \in 0..n /\ actions[i] \in Action
      BY <1>2
    <2>2. Cut(cut[i - 1], i - 1) /\ Sized(cut[i - 1])
      BY <1>4
    <2>3. cut[i - 1] \in Seq(Seq(Action)) /\ cut[i - 1] # <<>> /\ cut[i] = Packed(cut[i - 1], actions[i])
      BY <1>1, <2>1
    <2>4. Cut(cut[i], i)
      BY <2>2, <2>3, PackedCut
    <2>5. Sized(cut[i])
      BY <2>1, <2>2, <2>3, PackedSized
    <2> QED BY <2>1, <2>4, <2>5
  <1>5. 0..n \subseteq S
    <2> HIDE DEF S, n
    <2> QED BY <1>2, <1>3, <1>4, CountUp
  <1>6. n \in S
    <2> HIDE DEF S
    <2> QED BY <1>2, <1>5
  <1> QED BY <1>1, <1>6

\* The queue goes out as packets.
LEMMA BatchTypes == ASSUME actions \in Seq(Action) PROVE BatchPackets \in Seq(Packet)
  <1> DEFINE n == Len(Chunks)
  <1>1. Chunks \in Seq(Seq(Action))
    BY ChunksTypes
  <1>2. n \in Nat /\ DOMAIN Chunks = 1..n /\ \A i \in 1..n : Chunks[i] \in Seq(Action)
    BY <1>1
  <1>3. \A s \in Seq(Action) : Beat(s) \in Packet /\ Part(s) \in Packet
    BY DEF Beat, Part, Packet
  <1> HIDE DEF n
  <1>4. BatchPackets \in [1..n -> Packet]
    BY <1>2, <1>3 DEF BatchPackets, n
  <1> QED BY <1>2, <1>4

\* So do the empty batches, and the leaves.
LEMMA ReserveTypes ==
    /\ Reserve \in Seq(Packet) /\ Empty \in Packet /\ \A p \in Pids : Left(p) \in Packet
    /\ <<>> \in Seq(Packet)
  <1>1. Empty \in Packet
    BY DEF Empty, Packet
  <1>2. \A p \in Pids : Left(p) \in Packet
    BY DEF Left, Packet
  <1>3. Reserve \in [1..EmptyActions -> Packet]
    BY <1>1 DEF Reserve
  <1>4. EmptyActions \in Nat
    BY StreamAssumption
  <1> QED BY <1>1, <1>2, <1>3, <1>4

(***************************************************************************)
(* Beats                                                                   *)
(***************************************************************************)

\* The beats among the first i packets, and all of them.
BeatsTo(s, i) == {j \in 1..i : s[j].kind = "beat"}
Beats(s) == Cardinality(BeatsTo(s, Len(s)))

\* Place i is where the t-th beat is.
IsBeat(s, t, i) == s[i].kind = "beat" /\ Cardinality(BeatsTo(s, i)) = t

\* Beats can be counted, ...
LEMMA BeatsTypes ==
    ASSUME NEW s, NEW i \in Nat
    PROVE  IsFiniteSet(BeatsTo(s, i)) /\ Cardinality(BeatsTo(s, i)) \in Nat
  <1>1. IsFiniteSet(1..i)
    BY FS_Interval
  <1>2. BeatsTo(s, i) \subseteq 1..i
    BY DEF BeatsTo
  <1> QED BY <1>1, <1>2, FS_Subset, FS_CardinalityType

\* ... one by one, ...
LEMMA NextBeat ==
    ASSUME NEW s, NEW i \in Nat \ {0}
    PROVE  Cardinality(BeatsTo(s, i)) = IF s[i].kind = "beat"
                                        THEN Cardinality(BeatsTo(s, i - 1)) + 1
                                        ELSE Cardinality(BeatsTo(s, i - 1))
  <1>1. i - 1 \in Nat /\ i \notin BeatsTo(s, i - 1)
    BY DEF BeatsTo
  <1>2. BeatsTo(s, i) = IF s[i].kind = "beat" THEN BeatsTo(s, i - 1) \union {i} ELSE BeatsTo(s, i - 1)
    <2>1. 1..i = (1..i - 1) \union {i}
      OBVIOUS
    <2> QED BY <2>1 DEF BeatsTo
  <1>3. IsFiniteSet(BeatsTo(s, i - 1))
    BY <1>1, BeatsTypes
  <1>4. Cardinality(BeatsTo(s, i - 1) \union {i}) = Cardinality(BeatsTo(s, i - 1)) + 1
    BY <1>1, <1>3, FS_AddElement
  <1> QED BY <1>2, <1>4

\* ... and more packets have no fewer.
LEMMA BeatsGrow ==
    ASSUME NEW s, NEW i \in Nat, NEW j \in Nat, i <= j
    PROVE  Cardinality(BeatsTo(s, i)) <= Cardinality(BeatsTo(s, j))
  <1>1. BeatsTo(s, i) \subseteq BeatsTo(s, j)
    BY DEF BeatsTo
  <1> QED BY <1>1, BeatsTypes, FS_Subset

\* There is a t-th beat.
LEMMA BeatExists ==
    ASSUME NEW S, NEW s \in Seq(S), NEW t \in 1..Beats(s)
    PROVE  \E i \in 1..Len(s) : IsBeat(s, t, i)
  <1> DEFINE C(i) == Cardinality(BeatsTo(s, i))
             T == {i \in 0..Len(s) : t <= C(i)}
  <1>1. Len(s) \in Nat /\ \A i \in Nat : C(i) \in Nat
    BY BeatsTypes
  <1>2. t \in Nat /\ 1 <= t /\ t <= C(Len(s))
    BY <1>1 DEF Beats
  <1>3. PICK m \in T : \A y \in T : m <= y
    <2>1. Len(s) \in T
      BY <1>1, <1>2
    <2>2. T \in SUBSET Nat
      BY <1>1
    <2> HIDE DEF T
    <2> QED BY <2>1, <2>2, Smallest
  <1>4. m # 0
    <2>1. BeatsTo(s, 0) = {}
      BY DEF BeatsTo
    <2>2. C(0) = 0
      BY <2>1, FS_EmptySet
    <2> QED BY <1>2, <1>3, <2>2
  <1>5. m \in 1..Len(s) /\ m \in Nat \ {0} /\ m - 1 \in 0..Len(s) /\ m - 1 \in Nat
    BY <1>1, <1>3, <1>4
  <1>6. C(m - 1) < t /\ t <= C(m)
    <2>1. m - 1 \notin T
      BY <1>3, <1>5
    <2> QED BY <1>1, <1>2, <1>3, <1>5, <2>1
  <1>7. C(m) = IF s[m].kind = "beat" THEN C(m - 1) + 1 ELSE C(m - 1)
    BY <1>5, NextBeat
  <1>8. C(m) \in Nat /\ C(m - 1) \in Nat
    BY <1>1, <1>5
  <1> HIDE DEF C
  <1>9. s[m].kind = "beat" /\ C(m) = t
    BY <1>2, <1>6, <1>7, <1>8
  <1> QED BY <1>5, <1>9 DEF IsBeat, C

\* The t-th beat is in one place only.
LEMMA BeatUnique ==
    ASSUME NEW s, NEW t, NEW i \in Nat \ {0}, NEW j \in Nat \ {0}, IsBeat(s, t, i), IsBeat(s, t, j)
    PROVE  i = j
  <1>1. ASSUME NEW a \in Nat \ {0}, NEW b \in Nat \ {0}, a < b, IsBeat(s, t, a), IsBeat(s, t, b)
        PROVE  FALSE
    <2>1. b - 1 \in Nat /\ a <= b - 1
      BY <1>1
    <2>2. Cardinality(BeatsTo(s, a)) <= Cardinality(BeatsTo(s, b - 1))
      BY <2>1, BeatsGrow
    <2>3. Cardinality(BeatsTo(s, b)) = Cardinality(BeatsTo(s, b - 1)) + 1
      BY <1>1, NextBeat DEF IsBeat
    <2>4. Cardinality(BeatsTo(s, b - 1)) \in Nat
      BY <2>1, BeatsTypes
    <2> QED BY <1>1, <2>2, <2>3, <2>4 DEF IsBeat
  <1> QED BY <1>1

\* What is sent afterwards does not move a beat.
LEMMA BeatStays ==
    ASSUME NEW S, NEW s \in Seq(S), NEW u \in Seq(S), NEW t \in 1..Beats(s)
    PROVE  /\ BeatAt(s \o u, t) = BeatAt(s, t) /\ BeatAt(s, t) \in 1..Len(s)
           /\ SubSeq(s \o u, 1, BeatAt(s \o u, t)) = SubSeq(s, 1, BeatAt(s, t))
           /\ Beats(s) <= Beats(s \o u)
  <1> DEFINE v == s \o u
  <1>1. /\ v \in Seq(S) /\ Len(s) \in Nat /\ Len(v) \in Nat /\ Len(s) <= Len(v)
        /\ \A i \in 1..Len(s) : v[i] = s[i]
    OBVIOUS
  <1> HIDE DEF v
  <1>2. ASSUME NEW i \in 0..Len(s) PROVE BeatsTo(v, i) = BeatsTo(s, i)
    BY <1>1, SMTT(15), ZenonT(40) DEF BeatsTo
  <1>3. ASSUME NEW i \in 1..Len(s) PROVE IsBeat(v, t, i) <=> IsBeat(s, t, i)
    <2>1. BeatsTo(v, i) = BeatsTo(s, i) /\ v[i] = s[i]
      BY <1>1, <1>2
    <2> QED BY <2>1 DEF IsBeat
  <1>4. PICK i \in 1..Len(s) : IsBeat(s, t, i)
    BY BeatExists
  <1>5. ASSUME NEW w \in {s, v} PROVE BeatAt(w, t) = i
    <2>1. w \in Seq(S) /\ i \in DOMAIN w /\ DOMAIN w \subseteq Nat \ {0} /\ IsBeat(w, t, i)
      BY <1>1, <1>3, <1>4
    <2>2. \A j \in DOMAIN w : IsBeat(w, t, j) <=> j = i
      BY <2>1, BeatUnique
    <2>3. BeatAt(w, t) = CHOOSE j \in DOMAIN w : IsBeat(w, t, j)
      BY DEF BeatAt, IsBeat, BeatsTo
    <2> QED BY <2>1, <2>2, <2>3
  <1>6. SubSeq(v, 1, i) = SubSeq(s, 1, i)
    BY <1>1, <1>4 DEF v
  <1>7. Beats(s) <= Beats(v)
    <2>1. BeatsTo(v, Len(s)) = BeatsTo(s, Len(s))
      BY <1>1, <1>2
    <2> QED BY <1>1, <2>1, BeatsGrow DEF Beats
  <1> QED BY <1>4, <1>5, <1>6, <1>7 DEF v

\* Sending more makes no fewer beats.
LEMMA BeatsMore ==
    ASSUME NEW S, NEW s \in Seq(S), NEW u \in Seq(S)
    PROVE  Beats(s) \in Nat /\ Beats(s) <= Beats(s \o u)
  <1>1. Len(s) \in Nat /\ Len(s \o u) \in Nat
    OBVIOUS
  <1>2. Beats(s) \in Nat /\ Beats(s \o u) \in Nat
    BY <1>1, BeatsTypes DEF Beats
  <1>3. CASE Beats(s) = 0
    BY <1>2, <1>3
  <1>4. CASE Beats(s) # 0
    <2>1. 1 \in 1..Beats(s)
      BY <1>2, <1>4
    <2> QED BY <1>2, <2>1, BeatStays
  <1> QED BY <1>3, <1>4

(***************************************************************************)
(* Types                                                                   *)
(***************************************************************************)

\* The types of what TypeOK leaves out.
StreamTypes ==
    /\ handed \in [Pids -> Seq(Packet)]
    /\ loading_blocks \in Seq(Packet) /\ compiled_blocks \in Seq(Packet)
    /\ state \in [Pids -> Nat] /\ since \in [Pids -> Nat] /\ faults \in Nat
    /\ dropped \in BOOLEAN /\ checksums = [p \in Pids |-> checksums[p]]

\* Everything has its type.
TInv == TypeOK /\ StreamTypes

\* It has at the start, ...
LEMMA TypeInit == Init => TInv
  <1> SUFFICES ASSUME Init PROVE TInv
    OBVIOUS
  <1>1. TypeOK
    <2>1. actions \in Seq([pid : players, len : Lengths])
      BY DEF Init
    <2>2. {game_loaded, lagging, comparing} \subseteq BOOLEAN
      BY DEF Init
    <2> QED BY <2>1, <2>2 DEF Init, TypeOK
  <1>2. StreamTypes
    BY ReserveTypes DEF Init, StreamTypes
  <1> QED BY <1>1, <1>2 DEF TInv

\* What is queued are actions of players.
LEMMA QueuedActions == ASSUME TypeOK PROVE actions \in Seq(Action)
  <1> DEFINE A == [pid : players, len : Lengths]
  <1>1. A \subseteq Action
    BY DEF TypeOK, Action
  <1>2. actions \in Seq(A)
    BY DEF TypeOK
  <1> HIDE DEF A
  <1> QED BY <1>1, <1>2

\* Whom the desync detection removes comes in a sequence of its own.
LEMMA GoneTypes == ASSUME NEW gone \in BoundedSeq(Pids, Cardinality(Pids)) PROVE gone \in Seq(Pids)
  <1>1. Cardinality(Pids) \in Nat
    BY StreamAssumption, FS_CardinalityType
  <1> QED BY <1>1 DEF BoundedSeq, SeqOf

\* Removing players keeps the types, whatever becomes of the queues of checksums.
LEMMA RemoveTypes ==
    ASSUME TInv, NEW gone \in Seq(Pids), RemovePlayers(gone), game_loaded' \in BOOLEAN,
           comparing' \in BOOLEAN, checksum_turn' \in Nat, dropped' \in BOOLEAN,
           checksums' = [p \in Pids |-> checksums'[p]]
    PROVE  TInv'
  <1> DEFINE leaves == [i \in DOMAIN gone |-> Left(gone[i])]
             stay == players \ ToSet(gone)
  <1>1. leaves \in Seq(Packet)
    BY ReserveTypes
  <1>2. actions' \in Seq([pid : stay, len : Lengths])
    BY Purged DEF TInv, TypeOK, RemovePlayers
  <1> HIDE DEF leaves, stay
  <1>3. /\ players' = stay /\ laggers' = laggers \intersect stay
        /\ finished' = finished \intersect stay
        /\ counter' = [p \in Pids |-> IF p \in stay THEN counter[p] ELSE 0]
        /\ played' = [p \in Pids |-> IF p \in stay THEN played[p] ELSE 0]
        /\ UNCHANGED <<lagging, sync_counter>>
    BY DEF RemovePlayers, stay
  <1>4. stay \subseteq players
    BY DEF stay
  <1>5. TypeOK'
    BY <1>2, <1>3, <1>4 DEF TInv, TypeOK
  <1>6. /\ handed' = [p \in Pids |-> IF p \in stay THEN handed[p] \o leaves ELSE <<>>]
        /\ state' = [p \in Pids |-> IF p \in stay THEN state[p] ELSE 0]
        /\ since' = [p \in Pids |-> IF p \in stay THEN since[p] ELSE 0]
        /\ UNCHANGED faults /\ RecordLeaves(leaves)
    BY DEF RemovePlayers, stay, leaves
  <1>7. handed' \in [Pids -> Seq(Packet)]
    BY <1>1, <1>6, ReserveTypes DEF TInv, StreamTypes
  <1>8. loading_blocks' \in Seq(Packet) /\ compiled_blocks' \in Seq(Packet)
    <2>1. loading_blocks \in Seq(Packet) /\ compiled_blocks \in Seq(Packet)
      BY DEF TInv, StreamTypes
    <2>2. \/ compiled_blocks' = compiled_blocks \o leaves /\ UNCHANGED loading_blocks
          \/ loading_blocks' = loading_blocks \o leaves /\ UNCHANGED compiled_blocks
      BY <1>6 DEF RecordLeaves
    <2>3. loading_blocks \o leaves \in Seq(Packet) /\ compiled_blocks \o leaves \in Seq(Packet)
      BY <1>1, <2>1
    <2> QED BY <2>1, <2>2, <2>3
  <1>9. StreamTypes'
    BY <1>6, <1>7, <1>8 DEF TInv, StreamTypes
  <1> QED BY <1>5, <1>9 DEF TInv

\* What is handed to everybody and recorded.
LEMMA HandTypes ==
    ASSUME StreamTypes, NEW packets \in Seq(Packet), Hand(packets),
           compiled_blocks' = compiled_blocks \o ReplayReserve \o packets
    PROVE  handed' \in [Pids -> Seq(Packet)] /\ compiled_blocks' \in Seq(Packet)
  <1>1. /\ ReplayReserve \in Seq(Packet)
        /\ \A p \in Pids : GProxyReserve(p) \in Seq(Packet) /\ HostReserve(p) \in Seq(Packet)
    BY ReserveTypes DEF ReplayReserve, GProxyReserve, HostReserve
  <1>2. ASSUME NEW p \in Pids PROVE handed'[p] \in Seq(Packet)
    <2>1. handed[p] \in Seq(Packet)
      BY DEF StreamTypes
    <2> QED BY <1>1, <2>1 DEF Hand
  <1>3. handed' = [p \in Pids |-> handed'[p]]
    BY DEF Hand
  <1> QED BY <1>1, <1>2, <1>3 DEF StreamTypes

\* ... and after every step.
LEMMA TypeNext == TInv /\ [Next]_vars => TInv'
  <1> SUFFICES ASSUME TInv, [Next]_vars PROVE TInv'
    OBVIOUS
  <1>a. TypeOK /\ StreamTypes
    BY DEF TInv
  <1>1. ASSUME NEW p \in Pids, Leave(p) PROVE TInv'
    <2>1. /\ RemovePlayers(<<p>>) /\ CheckLoadingComplete(Kept(checksums))
          /\ UNCHANGED <<checksum_turn, comparing, dropped>>
      BY <1>1 DEF Leave
    <2>2. <<p>> \in Seq(Pids)
      OBVIOUS
    <2>3. game_loaded' \in BOOLEAN
      BY <1>a, <2>1 DEF CheckLoadingComplete, TypeOK
    <2>4. checksums' = [q \in Pids |-> checksums'[q]]
      <3>1. checksums' \in {Level(Kept(checksums)), Kept(checksums)}
        BY <2>1 DEF CheckLoadingComplete
      <3> QED BY <3>1 DEF Level, Kept
    <2> QED BY <1>a, <2>1, <2>2, <2>3, <2>4, RemoveTypes DEF TypeOK, StreamTypes
  <1>2. ASSUME NEW p \in Pids, SpareKeepalive(p) PROVE TInv'
    <2>1. /\ counter' = [counter EXCEPT ![p] = @ + 1]
          /\ checksums' = [checksums EXCEPT ![p] = Append(@, [stream |-> <<>>, state |-> 0])]
          /\ UNCHANGED <<players, loading, actions, lag, sync_counter, checksum_turn, comparing,
                   stream, games, dropped, faults>>
      BY <1>2 DEF SpareKeepalive
    <2>2. TypeOK'
      BY <1>a, <2>1 DEF TypeOK, loading, lag, games
    <2>3. checksums' = [q \in Pids |-> checksums'[q]]
      BY <1>a, <2>1 DEF StreamTypes
    <2>4. StreamTypes'
      BY <1>a, <2>1, <2>3 DEF StreamTypes, stream, games
    <2> QED BY <2>2, <2>4 DEF TInv
  <1>3. ASSUME NEW p \in Pids, PlayerLoaded(p) PROVE TInv'
    <2>1. /\ finished' = finished \union {p} /\ players' = players
          /\ CheckLoadingComplete([checksums EXCEPT ![p] = <<>>])
          /\ UNCHANGED <<actions, lag, sync_counter, counter, checksum_turn, comparing, stream,
                         games, dropped, faults>>
      BY <1>3 DEF PlayerLoaded
    <2>2. game_loaded' \in BOOLEAN
      BY <1>a, <2>1 DEF CheckLoadingComplete, TypeOK
    <2>3. checksums' = [q \in Pids |-> checksums'[q]]
      <3>1. checksums' \in {Level([checksums EXCEPT ![p] = <<>>]), [checksums EXCEPT ![p] = <<>>]}
        BY <2>1 DEF CheckLoadingComplete
      <3> QED BY <1>a, <3>1 DEF Level, StreamTypes
    <2>4. TypeOK'
      BY <1>a, <2>1, <2>2 DEF TypeOK, lag, games
    <2>5. StreamTypes'
      BY <1>a, <2>1, <2>3 DEF StreamTypes, stream, games
    <2> QED BY <2>4, <2>5 DEF TInv
  <1>4. ASSUME NEW p \in Pids, NEW len \in Lengths, OutgoingAction(p, len) PROVE TInv'
    <2>1. /\ p \in players /\ actions' = Append(actions, [pid |-> p, len |-> len])
          /\ UNCHANGED <<players, loading, lag, sync, stream, games, dropped, faults>>
      BY <1>4 DEF OutgoingAction
    <2>2. actions' \in Seq([pid : players, len : Lengths])
      BY <1>a, <2>1 DEF TypeOK
    <2>3. TypeOK'
      BY <1>a, <2>1, <2>2 DEF TypeOK, loading, lag, sync, games
    <2>4. StreamTypes'
      BY <1>a, <2>1 DEF StreamTypes, stream, games, sync
    <2> QED BY <2>3, <2>4 DEF TInv
  <1>5. CASE GameTick
    <2>1. /\ UNCHANGED <<players, loading, counter, checksums, checksum_turn, comparing, games,
                         dropped, faults>>
          /\ lagging' = (laggers' # {}) /\ laggers' \subseteq players
          /\ \/ SendAllActions \/ ShowLagScreenAgain \/ UNCHANGED <<actions, sync_counter, stream>>
      BY <1>a, <1>5 DEF GameTick, TypeOK
    <2>2. /\ actions' \in Seq([pid : players, len : Lengths]) /\ sync_counter' \in Nat
          /\ handed' \in [Pids -> Seq(Packet)]
          /\ loading_blocks' \in Seq(Packet) /\ compiled_blocks' \in Seq(Packet)
      <3>1. CASE SendAllActions
        <4>1. BatchPackets \in Seq(Packet)
          BY <1>a, QueuedActions, BatchTypes
        <4>2. handed' \in [Pids -> Seq(Packet)] /\ compiled_blocks' \in Seq(Packet)
          BY <1>a, <3>1, <4>1, HandTypes DEF SendAllActions
        <4>3. /\ actions' = <<>> /\ sync_counter' = sync_counter + 1
              /\ loading_blocks' = loading_blocks
          BY <3>1 DEF SendAllActions
        <4> QED BY <1>a, <4>2, <4>3 DEF TypeOK, StreamTypes
      <3>2. CASE ShowLagScreenAgain
        <4>1. <<Empty>> \in Seq(Packet)
          BY ReserveTypes
        <4>2. handed' \in [Pids -> Seq(Packet)] /\ compiled_blocks' \in Seq(Packet)
          BY <1>a, <3>2, <4>1, HandTypes DEF ShowLagScreenAgain
        <4> QED BY <1>a, <3>2, <4>2 DEF ShowLagScreenAgain, TypeOK, StreamTypes
      <3>3. CASE UNCHANGED <<actions, sync_counter, stream>>
        BY <1>a, <3>3 DEF TypeOK, StreamTypes, stream
      <3> QED BY <2>1, <3>1, <3>2, <3>3
    <2>3. TypeOK'
      BY <1>a, <2>1, <2>2 DEF TypeOK, loading, games
    <2>4. StreamTypes'
      BY <1>a, <2>1, <2>2 DEF StreamTypes, games
    <2> QED BY <2>3, <2>4 DEF TInv
  <1>6. ASSUME NEW p \in Pids, Keepalive(p) PROVE TInv'
    <2>1. /\ \/ UNCHANGED <<state, since, faults>>
             \/ \E s \in 1..MaxDiverged : Diverge(p, s)
          /\ played' = [played EXCEPT ![p] = @ + 1] /\ counter' = [counter EXCEPT ![p] = @ + 1]
          /\ UNCHANGED <<players, loading, actions, lag, sync_counter, checksum_turn, stream, dropped>>
          /\ checksums' = [checksums EXCEPT ![p] = Append(@, Checksum(p, played[p])')]
          /\ comparing' = Ready(players, checksums')
      BY <1>6 DEF Keepalive
    <2>2. TypeOK'
      BY <1>a, <2>1, SMTT(15), ZenonT(40) DEF TypeOK, loading, lag, Ready
    <2>3. state' \in [Pids -> Nat] /\ since' \in [Pids -> Nat] /\ faults' \in Nat
      <3>1. CASE UNCHANGED <<state, since, faults>>
        BY <1>a, <3>1 DEF StreamTypes
      <3>2. ASSUME NEW s \in 1..MaxDiverged, Diverge(p, s)
            PROVE  state' \in [Pids -> Nat] /\ since' \in [Pids -> Nat] /\ faults' \in Nat
        <4>1. s \in Nat /\ played[p] + 1 \in Nat
          BY <1>a, StreamAssumption DEF TypeOK
        <4> QED BY <1>a, <3>2, <4>1 DEF Diverge, StreamTypes
      <3> QED BY <2>1, <3>1, <3>2
    <2>4. checksums' = [q \in Pids |-> checksums'[q]]
      <3> DEFINE c == Append(checksums[p], Checksum(p, played[p])')
      <3>1. checksums' = [checksums EXCEPT ![p] = c]
        BY <2>1
      <3> HIDE DEF c
      <3> QED BY <1>a, <3>1 DEF StreamTypes
    <2>5. StreamTypes'
      BY <1>a, <2>1, <2>3, <2>4 DEF StreamTypes, stream
    <2> QED BY <2>2, <2>5 DEF TInv
  <1>7. ASSUME NEW gone \in BoundedSeq(Pids, Cardinality(Pids)), CheckDesync(gone) PROVE TInv'
    <2>1. gone \in Seq(Pids)
      BY GoneTypes
    <2>2. /\ checksum_turn' = checksum_turn + 1 /\ dropped' = (dropped \/ Victims # {})
          /\ RemovePlayers(gone) /\ game_loaded' = game_loaded
          /\ checksums' = Kept([p \in Pids |-> IF p \in players THEN Tail(checksums[p]) ELSE <<>>])
          /\ comparing' = Ready(players', checksums')
      BY <1>7 DEF CheckDesync
    <2>3. checksums' = [q \in Pids |-> checksums'[q]]
      BY <2>2 DEF Kept
    <2>4. comparing' \in BOOLEAN /\ dropped' \in BOOLEAN
      BY <2>2 DEF Ready
    <2>5. checksum_turn' \in Nat /\ game_loaded' \in BOOLEAN
      BY <1>a, <2>2 DEF TypeOK
    <2>6. RemovePlayers(gone)
      BY <2>2
    <2> QED BY <2>1, <2>3, <2>4, <2>5, <2>6, RemoveTypes
  <1>8. CASE UNCHANGED vars
    <2>1. TypeOK'
      BY <1>a, <1>8 DEF vars, TypeOK, loading, lag, sync, games
    <2>2. StreamTypes'
      BY <1>a, <1>8 DEF vars, StreamTypes, stream, games, sync
    <2> QED BY <2>1, <2>2 DEF TInv
  <1> QED BY <1>1, <1>2, <1>3, <1>4, <1>5, <1>6, <1>7, <1>8 DEF Next

(***************************************************************************)
(* Who is dropped                                                          *)
(***************************************************************************)

\* Those in somebody's state can be counted.
LEMMA StatesTypes ==
    ASSUME IsFiniteSet(players), NEW p
    PROVE  /\ SameState(p) \subseteq players /\ IsFiniteSet(SameState(p))
           /\ Cardinality(SameState(p)) \in Nat /\ Cardinality(players) \in Nat
  <1>1. SameState(p) \subseteq players
    BY DEF SameState
  <1> QED BY <1>1, FS_Subset, FS_CardinalityType

\* The players with the most players in their state.
Largest == {p \in players : \A q \in players :
                Cardinality(SameState(q)) <= Cardinality(SameState(p))}

\* Victims in terms of the largest group.
LEMMA VictimsAre ==
    Victims = IF \E p \in Largest : SameState(p) = Largest THEN players \ Largest ELSE players
  BY DEF Victims, Largest

\* Those who play on were in the same state.
LEMMA SurvivorsAgree ==
    ASSUME NEW p \in players \ Victims, NEW q \in players \ Victims
    PROVE  Head(checksums[p]) = Head(checksums[q])
  <1>1. PICK r \in Largest : SameState(r) = Largest
    BY VictimsAre
  <1>2. p \in SameState(r) /\ q \in SameState(r)
    BY <1>1, VictimsAre
  <1> QED BY <1>2 DEF SameState

\* Nobody is dropped when all are in the same state.
LEMMA NoVictims ==
    ASSUME IsFiniteSet(players), players # {},
           \A p, q \in players : Head(checksums[p]) = Head(checksums[q])
    PROVE  Victims = {}
  <1>1. \A p \in players : SameState(p) = players
    BY DEF SameState
  <1>2. Cardinality(players) \in Nat
    BY FS_CardinalityType
  <1>3. Largest = players
    BY <1>1, <1>2 DEF Largest
  <1> QED BY <1>1, <1>3, VictimsAre

\* Nobody is dropped who has more than half the players in the same state.
LEMMA MajoritySafe ==
    ASSUME IsFiniteSet(players), NEW p \in players,
           2 * Cardinality(SameState(p)) > Cardinality(players)
    PROVE  p \notin Victims
  <1> DEFINE C(q) == Cardinality(SameState(q))
  <1>1. \A q : C(q) \in Nat /\ IsFiniteSet(SameState(q)) /\ SameState(q) \subseteq players
    BY StatesTypes
  <1>2. Cardinality(players) \in Nat
    BY FS_CardinalityType
  <1>3. ASSUME NEW q \in players, q \notin SameState(p) PROVE C(q) < C(p)
    <2>1. SameState(q) \intersect SameState(p) = {}
      BY <1>3 DEF SameState
    <2>2. Cardinality(SameState(q) \union SameState(p)) = C(q) + C(p)
      <3>1. Cardinality(SameState(q) \union SameState(p))
              = C(q) + C(p) - Cardinality(SameState(q) \intersect SameState(p))
        BY <1>1, FS_Union
      <3>2. Cardinality(SameState(q) \intersect SameState(p)) = 0
        BY <2>1, FS_EmptySet
      <3>3. C(q) \in Nat /\ C(p) \in Nat
        BY <1>1
      <3> HIDE DEF C
      <3> QED BY <3>1, <3>2, <3>3
    <2>3. SameState(q) \union SameState(p) \subseteq players
      BY <1>1
    <2>4. C(q) + C(p) <= Cardinality(players)
      BY <2>2, <2>3, FS_Subset
    <2>5. C(q) \in Nat /\ C(p) \in Nat /\ 2 * C(p) > Cardinality(players)
      BY <1>1
    <2> HIDE DEF C
    <2> QED BY <1>2, <2>4, <2>5
  <1>4. ASSUME NEW q \in SameState(p) PROVE SameState(q) = SameState(p)
    BY <1>4 DEF SameState
  <1>5. ASSUME NEW q \in players PROVE C(q) <= C(p)
    <2>1. C(q) \in Nat /\ C(p) \in Nat
      BY <1>1
    <2>2. CASE q \in SameState(p)
      BY <1>4, <2>1, <2>2
    <2>3. CASE q \notin SameState(p)
      <3>1. C(q) < C(p)
        BY <1>3, <2>3
      <3> HIDE DEF C
      <3> QED BY <2>1, <3>1
    <2> QED BY <2>2, <2>3
  <1>6. p \in SameState(p)
    BY DEF SameState
  <1>7. Largest = SameState(p)
    <2>1. ASSUME NEW q \in Largest PROVE q \in SameState(p)
      <3>1. q \in players /\ C(p) <= C(q) /\ C(p) \in Nat /\ C(q) \in Nat
        BY <1>1, <2>1 DEF Largest
      <3>2. ~(C(q) < C(p))
        <4> HIDE DEF C
        <4> QED BY <3>1
      <3> QED BY <1>3, <3>1, <3>2
    <2>2. ASSUME NEW q \in SameState(p) PROVE q \in Largest
      BY <1>1, <1>4, <1>5, <2>2 DEF Largest
    <2> QED BY <2>1, <2>2
  <1> QED BY <1>6, <1>7, VictimsAre

(***************************************************************************)
(* The streams                                                             *)
(***************************************************************************)

\* Before all have loaded nobody has played or been compared.
Early ==
    ~game_loaded => /\ compiled_blocks = <<>> /\ checksum_turn = 0
                    /\ \A p \in Pids : played[p] = 0

\* A client plays what it was handed, and a turn is compared when all played it.
Turns == \A p \in players : checksum_turn <= played[p] /\ played[p] <= Beats(handed[p])

\* The comparison goes on while everybody has a checksum waiting.
Compares ==
    comparing => game_loaded /\ players # {} /\ \A p \in players : checksum_turn < played[p]

\* Who diverged did so by a fault.
Faulty == \A p \in Pids : state[p] # 0 => faults > 0

\* The inductive invariant.
AInv ==
    /\ TInv /\ SameStream /\ QueuesAligned /\ VerdictsFair
    /\ Early /\ Turns /\ Compares /\ Faulty

\* The numbers and sets all steps need.
LEMMA AFacts ==
    ASSUME AInv
    PROVE  /\ TypeOK /\ StreamTypes /\ players \subseteq Pids /\ IsFiniteSet(players)
           /\ checksum_turn \in Nat /\ faults \in Nat
           /\ \A p \in Pids : played[p] \in Nat /\ handed[p] \in Seq(Packet)
                             /\ Beats(handed[p]) \in Nat
  <1>1. TypeOK /\ StreamTypes /\ players \subseteq Pids
    BY DEF AInv, TInv, TypeOK
  <1>2. IsFiniteSet(players)
    BY <1>1, StreamAssumption, FS_Subset
  <1>3. \A p \in Pids : handed[p] \in Seq(Packet)
    BY <1>1 DEF StreamTypes
  <1>4. \A p \in Pids : Beats(handed[p]) \in Nat
    BY <1>3, ReserveTypes, BeatsMore
  <1> QED BY <1>1, <1>2, <1>3, <1>4 DEF TypeOK, StreamTypes

\* A checksum of a beat a client played is what it was, whatever is sent to it
\* afterwards.
LEMMA ChecksumStays ==
    ASSUME NEW p \in Pids, handed[p] \in Seq(Packet), NEW u \in Seq(Packet),
           handed'[p] = handed[p] \o u, state'[p] = state[p], since'[p] = since[p],
           NEW t \in 1..Beats(handed[p])
    PROVE  Checksum(p, t)' = Checksum(p, t)
  <1>1. SubSeq(handed'[p], 1, BeatAt(handed'[p], t)) = SubSeq(handed[p], 1, BeatAt(handed[p], t))
    <2> DEFINE s == handed[p]
    <2>1. s \in Seq(Packet) /\ t \in 1..Beats(s)
      OBVIOUS
    <2> HIDE DEF s
    <2>2. SubSeq(s \o u, 1, BeatAt(s \o u, t)) = SubSeq(s, 1, BeatAt(s, t))
      BY <2>1, BeatStays
    <2> QED BY <2>2 DEF s
  <1> QED BY <1>1 DEF Checksum

\* Verdicts stay fair while the checksums of what was played stay.
LEMMA FairStays ==
    ASSUME AInv, players' \subseteq players, checksum_turn' = checksum_turn, dropped' = dropped,
           faults' \in Nat, faults <= faults',
           \A p \in players' : \A t \in 1..played[p] : Checksum(p, t)' = Checksum(p, t)
    PROVE  VerdictsFair'
  <1>1. dropped' => faults' > 0
    BY AFacts DEF AInv, VerdictsFair
  <1>2. ASSUME NEW p \in players', NEW q \in players', NEW t \in 1..checksum_turn'
        PROVE  Checksum(p, t)' = Checksum(q, t)'
    <2>1. p \in players /\ q \in players /\ p \in Pids /\ q \in Pids
      BY AFacts
    <2>2. t \in 1..played[p] /\ t \in 1..played[q]
      BY <2>1, AFacts DEF AInv, Turns
    <2>3. Checksum(p, t) = Checksum(q, t)
      BY <2>1 DEF AInv, VerdictsFair
    <2> QED BY <2>2, <2>3
  <1> QED BY <1>1, <1>2 DEF VerdictsFair

\* So do the queues.
LEMMA AlignedStays ==
    ASSUME AInv, players' \subseteq players, checksum_turn' = checksum_turn,
           game_loaded' => game_loaded,
           \A p \in players' : played'[p] = played[p] /\ checksums'[p] = checksums[p],
           \A p \in players' : \A t \in 1..played[p] : Checksum(p, t)' = Checksum(p, t)
    PROVE  QueuesAligned'
  <1> SUFFICES ASSUME game_loaded', NEW p \in players'
               PROVE  checksums'[p] = [i \in 1..(played'[p] - checksum_turn')
                                         |-> Checksum(p, checksum_turn + i)']
    BY DEF QueuesAligned
  <1>1. p \in players /\ played[p] \in Nat /\ checksum_turn \in Nat
    BY AFacts
  <1>2. checksums[p] = [i \in 1..(played[p] - checksum_turn) |-> Checksum(p, checksum_turn + i)]
    BY <1>1 DEF AInv, QueuesAligned
  <1>3. ASSUME NEW i \in 1..(played[p] - checksum_turn)
        PROVE  Checksum(p, checksum_turn + i)' = Checksum(p, checksum_turn + i)
    <2>1. checksum_turn + i \in 1..played[p]
      BY <1>1
    <2>2. \A t \in 1..played[p] : Checksum(p, t)' = Checksum(p, t)
      OBVIOUS
    <2> QED BY <2>1, <2>2
  <1> QED BY <1>2, <1>3

\* What leaving does to who stays.
LEMMA Removed ==
    ASSUME AInv, NEW gone \in Seq(Pids), RemovePlayers(gone)
    PROVE  /\ players' = players \ ToSet(gone) /\ SameStream' /\ faults' = faults /\ Faulty'
           /\ \A p \in players' :
                 /\ played'[p] = played[p] /\ played[p] <= Beats(handed'[p])
                 /\ \A t \in 1..played[p] : Checksum(p, t)' = Checksum(p, t)
           /\ \A p \in Pids : played'[p] = played[p] \/ played'[p] = 0
           /\ (compiled_blocks = <<>> /\ ~game_loaded) => compiled_blocks' = <<>>
  <1> DEFINE leaves == [i \in DOMAIN gone |-> Left(gone[i])]
             stay == players \ ToSet(gone)
  <1>1. leaves \in Seq(Packet)
    BY ReserveTypes
  <1>2. /\ players' = stay /\ faults' = faults /\ RecordLeaves(leaves)
        /\ handed' = [p \in Pids |-> IF p \in stay THEN handed[p] \o leaves ELSE <<>>]
        /\ played' = [p \in Pids |-> IF p \in stay THEN played[p] ELSE 0]
        /\ state' = [p \in Pids |-> IF p \in stay THEN state[p] ELSE 0]
        /\ since' = [p \in Pids |-> IF p \in stay THEN since[p] ELSE 0]
    BY DEF RemovePlayers
  <1>3. stay \subseteq players /\ stay = players \ ToSet(gone)
    OBVIOUS
  <1> HIDE DEF leaves, stay
  <1>4. Replay' = Replay \o leaves
    <2>1. loading_blocks \in Seq(Packet) /\ compiled_blocks \in Seq(Packet)
      BY AFacts DEF StreamTypes
    <2>2. CASE game_loaded
      <3>1. loading_blocks' = loading_blocks /\ compiled_blocks' = compiled_blocks \o leaves
        BY <1>2, <2>2 DEF RecordLeaves
      <3>2. loading_blocks \o (compiled_blocks \o leaves) = (loading_blocks \o compiled_blocks) \o leaves
        BY <1>1, <2>1
      <3> QED BY <3>1, <3>2 DEF Replay
    <2>3. CASE ~game_loaded
      <3>1. /\ loading_blocks' = loading_blocks \o leaves /\ compiled_blocks' = compiled_blocks
            /\ compiled_blocks = <<>>
        BY <1>2, <2>3 DEF RecordLeaves, AInv, Early
      <3>2. (loading_blocks \o leaves) \o <<>> = (loading_blocks \o <<>>) \o leaves
        BY <1>1, <2>1
      <3> QED BY <3>1, <3>2 DEF Replay
    <2> QED BY <2>2, <2>3
  <1>5. SameStream'
    <2> SUFFICES ASSUME NEW p \in stay PROVE handed'[p] = Replay'
      BY <1>2 DEF SameStream
    <2>1. p \in players /\ p \in Pids
      BY <1>3, AFacts
    <2>2. handed[p] = Replay
      BY <2>1 DEF AInv, SameStream
    <2> QED BY <1>2, <1>4, <2>1, <2>2
  <1>6. Faulty'
    BY <1>2 DEF AInv, Faulty
  <1>7. ASSUME NEW p \in stay
        PROVE  /\ played'[p] = played[p] /\ played[p] <= Beats(handed'[p])
               /\ \A t \in 1..played[p] : Checksum(p, t)' = Checksum(p, t)
    <2>1. p \in Pids /\ p \in players
      BY <1>3, AFacts
    <2>2. handed[p] \in Seq(Packet) /\ played[p] \in Nat /\ Beats(handed[p]) \in Nat
      BY <2>1, AFacts
    <2>3. played[p] <= Beats(handed[p])
      BY <2>1 DEF AInv, Turns
    <2>4. /\ handed'[p] = handed[p] \o leaves /\ state'[p] = state[p] /\ since'[p] = since[p]
          /\ played'[p] = played[p]
      BY <1>2, <2>1
    <2>5. Beats(handed[p] \o leaves) \in Nat /\ Beats(handed[p]) <= Beats(handed[p] \o leaves)
      <3>1. handed[p] \o leaves \in Seq(Packet)
        BY <1>1, <2>2
      <3> QED BY <1>1, <2>2, <3>1, BeatsMore
    <2>6. ASSUME NEW t \in 1..played[p] PROVE Checksum(p, t)' = Checksum(p, t)
      <3>1. t \in 1..Beats(handed[p])
        BY <2>2, <2>3
      <3> QED BY <1>1, <2>1, <2>2, <2>4, <3>1, ChecksumStays
    <2> QED BY <2>2, <2>3, <2>4, <2>5, <2>6
  <1>8. \A p \in Pids : played'[p] = played[p] \/ played'[p] = 0
    BY <1>2
  <1>9. (compiled_blocks = <<>> /\ ~game_loaded) => compiled_blocks' = <<>>
    BY <1>2 DEF RecordLeaves
  <1> QED BY <1>2, <1>3, <1>5, <1>6, <1>7, <1>8, <1>9

\* Putting sequences one after the other.
LEMMA Concat ==
    ASSUME NEW S, NEW a \in Seq(S), NEW b \in Seq(S), NEW c \in Seq(S)
    PROVE  /\ (a \o b) \o c = a \o (b \o c) /\ a \o b \in Seq(S)
           /\ a \o <<>> = a
  <1>1. (a \o b) \o c = a \o (b \o c)
    OBVIOUS
  <1>2. a \o <<>> = a
    OBVIOUS
  <1>3. a \o b \in Seq(S)
    OBVIOUS
  <1> QED BY <1>1, <1>2, <1>3

\* What the host sends everybody is the same for all, and recorded.
LEMMA Handed ==
    ASSUME AInv, NEW packets \in Seq(Packet), Hand(packets), loading_blocks' = loading_blocks,
           compiled_blocks' = compiled_blocks \o ReplayReserve \o packets,
           players' = players
    PROVE  /\ SameStream'
           /\ \A p \in players : \E u \in Seq(Packet) : handed'[p] = handed[p] \o u
  <1> DEFINE u == ReplayReserve \o packets
  <1>1. ReplayReserve \in Seq(Packet) /\ u \in Seq(Packet)
    BY ReserveTypes DEF ReplayReserve
  <1>2. loading_blocks \in Seq(Packet) /\ compiled_blocks \in Seq(Packet)
    BY AFacts DEF StreamTypes
  <1>3. Replay' = Replay \o u
    <2>1. compiled_blocks' = (compiled_blocks \o ReplayReserve) \o packets
      OBVIOUS
    <2>2. (compiled_blocks \o ReplayReserve) \o packets = compiled_blocks \o u
      BY <1>1, <1>2, Concat, SMTT(60)
    <2>3. loading_blocks \o (compiled_blocks \o u) = (loading_blocks \o compiled_blocks) \o u
      <3> HIDE DEF u
      <3> QED BY <1>1, <1>2, SMTT(60)
    <2> QED BY <2>1, <2>2, <2>3 DEF Replay
  <1>4. ASSUME NEW p \in players PROVE handed'[p] = handed[p] \o u
    <2>1. p \in Pids /\ handed[p] \in Seq(Packet)
      BY AFacts
    <2>2. handed'[p] = handed[p] \o GProxyReserve(p) \o HostReserve(p) \o packets
      BY <2>1 DEF Hand
    <2>3. \/ GProxyReserve(p) = ReplayReserve /\ HostReserve(p) = <<>>
          \/ GProxyReserve(p) = <<>> /\ HostReserve(p) = ReplayReserve
      BY DEF GProxyReserve, HostReserve, ReplayReserve, UsingGproxy
    <2>4. /\ (handed[p] \o ReplayReserve) \o <<>> = handed[p] \o ReplayReserve
          /\ handed[p] \o <<>> = handed[p]
      BY <1>1, <2>1, Concat
    <2>5. (handed[p] \o ReplayReserve) \o packets = handed[p] \o u
      <3>1. ReplayReserve \in Seq(Packet) /\ packets \in Seq(Packet)
        BY <1>1
      <3> DEFINE h == handed[p]
      <3>2. h \in Seq(Packet)
        BY <2>1
      <3> HIDE DEF h
      <3>3. (h \o ReplayReserve) \o packets = h \o (ReplayReserve \o packets)
        BY <3>1, <3>2, Concat, SMTT(15), ZenonT(40)
      <3> QED BY <3>3 DEF h
    <2>6. handed'[p] = (handed[p] \o ReplayReserve) \o packets
      BY <2>2, <2>3, <2>4
    <2> QED BY <2>5, <2>6
  <1> HIDE DEF u
  <1>5. SameStream'
    BY <1>3, <1>4 DEF AInv, SameStream
  <1> QED BY <1>1, <1>4, <1>5


\* The invariant holds at the start.
LEMMA StreamInit == Init => AInv
  <1> SUFFICES ASSUME Init PROVE AInv
    OBVIOUS
  <1>1. TInv
    BY TypeInit
  <1>2. SameStream
    BY DEF Init, SameStream, Replay
  <1>3. Beats(<<>>) \in Nat
    BY ReserveTypes, BeatsMore
  <1>4. QueuesAligned /\ VerdictsFair /\ Early /\ Compares /\ Faulty
    BY DEF Init, QueuesAligned, VerdictsFair, Early, Compares, Faulty
  <1>5. Turns
    BY <1>3 DEF Init, Turns
  <1> QED BY <1>1, <1>2, <1>4, <1>5 DEF AInv

\* A step that touches no stream, and no queue that counts.
LEMMA StreamStays ==
    ASSUME AInv,
           UNCHANGED <<players, game_loaded, handed, loading_blocks, compiled_blocks, played, state,
                       since, checksum_turn, comparing, dropped, faults>>,
           game_loaded => checksums' = checksums, TInv'
    PROVE  AInv'
  <1>1. SameStream' /\ Early' /\ Turns' /\ Compares' /\ Faulty'
    BY DEF AInv, SameStream, Early, Turns, Compares, Faulty, Replay
  <1>2. ASSUME NEW p \in players, NEW t PROVE Checksum(p, t)' = Checksum(p, t)
    BY DEF Checksum
  <1>3. VerdictsFair'
    BY <1>2, AFacts, FairStays
  <1>4. CASE game_loaded
    BY <1>1, <1>2, <1>3, <1>4, AlignedStays DEF AInv
  <1>5. CASE ~game_loaded
    BY <1>1, <1>3, <1>5 DEF AInv, QueuesAligned
  <1> QED BY <1>4, <1>5

\* When all have loaded the queues are level.
LEMMA LevelAligned ==
    ASSUME AInv, ~game_loaded, NEW queues, CheckLoadingComplete(queues), players' \subseteq Pids,
           checksum_turn' = checksum_turn, \A p \in players' : played'[p] = 0
    PROVE  QueuesAligned'
  <1> SUFFICES ASSUME game_loaded', NEW p \in players'
               PROVE  checksums'[p] = [i \in 1..(played'[p] - checksum_turn')
                                         |-> Checksum(p, checksum_turn + i)']
    BY DEF QueuesAligned
  <1>1. checksums' = Level(queues)
    BY DEF CheckLoadingComplete
  <1>2. checksums'[p] = <<>>
    BY <1>1 DEF Level
  <1>3. played'[p] - checksum_turn' = 0
    BY DEF AInv, Early
  <1> QED BY <1>2, <1>3

\* A leave keeps it: it is handed to all who stay and recorded where it belongs, and
\* the last who loaded may be among those who stay.
LEMMA LeaveStream == ASSUME AInv, TInv', NEW p \in Pids, Leave(p) PROVE AInv'
  <1>1. /\ ~comparing /\ RemovePlayers(<<p>>) /\ CheckLoadingComplete(Kept(checksums))
        /\ UNCHANGED <<checksum_turn, comparing, dropped>>
    BY DEF Leave
  <1>2. <<p>> \in Seq(Pids)
    OBVIOUS
  <1>3. /\ players' \subseteq players /\ SameStream' /\ faults' = faults /\ Faulty'
        /\ \A q \in players' :
              /\ played'[q] = played[q] /\ played[q] <= Beats(handed'[q])
              /\ \A t \in 1..played[q] : Checksum(q, t)' = Checksum(q, t)
        /\ \A q \in Pids : played'[q] = played[q] \/ played'[q] = 0
        /\ (compiled_blocks = <<>> /\ ~game_loaded) => compiled_blocks' = <<>>
    BY <1>1, <1>2, Removed
  <1>4. game_loaded' = (game_loaded \/ (~game_loaded /\ players' # {} /\ players' \subseteq finished'))
    BY <1>1 DEF CheckLoadingComplete
  <1>5. VerdictsFair'
    BY <1>1, <1>3, AFacts, FairStays
  <1>6. Early'
    BY <1>1, <1>3, <1>4 DEF AInv, Early
  <1>7. Turns'
    BY <1>1, <1>3 DEF AInv, Turns
  <1>8. Compares'
    BY <1>1 DEF Compares
  <1>9. QueuesAligned'
    <2>1. CASE game_loaded
      <3>1. checksums' = Kept(checksums)
        BY <1>1, <2>1 DEF CheckLoadingComplete
      <3>2. \A q \in players' : q \in Pids /\ checksums'[q] = checksums[q]
        BY <1>3, <3>1, AFacts DEF Kept
      <3> QED BY <1>1, <1>3, <2>1, <3>2, AlignedStays
    <2>2. CASE ~game_loaded
      <3>1. players' \subseteq Pids /\ \A q \in players' : played'[q] = 0
        BY <1>3, <2>2, AFacts DEF AInv, Early
      <3> QED BY <1>1, <2>2, <3>1, LevelAligned
    <2> QED BY <2>1, <2>2
  <1> QED BY <1>3, <1>5, <1>6, <1>7, <1>8, <1>9 DEF AInv

\* A player who has loaded keeps it: with the last one the queues start level.
LEMMA LoadedStream == ASSUME AInv, TInv', NEW p \in Pids, PlayerLoaded(p) PROVE AInv'
  <1>1. /\ ~game_loaded /\ players' = players
        /\ CheckLoadingComplete([checksums EXCEPT ![p] = <<>>])
        /\ UNCHANGED <<handed, loading_blocks, compiled_blocks, played, state, since, checksum_turn,
                       comparing, dropped, faults>>
    BY DEF PlayerLoaded, stream, games
  <1>2. players' \subseteq Pids /\ \A q \in players' : played'[q] = 0
    BY <1>1, AFacts DEF AInv, Early
  <1>3. QueuesAligned'
    BY <1>1, <1>2, LevelAligned
  <1>4. SameStream' /\ Turns' /\ Faulty'
    BY <1>1 DEF AInv, SameStream, Turns, Faulty, Replay
  <1>5. Early'
    BY <1>1 DEF AInv, Early
  <1>6. Compares'
    BY <1>1 DEF AInv, Compares
  <1>7. ASSUME NEW q \in players, NEW t PROVE Checksum(q, t)' = Checksum(q, t)
    BY <1>1 DEF Checksum
  <1>8. VerdictsFair'
    BY <1>1, <1>7, AFacts, FairStays
  <1> QED BY <1>3, <1>4, <1>5, <1>6, <1>8 DEF AInv

\* The beat keeps it: the same packets for all and for the replay.
LEMMA TickStream == ASSUME AInv, TInv', GameTick PROVE AInv'
  <1>1. /\ game_loaded
        /\ UNCHANGED <<players, game_loaded, checksums, checksum_turn, comparing, played, state,
                       since, dropped, faults>>
        /\ \/ SendAllActions \/ ShowLagScreenAgain \/ UNCHANGED <<actions, sync_counter, stream>>
    BY DEF GameTick, loading, games
  <1>2. SameStream' /\ \A p \in players : \E u \in Seq(Packet) : handed'[p] = handed[p] \o u
    <2>1. CASE SendAllActions
      <3>1. BatchPackets \in Seq(Packet)
        BY AFacts, QueuedActions, BatchTypes
      <3>2. /\ Hand(BatchPackets) /\ loading_blocks' = loading_blocks
            /\ compiled_blocks' = compiled_blocks \o ReplayReserve \o BatchPackets
        BY <2>1 DEF SendAllActions
      <3> HIDE DEF BatchPackets
      <3> QED BY <1>1, <3>1, <3>2, Handed
    <2>2. CASE ShowLagScreenAgain
      <3>1. <<Empty>> \in Seq(Packet)
        BY ReserveTypes
      <3> QED BY <1>1, <2>2, <3>1, Handed DEF ShowLagScreenAgain
    <2>3. CASE UNCHANGED <<actions, sync_counter, stream>>
      <3>1. SameStream'
        BY <1>1, <2>3 DEF AInv, SameStream, Replay, stream
      <3>2. <<>> \in Seq(Packet) /\ handed' = handed
        BY <2>3 DEF stream
      <3>3. \A p \in players : handed[p] \o <<>> = handed[p]
        BY AFacts, Concat
      <3> QED BY <3>1, <3>2, <3>3
    <2> QED BY <1>1, <2>1, <2>2, <2>3
  <1>3. ASSUME NEW p \in players
        PROVE  /\ played[p] <= Beats(handed'[p])
               /\ \A t \in 1..played[p] : Checksum(p, t)' = Checksum(p, t)
    <2>1. PICK u \in Seq(Packet) : handed'[p] = handed[p] \o u
      BY <1>2
    <2>2. p \in Pids /\ played[p] \in Nat /\ handed[p] \in Seq(Packet) /\ Beats(handed[p]) \in Nat
      BY AFacts
    <2>3. played[p] <= Beats(handed[p])
      BY DEF AInv, Turns
    <2>4. handed'[p] \in Seq(Packet)
      BY <2>1, <2>2
    <2>5. Beats(handed'[p]) \in Nat /\ Beats(handed[p]) <= Beats(handed'[p])
      BY <2>1, <2>2, <2>4, BeatsMore
    <2>6. ASSUME NEW t \in 1..played[p] PROVE Checksum(p, t)' = Checksum(p, t)
      <3>1. t \in 1..Beats(handed[p])
        BY <2>2, <2>3
      <3>2. state'[p] = state[p] /\ since'[p] = since[p]
        BY <1>1
      <3> QED BY <2>1, <2>2, <3>1, <3>2, ChecksumStays
    <2> QED BY <2>2, <2>3, <2>5, <2>6
  <1>4. VerdictsFair'
    BY <1>1, <1>3, AFacts, FairStays
  <1>5. QueuesAligned'
    BY <1>1, <1>3, AlignedStays
  <1>6. Turns'
    BY <1>1, <1>3 DEF AInv, Turns
  <1>7. Early' /\ Compares' /\ Faulty'
    BY <1>1 DEF AInv, Early, Compares, Faulty
  <1> QED BY <1>2, <1>4, <1>5, <1>6, <1>7 DEF AInv


\* A queue that holds the first n values of g, and the next one put to it.
LEMMA Appended ==
    ASSUME NEW n \in Nat, NEW g, NEW q, q = [i \in 1..n |-> g[i]]
    PROVE  Append(q, g[n + 1]) = [i \in 1..(n + 1) |-> g[i]]
  OBVIOUS

\* And the first of them taken from it.
LEMMA Taken ==
    ASSUME NEW n \in Nat \ {0}, NEW g, NEW q, q = [i \in 1..n |-> g[i]]
    PROVE  Head(q) = g[1] /\ Tail(q) = [i \in 1..(n - 1) |-> g[i + 1]]
  OBVIOUS

\* A queue with something in it is of one turn at least.
LEMMA TurnWaits ==
    ASSUME NEW n \in Int, NEW q, q = [i \in 1..n |-> q[i]], q # <<>>
    PROVE  0 < n
  <1> SUFFICES ASSUME ~(0 < n) PROVE q = <<>>
    OBVIOUS
  <1>1. 1..n = {}
    OBVIOUS
  <1>2. q = [i \in {} |-> q[i]]
    BY <1>1
  <1>3. Len(q) = 0 /\ q \in Seq({})
    BY <1>2
  <1> QED BY <1>3

\* Whoever has a checksum waiting played a turn that is still to be compared.
LEMMA ReadyPlayed ==
    ASSUME TypeOK', QueuesAligned', game_loaded', Ready(players', checksums')
    PROVE  players' # {} /\ \A p \in players' : checksum_turn' < played'[p]
  <1>1. players' # {} /\ \A p \in players' : checksums'[p] # <<>>
    BY DEF Ready
  <1>2. ASSUME NEW p \in players' PROVE checksum_turn' < played'[p]
    <2> DEFINE n == played'[p] - checksum_turn'
    <2>1. checksum_turn' \in Nat /\ played'[p] \in Nat /\ n \in Int
      BY DEF TypeOK
    <2>2. checksums'[p] = [i \in 1..n |-> Checksum(p, checksum_turn + i)']
      BY DEF QueuesAligned
    <2> HIDE DEF n
    <2>3. checksums'[p] = [i \in 1..n |-> checksums'[p][i]]
      BY <2>2
    <2>4. 0 < n
      BY <1>1, <2>1, <2>3, TurnWaits
    <2> QED BY <2>1, <2>4 DEF n
  <1> QED BY <1>1, <1>2

\* A keepalive keeps it: its checksum is the next of its player's queue, and a game
\* that diverges differs only from the beat it plays now.
LEMMA KeepaliveStream == ASSUME AInv, TInv', NEW p \in Pids, Keepalive(p) PROVE AInv'
  <1>1. /\ game_loaded /\ p \in players
        /\ played[p] < Cardinality({i \in DOMAIN handed[p] : handed[p][i].kind = "beat"})
        /\ \/ UNCHANGED <<state, since, faults>>
           \/ \E s \in 1..MaxDiverged : Diverge(p, s)
        /\ played' = [played EXCEPT ![p] = @ + 1]
        /\ UNCHANGED <<players, game_loaded, checksum_turn, handed, loading_blocks,
                       compiled_blocks, dropped>>
        /\ checksums' = [checksums EXCEPT ![p] = Append(@, Checksum(p, played[p])')]
        /\ comparing' = Ready(players, checksums')
    BY DEF Keepalive, loading, stream
  <1>2. /\ \A q \in Pids : played[q] \in Nat
        /\ faults \in Nat /\ checksum_turn \in Nat /\ handed[p] \in Seq(Packet)
        /\ played \in [Pids -> Nat] /\ checksums = [q \in Pids |-> checksums[q]]
        /\ state \in [Pids -> Nat] /\ since \in [Pids -> Nat]
    BY AFacts DEF TypeOK, StreamTypes
  <1>3. played[p] < Beats(handed[p])
    <2>1. DOMAIN handed[p] = 1..Len(handed[p])
      BY <1>2
    <2> QED BY <1>1, <2>1 DEF Beats, BeatsTo
  <1>4. /\ played'[p] = played[p] + 1
        /\ \A q \in Pids \ {p} : played'[q] = played[q] /\ checksums'[q] = checksums[q]
        /\ checksums'[p] = Append(checksums[p], Checksum(p, played[p])')
    BY <1>1, <1>2
  <1>5. /\ faults' \in Nat /\ faults <= faults' /\ Faulty'
        /\ \A q \in Pids : \/ state'[q] = state[q] /\ since'[q] = since[q]
                           \/ q = p /\ state[p] = 0 /\ since'[p] = played[p] + 1
    <2>1. CASE UNCHANGED <<state, since, faults>>
      BY <1>2, <2>1 DEF AInv, Faulty
    <2>2. ASSUME NEW s \in 1..MaxDiverged, Diverge(p, s)
          PROVE  /\ faults' \in Nat /\ faults <= faults' /\ Faulty'
                 /\ \A q \in Pids : \/ state'[q] = state[q] /\ since'[q] = since[q]
                                    \/ q = p /\ state[p] = 0 /\ since'[p] = played[p] + 1
      <3>1. /\ state[p] = 0 /\ faults' = faults + 1 /\ state' = [state EXCEPT ![p] = s]
            /\ since' = [since EXCEPT ![p] = played[p] + 1]
        BY <2>2 DEF Diverge
      <3>2. faults' \in Nat /\ faults <= faults' /\ faults' > 0
        BY <1>2, <3>1
      <3> QED BY <1>2, <3>1, <3>2 DEF Faulty
    <2> QED BY <1>1, <2>1, <2>2
  <1>6. ASSUME NEW q \in players, NEW t \in 1..played[q] PROVE Checksum(q, t)' = Checksum(q, t)
    <2>1. q \in Pids /\ played[q] \in Nat /\ t \in Nat /\ t <= played[q]
      BY <1>2, AFacts
    <2>2. (IF state'[q] # 0 /\ t >= since'[q] THEN state'[q] ELSE 0)
            = IF state[q] # 0 /\ t >= since[q] THEN state[q] ELSE 0
      BY <1>5, <2>1
    <2> QED BY <1>1, <2>2 DEF Checksum
  <1>7. VerdictsFair'
    BY <1>1, <1>5, <1>6, FairStays
  <1>8. QueuesAligned'
    <2> SUFFICES ASSUME NEW q \in players
                 PROVE  checksums'[q] = [i \in 1..(played'[q] - checksum_turn')
                                          |-> Checksum(q, checksum_turn + i)']
      BY <1>1 DEF QueuesAligned
    <2> DEFINE n == played[q] - checksum_turn
               g == [i \in 1..(played'[q] - checksum_turn) |-> Checksum(q, checksum_turn + i)']
    <2>1. /\ q \in Pids /\ played[q] \in Nat /\ checksum_turn <= played[q]
          /\ checksums[q] = [i \in 1..n |-> Checksum(q, checksum_turn + i)]
      BY <1>1, AFacts DEF AInv, QueuesAligned, Turns
    <2>2. n \in Nat
      BY <1>2, <2>1
    <2>3. played'[q] \in Nat /\ played[q] <= played'[q]
      BY <1>4, <2>1
    <2>4. ASSUME NEW i \in 1..n PROVE g[i] = Checksum(q, checksum_turn + i)
      <3>1. i \in 1..(played'[q] - checksum_turn) /\ checksum_turn + i \in 1..played[q]
        BY <1>2, <2>1, <2>3, SMTT(15), ZenonT(40)
      <3>2. g[i] = Checksum(q, checksum_turn + i)'
        BY <3>1
      <3>4. \A t \in 1..played[q] : Checksum(q, t)' = Checksum(q, t)
        BY <1>6
      <3> HIDE DEF g
      <3> QED BY <1>1, <3>1, <3>2, <3>4
    <2>5. checksums[q] = [i \in 1..n |-> g[i]]
      BY <2>1, <2>4
    <2>6. CASE q = p
      <3>1. played'[q] - checksum_turn = n + 1 /\ checksum_turn + (n + 1) = played[q] + 1
        BY <1>2, <1>4, <2>1, <2>6
      <3>2. g[n + 1] = Checksum(p, played[p])'
        BY <1>1, <1>4, <2>2, <2>6, <3>1
      <3>3. g = [i \in 1..(n + 1) |-> g[i]]
        BY <3>1
      <3>4. checksums'[q] = Append(checksums[q], g[n + 1])
        BY <1>4, <2>6, <3>2
      <3> HIDE DEF g, n
      <3>5. checksums'[q] = g
        BY <2>2, <2>5, <3>3, <3>4, Appended
      <3> QED BY <1>1, <3>5 DEF g
    <2>7. CASE q # p
      <3>1. checksums'[q] = checksums[q] /\ played'[q] = played[q]
        BY <1>4, <2>1, <2>7
      <3>2. g = [i \in 1..n |-> g[i]]
        BY <3>1
      <3> HIDE DEF g, n
      <3>3. checksums'[q] = g
        BY <2>5, <3>1, <3>2
      <3> QED BY <1>1, <3>3 DEF g
    <2> QED BY <2>6, <2>7
  <1>9. Turns'
    <2> SUFFICES ASSUME NEW q \in players
                 PROVE  checksum_turn <= played'[q] /\ played'[q] <= Beats(handed[q])
      BY <1>1 DEF Turns
    <2>1. /\ q \in Pids /\ played[q] \in Nat /\ checksum_turn <= played[q]
          /\ played[q] <= Beats(handed[q]) /\ Beats(handed[q]) \in Nat
      BY AFacts DEF AInv, Turns
    <2>2. CASE q = p
      <3>1. played[p] < Beats(handed[p]) /\ played'[p] = played[p] + 1
        BY <1>3, <1>4
      <3> QED BY <1>2, <2>1, <2>2, <3>1
    <2>3. CASE q # p
      <3>1. played'[q] = played[q]
        BY <1>4, <2>1, <2>3
      <3> QED BY <2>1, <3>1
    <2> QED BY <2>2, <2>3
  <1>10. Compares'
    <2>1. TypeOK' /\ StreamTypes'
      BY DEF TInv
    <2> SUFFICES ASSUME comparing'
                 PROVE  game_loaded' /\ players' # {} /\ \A q \in players' : checksum_turn' < played'[q]
      BY DEF Compares
    <2>2. game_loaded' /\ Ready(players', checksums')
      BY <1>1
    <2>3. players' # {} /\ \A q \in players' : checksum_turn' < played'[q]
      BY <1>8, <2>1, <2>2, ReadyPlayed
    <2> QED BY <2>2, <2>3
  <1>11. SameStream' /\ Early'
    BY <1>1 DEF AInv, SameStream, Early, Replay
  <1> QED BY <1>5, <1>7, <1>8, <1>9, <1>10, <1>11 DEF AInv

\* What check_desync compares is the first turn not compared yet.
LEMMA HeadTurn ==
    ASSUME AInv, comparing, NEW p \in players
    PROVE  /\ played[p] - checksum_turn \in Nat \ {0} /\ played[p] \in Nat /\ checksum_turn \in Nat
           /\ Head(checksums[p]) = Checksum(p, checksum_turn + 1)
           /\ Tail(checksums[p]) = [i \in 1..(played[p] - checksum_turn - 1)
                                     |-> Checksum(p, checksum_turn + 1 + i)]
  <1> DEFINE n == played[p] - checksum_turn
             g == [i \in 1..n |-> Checksum(p, checksum_turn + i)]
  <1>1. /\ game_loaded /\ played[p] \in Nat /\ checksum_turn \in Nat
        /\ checksum_turn < played[p] /\ checksums[p] = g
    BY AFacts DEF AInv, Compares, QueuesAligned
  <1>2. n \in Nat \ {0}
    BY <1>1
  <1>3. g = [i \in 1..n |-> g[i]]
    OBVIOUS
  <1>4. Head(checksums[p]) = g[1] /\ Tail(checksums[p]) = [i \in 1..(n - 1) |-> g[i + 1]]
    <2> HIDE DEF g, n
    <2> QED BY <1>1, <1>2, <1>3, Taken
  <1>5. 1 \in 1..n /\ g[1] = Checksum(p, checksum_turn + 1)
    BY <1>2
  <1>6. ASSUME NEW i \in 1..(n - 1) PROVE g[i + 1] = Checksum(p, checksum_turn + 1 + i)
    <2>1. i + 1 \in 1..n /\ checksum_turn + (i + 1) = checksum_turn + 1 + i
      BY <1>1, <1>2
    <2>2. g[i + 1] = Checksum(p, checksum_turn + (i + 1))
      BY <2>1
    <2> QED BY <2>1, <2>2
  <1>7. [i \in 1..(n - 1) |-> g[i + 1]] = [i \in 1..(n - 1) |-> Checksum(p, checksum_turn + 1 + i)]
    <2> HIDE DEF g
    <2> QED BY <1>6
  <1> QED BY <1>1, <1>2, <1>4, <1>5, <1>7

\* Players on one stream who are not in the same state diverged by a fault.
LEMMA FaultsTell ==
    ASSUME AInv, NEW p \in players, NEW q \in players, NEW t, Checksum(p, t) # Checksum(q, t)
    PROVE  faults > 0
  <1>1. p \in Pids /\ q \in Pids
    BY AFacts
  <1>2. handed[p] = handed[q]
    BY DEF AInv, SameStream
  <1>3. state[p] # 0 \/ state[q] # 0
    BY <1>2 DEF Checksum
  <1> QED BY <1>1, <1>3 DEF AInv, Faulty

\* A round of the comparison keeps it: the turn is taken from every queue, and those
\* who stay agreed on it.
LEMMA DesyncStream ==
    ASSUME AInv, TInv', NEW gone \in Seq(Pids), CheckDesync(gone)
    PROVE  AInv'
  <1>1. /\ comparing /\ ToSet(gone) = Victims
        /\ checksum_turn' = checksum_turn + 1
        /\ dropped' = (dropped \/ Victims # {})
        /\ RemovePlayers(gone)
        /\ checksums' = Kept([p \in Pids |-> IF p \in players THEN Tail(checksums[p]) ELSE <<>>])
        /\ comparing' = Ready(players', checksums')
        /\ game_loaded' = game_loaded
    BY DEF CheckDesync
  <1>2. /\ players' = players \ Victims /\ SameStream' /\ faults' = faults /\ Faulty'
        /\ \A p \in players' :
              /\ played'[p] = played[p] /\ played[p] <= Beats(handed'[p])
              /\ \A t \in 1..played[p] : Checksum(p, t)' = Checksum(p, t)
    BY <1>1, Removed
  <1>3. game_loaded /\ players # {} /\ \A p \in players : checksum_turn < played[p]
    BY <1>1 DEF AInv, Compares
  <1>4. \A p \in players :
           /\ p \in Pids /\ played[p] \in Nat /\ checksum_turn \in Nat
           /\ Head(checksums[p]) = Checksum(p, checksum_turn + 1)
    BY <1>1, AFacts, HeadTurn
  <1>5. Early'
    BY <1>1, <1>3 DEF Early
  <1>6. Turns'
    BY <1>1, <1>2, <1>3, <1>4 DEF Turns
  <1>7. dropped' => faults' > 0
    <2>1. CASE dropped
      BY <1>2, <2>1 DEF AInv, VerdictsFair
    <2>2. CASE Victims # {}
      <3>1. PICK p \in players, q \in players : Head(checksums[p]) # Head(checksums[q])
        BY <1>3, <2>2, AFacts, NoVictims
      <3>2. Checksum(p, checksum_turn + 1) # Checksum(q, checksum_turn + 1)
        BY <1>4, <3>1
      <3> QED BY <1>2, <3>2, FaultsTell
    <2> QED BY <1>1, <2>1, <2>2
  <1>8. ASSUME NEW p \in players', NEW q \in players', NEW t \in 1..checksum_turn'
        PROVE  Checksum(p, t)' = Checksum(q, t)'
    <2>1. /\ p \in players \ Victims /\ q \in players \ Victims /\ checksum_turn \in Nat
          /\ checksum_turn < played[p] /\ checksum_turn < played[q]
          /\ played[p] \in Nat /\ played[q] \in Nat
      BY <1>2, <1>3, <1>4
    <2>2. t \in 1..played[p] /\ t \in 1..played[q] /\ (t \in 1..checksum_turn \/ t = checksum_turn + 1)
      BY <1>1, <2>1
    <2>3. Checksum(p, t) = Checksum(q, t)
      <3>1. CASE t \in 1..checksum_turn
        BY <2>1, <3>1 DEF AInv, VerdictsFair
      <3>2. CASE t = checksum_turn + 1
        BY <1>4, <2>1, <3>2, SurvivorsAgree
      <3> QED BY <2>2, <3>1, <3>2
    <2>4. Checksum(p, t)' = Checksum(p, t) /\ Checksum(q, t)' = Checksum(q, t)
      BY <1>2, <2>2
    <2> QED BY <2>3, <2>4
  <1>9. VerdictsFair'
    BY <1>7, <1>8 DEF VerdictsFair
  <1>10. QueuesAligned'
    <2> SUFFICES ASSUME NEW p \in players'
                 PROVE  checksums'[p] = [i \in 1..(played'[p] - checksum_turn')
                                          |-> Checksum(p, checksum_turn + i)']
      BY DEF QueuesAligned
    <2> DEFINE n == played[p] - checksum_turn - 1
    <2>1. p \in players /\ p \in Pids /\ played'[p] = played[p]
      BY <1>2, <1>4
    <2>2. checksums'[p] = Tail(checksums[p])
      BY <1>1, <2>1 DEF Kept
    <2>3. /\ checksums'[p] = [i \in 1..n |-> Checksum(p, checksum_turn + 1 + i)]
          /\ played[p] \in Nat /\ checksum_turn \in Nat /\ n \in Nat
      <3>1. /\ Tail(checksums[p]) = [i \in 1..n |-> Checksum(p, checksum_turn + 1 + i)]
            /\ played[p] - checksum_turn \in Nat \ {0}
            /\ played[p] \in Nat /\ checksum_turn \in Nat
        BY <1>1, <2>1, HeadTurn
      <3>2. n \in Nat
        <4> DEFINE m == played[p] - checksum_turn
        <4>1. m \in Nat \ {0}
          BY <3>1
        <4> HIDE DEF m
        <4>2. m - 1 \in Nat
          BY <4>1
        <4> QED BY <4>2 DEF m
      <3> HIDE DEF n
      <3> QED BY <2>2, <3>1, <3>2
    <2>4. played'[p] - checksum_turn' = n
      BY <1>1, <2>1, <2>3
    <2>5. ASSUME NEW i \in 1..n
          PROVE  Checksum(p, checksum_turn + i)' = Checksum(p, checksum_turn + 1 + i)
      <3>1. checksum_turn + 1 + i \in 1..played[p]
        BY <2>3
      <3>2. \A t \in 1..played[p] : Checksum(p, t)' = Checksum(p, t)
        BY <1>2
      <3> QED BY <1>1, <3>1, <3>2
    <2> HIDE DEF n
    <2> QED BY <2>3, <2>4, <2>5
  <1>11. Compares'
    <2>1. TypeOK' /\ StreamTypes'
      BY DEF TInv
    <2> SUFFICES ASSUME comparing'
                 PROVE  game_loaded' /\ players' # {} /\ \A q \in players' : checksum_turn' < played'[q]
      BY DEF Compares
    <2>2. game_loaded' /\ Ready(players', checksums')
      BY <1>1, <1>3
    <2>3. players' # {} /\ \A q \in players' : checksum_turn' < played'[q]
      BY <1>10, <2>1, <2>2, ReadyPlayed
    <2> QED BY <2>2, <2>3
  <1> QED BY <1>2, <1>5, <1>6, <1>9, <1>10, <1>11 DEF AInv

\* Every step keeps it, ...
LEMMA StreamNext == AInv /\ [Next]_vars => AInv'
  <1> SUFFICES ASSUME AInv, [Next]_vars PROVE AInv'
    OBVIOUS
  <1>a. TInv'
    BY TypeNext DEF AInv
  <1>1. ASSUME NEW p \in Pids, Leave(p) PROVE AInv'
    BY <1>a, <1>1, LeaveStream
  <1>2. ASSUME NEW p \in Pids, SpareKeepalive(p) PROVE AInv'
    BY <1>a, <1>2, StreamStays DEF SpareKeepalive, loading, stream, games
  <1>3. ASSUME NEW p \in Pids, PlayerLoaded(p) PROVE AInv'
    BY <1>a, <1>3, LoadedStream
  <1>4. ASSUME NEW p \in Pids, NEW len \in Lengths, OutgoingAction(p, len) PROVE AInv'
    BY <1>a, <1>4, StreamStays DEF OutgoingAction, loading, stream, games, sync
  <1>5. CASE GameTick
    BY <1>a, <1>5, TickStream
  <1>6. ASSUME NEW p \in Pids, Keepalive(p) PROVE AInv'
    BY <1>a, <1>6, KeepaliveStream
  <1>7. ASSUME NEW gone \in BoundedSeq(Pids, Cardinality(Pids)), CheckDesync(gone) PROVE AInv'
    BY <1>a, <1>7, GoneTypes, DesyncStream
  <1>8. CASE UNCHANGED vars
    BY <1>a, <1>8, StreamStays DEF vars, loading, stream, games, sync
  <1> QED BY <1>1, <1>2, <1>3, <1>4, <1>5, <1>6, <1>7, <1>8 DEF Next

\* ... so it holds always.
LEMMA StreamAlways == Spec => []AInv
  BY StreamInit, StreamNext, PTL DEF Spec

\* Types; and no queued action is of a player who is gone (remove_player purges
\* the queue).
THEOREM StreamTypesHold == Spec => []TypeOK
  <1>1. AInv => TypeOK
    BY DEF AInv, TInv
  <1> QED BY <1>1, StreamAlways, PTL

\* Whoever is still in the game was handed exactly what the replay records, in its
\* order, behind GProxy++ or not (send_all_actions, the reserve of empty batches,
\* remove_player and ReplayRecorder).
THEOREM ReplaySeesTheGame == Spec => []SameStream
  <1>1. AInv => SameStream
    BY DEF AInv
  <1> QED BY <1>1, StreamAlways, PTL

\* Position n of every player's checksum queue is that player's view of the n-th
\* turn still to be compared (handle_keepalive and check_desync).
THEOREM QueuesStayAligned == Spec => []QueuesAligned
  <1>1. AInv => QueuesAligned
    BY DEF AInv
  <1> QED BY <1>1, StreamAlways, PTL

\* Nobody is dropped for a desync unless some client's game did diverge, and those
\* who play on agreed on every turn that was compared (check_desync).
THEOREM VerdictsAreFair == Spec => []VerdictsFair
  <1>1. AInv => VerdictsFair
    BY DEF AInv
  <1> QED BY <1>1, StreamAlways, PTL

\* Nobody in the same state as more than half the players is dropped
\* (check_desync's choice of the largest group).
THEOREM MajorityIsKept == Spec => MajorityStays
  <1> DEFINE Keeps ==
        \A p \in players :
          comparing /\ 2 * Cardinality({q \in players : Checksum(q, checksum_turn + 1)
                                                          = Checksum(p, checksum_turn + 1)})
                         > Cardinality(players)
          => p \in players'
  <1>1. AInv /\ [Next]_vars => [Keeps]_vars
    <2> SUFFICES ASSUME AInv, Next, NEW p \in players, comparing,
                        2 * Cardinality({q \in players : Checksum(q, checksum_turn + 1)
                                                          = Checksum(p, checksum_turn + 1)})
                         > Cardinality(players)
                 PROVE  p \in players'
      OBVIOUS
    <2>1. \A r \in Pids : ~Leave(r) /\ ~Keepalive(r) /\ \A len \in Lengths : ~OutgoingAction(r, len)
      BY DEF Leave, Keepalive, OutgoingAction
    <2>2. ASSUME NEW r \in Pids, SpareKeepalive(r) \/ PlayerLoaded(r) PROVE players' = players
      BY <2>2 DEF SpareKeepalive, PlayerLoaded
    <2>3. ~GameTick
      BY DEF GameTick
    <2>4. ASSUME NEW gone \in BoundedSeq(Pids, Cardinality(Pids)), CheckDesync(gone)
          PROVE  p \in players'
      <3>1. players' = players \ Victims
        BY <2>4 DEF CheckDesync, RemovePlayers
      <3>2. SameState(p) = {q \in players : Checksum(q, checksum_turn + 1)
                                              = Checksum(p, checksum_turn + 1)}
        BY HeadTurn DEF SameState
      <3>3. p \notin Victims
        BY <3>2, AFacts, MajoritySafe
      <3> QED BY <3>1, <3>3
    <2> QED BY <2>1, <2>2, <2>3, <2>4 DEF Next
  <1> QED BY <1>1, StreamAlways, PTL DEF Spec, MajorityStays

\* A queued action stays in the queue, in its order, until a batch hands it to
\* everybody: only its player's leaving takes it out before.
ActionsKept ==
    \/ \E p \in players, len \in Lengths : actions' = Append(actions, [pid |-> p, len |-> len])
    \/ Hand(BatchPackets) /\ actions' = <<>>
    \/ Thinned(actions, Len(actions), actions', Pids \ players')

\* Players may be told apart by who is in the game: all queued actions are theirs.
LEMMA OthersActionsKept ==
    ASSUME TypeOK, NEW S, players' = players \ S, actions' = PurgeActions(S)
    PROVE  ActionsKept
  <1>1. actions \in Seq(Action)
    BY QueuedActions
  <1>2. \A j \in 1..Len(actions) : actions[j].pid \in S <=> actions[j].pid \in Pids \ players'
    <2> SUFFICES ASSUME NEW j \in 1..Len(actions)
                 PROVE  actions[j].pid \in S <=> actions[j].pid \in Pids \ players'
      OBVIOUS
    <2>1. actions \in Seq([pid : players, len : Lengths]) /\ players \subseteq Pids
      BY DEF TypeOK
    <2>2. actions[j] \in [pid : players, len : Lengths]
      <3> DEFINE A == [pid : players, len : Lengths]
      <3>1. actions \in Seq(A)
        BY <2>1
      <3> HIDE DEF A
      <3>2. actions[j] \in A
        BY <3>1
      <3> QED BY <3>2 DEF A
    <2>3. actions[j].pid \in players
      BY <2>2
    <2> QED BY <2>1, <2>3
  <1>3. PICK e \in [1..Len(actions') -> 1..Len(actions)] :
             Picks(e, actions, Len(actions), actions', S)
    <2>1. Thinned(actions, Len(actions), actions', S)
      BY <1>1, PurgeThins
    <2> QED BY <2>1 DEF Thinned
  <1>4. Picks(e, actions, Len(actions), actions', Pids \ players')
    BY <1>2, <1>3 DEF Picks
  <1> QED BY <1>3, <1>4 DEF Thinned, ActionsKept

\* Whoever leaves the queue alone keeps it.
LEMMA UntouchedKept ==
    ASSUME TypeOK, players' = players, actions' = actions
    PROVE  ActionsKept
  <1>1. actions \in Seq([pid : players, len : Lengths])
    BY DEF TypeOK
  <1>2. \A i \in 1..Len(actions) : actions[i].pid \notin Pids \ players'
    <2> SUFFICES ASSUME NEW i \in 1..Len(actions) PROVE actions[i].pid \in players
      OBVIOUS
    <2> DEFINE A == [pid : players, len : Lengths]
    <2>1. actions \in Seq(A)
      BY <1>1
    <2> HIDE DEF A
    <2>2. actions[i] \in A
      BY <2>1
    <2> QED BY <2>2 DEF A
  <1>3. Thinned(actions, Len(actions), actions, Pids \ players')
    BY <1>1, <1>2, ThinnedByNone
  <1> QED BY <1>3 DEF ActionsKept

\* No action is lost, doubled or overtaken on its way into a batch, whoever leaves
\* or is dropped meanwhile (handle_action, remove_player, send_all_actions).
THEOREM ActionsGoOutOnce == Spec => [][ActionsKept]_vars
  <1>1. AInv /\ [Next]_vars => [ActionsKept]_vars
    <2> SUFFICES ASSUME AInv, Next PROVE ActionsKept
      OBVIOUS
    <2>0. TypeOK
      BY AFacts
    <2>1. ASSUME NEW p \in Pids, Leave(p) PROVE ActionsKept
      <3>1. players' = players \ ToSet(<<p>>) /\ actions' = PurgeActions(ToSet(<<p>>))
        BY <2>1 DEF Leave, RemovePlayers
      <3> QED BY <2>0, <3>1, OthersActionsKept
    <2>2. ASSUME NEW p \in Pids, SpareKeepalive(p) \/ PlayerLoaded(p) \/ Keepalive(p)
          PROVE  ActionsKept
      <3>1. players' = players /\ actions' = actions
        <4>1. SpareKeepalive(p) => players' = players /\ actions' = actions
          <5> SUFFICES ASSUME SpareKeepalive(p) PROVE players' = players /\ actions' = actions
            OBVIOUS
          <5>1. UNCHANGED <<players, loading, actions, lag, sync_counter, checksum_turn, comparing,
                            stream, games, dropped, faults, acted, shows>>
            BY Zenon DEF SpareKeepalive
          <5> QED BY <5>1, Zenon
        <4>2. PlayerLoaded(p) => players' = players /\ actions' = actions
          BY DEF PlayerLoaded
        <4>3. Keepalive(p) => players' = players /\ actions' = actions
          <5> SUFFICES ASSUME Keepalive(p) PROVE players' = players /\ actions' = actions
            OBVIOUS
          <5>1. UNCHANGED <<players, loading, actions, lag, sync_counter, checksum_turn, stream,
                            dropped, acted, shows>>
            BY Zenon DEF Keepalive
          <5> QED BY <5>1, Zenon
        <4> QED BY <2>2, <4>1, <4>2, <4>3
      <3> QED BY <2>0, <3>1, UntouchedKept
    <2>3. ASSUME NEW p \in Pids, NEW len \in Lengths, OutgoingAction(p, len) PROVE ActionsKept
      BY <2>3 DEF OutgoingAction, ActionsKept
    <2>4. CASE GameTick
      <3>1. players' = players
        BY <2>4 DEF GameTick
      <3>2. SendAllActions \/ actions' = actions
        BY <2>4 DEF GameTick, ShowLagScreenAgain
      <3>3. CASE SendAllActions
        BY <3>3 DEF SendAllActions, ActionsKept
      <3> QED BY <2>0, <3>1, <3>2, <3>3, UntouchedKept
    <2>5. ASSUME NEW gone \in BoundedSeq(Pids, Cardinality(Pids)), CheckDesync(gone)
          PROVE  ActionsKept
      <3>1. players' = players \ ToSet(gone) /\ actions' = PurgeActions(ToSet(gone))
        BY <2>5 DEF CheckDesync, RemovePlayers
      <3> QED BY <2>0, <3>1, OthersActionsKept
    <2> QED BY <2>1, <2>2, <2>3, <2>4, <2>5 DEF Next
  <1> QED BY <1>1, StreamAlways, PTL DEF Spec

\* The packets of a batch carry the queue: their pieces are consecutive parts of it
\* and together all of it, none is empty unless nothing is queued, and actions that
\* share a packet fit in it (send_all_actions).
THEOREM BatchesCarryTheQueue == Spec => [](Cut(Chunks, Len(actions)) /\ Sized(Chunks))
  <1>1. AInv => Cut(Chunks, Len(actions)) /\ Sized(Chunks)
    <2> SUFFICES ASSUME AInv PROVE Cut(Chunks, Len(actions)) /\ Sized(Chunks)
      OBVIOUS
    <2>1. actions \in Seq(Action)
      BY AFacts, QueuedActions
    <2> QED BY <2>1, ChunksCut
  <1> QED BY <1>1, StreamAlways, PTL
=============================================================================
