------------------------- MODULE GProxySessionProofs -------------------------
(***************************************************************************)
(* That the resend buffer is the unbroken end of what was sent and reaches *)
(* back to what the client has, that a player is held or mapped, that a    *)
(* write queue keeps its limit, and that each direction of the session is  *)
(* a reliable stream: for any number of connections, packets, losses and   *)
(* stalls, any sizes of queues and buffers, packets of one size or of      *)
(* many, and clients that dial again before the game is loaded or after.   *)
(*                                                                         *)
(* The first parts rest on IInv, the limit of the queues on Dialled and    *)
(* Limited as well.  The streams rest on what is in flight:                *)
(* Routes, Asked and Registered say which connections and requests there   *)
(* are, InRange that only numbered packets travel, Reach what              *)
(* acknowledgements claim, Out and In that what the queues hold goes on    *)
(* where the reader stopped - Out, but for the packets in forgone.         *)
(***************************************************************************)
EXTENDS GProxySession, SequenceTheorems, TLAPS

(* The types of everything but the stream out and the queues it goes to.    *)
Control ==
    /\ {seated, game_loaded, gproxy, gproxy_disconnected, pending_drop, ckey} \subseteq BOOLEAN
    /\ {total_received, loaded_at, faults, c_sent, c_trim, c_acked} \subseteq Nat
    /\ got \in Seq(Nat) /\ host_got \in Seq(Nat)
    /\ conn_id \in Conns /\ ccon \in Conns /\ conn_pid \subseteq Conns
    /\ open \subseteq Conns /\ \A c \in open : c <= ccon
    /\ stage \in {"event", "drops"} /\ cstate \in {"up", "await", "quit"}
    /\ c2h \in [Conns -> Seq(Message)]
    /\ dials \subseteq [conn : Conns, last : Nat]

(* The queues to the client are well typed. *)
Queues(q) == q \in [Conns -> Seq(Message)]

(* b is the end of the stream 1..n, without a hole. *)
Suffix(b, n) ==
    /\ n \in Nat /\ b \in Seq(Nat) /\ Len(b) <= n
    /\ \A i \in 1..Len(b) : b[i] = n - Len(b) + i

(* BufferIsSuffix alone is not inductive: a packet sent before the game is  *)
(* loaded is numbered and not kept, so the buffer must still be empty then. *)
BufferInv ==
    /\ Suffix(gproxy_buffer, total_sent)
    /\ gproxy_buffer # <<>> => gproxy /\ game_loaded

IInv == Control /\ Queues(h2c) /\ BufferInv

(* The history variables are sets of numbers.                               *)
Losses == {refused, forgone} \subseteq SUBSET Nat

(* The inductive invariant implies that the buffer has no hole. *)
LEMMA IInvImplies == IInv => BufferIsSuffix
  BY DEF IInv, BufferInv, Suffix, BufferIsSuffix

(***************************************************************************)
(* The operators                                                           *)
(***************************************************************************)

(* Fresh(k) are the next k numbers of the stream. *)
LEMMA FreshNumbers ==
    ASSUME NEW k \in Nat, total_sent \in Nat
    PROVE  /\ Fresh(k) \in Seq(Nat) /\ Len(Fresh(k)) = k
           /\ \A i \in 1..k : Fresh(k)[i] = total_sent + i
  <1>1. \A i \in 1..k : total_sent + i \in Nat
    OBVIOUS
  <1>2. Fresh(k) \in Seq(Nat) /\ Len(Fresh(k)) = k
    BY <1>1, IsASeq DEF Fresh
  <1>3. QED
    BY <1>2 DEF Fresh

(* Data turns packet numbers into as many packets. *)
LEMMA DataPackets ==
    ASSUME NEW s \in Seq(Nat)
    PROVE  Data(s) \in Seq(Message) /\ Len(Data(s)) = Len(s)
  <1>1. Len(s) \in Nat /\ \A i \in 1..Len(s) : s[i] \in Nat
    BY LenProperties, ElementOfSeq
  <1>2. \A i \in 1..Len(s) : W3gs(s[i]) \in Message
    BY <1>1 DEF W3gs, Message
  <1>3. QED
    BY <1>1, <1>2, IsASeq DEF Data

(* A prefix is a sequence of the length asked for. *)
LEMMA PrefixOf ==
    ASSUME NEW S, NEW s \in Seq(S), NEW n \in 0..Len(s)
    PROVE  Prefix(s, n) \in Seq(S) /\ Len(Prefix(s, n)) = n
  BY SubSeqProperties DEF Prefix

(* Notices never asks for more than it is asked for. *)
LEMMA NoticesBounded ==
    ASSUME NEW k \in Nat
    PROVE  Notices(k) \in Nat /\ Notices(k) <= k
  BY DEF Notices

(* trim_gproxy_buffer leaves a suffix of the buffer. *)
LEMMA TrimKeepsSuffix ==
    ASSUME NEW last \in Nat, Suffix(gproxy_buffer, total_sent)
    PROVE  /\ Suffix(TrimGproxyBuffer(last), total_sent)
           /\ Len(TrimGproxyBuffer(last)) <= Len(gproxy_buffer)
  <1> DEFINE len == Len(gproxy_buffer)
             n == IF last <= total_sent - len THEN 0
                  ELSE IF last - (total_sent - len) > len THEN len
                  ELSE last - (total_sent - len)
             b == SubSeq(gproxy_buffer, n + 1, len)
  <1>1. len \in Nat /\ total_sent \in Nat /\ len <= total_sent /\ gproxy_buffer \in Seq(Nat)
    BY LenProperties DEF Suffix
  <1>2. n \in 0..len
    BY <1>1
  <1>3. TrimGproxyBuffer(last) = b
    BY <1>1 DEF TrimGproxyBuffer
  <1> HIDE DEF n, b
  <1>4. \A i \in n + 1..len : gproxy_buffer[i] \in Nat
    BY <1>1, <1>2, ElementOfSeq
  <1>5. /\ b \in Seq(Nat) /\ Len(b) = len - n
        /\ \A i \in 1..len - n : b[i] = gproxy_buffer[n + i]
    <2>1. n + 1 \in Int /\ len \in Int
      BY <1>1, <1>2
    <2>2. /\ b \in Seq(Nat)
          /\ Len(b) = IF n + 1 <= len THEN len - (n + 1) + 1 ELSE 0
          /\ \A i \in 1..len - (n + 1) + 1 : b[i] = gproxy_buffer[n + 1 + i - 1]
      BY <1>4, <2>1, SubSeqProperties DEF b
    <2>3. Len(b) = len - n
      BY <1>1, <1>2, <2>2
    <2>4. ASSUME NEW i \in 1..len - n
          PROVE  b[i] = gproxy_buffer[n + i]
      <3>1. i \in 1..len - (n + 1) + 1 /\ n + 1 + i - 1 = n + i
        BY <1>1, <1>2
      <3>2. b[i] = gproxy_buffer[n + 1 + i - 1]
        BY <2>2, <3>1
      <3>3. QED
        BY <3>1, <3>2
    <2>5. QED
      BY <2>2, <2>3, <2>4
  <1>6. \A i \in 1..len - n : gproxy_buffer[n + i] = total_sent - len + (n + i)
    BY <1>1, <1>2 DEF Suffix
  <1>7. \A i \in 1..len - n : b[i] = total_sent - Len(b) + i
    BY <1>1, <1>2, <1>5, <1>6
  <1>8. Suffix(b, total_sent) /\ Len(b) <= len
    BY <1>1, <1>2, <1>5, <1>7 DEF Suffix
  <1>9. QED
    BY <1>3, <1>8

(* Cutting a queue short and appending one message to it. *)
LEMMA QueueSteps ==
    ASSUME Queues(h2c), NEW c \in Conns, NEW m \in Message
    PROVE  /\ h2c[c] # <<>> => Queues([h2c EXCEPT ![c] = Tail(@)])
           /\ \A n \in 0..Len(h2c[c]) : Queues([h2c EXCEPT ![c] = Append(Prefix(@, n), m)])
           /\ Queues([h2c EXCEPT ![c] = Append(@, m)])
  <1>1. h2c[c] \in Seq(Message)
    BY DEF Queues
  <1>2. h2c[c] # <<>> => Tail(h2c[c]) \in Seq(Message)
    BY <1>1, HeadTailProperties
  <1>3. \A n \in 0..Len(h2c[c]) : Append(Prefix(h2c[c], n), m) \in Seq(Message)
    BY <1>1, PrefixOf, AppendProperties
  <1>4. Append(h2c[c], m) \in Seq(Message)
    BY <1>1, AppendProperties
  <1> QED BY <1>2, <1>3, <1>4 DEF Queues

(* How much room a working queue has. *)
LEMMA RoomLimit ==
    ASSUME Queues(h2c), NEW c \in Conns
    PROVE  /\ h2c[c] \in Seq(Message) /\ Len(h2c[c]) \in Nat /\ Room(c) \in Nat
           /\ Len(h2c[c]) <= QueueMax => Len(h2c[c]) + Room(c) <= QueueMax
  <1>1. h2c[c] \in Seq(Message) /\ Len(h2c[c]) \in Nat /\ QueueMax \in Nat
    BY LenProperties, SessionAssumption DEF Queues
  <1>2. CASE Len(h2c[c]) >= QueueMax \/ (pending_drop /\ ~SmallMayFit)
    <2>1. Room(c) = 0
      BY <1>2 DEF Room
    <2> QED BY <1>1, <2>1
  <1>3. CASE ~(Len(h2c[c]) >= QueueMax \/ (pending_drop /\ ~SmallMayFit))
    <2>1. Room(c) = QueueMax - Len(h2c[c]) /\ ~(Len(h2c[c]) >= QueueMax)
      BY <1>3 DEF Room
    <2> QED BY <1>1, <2>1
  <1> QED BY <1>2, <1>3

(* How many messages a queue takes before it refuses one. *)
Early(msgs, room) == IF Len(msgs) <= room THEN Len(msgs) ELSE room

(* Where a queue may go on after what it refused.                           *)
Again(msgs, room, j) ==
    /\ j \in 1..Len(msgs) + 1
    /\ IF Len(msgs) <= room THEN j = Len(msgs) + 1 ELSE room < j
    /\ ~SmallMayFit => j = Len(msgs) + 1

(* What try_send makes of an event's messages. *)
LEMMA PushTakes ==
    ASSUME NEW c \in open, NEW msgs \in Seq(Message), Push(c, msgs), Room(c) \in Nat
    PROVE  \E j \in Nat : /\ Again(msgs, Room(c), j)
                          /\ h2c' = [h2c EXCEPT ![c] = @ \o Taken(msgs, Room(c), j)]
                          /\ Refuse(msgs, Room(c), j)
  <1> DEFINE k == Len(msgs)
             room == Room(c)
             again == IF k <= room THEN {k + 1}
                      ELSE IF SmallMayFit THEN room + 2 .. k + 1 ELSE {k + 1}
  <1>1. PICK j \in again : /\ h2c' = [h2c EXCEPT ![c] = @ \o Taken(msgs, room, j)]
                           /\ Refuse(msgs, room, j)
    BY DEF Push
  <1>2. k \in Nat /\ room \in Nat
    BY LenProperties
  <1> HIDE DEF k, room
  <1>3. j \in Nat /\ j \in 1..k + 1 /\ (IF k <= room THEN j = k + 1 ELSE room < j)
        /\ (~SmallMayFit => j = k + 1)
    BY <1>1, <1>2
  <1> HIDE DEF again
  <1> QED BY <1>1, <1>3 DEF Again, k, room

(* What a queue takes: the messages it has room for, and the later ones.    *)
LEMMA TakenItems ==
    ASSUME NEW msgs \in Seq(Message), NEW room \in Nat, NEW j, Again(msgs, room, j)
    PROVE  LET s == Taken(msgs, room, j)
               t == Early(msgs, room)
           IN  /\ s \in Seq(Message) /\ Len(s) = t + (Len(msgs) - j + 1)
               /\ t \in 0..Len(msgs) /\ t < j /\ j \in 1..Len(msgs) + 1 /\ Len(msgs) \in Nat
               /\ \A x \in 1..t : s[x] = msgs[x]
               /\ \A x \in t + 1..Len(s) : s[x] = msgs[x - t + j - 1]
  <1> DEFINE k == Len(msgs)
             t == Early(msgs, room)
             early == Prefix(msgs, t)
             late == SubSeq(msgs, j, k)
             s == early \o late
  <1>1. k \in Nat
    BY LenProperties
  <1>2. t \in 0..k /\ t < j /\ j \in 1..k + 1
    BY <1>1 DEF Again, Early
  <1>3. s = Taken(msgs, room, j)
    BY DEF Taken, Early
  <1> HIDE DEF t
  <1>4. early \in Seq(Message) /\ Len(early) = t /\ \A x \in 1..t : early[x] = msgs[x]
    <2>1. \A x \in 1..t : msgs[x] \in Message
      BY <1>1, <1>2, ElementOfSeq
    <2>2. 1 \in Int /\ t \in Int
      BY <1>1, <1>2
    <2>3. /\ early \in Seq(Message) /\ Len(early) = IF 1 <= t THEN t - 1 + 1 ELSE 0
          /\ \A x \in 1..t - 1 + 1 : early[x] = msgs[1 + x - 1]
      BY <2>1, <2>2, SubSeqProperties DEF Prefix
    <2>4. \A x \in 1..t : x \in 1..t - 1 + 1 /\ 1 + x - 1 = x
      BY <1>1, <1>2
    <2> HIDE DEF early
    <2>5. Len(early) = t
      BY <1>1, <1>2, <2>3
    <2>6. ASSUME NEW x \in 1..t PROVE early[x] = msgs[x]
      BY <2>3, <2>4
    <2> QED BY <2>3, <2>5, <2>6
  <1>5. late \in Seq(Message) /\ Len(late) = k - j + 1
            /\ \A x \in 1..k - j + 1 : late[x] = msgs[j + x - 1]
    <2>1. j \in Int /\ k \in Int /\ \A i \in j..k : msgs[i] \in Message
      BY <1>1, <1>2, ElementOfSeq
    <2>2. /\ late \in Seq(Message) /\ Len(late) = IF j <= k THEN k - j + 1 ELSE 0
          /\ \A x \in 1..k - j + 1 : late[x] = msgs[j + x - 1]
      BY <2>1, SubSeqProperties
    <2> HIDE DEF late
    <2>3. Len(late) = k - j + 1
      BY <1>1, <1>2, <2>2
    <2> QED BY <2>2, <2>3
  <1> HIDE DEF early, late
  <1>6. /\ s \in Seq(Message) /\ Len(s) = Len(early) + Len(late)
        /\ \A x \in 1..Len(early) + Len(late) :
              s[x] = IF x <= Len(early) THEN early[x] ELSE late[x - Len(early)]
    BY <1>4, <1>5, ConcatProperties
  <1> HIDE DEF s
  <1>7. Len(s) = t + (k - j + 1)
    BY <1>4, <1>5, <1>6
  <1>8. ASSUME NEW x \in 1..t PROVE s[x] = msgs[x]
    <2>1. x \in 1..t + (k - j + 1) /\ x <= t
      BY <1>1, <1>2
    <2>2. s[x] = early[x]
      BY <1>4, <1>5, <1>6, <2>1
    <2> QED BY <1>4, <2>2
  <1>9. ASSUME NEW x \in t + 1..Len(s) PROVE s[x] = msgs[x - t + j - 1]
    <2>1. x \in 1..t + (k - j + 1) /\ ~(x <= t) /\ x - t \in 1..k - j + 1
          /\ j + (x - t) - 1 = x - t + j - 1
      BY <1>1, <1>2, <1>7
    <2>2. s[x] = late[x - t]
      BY <1>4, <1>5, <1>6, <2>1
    <2>3. late[x - t] = msgs[j + (x - t) - 1]
      BY <1>5, <2>1
    <2> QED BY <2>1, <2>2, <2>3
  <1>10. /\ s \in Seq(Message) /\ Len(s) = t + (k - j + 1)
         /\ t \in 0..k /\ t < j /\ j \in 1..k + 1 /\ k \in Nat
         /\ \A x \in 1..t : s[x] = msgs[x]
         /\ \A x \in t + 1..Len(s) : s[x] = msgs[x - t + j - 1]
    BY <1>1, <1>2, <1>6, <1>7, <1>8, <1>9
  <1> QED BY <1>3, <1>10 DEF t

(* try_send keeps the queues typed; and unless it notes the player for a     *)
(* drop, it keeps the queue within its limit.                               *)
LEMMA PushLimit ==
    ASSUME Queues(h2c), pending_drop \in BOOLEAN,
           NEW c \in Conns, NEW msgs \in Seq(Message), Push(c, msgs)
    PROVE  /\ Queues(h2c') /\ pending_drop' \in BOOLEAN
           /\ pending_drop => pending_drop'
           /\ \A e \in Conns \ {c} : h2c'[e] = h2c[e]
           /\ c \notin open => h2c' = h2c
           /\ c \in open /\ ~pending_drop' /\ Len(h2c[c]) <= QueueMax => Len(h2c'[c]) <= QueueMax
  <1>1. pending_drop' \in BOOLEAN /\ (pending_drop => pending_drop')
    BY DEF Push
  <1>2. CASE c \notin open
    <2>1. h2c' = h2c
      BY <1>2 DEF Push
    <2> QED BY <1>1, <1>2, <2>1
  <1>3. CASE c \in open
    <2> DEFINE room == Room(c)
    <2>1. /\ h2c[c] \in Seq(Message) /\ Len(h2c[c]) \in Nat /\ room \in Nat
          /\ Len(h2c[c]) <= QueueMax => Len(h2c[c]) + room <= QueueMax
      BY RoomLimit
    <2>2. PICK j \in Nat : /\ Again(msgs, room, j)
                           /\ h2c' = [h2c EXCEPT ![c] = @ \o Taken(msgs, room, j)]
      BY <1>3, <2>1, PushTakes
    <2>3. ~pending_drop' => ~(Len(msgs) > room)
      BY <1>3 DEF Push
    <2> HIDE DEF room
    <2> DEFINE s == Taken(msgs, room, j)
               t == Early(msgs, room)
               q == h2c[c] \o s
    <2>4. s \in Seq(Message) /\ Len(s) = t + (Len(msgs) - j + 1) /\ Len(msgs) \in Nat
      BY <2>1, <2>2, TakenItems
    <2>5. ~pending_drop' => Len(s) = Len(msgs) /\ Len(msgs) <= room
      <3> SUFFICES ASSUME ~pending_drop' PROVE Len(s) = Len(msgs) /\ Len(msgs) <= room
        OBVIOUS
      <3>1. Len(msgs) <= room
        BY <2>1, <2>3, <2>4
      <3>2. t = Len(msgs) /\ j = Len(msgs) + 1
        BY <2>2, <3>1 DEF Early, Again
      <3> HIDE DEF s, t
      <3> QED BY <2>4, <3>1, <3>2
    <2> HIDE DEF s, t
    <2>6. q \in Seq(Message) /\ Len(q) = Len(h2c[c]) + Len(s) /\ h2c' = [h2c EXCEPT ![c] = q]
      BY <2>1, <2>2, <2>4, ConcatProperties DEF s
    <2> HIDE DEF q
    <2>7. Queues(h2c') /\ (\A e \in Conns \ {c} : h2c'[e] = h2c[e]) /\ h2c'[c] = q
      BY <2>6 DEF Queues
    <2>8. ~pending_drop' /\ Len(h2c[c]) <= QueueMax => Len(q) <= QueueMax
      BY <2>1, <2>4, <2>5, <2>6, SessionAssumption
    <2> QED BY <1>1, <1>3, <2>7, <2>8
  <1> QED BY <1>2, <1>3

(* The types alone. *)
LEMMA PushQueues ==
    ASSUME Queues(h2c), pending_drop \in BOOLEAN,
           NEW c \in Conns, NEW msgs \in Seq(Message), Push(c, msgs)
    PROVE  Queues(h2c') /\ pending_drop' \in BOOLEAN
  BY PushLimit

(* Sending goes on where the buffer ends. *)
LEMMA SuffixExtends ==
    ASSUME NEW b, Suffix(b, total_sent), NEW k \in Nat
    PROVE  Suffix(b \o Fresh(k), total_sent + k)
  <1>1. total_sent \in Nat /\ b \in Seq(Nat) /\ Len(b) \in Nat /\ Len(b) <= total_sent
    BY LenProperties DEF Suffix
  <1> DEFINE f == Fresh(k)
             e == b \o f
  <1>2. f \in Seq(Nat) /\ Len(f) = k /\ \A i \in 1..k : f[i] = total_sent + i
    BY <1>1, FreshNumbers
  <1> HIDE DEF f
  <1>3. /\ e \in Seq(Nat) /\ Len(e) = Len(b) + k
        /\ \A i \in 1..Len(b) + k : e[i] = IF i <= Len(b) THEN b[i] ELSE f[i - Len(b)]
    BY <1>1, <1>2, ConcatProperties
  <1> HIDE DEF e
  <1>4. ASSUME NEW i \in 1..Len(e)
        PROVE  e[i] = total_sent + k - Len(e) + i
    <2>1. CASE i <= Len(b)
      <3>1. e[i] = b[i] /\ i \in 1..Len(b)
        BY <1>1, <1>3, <2>1
      <3>2. b[i] = total_sent - Len(b) + i
        BY <3>1 DEF Suffix
      <3>3. QED
        BY <1>1, <1>3, <3>1, <3>2
    <2>2. CASE i > Len(b)
      <3>1. i - Len(b) \in 1..k
        BY <1>1, <1>3, <2>2
      <3>2. e[i] = f[i - Len(b)]
        BY <1>1, <1>3, <2>2
      <3>3. e[i] = total_sent + (i - Len(b))
        BY <1>2, <3>1, <3>2
      <3>4. QED
        BY <1>1, <1>3, <3>3
    <2>3. QED
      BY <1>1, <1>3, <2>1, <2>2
  <1>5. Suffix(e, total_sent + k)
    BY <1>1, <1>3, <1>4 DEF Suffix
  <1>6. QED
    BY <1>5 DEF e, f

(* Numbering and keeping k packets, as every sender does, preserves         *)
(* BufferInv.                                                               *)
LEMMA KeepPreserves ==
    ASSUME BufferInv, NEW k \in Nat, NEW loaded \in BOOLEAN, game_loaded \in BOOLEAN,
           total_sent' = total_sent + k, Keep(k, loaded),
           gproxy' = gproxy, game_loaded' = loaded, game_loaded => loaded
    PROVE  BufferInv'
  <1>1. CASE gproxy /\ loaded
    BY <1>1, SuffixExtends DEF BufferInv, Keep
  <1>2. CASE ~(gproxy /\ loaded)
    <2>1. gproxy_buffer = <<>> /\ gproxy_buffer' = <<>>
      BY <1>2 DEF BufferInv, Keep
    <2>2. total_sent' \in Nat
      BY DEF BufferInv, Suffix
    <2>3. Suffix(<<>>, total_sent')
      BY <2>2, EmptySeq DEF Suffix
    <2>4. QED
      BY <2>1, <2>3 DEF BufferInv
  <1>3. QED
    BY <1>1, <1>2

(* send_to_pid preserves the buffer and the queues. *)
LEMMA SendToPidPreserves ==
    ASSUME IInv, NEW k \in Nat, NEW loaded \in BOOLEAN, SendToPid(k, loaded),
           gproxy' = gproxy, game_loaded' = loaded, game_loaded => loaded
    PROVE  BufferInv' /\ Queues(h2c') /\ pending_drop' \in BOOLEAN
  <1>1. /\ BufferInv /\ Queues(h2c) /\ total_sent \in Nat
        /\ game_loaded \in BOOLEAN /\ pending_drop \in BOOLEAN /\ conn_id \in Conns
    BY DEF IInv, Control, BufferInv, Suffix
  <1>2. BufferInv'
    BY <1>1, KeepPreserves DEF SendToPid
  <1>3. CASE gproxy_disconnected
    BY <1>1, <1>2, <1>3 DEF SendToPid
  <1>4. CASE ~gproxy_disconnected
    <2>1. Data(Fresh(k)) \in Seq(Message)
      BY <1>1, FreshNumbers, DataPackets
    <2>2. Push(conn_id, Data(Fresh(k)))
      BY <1>4 DEF SendToPid
    <2>3. QED
      BY <1>1, <1>2, <2>1, <2>2, PushQueues
  <1>5. QED
    BY <1>3, <1>4

(* Announcing a hold keeps the line like any other. *)
LEMMA AnnounceHoldPreserves ==
    ASSUME IInv, AnnounceHold, CanHold, gproxy' = gproxy, game_loaded' = game_loaded
    PROVE  BufferInv'
  <1>1. Notices(1) \in Nat
    BY NoticesBounded
  <1>2. gproxy_buffer' = gproxy_buffer \o Fresh(Notices(1)) /\ total_sent' = total_sent + Notices(1)
    BY DEF AnnounceHold
  <1>3. Suffix(gproxy_buffer, total_sent)
    BY DEF IInv, BufferInv
  <1>4. QED
    BY <1>1, <1>2, <1>3, SuffixExtends DEF BufferInv, CanHold

(* The same steps on the queues the actor reads. *)
LEMMA InputSteps ==
    ASSUME c2h \in [Conns -> Seq(Message)], NEW c \in Conns, NEW m \in Message
    PROVE  /\ c2h[c] # <<>> => /\ [c2h EXCEPT ![c] = Tail(@)] \in [Conns -> Seq(Message)]
                               /\ Head(c2h[c]) \in Message
           /\ [c2h EXCEPT ![c] = Append(@, m)] \in [Conns -> Seq(Message)]
           /\ \A n \in 0..Len(c2h[c]) :
                 [c2h EXCEPT ![c] = Append(Prefix(@, n), m)] \in [Conns -> Seq(Message)]
  <1>1. c2h[c] \in Seq(Message)
    OBVIOUS
  <1>2. c2h[c] # <<>> => Tail(c2h[c]) \in Seq(Message) /\ Head(c2h[c]) \in Message
    BY <1>1, HeadTailProperties
  <1>3. \A n \in 0..Len(c2h[c]) : Append(Prefix(c2h[c], n), m) \in Seq(Message)
    BY <1>1, PrefixOf, AppendProperties
  <1>4. Append(c2h[c], m) \in Seq(Message)
    BY <1>1, AppendProperties
  <1>5. QED
    BY <1>2, <1>3, <1>4

(***************************************************************************)
(* The inductive invariant                                                 *)
(***************************************************************************)

(* The lobby player of Init has been sent less than a queue holds. *)
LEMMA InitIInv == Init => IInv
  <1> SUFFICES ASSUME Init PROVE IInv
    OBVIOUS
  <1> USE SessionAssumption
  <1>1. 1 \in Conns
    BY DEF Conns
  <1> DEFINE all == [i \in 1..PreSent |-> i]
  <1>2. all \in Seq(Nat) /\ Len(all) = PreSent
    BY IsASeq
  <1>3. Data(all) \in Seq(Message) /\ Len(Data(all)) = PreSent
    BY <1>2, DataPackets
  <1> HIDE DEF all
  <1>4. <<>> \in Seq(Message) /\ Len(<<>>) = 0 /\ <<>> \in Seq(Nat)
    BY EmptySeq
  <1>5. h2c = [c \in Conns |-> IF c = 1 THEN Data(all) ELSE <<>>]
    BY DEF Init, all
  <1>6. Queues(h2c)
    BY <1>3, <1>4, <1>5 DEF Queues
  <1>7. BufferInv
    BY <1>4 DEF Init, BufferInv, Suffix
  <1>8. c2h \in [Conns -> Seq(Message)]
    <2>1. Gps("INIT", 0) \in Message
      BY DEF Gps, Message
    <2>2. <<Gps("INIT", 0)>> \in Seq(Message)
      BY <2>1
    <2>3. PICK first \in {<<>>, <<Gps("INIT", 0)>>} :
                c2h = [c \in Conns |-> IF c = 1 THEN first ELSE <<>>]
      BY DEF Init
    <2>4. first \in Seq(Message) /\ <<>> \in Seq(Message)
      BY <1>4, <2>2
    <2> HIDE SessionAssumption DEF Init
    <2>5. QED
      BY <2>3, <2>4
  <1>9. Control
    <2>1. host_got \in Seq(Nat)
      BY DEF Init
    <2>2. got \in Seq(Nat)
      BY <1>4 DEF Init
    <2>3. {total_received, loaded_at, faults, c_sent, c_trim, c_acked} \subseteq Nat
      BY DEF Init
    <2>4. /\ conn_id \in Conns /\ ccon \in Conns /\ conn_pid \subseteq Conns
          /\ open \subseteq Conns /\ \A c \in open : c <= ccon
          /\ dials \subseteq [conn : Conns, last : Nat]
      BY <1>1 DEF Init
    <2>5. /\ {seated, game_loaded, gproxy, gproxy_disconnected, pending_drop, ckey}
               \subseteq BOOLEAN
          /\ stage \in {"event", "drops"} /\ cstate \in {"up", "await", "quit"}
      BY DEF Init
    <2>6. QED
      BY <1>8, <2>1, <2>2, <2>3, <2>4, <2>5 DEF Control
  <1>10. QED
    BY <1>6, <1>7, <1>9 DEF IInv

(* The actor's own events send, or change nothing the invariant is about.   *)
LEMMA SendStep ==
    ASSUME IInv, Broadcast \/ OtherPlayerDropped \/ CheckLoadingComplete \/ GameTickExpire
    PROVE  IInv'
  <1> USE SessionAssumption
  <1>1. game_loaded \in BOOLEAN /\ total_sent \in Nat /\ LoadLines \in Nat
    BY DEF IInv, Control, BufferInv, Suffix
  <1>2. BufferInv' /\ Queues(h2c') /\ pending_drop' \in BOOLEAN
    <2>1. CASE Broadcast
      <3>1. PICK k \in EventSends : SendToPid(k, game_loaded)
        BY <2>1 DEF Broadcast
      <3>2. k \in Nat
        OBVIOUS
      <3>3. gproxy' = gproxy /\ game_loaded' = game_loaded
        BY <2>1 DEF Broadcast
      <3>4. QED
        BY <1>1, <3>1, <3>2, <3>3, SendToPidPreserves
    <2>2. CASE OtherPlayerDropped
      BY <1>1, <2>2, SendToPidPreserves DEF OtherPlayerDropped
    <2>3. CASE CheckLoadingComplete
      <3>1. SendToPid(Notices(LoadLines), TRUE) /\ game_loaded' = TRUE /\ gproxy' = gproxy
        BY <2>3 DEF CheckLoadingComplete
      <3>2. Notices(LoadLines) \in Nat
        BY <1>1, NoticesBounded
      <3>3. QED
        BY <3>1, <3>2, SendToPidPreserves
    <2>4. CASE GameTickExpire
      <3>1. Notices(1) \in Nat
        BY NoticesBounded
      <3>2. QED
        BY <1>1, <2>4, <3>1, SendToPidPreserves DEF GameTickExpire
    <2>5. QED
      BY <2>1, <2>2, <2>3, <2>4
  <1>3. Control'
    <2>1. CASE Broadcast
      BY <1>2, <2>1 DEF IInv, Control, Broadcast, EndEvent, hostIn, routing, client
    <2>2. CASE OtherPlayerDropped
      BY <1>2, <2>2 DEF IInv, Control, OtherPlayerDropped, hostIn, routing, client
    <2>3. CASE CheckLoadingComplete
      BY <1>1, <1>2, <2>3 DEF IInv, Control, CheckLoadingComplete, EndEvent, hostIn, routing, client
    <2>4. CASE GameTickExpire
      BY <1>2, <2>4 DEF IInv, Control, GameTickExpire, EndEvent, hostIn, client
    <2>5. QED
      BY <2>1, <2>2, <2>3, <2>4
  <1> QED BY <1>2, <1>3 DEF IInv

(* The ping is one more packet sent; the GPSS_ACK after it has room.        *)
LEMMA PingStep == IInv /\ PingTick => IInv'
  <1> SUFFICES ASSUME IInv, PingTick PROVE IInv'
    OBVIOUS
  <1> USE SessionAssumption
  <1> DEFINE acks == IF gproxy /\ ~gproxy_disconnected /\ conn_id \in open
                        /\ Len(h2c[conn_id]) + 2 <= QueueMax
                     THEN <<Gps("ACK", total_received)>> ELSE <<>>
  <1>1. /\ game_loaded \in BOOLEAN /\ total_sent \in Nat /\ conn_id \in Conns
        /\ total_received \in Nat /\ pending_drop \in BOOLEAN
        /\ Queues(h2c) /\ BufferInv
    BY DEF IInv, Control, BufferInv, Suffix
  <1>2. acks \in Seq(Message)
    <2>1. Gps("ACK", total_received) \in Message
      BY <1>1 DEF Gps, Message
    <2>2. <<Gps("ACK", total_received)>> \in Seq(Message)
      BY <2>1
    <2>3. QED
      BY <2>2, EmptySeq
  <1>3. BufferInv'
    BY <1>1, KeepPreserves DEF PingTick
  <1>4. Queues(h2c') /\ pending_drop' \in BOOLEAN
    <2>1. CASE gproxy_disconnected
      BY <1>1, <2>1 DEF PingTick
    <2>2. CASE ~gproxy_disconnected
      <3>1. Data(Fresh(1)) \in Seq(Message)
        BY <1>1, FreshNumbers, DataPackets
      <3>2. Push(conn_id, Data(Fresh(1)) \o acks)
        BY <2>2 DEF PingTick
      <3> HIDE DEF acks
      <3>3. Data(Fresh(1)) \o acks \in Seq(Message)
        BY <1>2, <3>1, ConcatProperties
      <3>4. QED
        BY <1>1, <3>2, <3>3, PushQueues
    <2>3. QED
      BY <2>1, <2>2
  <1>5. Control'
    BY <1>4 DEF IInv, Control, PingTick, EndEvent, hostIn, routing, client
  <1>6. QED
    BY <1>3, <1>4, <1>5 DEF IInv, Queues

(* Taking an event from a connection.                                       *)
LEMMA ReadStep ==
    ASSUME IInv, NEW c \in Conns,
           HandlePlayerFrame(c) \/ HandleGpsInit(c) \/ HandleGpsAck(c)
           \/ IgnoreUnmapped(c) \/ HandleConnClosed(c)
    PROVE  IInv'
  <1>1. c2h[c] # <<>>
    BY DEF HandlePlayerFrame, HandleGpsInit, HandleGpsAck, IgnoreUnmapped, HandleConnClosed, Heads
  <1>2. /\ c2h \in [Conns -> Seq(Message)] /\ Queues(h2c) /\ BufferInv
        /\ pending_drop \in BOOLEAN /\ game_loaded \in BOOLEAN /\ gproxy \in BOOLEAN
    BY DEF IInv, Control
  <1>3. Gps("INIT", 0) \in Message
    BY DEF Gps, Message
  <1>4. [c2h EXCEPT ![c] = Tail(@)] \in [Conns -> Seq(Message)] /\ Head(c2h[c]) \in Message
    BY <1>1, <1>2, <1>3, InputSteps
  <1>5. c2h' \in [Conns -> Seq(Message)] /\ Head(c2h[c]).n \in Nat
    BY <1>4 DEF Message, Take, HandlePlayerFrame, HandleGpsInit, HandleGpsAck, IgnoreUnmapped,
                HandleConnClosed
  <1>6. CASE HandlePlayerFrame(c)
    <2>1. host_got' \in Seq(Nat)
      BY <1>5, <1>6, AppendProperties DEF IInv, Control, HandlePlayerFrame
    <2>2. total_received' \in Nat /\ stage' \in {"event", "drops"}
      BY <1>6, SMTT(15), ZenonT(40) DEF IInv, Control, HandlePlayerFrame, EndEvent
    <2>3. UNCHANGED <<player, routing, client, pending_drop, open, dials, faults>>
      BY <1>6 DEF HandlePlayerFrame
    <2>4. Control'
      BY <1>5, <2>1, <2>2, <2>3 DEF IInv, Control, player, routing, client
    <2>5. QED
      BY <1>2, <1>6, <2>4
         DEF IInv, Queues, BufferInv, Suffix, HandlePlayerFrame, player, hostOut, client
  <1>7. CASE HandleGpsInit(c)
    <2>1. Queues(h2c')
      <3>1. CASE ReconnectEnabled /\ c \in open /\ Len(h2c[c]) < QueueMax
        BY <1>2, <1>3, <1>7, <3>1, QueueSteps DEF HandleGpsInit
      <3>2. CASE ~(ReconnectEnabled /\ c \in open /\ Len(h2c[c]) < QueueMax)
        BY <1>2, <1>7, <3>2 DEF HandleGpsInit
      <3>3. QED
        BY <3>1, <3>2
    <2>2. Control'
      BY <1>5, <1>7 DEF IInv, Control, HandleGpsInit, EndEvent, hostIn, routing, client
    <2>3. BufferInv'
      BY <1>2, <1>7 DEF BufferInv, Suffix, HandleGpsInit, hostOut
    <2>4. QED
      BY <1>7, <2>1, <2>2, <2>3 DEF IInv, Queues, HandleGpsInit, client
  <1>8. CASE HandleGpsAck(c)
    <2>1. Control'
      BY <1>5, <1>8 DEF IInv, Control, HandleGpsAck, EndEvent, player, hostIn, routing, client
    <2>2. /\ Suffix(gproxy_buffer', total_sent)
          /\ Len(gproxy_buffer') <= Len(gproxy_buffer)
      BY <1>2, <1>5, <1>8, TrimKeepsSuffix DEF HandleGpsAck, BufferInv
    <2>3. gproxy_buffer' # <<>> => gproxy_buffer # <<>>
      BY <1>2, <2>2, LenProperties, EmptySeq DEF BufferInv, Suffix
    <2>4. BufferInv'
      BY <1>2, <1>8, <2>2, <2>3 DEF BufferInv, HandleGpsAck, player
    <2>5. QED
      BY <1>2, <1>8, <2>1, <2>4 DEF IInv, Queues, HandleGpsAck, client
  <1>9. CASE IgnoreUnmapped(c)
    <2>1. Control'
      BY <1>5, <1>9 DEF IInv, Control, IgnoreUnmapped, EndEvent, player, hostIn, routing, client
    <2>2. QED
      BY <1>2, <1>9, <2>1 DEF IInv, Queues, BufferInv, Suffix, IgnoreUnmapped,
                                player, hostOut, client
  <1>10. CASE HandleConnClosed(c)
    <2>1. Control' /\ h2c' = h2c
      BY <1>5, <1>10 DEF IInv, Control, HandleConnClosed, EndEvent, hostIn, client
    <2>2. BufferInv'
      <3>1. CASE CanHold /\ ~gproxy_disconnected
        BY <1>10, <3>1, AnnounceHoldPreserves DEF HandleConnClosed
      <3>2. CASE ~(CanHold /\ ~gproxy_disconnected)
        BY <1>2, <1>10, <3>2 DEF HandleConnClosed, BufferInv, Suffix, hostOut
      <3>3. QED
        BY <3>1, <3>2
    <2>3. QED
      BY <1>2, <2>1, <2>2 DEF IInv, Queues
  <1>11. QED
    BY <1>6, <1>7, <1>8, <1>9, <1>10

(* A reconnect puts the reply and the backlog on the new connection's empty *)
(* queue, as far as they fit.                                               *)
LEMMA ReconnectStep ==
    ASSUME IInv, NEW d \in dials, HandleGproxyReconnect(d)
    PROVE  IInv'
  <1> USE SessionAssumption
  <1> DEFINE buf == TrimGproxyBuffer(d.last)
             replay == Replay(buf)
             line == Fresh(Notices(1))
  <1>1. /\ d.conn \in Conns /\ d.last \in Nat /\ total_received \in Nat
        /\ Queues(h2c) /\ BufferInv /\ total_sent \in Nat
        /\ pending_drop \in BOOLEAN
    BY DEF IInv, Control, BufferInv, Suffix
  <1>2. /\ Suffix(buf, total_sent) /\ Len(buf) <= Len(gproxy_buffer)
        /\ buf \in Seq(Nat)
    BY <1>1, TrimKeepsSuffix DEF BufferInv, Suffix
  <1> HIDE DEF buf
  <1>3. replay \in Seq(Message)
    <2>1. Gps("RECONNECT", total_received) \in Message
      BY <1>1 DEF Gps, Message
    <2>2. <<Gps("RECONNECT", total_received)>> \in Seq(Message)
      BY <2>1
    <2>3. Data(buf) \in Seq(Message)
      BY <1>2, DataPackets
    <2>4. QED
      BY <2>2, <2>3, ConcatProperties DEF Replay
  <1>4. Notices(1) \in Nat
    BY NoticesBounded
  <1>5. line \in Seq(Nat) /\ Len(line) = Notices(1) /\ Data(line) \in Seq(Message)
    BY <1>1, <1>4, FreshNumbers, DataPackets
  <1>6. Suffix(buf \o line, total_sent + Notices(1))
    BY <1>2, <1>4, SuffixExtends
  <1> HIDE DEF replay, line
  <1> DEFINE Sends(replayed) == IF replayed THEN replay \o Data(line) ELSE replay
             All(replayed) == replayed /\ Len(Sends(replayed)) <= QueueMax
             fits == IF d.conn \in open THEN {Len(replay) <= QueueMax} ELSE BOOLEAN
  <1>7. PICK replayed \in fits :
           /\ total_sent' = total_sent + (IF replayed THEN Len(line) ELSE 0)
           /\ gproxy_buffer' = IF replayed /\ game_loaded THEN buf \o line ELSE buf
           /\ h2c' = IF d.conn \in open
                     THEN [h2c EXCEPT ![d.conn] = Prefix(Sends(replayed),
                             IF All(replayed) THEN Len(Sends(replayed)) ELSE QueueMax)]
                     ELSE h2c
           /\ pending_drop' = (pending_drop \/ ~All(replayed))
    BY DEF HandleGproxyReconnect, buf, replay, line
  <1>8. replayed \in BOOLEAN /\ (d.conn \in open => replayed = (Len(replay) <= QueueMax))
    <2>1. CASE d.conn \in open
      <3>1. fits = {Len(replay) <= QueueMax}
        BY <2>1
      <3>2. replayed = (Len(replay) <= QueueMax)
        BY <1>7, <3>1
      <3>3. (Len(replay) <= QueueMax) \in BOOLEAN
        OBVIOUS
      <3>4. QED
        BY <3>2, <3>3
    <2>2. CASE d.conn \notin open
      <3>1. fits = BOOLEAN
        BY <2>2
      <3>2. QED
        BY <1>7, <2>2, <3>1
    <2>3. QED
      BY <2>1, <2>2
  <1>9. Sends(replayed) \in Seq(Message) /\ Len(Sends(replayed)) \in Nat /\ QueueMax \in Nat
    <2>1. replay \o Data(line) \in Seq(Message)
      BY <1>3, <1>5, ConcatProperties
    <2>2. Sends(replayed) \in Seq(Message)
      BY <1>3, <2>1
    <2>3. QED
      BY <2>2, LenProperties
  <1>10. Queues(h2c')
    <2>1. CASE d.conn \notin open
      BY <1>1, <1>7, <2>1
    <2>2. CASE d.conn \in open
      <3> DEFINE n == IF All(replayed) THEN Len(Sends(replayed)) ELSE QueueMax
      <3>1. ~replayed => Sends(replayed) = replay
        OBVIOUS
      <3>2. n \in 0..Len(Sends(replayed)) /\ n <= QueueMax
        <4>1. Len(replay) \in Nat
          BY <1>3, LenProperties
        <4>2. CASE All(replayed)
          BY <1>9, <4>2
        <4>3. CASE ~All(replayed)
          <5>1. n = QueueMax
            BY <4>3
          <5>2. QueueMax <= Len(Sends(replayed))
            <6>1. CASE replayed
              <7>1. ~(Len(Sends(replayed)) <= QueueMax)
                BY <4>3, <6>1
              <7> HIDE DEF Sends
              <7>2. QED
                BY <1>9, <7>1
            <6>2. CASE ~replayed
              <7>1. ~(Len(replay) <= QueueMax)
                BY <1>8, <2>2, <6>2
              <7>2. QED
                BY <1>9, <3>1, <4>1, <6>2, <7>1
            <6>3. QED
              BY <6>1, <6>2
          <5>3. QED
            BY <1>9, <5>1, <5>2
        <4>4. QED
          BY <4>2, <4>3
      <3>3. h2c' = [h2c EXCEPT ![d.conn] = Prefix(Sends(replayed), n)]
        BY <1>7, <2>2
      <3> HIDE DEF n, Sends
      <3>4. Prefix(Sends(replayed), n) \in Seq(Message) /\ Len(Prefix(Sends(replayed), n)) = n
        BY <1>9, <3>2, PrefixOf
      <3>5. QED
        BY <1>1, <1>9, <3>2, <3>3, <3>4 DEF Queues
    <2>3. QED
      BY <2>1, <2>2
  <1>11. BufferInv'
    <2>1. gproxy /\ game_loaded' = game_loaded /\ gproxy' = gproxy
      BY DEF HandleGproxyReconnect
    <2>2. CASE game_loaded
      <3>1. CASE replayed
        BY <1>5, <1>6, <1>7, <2>1, <2>2, <3>1 DEF BufferInv
      <3>2. CASE ~replayed
        BY <1>1, <1>2, <1>7, <2>1, <2>2, <3>2 DEF BufferInv
      <3>3. QED
        BY <3>1, <3>2
    <2>3. CASE ~game_loaded
      <3>1. gproxy_buffer = <<>> /\ Len(gproxy_buffer) = 0
        BY <1>1, <2>3, EmptySeq DEF BufferInv
      <3>2. buf = <<>>
        BY <1>2, <3>1, EmptySeq, LenProperties
      <3>3. gproxy_buffer' = <<>> /\ total_sent' \in Nat
        BY <1>1, <1>4, <1>5, <1>7, <2>3, <3>2
      <3>4. Suffix(<<>>, total_sent')
        BY <3>3, EmptySeq DEF Suffix
      <3>5. QED
        BY <3>3, <3>4 DEF BufferInv
    <2>4. QED
      BY <2>2, <2>3
  <1>12. pending_drop' \in BOOLEAN
    BY <1>1, <1>7, <1>8
  <1>13. Control'
    BY <1>1, <1>12 DEF IInv, Control, HandleGproxyReconnect, EndEvent, hostIn, client
  <1>14. QED
    BY <1>10, <1>11, <1>13 DEF IInv, Queues

(* A rejection is one message on a queue that has had nothing else. *)
LEMMA RejectStep ==
    ASSUME IInv, NEW d \in dials, RejectReconnect(d)
    PROVE  IInv'
  <1> USE SessionAssumption
  <1>1. d.conn \in Conns /\ Queues(h2c) /\ BufferInv
    BY DEF IInv, Control
  <1>2. Gps("REJECT", 0) \in Message
    BY DEF Gps, Message
  <1>3. /\ <<Gps("REJECT", 0)>> \in Seq(Message) /\ Len(<<Gps("REJECT", 0)>>) = 1
        /\ 1 <= QueueMax
    BY <1>2
  <1>4. Queues(h2c')
    BY <1>1, <1>3 DEF Queues, RejectReconnect
  <1>5. Control'
    BY DEF IInv, Control, RejectReconnect, EndEvent, player, hostIn, routing, client
  <1>6. BufferInv'
    BY <1>1 DEF BufferInv, Suffix, RejectReconnect, player, hostOut
  <1>7. QED
    BY <1>4, <1>5, <1>6 DEF IInv, Queues

(* CloseConn ends a working connection and touches no other. *)
LEMMA CloseQueues ==
    ASSUME IInv, NEW c \in Conns, CloseConn(c)
    PROVE  Queues(h2c') /\ c2h' \in [Conns -> Seq(Message)] /\ open' \subseteq open
  <1>1. Queues(h2c) /\ c2h \in [Conns -> Seq(Message)]
    BY DEF IInv, Control
  <1>2. Closed \in Message
    BY DEF Closed, Gps, Message
  <1>3. open' \subseteq open
    BY DEF CloseConn
  <1>4. CASE c \in open
    <2>1. PICK n \in 0..Len(h2c[c]) : h2c' = [h2c EXCEPT ![c] = Append(Prefix(@, n), Closed)]
      BY <1>4 DEF CloseConn
    <2>2. Queues(h2c')
      BY <1>1, <1>2, <2>1, QueueSteps
    <2>3. c2h' = [c2h EXCEPT ![c] = Append(@, Closed)]
      BY <1>4 DEF CloseConn
    <2>4. c2h' \in [Conns -> Seq(Message)]
      BY <1>1, <1>2, <2>3, InputSteps
    <2> QED BY <1>3, <2>2, <2>4
  <1>5. CASE c \notin open
    BY <1>1, <1>3, <1>5 DEF CloseConn
  <1> QED BY <1>4, <1>5

(* process_pending_drops closes, and announces a hold like any line.        *)
LEMMA DropStep == IInv /\ ProcessPendingDrops => IInv'
  <1> SUFFICES ASSUME IInv, ProcessPendingDrops PROVE IInv'
    OBVIOUS
  <1>1. Queues(h2c) /\ BufferInv /\ conn_id \in Conns
    BY DEF IInv, Control
  <1>2. CASE ~seated \/ gproxy_disconnected
    <2>1. Control' /\ h2c' = h2c
      BY <1>2 DEF IInv, Control, ProcessPendingDrops, player, hostIn, routing, client
    <2>2. BufferInv'
      BY <1>1, <1>2 DEF BufferInv, Suffix, ProcessPendingDrops, player, hostOut
    <2>3. QED
      BY <1>1, <2>1, <2>2 DEF IInv, Queues
  <1>3. CASE ~(~seated \/ gproxy_disconnected)
    <2>1. CloseConn(conn_id)
      BY <1>3 DEF ProcessPendingDrops
    <2>2. Queues(h2c') /\ c2h' \in [Conns -> Seq(Message)] /\ open' \subseteq open
      BY <1>1, <2>1, CloseQueues
    <2>3. Control'
      BY <1>3, <2>2 DEF IInv, Control, ProcessPendingDrops, hostIn, client
    <2>4. BufferInv'
      <3>1. gproxy' = gproxy /\ game_loaded' = game_loaded
        BY <1>3 DEF ProcessPendingDrops
      <3>2. CASE CanHold
        BY <1>3, <3>1, <3>2, AnnounceHoldPreserves DEF ProcessPendingDrops
      <3>3. CASE ~CanHold
        BY <1>1, <1>3, <3>1, <3>3 DEF ProcessPendingDrops, BufferInv, Suffix, hostOut
      <3>4. QED
        BY <3>2, <3>3
    <2>5. QED
      BY <2>2, <2>3, <2>4 DEF IInv
  <1>4. QED
    BY <1>2, <1>3

(* A connection that ends leaves what it had queued, or part of it, and one *)
(* more message, and works no more.                                         *)
LEMMA NetStep ==
    ASSUME IInv, NEW c \in Conns, LoseConn(c) \/ WriteTaskEnds(c)
    PROVE  IInv'
  <1>1. /\ Queues(h2c) /\ BufferInv /\ c \in open /\ ccon \in Conns
        /\ c2h \in [Conns -> Seq(Message)] /\ open \subseteq Conns
        /\ \A e \in open : e <= ccon
    BY DEF IInv, Control, LoseConn, WriteTaskEnds
  <1>2. Closed \in Message
    BY DEF Closed, Gps, Message
  <1>3. open' = open \ {c} /\ ccon' = ccon
    BY DEF LoseConn, WriteTaskEnds, client
  <1>5. Queues(h2c') /\ c2h' \in [Conns -> Seq(Message)]
    <2>1. CASE LoseConn(c)
      <3>1. PICK n \in 0..Len(h2c[c]), m \in 0..Len(c2h[c]) :
               /\ h2c' = [h2c EXCEPT ![c] = Append(Prefix(@, n), Closed)]
               /\ c2h' = [c2h EXCEPT ![c] = Append(Prefix(@, m), Closed)]
        BY <2>1 DEF LoseConn
      <3>2. Queues([h2c EXCEPT ![c] = Append(Prefix(@, n), Closed)])
        BY <1>1, <1>2, QueueSteps
      <3>3. [c2h EXCEPT ![c] = Append(Prefix(@, m), Closed)] \in [Conns -> Seq(Message)]
        BY <1>1, <1>2, InputSteps
      <3>4. QED
        BY <3>1, <3>2, <3>3
    <2>2. CASE WriteTaskEnds(c)
      <3>1. /\ h2c' = [h2c EXCEPT ![c] = Append(@, Closed)]
            /\ c2h' = [c2h EXCEPT ![c] = Append(@, Closed)]
        BY <2>2 DEF WriteTaskEnds
      <3>2. Queues([h2c EXCEPT ![c] = Append(@, Closed)])
        BY <1>1, <1>2, QueueSteps
      <3>3. [c2h EXCEPT ![c] = Append(@, Closed)] \in [Conns -> Seq(Message)]
        BY <1>1, <1>2, InputSteps
      <3>4. QED
        BY <3>1, <3>2, <3>3
    <2>3. QED
      BY <2>1, <2>2
  <1>6. BufferInv'
    BY <1>1 DEF BufferInv, Suffix, LoseConn, WriteTaskEnds, player, hostOut
  <1>7. dials' \subseteq dials /\ faults' \in Nat
    <2>1. faults \in Nat
      BY DEF IInv, Control
    <2>2. CASE LoseConn(c)
      <3>1. dials' \subseteq dials /\ faults' = faults + 1
        BY <2>2 DEF LoseConn
      <3> QED BY <2>1, <3>1
    <2>3. CASE WriteTaskEnds(c)
      BY <2>1, <2>3 DEF WriteTaskEnds
    <2> QED BY <2>2, <2>3
  <1>10. UNCHANGED <<player, hostIn, routing, actor, client>>
    BY DEF LoseConn, WriteTaskEnds
  <1>8. Control'
    BY <1>3, <1>5, <1>7, <1>10
       DEF IInv, Control, player, hostIn, routing, actor, client
  <1>9. QED
    BY <1>5, <1>6, <1>8 DEF IInv

(* What the client reads leaves its queue, and what it writes is typed.     *)
LEMMA ClientStep == IInv /\ ClientNext => IInv'
  <1> SUFFICES ASSUME IInv, ClientNext PROVE IInv'
    OBVIOUS
  <1>1. /\ Queues(h2c) /\ BufferInv /\ ccon \in Conns
        /\ c2h \in [Conns -> Seq(Message)] /\ open \subseteq Conns
        /\ got \in Seq(Nat) /\ Len(got) \in Nat /\ {c_sent, c_trim} \subseteq Nat
        /\ \A e \in open : e <= ccon
    BY LenProperties DEF IInv, Control
  <1>2. Closed \in Message
    BY DEF Closed, Gps, Message
  <1>3. ASSUME h2c[ccon] # <<>>
        PROVE  /\ Queues([h2c EXCEPT ![ccon] = Tail(@)])
               /\ Head(h2c[ccon]) \in Message /\ Head(h2c[ccon]).n \in Nat
    <2>1. h2c[ccon] \in Seq(Message)
      BY <1>1 DEF Queues
    <2>2. Head(h2c[ccon]) \in Message
      BY <1>3, <2>1, HeadTailProperties
    <2>3. Queues([h2c EXCEPT ![ccon] = Tail(@)])
      BY <1>1, <1>2, <1>3, QueueSteps
    <2>4. QED
      BY <2>2, <2>3 DEF Message
  <1>4. BufferInv'
    BY <1>1 DEF BufferInv, Suffix, ClientNext, ClientReceive, ClientReceiveInit, ClientReceiveAck,
                ClientResume, ClientRejected, ClientSend, ClientAck, ClientDial, player, hostOut
  <1>5. CASE ClientReceive \/ ClientReceiveInit \/ ClientReceiveAck \/ ClientRejected
    <2>1. Queues(h2c')
      BY <1>3, <1>5 DEF Read, Next1, ClientReceive, ClientReceiveInit, ClientReceiveAck,
                        ClientRejected
    <2>2. got' \in Seq(Nat)
      <3>1. got' = got \/ (h2c[ccon] # <<>> /\ got' = Append(got, Head(h2c[ccon]).n))
        BY <1>5 DEF Next1, ClientReceive, ClientReceiveInit, ClientReceiveAck, ClientRejected
      <3> DEFINE n == Head(h2c[ccon]).n
      <3>2. h2c[ccon] # <<>> => n \in Nat
        BY <1>3
      <3> HIDE DEF n
      <3>3. n \in Nat => Append(got, n) \in Seq(Nat)
        BY <1>1, AppendProperties
      <3> QED BY <1>1, <3>1, <3>2, <3>3 DEF n
    <2>3. Control'
      BY <1>3, <1>5, <2>2
         DEF IInv, Control, Next1, ClientReceive, ClientReceiveInit, ClientReceiveAck,
             ClientRejected, player, hostIn, routing, actor
    <2>4. QED
      BY <1>4, <2>1, <2>3 DEF IInv
  <1>6. CASE ClientResume
    <2> DEFINE n == Head(h2c[ccon]).n
               from == IF n > c_trim THEN n ELSE c_trim
               rest == [i \in 1..c_sent - from |-> W3gs(from + i)]
    <2>1. Queues(h2c') /\ n \in Nat
      BY <1>3, <1>6 DEF Read, Next1, ClientResume
    <2>2. from \in Nat
      BY <1>1, <2>1
    <2> HIDE DEF n, from
    <2>3. rest \in Seq(Message)
      <3>1. \A i \in 1..c_sent - from : W3gs(from + i) \in Message
        BY <1>1, <2>2 DEF W3gs, Message
      <3>2. CASE c_sent - from \in Nat
        BY <3>1, <3>2, IsASeq
      <3>3. CASE c_sent - from \notin Nat
        <4>1. 1..c_sent - from = {}
          BY <1>1, <2>2, <3>3
        <4>2. rest = <<>>
          BY <4>1
        <4>3. QED
          BY <4>2, EmptySeq
      <3>4. QED
        BY <3>2, <3>3
    <2> HIDE DEF rest
    <2>4. c2h' \in [Conns -> Seq(Message)] /\ c_trim' \in Nat
      <3>1. /\ c_trim' = from
            /\ c2h' = IF ccon \in open THEN [c2h EXCEPT ![ccon] = @ \o rest] ELSE c2h
        BY <1>6 DEF ClientResume, from, n, rest
      <3>2. c2h[ccon] \o rest \in Seq(Message)
        BY <1>1, <2>3, ConcatProperties
      <3>3. QED
        BY <1>1, <2>2, <3>1, <3>2
    <2>5. Control'
      BY <1>6, <2>4 DEF IInv, Control, ClientResume, player, hostIn, routing, actor
    <2>6. QED
      BY <1>4, <2>1, <2>5 DEF IInv
  <1>7. CASE ClientSend \/ ClientAck
    <2>1. W3gs(c_sent + 1) \in Message /\ Gps("ACK", Len(got)) \in Message
      BY <1>1 DEF W3gs, Gps, Message
    <2>2. /\ [c2h EXCEPT ![ccon] = Append(@, W3gs(c_sent + 1))] \in [Conns -> Seq(Message)]
          /\ [c2h EXCEPT ![ccon] = Append(@, Gps("ACK", Len(got)))] \in [Conns -> Seq(Message)]
      BY <1>1, <2>1, InputSteps
    <2>3. c2h' \in [Conns -> Seq(Message)] /\ c_sent' \in Nat /\ c_acked' \in Nat
      <3>1. CASE ClientSend
        BY <1>1, <2>2, <3>1 DEF IInv, Control, ClientSend
      <3>2. CASE ClientAck
        BY <1>1, <2>2, <3>2 DEF IInv, Control, ClientAck
      <3>3. QED
        BY <1>7, <3>1, <3>2
    <2>4. /\ UNCHANGED <<player, hostIn, routing, actor, open, h2c, dials, faults>>
          /\ UNCHANGED <<ccon, cstate, ckey, got, c_trim>>
      BY <1>7 DEF ClientSend, ClientAck
    <2>5. Control'
      BY <2>3, <2>4 DEF IInv, Control, player, hostIn, routing, actor
    <2>7. QED
      BY <1>1, <1>4, <2>4, <2>5 DEF IInv
  <1>8. CASE ClientDial
    <2>1. ccon + 1 \in Conns /\ ccon' = ccon + 1
      BY <1>1, <1>8, SessionAssumption DEF ClientDial, Conns
    <2>2. c2h' \in [Conns -> Seq(Message)]
      BY <1>1, <1>2, <1>8, InputSteps DEF ClientDial
    <2>3. open' = (open \ {ccon}) \union {ccon + 1}
      BY <1>8 DEF ClientDial
    <2>4. open' \subseteq Conns /\ \A e \in open' : e <= ccon'
      BY <1>1, <2>1, <2>3 DEF Conns
    <2>5. dials' \subseteq [conn : Conns, last : Nat] /\ faults' \in Nat /\ cstate' = "await"
      BY <1>1, <1>8, <2>1, SMTT(15), ZenonT(40) DEF IInv, Control, ClientDial
    <2>6. UNCHANGED <<player, hostIn, routing, actor, ckey, got, c_sent, c_trim, c_acked>>
      BY <1>8 DEF ClientDial
    <2>7. Control'
      BY <2>1, <2>2, <2>4, <2>5, <2>6 DEF IInv, Control, player, hostIn, routing, actor
    <2>9. Queues(h2c')
      <3>1. h2c' = [h2c EXCEPT ![ccon] = <<>>] /\ <<>> \in Seq(Message) /\ Len(<<>>) = 0
        BY <1>8, EmptySeq DEF ClientDial
      <3>2. QED
        BY <1>1, <3>1, SessionAssumption, SMTT(15), ZenonT(40) DEF Queues
    <2>10. QED
      BY <1>4, <2>7, <2>9 DEF IInv
  <1>9. QED
    BY <1>5, <1>6, <1>7, <1>8 DEF ClientNext

(* An event that concerns the player in nothing. *)
LEMMA QuietStep == IInv /\ (OtherEvent \/ UNCHANGED vars) => IInv'
  <1> SUFFICES ASSUME IInv, OtherEvent \/ UNCHANGED vars PROVE IInv'
    OBVIOUS
  <1>1. /\ UNCHANGED <<player, hostIn, hostOut, routing, net, client, pending_drop>>
        /\ stage' \in {"event", "drops"}
    BY DEF IInv, Control, OtherEvent, EndEvent, vars, actor
  <1>2. Control'
    BY <1>1 DEF IInv, Control, player, hostIn, routing, net, client
  <1>3. Queues(h2c)' /\ BufferInv'
    BY <1>1 DEF IInv, Queues, BufferInv, Suffix, player, hostOut, net, client
  <1>4. QED
    BY <1>2, <1>3 DEF IInv

(* Every step preserves the inductive invariant. *)
LEMMA NextStep == IInv /\ [Next]_vars => IInv'
  <1> SUFFICES ASSUME IInv, [Next]_vars PROVE IInv'
    OBVIOUS
  <1>1. CASE HostNext
    <2>1. CASE Broadcast \/ OtherPlayerDropped \/ CheckLoadingComplete \/ GameTickExpire
      BY <2>1, SendStep
    <2>2. CASE PingTick
      BY <2>2, PingStep
    <2>3. CASE ProcessPendingDrops
      BY <2>3, DropStep
    <2>4. CASE OtherEvent
      BY <2>4, QuietStep
    <2>5. ASSUME NEW c \in Conns,
                 HandlePlayerFrame(c) \/ HandleGpsInit(c) \/ HandleGpsAck(c)
                 \/ IgnoreUnmapped(c) \/ HandleConnClosed(c)
          PROVE  IInv'
      BY <2>5, ReadStep
    <2>6. ASSUME NEW d \in dials, HandleGproxyReconnect(d) \/ RejectReconnect(d)
          PROVE  IInv'
      BY <2>6, ReconnectStep, RejectStep
    <2>7. QED
      BY <1>1, <2>1, <2>2, <2>3, <2>4, <2>5, <2>6 DEF HostNext
  <1>2. CASE ClientNext
    BY <1>2, ClientStep
  <1>3. ASSUME NEW c \in Conns, LoseConn(c) \/ WriteTaskEnds(c)
        PROVE  IInv'
    BY <1>3, NetStep
  <1>4. CASE UNCHANGED vars
    BY <1>4, QuietStep
  <1>5. QED
    BY <1>1, <1>2, <1>3, <1>4 DEF Next

(* gproxy_buffer is always the unbroken end of the packets sent, whatever   *)
(* is sent, refused, lost, acknowledged, held or replayed: the fact that    *)
(* trim_gproxy_buffer computes with when it takes total_sent - len for the  *)
(* number of packets already dropped from the front.                        *)
THEOREM BufferNeverGaps == Spec => []BufferIsSuffix
  <1>1. Init => IInv
    BY InitIInv
  <1>2. IInv /\ [Next]_vars => IInv'
    BY NextStep
  <1>3. IInv => BufferIsSuffix
    BY IInvImplies
  <1>4. QED
    BY <1>1, <1>2, <1>3, PTL DEF Spec

(***************************************************************************)
(* Held or mapped                                                          *)
(***************************************************************************)

(* Nobody who is gone comes back, so only a seated player's steps count;    *)
(* a close is of the one connection mapped, so it leaves none.              *)
LEMMA HeldStep == Control /\ HeldIffUnmapped /\ [Next]_vars => HeldIffUnmapped'
  <1> SUFFICES ASSUME Control, HeldIffUnmapped, [Next]_vars PROVE HeldIffUnmapped'
    OBVIOUS
  <1>1. CASE UNCHANGED <<seated, gproxy, gproxy_disconnected, game_loaded, conn_id, conn_pid>>
    BY <1>1 DEF HeldIffUnmapped
  <1>2. CASE CheckLoadingComplete
    BY <1>2 DEF HeldIffUnmapped, CheckLoadingComplete, routing
  <1>3. CASE GameTickExpire
    BY <1>3 DEF HeldIffUnmapped, GameTickExpire
  <1>4. CASE ProcessPendingDrops
    <2>1. CASE ~seated \/ gproxy_disconnected
      BY <1>1, <1>4, <2>1 DEF ProcessPendingDrops, player, routing
    <2>2. CASE ~(~seated \/ gproxy_disconnected)
      <3>1. conn_pid = {conn_id} /\ conn_pid' = conn_pid \ {conn_id}
        BY <1>4, <2>2 DEF ProcessPendingDrops, HeldIffUnmapped
      <3>2. CASE CanHold
        BY <1>4, <2>2, <3>1, <3>2 DEF ProcessPendingDrops, HeldIffUnmapped, CanHold
      <3>3. CASE ~CanHold
        BY <1>4, <2>2, <3>3 DEF ProcessPendingDrops, HeldIffUnmapped
      <3>4. QED
        BY <3>2, <3>3
    <2>3. QED
      BY <2>1, <2>2
  <1>5. ASSUME NEW c \in Conns, HandleGpsInit(c)
        PROVE  HeldIffUnmapped'
    BY <1>5 DEF HandleGpsInit, HeldIffUnmapped, routing
  <1>6. ASSUME NEW c \in Conns, HandleConnClosed(c)
        PROVE  HeldIffUnmapped'
    <2>1. seated /\ ~gproxy_disconnected /\ conn_pid = {conn_id} /\ c = conn_id
      BY <1>6 DEF HandleConnClosed, Mapped, HeldIffUnmapped
    <2>2. conn_pid' = {}
      BY <1>6, <2>1 DEF HandleConnClosed
    <2>3. CASE CanHold
      BY <1>6, <2>1, <2>2, <2>3 DEF HandleConnClosed, HeldIffUnmapped, CanHold
    <2>4. CASE ~CanHold
      BY <1>6, <2>1, <2>4 DEF HandleConnClosed, HeldIffUnmapped
    <2>5. QED
      BY <2>3, <2>4
  <1>7. ASSUME NEW d \in dials, HandleGproxyReconnect(d)
        PROVE  HeldIffUnmapped'
    BY <1>7 DEF HandleGproxyReconnect, HeldIffUnmapped
  <1>8. ASSUME NEW d \in dials, RejectReconnect(d)
        PROVE  HeldIffUnmapped'
    BY <1>1, <1>8 DEF RejectReconnect, player, routing
  <1>9. ASSUME NEW c \in Conns,
               HandlePlayerFrame(c) \/ HandleGpsAck(c) \/ IgnoreUnmapped(c)
               \/ LoseConn(c) \/ WriteTaskEnds(c)
        PROVE  HeldIffUnmapped'
    BY <1>1, <1>9 DEF HandlePlayerFrame, HandleGpsAck, IgnoreUnmapped, LoseConn, WriteTaskEnds,
                      player, routing
  <1>10. CASE Broadcast \/ OtherPlayerDropped \/ OtherEvent \/ PingTick \/ UNCHANGED vars
    BY <1>1, <1>10 DEF Broadcast, OtherPlayerDropped, OtherEvent, PingTick, vars, player, routing
  <1>11. CASE ClientNext
    BY <1>1, <1>11 DEF ClientNext, ClientReceive, ClientReceiveInit, ClientReceiveAck,
                       ClientResume, ClientRejected, ClientSend, ClientAck, ClientDial,
                       player, routing
  <1>12. QED
    BY <1>2, <1>3, <1>4, <1>5, <1>6, <1>7, <1>8, <1>9, <1>10, <1>11 DEF Next, HostNext

(* A player of the game is mapped to their one connection or held for a     *)
(* reconnect, never neither and never both: conn_pid and                    *)
(* gproxy_disconnected agree after every close, drop, reconnect and expiry, *)
(* in whatever order the connections' events arrive.                        *)
THEOREM HeldOrMapped == Spec => []HeldIffUnmapped
  <1> DEFINE Inv == IInv /\ HeldIffUnmapped
  <1>1. Init => Inv
    <2>1. Init => HeldIffUnmapped
      BY DEF Init, HeldIffUnmapped
    <2>2. QED
      BY <2>1, InitIInv
  <1>2. Inv /\ [Next]_vars => Inv'
    BY NextStep, HeldStep DEF IInv
  <1> HIDE DEF Inv
  <1>3. QED
    <2>1. Inv => HeldIffUnmapped
      BY DEF Inv
    <2>2. QED
      BY <1>1, <1>2, <2>1, PTL DEF Spec

(***************************************************************************)
(* What is on its way: queues of messages                                  *)
(***************************************************************************)

(* The messages in a queue. *)
Msgs(q) == {q[i] : i \in 1..Len(q)}
(* No message of type t is in the queue. *)
No(q, t) == \A m \in Msgs(q) : m.t # t
(* No packet of the queue has a number above last. *)
UpTo(q, last) == \A m \in Msgs(q) : IsW3gs(m) => m.n <= last
(* The packets from + 1 .. last are in the queue, all but those in L. *)
Whole(q, from, last, L) == \A n \in from + 1..last : n \in L \/ W3gs(n) \in Msgs(q)

(* The packets of a queue go on from + 1, from + 2, ... without a hole but  *)
(* for those in L, whatever else is between them.                           *)
InOrder(q, from, L) ==
    \A i \in 1..Len(q) : IsW3gs(q[i]) =>
        /\ q[i].n > from
        /\ \A j \in 1..i - 1 : IsW3gs(q[j]) => q[j].n < q[i].n
        /\ \A n \in from + 1..q[i].n - 1 : n \in L \/ \E j \in 1..i - 1 : q[j] = W3gs(n)

(* The packets from + 1 .. from + k. *)
Numbered(from, k) == [i \in 1..k |-> W3gs(from + i)]

(* W3gs and Gps build messages, of which only W3gs builds packets. *)
LEMMA MessageTypes ==
    /\ \A m \in Message : m.n \in Nat /\ (IsW3gs(m) => m = W3gs(m.n))
    /\ \A n \in Nat : W3gs(n) \in Message /\ IsW3gs(W3gs(n)) /\ W3gs(n).n = n
    /\ \A t \in {"INIT", "ACK", "RECONNECT", "REJECT", "CLOSED"}, n \in Nat :
          Gps(t, n) \in Message /\ ~IsW3gs(Gps(t, n)) /\ Gps(t, n).t = t /\ Gps(t, n).n = n
    /\ Closed \in Message /\ ~IsW3gs(Closed) /\ Closed.t = "CLOSED"
  BY DEF Message, W3gs, Gps, IsW3gs, Closed

(* An empty queue has no messages, and so is in order. *)
LEMMA NoMsgs == Msgs(<<>>) = {} /\ \A from, L : InOrder(<<>>, from, L)
  BY EmptySeq DEF Msgs, InOrder

(* Taking the head of a queue takes that message and no other. *)
LEMMA TailMsgs ==
    ASSUME NEW q \in Seq(Message), q # <<>>
    PROVE  Msgs(Tail(q)) \subseteq Msgs(q) /\ Head(q) \in Msgs(q)
          /\ Msgs(q) = Msgs(Tail(q)) \union {Head(q)}
  <1>1. /\ Len(q) \in Nat \ {0} /\ Head(q) = q[1] /\ Tail(q) \in Seq(Message)
        /\ Len(Tail(q)) = Len(q) - 1 /\ \A i \in 1..Len(Tail(q)) : Tail(q)[i] = q[i + 1]
    BY HeadTailProperties, LenProperties, EmptySeq
  <1> DEFINE r == Tail(q)
  <1> HIDE DEF r
  <1>2. Len(r) = Len(q) - 1 /\ \A i \in 1..Len(r) : r[i] = q[i + 1]
    BY <1>1 DEF r
  <1>3. ASSUME NEW m \in Msgs(r) PROVE m \in Msgs(q)
    BY <1>1, <1>2, <1>3 DEF Msgs
  <1>4. Head(q) \in Msgs(q)
    BY <1>1 DEF Msgs
  <1>5. ASSUME NEW m \in Msgs(q), m # Head(q) PROVE m \in Msgs(r)
    <2>1. PICK i \in 1..Len(q) : m = q[i]
      BY DEF Msgs
    <2>2. i - 1 \in 1..Len(r) /\ (i - 1) + 1 = i
      BY <1>1, <1>2, <1>5, <2>1
    <2>3. r[i - 1] = m
      BY <1>2, <2>1, <2>2
    <2> QED BY <2>2, <2>3 DEF Msgs
  <1> QED BY <1>3, <1>4, <1>5 DEF r

(* Appending to a queue adds that message. *)
LEMMA AppendMsgs ==
    ASSUME NEW q \in Seq(Message), NEW m \in Message
    PROVE  Msgs(Append(q, m)) = Msgs(q) \union {m}
  <1> DEFINE r == Append(q, m)
  <1>1. /\ Len(q) \in Nat /\ Len(r) = Len(q) + 1 /\ r[Len(q) + 1] = m
        /\ \A i \in 1..Len(q) : r[i] = q[i]
    BY AppendProperties, LenProperties
  <1> HIDE DEF r
  <1>2. \A i \in 1..Len(r) : i = Len(q) + 1 \/ i \in 1..Len(q)
    BY <1>1
  <1>3. Msgs(r) \subseteq Msgs(q) \union {m}
    BY <1>1, <1>2 DEF Msgs
  <1>4. Msgs(q) \union {m} \subseteq Msgs(r)
    BY <1>1 DEF Msgs
  <1> QED BY <1>3, <1>4 DEF r

(* A prefix of a queue has the same messages at the same places. *)
LEMMA PrefixItems ==
    ASSUME NEW q \in Seq(Message), NEW n \in 0..Len(q)
    PROVE  /\ Prefix(q, n) \in Seq(Message) /\ Len(Prefix(q, n)) = n
           /\ \A i \in 1..n : Prefix(q, n)[i] = q[i]
           /\ Msgs(Prefix(q, n)) \subseteq Msgs(q)
           /\ Prefix(q, Len(q)) = q /\ Prefix(q, 0) = <<>>
  <1>1. Len(q) \in Nat
    BY LenProperties
  <1>2. /\ Prefix(q, n) \in Seq(Message) /\ Len(Prefix(q, n)) = n
        /\ \A i \in 1..n : Prefix(q, n)[i] = q[i]
    BY <1>1, SubSeqProperties DEF Prefix
  <1> DEFINE r == Prefix(q, n)
  <1> HIDE DEF r
  <1>3. Len(r) = n /\ \A i \in 1..n : r[i] = q[i]
    BY <1>2 DEF r
  <1>4. Msgs(r) \subseteq Msgs(q)
    BY <1>1, <1>3 DEF Msgs
  <1>5. Prefix(q, Len(q)) = q /\ Prefix(q, 0) = <<>>
    BY <1>1, SubSeqProperties DEF Prefix
  <1> QED BY <1>2, <1>4, <1>5 DEF r

(* A queue continued by another has the messages of both. *)
LEMMA ConcatMsgs ==
    ASSUME NEW q \in Seq(Message), NEW r \in Seq(Message)
    PROVE  Msgs(q \o r) = Msgs(q) \union Msgs(r)
  <1> DEFINE s == q \o r
  <1>1. /\ Len(q) \in Nat /\ Len(r) \in Nat /\ Len(s) = Len(q) + Len(r)
        /\ \A i \in 1..Len(q) + Len(r) : s[i] = IF i <= Len(q) THEN q[i] ELSE r[i - Len(q)]
    BY ConcatProperties, LenProperties
  <1> HIDE DEF s
  <1>2. ASSUME NEW m \in Msgs(s) PROVE m \in Msgs(q) \union Msgs(r)
    <2>1. PICK i \in 1..Len(s) : m = s[i]
      BY DEF Msgs
    <2>2. CASE i <= Len(q)
      <3>1. i \in 1..Len(q) /\ m = q[i]
        BY <1>1, <2>1, <2>2
      <3> QED BY <3>1 DEF Msgs
    <2>3. CASE ~(i <= Len(q))
      <3>1. i - Len(q) \in 1..Len(r) /\ m = r[i - Len(q)]
        BY <1>1, <2>1, <2>3
      <3> QED BY <3>1 DEF Msgs
    <2> QED BY <2>2, <2>3
  <1>3. ASSUME NEW m \in Msgs(q) PROVE m \in Msgs(s)
    <2>1. PICK i \in 1..Len(q) : m = q[i]
      BY DEF Msgs
    <2>2. i \in 1..Len(s) /\ s[i] = m
      BY <1>1, <2>1
    <2> QED BY <2>2 DEF Msgs
  <1>4. ASSUME NEW m \in Msgs(r) PROVE m \in Msgs(s)
    <2>1. PICK i \in 1..Len(r) : m = r[i]
      BY DEF Msgs
    <2>2. Len(q) + i \in 1..Len(q) + Len(r) /\ ~(Len(q) + i <= Len(q)) /\ (Len(q) + i) - Len(q) = i
      BY <1>1
    <2>3. s[Len(q) + i] = m
      BY <1>1, <2>1, <2>2
    <2> QED BY <1>1, <2>2, <2>3 DEF Msgs
  <1> QED BY <1>2, <1>3, <1>4 DEF s

(* Taking the head: only packets of L were to come before it. *)
LEMMA OrderTail ==
    ASSUME NEW q \in Seq(Message), q # <<>>, NEW from \in Nat, NEW L, InOrder(q, from, L)
    PROVE  /\ ~IsW3gs(Head(q)) => InOrder(Tail(q), from, L)
           /\ IsW3gs(Head(q)) =>
                 /\ Head(q).n > from /\ Head(q).n \in Nat
                 /\ \A n \in from + 1..Head(q).n - 1 : n \in L
                 /\ Head(q).n = from + 1 => InOrder(Tail(q), from + 1, L)
  <1> DEFINE r == Tail(q)
  <1>1. /\ Len(q) \in Nat \ {0} /\ Head(q) = q[1]
        /\ Len(r) = Len(q) - 1 /\ \A i \in 1..Len(r) : r[i] = q[i + 1]
    BY HeadTailProperties, LenProperties, EmptySeq
  <1>2. \A i \in 1..Len(q) : q[i] \in Message /\ q[i].n \in Nat
    BY ElementOfSeq, MessageTypes
  <1> HIDE DEF r
  <1>3. ASSUME IsW3gs(q[1])
        PROVE  q[1].n > from /\ q[1].n \in Nat /\ \A n \in from + 1..q[1].n - 1 : n \in L
    <2>1. 1 \in 1..Len(q) /\ 1..1 - 1 = {}
      BY <1>1
    <2>2. q[1].n > from /\ \A n \in from + 1..q[1].n - 1 : n \in L
      BY <1>3, <2>1 DEF InOrder
    <2> QED BY <1>2, <2>1, <2>2
  <1>4. ASSUME NEW start \in Nat,
               \/ ~IsW3gs(q[1]) /\ start = from
               \/ IsW3gs(q[1]) /\ q[1].n = from + 1 /\ start = from + 1
        PROVE  InOrder(r, start, L)
    <2> SUFFICES ASSUME NEW i \in 1..Len(r), IsW3gs(r[i])
                 PROVE  /\ r[i].n > start
                        /\ \A j \in 1..i - 1 : IsW3gs(r[j]) => r[j].n < r[i].n
                        /\ \A n \in start + 1..r[i].n - 1 :
                              n \in L \/ \E j \in 1..i - 1 : r[j] = W3gs(n)
      BY DEF InOrder
    <2>1. i + 1 \in 1..Len(q) /\ r[i] = q[i + 1] /\ 1 \in 1..(i + 1) - 1
      BY <1>1
    <2>2. /\ r[i].n > from
          /\ \A j \in 1..(i + 1) - 1 : IsW3gs(q[j]) => q[j].n < r[i].n
          /\ \A n \in from + 1..r[i].n - 1 :
                n \in L \/ \E j \in 1..(i + 1) - 1 : q[j] = W3gs(n)
      BY <2>1 DEF InOrder
    <2>3. r[i].n \in Nat
      BY <1>2, <2>1
    <2>4. r[i].n > start
      BY <1>4, <2>1, <2>2, <2>3
    <2>5. ASSUME NEW j \in 1..i - 1, IsW3gs(r[j]) PROVE r[j].n < r[i].n
      <3>1. j + 1 \in 1..(i + 1) - 1 /\ r[j] = q[j + 1]
        BY <1>1
      <3> QED BY <2>2, <2>5, <3>1
    <2>6. ASSUME NEW n \in start + 1..r[i].n - 1, n \notin L
          PROVE  \E j \in 1..i - 1 : r[j] = W3gs(n)
      <3>1. n \in from + 1..r[i].n - 1 /\ n \in Nat /\ n > start
        BY <1>4, <2>3
      <3>2. PICK j \in 1..(i + 1) - 1 : q[j] = W3gs(n)
        BY <2>2, <2>6, <3>1
      <3>3. j # 1
        <4>1. IsW3gs(q[j]) /\ q[j].n = n
          BY <3>1, <3>2, MessageTypes
        <4> QED BY <1>4, <3>1, <4>1
      <3>4. j - 1 \in 1..i - 1 /\ (j - 1) + 1 = j /\ j - 1 \in 1..Len(r)
        BY <1>1, <3>3
      <3>5. r[j - 1] = W3gs(n)
        BY <1>1, <3>2, <3>4
      <3> QED BY <3>4, <3>5
    <2> QED BY <2>4, <2>5, <2>6
  <1>5. ~IsW3gs(q[1]) => InOrder(r, from, L)
    BY <1>4
  <1>6. IsW3gs(q[1]) /\ q[1].n = from + 1 => InOrder(r, from + 1, L)
    BY <1>4
  <1> QED BY <1>1, <1>3, <1>5, <1>6 DEF r

(* A prefix of a queue in order is in order. *)
LEMMA OrderPrefix ==
    ASSUME NEW q \in Seq(Message), NEW n \in 0..Len(q), NEW from \in Nat, NEW L,
           InOrder(q, from, L)
    PROVE  InOrder(Prefix(q, n), from, L)
  <1> DEFINE r == Prefix(q, n)
  <1>1. Len(q) \in Nat /\ Len(r) = n /\ \A i \in 1..n : r[i] = q[i]
    BY PrefixItems, LenProperties
  <1> HIDE DEF r
  <1>2. ASSUME NEW i \in 1..Len(r) PROVE i \in 1..Len(q) /\ r[i] = q[i]
            /\ \A j \in 1..i - 1 : r[j] = q[j]
    BY <1>1
  <1>3. InOrder(r, from, L)
    BY <1>2 DEF InOrder
  <1> QED BY <1>3 DEF r

(* So is one continued by a message that is no packet. *)
LEMMA OrderAppend ==
    ASSUME NEW q \in Seq(Message), NEW m \in Message, ~IsW3gs(m), NEW from \in Nat, NEW L,
           InOrder(q, from, L)
    PROVE  InOrder(Append(q, m), from, L)
  <1> DEFINE r == Append(q, m)
  <1>1. /\ Len(q) \in Nat /\ Len(r) = Len(q) + 1 /\ r[Len(q) + 1] = m
        /\ \A i \in 1..Len(q) : r[i] = q[i]
    BY AppendProperties, LenProperties
  <1> HIDE DEF r
  <1>2. ASSUME NEW i \in 1..Len(r), IsW3gs(r[i])
        PROVE  i \in 1..Len(q) /\ r[i] = q[i] /\ \A j \in 1..i - 1 : r[j] = q[j]
    BY <1>1, <1>2
  <1>3. InOrder(r, from, L)
    BY <1>2 DEF InOrder
  <1> QED BY <1>3 DEF r

(* What Numbered builds. *)
LEMMA NumberedItems ==
    ASSUME NEW from \in Nat, NEW k \in Nat
    PROVE  /\ Numbered(from, k) \in Seq(Message) /\ Len(Numbered(from, k)) = k
           /\ \A i \in 1..k : Numbered(from, k)[i] = W3gs(from + i)
           /\ Msgs(Numbered(from, k)) = {W3gs(n) : n \in from + 1..from + k}
  <1> DEFINE r == Numbered(from, k)
  <1>1. \A i \in 1..k : W3gs(from + i) \in Message
    BY MessageTypes
  <1>2. r \in Seq(Message) /\ Len(r) = k
    BY <1>1, IsASeq DEF Numbered
  <1>3. \A i \in 1..k : r[i] = W3gs(from + i)
    BY DEF Numbered
  <1> HIDE DEF r
  <1>4. \A n \in from + 1..from + k : n - from \in 1..k /\ from + (n - from) = n
    OBVIOUS
  <1>5. Msgs(r) = {W3gs(n) : n \in from + 1..from + k}
    <2>1. ASSUME NEW i \in 1..k PROVE r[i] \in {W3gs(n) : n \in from + 1..from + k}
      <3>1. from + i \in from + 1..from + k
        OBVIOUS
      <3> QED BY <1>3, <3>1
    <2>2. ASSUME NEW n \in from + 1..from + k PROVE W3gs(n) \in Msgs(r)
      <3>1. n - from \in 1..k /\ r[n - from] = W3gs(n)
        BY <1>3, <1>4
      <3> QED BY <1>2, <3>1 DEF Msgs
    <2> QED BY <1>2, <2>1, <2>2 DEF Msgs
  <1> QED BY <1>2, <1>3, <1>5 DEF r

(* More may be excused. *)
LEMMA Forgiving ==
    ASSUME NEW q, NEW from, NEW last, NEW L, NEW M, L \subseteq M
    PROVE  /\ InOrder(q, from, L) => InOrder(q, from, M)
           /\ Whole(q, from, last, L) => Whole(q, from, last, M)
  BY DEF InOrder, Whole

(* One queue goes on where another ends. *)
LEMMA OrderJoins ==
    ASSUME NEW q \in Seq(Message), NEW s \in Seq(Message), NEW from \in Nat, NEW last \in Nat,
           NEW more \in Nat, from <= last, last <= more, NEW L, NEW M, L \subseteq M,
           InOrder(q, from, L), UpTo(q, last), Whole(q, from, last, L),
           InOrder(s, last, L), UpTo(s, more), Whole(s, last, more, M)
    PROVE  LET r == q \o s
           IN  r \in Seq(Message) /\ InOrder(r, from, L) /\ UpTo(r, more) /\ Whole(r, from, more, M)
  <1> DEFINE r == q \o s
  <1>1. /\ r \in Seq(Message) /\ Len(q) \in Nat /\ Len(s) \in Nat /\ Len(r) = Len(q) + Len(s)
        /\ \A i \in 1..Len(q) + Len(s) : r[i] = IF i <= Len(q) THEN q[i] ELSE s[i - Len(q)]
    BY ConcatProperties, LenProperties
  <1>2. Msgs(r) = Msgs(q) \union Msgs(s)
    BY ConcatMsgs
  <1> HIDE DEF r
  <1>3. /\ \A i \in 1..Len(q) : q[i] \in Msgs(q) /\ q[i] \in Message /\ q[i].n \in Nat
        /\ \A i \in 1..Len(s) : s[i] \in Message /\ s[i].n \in Nat
    BY ElementOfSeq, MessageTypes DEF Msgs
  <1>4. ASSUME NEW i \in 1..Len(r), IsW3gs(r[i])
        PROVE  /\ r[i].n > from
               /\ \A j \in 1..i - 1 : IsW3gs(r[j]) => r[j].n < r[i].n
               /\ \A n \in from + 1..r[i].n - 1 : n \in L \/ \E j \in 1..i - 1 : r[j] = W3gs(n)
    <2>1. CASE i <= Len(q)
      <3>1. i \in 1..Len(q) /\ r[i] = q[i] /\ \A j \in 1..i - 1 : r[j] = q[j]
        BY <1>1, <2>1
      <3> QED BY <1>4, <3>1, SMTT(15), ZenonT(40) DEF InOrder
    <2>2. CASE ~(i <= Len(q))
      <3> DEFINE e == i - Len(q)
      <3>1. e \in 1..Len(s) /\ i = Len(q) + e /\ r[i] = s[e]
        BY <1>1, <2>2
      <3> HIDE DEF e
      <3>2. /\ s[e].n > last /\ s[e].n \in Nat
            /\ \A j \in 1..e - 1 : IsW3gs(s[j]) => s[j].n < s[e].n
            /\ \A n \in last + 1..s[e].n - 1 : n \in L \/ \E j \in 1..e - 1 : s[j] = W3gs(n)
        BY <1>3, <1>4, <3>1 DEF InOrder
      <3>3. ASSUME NEW j \in 1..i - 1, IsW3gs(r[j]) PROVE r[j].n < r[i].n
        <4>1. CASE j <= Len(q)
          <5>1. j \in 1..Len(q) /\ r[j] = q[j]
            BY <1>1, <4>1
          <5>2. q[j].n <= last /\ q[j].n \in Nat
            BY <1>3, <3>3, <5>1 DEF UpTo
          <5> QED BY <3>1, <3>2, <5>1, <5>2, SMTT(15), ZenonT(40)
        <4>2. CASE ~(j <= Len(q))
          <5>1. Len(q) \in Nat /\ Len(s) \in Nat
            BY <1>1
          <5>2. j - Len(q) \in 1..e - 1 /\ j \in 1..Len(q) + Len(s)
            BY <3>1, <4>2, <5>1
          <5>3. r[j] = s[j - Len(q)]
            BY <1>1, <4>2, <5>2
          <5> QED BY <3>1, <3>2, <3>3, <5>2, <5>3
        <4> QED BY <4>1, <4>2
      <3>4. ASSUME NEW n \in from + 1..r[i].n - 1, n \notin L
            PROVE  \E j \in 1..i - 1 : r[j] = W3gs(n)
        <4>1. CASE n <= last
          <5>1. W3gs(n) \in Msgs(q)
            BY <3>4, <4>1 DEF Whole
          <5>2. PICK j \in 1..Len(q) : q[j] = W3gs(n)
            BY <5>1 DEF Msgs
          <5>3. j \in 1..i - 1 /\ r[j] = W3gs(n)
            BY <1>1, <2>2, <5>2
          <5> QED BY <5>3
        <4>2. CASE ~(n <= last)
          <5>1. n \in last + 1..s[e].n - 1
            BY <3>1, <3>2, <4>2
          <5>2. PICK j \in 1..e - 1 : s[j] = W3gs(n)
            BY <3>2, <3>4, <5>1
          <5>3. /\ Len(q) + j \in 1..i - 1 /\ Len(q) + j \in 1..Len(q) + Len(s)
                /\ ~(Len(q) + j <= Len(q)) /\ (Len(q) + j) - Len(q) = j
            BY <1>1, <3>1
          <5>4. r[Len(q) + j] = W3gs(n)
            BY <1>1, <5>2, <5>3
          <5> QED BY <5>3, <5>4
        <4> QED BY <4>1, <4>2
      <3>5. r[i].n > from
        BY <3>1, <3>2
      <3> QED BY <3>3, <3>4, <3>5
    <2> QED BY <2>1, <2>2
  <1>5. InOrder(r, from, L)
    BY <1>4 DEF InOrder
  <1>6. UpTo(r, more)
    <2> SUFFICES ASSUME NEW m \in Msgs(r), IsW3gs(m) PROVE m.n <= more
      BY DEF UpTo
    <2>1. CASE m \in Msgs(q)
      <3>1. m.n \in Nat /\ m.n <= last
        BY <1>3, <2>1 DEF UpTo, Msgs
      <3> QED BY <3>1
    <2>2. CASE m \in Msgs(s)
      BY <2>2 DEF UpTo
    <2> QED BY <1>2, <2>1, <2>2
  <1>7. Whole(r, from, more, M)
    <2> SUFFICES ASSUME NEW n \in from + 1..more PROVE n \in M \/ W3gs(n) \in Msgs(r)
      BY DEF Whole
    <2>1. CASE n <= last
      <3>1. n \in from + 1..last
        BY <2>1
      <3> QED BY <1>2, <3>1 DEF Whole
    <2>2. CASE ~(n <= last)
      <3>1. n \in last + 1..more
        BY <2>2
      <3> QED BY <1>2, <3>1 DEF Whole
    <2> QED BY <2>1, <2>2
  <1> QED BY <1>1, <1>5, <1>6, <1>7 DEF r

(* Numbers on from last are in order, and all there. *)
LEMMA NumberedOrder ==
    ASSUME NEW last \in Nat, NEW k \in Nat, NEW L
    PROVE  LET s == Numbered(last, k)
           IN  InOrder(s, last, L) /\ UpTo(s, last + k) /\ Whole(s, last, last + k, L)
  <1> DEFINE s == Numbered(last, k)
  <1>1. /\ Len(s) = k /\ \A i \in 1..k : s[i] = W3gs(last + i)
        /\ Msgs(s) = {W3gs(n) : n \in last + 1..last + k}
    BY NumberedItems
  <1> HIDE DEF s
  <1>2. \A i \in 1..k : s[i].n = last + i
    BY <1>1, MessageTypes
  <1>3. InOrder(s, last, L)
    <2> SUFFICES ASSUME NEW i \in 1..k
                 PROVE  /\ s[i].n > last
                        /\ \A j \in 1..i - 1 : IsW3gs(s[j]) => s[j].n < s[i].n
                        /\ \A n \in last + 1..s[i].n - 1 : \E j \in 1..i - 1 : s[j] = W3gs(n)
      BY <1>1 DEF InOrder
    <2>1. s[i].n = last + i /\ \A j \in 1..i - 1 : j \in 1..k /\ s[j].n = last + j
      BY <1>2
    <2>2. ASSUME NEW n \in last + 1..s[i].n - 1 PROVE \E j \in 1..i - 1 : s[j] = W3gs(n)
      <3>1. n - last \in 1..i - 1 /\ n - last \in 1..k /\ last + (n - last) = n
        BY <2>1
      <3>2. s[n - last] = W3gs(n)
        BY <1>1, <3>1
      <3> QED BY <3>1, <3>2
    <2> QED BY <2>1, <2>2
  <1>4. UpTo(s, last + k)
    BY <1>1, MessageTypes DEF UpTo
  <1>5. Whole(s, last, last + k, L)
    BY <1>1 DEF Whole
  <1> QED BY <1>3, <1>4, <1>5 DEF s

(* Sending on where the queue ends. *)
LEMMA OrderExtends ==
    ASSUME NEW q \in Seq(Message), NEW from \in Nat, NEW last \in Nat, NEW k \in Nat, from <= last,
           NEW L, InOrder(q, from, L), UpTo(q, last), Whole(q, from, last, L)
    PROVE  LET r == q \o Numbered(last, k)
           IN  /\ r \in Seq(Message) /\ InOrder(r, from, L) /\ UpTo(r, last + k)
               /\ Whole(r, from, last + k, L)
  <1> DEFINE s == Numbered(last, k)
  <1>1. s \in Seq(Message) /\ last + k \in Nat /\ last <= last + k /\ L \subseteq L
    BY NumberedItems
  <1>2. InOrder(s, last, L) /\ UpTo(s, last + k) /\ Whole(s, last, last + k, L)
    BY NumberedOrder
  <1> HIDE DEF s
  <1>3. /\ q \o s \in Seq(Message) /\ InOrder(q \o s, from, L) /\ UpTo(q \o s, last + k)
        /\ Whole(q \o s, from, last + k, L)
    BY <1>1, <1>2, OrderJoins
  <1> QED BY <1>3 DEF s

(* A queue without packets is in order, from wherever. *)
LEMMA SilentOrder ==
    ASSUME NEW q \in Seq(Message), No(q, "W3GS"), NEW from \in Nat, NEW L
    PROVE  InOrder(q, from, L) /\ UpTo(q, from) /\ Whole(q, from, from, L)
  <1>1. \A m \in Msgs(q) : ~IsW3gs(m)
    BY DEF No, IsW3gs
  <1>2. \A i \in 1..Len(q) : q[i] \in Msgs(q)
    BY DEF Msgs
  <1>3. from + 1..from = {}
    OBVIOUS
  <1> QED BY <1>1, <1>2, <1>3 DEF InOrder, UpTo, Whole

(* Reading the next packet leaves the later ones. *)
LEMMA WholeTail ==
    ASSUME NEW q \in Seq(Message), q # <<>>, NEW from \in Nat, NEW last \in Nat, NEW L,
          Whole(q, from, last, L)
    PROVE  /\ ~IsW3gs(Head(q)) => Whole(Tail(q), from, last, L)
           /\ Head(q).n = from + 1 => Whole(Tail(q), from + 1, last, L)
  <1> DEFINE r == Tail(q)
  <1>1. Msgs(q) = Msgs(r) \union {Head(q)}
    BY TailMsgs
  <1> HIDE DEF r
  <1>2. ASSUME NEW n \in from + 1..last, n # Head(q).n \/ ~IsW3gs(Head(q))
        PROVE  n \in L \/ W3gs(n) \in Msgs(r)
    <2>1. (n \in L \/ W3gs(n) \in Msgs(q)) /\ W3gs(n).n = n /\ IsW3gs(W3gs(n))
      BY MessageTypes DEF Whole
    <2> QED BY <1>1, <1>2, <2>1
  <1>3. \A n \in (from + 1) + 1..last : n \in from + 1..last /\ n # from + 1
    OBVIOUS
  <1> QED BY <1>2, <1>3 DEF Whole, r

(***************************************************************************)
(* What the host sends                                                     *)
(***************************************************************************)

(* The packets of Fresh(k) are numbered on from total_sent. *)
LEMMA FreshPackets ==
    ASSUME NEW k \in Nat, total_sent \in Nat
    PROVE  Data(Fresh(k)) = Numbered(total_sent, k)
  <1>1. Len(Fresh(k)) = k /\ \A i \in 1..k : Fresh(k)[i] = total_sent + i
    BY FreshNumbers
  <1> QED BY <1>1 DEF Data, Numbered

(* The packets of a buffer without a hole end with total_sent. *)
LEMMA BacklogPackets ==
    ASSUME NEW b, Suffix(b, total_sent)
    PROVE  Data(b) = Numbered(total_sent - Len(b), Len(b))
  <1>1. Len(b) \in Nat /\ \A i \in 1..Len(b) : b[i] = total_sent - Len(b) + i
    BY LenProperties DEF Suffix
  <1> QED BY <1>1 DEF Data, Numbered

(* What try_send leaves on the queue. *)
LEMMA PushItems ==
    ASSUME Queues(h2c), NEW c \in Conns, NEW msgs \in Seq(Message), Push(c, msgs)
    PROVE  /\ \A e \in Conns \ {c} : h2c'[e] = h2c[e]
           /\ c \notin open => h2c' = h2c
           /\ Msgs(h2c'[c]) \subseteq Msgs(h2c[c]) \union Msgs(msgs)
  <1>1. CASE c \notin open
    BY <1>1 DEF Push
  <1>2. CASE c \in open
    <2> DEFINE room == Room(c)
    <2>1. h2c[c] \in Seq(Message) /\ room \in Nat /\ h2c \in [Conns -> Seq(Message)]
      BY <1>2, RoomLimit DEF Queues
    <2>2. PICK j \in Nat : /\ Again(msgs, room, j)
                           /\ h2c' = [h2c EXCEPT ![c] = @ \o Taken(msgs, room, j)]
      BY <1>2, <2>1, PushTakes
    <2> HIDE DEF room
    <2> DEFINE s == Taken(msgs, room, j)
               t == Early(msgs, room)
    <2>3. /\ s \in Seq(Message) /\ Len(s) = t + (Len(msgs) - j + 1)
          /\ t \in 0..Len(msgs) /\ t < j /\ j \in 1..Len(msgs) + 1 /\ Len(msgs) \in Nat
          /\ \A x \in 1..t : s[x] = msgs[x]
          /\ \A x \in t + 1..Len(s) : s[x] = msgs[x - t + j - 1]
      BY <2>1, <2>2, TakenItems, SMTT(15), ZenonT(40)
    <2> HIDE DEF s, t
    <2>4. ASSUME NEW x \in 1..Len(s) PROVE s[x] \in Msgs(msgs)
      <3>1. CASE x <= t
        <4>1. x \in 1..t /\ x \in 1..Len(msgs)
          BY <2>3, <3>1
        <4> QED BY <2>3, <4>1 DEF Msgs
      <3>2. CASE ~(x <= t)
        <4>1. x \in t + 1..Len(s) /\ x - t + j - 1 \in 1..Len(msgs)
          BY <2>3, <3>2
        <4> QED BY <2>3, <4>1 DEF Msgs
      <3> QED BY <3>1, <3>2
    <2>5. Msgs(s) \subseteq Msgs(msgs)
      BY <2>4 DEF Msgs
    <2>6. h2c'[c] = h2c[c] \o s /\ \A e \in Conns \ {c} : h2c'[e] = h2c[e]
      BY <2>1, <2>2 DEF s
    <2>7. Msgs(h2c'[c]) = Msgs(h2c[c]) \union Msgs(s)
      BY <2>1, <2>3, <2>6, ConcatMsgs
    <2> QED BY <1>2, <2>5, <2>6, <2>7
  <1> QED BY <1>1, <1>2

(* Of numbered packets, with nothing but other messages after them, a queue *)
(* takes them in order; what is missing between two it refused.             *)
LEMMA TakenOrder ==
    ASSUME NEW msgs \in Seq(Message), NEW from \in Nat, NEW k \in Nat, k <= Len(msgs),
           \A i \in 1..Len(msgs) : IF i <= k THEN msgs[i] = W3gs(from + i) ELSE ~IsW3gs(msgs[i]),
           NEW room \in Nat, NEW j, Again(msgs, room, j),
           NEW R, NEW F, Packets(msgs, room + 1, j - 1) \subseteq R, j <= Len(msgs) => R \subseteq F
    PROVE  LET s == Taken(msgs, room, j)
           IN  InOrder(s, from, F) /\ UpTo(s, from + k) /\ Whole(s, from, from + k, R)
  <1> DEFINE s == Taken(msgs, room, j)
             t == Early(msgs, room)
             At(x) == IF x <= t THEN x ELSE x - t + j - 1
  <1>1. /\ s \in Seq(Message) /\ Len(s) = t + (Len(msgs) - j + 1)
        /\ t \in 0..Len(msgs) /\ t < j /\ j \in 1..Len(msgs) + 1 /\ Len(msgs) \in Nat
        /\ \A x \in 1..t : s[x] = msgs[x]
        /\ \A x \in t + 1..Len(s) : s[x] = msgs[x - t + j - 1]
    BY TakenItems, SMTT(15), ZenonT(40)
  <1>2. t = Len(msgs) \/ t = room
    BY DEF Early
  <1> HIDE DEF s, t
  <1>3. ASSUME NEW x \in 1..Len(s)
        PROVE  /\ At(x) \in 1..Len(msgs) /\ s[x] = msgs[At(x)]
               /\ IsW3gs(s[x]) => At(x) <= k /\ s[x].n = from + At(x) /\ s[x] = W3gs(from + At(x))
    <2>1. At(x) \in 1..Len(msgs) /\ s[x] = msgs[At(x)]
      <3>1. CASE x <= t
        <4>1. x \in 1..t /\ x \in 1..Len(msgs) /\ At(x) = x
          BY <1>1, <3>1
        <4> QED BY <1>1, <4>1
      <3>2. CASE ~(x <= t)
        <4>1. x \in t + 1..Len(s) /\ x - t + j - 1 \in 1..Len(msgs) /\ At(x) = x - t + j - 1
          BY <1>1, <3>2
        <4> QED BY <1>1, <4>1
      <3> QED BY <3>1, <3>2
    <2> HIDE DEF At
    <2>2. ASSUME IsW3gs(s[x]) PROVE At(x) <= k /\ s[x] = W3gs(from + At(x))
      BY <2>1, <2>2
    <2>3. from + At(x) \in Nat
      BY <2>1
    <2> QED BY <2>1, <2>2, <2>3, MessageTypes
  <1>4. ASSUME NEW n \in from + 1..from + k
        PROVE  \/ \E x \in 1..Len(s) : s[x] = W3gs(n) /\ At(x) = n - from
               \/ n \in R /\ n - from > t /\ n - from < j
    <2> DEFINE i == n - from
    <2>1. i \in 1..k /\ i \in 1..Len(msgs) /\ from + i = n /\ n \in Nat
      <3>1. Len(msgs) \in Nat
        BY <1>1
      <3>2. n \in Nat /\ i \in 1..k /\ from + i = n
        OBVIOUS
      <3> QED BY <3>1, <3>2
    <2> HIDE DEF i
    <2>2. msgs[i] = W3gs(n) /\ i \in Nat
      BY <2>1
    <2>3. CASE i <= t
      <3>1. i \in 1..t /\ i \in 1..Len(s) /\ At(i) = i
        BY <1>1, <2>1, <2>3
      <3>2. s[i] = W3gs(n)
        BY <1>1, <2>2, <3>1
      <3> QED BY <3>1, <3>2 DEF i
    <2>4. CASE i >= j
      <3> DEFINE x == i - j + 1 + t
      <3>1. x \in t + 1..Len(s) /\ x \in 1..Len(s) /\ x - t + j - 1 = i /\ ~(x <= t)
        BY <1>1, <2>1, <2>4
      <3>2. At(x) = i
        BY <3>1
      <3> HIDE DEF x, At
      <3>3. s[x] = W3gs(n)
        BY <1>1, <2>2, <3>1
      <3> QED BY <3>1, <3>2, <3>3 DEF i
    <2>5. CASE i > t /\ i < j
      <3>1. t = room
        BY <1>1, <1>2, <2>1, <2>5
      <3>2. i \in room + 1..j - 1
        BY <1>1, <2>1, <2>5, <3>1
      <3>3. msgs[i].t = "W3GS" /\ msgs[i].n = n
        BY <2>1, <2>2, MessageTypes DEF IsW3gs
      <3>4. n \in Packets(msgs, room + 1, j - 1)
        BY <3>2, <3>3 DEF Packets
      <3> QED BY <2>5, <3>4 DEF i
    <2> QED BY <1>1, <2>1, <2>3, <2>4, <2>5
  <1>5. ASSUME NEW x \in 1..Len(s), NEW y \in 1..Len(s)
        PROVE  /\ x < y => At(x) < At(y)
               /\ At(x) < At(y) => x < y
               /\ At(y) > t => y > t
               /\ y > t => j <= Len(msgs)
    BY <1>1
  <1>6. InOrder(s, from, F)
    <2> SUFFICES ASSUME NEW y \in 1..Len(s), IsW3gs(s[y])
                 PROVE  /\ s[y].n > from
                        /\ \A x \in 1..y - 1 : IsW3gs(s[x]) => s[x].n < s[y].n
                        /\ \A n \in from + 1..s[y].n - 1 :
                              n \in F \/ \E x \in 1..y - 1 : s[x] = W3gs(n)
      BY DEF InOrder
    <2>1. /\ At(y) \in 1..Len(msgs) /\ At(y) <= k /\ s[y].n = from + At(y) /\ At(y) \in Nat
      BY <1>1, <1>3
    <2>2. ASSUME NEW x \in 1..y - 1, IsW3gs(s[x]) PROVE s[x].n < s[y].n
      <3>1. x \in 1..Len(s) /\ x < y
        BY <1>1
      <3>2. At(x) < At(y) /\ s[x].n = from + At(x) /\ At(x) \in 1..Len(msgs)
        BY <1>3, <1>5, <2>2, <3>1
      <3> HIDE DEF At
      <3> QED BY <2>1, <3>2
    <2>3. ASSUME NEW n \in from + 1..s[y].n - 1, n \notin F
          PROVE  \E x \in 1..y - 1 : s[x] = W3gs(n)
      <3> HIDE DEF At
      <3>1. n \in from + 1..from + k /\ n - from < At(y) /\ n - from \in Nat
        BY <2>1
      <3>2. CASE \E x \in 1..Len(s) : s[x] = W3gs(n) /\ At(x) = n - from
        <4>1. PICK x \in 1..Len(s) : s[x] = W3gs(n) /\ At(x) = n - from
          BY <3>2
        <4>2. x < y
          BY <1>5, <3>1, <4>1
        <4>3. x \in 1..y - 1
          BY <4>2
        <4> QED BY <4>1, <4>3
      <3>3. CASE n \in R /\ n - from > t /\ n - from < j
        <4>1. At(y) > t
          BY <1>1, <2>1, <3>1, <3>3, SMTT(15), ZenonT(40)
        <4>2. j <= Len(msgs)
          BY <1>5, <4>1
        <4> QED BY <2>3, <3>3, <4>2
      <3> QED BY <1>4, <3>1, <3>2, <3>3
    <2>4. s[y].n > from
      BY <2>1
    <2> QED BY <2>2, <2>3, <2>4
  <1>7. UpTo(s, from + k)
    <2> SUFFICES ASSUME NEW x \in 1..Len(s), IsW3gs(s[x]) PROVE s[x].n <= from + k
      BY DEF UpTo, Msgs
    <2>1. At(x) \in 1..Len(msgs) /\ At(x) <= k /\ s[x].n = from + At(x)
      BY <1>3
    <2> HIDE DEF At
    <2> QED BY <1>1, <2>1
  <1>8. Whole(s, from, from + k, R)
    BY <1>4 DEF Whole, Msgs
  <1> QED BY <1>6, <1>7, <1>8 DEF s

(* What a step of the host that sends this player packets does. *)
Sends == Broadcast \/ OtherPlayerDropped \/ CheckLoadingComplete \/ PingTick \/ GameTickExpire

(* What it does: k packets are numbered, kept and tried, an acknowledgement *)
(* perhaps after them.                                                      *)
Sent(k, acks) ==
    /\ Ready /\ seated /\ total_sent' = total_sent + k /\ Keep(k, game_loaded')
    /\ acks = <<>> \/ acks = <<Gps("ACK", total_received)>>
    /\ IF gproxy_disconnected THEN UNCHANGED <<h2c, pending_drop, refused, forgone>>
       ELSE Push(conn_id, Numbered(total_sent, k) \o acks)
    /\ \/ UNCHANGED <<game_loaded, loaded_at>>
       \/ total_received >= 2 /\ ~game_loaded /\ game_loaded' /\ loaded_at' = total_sent
    /\ \/ UNCHANGED <<seated, conn_pid>>
       \/ ~seated' /\ conn_pid' = conn_pid \ {conn_id}
    /\ UNCHANGED <<gproxy, gproxy_disconnected, hostIn, conn_id, open, c2h, dials, faults, client>>

(* Every step of the host that sends does that, for some number of packets. *)
LEMMA SendsSend == ASSUME IInv, Sends PROVE \E k \in Nat : \E acks : Sent(k, acks)
  <1>1. total_sent \in Nat /\ game_loaded \in BOOLEAN
    BY DEF IInv, Control, BufferInv, Suffix
  <1>2. \A k \in Nat : Numbered(total_sent, k) \in Seq(Message)
    BY <1>1, NumberedItems
  <1>3. \A k \in Nat : Data(Fresh(k)) = Numbered(total_sent, k) \o <<>>
    BY <1>1, <1>2, FreshPackets, ConcatEmptySeq
  <1>4. \A k \in Nat : Notices(k) \in Nat
    BY NoticesBounded
  <1>5. EventSends \subseteq Nat /\ LoadLines \in Nat
    BY SessionAssumption
  <1>6. CASE Broadcast
    <2>1. PICK k \in Nat : SendToPid(k, game_loaded)
      BY <1>5, <1>6 DEF Broadcast
    <2>2. Sent(k, <<>>)
      BY <1>3, <1>6, <2>1 DEF Broadcast, SendToPid, Sent, routing, Keep
    <2> QED BY <2>2
  <1>7. CASE OtherPlayerDropped
    <2>2. Sent(1, <<>>)
      BY <1>3, <1>7 DEF OtherPlayerDropped, SendToPid, Sent, routing, Keep
    <2> QED BY <2>2
  <1>8. CASE CheckLoadingComplete
    <2>1. Notices(LoadLines) \in Nat
      BY <1>4, <1>5
    <2>2. Sent(Notices(LoadLines), <<>>)
      BY <1>3, <1>8, <2>1 DEF CheckLoadingComplete, SendToPid, Sent, routing, Keep
    <2> QED BY <2>1, <2>2
  <1>9. CASE PingTick
    <2> DEFINE acks == IF gproxy /\ ~gproxy_disconnected /\ conn_id \in open
                          /\ Len(h2c[conn_id]) + 2 <= QueueMax
                       THEN <<Gps("ACK", total_received)>> ELSE <<>>
    <2>1. /\ Ready /\ seated /\ total_sent' = total_sent + 1 /\ Keep(1, game_loaded)
          /\ IF gproxy_disconnected THEN UNCHANGED <<h2c, pending_drop, refused, forgone>>
             ELSE Push(conn_id, Data(Fresh(1)) \o acks)
          /\ UNCHANGED <<seated, game_loaded, gproxy, gproxy_disconnected, loaded_at,
                         hostIn, routing, open, c2h, dials, faults, client>>
      BY <1>9 DEF PingTick
    <2>2. acks = <<>> \/ acks = <<Gps("ACK", total_received)>>
      OBVIOUS
    <2> HIDE DEF acks
    <2>3. Data(Fresh(1)) = Numbered(total_sent, 1)
      BY <1>1, FreshPackets
    <2>4. Sent(1, acks)
      BY <2>1, <2>2, <2>3 DEF Sent, routing, Keep
    <2> QED BY <2>4
  <1>10. CASE GameTickExpire
    <2>1. Notices(1) \in Nat
      BY <1>4
    <2>2. Sent(Notices(1), <<>>)
      BY <1>3, <1>10, <2>1 DEF GameTickExpire, SendToPid, Sent, Keep
    <2> QED BY <2>1, <2>2
  <1> QED BY <1>6, <1>7, <1>8, <1>9, <1>10 DEF Sends

(* A connection is over: the client reads the end after what had got out. *)
Over(c, q, q2) == \E n \in 0..Len(q[c]) : q2 = [q EXCEPT ![c] = Append(Prefix(@, n), Closed)]

(* It keeps the order, and adds nothing but the end. *)
LEMMA OverQueue ==
    ASSUME NEW q \in [Conns -> Seq(Message)], NEW q2, NEW c \in Conns, Over(c, q, q2)
    PROVE  /\ \A e \in Conns \ {c} : q2[e] = q[e]
           /\ Msgs(q2[c]) \subseteq Msgs(q[c]) \union {Closed}
           /\ \A L : \A from \in Nat : InOrder(q[c], from, L) => InOrder(q2[c], from, L)
           /\ \A i \in 1..Len(q2[c]) : q2[c][i] = Closed
                 \/ (i \in 1..Len(q[c]) /\ q2[c][i] = q[c][i])
  <1>1. PICK n \in 0..Len(q[c]) : q2 = [q EXCEPT ![c] = Append(Prefix(@, n), Closed)]
    BY DEF Over
  <1> DEFINE p == Prefix(q[c], n)
  <1>2. /\ p \in Seq(Message) /\ Msgs(p) \subseteq Msgs(q[c]) /\ q[c] \in Seq(Message)
        /\ Len(p) = n /\ \A i \in 1..n : p[i] = q[c][i]
    BY PrefixItems
  <1>3. \A L : \A from \in Nat : InOrder(q[c], from, L) => InOrder(p, from, L)
    BY <1>2, OrderPrefix
  <1>4. q2[c] = Append(p, Closed) /\ \A e \in Conns \ {c} : q2[e] = q[e]
    BY <1>1
  <1> HIDE DEF p
  <1>5. Msgs(Append(p, Closed)) = Msgs(p) \union {Closed}
    BY <1>2, MessageTypes, AppendMsgs
  <1>6. \A L : \A from \in Nat : InOrder(p, from, L) => InOrder(Append(p, Closed), from, L)
    BY <1>2, MessageTypes, OrderAppend
  <1>7. \A i \in 1..Len(q2[c]) : q2[c][i] = Closed \/ (i \in 1..Len(q[c]) /\ q2[c][i] = q[c][i])
    <2>1. /\ Len(Append(p, Closed)) = n + 1 /\ Append(p, Closed)[n + 1] = Closed
          /\ \A i \in 1..n : Append(p, Closed)[i] = p[i]
      BY <1>2, MessageTypes, AppendProperties
    <2>2. Len(q[c]) \in Nat
      BY <1>2, LenProperties
    <2>3. ASSUME NEW i \in 1..n + 1 PROVE i = n + 1 \/ (i \in 1..n /\ i \in 1..Len(q[c]))
      BY <2>2
    <2> QED BY <1>2, <1>4, <2>1, <2>3
  <1> QED BY <1>2, <1>3, <1>4, <1>5, <1>6, <1>7

(* What a step that sends leaves in the queues. *)
LEMMA SentItems ==
    ASSUME IInv, NEW k \in Nat, NEW acks, Sent(k, acks)
    PROVE  /\ \A c \in Conns \ {conn_id} : h2c'[c] = h2c[c]
           /\ conn_id \notin open \/ gproxy_disconnected => h2c' = h2c
           /\ \A m \in Msgs(h2c'[conn_id]) :
                 \/ m \in Msgs(h2c[conn_id])
                 \/ IsW3gs(m) /\ m.n \in 1..total_sent'
                 \/ m = Gps("ACK", total_received)
           /\ LET msgs == Numbered(total_sent, k) \o acks
              IN  /\ msgs \in Seq(Message) /\ k <= Len(msgs) /\ Len(msgs) \in Nat
                  /\ \A i \in 1..Len(msgs) :
                        IF i <= k THEN msgs[i] = W3gs(total_sent + i) ELSE ~IsW3gs(msgs[i])
  <1> DEFINE nums == Numbered(total_sent, k)
             msgs == nums \o acks
  <1>1. /\ Queues(h2c) /\ pending_drop \in BOOLEAN /\ conn_id \in Conns
        /\ total_sent \in Nat /\ total_received \in Nat
    BY DEF IInv, Control, BufferInv, Suffix
  <1>2. /\ nums \in Seq(Message) /\ Len(nums) = k
        /\ \A i \in 1..k : nums[i] = W3gs(total_sent + i)
        /\ Msgs(nums) = {W3gs(n) : n \in total_sent + 1..total_sent + k}
    BY <1>1, NumberedItems
  <1>3. /\ acks \in Seq(Message) /\ Len(acks) \in Nat
        /\ Msgs(acks) \subseteq {Gps("ACK", total_received)}
    <2>1. Gps("ACK", total_received) \in Message
      BY <1>1, MessageTypes
    <2>2. CASE acks = <<>>
      BY <2>2, NoMsgs, EmptySeq
    <2>3. CASE acks = <<Gps("ACK", total_received)>>
      BY <2>1, <2>3 DEF Msgs
    <2> QED BY <2>2, <2>3 DEF Sent
  <1> HIDE DEF nums
  <1>4. /\ msgs \in Seq(Message) /\ Len(msgs) = k + Len(acks)
        /\ \A i \in 1..k + Len(acks) : msgs[i] = IF i <= k THEN nums[i] ELSE acks[i - k]
    BY <1>2, <1>3, ConcatProperties
  <1>5. Msgs(msgs) = Msgs(nums) \union Msgs(acks)
    BY <1>2, <1>3, ConcatMsgs
  <1> HIDE DEF msgs
  <1>6. \A m \in Msgs(msgs) :
           (IsW3gs(m) /\ m.n \in 1..total_sent') \/ m = Gps("ACK", total_received)
    <2>1. total_sent' = total_sent + k
      BY DEF Sent
    <2>2. \A n \in total_sent + 1..total_sent + k : IsW3gs(W3gs(n)) /\ W3gs(n).n = n
              /\ n \in 1..total_sent'
      BY <1>1, <2>1, MessageTypes
    <2> QED BY <1>2, <1>3, <1>5, <2>2
  <1>7. /\ k <= Len(msgs) /\ Len(msgs) \in Nat
        /\ \A i \in 1..Len(msgs) :
              IF i <= k THEN msgs[i] = W3gs(total_sent + i) ELSE ~IsW3gs(msgs[i])
    <2>1. k <= Len(msgs) /\ Len(msgs) \in Nat
      BY <1>3, <1>4
    <2>2. ASSUME NEW i \in 1..Len(msgs), i <= k PROVE msgs[i] = W3gs(total_sent + i)
      <3>1. i \in 1..k /\ i \in 1..k + Len(acks)
        BY <1>4, <2>2
      <3> QED BY <1>2, <1>4, <2>2, <3>1
    <2>3. ASSUME NEW i \in 1..Len(msgs), ~(i <= k) PROVE ~IsW3gs(msgs[i])
      <3>1. i \in 1..k + Len(acks) /\ i - k \in 1..Len(acks)
        BY <1>3, <1>4, <2>3
      <3>2. msgs[i] \in Msgs(acks)
        BY <1>4, <2>3, <3>1 DEF Msgs
      <3> QED BY <1>1, <1>3, <3>2, MessageTypes
    <2> QED BY <2>1, <2>2, <2>3
  <1>8. /\ \A c \in Conns \ {conn_id} : h2c'[c] = h2c[c]
        /\ conn_id \notin open \/ gproxy_disconnected => h2c' = h2c
        /\ Msgs(h2c'[conn_id]) \subseteq Msgs(h2c[conn_id]) \union Msgs(msgs)
    <2>1. CASE gproxy_disconnected
      BY <2>1 DEF Sent
    <2>2. CASE ~gproxy_disconnected
      <3>1. Push(conn_id, msgs)
        BY <2>2 DEF Sent, msgs, nums
      <3> QED BY <1>1, <1>4, <2>2, <3>1, PushItems
    <2> QED BY <2>1, <2>2
  <1>9. \A m \in Msgs(h2c'[conn_id]) :
           m \in Msgs(h2c[conn_id]) \/ (IsW3gs(m) /\ m.n \in 1..total_sent')
           \/ m = Gps("ACK", total_received)
    BY <1>6, <1>8
  <1> QED BY <1>4, <1>7, <1>8, <1>9 DEF msgs, nums

(* What handle_gproxy_reconnect sends: the reply, the backlog, and the line *)
(* that announces a complete replay.                                        *)
Replayed(b, complete) ==
    IF complete THEN Replay(b) \o Data(Fresh(Notices(1))) ELSE Replay(b)

(* What a reconnect leaves on the new connection is the beginning of the    *)
(* replay, the whole of it unless the player is noted for a drop.           *)
LEMMA ReplayQueue ==
    ASSUME IInv, NEW d \in dials, HandleGproxyReconnect(d)
    PROVE  LET buf == TrimGproxyBuffer(d.last)
           IN  \E complete \in BOOLEAN, k \in Nat :
                 /\ Replayed(buf, complete) \in Seq(Message) /\ k <= Len(Replayed(buf, complete))
                 /\ total_sent' = total_sent + (IF complete THEN Notices(1) ELSE 0)
                 /\ gproxy_buffer' = IF complete /\ game_loaded THEN buf \o Fresh(Notices(1))
                       ELSE buf
                 /\ h2c' = IF d.conn \in open
                           THEN [h2c EXCEPT ![d.conn] = Prefix(Replayed(buf, complete), k)] ELSE h2c
                 /\ pending_drop' \/ (complete /\ k = Len(Replayed(buf, complete)))
                 /\ d.conn \in open => k <= QueueMax
  <1> DEFINE buf == TrimGproxyBuffer(d.last)
             replay == Replay(buf)
             line == Fresh(Notices(1))
  <1>1. /\ d.conn \in Conns /\ d.last \in Nat /\ total_received \in Nat /\ QueueMax \in Nat
        /\ total_sent \in Nat /\ Suffix(gproxy_buffer, total_sent) /\ pending_drop \in BOOLEAN
    BY SessionAssumption DEF IInv, Control, BufferInv, Suffix
  <1>2. buf \in Seq(Nat)
    BY <1>1, TrimKeepsSuffix DEF Suffix
  <1> HIDE DEF buf
  <1>3. replay \in Seq(Message)
    <2>1. <<Gps("RECONNECT", total_received)>> \in Seq(Message)
      BY <1>1, MessageTypes
    <2> QED BY <1>2, <2>1, DataPackets, ConcatProperties DEF Replay
  <1>4. Notices(1) \in Nat
    BY NoticesBounded
  <1>5. line \in Seq(Nat) /\ Len(line) = Notices(1) /\ Data(line) \in Seq(Message)
    BY <1>1, <1>4, FreshNumbers, DataPackets
  <1> HIDE DEF replay, line
  <1> DEFINE S(complete) == IF complete THEN replay \o Data(line) ELSE replay
             All(complete) == complete /\ Len(S(complete)) <= QueueMax
             fits == IF d.conn \in open THEN {Len(replay) <= QueueMax} ELSE BOOLEAN
  <1>6. PICK complete \in fits :
           /\ total_sent' = total_sent + (IF complete THEN Len(line) ELSE 0)
           /\ gproxy_buffer' = IF complete /\ game_loaded THEN buf \o line ELSE buf
           /\ h2c' = IF d.conn \in open
                     THEN [h2c EXCEPT ![d.conn] = Prefix(S(complete),
                             IF All(complete) THEN Len(S(complete)) ELSE QueueMax)]
                     ELSE h2c
           /\ pending_drop' = (pending_drop \/ ~All(complete))
    BY DEF HandleGproxyReconnect, buf, replay, line
  <1>7. complete \in BOOLEAN /\ (d.conn \in open => complete = (Len(replay) <= QueueMax))
    <2>1. (Len(replay) <= QueueMax) \in BOOLEAN
      OBVIOUS
    <2> QED BY <1>6, <2>1
  <1>8. S(complete) \in Seq(Message) /\ Len(S(complete)) \in Nat /\ Len(replay) \in Nat
    <2>1. S(complete) \in Seq(Message)
      BY <1>3, <1>5, <1>7, ConcatProperties
    <2> QED BY <1>3, <2>1, LenProperties
  <1>9. S(complete) = Replayed(buf, complete)
    BY DEF Replayed, replay, line
  <1> HIDE DEF fits
  <1>10. PICK k \in Nat :
            /\ k <= Len(S(complete))
            /\ d.conn \in open => k = IF All(complete) THEN Len(S(complete)) ELSE QueueMax
            /\ All(complete) => k = Len(S(complete))
    <2>1. CASE All(complete)
      BY <1>8, <2>1
    <2>2. CASE ~All(complete) /\ d.conn \in open
      BY <1>1, <1>7, <1>8, <2>2
    <2>3. CASE ~All(complete) /\ d.conn \notin open
      BY <1>8, <2>3
    <2> QED BY <2>1, <2>2, <2>3
  <1>11. h2c' = IF d.conn \in open THEN [h2c EXCEPT ![d.conn] = Prefix(S(complete), k)] ELSE h2c
    BY <1>6, <1>10
  <1>12. /\ pending_drop' \/ (complete /\ k = Len(S(complete)))
         /\ d.conn \in open => k <= QueueMax
    <2>1. CASE All(complete)
      BY <1>1, <1>8, <1>10, <2>1
    <2>2. CASE ~All(complete)
      <3>1. pending_drop'
        BY <1>1, <1>6, <2>2
      <3>2. d.conn \in open => k = QueueMax
        BY <1>10, <2>2
      <3> QED BY <1>1, <3>1, <3>2
    <2> QED BY <2>1, <2>2
  <1> HIDE DEF S, All
  <1>13. /\ S(complete) \in Seq(Message) /\ k <= Len(S(complete)) /\ complete \in BOOLEAN
             /\ k \in Nat
         /\ total_sent' = total_sent + (IF complete THEN Notices(1) ELSE 0)
         /\ gproxy_buffer' = IF complete /\ game_loaded THEN buf \o line ELSE buf
    BY <1>5, <1>6, <1>7, <1>8, <1>10
  <1> QED BY <1>9, <1>11, <1>12, <1>13 DEF buf, line

(* Data builds packets only. *)
LEMMA DataItems ==
    ASSUME NEW s \in Seq(Nat)
    PROVE  Data(s) \in Seq(Message) /\ \A m \in Msgs(Data(s)) : IsW3gs(m)
  <1>1. Data(s) \in Seq(Message) /\ Len(Data(s)) = Len(s)
    BY DataPackets
  <1>2. \A i \in 1..Len(s) : IsW3gs(Data(s)[i])
    BY DEF Data, IsW3gs, W3gs
  <1> QED BY <1>1, <1>2 DEF Msgs

(* Where the messages of a new replay come from. *)
LEMMA ReplayItems ==
    ASSUME IInv, NEW d \in dials, HandleGproxyReconnect(d)
    PROVE  /\ d.conn \in Conns /\ \A c \in Conns \ {d.conn} : h2c'[c] = h2c[c]
           /\ d.conn \notin open => h2c' = h2c
           /\ d.conn \in open => \A m \in Msgs(h2c'[d.conn]) :
                 m = Gps("RECONNECT", total_received) \/ (IsW3gs(m) /\ m.n \in 1..total_sent')
           /\ total_sent' \in Nat /\ total_sent' >= total_sent
  <1>1. /\ d.conn \in Conns /\ d.last \in Nat /\ h2c \in [Conns -> Seq(Message)]
        /\ total_sent \in Nat /\ total_received \in Nat /\ Suffix(gproxy_buffer, total_sent)
    BY DEF IInv, Control, Queues, BufferInv, Suffix
  <1> DEFINE buf == TrimGproxyBuffer(d.last)
             first == <<Gps("RECONNECT", total_received)>>
             line == Fresh(Notices(1))
  <1>2. PICK complete \in BOOLEAN, k \in Nat :
                 /\ Replayed(buf, complete) \in Seq(Message) /\ k <= Len(Replayed(buf, complete))
                 /\ total_sent' = total_sent + (IF complete THEN Notices(1) ELSE 0)
                 /\ h2c' = IF d.conn \in open
                           THEN [h2c EXCEPT ![d.conn] = Prefix(Replayed(buf, complete), k)] ELSE h2c
    BY ReplayQueue
  <1>3. Suffix(buf, total_sent) /\ buf \in Seq(Nat) /\ Notices(1) \in Nat /\ Len(buf) <= total_sent
            /\ Len(buf) \in Nat
    BY <1>1, TrimKeepsSuffix, NoticesBounded, LenProperties DEF Suffix
  <1>4. first \in Seq(Message) /\ Msgs(first) = {Gps("RECONNECT", total_received)}
    <2>1. Gps("RECONNECT", total_received) \in Message
      BY <1>1, MessageTypes
    <2> QED BY <2>1 DEF Msgs
  <1>5. ASSUME NEW n \in Nat, NEW i \in Nat
        PROVE  /\ Numbered(n, i) \in Seq(Message)
               /\ \A m \in Msgs(Numbered(n, i)) : IsW3gs(m) /\ m.n \in 1..n + i
    <2>1. \A x \in n + 1..n + i : W3gs(x).n = x /\ IsW3gs(W3gs(x)) /\ x \in 1..n + i
      BY MessageTypes
    <2> QED BY <2>1, NumberedItems
  <1>6. /\ Data(buf) = Numbered(total_sent - Len(buf), Len(buf))
        /\ Data(line) = Numbered(total_sent, Notices(1))
    BY <1>1, <1>3, BacklogPackets, FreshPackets
  <1> HIDE DEF buf, first, line
  <1>7. /\ Data(buf) \in Seq(Message)
        /\ \A m \in Msgs(Data(buf)) : IsW3gs(m) /\ m.n \in 1..total_sent
        /\ Data(line) \in Seq(Message)
        /\ \A m \in Msgs(Data(line)) : IsW3gs(m) /\ m.n \in 1..total_sent + Notices(1)
    <2>1. /\ total_sent - Len(buf) \in Nat /\ (total_sent - Len(buf)) + Len(buf) = total_sent
      BY <1>1, <1>3
    <2> QED BY <1>1, <1>3, <1>5, <1>6, <2>1
  <1>8. Replay(buf) = first \o Data(buf)
            /\ Replayed(buf, complete) = IF complete THEN Replay(buf) \o Data(line) ELSE Replay(buf)
    BY DEF Replay, Replayed, first, line
  <1>9. Replay(buf) \in Seq(Message) /\ Msgs(Replay(buf)) = Msgs(first) \union Msgs(Data(buf))
    BY <1>4, <1>7, <1>8, ConcatProperties, ConcatMsgs
  <1>10. Msgs(Replayed(buf, complete)) \subseteq
            Msgs(first) \union Msgs(Data(buf)) \union (IF complete THEN Msgs(Data(line)) ELSE {})
    BY <1>7, <1>8, <1>9, ConcatMsgs
  <1>11. k \in 0..Len(Replayed(buf, complete))
    BY <1>2, LenProperties
  <1>12. Msgs(Prefix(Replayed(buf, complete), k)) \subseteq Msgs(Replayed(buf, complete))
    BY <1>2, <1>11, PrefixItems
  <1>13. total_sent' \in Nat /\ total_sent' >= total_sent
             /\ (complete => total_sent' = total_sent + Notices(1))
    BY <1>1, <1>2, <1>3
  <1>14. ASSUME NEW m \in Msgs(Prefix(Replayed(buf, complete), k))
         PROVE  m = Gps("RECONNECT", total_received) \/ (IsW3gs(m) /\ m.n \in 1..total_sent')
    <2>1. CASE m \in Msgs(first)
      BY <1>4, <2>1
    <2>2. CASE m \in Msgs(Data(buf))
      <3>1. 1..total_sent \subseteq 1..total_sent'
        BY <1>1, <1>13
      <3> QED BY <1>7, <2>2, <3>1
    <2>3. CASE complete /\ m \in Msgs(Data(line))
      BY <1>7, <1>13, <2>3
    <2> QED BY <1>10, <1>12, <2>1, <2>2, <2>3
  <1>15. /\ d.conn \in open => h2c'[d.conn] = Prefix(Replayed(buf, complete), k)
         /\ \A c \in Conns \ {d.conn} : h2c'[c] = h2c[c]
         /\ d.conn \notin open => h2c' = h2c
    BY <1>1, <1>2
  <1> QED BY <1>1, <1>13, <1>14, <1>15

(* Packets are numbers. *)
LEMMA PacketNumbers ==
    ASSUME NEW msgs \in Seq(Message), NEW i \in Nat, NEW j \in Nat, j <= Len(msgs)
    PROVE  Packets(msgs, i + 1, j) \subseteq Nat
  <1> SUFFICES ASSUME NEW x \in i + 1..j PROVE msgs[x].n \in Nat
    BY DEF Packets
  <1>1. x \in 1..Len(msgs)
    BY LenProperties
  <1> QED BY <1>1, ElementOfSeq, MessageTypes

(* What a full queue refuses is a packet; nothing given up is taken back.   *)
LEMMA RefusedNumbers ==
    ASSUME IInv, Losses, NEW c \in Conns, NEW msgs \in Seq(Message), Push(c, msgs)
    PROVE  Losses' /\ forgone \subseteq forgone'
  <1>1. CASE c \notin open
    BY <1>1 DEF Push, Losses
  <1>2. CASE c \in open
    <2>1. Room(c) \in Nat
      BY <1>2, RoomLimit DEF IInv
    <2>2. PICK j \in Nat : Again(msgs, Room(c), j) /\ Refuse(msgs, Room(c), j)
      BY <1>2, <2>1, PushTakes
    <2>3. j - 1 \in Nat /\ j - 1 <= Len(msgs)
      BY <2>2, LenProperties DEF Again
    <2>4. Packets(msgs, Room(c) + 1, j - 1) \subseteq Nat
      BY <2>1, <2>3, PacketNumbers
    <2> QED BY <2>2, <2>4 DEF Refuse, Losses
  <1> QED BY <1>1, <1>2

(* Every step keeps that, and only with a seated player is anything lost.   *)
LEMMA LossesStep ==
    ASSUME IInv, Losses, [Next]_vars
    PROVE  Losses' /\ forgone \subseteq forgone' /\ (forgone' = forgone \/ seated)
  <1> DEFINE Goal == Losses' /\ forgone \subseteq forgone' /\ (forgone' = forgone \/ seated)
  <1> SUFFICES Goal
    OBVIOUS
  <1>1. CASE UNCHANGED <<refused, forgone>>
    BY <1>1 DEF Losses
  <1>2. CASE Sends
    <2>1. PICK k \in Nat : \E acks : Sent(k, acks)
      BY <1>2, SendsSend
    <2>2. PICK acks : Sent(k, acks)
      BY <2>1
    <2>3. CASE gproxy_disconnected
      BY <1>1, <2>2, <2>3 DEF Sent
    <2>4. CASE ~gproxy_disconnected
      <3> DEFINE msgs == Numbered(total_sent, k) \o acks
      <3>1. msgs \in Seq(Message) /\ conn_id \in Conns
        BY <2>2, SentItems DEF IInv, Control
      <3>2. Push(conn_id, msgs) /\ seated
        BY <2>2, <2>4 DEF Sent
      <3> HIDE DEF msgs
      <3> QED BY <3>1, <3>2, RefusedNumbers
    <2> QED BY <2>3, <2>4
  <1>3. ASSUME NEW d \in dials, HandleGproxyReconnect(d) PROVE Goal
    <2>1. /\ refused' = {} /\ forgone' = forgone \union NeverKept(d) /\ seated
      BY <1>3 DEF HandleGproxyReconnect
    <2>2. d.last \in Nat
      BY DEF IInv, Control
    <2>3. NeverKept(d) \subseteq Nat
      BY <2>2 DEF NeverKept
    <2> QED BY <2>1, <2>3 DEF Losses
  <1>4. ASSUME NEW c \in Conns,
               HandlePlayerFrame(c) \/ HandleGpsAck(c) \/ HandleGpsInit(c) \/ IgnoreUnmapped(c)
                     \/ LoseConn(c) \/ WriteTaskEnds(c) \/ HandleConnClosed(c)
        PROVE  Goal
    BY <1>1, <1>4 DEF HandlePlayerFrame, HandleGpsAck, HandleGpsInit, IgnoreUnmapped, LoseConn,
          WriteTaskEnds, HandleConnClosed, AnnounceHold, hostOut
  <1>5. CASE ProcessPendingDrops
    BY <1>1, <1>5 DEF ProcessPendingDrops, AnnounceHold, hostOut
  <1>6. ASSUME NEW d \in dials, RejectReconnect(d) PROVE Goal
    BY <1>1, <1>6 DEF RejectReconnect, hostOut
  <1>7. CASE OtherEvent \/ UNCHANGED vars
    BY <1>1, <1>7 DEF OtherEvent, vars, hostOut
  <1>8. CASE ClientNext
    BY <1>1, <1>8 DEF ClientNext, ClientReceive, ClientReceiveInit, ClientReceiveAck,
                 ClientResume, ClientRejected, ClientSend, ClientAck, ClientDial, hostOut
  <1> HIDE DEF Goal
  <1> QED BY <1>2, <1>3, <1>4, <1>5, <1>6, <1>7, <1>8 DEF Next, HostNext, Sends

(***************************************************************************)
(* How the queues change in a step                                         *)
(***************************************************************************)

(* Connection c is over, in both directions. *)
Ends(c) == /\ c \in open /\ open' = open \ {c}
           /\ Over(c, h2c, h2c') /\ Over(c, c2h, c2h')

(* The end may come after everything that was queued. *)
LEMMA OverWhole ==
    ASSUME NEW q \in [Conns -> Seq(Message)], NEW c \in Conns
    PROVE  Over(c, q, [q EXCEPT ![c] = Append(@, Closed)])
  <1>1. q[c] \in Seq(Message) /\ Len(q[c]) \in 0..Len(q[c])
    BY LenProperties
  <1>2. Prefix(q[c], Len(q[c])) = q[c]
    BY <1>1, PrefixItems
  <1>3. [q EXCEPT ![c] = Append(@, Closed)] = [q EXCEPT ![c] = Append(Prefix(@, Len(q[c])), Closed)]
    BY <1>2
  <1> QED BY <1>1, <1>3 DEF Over

(* A connection the network or its write task gives up is over. *)
LEMMA NetEnds ==
    ASSUME IInv, NEW c \in Conns, LoseConn(c) \/ WriteTaskEnds(c)
    PROVE  Ends(c) /\ dials' \subseteq dials
  <1>1. h2c \in [Conns -> Seq(Message)] /\ c2h \in [Conns -> Seq(Message)]
    BY DEF IInv, Control, Queues
  <1>2. CASE LoseConn(c)
    BY <1>2 DEF LoseConn, Ends, Over
  <1>3. CASE WriteTaskEnds(c)
    <2>1. /\ h2c' = [h2c EXCEPT ![c] = Append(@, Closed)]
          /\ c2h' = [c2h EXCEPT ![c] = Append(@, Closed)]
          /\ c \in open /\ open' = open \ {c} /\ dials' = dials
      BY <1>3 DEF WriteTaskEnds
    <2>2. Over(c, h2c, h2c') /\ Over(c, c2h, c2h')
      BY <1>1, <2>1, OverWhole
    <2> QED BY <2>1, <2>2 DEF Ends
  <1> QED BY <1>2, <1>3

(* So is the one process_pending_drops closes, if it closes one. *)
LEMMA DropEnds ==
    ASSUME IInv, ProcessPendingDrops
    PROVE  Ends(conn_id) \/ UNCHANGED <<open, h2c, c2h>>
  <1>1. h2c \in [Conns -> Seq(Message)] /\ c2h \in [Conns -> Seq(Message)] /\ conn_id \in Conns
    BY DEF IInv, Control, Queues
  <1>2. CASE CloseConn(conn_id) /\ conn_id \in open
    <2>1. /\ Over(conn_id, h2c, h2c') /\ open' = open \ {conn_id}
          /\ c2h' = [c2h EXCEPT ![conn_id] = Append(@, Closed)]
      BY <1>2 DEF CloseConn, Over
    <2>2. Over(conn_id, c2h, c2h')
      BY <1>1, <2>1, OverWhole
    <2> QED BY <1>2, <2>1, <2>2 DEF Ends
  <1>3. CASE CloseConn(conn_id) /\ conn_id \notin open
    BY <1>3 DEF CloseConn
  <1> QED BY <1>2, <1>3 DEF ProcessPendingDrops

(* An event of a connection takes its first message, and of what the client *)
(* reads only the registration writes anything.                             *)
LEMMA TakesTake ==
    ASSUME IInv, NEW c \in Conns, ConnEvent(c)
    PROVE  /\ c2h[c] \in Seq(Message) /\ c2h[c] # <<>> /\ c2h' = [c2h EXCEPT ![c] = Tail(@)]
           /\ h2c' = h2c \/ HandleGpsInit(c)
           /\ UNCHANGED <<open, dials, faults, conn_id, gproxy_disconnected, client>>
                 \/ HandleConnClosed(c)
           /\ UNCHANGED <<open, dials, faults, conn_id, client>>
  BY DEF IInv, Control, ConnEvent, HandlePlayerFrame, HandleGpsInit, HandleGpsAck, IgnoreUnmapped,
        HandleConnClosed,
         Take, Heads, player, routing

(* What the client reads is the first message of its connection. *)
LEMMA ReadsRead ==
    ASSUME IInv, ClientReads
    PROVE  /\ h2c[ccon] \in Seq(Message) /\ h2c[ccon] # <<>>
          /\ h2c' = [h2c EXCEPT ![ccon] = Tail(@)]
           /\ UNCHANGED <<player, hostIn, hostOut, routing, actor, open, dials, faults, ccon,
                 c_sent>>
  BY DEF IInv, Control, Queues, ClientReads, ClientReceive, ClientReceiveInit, ClientReceiveAck,
        ClientResume, ClientRejected,
         Next1, Read

(* Where the connections stand to each other. *)
Routes ==
    /\ conn_id <= ccon
    /\ conn_pid \subseteq (IF seated THEN {conn_id} ELSE {})
    /\ \A d \in dials : d.conn <= ccon /\ d.last <= Len(got)
    /\ ckey \/ dials # {} => gproxy
    /\ \A c \in Conns : c > ccon => h2c[c] = <<>> /\ c2h[c] = <<>>
    /\ \A c \in Conns : No(h2c[c], "INIT") \/ gproxy

(* What a step may put into a queue to the client. *)
Outgoing(c, m) ==
    \/ IsW3gs(m) /\ m.n \in 1..total_sent'
    \/ m = Closed \/ m = Gps("REJECT", 0) \/ m = Gps("ACK", total_received)
    \/ m = Gps("INIT", 0) /\ gproxy'
    \/ m = Gps("RECONNECT", total_received) /\ \E d \in dials : HandleGproxyReconnect(d)
          /\ d.conn = c

(* Every message on its way to the client was on its way already, or is one *)
(* that a step of the host may send.                                        *)
LEMMA OutMoves ==
    ASSUME IInv, Routes, [Next]_vars, NEW c \in Conns
    PROVE  /\ \A m \in Msgs(h2c'[c]) : m \in Msgs(h2c[c]) \/ Outgoing(c, m)
           /\ c > ccon' => h2c'[c] = h2c[c]
           /\ ccon' \in {ccon, ccon + 1}
  <1> DEFINE Goal == /\ \A m \in Msgs(h2c'[c]) : m \in Msgs(h2c[c]) \/ Outgoing(c, m)
                     /\ c > ccon' => h2c'[c] = h2c[c]
                     /\ ccon' \in {ccon, ccon + 1}
  <1> SUFFICES Goal
    OBVIOUS
  <1>1. /\ h2c \in [Conns -> Seq(Message)] /\ conn_id \in Conns /\ conn_id <= ccon /\ ccon \in Conns
        /\ open \subseteq Conns /\ \A e \in open : e <= ccon
        /\ Conns \subseteq Nat /\ h2c[c] \in Seq(Message)
        /\ \A d \in dials : d.conn \in Conns /\ d.conn <= ccon
    <2>1. h2c \in [Conns -> Seq(Message)] /\ Conns \subseteq Nat
      BY DEF IInv, Queues, Conns
    <2> QED BY <2>1 DEF IInv, Control, Routes
  <1>2. CASE Sends
    <2>1. PICK k \in Nat : \E acks : Sent(k, acks)
      BY <1>2, SendsSend
    <2>2. PICK acks : Sent(k, acks)
      BY <2>1
    <2>3. ccon' = ccon
      BY <2>2 DEF Sent, client
    <2>4. c # conn_id => h2c'[c] = h2c[c]
      BY <2>2, SentItems
    <2>5. c = conn_id => /\ c <= ccon
                         /\ \A m \in Msgs(h2c'[c]) : m \in Msgs(h2c[c]) \/ Outgoing(c, m)
      BY <1>1, <2>2, SentItems DEF Outgoing
    <2> QED BY <1>1, <2>3, <2>4, <2>5
  <1>3. CASE h2c' = h2c /\ ccon' = ccon
    BY <1>3
  <1>4. ASSUME NEW e \in Conns, ConnEvent(e) PROVE Goal
    <2>1. ccon' = ccon /\ (h2c' = h2c \/ HandleGpsInit(e))
      BY <1>4, TakesTake DEF client
    <2>2. CASE h2c' = h2c
      BY <1>3, <2>1, <2>2
    <2>3. CASE HandleGpsInit(e) /\ h2c' # h2c
      <3>1. /\ h2c' = [h2c EXCEPT ![e] = Append(@, Gps("INIT", 0))] /\ e \in open /\ gproxy'
        BY <2>3 DEF HandleGpsInit
      <3>2. e = c => Msgs(h2c'[c]) = Msgs(h2c[c]) \union {Gps("INIT", 0)}
        BY <1>1, <3>1, MessageTypes, AppendMsgs
      <3>3. e # c => h2c'[c] = h2c[c]
        BY <1>1, <3>1
      <3> QED BY <1>1, <2>1, <3>1, <3>2, <3>3 DEF Outgoing
    <2> QED BY <2>1, <2>2, <2>3
  <1>5. ASSUME NEW e \in Conns, Ends(e), ccon' = ccon PROVE Goal
    <2>1. /\ \A f \in Conns \ {e} : h2c'[f] = h2c[f]
          /\ Msgs(h2c'[e]) \subseteq Msgs(h2c[e]) \union {Closed} /\ e <= ccon
      <3>1. Over(e, h2c, h2c') /\ e \in open
        BY <1>5 DEF Ends
      <3>2. h2c \in [Conns -> Seq(Message)] /\ e <= ccon
        BY <1>1, <3>1
      <3> HIDE DEF Goal
      <3>3. \A f \in Conns \ {e} : h2c'[f] = h2c[f]
        BY <3>1, <3>2, OverQueue
      <3>4. Msgs(h2c'[e]) \subseteq Msgs(h2c[e]) \union {Closed}
        BY <3>1, <3>2, OverQueue
      <3> QED BY <3>2, <3>3, <3>4
    <2> QED BY <1>1, <1>5, <2>1 DEF Outgoing
  <1>6. ASSUME NEW d \in dials, HandleGproxyReconnect(d) PROVE Goal
    <2>1. ccon' = ccon
      BY <1>6 DEF HandleGproxyReconnect, client
    <2>2. /\ d.conn \in Conns /\ \A e \in Conns \ {d.conn} : h2c'[e] = h2c[e]
          /\ d.conn \notin open => h2c' = h2c
          /\ d.conn \in open => \A m \in Msgs(h2c'[d.conn]) :
                 m = Gps("RECONNECT", total_received) \/ (IsW3gs(m) /\ m.n \in 1..total_sent')
      BY <1>6, ReplayItems
    <2>3. CASE c = d.conn /\ d.conn \in open
      <3>1. \A m \in Msgs(h2c'[c]) : Outgoing(c, m)
        BY <1>6, <2>2, <2>3 DEF Outgoing
      <3>2. c <= ccon
        BY <1>1, <2>3
      <3> QED BY <1>1, <2>1, <3>1, <3>2
    <2>4. CASE ~(c = d.conn /\ d.conn \in open)
      <3>1. h2c'[c] = h2c[c]
        BY <2>2, <2>4
      <3> QED BY <2>1, <3>1
    <2> QED BY <2>3, <2>4
  <1>7. ASSUME NEW d \in dials, RejectReconnect(d) PROVE Goal
    <2>1. /\ ccon' = ccon
          /\ h2c' = IF d.conn \in open THEN [h2c EXCEPT ![d.conn] = <<Gps("REJECT", 0)>>] ELSE h2c
      BY <1>7 DEF RejectReconnect, client
    <2>2. Msgs(<<Gps("REJECT", 0)>>) = {Gps("REJECT", 0)}
      BY DEF Msgs
    <2> QED BY <1>1, <2>1, <2>2 DEF Outgoing
  <1>8. CASE ClientReads
    <2>1. h2c[ccon] # <<>> /\ h2c' = [h2c EXCEPT ![ccon] = Tail(@)] /\ ccon' = ccon
      BY <1>8, ReadsRead
    <2>2. c = ccon => Msgs(h2c'[c]) \subseteq Msgs(h2c[c])
      BY <1>1, <2>1, TailMsgs
    <2>3. c # ccon => h2c'[c] = h2c[c]
      BY <1>1, <2>1
    <2> QED BY <1>1, <2>1, <2>2, <2>3
  <1>9. CASE ClientDial
    <2>1. h2c' = [h2c EXCEPT ![ccon] = <<>>] /\ ccon' = ccon + 1
      BY <1>9 DEF ClientDial
    <2> QED BY <1>1, <2>1, NoMsgs
  <1>10. CASE ProcessPendingDrops
    <2>1. ccon' = ccon
      BY <1>10 DEF ProcessPendingDrops, client
    <2> QED BY <1>1, <1>3, <1>5, <1>10, <2>1, DropEnds
  <1>11. ASSUME NEW e \in Conns, LoseConn(e) \/ WriteTaskEnds(e) PROVE Goal
    <2>1. ccon' = ccon
      BY <1>11 DEF LoseConn, WriteTaskEnds, client
    <2> QED BY <1>5, <1>11, <2>1, NetEnds
  <1>12. CASE OtherEvent \/ ClientSend \/ ClientAck \/ UNCHANGED vars
    BY <1>3, <1>12 DEF OtherEvent, ClientSend, ClientAck, vars, net, client
  <1> HIDE DEF Goal
  <1>13. ASSUME HostNext PROVE Goal
    BY <1>2, <1>4, <1>6, <1>7, <1>10, <1>12, <1>13 DEF HostNext, Sends, ConnEvent
  <1>14. ASSUME ClientNext PROVE Goal
    BY <1>8, <1>9, <1>12, <1>14 DEF ClientNext, ClientReads
  <1> QED BY <1>11, <1>12, <1>13, <1>14 DEF Next

(* A registration is the first message of the queue, or not in it. *)
First(q) == \A i \in 1..Len(q) : q[i].t = "INIT" => i = 1

(* Queue operations keep that, and taking the head leaves no registration. *)
LEMMA FirstStays ==
    ASSUME NEW q \in Seq(Message), First(q)
    PROVE  /\ \A m \in Message : m.t # "INIT" => First(Append(q, m))
           /\ q # <<>> => No(Tail(q), "INIT")
           /\ \A r \in Seq(Message) : No(r, "INIT") => First(q \o r)
  <1>1. Len(q) \in Nat
    BY LenProperties
  <1>2. ASSUME NEW r \in Seq(Message), No(r, "INIT") PROVE First(q \o r)
    <2> DEFINE s == q \o r
    <2>1. /\ Len(r) \in Nat /\ Len(s) = Len(q) + Len(r)
          /\ \A i \in 1..Len(q) + Len(r) : s[i] = IF i <= Len(q) THEN q[i] ELSE r[i - Len(q)]
      BY ConcatProperties, LenProperties
    <2> HIDE DEF s
    <2>2. ASSUME NEW i \in 1..Len(s), s[i].t = "INIT" PROVE i = 1
      <3>1. CASE i <= Len(q)
        BY <1>1, <2>1, <2>2, <3>1 DEF First
      <3>2. CASE ~(i <= Len(q))
        <4>1. i - Len(q) \in 1..Len(r) /\ s[i] = r[i - Len(q)]
          BY <1>1, <2>1, <3>2
        <4> QED BY <1>2, <2>2, <4>1 DEF No, Msgs
      <3> QED BY <3>1, <3>2
    <2>3. First(s)
      BY <2>2 DEF First
    <2> QED BY <2>3 DEF s
  <1>3. ASSUME NEW m \in Message, m.t # "INIT" PROVE First(Append(q, m))
    <2>1. Append(q, m) = q \o <<m>> /\ <<m>> \in Seq(Message)
      BY AppendIsConcat
    <2>2. No(<<m>>, "INIT")
      BY <1>3 DEF No, Msgs
    <2> QED BY <1>2, <2>1, <2>2
  <1>4. ASSUME q # <<>> PROVE No(Tail(q), "INIT")
    <2> DEFINE r == Tail(q)
    <2>1. Len(r) = Len(q) - 1 /\ \A i \in 1..Len(r) : r[i] = q[i + 1]
      BY <1>4, HeadTailProperties
    <2> HIDE DEF r
    <2>2. \A i \in 1..Len(r) : i + 1 \in 1..Len(q) /\ i + 1 # 1
      BY <1>1, <2>1
    <2>3. No(r, "INIT")
      BY <2>1, <2>2 DEF No, Msgs, First
    <2> QED BY <2>3 DEF r
  <1> QED BY <1>2, <1>3, <1>4

(* What a step may put into a queue to the host. *)
Incoming(c, m) ==
    \/ m = Closed \/ m = Gps("ACK", Len(got))
    \/ /\ IsW3gs(m) /\ m.n <= c_sent' /\ c = ccon
       /\ ClientResume \/ (ClientSend /\ cstate = "up")

(* Every message on its way to the host was on its way already, or is one   *)
(* that a step of the client may send; none is a registration.              *)
LEMMA InMoves ==
    ASSUME IInv, Routes, [Next]_vars, NEW c \in Conns
    PROVE  /\ \A m \in Msgs(c2h'[c]) : m \in Msgs(c2h[c]) \/ Incoming(c, m)
           /\ c > ccon' => c2h'[c] = c2h[c]
           /\ First(c2h[c]) => First(c2h'[c]) /\ (ConnEvent(c) => No(c2h'[c], "INIT"))
  <1> DEFINE Goal == /\ \A m \in Msgs(c2h'[c]) : m \in Msgs(c2h[c]) \/ Incoming(c, m)
                     /\ c > ccon' => c2h'[c] = c2h[c]
                     /\ First(c2h[c]) => First(c2h'[c])
  <1>1. /\ c2h \in [Conns -> Seq(Message)] /\ conn_id \in Conns /\ conn_id <= ccon /\ ccon \in Conns
        /\ open \subseteq Conns /\ \A e \in open : e <= ccon
        /\ c2h[c] \in Seq(Message)
        /\ \A e \in Conns : e > ccon => c2h[e] = <<>>
        /\ {c_sent, c_trim} \subseteq Nat
    BY DEF IInv, Control, Routes
  <1>2. Conns \subseteq Nat /\ Len(got) \in Nat
    BY LenProperties DEF IInv, Control, Conns
  <1>3. ASSUME ConnEvent(c), First(c2h[c]) PROVE No(c2h'[c], "INIT")
    <2>1. c2h[c] # <<>> /\ c2h'[c] = Tail(c2h[c])
      BY <1>1, <1>3, TakesTake
    <2> QED BY <1>1, <1>3, <2>1, FirstStays
  <1> SUFFICES Goal
    BY <1>3
  <1>4. CASE c2h' = c2h /\ ccon' = ccon
    BY <1>4
  <1>5. CASE Sends
    <2>1. PICK k \in Nat : \E acks : Sent(k, acks)
      BY <1>5, SendsSend
    <2> QED BY <1>4, <2>1 DEF Sent, client
  <1>6. ASSUME NEW e \in Conns, ConnEvent(e) PROVE Goal
    <2>1. c2h[e] # <<>> /\ c2h' = [c2h EXCEPT ![e] = Tail(@)] /\ ccon' = ccon
      BY <1>6, TakesTake DEF client
    <2>2. e # c => c2h'[c] = c2h[c]
      BY <1>1, <2>1
    <2>3. e = c => c2h'[c] = Tail(c2h[c]) /\ c2h[c] # <<>> /\ ~(c > ccon)
      BY <1>1, <2>1
    <2>4. e = c => Msgs(c2h'[c]) \subseteq Msgs(c2h[c]) /\ (First(c2h[c]) => No(c2h'[c], "INIT"))
      BY <1>1, <2>3, TailMsgs, FirstStays
    <2>5. No(c2h'[c], "INIT") => First(c2h'[c])
      BY DEF No, Msgs, First
    <2> QED BY <2>1, <2>2, <2>3, <2>4, <2>5
  <1>7. ASSUME NEW e \in Conns, Over(e, c2h, c2h'), e <= ccon, ccon' \in {ccon, ccon + 1} PROVE Goal
    <2>5. c2h \in [Conns -> Seq(Message)]
      BY <1>1
    <2>1. /\ \A f \in Conns \ {e} : c2h'[f] = c2h[f]
          /\ Msgs(c2h'[e]) \subseteq Msgs(c2h[e]) \union {Closed}
          /\ \A i \in 1..Len(c2h'[e]) : c2h'[e][i] = Closed
                \/ (i \in 1..Len(c2h[e]) /\ c2h'[e][i] = c2h[e][i])
      <3> DEFINE q == c2h
                 q2 == c2h'
      <3>1. Over(e, q, q2) /\ q \in [Conns -> Seq(Message)]
        BY <1>7, <2>5
      <3> HIDE DEF q, q2
      <3>2. \A f \in Conns \ {e} : q2[f] = q[f]
        BY <3>1, OverQueue, SMTT(15), ZenonT(40)
      <3>3. Msgs(q2[e]) \subseteq Msgs(q[e]) \union {Closed}
        BY <3>1, OverQueue
      <3>4. \A i \in 1..Len(q2[e]) : q2[e][i] = Closed \/ (i \in 1..Len(q[e]) /\ q2[e][i] = q[e][i])
        BY <3>1, OverQueue
      <3> QED BY <3>2, <3>3, <3>4 DEF q, q2
    <2>6. \A i \in 1..Len(c2h'[e]) : c2h'[e][i] = Closed
              \/ (i \in 1..Len(c2h[e]) /\ c2h'[e][i] = c2h[e][i])
      BY <2>1
    <2>2. First(c2h[e]) => First(c2h'[e])
      BY <2>6, MessageTypes DEF First
    <2>3. c # e => c2h'[c] = c2h[c]
      BY <2>1
    <2>4. c = e => ~(c > ccon')
      BY <1>1, <1>2, <1>7
    <2> QED BY <2>1, <2>2, <2>3, <2>4 DEF Incoming
  <1>8. ASSUME NEW d \in dials, HandleGproxyReconnect(d) \/ RejectReconnect(d) PROVE Goal
    BY <1>4, <1>8 DEF HandleGproxyReconnect, RejectReconnect, client
  <1>9. CASE ClientReceive \/ ClientReceiveInit \/ ClientReceiveAck \/ ClientRejected
    BY <1>4, <1>9 DEF ClientReceive, ClientReceiveInit, ClientReceiveAck, ClientRejected
  <1>10. CASE ClientResume
    <2> DEFINE n == Head(h2c[ccon]).n
               from == IF n > c_trim THEN n ELSE c_trim
               rest == [i \in 1..c_sent - from |-> W3gs(from + i)]
    <2>1. /\ c2h' = IF ccon \in open THEN [c2h EXCEPT ![ccon] = @ \o rest] ELSE c2h
          /\ ccon' = ccon /\ c_sent' = c_sent
      BY <1>10 DEF ClientResume
    <2>2. n \in Nat
      <3>1. h2c[ccon] \in Seq(Message) /\ h2c[ccon] # <<>>
        BY <1>10, ReadsRead DEF ClientReads
      <3> QED BY <3>1, HeadTailProperties, MessageTypes
    <2>3. from \in Nat
      BY <1>1, <2>2
    <2> HIDE DEF n, from
    <2>4. /\ rest \in Seq(Message)
          /\ \A m \in Msgs(rest) : IsW3gs(m) /\ m.n <= c_sent
      <3>1. CASE c_sent - from \in Nat
        <4>1. rest = Numbered(from, c_sent - from)
          BY DEF Numbered
        <4>2. rest \in Seq(Message)
                  /\ Msgs(rest) = {W3gs(i) : i \in from + 1..from + (c_sent - from)}
          BY <2>3, <3>1, <4>1, NumberedItems
        <4>3. \A i \in from + 1..from + (c_sent - from) : i \in Nat /\ i <= c_sent
          BY <1>1, <2>3
        <4> QED BY <4>2, <4>3, MessageTypes
      <3>2. CASE c_sent - from \notin Nat
        <4>1. 1..c_sent - from = {}
          BY <1>1, <2>3, <3>2
        <4>2. rest = <<>>
          BY <4>1
        <4> QED BY <4>2, NoMsgs, EmptySeq
      <3> QED BY <3>1, <3>2
    <2>5. No(rest, "INIT")
      BY <2>4 DEF No, IsW3gs
    <2> HIDE DEF rest
    <2>6. c # ccon \/ ccon \notin open => c2h'[c] = c2h[c]
      BY <1>1, <2>1
    <2>7. c = ccon /\ ccon \in open => c2h'[c] = c2h[c] \o rest /\ ~(c > ccon)
      BY <1>1, <1>2, <2>1
    <2>8. Msgs(c2h[c] \o rest) = Msgs(c2h[c]) \union Msgs(rest)
      BY <1>1, <2>4, ConcatMsgs
    <2>9. First(c2h[c]) => First(c2h[c] \o rest)
      BY <1>1, <2>4, <2>5, FirstStays
    <2> QED BY <1>10, <2>1, <2>4, <2>6, <2>7, <2>8, <2>9 DEF Incoming
  <1>11. CASE ClientSend \/ ClientAck
    <2> DEFINE m == IF ClientSend THEN W3gs(c_sent + 1) ELSE Gps("ACK", Len(got))
    <2>1. ccon' = ccon
      BY <1>11 DEF ClientSend, ClientAck
    <2>2. CASE c2h' = c2h
      BY <1>4, <2>1, <2>2
    <2>3. CASE c2h' # c2h
      <3>1. c2h' = [c2h EXCEPT ![ccon] = Append(@, m)]
                /\ (ClientSend => c_sent' = c_sent + 1 /\ cstate = "up")
        BY <1>11, <2>3 DEF ClientSend, ClientAck
      <3>2. m \in Message /\ m.t # "INIT" /\ Incoming(ccon, m)
        <4>1. CASE ClientSend
          BY <1>1, <3>1, <4>1, MessageTypes DEF Incoming, W3gs
        <4>2. CASE ~ClientSend
          BY <1>2, <4>2, MessageTypes DEF Incoming
        <4> QED BY <4>1, <4>2
      <3> HIDE DEF m
      <3>3. c # ccon => c2h'[c] = c2h[c]
        BY <1>1, <3>1
      <3>4. c = ccon => c2h'[c] = Append(c2h[c], m) /\ ~(c > ccon)
        BY <1>1, <1>2, <3>1
      <3>5. Msgs(Append(c2h[c], m)) = Msgs(c2h[c]) \union {m}
                /\ (First(c2h[c]) => First(Append(c2h[c], m)))
        BY <1>1, <3>2, AppendMsgs, FirstStays
      <3> QED BY <2>1, <3>2, <3>3, <3>4, <3>5
    <2> QED BY <2>2, <2>3
  <1>12. CASE ClientDial
    <2>1. ccon' = ccon + 1
      BY <1>12 DEF ClientDial
    <2>2. CASE ccon \in open
      <3>1. Over(ccon, c2h, c2h')
        BY <1>12, <2>2 DEF ClientDial, Over
      <3> QED BY <1>1, <1>2, <1>7, <2>1, <3>1
    <2>3. CASE ccon \notin open
      BY <1>12, <2>3 DEF ClientDial
    <2> QED BY <2>2, <2>3
  <1>13. CASE ProcessPendingDrops
    <2>1. ccon' = ccon
      BY <1>13 DEF ProcessPendingDrops, client
    <2> QED BY <1>1, <1>4, <1>7, <1>13, <2>1, DropEnds DEF Ends
  <1>14. ASSUME NEW e \in Conns, LoseConn(e) \/ WriteTaskEnds(e) PROVE Goal
    <2>1. ccon' = ccon
      BY <1>14 DEF LoseConn, WriteTaskEnds, client
    <2> QED BY <1>1, <1>7, <1>14, <2>1, NetEnds DEF Ends
  <1>15. CASE OtherEvent \/ UNCHANGED vars
    BY <1>4, <1>15 DEF OtherEvent, vars, net, client
  <1> HIDE DEF Goal
  <1>16. ASSUME HostNext PROVE Goal
    BY <1>5, <1>6, <1>8, <1>13, <1>15, <1>16 DEF HostNext, Sends, ConnEvent
  <1>17. ASSUME ClientNext PROVE Goal
    BY <1>9, <1>10, <1>11, <1>12, <1>17 DEF ClientNext
  <1> QED BY <1>14, <1>15, <1>16, <1>17 DEF Next

(***************************************************************************)
(* What a step leaves alone, and the routes                                *)
(***************************************************************************)

(* Which step may change what. *)
Frames ==
    /\ got' = got \/ ClientReceive
    /\ UNCHANGED hostIn \/ \E c \in Conns : HandlePlayerFrame(c)
    /\ c_sent' = c_sent \/ ClientSend
    /\ dials' \subseteq dials \/ ClientDial
    /\ ccon' = ccon \/ ClientDial
    /\ cstate' = cstate \/ ClientDial \/ ClientResume \/ ClientRejected
    /\ gproxy' = gproxy \/ (gproxy' /\ \E c \in Conns : HandleGpsInit(c))
    /\ ckey' = ckey \/ ClientReceiveInit
    /\ c_trim' = c_trim \/ ClientReceiveAck \/ ClientResume
    /\ UNCHANGED <<game_loaded, loaded_at>> \/ CheckLoadingComplete
    /\ open' \subseteq open \/ ClientDial
    /\ (UNCHANGED conn_id /\ conn_pid' \subseteq conn_pid)
          \/ \E d \in dials : HandleGproxyReconnect(d)
    /\ seated' => seated

(* Frames says of every step what it leaves alone. *)
LEMMA FramesHold == ASSUME IInv, [Next]_vars PROVE Frames
  <1> SUFFICES Frames
    OBVIOUS
  <1>1. {gproxy, seated} \subseteq BOOLEAN
    BY DEF IInv, Control
  <1>2. CASE Sends
    <2>1. PICK k \in Nat : \E acks : Sent(k, acks)
      BY <1>2, SendsSend
    <2>2. CASE UNCHANGED <<game_loaded, loaded_at>>
      BY <2>1, <2>2 DEF Sent, Frames, client
    <2>3. CASE CheckLoadingComplete
      BY <2>3 DEF CheckLoadingComplete, Frames, client, routing
    <2> QED BY <1>2, <2>2, <2>3 DEF Sends, Broadcast, OtherPlayerDropped, PingTick, GameTickExpire
  <1>3. CASE OtherEvent \/ UNCHANGED vars
    BY <1>1, <1>3 DEF OtherEvent, vars, Frames, client, player, routing, net
  <1>4. ASSUME NEW c \in Conns, HandlePlayerFrame(c) PROVE Frames
    BY <1>4 DEF HandlePlayerFrame, Frames, client, player, routing
  <1>11. ASSUME NEW c \in Conns, HandleGpsInit(c) PROVE Frames
    BY <1>1, <1>11 DEF HandleGpsInit, Frames, client, player, routing
  <1>5. ASSUME NEW c \in Conns, HandleGpsAck(c) \/ IgnoreUnmapped(c) \/ HandleConnClosed(c)
            PROVE Frames
    BY <1>1, <1>5 DEF HandleGpsAck, IgnoreUnmapped, HandleConnClosed, Mapped, Frames, client,
          player, routing
  <1>6. ASSUME NEW d \in dials, HandleGproxyReconnect(d) PROVE Frames
    BY <1>6 DEF HandleGproxyReconnect, Frames, client
  <1>7. ASSUME NEW d \in dials, RejectReconnect(d) PROVE Frames
    BY <1>7 DEF RejectReconnect, Frames, client, player, routing
  <1>8. CASE ProcessPendingDrops
    BY <1>1, <1>8, DropEnds DEF ProcessPendingDrops, Frames, client, player, routing, Ends
  <1>9. ASSUME NEW c \in Conns, LoseConn(c) \/ WriteTaskEnds(c) PROVE Frames
    BY <1>9 DEF LoseConn, WriteTaskEnds, Frames, client, player, routing, actor
  <1>10. CASE ClientNext
    <2>1. UNCHANGED <<player, hostIn, routing>>
      BY <1>10 DEF ClientNext, ClientReceive, ClientReceiveInit, ClientReceiveAck,
                   ClientResume, ClientRejected, ClientSend, ClientAck, ClientDial
    <2>2. CASE ClientReceive \/ ClientReceiveInit \/ ClientReceiveAck
      BY <2>1, <2>2 DEF ClientReceive, ClientReceiveInit, ClientReceiveAck, Frames, player, routing
    <2>3. CASE ClientResume \/ ClientRejected
      BY <2>1, <2>3 DEF ClientResume, ClientRejected, Frames, player, routing
    <2>4. CASE ClientSend \/ ClientAck
      BY <2>1, <2>4 DEF ClientSend, ClientAck, Frames, player, routing
    <2>5. CASE ClientDial
      <3>1. UNCHANGED <<ckey, got, c_sent, c_trim>>
        BY <2>5 DEF ClientDial
      <3> QED BY <2>1, <2>5, <3>1 DEF Frames, player, routing
    <2> QED BY <1>10, <2>2, <2>3, <2>4, <2>5 DEF ClientNext
  <1> QED BY <1>2, <1>3, <1>4, <1>5, <1>6, <1>7, <1>8, <1>9, <1>10, <1>11 DEF Next, HostNext, Sends

(* The client is handed one packet at a time. *)
LEMMA ReceiveAppends ==
    ASSUME IInv, ClientReceive
    PROVE  Len(got') = Len(got) + 1 /\ got' = Append(got, Head(h2c[ccon]).n) /\ cstate = "up"
          /\ Len(got) \in Nat
  <1>1. h2c[ccon] \in Seq(Message) /\ h2c[ccon] # <<>>
    BY ReadsRead DEF ClientReads
  <1>2. Head(h2c[ccon]).n \in Nat /\ got \in Seq(Nat)
    BY <1>1, HeadTailProperties, MessageTypes DEF IInv, Control
  <1> QED BY <1>2, AppendProperties, LenProperties DEF ClientReceive

(* Only the seated are written to, and nothing is numbered twice. *)
LEMMA Writes ==
    ASSUME IInv, [Next]_vars
    PROVE  /\ total_sent \in Nat /\ total_sent' \in Nat /\ total_sent' >= total_sent
           /\ UNCHANGED <<total_sent, seated>> \/ (seated /\ seated' \in BOOLEAN)
  <1> DEFINE Goal == /\ total_sent' >= total_sent
                     /\ UNCHANGED <<total_sent, seated>> \/ seated
  <1>1. total_sent \in Nat /\ total_sent' \in Nat /\ seated' \in BOOLEAN
    BY NextStep DEF IInv, BufferInv, Suffix, Control
  <1> SUFFICES Goal
    BY <1>1
  <1>2. Notices(1) \in Nat
    BY NoticesBounded
  <1>3. CASE UNCHANGED <<total_sent, seated>>
    BY <1>1, <1>3
  <1>4. CASE Sends
    <2>1. PICK k \in Nat : \E acks : Sent(k, acks)
      BY <1>4, SendsSend
    <2> QED BY <1>1, <2>1 DEF Sent
  <1>5. ASSUME NEW c \in Conns,
               HandlePlayerFrame(c) \/ HandleGpsAck(c) \/ HandleGpsInit(c) \/ IgnoreUnmapped(c)
                     \/ LoseConn(c) \/ WriteTaskEnds(c)
        PROVE  Goal
    BY <1>3, <1>5 DEF HandlePlayerFrame, HandleGpsAck, HandleGpsInit, IgnoreUnmapped, LoseConn,
          WriteTaskEnds, player, hostOut
  <1>6. ASSUME NEW c \in Conns, HandleConnClosed(c) PROVE Goal
    <2>1. seated /\ (AnnounceHold \/ UNCHANGED hostOut)
      BY <1>6 DEF HandleConnClosed, Mapped
    <2> QED BY <1>1, <1>2, <2>1 DEF AnnounceHold, hostOut
  <1>7. CASE ProcessPendingDrops
    BY <1>1, <1>2, <1>7 DEF ProcessPendingDrops, AnnounceHold, hostOut, player
  <1>8. ASSUME NEW d \in dials, HandleGproxyReconnect(d) PROVE Goal
    BY <1>8, ReplayItems DEF HandleGproxyReconnect
  <1>9. ASSUME NEW d \in dials, RejectReconnect(d) PROVE Goal
    BY <1>3, <1>9 DEF RejectReconnect, player, hostOut
  <1>10. CASE OtherEvent \/ UNCHANGED vars
    BY <1>3, <1>10 DEF OtherEvent, vars, player, hostOut
  <1>11. CASE ClientNext
    BY <1>3, <1>11 DEF ClientNext, ClientReceive, ClientReceiveInit, ClientReceiveAck,
                 ClientResume, ClientRejected, ClientSend, ClientAck, ClientDial, player, hostOut
  <1> HIDE DEF Goal
  <1> QED BY <1>4, <1>5, <1>6, <1>7, <1>8, <1>9, <1>10, <1>11 DEF Next, HostNext, Sends

(* Every step keeps Routes. *)
LEMMA RoutesStep == ASSUME IInv, Routes, [Next]_vars PROVE Routes'
  <1>1. Frames
    BY FramesHold
  <1>2. /\ conn_id \in Conns /\ ccon \in Conns /\ Len(got) \in Nat /\ Conns \subseteq Nat
        /\ dials \subseteq [conn : Conns, last : Nat] /\ gproxy \in BOOLEAN
              /\ conn_pid \subseteq Conns
    BY LenProperties DEF IInv, Control, Conns
  <1>3. ccon' \in {ccon, ccon + 1} /\ (ClientDial => ccon' = ccon + 1)
    BY <1>1 DEF Frames, ClientDial
  <1>4. Len(got') \in Nat /\ Len(got') >= Len(got)
    BY <1>1, <1>2, ReceiveAppends DEF Frames
  <1>5. (conn_id <= ccon)'
    <2>1. conn_id' = conn_id \/ \E d \in dials : conn_id' = d.conn
      BY <1>1 DEF Frames, HandleGproxyReconnect
    <2>2. \A d \in dials : d.conn \in Conns /\ d.conn <= ccon
      BY <1>2 DEF Routes
    <2>3. conn_id' \in Conns /\ conn_id' <= ccon
      BY <1>2, <2>1, <2>2 DEF Routes
    <2>4. conn_id' \in Nat /\ ccon \in Nat
      BY <1>2, <2>3
    <2> QED BY <1>3, <2>3, <2>4
  <1>6. (\A d \in dials : d.conn <= ccon /\ d.last <= Len(got))'
    <2> SUFFICES ASSUME NEW d \in dials' PROVE d.conn <= ccon' /\ d.last <= Len(got')
      OBVIOUS
    <2>1. CASE d \in dials
      <3>1. d.conn \in Nat /\ d.last \in Nat /\ ccon \in Nat
        BY <1>2, <2>1
      <3> QED BY <1>2, <1>3, <1>4, <2>1, <3>1 DEF Routes
    <2>2. CASE d \notin dials
      <3>1. ClientDial
        BY <1>1, <2>2 DEF Frames
      <3>2. d = [conn |-> ccon + 1, last |-> Len(got)]
        BY <2>2, <3>1 DEF ClientDial
      <3> QED BY <1>2, <1>3, <1>4, <3>1, <3>2
    <2> QED BY <2>1, <2>2
  <1>7. (ckey \/ dials # {} => gproxy)'
    <2>1. gproxy => gproxy'
      BY <1>1 DEF Frames
    <2>2. ClientDial => gproxy
      BY DEF ClientDial, Routes
    <2>3. ClientReceiveInit => gproxy
      <3> SUFFICES ASSUME ClientReceiveInit PROVE gproxy
        OBVIOUS
      <3>1. h2c[ccon] \in Seq(Message) /\ h2c[ccon] # <<>> /\ Head(h2c[ccon]).t = "INIT"
        BY ReadsRead DEF ClientReads, ClientReceiveInit, Next1
      <3>2. ~No(h2c[ccon], "INIT")
        BY <3>1, TailMsgs DEF No
      <3> QED BY <1>2, <3>2 DEF Routes
    <2> QED BY <1>1, <1>2, <2>1, <2>2, <2>3 DEF Frames, Routes
  <1>8. (\A c \in Conns : c > ccon => h2c[c] = <<>> /\ c2h[c] = <<>>)'
    <2> SUFFICES ASSUME NEW c \in Conns, c > ccon' PROVE h2c'[c] = <<>> /\ c2h'[c] = <<>>
      OBVIOUS
    <2>1. h2c'[c] = h2c[c] /\ c2h'[c] = c2h[c]
      BY OutMoves, InMoves
    <2>2. c > ccon
      BY <1>2, <1>3
    <2> QED BY <2>1, <2>2 DEF Routes
  <1>9. (\A c \in Conns : No(h2c[c], "INIT") \/ gproxy)'
    <2> SUFFICES ASSUME NEW c \in Conns, ~gproxy' PROVE No(h2c'[c], "INIT")
      BY DEF No
    <2>1. ~gproxy
      BY <1>1, <1>2 DEF Frames
    <2>2. No(h2c[c], "INIT")
      BY <2>1 DEF Routes
    <2>3. \A m \in Msgs(h2c'[c]) : m \in Msgs(h2c[c]) \/ Outgoing(c, m)
      BY OutMoves
    <2>4. total_received \in Nat
      BY DEF IInv, Control
    <2>5. ASSUME NEW m, Outgoing(c, m) PROVE m.t # "INIT"
      BY <2>4, <2>5, MessageTypes DEF Outgoing, IsW3gs
    <2> QED BY <2>2, <2>3, <2>5 DEF No
  <1>10. (conn_pid \subseteq (IF seated THEN {conn_id} ELSE {}))'
    <2> DEFINE G == conn_pid' \subseteq (IF seated' THEN {conn_id'} ELSE {})
    <2>1. CASE UNCHANGED <<seated, conn_id>> /\ conn_pid' \subseteq conn_pid
      BY <2>1 DEF Routes
    <2>2. CASE conn_pid' = conn_pid \ {conn_id} /\ conn_id' = conn_id
      BY <2>2 DEF Routes
    <2>3. CASE Sends
      <3>1. PICK k \in Nat : \E acks : Sent(k, acks)
        BY <2>3, SendsSend
      <3> QED BY <2>1, <2>2, <3>1 DEF Sent
    <2>4. CASE OtherEvent \/ UNCHANGED vars \/ ClientNext
      BY <2>1, <2>4 DEF OtherEvent, vars, player, routing, ClientNext, ClientReceive,
            ClientReceiveInit,
                        ClientReceiveAck, ClientResume, ClientRejected, ClientSend, ClientAck,
                              ClientDial
    <2>5. ASSUME NEW c \in Conns, HandlePlayerFrame(c) \/ HandleGpsInit(c) \/ HandleGpsAck(c)
              \/ IgnoreUnmapped(c)
                                  \/ LoseConn(c) \/ WriteTaskEnds(c)
          PROVE  G
      BY <2>1, <2>5 DEF HandlePlayerFrame, HandleGpsInit, HandleGpsAck, IgnoreUnmapped, LoseConn,
            WriteTaskEnds,
                        player, routing
    <2>6. ASSUME NEW c \in Conns, HandleConnClosed(c) PROVE G
      <3>1. conn_pid' = conn_pid \ {c} /\ c \in conn_pid /\ seated /\ conn_id' = conn_id
        BY <2>6 DEF HandleConnClosed, Mapped
      <3>2. c = conn_id
        BY <3>1 DEF Routes
      <3> QED BY <2>2, <3>1, <3>2
    <2>7. CASE ProcessPendingDrops
      BY <2>1, <2>2, <2>7 DEF ProcessPendingDrops, player, routing
    <2>8. ASSUME NEW d \in dials, HandleGproxyReconnect(d) \/ RejectReconnect(d) PROVE G
      BY <2>1, <2>8 DEF HandleGproxyReconnect, RejectReconnect, player, routing
    <2> QED BY <2>3, <2>4, <2>5, <2>6, <2>7, <2>8 DEF Next, HostNext, Sends
  <1> QED BY <1>5, <1>6, <1>7, <1>8, <1>9, <1>10 DEF Routes

(* So does the start. *)
LEMMA RoutesInit == Init => Routes
  <1> SUFFICES ASSUME Init PROVE Routes
    OBVIOUS
  <1>1. Conns \subseteq Nat
    BY DEF Conns
  <1>2. \A c \in Conns : c > ccon => h2c[c] = <<>> /\ c2h[c] = <<>>
    BY <1>1 DEF Init
  <1>3. No(<<>>, "INIT")
    BY NoMsgs DEF No
  <1> DEFINE all == [i \in 1..PreSent |-> i]
  <1> HIDE DEF all
  <1>4. No(Data(all), "INIT")
    <2>1. all \in Seq(Nat)
      BY IsASeq, SessionAssumption DEF all
    <2> QED BY <2>1, DataItems DEF No, IsW3gs
  <1>5. \A c \in Conns : No(h2c[c], "INIT")
    BY <1>3, <1>4 DEF Init, all
  <1> QED BY <1>2, <1>5 DEF Init, Routes

(***************************************************************************)
(* The limit of a write queue                                              *)
(***************************************************************************)

(* A connection the client asks for is not the player's yet, and is asked   *)
(* for once.                                                                *)
Dialled == \A d \in dials : d.conn # conn_id /\ \A e \in dials : e.conn = d.conn => e = d

(* Connections that must be within their limit: the player's, as long as no *)
(* drop is pending, and those that may become the player's.                 *)
Counts(c) == (c \in conn_pid /\ ~pending_drop) \/ \E d \in dials : d.conn = c

(* They are, and have room for the end of the stream if it is to come.      *)
Fits(q, works, c) == Len(q[c]) <= QueueMax + (IF c \in works THEN 0 ELSE 1)
Limited == \A c \in Conns : Counts(c) => Fits(h2c, open, c)

(* Every step keeps Dialled. *)
LEMMA DialledStep == ASSUME IInv, Routes, Dialled, [Next]_vars PROVE Dialled'
  <1>1. Frames
    BY FramesHold
  <1>2. /\ conn_id \in Nat /\ ccon \in Nat /\ conn_id <= ccon
        /\ \A d \in dials : d.conn \in Nat /\ d.conn <= ccon
    BY DEF IInv, Control, Conns, Routes
  <1>3. CASE ClientDial
    <2>1. /\ dials' = dials \union {[conn |-> ccon + 1, last |-> Len(got)]}
          /\ conn_id' = conn_id
      BY <1>3 DEF ClientDial, routing
    <2> DEFINE n == [conn |-> ccon + 1, last |-> Len(got)]
    <2>2. n.conn = ccon + 1
      OBVIOUS
    <2> HIDE DEF n
    <2>3. n.conn # conn_id /\ \A d \in dials : d.conn # n.conn
      BY <1>2, <2>2
    <2> QED BY <2>1, <2>3 DEF Dialled, n
  <1>4. ASSUME NEW d \in dials, HandleGproxyReconnect(d) PROVE Dialled'
    <2>1. dials' = dials \ {d} /\ conn_id' = d.conn
      BY <1>4 DEF HandleGproxyReconnect
    <2> QED BY <2>1 DEF Dialled
  <1>5. CASE dials' \subseteq dials /\ conn_id' = conn_id
    BY <1>5 DEF Dialled
  <1>6. CASE ~ClientDial /\ ~\E d \in dials : HandleGproxyReconnect(d)
    BY <1>1, <1>5, <1>6 DEF Frames
  <1> QED BY <1>3, <1>4, <1>6

(* A queue that does not grow stays within its limit.                       *)
LEMMA FitsStill ==
    ASSUME IInv, NEW c \in Conns, Fits(h2c, open, c), NEW q, NEW works, c \in works => c \in open,
           q[c] = h2c[c] \/ q[c] = <<>> \/ (h2c[c] # <<>> /\ q[c] = Tail(h2c[c]))
    PROVE  Fits(q, works, c)
  <1>1. h2c[c] \in Seq(Message) /\ Len(h2c[c]) \in Nat /\ QueueMax \in Nat
    BY LenProperties, SessionAssumption DEF IInv, Queues
  <1>2. Len(q[c]) \in Nat /\ Len(q[c]) <= Len(h2c[c])
    <2>1. CASE h2c[c] # <<>> /\ q[c] = Tail(h2c[c])
      <3>1. Len(Tail(h2c[c])) = Len(h2c[c]) - 1 /\ Len(h2c[c]) # 0
        BY <1>1, <2>1, HeadTailProperties, EmptySeq
      <3> QED BY <1>1, <2>1, <3>1
    <2>2. CASE q[c] = <<>>
      <3>1. Len(<<>>) = 0
        BY EmptySeq
      <3> QED BY <1>1, <2>2, <3>1
    <2>3. CASE q[c] = h2c[c]
      BY <1>1, <2>3
    <2> QED BY <2>1, <2>2, <2>3
  <1> QED BY <1>1, <1>2 DEF Fits

(* One whose connection ends has room for the end. *)
LEMMA FitsEnd ==
    ASSUME IInv, NEW c \in open, Ends(c), Fits(h2c, open, c)
    PROVE  Fits(h2c', open', c)
  <1>1. PICK n \in 0..Len(h2c[c]) : h2c' = [h2c EXCEPT ![c] = Append(Prefix(@, n), Closed)]
    BY DEF Ends, Over
  <1>2. /\ h2c \in [Conns -> Seq(Message)] /\ c \in Conns /\ h2c[c] \in Seq(Message)
        /\ Len(h2c[c]) \in Nat /\ QueueMax \in Nat
    BY LenProperties, SessionAssumption DEF IInv, Queues, Control
  <1>3. Len(Append(Prefix(h2c[c], n), Closed)) = n + 1
    BY <1>2, PrefixOf, AppendProperties, MessageTypes
  <1>4. Len(h2c'[c]) = n + 1
    BY <1>1, <1>2, <1>3
  <1> QED BY <1>2, <1>4 DEF Fits, Ends

(* Every step keeps Limited: try_send refuses what is over the limit and    *)
(* notes the player, the replay stops there, and process_pending_drops      *)
(* leaves nobody mapped.                                                    *)
LEMMA LimitedStep ==
    ASSUME IInv, Routes, HeldIffUnmapped, Dialled, Limited, [Next]_vars
    PROVE  Limited'
  <1>1. /\ h2c \in [Conns -> Seq(Message)] /\ conn_id \in Conns /\ QueueMax \in Nat
        /\ pending_drop \in BOOLEAN /\ ccon \in Conns /\ Conns \subseteq Nat
        /\ total_sent \in Nat /\ total_received \in Nat
        /\ dials \subseteq [conn : Conns, last : Nat]
    <2>1. Conns \subseteq Nat
      BY DEF Conns
    <2> QED BY <2>1, SessionAssumption DEF IInv, Control, Queues, BufferInv, Suffix
  <1>2. conn_pid \subseteq {conn_id} /\ (~seated => conn_pid = {})
    BY DEF Routes
  <1> SUFFICES ASSUME NEW c \in Conns, Counts(c)' PROVE Fits(h2c', open', c)
    BY DEF Limited, Fits, Counts
  <1>3. CASE /\ Counts(c) /\ (c \in open' => c \in open)
             /\ h2c'[c] = h2c[c] \/ h2c'[c] = <<>> \/ (h2c[c] # <<>> /\ h2c'[c] = Tail(h2c[c]))
    BY <1>3, FitsStill DEF Limited
  <1>4. CASE conn_pid' \subseteq conn_pid /\ UNCHANGED <<pending_drop, dials, open, h2c>>
    BY <1>3, <1>4 DEF Counts
  <1>5. CASE Sends
    <2>1. PICK k \in Nat : \E acks : Sent(k, acks)
      BY <1>5, SendsSend
    <2>2. PICK acks : Sent(k, acks)
      BY <2>1
    <2>3. conn_pid' \subseteq conn_pid /\ open' = open /\ dials' = dials
      BY <2>2 DEF Sent
    <2>4. CASE gproxy_disconnected
      BY <1>4, <2>2, <2>3, <2>4 DEF Sent
    <2>5. CASE ~gproxy_disconnected
      <3> DEFINE msgs == Numbered(total_sent, k) \o acks
      <3>1. Push(conn_id, msgs)
        BY <2>2, <2>5 DEF Sent
      <3>2. acks \in Seq(Message)
        <4>1. Gps("ACK", total_received) \in Message
          BY <1>1, MessageTypes
        <4>2. acks = <<>> \/ acks = <<Gps("ACK", total_received)>>
          BY <2>2 DEF Sent
        <4>3. CASE acks = <<>>
          BY <4>3, EmptySeq
        <4>4. CASE acks = <<Gps("ACK", total_received)>>
          BY <4>1, <4>4
        <4> QED BY <4>2, <4>3, <4>4
      <3>3. msgs \in Seq(Message)
        BY <1>1, <3>2, NumberedItems, ConcatProperties
      <3> HIDE DEF msgs
      <3>4. /\ \A e \in Conns \ {conn_id} : h2c'[e] = h2c[e]
            /\ conn_id \notin open => h2c' = h2c
            /\ pending_drop => pending_drop'
            /\ conn_id \in open /\ ~pending_drop' /\ Len(h2c[conn_id]) <= QueueMax =>
                  Len(h2c'[conn_id]) <= QueueMax
        <4>1. Queues(h2c)
          BY DEF IInv
        <4>2. conn_id \in Conns /\ pending_drop \in BOOLEAN
          BY <1>1
        <4> QED BY ONLY <3>1, <3>3, <4>1, <4>2, PushLimit
      <3>5. Counts(c)
        BY <2>3, <3>4 DEF Counts
      <3>6. CASE c # conn_id \/ c \notin open
        <4>1. h2c'[c] = h2c[c]
          BY <3>4, <3>6
        <4> QED BY <1>3, <2>3, <3>5, <4>1
      <3>7. CASE c = conn_id /\ c \in open
        <4>1. ~pending_drop'
          BY <2>3, <3>7 DEF Counts, Dialled
        <4>2. Len(h2c[c]) <= QueueMax
          BY <1>1, <3>5, <3>7 DEF Limited, Fits
        <4>3. Len(h2c'[c]) <= QueueMax
          BY <3>4, <3>7, <4>1, <4>2
        <4> QED BY <1>1, <2>3, <3>7, <4>3 DEF Fits
      <3> QED BY <3>6, <3>7
    <2> QED BY <2>4, <2>5
  <1>6. CASE OtherEvent \/ UNCHANGED vars
    BY <1>4, <1>6 DEF OtherEvent, vars, routing, actor, net
  <1>7. ASSUME NEW e \in Conns, ConnEvent(e) PROVE Fits(h2c', open', c)
    <2>1. CASE HandleGpsInit(e)
      <3>1. UNCHANGED <<conn_id, conn_pid, pending_drop, dials, open>> /\ e \in conn_pid
        BY <2>1 DEF HandleGpsInit, Mapped, routing
      <3>2. CASE h2c' = h2c
        BY <1>4, <3>1, <3>2
      <3>3. CASE h2c' # h2c
        <4>1. /\ h2c' = [h2c EXCEPT ![e] = Append(@, Gps("INIT", 0))]
              /\ e \in open /\ Len(h2c[e]) < QueueMax
          BY <2>1, <3>3 DEF HandleGpsInit
        <4>2. CASE c = e
          <5>1. h2c[c] \in Seq(Message) /\ Len(h2c[c]) \in Nat /\ Gps("INIT", 0) \in Message
            BY <1>1, MessageTypes, LenProperties
          <5>2. Len(h2c'[c]) = Len(h2c[c]) + 1
            BY <1>1, <4>1, <4>2, <5>1, AppendProperties
          <5> QED BY <1>1, <3>1, <4>1, <4>2, <5>1, <5>2 DEF Fits
        <4>3. CASE c # e
          <5>1. h2c'[c] = h2c[c] /\ Counts(c)
            BY <1>1, <3>1, <4>1, <4>3 DEF Counts
          <5> QED BY <1>3, <3>1, <5>1
        <4> QED BY <4>2, <4>3
      <3> QED BY <3>2, <3>3
    <2>2. CASE ~HandleGpsInit(e)
      <3>1. h2c' = h2c /\ UNCHANGED <<open, dials>>
        BY <1>7, <2>2, TakesTake
      <3>2. conn_pid' \subseteq conn_pid /\ UNCHANGED pending_drop
        BY <1>7, <2>2 DEF ConnEvent, HandlePlayerFrame, HandleGpsAck, IgnoreUnmapped,
                          HandleConnClosed, routing, player
      <3> QED BY <1>4, <3>1, <3>2
    <2> QED BY <2>1, <2>2
  <1>8. CASE ProcessPendingDrops
    <2>1. conn_pid' = {} /\ dials' = dials
      <3>1. gproxy_disconnected /\ seated => conn_pid = {}
        BY DEF HeldIffUnmapped
      <3> QED BY <1>2, <1>8, <3>1 DEF ProcessPendingDrops, routing
    <2>2. Counts(c) /\ c # conn_id
      BY <2>1 DEF Counts, Dialled
    <2>3. open' \subseteq open /\ h2c'[c] = h2c[c]
      <3>1. CASE UNCHANGED <<open, h2c, c2h>>
        BY <3>1
      <3>2. CASE Ends(conn_id)
        BY <1>1, <2>2, <3>2 DEF Ends, Over
      <3> QED BY <1>8, <3>1, <3>2, DropEnds
    <2> QED BY <1>3, <2>2, <2>3
  <1>9. ASSUME NEW d \in dials, HandleGproxyReconnect(d) PROVE Fits(h2c', open', c)
    <2>1. conn_pid' = {d.conn} /\ dials' = dials \ {d} /\ open' = open
      BY <1>9 DEF HandleGproxyReconnect
    <2>2. PICK complete \in BOOLEAN, k \in Nat :
             LET sends == Replayed(TrimGproxyBuffer(d.last), complete)
             IN  /\ sends \in Seq(Message) /\ k <= Len(sends)
                 /\ h2c' = IF d.conn \in open THEN [h2c EXCEPT ![d.conn] = Prefix(sends, k)]
                           ELSE h2c
                 /\ d.conn \in open => k <= QueueMax
      BY <1>9, ReplayQueue
    <2>3. CASE c = d.conn /\ c \in open
      <3> DEFINE sends == Replayed(TrimGproxyBuffer(d.last), complete)
      <3>1. /\ sends \in Seq(Message) /\ k <= Len(sends) /\ k <= QueueMax
            /\ h2c'[c] = Prefix(sends, k)
        BY <1>1, <2>2, <2>3
      <3> HIDE DEF sends
      <3>2. k \in 0..Len(sends)
        BY <3>1, LenProperties
      <3>3. Len(h2c'[c]) = k
        BY <3>1, <3>2, PrefixOf
      <3> QED BY <1>1, <2>1, <2>3, <3>1, <3>3 DEF Fits
    <2>4. CASE c = d.conn /\ c \notin open
      <3>1. h2c' = h2c /\ Counts(c)
        BY <2>2, <2>4 DEF Counts
      <3> QED BY <1>3, <2>1, <3>1
    <2>5. CASE c # d.conn
      <3>1. Counts(c)
        BY <2>1, <2>5 DEF Counts
      <3>2. h2c'[c] = h2c[c]
        BY <1>1, <2>2, <2>5
      <3> QED BY <1>3, <2>1, <3>1, <3>2
    <2> QED BY <2>3, <2>4, <2>5
  <1>10. ASSUME NEW d \in dials, RejectReconnect(d) PROVE Fits(h2c', open', c)
    <2>1. /\ UNCHANGED <<conn_pid, pending_drop, open>> /\ dials' = dials \ {d}
          /\ h2c' = IF d.conn \in open THEN [h2c EXCEPT ![d.conn] = <<Gps("REJECT", 0)>>] ELSE h2c
      BY <1>10 DEF RejectReconnect, routing
    <2>2. Counts(c) /\ c # d.conn
      BY <1>2, <2>1 DEF Counts, Dialled
    <2>3. h2c'[c] = h2c[c]
      BY <1>1, <2>1, <2>2
    <2> QED BY <1>3, <2>1, <2>2, <2>3
  <1>11. ASSUME NEW e \in Conns, LoseConn(e) \/ WriteTaskEnds(e) PROVE Fits(h2c', open', c)
    <2>1. Ends(e) /\ dials' \subseteq dials /\ UNCHANGED <<conn_pid, pending_drop>>
      BY <1>11, NetEnds DEF LoseConn, WriteTaskEnds, routing, actor
    <2>2. Counts(c)
      BY <2>1 DEF Counts
    <2>3. CASE c = e
      <3>1. c \in open
        BY <2>1, <2>3 DEF Ends
      <3> QED BY <2>1, <2>2, <2>3, <3>1, FitsEnd DEF Limited
    <2>4. CASE c # e
      <3>1. open' \subseteq open /\ h2c'[c] = h2c[c]
        BY <1>1, <2>1, <2>4 DEF Ends, Over
      <3> QED BY <1>3, <2>2, <3>1
    <2> QED BY <2>3, <2>4
  <1>12. CASE ClientReads
    <2>1. /\ h2c[ccon] # <<>> /\ h2c' = [h2c EXCEPT ![ccon] = Tail(@)]
          /\ UNCHANGED <<conn_pid, pending_drop, open, dials>>
      BY <1>12, ReadsRead DEF routing, actor
    <2>2. Counts(c)
      BY <2>1 DEF Counts
    <2>3. h2c'[c] = h2c[c] \/ (h2c[c] # <<>> /\ h2c'[c] = Tail(h2c[c]))
      BY <1>1, <2>1
    <2> QED BY <1>3, <2>1, <2>2, <2>3
  <1>13. CASE ClientSend \/ ClientAck
    BY <1>4, <1>13 DEF ClientSend, ClientAck, routing, actor
  <1>14. CASE ClientDial
    <2>1. /\ UNCHANGED <<conn_pid, pending_drop>> /\ open' = (open \ {ccon}) \union {ccon + 1}
          /\ h2c' = [h2c EXCEPT ![ccon] = <<>>]
          /\ dials' = dials \union {[conn |-> ccon + 1, last |-> Len(got)]}
      BY <1>14 DEF ClientDial, routing, actor
    <2>2. CASE c = ccon + 1
      <3>1. h2c[c] = <<>> /\ c # ccon
        BY <1>1, <2>2 DEF Routes
      <3>2. h2c'[c] = <<>> /\ Len(<<>>) = 0
        BY <1>1, <2>1, <3>1
      <3> QED BY <1>1, <3>2 DEF Fits
    <2>3. CASE c # ccon + 1
      <3>1. Counts(c)
        BY <2>1, <2>3 DEF Counts
      <3>2. h2c'[c] = h2c[c] \/ h2c'[c] = <<>>
        BY <1>1, <2>1
      <3>3. c \in open' => c \in open
        BY <2>1, <2>3
      <3> QED BY <1>3, <3>1, <3>2, <3>3
    <2> QED BY <2>2, <2>3
  <1> QED BY <1>5, <1>6, <1>7, <1>8, <1>9, <1>10, <1>11, <1>12, <1>13, <1>14
         DEF Next, HostNext, ClientNext, ConnEvent, ClientReads, Sends

(* The start has one connection, on which the lobby fits. *)
LEMMA LimitedInit == Init => Dialled /\ Limited
  <1> SUFFICES ASSUME Init PROVE Dialled /\ Limited
    OBVIOUS
  <1>1. dials = {} /\ conn_pid = {1} /\ PreSent \in Nat /\ QueueMax \in Nat /\ PreSent <= QueueMax
    BY SessionAssumption DEF Init
  <1> DEFINE all == [i \in 1..PreSent |-> i]
  <1>2. h2c = [c \in Conns |-> IF c = 1 THEN Data(all) ELSE <<>>]
    BY DEF Init
  <1>3. all \in Seq(Nat) /\ Len(all) = PreSent
    BY <1>1, IsASeq
  <1> HIDE DEF all
  <1>4. Len(Data(all)) = PreSent
    BY <1>3, DataPackets
  <1>5. ASSUME NEW c \in Conns, Counts(c) PROVE Fits(h2c, open, c)
    <2>1. c = 1
      BY <1>1, <1>5 DEF Counts
    <2>2. Len(h2c[c]) = PreSent
      BY <1>2, <1>4, <2>1
    <2> QED BY <1>1, <2>2 DEF Fits
  <1> QED BY <1>1, <1>5 DEF Dialled, Limited

(* In every reachable state every variable has its type, and no connection  *)
(* is owed more than its write queue holds, ConnHandle::try_send's bound,   *)
(* but one whose player is about to be dropped.                             *)
THEOREM TypeCorrect == Spec => []TypeOK
  <1> DEFINE Inv == IInv /\ Losses /\ HeldIffUnmapped /\ Routes /\ Dialled /\ Limited
  <1>1. Init => Inv
    <2>1. Init => HeldIffUnmapped /\ Losses
      BY DEF Init, HeldIffUnmapped, Losses
    <2> QED BY <2>1, InitIInv, RoutesInit, LimitedInit
  <1>2. Inv /\ [Next]_vars => Inv'
    <2>1. IInv => Control
      BY DEF IInv
    <2> QED BY <2>1, NextStep, LossesStep, HeldStep, RoutesStep, DialledStep, LimitedStep
  <1>3. Inv => TypeOK
    <2> SUFFICES ASSUME Inv PROVE TypeOK
      OBVIOUS
    <2>1. \A c \in conn_pid : ~pending_drop => Len(h2c[c]) <= QueueMax + 1
      <3> SUFFICES ASSUME NEW c \in conn_pid, ~pending_drop PROVE Len(h2c[c]) <= QueueMax + 1
        OBVIOUS
      <3>1. c \in Conns /\ h2c[c] \in Seq(Message) /\ Len(h2c[c]) \in Nat /\ QueueMax \in Nat
        BY LenProperties, SessionAssumption DEF IInv, Control, Queues
      <3>2. Fits(h2c, open, c)
        BY <3>1 DEF Limited, Counts
      <3> QED BY <3>1, <3>2 DEF Fits
    <2> QED BY <2>1 DEF IInv, Control, Queues, BufferInv, Suffix, Losses, TypeOK
  <1> HIDE DEF Inv
  <1> QED BY <1>1, <1>2, <1>3, PTL DEF Spec

(***************************************************************************)
(* The packets to the client                                                 *)
(***************************************************************************)

(* Every packet in a queue to the client has been numbered. *)
InRange == \A c \in Conns : \A m \in Msgs(h2c[c]) : IsW3gs(m) => m.n \in 1..total_sent

(* Every step keeps InRange. *)
LEMMA InRangeStep == ASSUME IInv, Routes, InRange, [Next]_vars PROVE InRange'
  <1>1. total_sent \in Nat /\ total_sent' \in Nat /\ total_sent' >= total_sent
    BY Writes
  <1>2. 1..total_sent \subseteq 1..total_sent'
    BY <1>1
  <1> SUFFICES ASSUME NEW c \in Conns, NEW m \in Msgs(h2c'[c]), IsW3gs(m)
               PROVE  m.n \in 1..total_sent'
    BY DEF InRange
  <1>3. m \in Msgs(h2c[c]) \/ Outgoing(c, m)
    BY OutMoves
  <1>4. CASE m \in Msgs(h2c[c])
    BY <1>2, <1>4 DEF InRange
  <1>5. CASE Outgoing(c, m)
    <2>1. total_received \in Nat
      BY DEF IInv, Control
    <2> QED BY <1>5, <2>1, MessageTypes DEF Outgoing
  <1> QED BY <1>3, <1>4, <1>5

(***************************************************************************)
(* The buffer reaches back to what the client has                          *)
(***************************************************************************)

(* A request that is still on its way for the present connection was made   *)
(* after the last packet the client was handed, and is not answered yet.    *)
Asked == \A d \in dials : d.conn = ccon =>
    d.last = Len(got) /\ cstate # "up" /\ No(h2c[ccon], "RECONNECT")

(* Every step keeps Asked. *)
LEMMA AskedStep == ASSUME IInv, Routes, Asked, [Next]_vars PROVE Asked'
  <1> SUFFICES ASSUME NEW d \in dials', d.conn = ccon'
               PROVE  d.last = Len(got') /\ cstate' # "up" /\ No(h2c'[ccon'], "RECONNECT")
    BY DEF Asked, No
  <1>1. Frames
    BY FramesHold
  <1>2. /\ ccon \in Conns /\ Conns \subseteq Nat /\ dials \subseteq [conn : Conns, last : Nat]
        /\ h2c \in [Conns -> Seq(Message)] /\ total_received \in Nat
    BY DEF IInv, Control, Conns, Queues
  <1>3. CASE ClientDial
    <2>1. /\ ccon' = ccon + 1 /\ got' = got /\ cstate' = "await" /\ ccon + 1 \in Conns
          /\ dials' = dials \union {[conn |-> ccon + 1, last |-> Len(got)]}
          /\ h2c' = [h2c EXCEPT ![ccon] = <<>>]
      BY <1>2, <1>3, SessionAssumption DEF ClientDial, Conns
    <2>2. d \notin dials
      <3> SUFFICES ASSUME d \in dials PROVE FALSE
        OBVIOUS
      <3>1. d.conn <= ccon /\ ccon \in Nat
        BY <1>2 DEF Routes
      <3> QED BY <2>1, <3>1
    <2>3. d.last = Len(got)
      BY <2>1, <2>2
    <2>4. h2c'[ccon + 1] = <<>>
      BY <1>2, <2>1 DEF Routes
    <2> QED BY <2>1, <2>3, <2>4, NoMsgs DEF No
  <1>4. CASE ~ClientDial
    <2>1. ccon' = ccon /\ d \in dials
      BY <1>1, <1>4 DEF Frames
    <2>2. d.last = Len(got) /\ cstate # "up" /\ No(h2c[ccon], "RECONNECT")
      BY <2>1 DEF Asked
    <2>3. got' = got
      BY <1>1, <2>2 DEF Frames, ClientReceive
    <2>4. ~ClientResume
      <3> SUFFICES ASSUME ClientResume PROVE FALSE
        OBVIOUS
      <3>1. h2c[ccon] \in Seq(Message) /\ h2c[ccon] # <<>> /\ Head(h2c[ccon]).t = "RECONNECT"
        BY ReadsRead DEF ClientReads, ClientResume, Next1
      <3> QED BY <2>2, <3>1, TailMsgs DEF No
    <2>5. cstate' # "up"
      BY <1>1, <1>4, <2>2, <2>4 DEF Frames, ClientRejected
    <2>6. ASSUME NEW m \in Msgs(h2c'[ccon]), m.t = "RECONNECT" PROVE FALSE
      <3>1. m \in Msgs(h2c[ccon]) \/ Outgoing(ccon, m)
        BY <1>2, OutMoves
      <3>2. Outgoing(ccon, m)
        BY <2>2, <2>6, <3>1 DEF No
      <3>3. PICK e \in dials : HandleGproxyReconnect(e) /\ e.conn = ccon
        BY <1>2, <2>6, <3>2, MessageTypes DEF Outgoing, IsW3gs
      <3>4. e.last = Len(got)
        BY <3>3 DEF Asked
      <3>5. e = d
        BY <1>2, <2>1, <2>2, <3>3, <3>4
      <3>6. dials' = dials \ {e}
        BY <3>3 DEF HandleGproxyReconnect
      <3> QED BY <3>5, <3>6
    <2> QED BY <2>1, <2>2, <2>3, <2>5, <2>6 DEF No
  <1> QED BY <1>3, <1>4

(* The registration is the client's first message, or is not under way. *)
Registered ==
    \A c \in Conns :
        /\ First(c2h[c])
        /\ \/ No(c2h[c], "INIT")
           \/ c = 1 /\ ~gproxy /\ ~game_loaded /\ total_received = 1 /\ conn_pid \subseteq {1}

(* Every step keeps Registered. *)
LEMMA RegisteredStep == ASSUME IInv, Routes, Registered, [Next]_vars PROVE Registered'
  <1>1. Frames
    BY FramesHold
  <1> SUFFICES ASSUME NEW c \in Conns
               PROVE  /\ First(c2h'[c])
                      /\ ~No(c2h'[c], "INIT") =>
                          c = 1 /\ ~gproxy' /\ ~game_loaded' /\ total_received' = 1
                                /\ conn_pid' \subseteq {1}
    BY DEF Registered, First, No
  <1>2. /\ \A m \in Msgs(c2h'[c]) : m \in Msgs(c2h[c]) \/ Incoming(c, m)
        /\ First(c2h[c]) => First(c2h'[c]) /\ (ConnEvent(c) => No(c2h'[c], "INIT"))
    BY InMoves
  <1>3. First(c2h'[c])
    BY <1>2 DEF Registered
  <1>4. ASSUME ~No(c2h'[c], "INIT")
        PROVE  c = 1 /\ ~gproxy' /\ ~game_loaded' /\ total_received' = 1 /\ conn_pid' \subseteq {1}
    <2>1. \A m : Incoming(c, m) => m.t # "INIT"
      <3>1. Len(got) \in Nat
        BY LenProperties DEF IInv, Control
      <3> QED BY <3>1, MessageTypes DEF Incoming, IsW3gs
    <2>2. ~No(c2h[c], "INIT")
      BY <1>2, <1>4, <2>1 DEF No
    <2>3. c = 1 /\ ~gproxy /\ ~game_loaded /\ total_received = 1 /\ conn_pid \subseteq {1}
      BY <2>2 DEF Registered
    <2>4. ~ConnEvent(1)
      BY <1>2, <1>4, <2>3 DEF Registered
    <2>5. conn_pid' \subseteq {1}
      BY <1>1, <2>3 DEF Frames, Routes
    <2>6. \A e \in Conns : ~HandleGpsInit(e) /\ ~HandlePlayerFrame(e)
      BY <2>3, <2>4 DEF ConnEvent, HandleGpsInit, HandlePlayerFrame, Mapped
    <2>7. total_received' = 1
      BY <1>1, <2>3, <2>6 DEF Frames, hostIn
    <2>8. ~gproxy'
      BY <1>1, <2>3, <2>6 DEF Frames
    <2>9. ~game_loaded'
      BY <1>1, <2>3 DEF Frames, CheckLoadingComplete
    <2> QED BY <2>3, <2>5, <2>7, <2>8, <2>9
  <1> QED BY <1>3, <1>4

(* How much of the buffer trim_gproxy_buffer leaves. *)
LEMMA TrimLength ==
    ASSUME NEW last \in Nat, Suffix(gproxy_buffer, total_sent)
    PROVE  LET kept == Len(gproxy_buffer)
           IN  Len(TrimGproxyBuffer(last)) = IF last <= total_sent - kept THEN kept
                                             ELSE IF last > total_sent THEN 0 ELSE total_sent - last
  <1> DEFINE len == Len(gproxy_buffer)
             n == IF last <= total_sent - len THEN 0
                  ELSE IF last - (total_sent - len) > len THEN len
                  ELSE last - (total_sent - len)
             b == SubSeq(gproxy_buffer, n + 1, len)
  <1>1. len \in Nat /\ total_sent \in Nat /\ len <= total_sent /\ gproxy_buffer \in Seq(Nat)
    BY LenProperties DEF Suffix
  <1>2. n \in 0..len
    BY <1>1
  <1>3. TrimGproxyBuffer(last) = b
    BY <1>1 DEF TrimGproxyBuffer
  <1>4. Len(b) = len - n
    <2> HIDE DEF n, b
    <2>1. n + 1 \in Int /\ len \in Int
      BY <1>1, <1>2
    <2>2. \A i \in n + 1..len : gproxy_buffer[i] \in Nat
      BY <1>1, <1>2, ElementOfSeq
    <2>3. Len(b) = IF n + 1 <= len THEN len - (n + 1) + 1 ELSE 0
      BY <2>1, <2>2, SubSeqProperties DEF b
    <2> QED BY <1>1, <1>2, <2>3
  <1>5. len - n = IF last <= total_sent - len THEN len
                  ELSE IF last > total_sent THEN 0 ELSE total_sent - last
    <2>1. CASE last <= total_sent - len
      BY <1>1, <2>1
    <2>2. CASE last > total_sent
      <3>1. n = len /\ ~(last <= total_sent - len)
        BY <1>1, <2>2
      <3> HIDE DEF n
      <3> QED BY <1>1, <2>2, <3>1
    <2>3. CASE ~(last <= total_sent - len) /\ ~(last > total_sent)
      <3>1. n = last - (total_sent - len)
        BY <1>1, <2>3
      <3> HIDE DEF n
      <3> QED BY <1>1, <2>3, <3>1
    <2> QED BY <2>1, <2>2, <2>3
  <1> HIDE DEF b, n
  <1> QED BY <1>3, <1>4, <1>5

(* How much of the stream the buffer no longer holds. *)
Dropped == total_sent - Len(gproxy_buffer)
(* No acknowledgement on its way claims a packet the client was not handed, *)
(* and the buffer reaches back to what the client has, or to the start of   *)
(* the game.                                                                *)
Reach ==
    /\ \A c \in Conns : \A m \in Msgs(c2h[c]) : m.t = "ACK" => m.n <= Len(got)
    /\ gproxy /\ game_loaded => Dropped <= loaded_at \/ Dropped <= Len(got)

(* Every step keeps Reach. *)
LEMMA ReachStep == ASSUME IInv, Routes, Registered, Reach, [Next]_vars PROVE Reach'
  <1>1. Frames
    BY FramesHold
  <1>2. /\ Len(got) \in Nat /\ got' \in Seq(Nat) /\ total_sent \in Nat /\ total_sent' \in Nat
        /\ Len(gproxy_buffer) \in Nat /\ Len(gproxy_buffer) <= total_sent
              /\ gproxy_buffer \in Seq(Nat)
        /\ Suffix(gproxy_buffer, total_sent) /\ loaded_at \in Nat
              /\ {gproxy, game_loaded} \subseteq BOOLEAN
        /\ dials \subseteq [conn : Conns, last : Nat] /\ c2h \in [Conns -> Seq(Message)]
    BY NextStep, LenProperties DEF IInv, Control, BufferInv, Suffix
  <1>3. Len(got') \in Nat /\ Len(got') >= Len(got)
    BY <1>1, <1>2, ReceiveAppends, LenProperties DEF Frames
  <1>4. (\A c \in Conns : \A m \in Msgs(c2h[c]) : m.t = "ACK" => m.n <= Len(got))'
    <2> SUFFICES ASSUME NEW c \in Conns, NEW m \in Msgs(c2h'[c]), m.t = "ACK" PROVE m.n <= Len(got')
      OBVIOUS
    <2>1. m \in Msgs(c2h[c]) \/ Incoming(c, m)
      BY InMoves
    <2>2. CASE m \in Msgs(c2h[c])
      <3>1. m \in Message
        BY <1>2, <2>2, ElementOfSeq DEF Msgs
      <3>2. m.n \in Nat /\ m.n <= Len(got)
        BY <2>2, <3>1, MessageTypes DEF Reach
      <3> QED BY <1>2, <1>3, <3>2
    <2>3. CASE Incoming(c, m)
      <3>1. m = Gps("ACK", Len(got))
        BY <2>3, MessageTypes DEF Incoming, IsW3gs
      <3>2. m.n = Len(got)
        BY <1>2, <3>1, MessageTypes
      <3> QED BY <1>2, <1>3, <3>2
    <2> QED BY <2>1, <2>2, <2>3
  <1> DEFINE Goal == gproxy' /\ game_loaded' => Dropped' <= loaded_at' \/ Dropped' <= Len(got')
  <1> SUFFICES Goal
    BY <1>4 DEF Reach
  <1>5. CASE UNCHANGED <<gproxy, game_loaded, loaded_at>>
            /\ (~gproxy \/ ~game_loaded \/ Dropped' = Dropped)
    BY <1>2, <1>3, <1>5 DEF Reach, Dropped
  <1>6. \A k \in Nat : gproxy_buffer' = gproxy_buffer \o Fresh(k) /\ total_sent' = total_sent + k
                       => Dropped' = Dropped
    <2> SUFFICES ASSUME NEW k \in Nat, gproxy_buffer' = gproxy_buffer \o Fresh(k),
            total_sent' = total_sent + k
                 PROVE  Dropped' = Dropped
      OBVIOUS
    <2>1. Fresh(k) \in Seq(Nat) /\ Len(Fresh(k)) = k
      BY <1>2, FreshNumbers
    <2>2. Len(gproxy_buffer \o Fresh(k)) = Len(gproxy_buffer) + k
      BY <1>2, <2>1, ConcatProperties
    <2> QED BY <1>2, <2>2 DEF Dropped
  <1>7. Notices(1) \in Nat
    BY NoticesBounded
  <1>8. CASE Sends
    <2>1. PICK k \in Nat : \E acks : Sent(k, acks)
      BY <1>8, SendsSend
    <2>2. /\ gproxy' = gproxy /\ total_sent' = total_sent + k /\ Keep(k, game_loaded')
          /\ \/ UNCHANGED <<game_loaded, loaded_at>>
             \/ ~game_loaded /\ game_loaded' /\ loaded_at' = total_sent
      BY <2>1 DEF Sent
    <2>3. gproxy /\ game_loaded' => Dropped' = Dropped
      BY <1>6, <2>2 DEF Keep
    <2>4. CASE UNCHANGED <<game_loaded, loaded_at>>
      BY <1>2, <1>5, <2>2, <2>3, <2>4
    <2>5. CASE loaded_at' = total_sent
      BY <1>2, <2>2, <2>3, <2>5 DEF Dropped
    <2> QED BY <2>2, <2>4, <2>5
  <1>9. CASE UNCHANGED <<player, hostOut>>
    BY <1>5, <1>9 DEF player, hostOut, Dropped
  <1>10. ASSUME NEW c \in Conns, HandleGpsInit(c) PROVE Goal
    <2>1. h2c[c] # h2c[c] \/ ~No(c2h[c], "INIT")
      BY <1>2, <1>10, TailMsgs DEF HandleGpsInit, Heads, No
    <2>2. ~game_loaded /\ game_loaded' = game_loaded
      BY <1>10, <2>1 DEF Registered, HandleGpsInit
    <2> QED BY <2>2
  <1>11. ASSUME NEW last \in Nat, last <= Len(got), gproxy_buffer' = TrimGproxyBuffer(last),
             total_sent' = total_sent,
                UNCHANGED <<gproxy, game_loaded, loaded_at>>
         PROVE  Goal
    <2>1. Len(gproxy_buffer') = IF last <= total_sent - Len(gproxy_buffer) THEN Len(gproxy_buffer)
                                ELSE IF last > total_sent THEN 0 ELSE total_sent - last
      BY <1>2, <1>11, TrimLength
    <2>2. Dropped' = Dropped \/ Dropped' <= last
      BY <1>2, <1>11, <2>1 DEF Dropped
    <2>3. Dropped' \in Nat
      BY <1>2, <1>11, <2>1 DEF Dropped
    <2> QED BY <1>2, <1>3, <1>5, <1>11, <2>2, <2>3
  <1>12. ASSUME NEW c \in Conns, HandleGpsAck(c) PROVE Goal
    <2>1. c2h[c] # <<>> /\ Head(c2h[c]).t = "ACK"
              /\ gproxy_buffer' = TrimGproxyBuffer(Head(c2h[c]).n)
          /\ total_sent' = total_sent /\ UNCHANGED player
      BY <1>12 DEF HandleGpsAck, Heads
    <2>2. Head(c2h[c]) \in Msgs(c2h[c]) /\ Head(c2h[c]) \in Message
      BY <1>2, <2>1, TailMsgs, HeadTailProperties
    <2>3. Head(c2h[c]).n \in Nat /\ Head(c2h[c]).n <= Len(got)
      BY <2>1, <2>2, MessageTypes DEF Reach
    <2> QED BY <1>11, <2>1, <2>3 DEF player
  <1>13. ASSUME NEW d \in dials, HandleGproxyReconnect(d) PROVE Goal
    <2> DEFINE buf == TrimGproxyBuffer(d.last)
    <2>1. PICK complete \in BOOLEAN :
             /\ total_sent' = total_sent + (IF complete THEN Notices(1) ELSE 0)
             /\ gproxy_buffer' = IF complete /\ game_loaded THEN buf \o Fresh(Notices(1)) ELSE buf
      BY <1>13, ReplayQueue
    <2>2. d.last \in Nat /\ d.last <= Len(got) /\ UNCHANGED <<gproxy, game_loaded, loaded_at>>
              /\ got' = got
      BY <1>2, <1>13 DEF Routes, HandleGproxyReconnect, client
    <2>3. Len(buf) = IF d.last <= total_sent - Len(gproxy_buffer) THEN Len(gproxy_buffer)
                     ELSE IF d.last > total_sent THEN 0 ELSE total_sent - d.last
      BY <1>2, <2>2, TrimLength
    <2>4. buf \in Seq(Nat)
      BY <1>2, <2>2, TrimKeepsSuffix DEF Suffix
    <2> HIDE DEF buf
    <2>5. Fresh(Notices(1)) \in Seq(Nat) /\ Len(Fresh(Notices(1))) = Notices(1)
      BY <1>2, <1>7, FreshNumbers
    <2>6. Len(buf \o Fresh(Notices(1))) = Len(buf) + Notices(1)
      BY <2>4, <2>5, ConcatProperties
    <2>7. game_loaded => Dropped' = total_sent - Len(buf)
      <3>1. Len(buf) \in Nat
        BY <2>4, LenProperties
      <3>2. CASE complete
        BY <1>2, <1>7, <2>1, <2>6, <3>1, <3>2 DEF Dropped
      <3>3. CASE ~complete
        BY <1>2, <1>7, <2>1, <3>1, <3>3 DEF Dropped
      <3> QED BY <3>2, <3>3
    <2>8. total_sent - Len(buf) = Dropped \/ total_sent - Len(buf) <= d.last
      BY <1>2, <2>2, <2>3 DEF Dropped
    <2>9. total_sent - Len(buf) \in Nat
      BY <1>2, <2>2, <2>3
    <2> QED BY <1>2, <1>3, <2>2, <2>7, <2>8, <2>9 DEF Reach
  <1>14. ASSUME NEW c \in Conns, HandleConnClosed(c) PROVE Goal
    <2>1. UNCHANGED <<gproxy, game_loaded, loaded_at>> /\ (AnnounceHold \/ UNCHANGED hostOut)
      BY <1>14 DEF HandleConnClosed
    <2> QED BY <1>5, <1>6, <1>7, <2>1 DEF AnnounceHold, hostOut, Dropped
  <1>15. CASE ProcessPendingDrops
    <2>1. UNCHANGED <<gproxy, game_loaded, loaded_at>> /\ (AnnounceHold \/ UNCHANGED hostOut)
      BY <1>15 DEF ProcessPendingDrops, player
    <2> QED BY <1>5, <1>6, <1>7, <2>1 DEF AnnounceHold, hostOut, Dropped
  <1>16. ASSUME NEW c \in Conns, HandlePlayerFrame(c) \/ IgnoreUnmapped(c) \/ LoseConn(c)
             \/ WriteTaskEnds(c)
         PROVE  Goal
    BY <1>9, <1>16 DEF HandlePlayerFrame, IgnoreUnmapped, LoseConn, WriteTaskEnds
  <1>17. ASSUME NEW d \in dials, RejectReconnect(d) PROVE Goal
    BY <1>9, <1>17 DEF RejectReconnect
  <1>18. CASE OtherEvent \/ UNCHANGED vars
    BY <1>9, <1>18 DEF OtherEvent, vars
  <1>19. CASE ClientNext
    BY <1>9, <1>19 DEF ClientNext, ClientReceive, ClientReceiveInit, ClientReceiveAck,
                       ClientResume, ClientRejected, ClientSend, ClientAck, ClientDial
  <1> HIDE DEF Goal
  <1> QED
    BY <1>8, <1>10, <1>12, <1>13, <1>14, <1>15, <1>16, <1>17, <1>18, <1>19 DEF Next, HostNext, Sends

(***************************************************************************)
(* From the game to the client                                             *)
(***************************************************************************)

(* What the actor sends now reaches the client's present connection. *)
Flowing == seated /\ ~gproxy_disconnected /\ Ready /\ conn_id = ccon /\ ccon \in open

(* The queue goes on where the client stopped, but for what nobody owes the *)
(* client; and while what the actor sends reaches the client, nothing else  *)
(* is missing from the queue than what it refused.                          *)
InStep(q) == /\ InOrder(q, Len(got), forgone)
             /\ Flowing => Whole(q, Len(got), total_sent, refused \union forgone)

(* The client was not made to skip a packet. *)
Faithful == \A i \in 1..Len(got) : got[i] = i

(* What a client that skipped nothing was handed is 1, 2, 3, ..., and its   *)
(* connection goes on from there.                                           *)
Out == Faithful => Len(got) <= total_sent /\ InStep(h2c[ccon])

(* The next packet of the queue is the one after what was read, or what is  *)
(* skipped nobody owes the client.                                          *)
LEMMA ReadsNext ==
    ASSUME IInv, InRange, Out, ClientReceive
    PROVE  LET n == Head(h2c[ccon]).n
           IN  /\ n \in 1..total_sent /\ got' = Append(got, n)
               /\ Len(got) \in Nat /\ Len(got') = Len(got) + 1 /\ got'[Len(got) + 1] = n
               /\ \A i \in 1..Len(got) : got'[i] = got[i]
               /\ Faithful => n > Len(got) /\ Len(got) + 1 .. n - 1 \subseteq forgone
  <1> DEFINE q == h2c[ccon]
             n == Head(q).n
  <1>1. q \in Seq(Message) /\ q # <<>> /\ ccon \in Conns
    BY ReadsRead DEF ClientReads, IInv, Control
  <1>2. Len(got) \in Nat /\ got \in Seq(Nat)
    BY LenProperties DEF IInv, Control
  <1>3. IsW3gs(Head(q)) /\ Head(q) \in Msgs(q)
    BY <1>1, TailMsgs DEF ClientReceive, Next1, IsW3gs
  <1>4. n \in 1..total_sent /\ n \in Nat
    <2>1. n \in 1..total_sent
      BY <1>1, <1>3 DEF InRange
    <2> QED BY <2>1
  <1>5. ASSUME Faithful PROVE n > Len(got) /\ Len(got) + 1 .. n - 1 \subseteq forgone
    <2>1. InOrder(q, Len(got), forgone)
      BY <1>5 DEF Out, InStep
    <2> HIDE DEF q
    <2> QED BY <1>1, <1>2, <1>3, <2>1, OrderTail
  <1>6. got' = Append(got, n)
    BY DEF ClientReceive
  <1> HIDE DEF n
  <1>7. /\ Len(got') = Len(got) + 1 /\ got'[Len(got) + 1] = n
        /\ \A i \in 1..Len(got) : got'[i] = got[i]
    BY <1>2, <1>4, <1>6, AppendProperties
  <1> QED BY <1>2, <1>4, <1>5, <1>6, <1>7 DEF n, q

(* A read keeps Out. *)
LEMMA ReadInStep ==
    ASSUME IInv, InRange, Out, ClientReads, Faithful'
    PROVE  Len(got') <= total_sent' /\ InStep(h2c[ccon])'
  <1> DEFINE q == h2c[ccon]
             r == Tail(q)
  <1>1. q \in Seq(Message) /\ q # <<>> /\ h2c' = [h2c EXCEPT ![ccon] = Tail(@)] /\ ccon \in Conns
    BY ReadsRead DEF IInv, Control
  <1>2. h2c'[ccon] = r
    BY <1>1 DEF IInv, Queues
  <1>3. Len(got) \in Nat /\ total_sent \in Nat
    BY LenProperties DEF IInv, Control, BufferInv, Suffix
  <1>4. UNCHANGED <<total_sent, refused, forgone, ccon, Flowing>>
    <2>1. UNCHANGED <<player, hostOut, routing, actor, open, ccon>>
      BY ReadsRead
    <2> QED BY <2>1 DEF player, hostOut, routing, actor, Flowing, Ready
  <1>5. ASSUME Faithful, NEW m, m = Len(got'), Len(got') <= total_sent, InOrder(r, m, forgone),
               Flowing => Whole(r, m, total_sent, refused \union forgone)
        PROVE  Len(got') <= total_sent' /\ InStep(h2c[ccon])'
    BY <1>2, <1>4, <1>5 DEF InStep
  <1> HIDE DEF q
  <1>6. CASE ClientReceive
    <2> DEFINE n == Head(q).n
    <2>1. /\ n \in 1..total_sent /\ Len(got') = Len(got) + 1 /\ got'[Len(got) + 1] = n
          /\ \A i \in 1..Len(got) : got'[i] = got[i]
          /\ Faithful => n > Len(got) /\ Len(got) + 1 .. n - 1 \subseteq forgone
      BY <1>6, ReadsNext DEF q
    <2>2. n = Len(got) + 1 /\ Faithful
      BY <1>3, <2>1 DEF Faithful
    <2>3. /\ InOrder(q, Len(got), forgone)
          /\ Flowing => Whole(q, Len(got), total_sent, refused \union forgone)
      BY <2>2 DEF Out, InStep, q
    <2>4. IsW3gs(Head(q))
      BY <1>6 DEF ClientReceive, Next1, IsW3gs, q
    <2>5. InOrder(r, Len(got) + 1, forgone)
      BY <1>1, <1>3, <2>2, <2>3, <2>4, OrderTail
    <2>6. Flowing => Whole(r, Len(got) + 1, total_sent, refused \union forgone)
      BY <1>1, <1>3, <2>2, <2>3, WholeTail
    <2>7. Len(got') <= total_sent
      BY <1>3, <2>1, <2>2
    <2> HIDE DEF n, r
    <2> QED BY <1>5, <2>1, <2>2, <2>5, <2>6, <2>7
  <1>7. CASE ClientReceiveInit \/ ClientReceiveAck \/ ClientResume \/ ClientRejected
    <2>1. got' = got /\ ~IsW3gs(Head(q))
      BY <1>7 DEF ClientReceiveInit, ClientReceiveAck, ClientResume, ClientRejected, Next1,
            IsW3gs, q
    <2>2. Faithful
      BY <2>1 DEF Faithful
    <2>3. /\ InOrder(q, Len(got), forgone) /\ Len(got) <= total_sent
          /\ Flowing => Whole(q, Len(got), total_sent, refused \union forgone)
      BY <2>2 DEF Out, InStep, q
    <2>4. InOrder(r, Len(got), forgone)
      BY <1>1, <1>3, <2>1, <2>3, OrderTail
    <2>5. Flowing => Whole(r, Len(got), total_sent, refused \union forgone)
      BY <1>1, <1>3, <2>1, <2>3, WholeTail
    <2> HIDE DEF r
    <2> QED BY <1>5, <2>1, <2>2, <2>3, <2>4, <2>5
  <1> QED BY <1>6, <1>7 DEF ClientReads

(* A queue that takes a packet after refusing others settles them: nobody   *)
(* owes them any more.  So what it holds goes on as Out says.               *)
LEMMA SentInStep ==
    ASSUME IInv, Losses, InRange, Out, Faithful, NEW k \in Nat, NEW acks, Sent(k, acks),
           [Next]_vars
    PROVE  InStep(h2c[ccon])'
  <1> DEFINE q == h2c[ccon]
             msgs == Numbered(total_sent, k) \o acks
             from == Len(got)
  <1>1. /\ ccon' = ccon /\ got' = got /\ open' = open /\ conn_id' = conn_id
        /\ total_sent' = total_sent + k
        /\ gproxy_disconnected' = gproxy_disconnected /\ seated /\ Ready
    BY DEF Sent, client
  <1>2. /\ h2c \in [Conns -> Seq(Message)] /\ conn_id \in Conns /\ ccon \in Conns
        /\ total_sent \in Nat /\ from \in Nat /\ q \in Seq(Message)
    BY LenProperties DEF IInv, Control, Queues, BufferInv, Suffix
  <1>3. /\ InOrder(q, from, forgone) /\ from <= total_sent
        /\ Flowing => Whole(q, from, total_sent, refused \union forgone)
    BY DEF Out, InStep
  <1>4. UpTo(q, total_sent)
    BY <1>2 DEF InRange, UpTo
  <1>5. /\ \A c \in Conns \ {conn_id} : h2c'[c] = h2c[c]
        /\ conn_id \notin open \/ gproxy_disconnected => h2c' = h2c
        /\ msgs \in Seq(Message) /\ k <= Len(msgs)
        /\ \A i \in 1..Len(msgs) :
              IF i <= k THEN msgs[i] = W3gs(total_sent + i) ELSE ~IsW3gs(msgs[i])
    BY SentItems
  <1>6. forgone \subseteq forgone'
    BY LossesStep
  <1> HIDE DEF msgs, q, from
  <1>7. InOrder(q, from, forgone')
    BY <1>3, <1>6, Forgiving
  <1>8. CASE conn_id # ccon \/ ccon \notin open \/ gproxy_disconnected
    <2>1. h2c'[ccon] = q /\ ~Flowing'
      BY <1>1, <1>2, <1>5, <1>8 DEF Flowing, q
    <2> QED BY <1>1, <1>7, <2>1 DEF InStep, from
  <1>9. CASE conn_id = ccon /\ ccon \in open /\ ~gproxy_disconnected
    <2> DEFINE room == Room(ccon)
    <2>1. room \in Nat
      BY <1>2, <1>9, RoomLimit DEF IInv
    <2>2. Push(ccon, msgs)
      BY <1>9 DEF Sent, msgs
    <2>3. PICK j \in Nat : /\ Again(msgs, room, j)
                           /\ h2c' = [h2c EXCEPT ![ccon] = @ \o Taken(msgs, room, j)]
                           /\ Refuse(msgs, room, j)
      BY <1>5, <1>9, <2>1, <2>2, PushTakes
    <2> HIDE DEF room
    <2> DEFINE s == Taken(msgs, room, j)
               t == Early(msgs, room)
    <2>4. /\ s \in Seq(Message) /\ Len(s) = t + (Len(msgs) - j + 1)
          /\ t \in 0..Len(msgs) /\ j \in 1..Len(msgs) + 1 /\ Len(msgs) \in Nat
      BY <1>5, <2>1, <2>3, TakenItems
    <2>5. /\ refused' = refused \union Packets(msgs, room + 1, j - 1)
          /\ forgone' = forgone \union (IF j <= Len(msgs) THEN refused'
                                        ELSE IF room > 0 /\ msgs # <<>> THEN refused ELSE {})
      BY <2>3 DEF Refuse
    <2>6. InOrder(s, total_sent, forgone') /\ UpTo(s, total_sent + k)
              /\ Whole(s, total_sent, total_sent + k, refused')
      <3>1. /\ Packets(msgs, room + 1, j - 1) \subseteq refused'
            /\ j <= Len(msgs) => refused' \subseteq forgone'
        BY <2>5
      <3> HIDE DEF s, t
      <3> QED BY <1>2, <1>5, <2>1, <2>3, <3>1, TakenOrder DEF s
    <2>7. Whole(s, total_sent, total_sent + k, refused' \union forgone')
      BY <2>6, Forgiving
    <2>8. Whole(q, from, total_sent, refused \union forgone)
      BY <1>1, <1>3, <1>9 DEF Flowing
    <2>9. h2c'[ccon] = q \o s
      BY <1>2, <2>3 DEF q, s
    <2>10. refused \subseteq refused'
      BY <2>5
    <2>11. CASE Len(s) = 0
      <3>1. s = <<>>
        BY <2>4, <2>11, EmptySeq
      <3>2. q \o s = q
        <4> HIDE DEF s
        <4> QED BY <1>2, <3>1, ConcatEmptySeq DEF q
      <3>3. ASSUME NEW n \in from + 1..total_sent + k
            PROVE  n \in refused' \union forgone' \/ W3gs(n) \in Msgs(q)
        <4>1. CASE n <= total_sent
          <5>1. n \in from + 1..total_sent
            BY <1>2, <4>1
          <5> QED BY <1>6, <2>8, <2>10, <5>1 DEF Whole
        <4>2. CASE ~(n <= total_sent)
          <5>1. n \in total_sent + 1..total_sent + k
            BY <1>2, <4>2
          <5> HIDE DEF s
          <5> QED BY <2>7, <3>1, <5>1, NoMsgs DEF Whole
        <4> QED BY <4>1, <4>2
      <3>4. Whole(q, from, total_sent + k, refused' \union forgone')
        BY <3>3 DEF Whole
      <3> HIDE DEF s
      <3> QED BY <1>1, <1>7, <2>9, <3>2, <3>4 DEF InStep, from
    <2>12. CASE Len(s) # 0
      <3>1. refused \subseteq forgone'
        <4>1. CASE j <= Len(msgs)
          BY <2>5, <2>10, <4>1
        <4>2. CASE ~(j <= Len(msgs))
          <5>1. Len(s) = t /\ t > 0
            BY <2>4, <2>12, <4>2
          <5>2. Len(msgs) > 0 /\ room > 0
            BY <2>1, <2>4, <5>1 DEF Early
          <5>3. msgs # <<>>
            BY <5>2, EmptySeq
          <5> QED BY <2>5, <4>2, <5>2, <5>3
        <4> QED BY <4>1, <4>2
      <3> DEFINE L == forgone'
                 M == refused' \union forgone'
      <3>2. L \subseteq M /\ refused \union forgone \subseteq L
        BY <1>6, <3>1
      <3>3. Whole(q, from, total_sent, L)
        BY <2>8, <3>2, Forgiving
      <3>4. total_sent + k \in Nat /\ total_sent <= total_sent + k
        BY <1>2
      <3>5. q \in Seq(Message) /\ from \in Nat
        BY <1>2 DEF q, from
      <3> HIDE DEF s, L, M
      <3>6. /\ InOrder(q, from, L) /\ InOrder(s, total_sent, L)
            /\ Whole(s, total_sent, total_sent + k, M)
        BY <1>7, <2>6, <2>7 DEF L, M
      <3>7. InOrder(q \o s, from, L) /\ Whole(q \o s, from, total_sent + k, M)
        BY <1>2, <1>3, <1>4, <2>4, <2>6, <3>2, <3>3, <3>4, <3>5, <3>6, OrderJoins
      <3> QED BY <1>1, <2>9, <3>7 DEF InStep, L, M, from
    <2> QED BY <2>11, <2>12
  <1> QED BY <1>8, <1>9

(* A reconnect starts the new connection where the client stopped, or where *)
(* the buffer begins: what is before that the client will never be sent.    *)
LEMMA ReplayInStep ==
    ASSUME IInv, Asked, Reach, Out, Faithful,
           NEW d \in dials, HandleGproxyReconnect(d), d.conn = ccon, ccon \in open
    PROVE  InStep(h2c[ccon])'
  <1> DEFINE buf == TrimGproxyBuffer(d.last)
             from == Len(got)
             start == total_sent - Len(buf)
             first == <<Gps("RECONNECT", total_received)>>
             L == forgone'
  <1>1. /\ h2c \in [Conns -> Seq(Message)] /\ ccon \in Conns /\ total_sent \in Nat
            /\ total_received \in Nat
        /\ from \in Nat /\ Suffix(gproxy_buffer, total_sent) /\ gproxy_buffer \in Seq(Nat)
        /\ Len(gproxy_buffer) \in Nat /\ Len(gproxy_buffer) <= total_sent /\ loaded_at \in Nat
    BY LenProperties DEF IInv, Control, Queues, BufferInv, Suffix
  <1>2. /\ got' = got /\ ccon' = ccon /\ open' = open /\ gproxy
    BY DEF HandleGproxyReconnect, client
  <1>3. d.last = from /\ from <= total_sent
    BY DEF Asked, Out
  <1>4. Suffix(buf, total_sent) /\ Len(buf) \in Nat /\ Len(buf) <= total_sent
    BY <1>1, <1>3, TrimKeepsSuffix, LenProperties DEF Suffix
  <1>5. start \in Nat /\ from <= start /\ start <= total_sent /\ (Dropped <= from => start = from)
            /\ (Dropped > from => start = Dropped)
    <2>1. Len(buf) = IF d.last <= total_sent - Len(gproxy_buffer) THEN Len(gproxy_buffer)
                     ELSE IF d.last > total_sent THEN 0 ELSE total_sent - d.last
      BY <1>1, <1>3, TrimLength
    <2> DEFINE len == Len(buf)
               kept == Len(gproxy_buffer)
    <2>2. /\ len = IF from <= total_sent - kept THEN kept
                   ELSE IF from > total_sent THEN 0 ELSE total_sent - from
          /\ from <= total_sent
          /\ from \in Nat /\ kept \in Nat /\ kept <= total_sent /\ total_sent \in Nat
      BY <1>1, <1>3, <2>1
    <2> HIDE DEF len, kept, from
    <2>3. /\ total_sent - len \in Nat /\ from <= total_sent - len /\ total_sent - len <= total_sent
          /\ total_sent - kept <= from => total_sent - len = from
          /\ total_sent - kept > from => total_sent - len = total_sent - kept
      BY <2>2
    <2> QED BY <2>3 DEF len, kept, from, Dropped
  <1>6. from + 1 .. start \subseteq L
    <2>1. CASE Dropped <= from
      BY <1>1, <1>5, <2>1
    <2>2. CASE Dropped > from
      <3>1. L = forgone \union (from + 1 .. (IF game_loaded THEN loaded_at ELSE total_sent))
        BY <1>3 DEF HandleGproxyReconnect, NeverKept
      <3>2. CASE game_loaded
        <4>1. Dropped <= loaded_at
          <5>1. Dropped \in Nat
            BY <1>1 DEF Dropped
          <5> QED BY <1>1, <1>2, <2>2, <3>2, <5>1 DEF Reach
        <4> QED BY <1>1, <1>5, <2>2, <3>1, <3>2, <4>1
      <3>3. CASE ~game_loaded
        <4> QED BY <1>1, <1>5, <2>2, <3>1, <3>3
      <3> QED BY <3>2, <3>3
    <2>3. Dropped \in Nat
      BY <1>1 DEF Dropped
    <2> QED BY <1>1, <2>1, <2>2, <2>3
  <1>7. Data(buf) = Numbered(start, Len(buf))
    BY <1>4, BacklogPackets
  <1>8. PICK complete \in BOOLEAN, k \in Nat :
                 /\ Replayed(buf, complete) \in Seq(Message) /\ k <= Len(Replayed(buf, complete))
                 /\ total_sent' = total_sent + (IF complete THEN Notices(1) ELSE 0)
                 /\ h2c' = IF d.conn \in open
                           THEN [h2c EXCEPT ![d.conn] = Prefix(Replayed(buf, complete), k)] ELSE h2c
                 /\ pending_drop' \/ (complete /\ k = Len(Replayed(buf, complete)))
    BY ReplayQueue
  <1>9. start + Len(buf) = total_sent
    BY <1>1, <1>4
  <1> HIDE DEF buf, start, L
  <1> DEFINE all == Replayed(buf, complete)
             q == Prefix(all, k)
             backlog == first \o Numbered(start, Len(buf))
             line == Numbered(total_sent, Notices(1))
  <1>10. h2c'[ccon] = q
    BY <1>1, <1>8
  <1>11. Notices(1) \in Nat
    BY NoticesBounded
  <1>12. all = IF complete THEN backlog \o line ELSE backlog
    <2>1. Data(Fresh(Notices(1))) = line
      BY <1>1, <1>11, FreshPackets
    <2> QED BY <1>7, <2>1 DEF Replayed, Replay
  <1>13. /\ backlog \in Seq(Message) /\ InOrder(backlog, from, L) /\ UpTo(backlog, total_sent)
         /\ Whole(backlog, from, total_sent, L)
    <2>1. first \in Seq(Message) /\ Msgs(first) = {Gps("RECONNECT", total_received)}
              /\ Len(first) = 1
      <3>1. Gps("RECONNECT", total_received) \in Message
        BY <1>1, MessageTypes
      <3> QED BY <3>1 DEF Msgs
    <2>2. ~IsW3gs(Gps("RECONNECT", total_received))
      BY <1>1, MessageTypes
    <2>3. InOrder(first, from, L)
      <3>1. \A i \in 1..Len(first) : ~IsW3gs(first[i])
        BY <2>1, <2>2 DEF Msgs
      <3> HIDE DEF first
      <3> QED BY <3>1 DEF InOrder
    <2>4. UpTo(first, start)
      BY <2>1, <2>2 DEF UpTo
    <2>5. Whole(first, from, start, L)
      BY <1>6 DEF Whole
    <2> HIDE DEF first, from
    <2>6. /\ backlog \in Seq(Message) /\ InOrder(backlog, from, L)
              /\ UpTo(backlog, start + Len(buf))
          /\ Whole(backlog, from, start + Len(buf), L)
      BY <1>1, <1>4, <1>5, <2>1, <2>3, <2>4, <2>5, OrderExtends
    <2> QED BY <1>9, <2>6
  <1>14. all \in Seq(Message) /\ InOrder(all, from, L) /\ Whole(all, from, total_sent', L)
    <2> HIDE DEF backlog, from
    <2>1. CASE complete
      <3>1. /\ backlog \o line \in Seq(Message) /\ InOrder(backlog \o line, from, L)
            /\ Whole(backlog \o line, from, total_sent + Notices(1), L)
        BY <1>1, <1>3, <1>11, <1>13, OrderExtends
      <3> QED BY <1>8, <1>12, <2>1, <3>1
    <2>2. CASE ~complete
      <3>1. total_sent' = total_sent /\ all = backlog
        BY <1>1, <1>8, <1>12, <2>2
      <3> QED BY <1>13, <3>1
    <2> QED BY <2>1, <2>2
  <1>15. k \in 0..Len(all)
    BY <1>8, <1>14, LenProperties
  <1> HIDE DEF all
  <1>16. InOrder(q, from, L) /\ (k = Len(all) => q = all)
    BY <1>1, <1>14, <1>15, OrderPrefix, PrefixItems
  <1>17. Flowing' => k = Len(all)
    <2>1. stage' = IF pending_drop' THEN "drops" ELSE "event"
      BY DEF HandleGproxyReconnect, EndEvent
    <2>2. Flowing' => ~pending_drop'
      BY <2>1 DEF Flowing, Ready
    <2> QED BY <1>8, <2>2 DEF all
  <1> HIDE DEF q
  <1>18. Flowing' => Whole(q, from, total_sent', refused' \union L)
    BY <1>14, <1>16, <1>17 DEF Whole
  <1> QED BY <1>2, <1>10, <1>16, <1>18 DEF InStep, L

(* Every step keeps Out. *)
LEMMA OutStep ==
    ASSUME IInv, Losses, Routes, InRange, Asked, Reach, Out, [Next]_vars
    PROVE  Out'
  <1> SUFFICES ASSUME Faithful' PROVE Len(got') <= total_sent' /\ InStep(h2c[ccon])'
    BY DEF Out, InStep, Flowing
  <1> DEFINE Goal == Len(got') <= total_sent' /\ InStep(h2c[ccon])'
  <1> SUFFICES Goal
    OBVIOUS
  <1>1. Frames /\ forgone \subseteq forgone'
    BY FramesHold, LossesStep
  <1>2. total_sent \in Nat /\ total_sent' \in Nat /\ total_sent' >= total_sent
    BY Writes
  <1>3. /\ h2c \in [Conns -> Seq(Message)] /\ ccon \in Conns /\ Len(got) \in Nat
            /\ Conns \subseteq Nat
        /\ conn_id \in Conns /\ h2c[ccon] \in Seq(Message)
              /\ {pending_drop, gproxy_disconnected, seated} \subseteq BOOLEAN
        /\ open \subseteq Conns
    <2>1. h2c \in [Conns -> Seq(Message)] /\ Conns \subseteq Nat
      BY DEF IInv, Queues, Conns
    <2> QED BY <2>1, LenProperties DEF IInv, Control
  <1>4. Faithful
    <2>1. CASE ClientReceive
      <3>1. Len(got') = Len(got) + 1 /\ \A i \in 1..Len(got) : got'[i] = got[i]
        BY <2>1, ReadsNext
      <3>2. \A i \in 1..Len(got) : i \in 1..Len(got')
        BY <1>3, <3>1
      <3> QED BY <3>1, <3>2 DEF Faithful
    <2>2. CASE got' = got
      BY <2>2 DEF Faithful
    <2> QED BY <1>1, <2>1, <2>2 DEF Frames
  <1>5. /\ InOrder(h2c[ccon], Len(got), forgone) /\ Len(got) <= total_sent
        /\ Flowing => Whole(h2c[ccon], Len(got), total_sent, refused \union forgone)
    BY <1>4 DEF Out, InStep
  <1>6. got' = got => Len(got') <= total_sent'
    BY <1>2, <1>3, <1>5
  <1>7. ASSUME ccon' = ccon, got' = got, h2c'[ccon] = h2c[ccon],
               Flowing' => Flowing /\ UNCHANGED <<total_sent, refused, forgone>>
        PROVE  Goal
    <2>1. InOrder(h2c[ccon], Len(got), forgone')
      BY <1>1, <1>5, Forgiving
    <2> QED BY <1>5, <1>6, <1>7, <2>1 DEF InStep
  <1>8. CASE Sends
    <2>1. PICK k \in Nat : \E acks : Sent(k, acks)
      BY <1>8, SendsSend
    <2>2. got' = got
      BY <2>1 DEF Sent, client
    <2> QED BY <1>4, <1>6, <2>1, <2>2, SentInStep
  <1>9. CASE ClientReads
    BY <1>9, ReadInStep
  <1>10. ASSUME NEW c \in Conns, ConnEvent(c), ~HandleConnClosed(c) PROVE Goal
    <2>1. UNCHANGED <<ccon, got, open, conn_id, gproxy_disconnected>>
      BY <1>10, TakesTake DEF client
    <2>2. UNCHANGED <<total_sent, refused, forgone, seated>> /\ Ready
      BY <1>10 DEF ConnEvent, HandlePlayerFrame, HandleGpsInit, HandleGpsAck, IgnoreUnmapped,
            player, hostOut
    <2>3. CASE h2c' = h2c
      BY <1>7, <2>1, <2>2, <2>3 DEF Flowing
    <2>4. CASE HandleGpsInit(c) /\ h2c' # h2c
      <3>1. h2c' = [h2c EXCEPT ![c] = Append(@, Gps("INIT", 0))]
        BY <2>4 DEF HandleGpsInit
      <3>2. CASE c # ccon
        BY <1>3, <1>7, <2>1, <2>2, <3>1, <3>2 DEF Flowing
      <3>3. CASE c = ccon
        <4> DEFINE q == h2c[ccon]
                   m == Gps("INIT", 0)
        <4>1. h2c'[ccon] = Append(q, m) /\ m \in Message /\ ~IsW3gs(m)
          BY <1>3, <3>1, <3>3, MessageTypes
        <4> HIDE DEF m
        <4>2. InOrder(Append(q, m), Len(got), forgone) /\ Msgs(Append(q, m)) = Msgs(q) \union {m}
          BY <1>3, <1>5, <4>1, OrderAppend, AppendMsgs
        <4>3. Flowing => Whole(h2c'[ccon], Len(got), total_sent, refused \union forgone)
          BY <1>5, <4>1, <4>2 DEF Whole
        <4> QED BY <1>6, <2>1, <2>2, <4>1, <4>2, <4>3 DEF InStep, Flowing
      <3> QED BY <3>2, <3>3
    <2> QED BY <1>10, <2>3, <2>4, TakesTake
  <1>11. ASSUME NEW c \in Conns, HandleConnClosed(c) PROVE Goal
    <2>1. UNCHANGED <<ccon, got, h2c>> /\ ~Flowing'
      BY <1>11 DEF HandleConnClosed, client, Flowing
    <2> QED BY <1>7, <2>1
  <1>12. ASSUME NEW c \in Conns, Ends(c), UNCHANGED <<ccon, got>>,
                c # ccon => (Flowing' => Flowing /\ UNCHANGED <<total_sent, refused, forgone>>)
         PROVE  Goal
    <2>1. h2c \in [Conns -> Seq(Message)] /\ Over(c, h2c, h2c') /\ open' = open \ {c}
      BY <1>3, <1>12 DEF Ends
    <2>2. CASE c # ccon
      <3>1. h2c'[ccon] = h2c[ccon]
        BY <1>3, <2>1, <2>2, OverQueue
      <3> QED BY <1>7, <1>12, <2>2, <3>1
    <2>3. CASE c = ccon
      <3>1. InOrder(h2c[ccon], Len(got), forgone')
        BY <1>1, <1>5, Forgiving
      <3>2. InOrder(h2c'[ccon], Len(got), forgone')
        BY <1>3, <2>1, <2>3, <3>1, OverQueue
      <3>3. ~Flowing'
        BY <1>12, <2>1, <2>3 DEF Flowing
      <3> QED BY <1>6, <1>12, <3>2, <3>3 DEF InStep
    <2> QED BY <2>2, <2>3
  <1>13. ASSUME NEW c \in Conns, LoseConn(c) \/ WriteTaskEnds(c) PROVE Goal
    <2>1. UNCHANGED <<player, hostOut, conn_id, stage, client>>
      BY <1>13 DEF LoseConn, WriteTaskEnds, routing, actor
    <2>2. Ends(c)
      BY <1>13, NetEnds
    <2>3. Flowing' => Flowing
      BY <2>1, <2>2 DEF Flowing, Ready, Ends, player, client
    <2> QED BY <1>12, <2>1, <2>2, <2>3 DEF client, hostOut
  <1>14. CASE ProcessPendingDrops
    <2>1. UNCHANGED client
      BY <1>14 DEF ProcessPendingDrops
    <2>2. ~Flowing'
      BY <1>14 DEF ProcessPendingDrops, Flowing, player
    <2>3. Ends(conn_id) \/ UNCHANGED <<open, h2c, c2h>>
      BY <1>14, DropEnds
    <2> QED BY <1>3, <1>7, <1>12, <2>1, <2>2, <2>3 DEF client
  <1>15. ASSUME NEW d \in dials, HandleGproxyReconnect(d) PROVE Goal
    <2>1. /\ UNCHANGED <<ccon, got, open>> /\ conn_id' = d.conn
      BY <1>15 DEF HandleGproxyReconnect, client
    <2>2. CASE d.conn = ccon /\ ccon \in open
      BY <1>4, <1>6, <1>15, <2>1, <2>2, ReplayInStep
    <2>3. CASE ~(d.conn = ccon /\ ccon \in open)
      <3>1. h2c'[ccon] = h2c[ccon]
        BY <1>3, <1>15, <2>3, ReplayItems
      <3>2. ~Flowing'
        BY <2>1, <2>3 DEF Flowing
      <3> QED BY <1>7, <2>1, <3>1, <3>2
    <2> QED BY <2>2, <2>3
  <1>16. ASSUME NEW d \in dials, RejectReconnect(d) PROVE Goal
    <2>1. /\ UNCHANGED <<ccon, got, open, seated, total_sent>> /\ ~(seated /\ gproxy)
          /\ h2c' = IF d.conn \in open THEN [h2c EXCEPT ![d.conn] = <<Gps("REJECT", 0)>>] ELSE h2c
      BY <1>16 DEF RejectReconnect, player, hostOut, client
    <2>2. ~Flowing'
      BY <1>16, <2>1 DEF Flowing, Routes
    <2>3. CASE d.conn = ccon /\ ccon \in open
      <3>1. h2c'[ccon] = <<Gps("REJECT", 0)>>
        BY <1>3, <2>1, <2>3
      <3>2. ~IsW3gs(Gps("REJECT", 0))
        BY MessageTypes
      <3>3. InOrder(<<Gps("REJECT", 0)>>, Len(got), forgone')
        BY <3>2 DEF InOrder
      <3> QED BY <1>6, <2>1, <2>2, <3>1, <3>3 DEF InStep
    <2>4. CASE ~(d.conn = ccon /\ ccon \in open)
      <3>1. h2c'[ccon] = h2c[ccon]
        BY <1>3, <2>1, <2>4
      <3> QED BY <1>7, <2>1, <2>2, <3>1
    <2> QED BY <2>3, <2>4
  <1>17. CASE ClientDial
    <2>1. ccon' = ccon + 1 /\ h2c' = [h2c EXCEPT ![ccon] = <<>>]
              /\ UNCHANGED <<got, conn_id>>
      BY <1>17 DEF ClientDial, routing
    <2>2. ccon + 1 \in Conns
      <3>1. ccon < MaxConns
        BY <1>17 DEF ClientDial
      <3> QED BY <1>3, <3>1, SessionAssumption DEF Conns
    <2>3. h2c'[ccon'] = <<>>
      BY <1>3, <2>1, <2>2 DEF Routes
    <2>4. ~Flowing'
      BY <1>3, <2>1 DEF Flowing, Routes
    <2> QED BY <1>6, <2>1, <2>3, <2>4, NoMsgs DEF InStep
  <1>18. CASE OtherEvent \/ ClientSend \/ ClientAck \/ UNCHANGED vars
    <2>1. UNCHANGED <<player, hostOut, conn_id, open, h2c, ccon, got>>
              /\ (UNCHANGED stage \/ Ready)
      BY <1>18 DEF OtherEvent, ClientSend, ClientAck, vars, routing, actor, net, client
    <2> QED BY <1>7, <2>1 DEF Flowing, Ready, player, hostOut
  <1> HIDE DEF Goal
  <1>19. ASSUME HostNext PROVE Goal
    BY <1>8, <1>10, <1>11, <1>14, <1>15, <1>16, <1>18, <1>19 DEF HostNext, Sends, ConnEvent
  <1>20. ASSUME ClientNext PROVE Goal
    BY <1>9, <1>17, <1>18, <1>20 DEF ClientNext, ClientReads
  <1> QED BY <1>13, <1>18, <1>19, <1>20 DEF Next

(***************************************************************************)
(* From the client to the game                                             *)
(***************************************************************************)

(* What the client sent reaches the host once each, in order: the host has  *)
(* counted 1..total_received, the client still keeps the rest, and no       *)
(* acknowledgement on its way claims more than was counted.                 *)
Counted ==
    /\ host_got = [i \in 1..total_received |-> i]
    /\ total_received <= c_sent /\ c_trim <= total_received
    /\ \A c \in Conns :
          /\ \A m \in Msgs(h2c[c]) : m.t \in {"ACK", "RECONNECT"} => m.n <= total_received
          /\ UpTo(c2h[c], c_sent)

(* On a connection whose reconnect is not through yet no packet is sent. *)
Unsent ==
    /\ \A d \in dials : No(c2h[d.conn], "W3GS")
    /\ cstate = "await" => No(c2h[ccon], "W3GS")

(* The mapped connection continues where the host stopped counting. *)
Continues ==
    /\ \A c \in conn_pid : InOrder(c2h[c], total_received, {})
    /\ ccon \in conn_pid =>
          /\ cstate = "await" => \A m \in Msgs(h2c[ccon]) : m.t = "RECONNECT"
                => m.n = total_received
          /\ cstate = "up" /\ ccon \in open => Whole(c2h[ccon], total_received, c_sent, {})

(* The direction from the client to the host, in three parts. *)
In == Counted /\ Unsent /\ Continues

(* The frame the actor counts is the next one. *)
LEMMA FrameIsNext ==
    ASSUME IInv, In, NEW c \in Conns, HandlePlayerFrame(c)
    PROVE  /\ c \in conn_pid /\ IsW3gs(Head(c2h[c])) /\ ~No(c2h[c], "W3GS")
           /\ Head(c2h[c]).n = total_received + 1 /\ total_received + 1 <= c_sent
           /\ total_received' = total_received + 1
                 /\ host_got' = Append(host_got, total_received + 1)
  <1>1. /\ c2h[c] \in Seq(Message) /\ c2h[c] # <<>> /\ Head(c2h[c]).t = "W3GS" /\ c \in conn_pid
        /\ total_received \in Nat
        /\ total_received' = total_received + 1 /\ host_got' = Append(host_got, Head(c2h[c]).n)
    BY DEF IInv, Control, HandlePlayerFrame, Heads, Mapped
  <1>2. Head(c2h[c]) \in Msgs(c2h[c]) /\ IsW3gs(Head(c2h[c])) /\ ~No(c2h[c], "W3GS")
    BY <1>1, TailMsgs DEF IsW3gs, No
  <1>3. Head(c2h[c]).n = total_received + 1
    BY <1>1, <1>2, OrderTail DEF In, Continues
  <1>4. Head(c2h[c]).n <= c_sent
    BY <1>2 DEF In, Counted, UpTo
  <1> QED BY <1>1, <1>2, <1>3, <1>4

(* The actor counts one packet at a time, and only what the client sent. *)
LEMMA HeardGrows ==
    ASSUME IInv, In, [Next]_vars
    PROVE  /\ UNCHANGED hostIn \/ \E c \in Conns : HandlePlayerFrame(c)
           /\ total_received \in Nat /\ total_received' \in Nat /\ c_sent \in Nat /\ c_sent' \in Nat
           /\ total_received <= total_received' /\ c_sent <= c_sent' /\ total_received' <= c_sent
           /\ c_sent' = c_sent \/ (ClientSend /\ c_sent' = c_sent + 1)
  <1>1. Frames
    BY FramesHold
  <1>2. total_received \in Nat /\ c_sent \in Nat /\ total_received <= c_sent
    BY DEF IInv, Control, In, Counted
  <1>3. UNCHANGED hostIn \/ \E c \in Conns : HandlePlayerFrame(c)
    BY <1>1 DEF Frames
  <1>4. c_sent' = c_sent \/ (ClientSend /\ c_sent' = c_sent + 1)
    BY <1>1 DEF Frames, ClientSend
  <1>5. total_received' = total_received
            \/ (total_received' = total_received + 1 /\ total_received + 1 <= c_sent)
    BY <1>3, FrameIsNext DEF hostIn
  <1> QED BY <1>2, <1>3, <1>4, <1>5

(* Every step keeps Counted. *)
LEMMA CountedStep == ASSUME IInv, Routes, In, [Next]_vars PROVE Counted'
  <1>1. Frames
    BY FramesHold
  <1>2. /\ UNCHANGED hostIn \/ \E c \in Conns : HandlePlayerFrame(c)
        /\ total_received \in Nat /\ total_received' \in Nat /\ c_sent \in Nat /\ c_sent' \in Nat
        /\ total_received <= total_received' /\ c_sent <= c_sent' /\ total_received' <= c_sent
    BY HeardGrows
  <1>3. /\ h2c \in [Conns -> Seq(Message)] /\ c2h \in [Conns -> Seq(Message)] /\ ccon \in Conns
        /\ host_got \in Seq(Nat) /\ c_trim \in Nat
    BY DEF IInv, Control, Queues
  <1>4. (host_got = [i \in 1..total_received |-> i])'
    <2>1. CASE UNCHANGED hostIn
      BY <2>1 DEF hostIn, In, Counted
    <2>2. ASSUME NEW c \in Conns, HandlePlayerFrame(c)
              PROVE host_got' = [i \in 1..total_received' |-> i]
      <3>1. total_received' = total_received + 1 /\ host_got' = Append(host_got, total_received + 1)
        BY <2>2, FrameIsNext
      <3>2. host_got = [i \in 1..total_received |-> i]
        BY DEF In, Counted
      <3>3. Len(host_got) = total_received
        BY <1>2, <3>2
      <3>4. /\ Len(host_got') = total_received + 1
                /\ host_got'[total_received + 1] = total_received + 1
            /\ \A i \in 1..total_received : host_got'[i] = host_got[i] /\ host_got[i] = i
            /\ host_got' \in Seq(Nat)
        BY <1>2, <1>3, <3>1, <3>2, <3>3, AppendProperties
      <3>5. \A i \in 1..total_received' : host_got'[i] = i
        BY <1>2, <3>1, <3>4
      <3>6. DOMAIN host_got' = 1..total_received'
        BY <3>1, <3>4, LenProperties
      <3>7. host_got' = [i \in DOMAIN host_got' |-> host_got'[i]]
        BY <3>4
      <3> QED BY <3>5, <3>6, <3>7
    <2> QED BY <1>2, <2>1, <2>2
  <1>5. (total_received <= c_sent)'
    BY <1>2
  <1>6. (c_trim <= total_received)'
    <2>1. c_trim <= total_received
      BY DEF In, Counted
    <2>2. CASE c_trim' = c_trim
      BY <1>2, <1>3, <2>1, <2>2
    <2>3. CASE ClientReceiveAck \/ ClientResume
      <3> DEFINE m == Head(h2c[ccon])
      <3>1. h2c[ccon] \in Seq(Message) /\ h2c[ccon] # <<>>
        BY <2>3, ReadsRead DEF ClientReads
      <3>2. m \in Msgs(h2c[ccon]) /\ m \in Message
        BY <3>1, TailMsgs, HeadTailProperties
      <3>3. m.t \in {"ACK", "RECONNECT"} /\ c_trim' = (IF m.n > c_trim THEN m.n ELSE c_trim)
        BY <2>3 DEF ClientReceiveAck, ClientResume, Next1
      <3>4. m.n <= total_received /\ m.n \in Nat
        BY <1>3, <3>2, <3>3, MessageTypes DEF In, Counted
      <3> HIDE DEF m
      <3> QED BY <1>2, <1>3, <2>1, <3>3, <3>4
    <2> QED BY <1>1, <2>2, <2>3 DEF Frames
  <1>7. ASSUME NEW c \in Conns, NEW m \in Msgs(h2c'[c]), m.t \in {"ACK", "RECONNECT"}
        PROVE  m.n <= total_received'
    <2>1. m \in Msgs(h2c[c]) \/ Outgoing(c, m)
      BY OutMoves
    <2>2. CASE m \in Msgs(h2c[c])
      <3>1. m \in Message
        BY <1>3, <2>2, ElementOfSeq DEF Msgs
      <3>2. m.n \in Nat /\ m.n <= total_received
        BY <1>7, <2>2, <3>1, MessageTypes DEF In, Counted
      <3> QED BY <1>2, <3>2
    <2>3. CASE Outgoing(c, m)
      <3>1. m = Gps("ACK", total_received) \/ m = Gps("RECONNECT", total_received)
        BY <1>7, <2>3, MessageTypes DEF Outgoing, IsW3gs
      <3>2. m.n = total_received
        BY <1>2, <3>1, MessageTypes
      <3> QED BY <1>2, <3>2
    <2> QED BY <2>1, <2>2, <2>3
  <1>8. ASSUME NEW c \in Conns, NEW m \in Msgs(c2h'[c]), IsW3gs(m) PROVE m.n <= c_sent'
    <2>1. m \in Msgs(c2h[c]) \/ Incoming(c, m)
      BY InMoves
    <2>2. CASE m \in Msgs(c2h[c])
      <3>1. m \in Message
        BY <1>3, <2>2, ElementOfSeq DEF Msgs
      <3>2. m.n \in Nat /\ m.n <= c_sent
        BY <1>8, <2>2, <3>1, MessageTypes DEF In, Counted, UpTo
      <3> QED BY <1>2, <3>2
    <2>3. CASE Incoming(c, m)
      <3>1. Len(got) \in Nat
        BY LenProperties DEF IInv, Control
      <3> QED BY <1>8, <2>3, <3>1, MessageTypes DEF Incoming
    <2> QED BY <2>1, <2>2, <2>3
  <1> QED BY <1>4, <1>5, <1>6, <1>7, <1>8 DEF Counted, UpTo

(* Every step keeps Unsent. *)
LEMMA UnsentStep == ASSUME IInv, Routes, Asked, In, [Next]_vars PROVE Unsent'
  <1>1. Frames
    BY FramesHold
  <1>2. /\ c2h \in [Conns -> Seq(Message)] /\ ccon \in Conns /\ Conns \subseteq Nat
        /\ dials \subseteq [conn : Conns, last : Nat] /\ Len(got) \in Nat
    BY LenProperties DEF IInv, Control, Conns
  <1>3. ASSUME NEW c \in Conns, No(c2h[c], "W3GS"), NEW m \in Msgs(c2h'[c]), m.t = "W3GS"
        PROVE  c = ccon /\ (ClientResume \/ (ClientSend /\ cstate = "up"))
    <2>1. m \in Msgs(c2h[c]) \/ Incoming(c, m)
      BY InMoves
    <2> QED BY <1>2, <1>3, <2>1, MessageTypes DEF Incoming, No, IsW3gs
  <1>4. ASSUME ClientDial
        PROVE  /\ ccon' = ccon + 1 /\ ccon + 1 \in Conns /\ c2h'[ccon + 1] = <<>>
               /\ dials' = dials \union {[conn |-> ccon + 1, last |-> Len(got)]}
    <2>1. ccon' = ccon + 1 /\ ccon + 1 \in Conns
              /\ dials' = dials \union {[conn |-> ccon + 1, last |-> Len(got)]}
      BY <1>2, <1>4, SessionAssumption DEF ClientDial, Conns
    <2>2. c2h'[ccon + 1] = c2h[ccon + 1]
      <3>1. c2h' = c2h
                \/ \E n \in 0..Len(c2h[ccon]) : c2h' = [c2h EXCEPT ![ccon] = Append(Prefix(@, n),
                      Closed)]
        BY <1>4 DEF ClientDial
      <3>2. ccon # ccon + 1
        BY <1>2
      <3> QED BY <1>2, <2>1, <3>1, <3>2
    <2> QED BY <1>2, <2>1, <2>2 DEF Routes
  <1>5. ASSUME NEW d \in dials', NEW m \in Msgs(c2h'[d.conn]), m.t = "W3GS" PROVE FALSE
    <2>1. CASE d \in dials
      <3>1. d.conn \in Conns /\ No(c2h[d.conn], "W3GS")
        BY <1>2, <2>1 DEF In, Unsent
      <3>2. d.conn = ccon /\ (ClientResume \/ (ClientSend /\ cstate = "up"))
        BY <1>3, <1>5, <3>1
      <3>3. cstate # "up" /\ No(h2c[ccon], "RECONNECT")
        BY <2>1, <3>2 DEF Asked
      <3>4. h2c[ccon] \in Seq(Message) /\ h2c[ccon] # <<>> /\ Head(h2c[ccon]).t = "RECONNECT"
        BY <3>2, <3>3, ReadsRead DEF ClientReads, ClientResume, Next1
      <3> QED BY <3>3, <3>4, TailMsgs DEF No
    <2>2. CASE d \notin dials
      <3>1. ClientDial
        BY <1>1, <2>2 DEF Frames
      <3>2. c2h'[d.conn] = <<>>
        BY <1>4, <2>2, <3>1
      <3> QED BY <1>5, <3>2, NoMsgs
    <2> QED BY <2>1, <2>2
  <1>6. ASSUME cstate' = "await", NEW m \in Msgs(c2h'[ccon']), m.t = "W3GS" PROVE FALSE
    <2>1. CASE ClientDial
      BY <1>4, <1>6, <2>1, NoMsgs
    <2>2. CASE ~ClientDial
      <3>1. ccon' = ccon /\ cstate = "await" /\ ~ClientResume
        BY <1>1, <1>6, <2>2 DEF Frames, ClientResume, ClientRejected
      <3>2. No(c2h[ccon], "W3GS")
        BY <3>1 DEF In, Unsent
      <3> QED BY <1>2, <1>3, <1>6, <3>1, <3>2
    <2> QED BY <2>1, <2>2
  <1> QED BY <1>5, <1>6 DEF Unsent, No

(* Every step but a reconnect carries the mapped connection on: its packets *)
(* stay in order, and while the client sends on it none is missing.         *)
LEMMA CarryOn ==
    ASSUME IInv, Routes, In, [Next]_vars, NEW c \in conn_pid,
           \A d \in dials : ~HandleGproxyReconnect(d)
    PROVE  /\ InOrder(c2h'[c], total_received', {})
           /\ c = ccon' /\ cstate' = "up" /\ c \in open'
                 => Whole(c2h'[c], total_received', c_sent', {})
  <1> DEFINE Goal == /\ InOrder(c2h'[c], total_received', {})
                     /\ c = ccon' /\ cstate' = "up" /\ c \in open'
                           => Whole(c2h'[c], total_received', c_sent', {})
             q == c2h[c]
  <1> SUFFICES Goal
    OBVIOUS
  <1>1. /\ c2h \in [Conns -> Seq(Message)] /\ ccon \in Conns /\ Conns \subseteq Nat /\ c \in Conns
        /\ q \in Seq(Message) /\ total_received \in Nat /\ c_sent \in Nat /\ c_trim \in Nat
        /\ open \subseteq Conns
    <2>1. Conns \subseteq Nat
      BY DEF Conns
    <2> QED BY <2>1 DEF IInv, Control
  <1>2. seated /\ c = conn_id /\ conn_pid = {c}
    BY DEF Routes
  <1>3. /\ InOrder(q, total_received, {}) /\ UpTo(q, c_sent) /\ total_received <= c_sent
            /\ c_trim <= total_received
        /\ c = ccon /\ cstate = "up" /\ c \in open => Whole(q, total_received, c_sent, {})
    BY <1>1 DEF In, Counted, Continues
  <1>4. Frames
    BY FramesHold
  <1>5. ASSUME UNCHANGED <<c2h, hostIn, ccon, cstate, c_sent>>, open' \subseteq open PROVE Goal
    BY <1>3, <1>5 DEF hostIn
  <1>6. CASE Sends
    <2>1. PICK k \in Nat : \E acks : Sent(k, acks)
      BY <1>6, SendsSend
    <2> QED BY <1>5, <2>1 DEF Sent, client
  <1>7. ASSUME NEW e \in Conns, ConnEvent(e) PROVE Goal
    <2>1. /\ c2h[e] # <<>> /\ c2h' = [c2h EXCEPT ![e] = Tail(@)]
          /\ UNCHANGED <<open, ccon, cstate, c_sent>>
      BY <1>7, TakesTake DEF client
    <2>2. HandlePlayerFrame(e) => e = c
      BY <1>2 DEF HandlePlayerFrame, Mapped
    <2>3. ~HandlePlayerFrame(e) => total_received' = total_received
      BY <1>7 DEF ConnEvent, HandleGpsInit, HandleGpsAck, IgnoreUnmapped, HandleConnClosed, hostIn
    <2>4. CASE e # c
      <3>1. c2h'[c] = q
        BY <1>1, <2>1, <2>4
      <3> QED BY <1>3, <2>1, <2>2, <2>3, <2>4, <3>1
    <2>5. CASE e = c
      <3>1. q # <<>> /\ c2h'[c] = Tail(q)
        BY <1>1, <2>1, <2>5
      <3>2. CASE HandlePlayerFrame(c)
        <4>1. /\ IsW3gs(Head(q)) /\ Head(q).n = total_received + 1
                  /\ total_received' = total_received + 1
          BY <1>1, <3>2, FrameIsNext
        <4>2. InOrder(Tail(q), total_received + 1, {})
          BY <1>1, <1>3, <3>1, <4>1, OrderTail
        <4>3. Whole(q, total_received, c_sent, {}) => Whole(Tail(q), total_received + 1, c_sent, {})
          BY <1>1, <3>1, <4>1, WholeTail
        <4> QED BY <1>3, <2>1, <3>1, <4>1, <4>2, <4>3
      <3>3. CASE ~HandlePlayerFrame(c)
        <4>1. ~IsW3gs(Head(q))
          BY <1>2, <1>7, <2>5, <3>3 DEF ConnEvent, HandleGpsInit, HandleGpsAck, IgnoreUnmapped,
                HandleConnClosed,
                                        Heads, Mapped, IsW3gs
        <4>2. InOrder(Tail(q), total_received, {})
          BY <1>1, <1>3, <3>1, <4>1, OrderTail
        <4>3. Whole(q, total_received, c_sent, {}) => Whole(Tail(q), total_received, c_sent, {})
          BY <1>1, <3>1, <4>1, WholeTail
        <4> QED BY <1>3, <2>1, <2>3, <2>5, <3>1, <3>3, <4>2, <4>3
      <3> QED BY <3>2, <3>3
    <2> QED BY <2>4, <2>5
  <1>8. ASSUME NEW e \in Conns, Over(e, c2h, c2h'), UNCHANGED <<hostIn, c_sent>>,
               e = c => ~(c = ccon' /\ c \in open'),
               e # c /\ c = ccon' /\ cstate' = "up" /\ c \in open' => c = ccon /\ cstate = "up"
                     /\ c \in open
        PROVE  Goal
    <2>1. CASE e = c
      <3>1. InOrder(c2h'[c], total_received, {})
        BY <1>1, <1>3, <1>8, <2>1, OverQueue
      <3> QED BY <1>8, <2>1, <3>1 DEF hostIn
    <2>2. CASE e # c
      <3>1. c2h'[c] = q
        BY <1>1, <1>8, <2>2, OverQueue
      <3> QED BY <1>3, <1>8, <2>2, <3>1 DEF hostIn
    <2> QED BY <2>1, <2>2
  <1>9. ASSUME NEW d \in dials, RejectReconnect(d) PROVE Goal
    BY <1>5, <1>9 DEF RejectReconnect, client
  <1>10. CASE ClientReceive \/ ClientReceiveInit \/ ClientReceiveAck
    BY <1>5, <1>10 DEF ClientReceive, ClientReceiveInit, ClientReceiveAck
  <1>11. CASE ClientRejected
    BY <1>3, <1>11 DEF ClientRejected, hostIn
  <1>12. CASE ClientResume
    <2> DEFINE m == Head(h2c[ccon])
               from == IF m.n > c_trim THEN m.n ELSE c_trim
    <2>1. /\ c2h' = IF ccon \in open THEN [c2h EXCEPT ![ccon] = @
              \o Numbered(from, c_sent - from)] ELSE c2h
          /\ cstate = "await" /\ UNCHANGED <<ccon, open, c_sent, hostIn>>
      BY <1>12 DEF ClientResume, Numbered
    <2>2. h2c[ccon] \in Seq(Message) /\ h2c[ccon] # <<>> /\ m.t = "RECONNECT"
      BY <1>12, ReadsRead DEF ClientReads, ClientResume, Next1
    <2>3. m \in Msgs(h2c[ccon]) /\ m \in Message
      BY <2>2, TailMsgs, HeadTailProperties
    <2>4. c = ccon => m.n = total_received
      BY <2>1, <2>2, <2>3 DEF In, Continues
    <2> HIDE DEF m
    <2>5. c = ccon => from = total_received
      BY <1>1, <1>3, <2>4
    <2> HIDE DEF from
    <2>6. CASE c = ccon /\ ccon \in open
      <3>1. No(q, "W3GS")
        BY <2>1, <2>6 DEF In, Unsent
      <3>2. UpTo(q, total_received) /\ Whole(q, total_received, total_received, {})
        BY <1>1, <3>1, SilentOrder
      <3>3. c_sent - total_received \in Nat /\ total_received + (c_sent - total_received) = c_sent
        BY <1>1, <1>3
      <3> DEFINE r == q \o Numbered(total_received, c_sent - total_received)
      <3>4. InOrder(r, total_received, {})
                /\ Whole(r, total_received, total_received + (c_sent - total_received), {})
        <4>1. total_received <= total_received
          BY <1>1
        <4> QED BY <1>1, <1>3, <3>2, <3>3, <4>1, OrderExtends
      <3>5. c2h'[c] = r
        BY <1>1, <2>1, <2>5, <2>6
      <3> HIDE DEF r
      <3> QED BY <2>1, <3>3, <3>4, <3>5 DEF hostIn
    <2>7. CASE ~(c = ccon /\ ccon \in open)
      <3>1. c2h'[c] = q
        BY <1>1, <2>1, <2>7
      <3> QED BY <1>3, <2>1, <2>7, <3>1 DEF hostIn
    <2> QED BY <2>6, <2>7
  <1>13. CASE ClientSend
    <2>1. /\ c_sent' = c_sent + 1 /\ UNCHANGED <<ccon, cstate, open, hostIn>>
          /\ c2h' = IF cstate = "up" /\ ccon \in open
                    THEN [c2h EXCEPT ![ccon] = Append(@, W3gs(c_sent + 1))] ELSE c2h
      BY <1>13 DEF ClientSend
    <2>2. CASE c = ccon /\ cstate = "up" /\ c \in open
      <3> DEFINE r == q \o Numbered(c_sent, 1)
      <3>1. InOrder(r, total_received, {}) /\ Whole(r, total_received, c_sent + 1, {})
        BY <1>1, <1>3, <2>2, OrderExtends
      <3>2. c2h'[c] = r
        <4>1. Numbered(c_sent, 1) = <<W3gs(c_sent + 1)>>
          BY DEF Numbered
        <4>2. W3gs(c_sent + 1) \in Message
          BY <1>1, MessageTypes
        <4>3. Append(q, W3gs(c_sent + 1)) = q \o <<W3gs(c_sent + 1)>>
          BY <1>1, <4>2, AppendIsConcat
        <4>4. c2h'[c] = Append(q, W3gs(c_sent + 1))
          BY <1>1, <2>1, <2>2
        <4> QED BY <4>1, <4>3, <4>4
      <3> HIDE DEF r
      <3> QED BY <2>1, <3>1, <3>2 DEF hostIn
    <2>3. CASE ~(c = ccon /\ cstate = "up" /\ c \in open)
      <3>1. c2h'[c] = q
        BY <1>1, <2>1, <2>3
      <3> QED BY <1>3, <2>1, <2>3, <3>1 DEF hostIn
    <2> QED BY <2>2, <2>3
  <1>14. CASE ClientAck
    <2> DEFINE m == Gps("ACK", Len(got))
    <2>1. c2h' = [c2h EXCEPT ![ccon] = Append(@, m)]
              /\ UNCHANGED <<ccon, cstate, open, hostIn, c_sent>>
      BY <1>14 DEF ClientAck
    <2>2. m \in Message /\ ~IsW3gs(m)
      <3>1. Len(got) \in Nat
        BY LenProperties DEF IInv, Control
      <3> QED BY <3>1, MessageTypes
    <2> HIDE DEF m
    <2>3. InOrder(Append(q, m), total_received, {}) /\ Msgs(Append(q, m)) = Msgs(q) \union {m}
      BY <1>1, <1>3, <2>2, OrderAppend, AppendMsgs
    <2>4. Whole(q, total_received, c_sent, {}) => Whole(Append(q, m), total_received, c_sent, {})
      BY <2>3 DEF Whole
    <2>5. c2h'[c] = IF c = ccon THEN Append(q, m) ELSE q
      BY <1>1, <2>1
    <2> QED BY <1>3, <2>1, <2>3, <2>4, <2>5 DEF hostIn
  <1>15. CASE ClientDial
    <2>1. UNCHANGED <<hostIn, c_sent>> /\ ccon' = ccon + 1 /\ c <= ccon
      BY <1>2, <1>15 DEF ClientDial, Routes
    <2>2. c # ccon'
      BY <1>1, <2>1
    <2>3. CASE ccon \in open
      <3>1. Over(ccon, c2h, c2h')
        BY <1>15, <2>3 DEF ClientDial, Over
      <3> QED BY <1>1, <1>8, <2>1, <2>2, <3>1
    <2>4. CASE ccon \notin open
      <3>1. c2h' = c2h
        BY <1>15, <2>4 DEF ClientDial
      <3> QED BY <1>3, <2>1, <2>2, <3>1 DEF hostIn
    <2> QED BY <2>3, <2>4
  <1>16. ASSUME NEW e \in Conns, Ends(e), UNCHANGED <<hostIn, client>> PROVE Goal
    <2>1. Over(e, c2h, c2h') /\ open' = open \ {e} /\ UNCHANGED <<ccon, cstate, c_sent>>
      BY <1>16 DEF Ends, client
    <2> QED BY <1>8, <1>16, <2>1
  <1>17. CASE ProcessPendingDrops
    <2>1. UNCHANGED <<hostIn, client>>
      BY <1>17 DEF ProcessPendingDrops
    <2>2. conn_id \in Conns
      BY <1>1, <1>2
    <2> QED BY <1>5, <1>16, <1>17, <2>1, <2>2, DropEnds DEF client
  <1>18. ASSUME NEW e \in Conns, LoseConn(e) \/ WriteTaskEnds(e) PROVE Goal
    <2>1. UNCHANGED <<hostIn, client>>
      BY <1>18 DEF LoseConn, WriteTaskEnds
    <2> QED BY <1>16, <1>18, <2>1, NetEnds
  <1>19. CASE OtherEvent \/ UNCHANGED vars
    BY <1>5, <1>19 DEF OtherEvent, vars, net, client
  <1> HIDE DEF Goal
  <1>20. ASSUME HostNext PROVE Goal
    BY <1>6, <1>7, <1>9, <1>17, <1>19, <1>20 DEF HostNext, Sends, ConnEvent
  <1>21. ASSUME ClientNext PROVE Goal
    BY <1>10, <1>11, <1>12, <1>13, <1>14, <1>15, <1>21 DEF ClientNext
  <1> QED BY <1>18, <1>19, <1>20, <1>21 DEF Next

(* Every step keeps Continues. *)
LEMMA ContinuesStep == ASSUME IInv, Routes, Asked, In, [Next]_vars PROVE Continues'
  <1>1. Frames
    BY FramesHold
  <1>2. /\ ccon \in Conns /\ Conns \subseteq Nat /\ conn_pid \subseteq Conns
            /\ total_received \in Nat
        /\ c2h \in [Conns -> Seq(Message)] /\ h2c \in [Conns -> Seq(Message)]
        /\ dials \subseteq [conn : Conns, last : Nat] /\ \A c \in conn_pid : c <= ccon
    <2>1. /\ ccon \in Conns /\ conn_pid \subseteq Conns /\ total_received \in Nat
          /\ c2h \in [Conns -> Seq(Message)] /\ dials \subseteq [conn : Conns, last : Nat]
      BY DEF IInv, Control
    <2>2. h2c \in [Conns -> Seq(Message)]
      BY DEF IInv, Queues
    <2>3. Conns \subseteq Nat
      BY DEF Conns
    <2>4. \A c \in conn_pid : c <= ccon
      <3>1. conn_id <= ccon /\ \A c \in conn_pid : c = conn_id
        BY DEF Routes
      <3> QED BY <3>1
    <2> QED BY <2>1, <2>2, <2>3, <2>4
  <1>3. CASE \A d \in dials : ~HandleGproxyReconnect(d)
    <2>1. conn_pid' \subseteq conn_pid
      BY <1>1, <1>3 DEF Frames
    <2>2. \A c \in conn_pid' : InOrder(c2h'[c], total_received', {})
      BY <1>3, <2>1, CarryOn
    <2>3. ccon' \in conn_pid' /\ cstate' = "up" /\ ccon' \in open'
              => Whole(c2h'[ccon'], total_received', c_sent', {})
      BY <1>3, <2>1, CarryOn
    <2>4. ASSUME ccon' \in conn_pid', cstate' = "await", NEW m \in Msgs(h2c'[ccon']),
              m.t = "RECONNECT"
          PROVE  m.n = total_received'
      <3>1. ~ClientDial
        <4>1. ClientDial => ccon' = ccon + 1
          BY DEF ClientDial
        <4> QED BY <1>2, <2>1, <2>4, <4>1
      <3>2. ccon' = ccon /\ cstate = "await" /\ ccon \in conn_pid
        BY <1>1, <2>1, <2>4, <3>1 DEF Frames, ClientResume, ClientRejected
      <3>3. ASSUME NEW c \in Conns, HandlePlayerFrame(c) PROVE FALSE
        <4>1. c = ccon
          BY <3>2, <3>3 DEF HandlePlayerFrame, Mapped, Routes
        <4>2. ~No(c2h[c], "W3GS")
          BY <3>3, FrameIsNext
        <4> QED BY <3>2, <4>1, <4>2 DEF In, Unsent
      <3>4. total_received' = total_received
        BY <1>1, <3>3 DEF Frames, hostIn
      <3>5. m \in Msgs(h2c[ccon]) \/ Outgoing(ccon, m)
        BY <1>2, <2>4, <3>2, OutMoves
      <3>6. CASE m \in Msgs(h2c[ccon])
        BY <2>4, <3>2, <3>4, <3>6 DEF In, Continues
      <3>7. CASE Outgoing(ccon, m)
        BY <1>2, <1>3, <2>4, <3>7, MessageTypes DEF Outgoing, IsW3gs
      <3> QED BY <3>5, <3>6, <3>7
    <2> QED BY <2>2, <2>3, <2>4 DEF Continues
  <1>4. ASSUME NEW d \in dials, HandleGproxyReconnect(d) PROVE Continues'
    <2>1. conn_pid' = {d.conn} /\ c2h' = c2h /\ UNCHANGED <<hostIn, client>> /\ d.conn \in Conns
      BY <1>2, <1>4 DEF HandleGproxyReconnect
    <2>2. No(c2h[d.conn], "W3GS")
      BY DEF In, Unsent
    <2>3. InOrder(c2h[d.conn], total_received, {})
      BY <1>2, <2>1, <2>2, SilentOrder
    <2>4. ASSUME ccon = d.conn, NEW m \in Msgs(h2c'[ccon]), m.t = "RECONNECT"
              PROVE m.n = total_received
      <3>1. m \in Msgs(h2c[ccon]) \/ Outgoing(ccon, m)
        BY <1>2, OutMoves
      <3>2. No(h2c[ccon], "RECONNECT")
        BY <2>4 DEF Asked
      <3>3. Outgoing(ccon, m)
        BY <2>4, <3>1, <3>2 DEF No
      <3>4. m = Gps("RECONNECT", total_received)
        <4>1. /\ Closed.t = "CLOSED" /\ Gps("REJECT", 0).t = "REJECT" /\ Gps("INIT", 0).t = "INIT"
              /\ Gps("ACK", total_received).t = "ACK"
          BY <1>2, MessageTypes
        <4> QED BY <2>4, <3>3, <4>1 DEF Outgoing, IsW3gs
      <3> QED BY <1>2, <3>4, MessageTypes
    <2>5. ccon = d.conn => cstate # "up"
      BY DEF Asked
    <2> QED BY <2>1, <2>3, <2>4, <2>5 DEF Continues, client, hostIn
  <1> QED BY <1>3, <1>4

(***************************************************************************)
(* The start, and the theorems of both directions                          *)
(***************************************************************************)

(* The first connection: what handle_join sent, and at most a registration. *)
LEMMA InitQueues ==
    ASSUME Init
    PROVE  /\ h2c[1] = Numbered(0, PreSent) /\ \A c \in Conns \ {1} : h2c[c] = <<>>
           /\ \A c \in Conns : c2h[c] = <<>> \/ (c = 1 /\ c2h[c] = <<Gps("INIT", 0)>>)
           /\ 1 \in Conns /\ PreSent \in Nat
  <1>1. 1 \in Conns /\ PreSent \in Nat
    BY SessionAssumption DEF Conns
  <1> DEFINE all == [i \in 1..PreSent |-> i]
  <1>2. h2c = [c \in Conns |-> IF c = 1 THEN Data(all) ELSE <<>>]
    BY DEF Init
  <1>3. Data(all) = Numbered(0, PreSent)
    <2>1. all \in Seq(Nat) /\ Len(all) = PreSent /\ \A i \in 1..PreSent : all[i] = 0 + i
      <3>1. \A i \in 1..PreSent : i \in Nat
        OBVIOUS
      <3>2. all \in Seq(Nat) /\ Len(all) = PreSent
        BY <1>1, <3>1, IsASeq
      <3> QED BY <1>1, <3>2
    <2> HIDE DEF all
    <2> QED BY <2>1 DEF Data, Numbered
  <1> HIDE DEF all
  <1>4. PICK first \in {<<>>, <<Gps("INIT", 0)>>} : c2h = [c \in Conns |-> IF c = 1 THEN first
            ELSE <<>>]
    BY DEF Init
  <1> QED BY <1>1, <1>2, <1>3, <1>4

(* The session starts with nothing dialled or acknowledged. *)
LEMMA InitSession == Init => Asked /\ Registered /\ Reach
  <1> SUFFICES ASSUME Init PROVE Asked /\ Registered /\ Reach
    OBVIOUS
  <1>1. \A c \in Conns : c2h[c] = <<>> \/ (c = 1 /\ c2h[c] = <<Gps("INIT", 0)>>)
    BY InitQueues
  <1>2. Msgs(<<>>) = {} /\ Msgs(<<Gps("INIT", 0)>>) = {Gps("INIT", 0)}
    BY NoMsgs DEF Msgs
  <1>3. Asked
    BY DEF Init, Asked
  <1>4. Registered
    <2>1. \A c \in Conns : First(c2h[c])
      BY <1>1 DEF First
    <2>2. \A c \in Conns : No(c2h[c], "INIT") \/ c = 1
      BY <1>1, <1>2 DEF No
    <2> QED BY <2>1, <2>2 DEF Init, Registered
  <1>5. Reach
    <2>1. Gps("INIT", 0).t = "INIT"
      BY MessageTypes
    <2> QED BY <1>1, <1>2, <2>1 DEF Init, Reach
  <1> QED BY <1>3, <1>4, <1>5

(* What handle_join sent is on the first connection. *)
LEMMA InitOut == Init => InRange /\ Out
  <1> SUFFICES ASSUME Init PROVE InRange /\ Out
    OBVIOUS
  <1>1. h2c[1] = Numbered(0, PreSent) /\ PreSent \in Nat /\ \A c \in Conns \ {1} : h2c[c] = <<>>
    BY InitQueues
  <1>2. got = <<>> /\ Len(got) = 0 /\ ccon = 1 /\ total_sent = PreSent /\ forgone = {}
    BY DEF Init
  <1>3. InRange
    <2>1. \A n \in 0 + 1..0 + PreSent : W3gs(n).n = n /\ n \in 1..PreSent
      BY <1>1, MessageTypes
    <2>2. Msgs(h2c[1]) = {W3gs(n) : n \in 0 + 1..0 + PreSent}
      BY <1>1, NumberedItems
    <2>3. ASSUME NEW c \in Conns, NEW m \in Msgs(h2c[c]) PROVE m.n \in 1..PreSent
      <3>1. c = 1
        BY <1>1, <2>3, NoMsgs
      <3> QED BY <2>1, <2>2, <2>3, <3>1
    <2> QED BY <1>2, <2>3 DEF InRange
  <1>4. \A L : InOrder(h2c[1], 0, L) /\ Whole(h2c[1], 0, 0 + PreSent, L)
    BY <1>1, NumberedOrder
  <1>5. 0 + PreSent = total_sent /\ Len(got) <= total_sent
    BY <1>1, <1>2
  <1> QED BY <1>2, <1>3, <1>4, <1>5 DEF Out, InStep

(* The client has sent its join request, and the host has counted it. *)
LEMMA InitIn == Init => In
  <1> SUFFICES ASSUME Init PROVE In
    OBVIOUS
  <1>1. /\ h2c[1] = Numbered(0, PreSent) /\ \A c \in Conns \ {1} : h2c[c] = <<>>
        /\ \A c \in Conns : c2h[c] = <<>> \/ (c = 1 /\ c2h[c] = <<Gps("INIT", 0)>>)
        /\ 1 \in Conns /\ PreSent \in Nat
    BY InitQueues
  <1>2. /\ total_received = 1 /\ c_sent = 1 /\ c_trim = 0 /\ host_got = <<1>> /\ dials = {}
        /\ cstate = "up" /\ ccon = 1 /\ conn_pid = {1}
    BY DEF Init
  <1>3. host_got = [i \in 1..total_received |-> i]
    BY <1>2
  <1>4. ASSUME NEW c \in Conns, NEW m \in Msgs(h2c[c]) PROVE m.t = "W3GS"
    <2>1. Msgs(h2c[1]) = {W3gs(n) : n \in 0 + 1..0 + PreSent}
      BY <1>1, NumberedItems
    <2>2. c # 1 => Msgs(h2c[c]) = {}
      BY <1>1, NoMsgs
    <2> QED BY <1>4, <2>1, <2>2 DEF W3gs
  <1>5. ASSUME NEW c \in Conns
        PROVE  No(c2h[c], "W3GS") /\ c2h[c] \in Seq(Message)
    <2>1. Msgs(<<>>) = {} /\ Msgs(<<Gps("INIT", 0)>>) = {Gps("INIT", 0)}
      BY NoMsgs DEF Msgs
    <2>2. Gps("INIT", 0).t = "INIT" /\ Gps("INIT", 0) \in Message
      BY MessageTypes
    <2>3. CASE c2h[c] = <<>>
      BY <2>1, <2>3, EmptySeq DEF No
    <2>4. CASE c2h[c] = <<Gps("INIT", 0)>>
      <3>1. <<Gps("INIT", 0)>> \in Seq(Message)
        BY <2>2
      <3> QED BY <2>1, <2>2, <2>4, <3>1 DEF No
    <2> QED BY <1>1, <2>3, <2>4
  <1>6. \A c \in Conns : InOrder(c2h[c], 1, {}) /\ UpTo(c2h[c], 1) /\ Whole(c2h[c], 1, 1, {})
    BY <1>5, SilentOrder
  <1>7. Counted
    BY <1>2, <1>3, <1>4, <1>6 DEF Counted
  <1>8. Unsent
    BY <1>2 DEF Unsent
  <1>9. Continues
    BY <1>1, <1>2, <1>6 DEF Continues
  <1> QED BY <1>7, <1>8, <1>9 DEF In

(* trim_gproxy_buffer never drops a packet the client still needs: once the *)
(* client is in the loaded game, the buffer begins no later than with the   *)
(* packet after the last one it was handed.                                 *)
THEOREM BacklogReachesBack == Spec => []BufferReachesBack
  <1> DEFINE Inv == IInv /\ Routes /\ Registered /\ Reach
  <1>1. Init => Inv
    BY InitIInv, RoutesInit, InitSession
  <1>2. Inv /\ [Next]_vars => Inv'
    BY NextStep, RoutesStep, RegisteredStep, ReachStep
  <1>3. Inv => BufferReachesBack
    <2> SUFFICES ASSUME Inv, gproxy, game_loaded, Len(got) > loaded_at
                 PROVE  total_sent - Len(gproxy_buffer) <= Len(got)
      BY DEF BufferReachesBack
    <2>1. /\ Len(got) \in Nat /\ loaded_at \in Nat /\ total_sent \in Nat
              /\ Len(gproxy_buffer) \in Nat
          /\ Len(gproxy_buffer) <= total_sent
      BY LenProperties DEF IInv, Control, BufferInv, Suffix
    <2> QED BY <2>1 DEF Reach, Dropped
  <1> HIDE DEF Inv
  <1> QED BY <1>1, <1>2, <1>3, PTL DEF Spec

(* From the client to the game: the actor counts packets 1, 2, 3, ... of    *)
(* what the client sent, over however many connections and reconnects;      *)
(* handle_player_frame never counts one twice and never skips one.          *)
THEOREM ClientStreamReliable == Spec => ClientToHostReliable
  <1> DEFINE Inv == IInv /\ Routes /\ Asked /\ In
  <1>1. Init => Inv
    BY InitIInv, RoutesInit, InitSession, InitIn
  <1>2. Inv /\ [Next]_vars => Inv'
    BY NextStep, RoutesStep, AskedStep, CountedStep, UnsentStep, ContinuesStep DEF In
  <1>3. Init => ClientToHost!Init
    <2>1. <<1>>[1] = 1 /\ Len(<<1>>) = 1
      OBVIOUS
    <2> QED BY <2>1 DEF Init, ClientToHost!Init, ClientToHost!Whole
  <1>4. Inv /\ [Next]_vars => [ClientToHost!Next]_(ClientToHost!vars)
    <2> SUFFICES ASSUME Inv, [Next]_vars PROVE [ClientToHost!Next]_(ClientToHost!vars)
      OBVIOUS
    <2>1. /\ UNCHANGED hostIn \/ \E c \in Conns : HandlePlayerFrame(c)
          /\ total_received \in Nat /\ c_sent \in Nat /\ c_sent' \in Nat /\ c_sent <= c_sent'
          /\ c_sent' = c_sent \/ (ClientSend /\ c_sent' = c_sent + 1)
      BY HeardGrows
    <2>2. ASSUME NEW c \in Conns, HandlePlayerFrame(c) PROVE ClientToHost!Read
      <3>1. host_got' = Append(host_got, total_received + 1) /\ total_received + 1 <= c_sent
        BY <2>2, FrameIsNext
      <3>2. Len(host_got) = total_received
        BY <2>1 DEF In, Counted
      <3>3. c_sent' = c_sent
        BY <2>2 DEF HandlePlayerFrame, client
      <3> DEFINE n == total_received + 1
      <3>4. n \in 1..c_sent /\ n > Len(host_got) /\ Len(host_got) + 1 .. n - 1 = {}
        BY <2>1, <3>1, <3>2
      <3> HIDE DEF n
      <3>5. \E m \in 1..c_sent :
               /\ ClientToHost!Whole => m > Len(host_got) /\ Len(host_got) + 1 .. m - 1 \subseteq {}
               /\ host_got' = Append(host_got, m)
        BY <3>1, <3>4 DEF n
      <3> QED BY <3>3, <3>5 DEF ClientToHost!Read
    <2>3. CASE UNCHANGED hostIn
      BY <2>1, <2>3 DEF hostIn, ClientToHost!Write, ClientToHost!Next, ClientToHost!vars
    <2> QED BY <2>1, <2>2, <2>3 DEF ClientToHost!Next
  <1> HIDE DEF Inv
  <1> QED BY <1>1, <1>2, <1>3, <1>4, PTL DEF Spec, ClientToHost!Spec, ClientToHostReliable

(* From the game to the client: of the packets the actor numbers for it,    *)
(* the client is handed the next one, again and again, over however many    *)
(* connections, holds and replays, whatever the sizes of the packets and    *)
(* whenever the client dials.  A packet is skipped only if a full queue     *)
(* refused it and took a later one, or if it was sent before the game was   *)
(* loaded and the client, reconnecting, asks for it again.                  *)
THEOREM HostStreamReliable == Spec => HostToClientReliable
  <1> DEFINE Inv == IInv /\ Losses /\ Routes /\ InRange /\ Asked /\ Registered /\ Reach /\ Out
  <1>1. Init => Inv
    BY InitIInv, RoutesInit, InitSession, InitOut DEF Init, Losses
  <1>2. Inv /\ [Next]_vars => Inv'
    BY NextStep, LossesStep, RoutesStep, InRangeStep, AskedStep, RegisteredStep, ReachStep, OutStep
  <1>3. Init => HostToClient!Init
    <2>1. Init => got = <<>> /\ Len(got) = 0 /\ total_sent = PreSent /\ seated = TRUE
              /\ PreSent \in Nat /\ forgone = {}
      BY SessionAssumption DEF Init
    <2> QED BY <2>1 DEF HostToClient!Init, HostToClient!Whole
  <1>4. Inv /\ [Next]_vars => [HostToClient!Next]_(HostToClient!vars)
    <2> SUFFICES ASSUME Inv, [Next]_vars PROVE [HostToClient!Next]_(HostToClient!vars)
      OBVIOUS
    <2>1. /\ total_sent \in Nat /\ total_sent' \in Nat /\ total_sent' >= total_sent
          /\ UNCHANGED <<total_sent, seated>> \/ (seated /\ seated' \in BOOLEAN)
      BY Writes
    <2>2. /\ forgone \subseteq forgone' /\ forgone' \subseteq Nat
          /\ forgone' = forgone \/ seated
      BY LossesStep DEF Losses
    <2>3. seated' \in BOOLEAN
      BY NextStep DEF IInv, Control
    <2>4. CASE got' = got
      <3>1. CASE seated
        BY <2>1, <2>2, <2>3, <2>4, <3>1 DEF HostToClient!Write, HostToClient!Next
      <3>2. CASE ~seated
        BY <2>1, <2>2, <2>4, <3>2 DEF HostToClient!vars
      <3> QED BY <3>1, <3>2
    <2>5. CASE ClientReceive
      <3>1. UNCHANGED <<total_sent, forgone, seated>>
        BY <2>5 DEF ClientReceive, player, hostOut
      <3> DEFINE n == Head(h2c[ccon]).n
      <3>2. /\ n \in 1..total_sent /\ got' = Append(got, n)
            /\ Faithful => n > Len(got) /\ Len(got) + 1 .. n - 1 \subseteq forgone
        BY <2>5, ReadsNext
      <3>3. HostToClient!Whole <=> Faithful
        BY DEF HostToClient!Whole, Faithful
      <3> HIDE DEF n
      <3>4. HostToClient!Read
        BY <3>1, <3>2, <3>3 DEF HostToClient!Read
      <3> QED BY <3>4 DEF HostToClient!Next
    <2>6. got' = got \/ ClientReceive
      BY FramesHold DEF Frames
    <2> QED BY <2>4, <2>5, <2>6
  <1> HIDE DEF Inv
  <1> QED BY <1>1, <1>2, <1>3, <1>4, PTL DEF Spec, HostToClient!Spec, HostToClientReliable
=============================================================================
