--------------------------- MODULE DeliveryProofs ---------------------------
(***************************************************************************)
(* Theorems about packets that come whole and in order.                    *)
(*                                                                         *)
(* PacketStream: the loop that cuts the byte stream stays aligned with the *)
(* packets and implements the queue of PacketQueue, for every packet size, *)
(* buffer size and number of packets.                                      *)
(*                                                                         *)
(* Movement builds on such queues: when all packets were delivered, the    *)
(* client that steers a hero, the server and the other client agree on     *)
(* where it runs, where it stands and what it does, for every set of       *)
(* arrows, all places and any number of presses, attacks and hits.         *)
(***************************************************************************)
EXTENDS PacketStream, Movement, FiniteSetTheorems, WellFoundedInduction, TLAPS

-----------------------------------------------------------------------------
(* PacketStream: the queue of packets                                       *)

TypeInv ==
    /\ starts \in Seq(Nat) /\ Len(starts) > 0
    /\ curr \in Nat /\ prev \in Nat /\ pos \in Nat /\ io \in Nat
    /\ handled \in Seq(SUBSET Nat)

\* Packets follow one another and none is longer than MaxPacket.
Increasing ==
    /\ \A i, j \in 1 .. Len(starts) : i < j => starts[i] < starts[j]
    /\ \A i \in 1 .. Sent : starts[i + 1] - starts[i] <= MaxPacket

\* What has been handled are the packets sent first.
Matching == \A k \in 1 .. Len(handled) : handled[k] = Packet(k)

Inv == TypeInv /\ Increasing /\ Aligned /\ Matching

USE StreamAssumption

LEMMA InitInv == Init => Inv
BY DEF Init, Inv, TypeInv, Increasing, Aligned, Matching, Sent, End, Bytes

\* The next length byte is where the loop takes it from.
LEMMA LengthFound ==
    ASSUME Inv, io > 0, NEW size \in IF curr = 0 THEN LengthsAt(pos) ELSE {curr},
           NEW n, n = Len(handled) + 1
    PROVE  /\ n \in 1 .. Sent
           /\ size = starts[n + 1] - starts[n]
           /\ size \in 1 .. MaxPacket
           /\ prev < size
<1>1. /\ n \in 1 .. Len(starts) /\ \A k \in 1 .. Len(starts) : starts[k] \in Nat
      /\ pos + io <= starts[Len(starts)] /\ pos = starts[n] + prev
      /\ IF prev = 0 THEN curr = 0
         ELSE n <= Len(starts) - 1 /\ curr = starts[n + 1] - starts[n]
      /\ prev > 0 => prev < curr
  BY DEF Inv, TypeInv, Aligned, Sent, End
<1>2. /\ Len(starts) \in Nat /\ Len(starts) > 0 /\ Sent = Len(starts) - 1
      /\ prev \in Nat /\ io \in Nat
  BY DEF Inv, TypeInv, Sent
<1>3. /\ \A i, j \in 1 .. Len(starts) : i < j => starts[i] < starts[j]
      /\ \A i \in 1 .. Sent : starts[i + 1] - starts[i] <= MaxPacket
  BY DEF Inv, Increasing
<1>4. n \in 1 .. Sent
  <2>1. CASE n = Len(starts)
    BY <1>1, <1>2, <2>1
  <2> QED
    BY <1>1, <1>2, <2>1
<1>5. starts[n + 1] - starts[n] \in 1 .. MaxPacket
  <2>1. n + 1 \in 1 .. Len(starts) /\ n < n + 1
    BY <1>2, <1>4
  <2>2. starts[n] < starts[n + 1]
    BY <2>1, <1>1, <1>3
  <2>3. starts[n + 1] - starts[n] <= MaxPacket
    BY <1>4, <1>3
  <2> QED
    BY <1>1, <2>1, <2>2, <2>3
<1>6. CASE curr = 0
  <2>1. prev = 0 /\ pos = starts[n]
    BY <1>6, <1>1, <1>5
  <2>2. ASSUME NEW k \in 1 .. Sent, starts[k] = pos PROVE k = n
    <3>1. k \in 1 .. Len(starts) /\ n \in 1 .. Len(starts)
      BY <1>1, <1>2
    <3>2. k < n => starts[k] < starts[n]
      BY <3>1, <1>3
    <3>3. n < k => starts[n] < starts[k]
      BY <3>1, <1>3
    <3>4. starts[k] = starts[n] /\ starts[n] \in Nat
      BY <3>1, <2>1, <2>2, <1>1
    <3>5. ~(k < n) /\ ~(n < k)
      BY <3>2, <3>3, <3>4
    <3> QED
      BY <3>1, <3>5
  <2>3. {k \in 1 .. Sent : starts[k] = pos} = {n}
    BY <2>1, <2>2, <1>4
  <2>4. LengthsAt(pos) = {starts[n + 1] - starts[n]}
    BY <2>3 DEF LengthsAt
  <2> QED
    BY <2>1, <2>4, <1>6, <1>4, <1>5
<1>7. CASE curr # 0
  BY <1>7, <1>1, <1>2, <1>4, <1>5
<1> QED
  BY <1>6, <1>7

\* What a send changes: nothing but one more start at the end.
LEMMA SendStep ==
    ASSUME Inv, NEW size \in 1 .. MaxPacket, Send(size)
    PROVE  Inv' /\ Queue!Send
<1>1. /\ starts \in Seq(Nat) /\ Len(starts) \in Nat \ {0} /\ End \in Nat
      /\ End = starts[Len(starts)] /\ size \in Nat /\ size > 0 /\ size <= MaxPacket
  BY DEF Inv, TypeInv, End
<1>2. /\ starts' \in Seq(Nat) /\ Len(starts') = Len(starts) + 1
      /\ \A i \in 1 .. Len(starts) : starts'[i] = starts[i] /\ starts[i] \in Nat
      /\ starts'[Len(starts) + 1] = End + size
      /\ UNCHANGED <<curr, prev, kept, pos, io, handled>>
  BY <1>1 DEF Send
<1>3. Sent = Len(starts) - 1 /\ Sent' = Len(starts) /\ End' = End + size
  BY <1>1, <1>2 DEF Sent, End
<1>4. TypeInv'
  BY <1>1, <1>2 DEF Inv, TypeInv
<1>5. Increasing'
  <2>1. \A i, j \in 1 .. Len(starts) : i < j => starts[i] < starts[j]
    BY DEF Inv, Increasing
  <2>2. \A i \in 1 .. Len(starts) - 1 : starts[i + 1] - starts[i] <= MaxPacket
    BY <1>3 DEF Inv, Increasing
  <2>3. ASSUME NEW i \in 1 .. Len(starts'), NEW j \in 1 .. Len(starts'), i < j
        PROVE  starts'[i] < starts'[j]
    <3>0. i \in 1 .. Len(starts) /\ Len(starts) \in 1 .. Len(starts)
      <4>1. Len(starts') = Len(starts) + 1 /\ Len(starts) \in Nat \ {0}
        BY <1>1, <1>2
      <4> QED
        BY <4>1, <2>3
    <3>1. CASE j \in 1 .. Len(starts)
      BY <3>0, <3>1, <2>1, <2>3, <1>2
    <3>2. CASE j = Len(starts) + 1
      <4>1. starts[i] <= End
        <5>1. i < Len(starts) => starts[i] < starts[Len(starts)]
          BY <3>0, <2>1
        <5>2. starts[i] \in Nat /\ End \in Nat /\ End = starts[Len(starts)]
          BY <3>0, <1>1, <1>2
        <5>3. i = Len(starts) \/ i < Len(starts)
          BY <3>0, <1>1
        <5>4. CASE i = Len(starts)
          BY <5>4, <5>2
        <5>5. CASE i < Len(starts)
          BY <5>1, <5>2, <5>5
        <5> QED
          BY <5>3, <5>4, <5>5
      <4>2. starts'[i] = starts[i] /\ starts[i] \in Nat
        BY <3>0, <1>2
      <4>3. starts'[j] = End + size
        BY <3>2, <1>2
      <4> QED
        BY <4>1, <4>2, <4>3, <1>1
    <3> QED
      BY <3>1, <3>2, <1>1, <1>2
  <2>4. ASSUME NEW i \in 1 .. Sent'
        PROVE  starts'[i + 1] - starts'[i] <= MaxPacket
    <3>1. CASE i = Len(starts)
      BY <3>1, <1>1, <1>2
    <3>2. CASE i # Len(starts)
      <4>1. i \in 1 .. Len(starts) - 1 /\ i \in 1 .. Len(starts) /\ i + 1 \in 1 .. Len(starts)
        BY <3>2, <1>1, <1>3
      <4> QED
        BY <4>1, <2>2, <1>2
    <3> QED
      BY <3>1, <3>2
  <2> QED
    BY <2>3, <2>4 DEF Increasing
<1>6. Aligned'
  <2> DEFINE n == Len(handled) + 1
  <2>1. /\ n \in 1 .. Len(starts) /\ pos + io <= End /\ pos = starts[n] + prev
        /\ kept = Bytes(starts[n], pos)
        /\ IF prev = 0 THEN curr = 0 ELSE n <= Sent /\ curr = starts[n + 1] - starts[n]
        /\ prev \in 0 .. MaxPacket - 1 /\ (prev > 0 => prev < curr)
    BY DEF Inv, Aligned, TypeInv
  <2>2. n' = n /\ starts'[n] = starts[n] /\ n <= Len(starts')
    BY <2>1, <1>1, <1>2
  <2>3. pos \in Nat /\ io \in Nat /\ n \in Nat
    BY <2>1 DEF Inv, TypeInv
  <2>4. pos + io <= End'
    <3>1. pos + io <= End /\ End \in Nat /\ size \in Nat
      BY <2>1, <1>1
    <3>2. End' = End + size
      BY <1>3
    <3> HIDE DEF n
    <3> QED
      BY <3>1, <3>2, <2>3
  <2>5. ASSUME prev # 0 PROVE starts'[n + 1] = starts[n + 1] /\ n <= Sent'
    <3>1. n \in Nat /\ n <= Sent /\ Sent = Len(starts) - 1 /\ Sent' = Len(starts)
      BY <2>5, <2>1, <2>3, <1>3
    <3>2. Len(starts) \in Nat
      BY <1>1
    <3> HIDE DEF n
    <3>3. n + 1 \in 1 .. Len(starts) /\ n <= Sent'
      BY <3>1, <3>2
    <3> QED
      BY <3>3, <1>2
  <2> QED
    BY <2>1, <2>2, <2>4, <2>5, <1>2 DEF Aligned, Bytes
<1>7. Matching' /\ Queue!Send
  <2>1. ASSUME NEW k \in 1 .. Sent PROVE Packet(k)' = Packet(k)
    <3>1. k \in 1 .. Len(starts) /\ k + 1 \in 1 .. Len(starts)
      BY <1>1, <1>3
    <3>2. starts'[k] = starts[k] /\ starts'[k + 1] = starts[k + 1]
      BY <3>1, <1>2
    <3> QED
      BY <3>2 DEF Packet, Bytes
  <2>2. Len(handled) \in Nat /\ Len(handled) <= Sent
    BY <1>1, <1>3 DEF Inv, TypeInv, Aligned
  <2>3. Matching'
    <3> SUFFICES ASSUME NEW k \in 1 .. Len(handled) PROVE handled[k] = Packet(k)'
      BY <1>2 DEF Matching
    <3>1. handled[k] = Packet(k)
      BY DEF Inv, Matching
    <3>2. k \in 1 .. Sent
      BY <2>2, <1>1, <1>3
    <3> QED
      BY <3>1, <3>2, <2>1
  <2>4. Len(Packets) = Sent /\ Len(Packets)' = Sent + 1 /\ DOMAIN Packets = 1 .. Sent
    BY <1>1, <1>3 DEF Packets
  <2>5. \A i \in DOMAIN Packets : Packets'[i] = Packets[i]
    BY <2>1, <2>4, <1>1, <1>3 DEF Packets
  <2> QED
    BY <2>3, <2>4, <2>5, <1>2 DEF Queue!Send
<1> QED
  BY <1>4, <1>5, <1>6, <1>7 DEF Inv

\* The network and the end of a connection disturb nothing.
LEMMA ReceiveStep ==
    ASSUME Inv, NEW size \in 1 .. BufSize, Receive(size)
    PROVE  Inv' /\ UNCHANGED Queue!vars
<1>1. /\ io = 0 /\ io' = size /\ pos + size <= End /\ size \in Nat
      /\ UNCHANGED <<starts, curr, prev, kept, pos, handled>>
  BY DEF Receive
<1>2. TypeInv' /\ Increasing' /\ Matching'
  BY <1>1 DEF Inv, TypeInv, Increasing, Matching, Sent, Packet, Bytes
<1>3. Aligned'
  BY <1>1 DEF Inv, Aligned, Sent, End, Bytes
<1>4. UNCHANGED Queue!vars
  BY <1>1 DEF Queue!vars, Packets, Packet, Sent, Bytes
<1> QED
  BY <1>2, <1>3, <1>4 DEF Inv

LEMMA ReconnectStep ==
    ASSUME Reconnect
    PROVE  Inv' /\ Queue!Reconnect
<1>1. /\ starts' = <<0>> /\ curr' = 0 /\ prev' = 0 /\ kept' = {}
      /\ pos' = 0 /\ io' = 0 /\ handled' = <<>>
  BY DEF Reconnect, ResetSize
<1>2. Inv'
  BY <1>1 DEF Inv, TypeInv, Increasing, Aligned, Matching, Sent, End, Bytes
<1>3. Sent' = 0
  BY <1>1 DEF Sent
<1>4. Packets' = <<>>
  BY <1>3 DEF Packets
<1> QED
  BY <1>1, <1>2, <1>4 DEF Queue!Reconnect

\* A piece of the stream and the piece after it
LEMMA BytesJoin ==
    ASSUME NEW from \in Nat, NEW some \in Nat, NEW more \in Nat
    PROVE  Bytes(from, from + some) \cup Bytes(from + some, from + some + more)
             = Bytes(from, from + some + more)
BY DEF Bytes

\* What is kept when a receive ends inside a packet.
LEMMA KeepStep ==
    ASSUME Inv, io > 0,
           NEW size \in IF curr = 0 THEN LengthsAt(pos) ELSE {curr}, Keep(size)
    PROVE  Inv' /\ UNCHANGED Queue!vars
<1> DEFINE n == Len(handled) + 1
<1>1. /\ n \in 1 .. Sent /\ size = starts[n + 1] - starts[n]
      /\ size \in 1 .. MaxPacket /\ prev < size
  BY LengthFound
<1>2. /\ io + prev < size /\ curr' = size /\ kept' = kept \cup Bytes(pos, pos + io)
      /\ prev' = prev + io /\ pos' = pos + io /\ io' = 0
      /\ UNCHANGED <<starts, handled>>
  <2>1. ~(io + prev >= size)
    BY DEF Keep, Whole
  <2>2. io + prev \in Nat /\ size \in Nat
    BY <1>1 DEF Inv, TypeInv
  <2> QED
    BY <2>1, <2>2 DEF Keep
<1>3. /\ prev \in Nat /\ io \in Nat /\ pos \in Nat /\ size \in Nat
      /\ kept = Bytes(starts[n], pos) /\ pos = starts[n] + prev
      /\ pos + io <= End /\ n <= Len(starts) /\ starts[n] \in Nat
  <2>1. prev \in Nat /\ io \in Nat /\ pos \in Nat /\ size \in Nat
    BY <1>1 DEF Inv, TypeInv
  <2>2. kept = Bytes(starts[n], pos) /\ pos = starts[n] + prev /\ pos + io <= End
    BY DEF Inv, Aligned
  <2>3. n \in 1 .. Len(starts)
    <3>1. n \in 1 .. Sent /\ Sent = Len(starts) - 1 /\ Len(starts) \in Nat
      BY <1>1 DEF Inv, TypeInv, Sent
    <3> HIDE DEF n
    <3> QED
      BY <3>1
  <2>4. starts[n] \in Nat
    BY <2>3 DEF Inv, TypeInv
  <2> QED
    BY <2>1, <2>2, <2>3, <2>4
<1>4. Increasing' /\ Matching' /\ UNCHANGED Queue!vars
  BY <1>2 DEF Inv, Increasing, Matching, Sent, Packet, Packets, Bytes, Queue!vars
<1>5. TypeInv'
  <2>1. curr' \in Nat /\ prev' \in Nat /\ pos' \in Nat /\ io' \in Nat
    <3>1. prev \in Nat /\ io \in Nat /\ pos \in Nat /\ size \in Nat
      BY <1>3
    <3> HIDE DEF n
    <3> QED
      BY <3>1, <1>2
  <2>2. /\ starts' \in Seq(Nat) /\ Len(starts') > 0
        /\ handled' \in Seq(SUBSET Nat)
    BY <1>2 DEF Inv, TypeInv
  <2> QED
    BY <2>1, <2>2 DEF TypeInv
<1>6. kept' = Bytes(starts[n], pos + io)
  <2>1. Bytes(starts[n], starts[n] + prev) \cup Bytes(starts[n] + prev, starts[n] + prev + io)
          = Bytes(starts[n], starts[n] + prev + io)
    <3>1. starts[n] \in Nat /\ prev \in Nat /\ io \in Nat
      BY <1>3
    <3> HIDE DEF n
    <3> QED
      BY <3>1, BytesJoin
  <2> QED
    BY <2>1, <1>2, <1>3
<1>7. n' = n /\ starts' = starts /\ Sent' = Sent /\ End' = End
  BY <1>2 DEF Sent, End
<1>8. /\ pos' + io' <= End' /\ pos' = starts'[n'] + prev' /\ prev' # 0
      /\ prev' \in 0 .. MaxPacket - 1 /\ prev' < curr'
  <2>1. MaxPacket \in Nat /\ size <= MaxPacket
    BY <1>1
  <2>2. io > 0
    OBVIOUS
  <2> HIDE DEF n
  <2>3. pos' = starts[n] + prev'
    BY <1>2, <1>3
  <2>4. End \in Int => pos' + io' <= End
    BY <1>2, <1>3
  <2>5. End \in Int
    BY DEF Inv, TypeInv, End
  <2>6. prev' \in 0 .. MaxPacket - 1 /\ prev' # 0 /\ prev' < curr'
    BY <2>1, <2>2, <1>2, <1>3
  <2> QED
    BY <2>3, <2>4, <2>5, <2>6, <1>7
<1>9. Aligned'
  <2>1. kept' = Bytes(starts'[n'], pos')
    BY <1>2, <1>6, <1>7 DEF Bytes
  <2>2. n' <= Sent' /\ curr' = starts'[n' + 1] - starts'[n']
    BY <1>1, <1>2, <1>7
  <2> QED
    BY <1>3, <1>7, <1>8, <2>1, <2>2 DEF Aligned
<1> QED
  BY <1>4, <1>5, <1>9 DEF Inv

\* A packet handled is the next one sent, and the loop stands behind it.
LEMMA CompleteStep ==
    ASSUME Inv, io > 0,
           NEW size \in IF curr = 0 THEN LengthsAt(pos) ELSE {curr}, Complete(size)
    PROVE  Inv' /\ Queue!Handle
<1> DEFINE n == Len(handled) + 1
<1>1. /\ n \in 1 .. Sent /\ size = starts[n + 1] - starts[n]
      /\ size \in 1 .. MaxPacket /\ prev < size
  BY LengthFound
<1>2. /\ io + prev >= size /\ io' = io - (size - prev) /\ pos' = pos + (size - prev)
      /\ handled' = Append(handled, kept \cup Bytes(pos, pos + (size - prev)))
      /\ curr' = 0 /\ prev' = 0 /\ kept' = {} /\ starts' = starts
  BY DEF Complete, Whole, Missing
<1>3. /\ prev \in Nat /\ io \in Nat /\ pos \in Nat /\ size \in Nat
      /\ starts \in Seq(Nat) /\ Len(starts) \in Nat \ {0} /\ Len(handled) \in Nat
      /\ handled \in Seq(SUBSET Nat) /\ Sent = Len(starts) - 1
  BY <1>1 DEF Inv, TypeInv, Sent
<1>4. /\ kept = Bytes(starts[n], pos) /\ pos = starts[n] + prev /\ pos + io <= End
  BY DEF Inv, Aligned
<1>5. /\ n \in 1 .. Len(starts) /\ n + 1 \in 1 .. Len(starts)
      /\ starts[n] \in Nat /\ starts[n + 1] \in Nat /\ End \in Nat
  <2>1. n \in 1 .. Sent /\ Sent = Len(starts) - 1 /\ Len(starts) \in Nat
    BY <1>1, <1>3
  <2>2. \A k \in 1 .. Len(starts) : starts[k] \in Nat
    BY <1>3
  <2> HIDE DEF n
  <2>3. n \in 1 .. Len(starts) /\ n + 1 \in 1 .. Len(starts)
    BY <2>1
  <2>4. End \in Nat
    BY <1>3 DEF End
  <2> QED
    BY <2>2, <2>3, <2>4
<1>6. /\ pos' = starts[n + 1] /\ io' \in Nat /\ pos' + io' <= End
      /\ kept \cup Bytes(pos, pos + (size - prev)) = Packet(n)
  <2>1. /\ starts[n] \in Nat /\ starts[n + 1] \in Nat /\ End \in Nat /\ prev \in Nat
        /\ io \in Nat /\ pos \in Nat /\ size \in Nat /\ prev < size
    BY <1>1, <1>3, <1>5
  <2>2. /\ size = starts[n + 1] - starts[n] /\ pos = starts[n] + prev
        /\ pos + io <= End /\ io + prev >= size
        /\ io' = io - (size - prev) /\ pos' = pos + (size - prev)
    BY <1>1, <1>2, <1>4
  <2> HIDE DEF n
  <2> DEFINE from == starts[n]
             to == starts[n + 1]
  <2>3. from \in Nat /\ to \in Nat /\ size = to - from /\ pos = from + prev
    BY <2>1, <2>2
  <2> HIDE DEF from, to
  <2>4. pos' = to /\ io' \in Nat /\ pos' + io' <= End /\ size - prev \in Nat
    BY <2>1, <2>2, <2>3
  <2>5. Bytes(from, from + prev) \cup Bytes(from + prev, from + prev + (size - prev))
          = Bytes(from, from + prev + (size - prev))
    BY <2>1, <2>3, <2>4, BytesJoin
  <2>6. from + prev + (size - prev) = to
    BY <2>2, <2>3, <2>4
  <2>7. Bytes(from, pos) \cup Bytes(pos, pos + (size - prev)) = Bytes(from, to)
    BY <2>3, <2>5, <2>6
  <2> QED
    BY <2>4, <2>7, <1>4 DEF from, to, Packet
<1>7. Packet(n) \in SUBSET Nat
  BY <1>5 DEF Packet, Bytes
<1>8. /\ handled' = Append(handled, Packet(n)) /\ Len(handled') = n
      /\ handled' \in Seq(SUBSET Nat) /\ handled'[n] = Packet(n)
      /\ \A k \in 1 .. Len(handled) : handled'[k] = handled[k]
  <2>1. handled' = Append(handled, Packet(n))
    BY <1>2, <1>6
  <2> QED
    BY <2>1, <1>3, <1>7
<1>9. Sent' = Sent /\ End' = End /\ \A k : Packet(k)' = Packet(k)
  BY <1>2 DEF Sent, End, Packet, Bytes
<1>10. TypeInv' /\ Increasing'
  BY <1>2, <1>5, <1>6, <1>8, <1>9 DEF Inv, TypeInv, Increasing
<1>11. Matching'
  <2> SUFFICES ASSUME NEW k \in 1 .. n PROVE handled'[k] = Packet(k)
    BY <1>8, <1>9 DEF Matching
  <2>1. CASE k = n
    BY <2>1, <1>8
  <2>2. CASE k # n
    <3>1. Len(handled) \in Nat /\ k \in 1 .. Len(handled)
      BY <2>2, <1>3
    <3> QED
      BY <3>1, <1>8 DEF Inv, Matching
  <2> QED
    BY <2>1, <2>2
<1>12. Aligned'
  <2>1. Len(handled') + 1 = n + 1 /\ n + 1 <= Len(starts)
    BY <1>5, <1>8
  <2>2. Bytes(starts[n + 1], pos') = {} /\ pos' = starts[n + 1] + 0
    BY <1>5, <1>6 DEF Bytes
  <2>3. 0 \in 0 .. MaxPacket - 1
    BY DEF StreamAssumption
  <2>4. pos' + io' <= End'
    BY <1>6, <1>9
  <2>5. kept' = Bytes(starts'[n + 1], pos')
    BY <2>2, <1>2
  <2> QED
    BY <2>1, <2>2, <2>3, <2>4, <2>5, <1>2 DEF Aligned, Bytes
<1>13. Queue!Handle
  <2>1. Len(Packets) = Sent /\ Packets' = Packets
    BY <1>3, <1>9 DEF Packets
  <2>2. Len(handled) < Len(Packets)
    BY <2>1, <1>1, <1>3
  <2>3. Packets[n] = Packet(n)
    <3> HIDE DEF n
    <3> QED
      BY <1>1 DEF Packets
  <2> QED
    BY <2>1, <2>2, <2>3, <1>8 DEF Queue!Handle
<1> QED
  BY <1>10, <1>11, <1>12, <1>13 DEF Inv

\* Every step keeps the invariant, and is a step of the queue or none.
LEMMA Step == Inv /\ [Next]_vars => Inv' /\ [Queue!Next]_Queue!vars
<1> SUFFICES ASSUME Inv, [Next]_vars PROVE Inv' /\ [Queue!Next]_Queue!vars
  OBVIOUS
<1>1. ASSUME NEW n \in 1 .. MaxPacket, Send(n) PROVE Inv' /\ Queue!Send
  BY <1>1, SendStep
<1>2. ASSUME NEW n \in 1 .. BufSize, Receive(n) PROVE Inv' /\ UNCHANGED Queue!vars
  BY <1>2, ReceiveStep
<1>3. ASSUME Turn PROVE Inv' /\ (Queue!Handle \/ UNCHANGED Queue!vars)
  <2>1. PICK size \in IF curr = 0 THEN LengthsAt(pos) ELSE {curr} :
          Complete(size) \/ Keep(size)
    BY <1>3 DEF Turn
  <2>2. io > 0
    BY <1>3 DEF Turn
  <2>3. CASE Complete(size)
    BY <2>1, <2>2, <2>3, CompleteStep
  <2>4. CASE Keep(size)
    BY <2>1, <2>2, <2>4, KeepStep
  <2> QED
    BY <2>1, <2>3, <2>4
<1>4. ASSUME Reconnect PROVE Inv' /\ Queue!Reconnect
  BY <1>4, ReconnectStep
<1>5. ASSUME UNCHANGED vars PROVE Inv' /\ UNCHANGED Queue!vars
  BY <1>5 DEF vars, Inv, TypeInv, Increasing, Aligned, Matching, Sent, End, Packet,
              Packets, Bytes, Queue!vars
<1> QED
  BY <1>1, <1>2, <1>3, <1>4, <1>5 DEF Next, Queue!Next

LEMMA InvHolds == Spec => []Inv
BY InitInv, Step, PTL DEF Spec

\* However the bytes are cut up, the loop never loses the packet boundary and
\* packet_buf never has to hold MAX_PACKET_SIZE bytes of an unfinished packet.
THEOREM StaysAligned == Spec => []Aligned
<1>1. Inv => Aligned
  BY DEF Inv
<1> QED
  BY InvHolds, <1>1, PTL

\* The loop implements the queue of packets on which Session and Match build.
THEOREM StreamIsQueue == Spec => InOrder
<1>1. Init => Queue!Init
  BY DEF Init, Queue!Init, Packets, Sent
<1>2. Inv /\ [Next]_vars => [Queue!Next]_Queue!vars
  BY Step
<1> QED
  BY <1>1, <1>2, InvHolds, PTL DEF Spec, InOrder, Queue!Spec

HIDE StreamAssumption

-----------------------------------------------------------------------------
(* Movement: types                                                         *)

Animations == {"IDLE", "RUN", "SWING", "HIT", "DIE"}
KeyPackets == [t : {"DOWN", "UP"}, k : Keys, x : Places, room : BOOLEAN]
TestPackets == [t : {"COLL"}, k : Arrows, room : BOOLEAN]
ActPackets == [t : {"SWING", "STRIKE", "DONE"}, room : BOOLEAN]
ToServer == KeyPackets \cup TestPackets \cup ActPackets

PosPackets == [t : {"POS"}, d : SUBSET Keys, x : Places]
CollPackets == [t : {"COLL"}, k : Arrows]
HitPackets == [t : {"HIT"}, d : SUBSET Keys, alive : BOOLEAN]
SpawnPackets == [t : {"RESPAWN"}, x : Places]
PlainPackets == [t : {"SWING", "DONE", "DIE"}]
ToClient == PosPackets \cup CollPackets \cup HitPackets \cup SpawnPackets \cup PlainPackets

MoveTypeOK ==
    /\ down \subseteq Keys /\ dir \subseteq Keys /\ sdir \subseteq Keys /\ odir \subseteq Keys
    /\ hero \in Places /\ me \in Places /\ spos \in Places /\ ohero \in Places
    /\ locked \in BOOLEAN /\ loaded \in BOOLEAN /\ buf \in BOOLEAN
    /\ dead \in BOOLEAN /\ crossed \in BOOLEAN
    /\ anim \in Animations /\ oanim \in Animations
    /\ c2s \in Seq(ToServer) /\ s2c \in Seq(ToClient)

-----------------------------------------------------------------------------
(* Movement: the arrows                                                    *)

\* The packets about arrow k on their way to the server take turns, and lead
\* from what the server has, from, to what the client has, to.
IsKey(p, k) == p.t \in {"DOWN", "UP"} /\ p.k = k
About(q, k) == {i \in DOMAIN q : IsKey(q[i], k)}
TakeTurns(q, k, from, to) ==
    /\ About(q, k) = {} => (k \in from <=> k \in to)
    /\ \A i \in About(q, k) :
         /\ (\A j \in About(q, k) : i <= j) => (q[i].t = "DOWN" <=> k \notin from)
         /\ (\A j \in About(q, k) : j <= i) => (q[i].t = "DOWN" <=> k \in to)
         /\ \A j \in About(q, k) :
              (i < j /\ \A l \in About(q, k) : l <= i \/ j <= l) => q[i].t # q[j].t
KeysInv == ~crossed => \A k \in Keys : TakeTurns(c2s, k, sdir, down)

\* The last packet of a queue that is one of A, if there is one, is one of B.
NoneOf(q, A) == \A i \in DOMAIN q : q[i] \notin A
LastIn(q, A, B) ==
    \A i \in DOMAIN q :
        (q[i] \in A /\ \A j \in DOMAIN q : q[j] \in A => j <= i) => q[i] \in B

\* The last packet with a direction on its way to a client has the server's.
Downs == {p \in ToServer : p.t = "DOWN"}
Turning == PosPackets \cup HitPackets
DirInv ==
    /\ odir = sdir
    /\ LastIn(s2c, Turning, {p \in Turning : p.d = sdir})
    /\ NoneOf(s2c, Turning) /\ NoneOf(c2s, Downs) => dir = sdir

-----------------------------------------------------------------------------
(* Movement: the places                                                    *)

\* For a hero that stands where a key or a respawn has put it
Moving == Turning \cup CollPackets \cup SpawnPackets
Putting(x) == {p \in PosPackets \cup SpawnPackets : p.x = x}
PlaceInv ==
    (sdir = {} /\ told \in {"POS", "RESPAWN"}) =>
        /\ ohero = spos
        /\ LastIn(s2c, Moving, Putting(spos))
        /\ NoneOf(s2c, Moving) /\ NoneOf(c2s, Downs) => hero = spos

-----------------------------------------------------------------------------
(* Movement: the animations                                                *)

Quiet == c2s = <<>> /\ s2c = <<>> /\ doing = {} /\ dir = {} /\ ~dead
BufInv ==
    /\ loaded => buf
    /\ ~loaded => Quiet
    /\ DoneReachesRoom

\* What starts an animation, what its hero is told to show by its flags, and
\* what answers the end of an animation
Hurting == {p \in ToClient : p.t = "DIE" \/ (p.t = "HIT" /\ p.alive)}
Starting == PosPackets \cup SpawnPackets \cup PlainPackets \cup Hurting
Dones == {p \in ToServer : p.t = "DONE"}
ShowingAs(a) == {p \in Starting : Animation(p, "IDLE") = a}
SwingsEnd(q) ==
    \A i \in DOMAIN q : q[i].t = "SWING" => \E j \in DOMAIN q : i < j /\ q[j].t = "DONE"
AnimInv ==
    /\ LastIn(s2c, Starting, ShowingAs(oanim))
    /\ NoneOf(s2c, Starting) => anim = oanim
    /\ oanim = "RUN" => sdir # {}
    /\ oanim \in {"SWING", "HIT", "DIE"} =>
         doing # {} \/ ~NoneOf(c2s, Dones) \/ ~NoneOf(s2c, Hurting)
    /\ doing # {} \/ SwingsEnd(c2s)

MoveInv == MoveTypeOK /\ KeysInv /\ DirInv /\ PlaceInv /\ BufInv /\ AnimInv

-----------------------------------------------------------------------------
(* Movement: sequences, and the types                                      *)

LEMMA Joined ==
    ASSUME NEW A, NEW s \in Seq(A), NEW t \in Seq(A)
    PROVE  /\ s \o t \in Seq(A) /\ Len(s \o t) = Len(s) + Len(t)
           /\ Len(s) \in Nat /\ Len(t) \in Nat
           /\ DOMAIN s = 1 .. Len(s) /\ DOMAIN t = 1 .. Len(t)
           /\ DOMAIN (s \o t) = 1 .. Len(s) + Len(t)
           /\ \A i \in 1 .. Len(s) : (s \o t)[i] = s[i]
           /\ \A i \in 1 .. Len(t) : (s \o t)[Len(s) + i] = t[i]
           /\ \A i \in 1 .. Len(s) : s[i] \in A
           /\ \A i \in 1 .. Len(t) : t[i] \in A
OBVIOUS

LEMMA Taken ==
    ASSUME NEW A, NEW s \in Seq(A), s # <<>>
    PROVE  /\ Tail(s) \in Seq(A) /\ Head(s) = s[1] /\ Head(s) \in A
           /\ Len(s) \in Nat /\ Len(s) > 0 /\ Len(Tail(s)) = Len(s) - 1
           /\ DOMAIN s = 1 .. Len(s) /\ DOMAIN Tail(s) = 1 .. Len(s) - 1
           /\ \A i \in 1 .. Len(s) - 1 : Tail(s)[i] = s[i + 1]
           /\ \A i \in 1 .. Len(s) : s[i] \in A
OBVIOUS

LEMMA SmallestNat ==
    ASSUME NEW S \in SUBSET Nat, S # {}
    PROVE  Min(S) \in S
<1> DEFINE R == OpToRel(<, Nat)
<1>0. IsWellFoundedOn(R, Nat)
  BY NatLessThanWellFounded DEF OpToRel
<1>1. S \subseteq Nat
  OBVIOUS
<1> HIDE DEF R
<1>2. PICK x \in S : \A y \in S : ~(<<y, x>> \in R)
  BY <1>0, <1>1, WFMin
<1>3. \A y \in S : ~(y < x)
  BY <1>1, <1>2 DEF OpToRel, R
<1>4. x \in S /\ \A y \in S : x <= y
  BY <1>1, <1>3
<1> QED
  BY <1>4 DEF Min

LEMMA FirstPushType ==
    ASSUME NEW n \in Nat, NEW f \in [1 .. n -> Seq(Arrows)]
    PROVE  FirstPush(f) \in Seq(Arrows)
<1> DEFINE met == {i \in DOMAIN f : f[i] # <<>>}
<1>1. met \subseteq Nat /\ met \subseteq 1 .. n
  OBVIOUS
<1>2. met # {} => Min(met) \in 1 .. n
  <2> HIDE DEF met
  <2> QED
    BY <1>1, SmallestNat
<1>3. FirstPush(f) = IF met = {} THEN <<>> ELSE f[Min(met)]
  BY DEF FirstPush
<1> HIDE DEF met
<1> QED
  BY <1>2, <1>3

LEMMA FirstOfType ==
    ASSUME NEW a, NEW b, NEW c, NEW d
    PROVE  FirstOf(a, b, c, d) \in Seq(Arrows)
<1>1. \A k \in Arrows : <<k>> \in Seq(Arrows)
  OBVIOUS
<1>2. <<>> \in Seq(Arrows)
  OBVIOUS
<1>3. {"RIGHT", "LEFT", "UP", "DOWN"} \subseteq Arrows
  BY DEF Arrows
<1> QED
  BY <1>1, <1>2, <1>3 DEF FirstOf

LEMMA PushesType ==
    ASSUME NEW p, NEW heroes, NEW n \in Nat, DOMAIN heroes = 1 .. n
    PROVE  Pushes(p, heroes) \in Seq(Arrows)
<1> DEFINE f == [i \in DOMAIN heroes |-> HeroPush(p, heroes[i])]
           g == [i \in DOMAIN Houses |-> HousePush(p, Houses[i])]
<1>1. FirstPush(f) \in Seq(Arrows)
  <2>1. f \in [1 .. n -> Seq(Arrows)]
    BY FirstOfType DEF HeroPush
  <2> HIDE DEF f
  <2> QED
    BY <2>1, FirstPushType
<1>2. FirstPush(g) \in Seq(Arrows)
  <2>1. DOMAIN Houses = 1 .. 12
    BY DEF Houses
  <2>2. g \in [1 .. 12 -> Seq(Arrows)]
    BY <2>1, FirstOfType DEF HousePush
  <2> HIDE DEF g
  <2> QED
    BY <2>2, FirstPushType
<1> HIDE DEF f, g
<1>3. \A k \in Arrows : <<k>> \in Seq(Arrows)
  OBVIOUS
<1>4. <<>> \in Seq(Arrows)
  OBVIOUS
<1>5. {"RIGHT", "LEFT", "UP"} \subseteq Arrows
  BY DEF Arrows
<1>6. EdgePush(p) \in Seq(Arrows)
  BY <1>3, <1>4, <1>5 DEF EdgePush
<1>7. RespawnPushes(p) \in Seq(Arrows)
  <2> DEFINE push(b, d) == IF b THEN <<d>> ELSE <<>>
  <2>1. \A b, d : d \in {"RIGHT", "LEFT", "UP"} => push(b, d) \in Seq(Arrows)
    BY <1>3, <1>4, <1>5
  <2> HIDE DEF push
  <2>2. \A s, t \in Seq(Arrows) : s \o t \in Seq(Arrows)
    OBVIOUS
  <2> DEFINE inner == Within(p.z, -580, -413)
             outer == Within(p.z, -580, -450)
             a == push(Within(p.x, -80, 80) /\ p.z < -574, "UP")
             b == push(p.x = 64 /\ inner, "RIGHT")
             c == push(p.x = -64 /\ inner, "LEFT")
             d == push(p.x = -105 /\ outer, "RIGHT")
             e == push(p.x = 105 /\ outer, "LEFT")
  <2>3. {a, b, c, d, e} \subseteq Seq(Arrows)
    BY <2>1
  <2>4. RespawnPushes(p) = a \o b \o c \o d \o e
    BY DEF RespawnPushes, push
  <2> HIDE DEF a, b, c, d, e
  <2> QED
    BY <2>2, <2>3, <2>4
<1>8. Pushes(p, heroes) = FirstPush(f) \o FirstPush(g) \o EdgePush(p) \o RespawnPushes(p)
  BY DEF Pushes, f, g
<1> QED
  BY <1>1, <1>2, <1>6, <1>7, <1>8

LEMMA PlaceTypes ==
    /\ \A p \in Places, n \in Int : \A ds : Stepped(p, ds, n) \in Places
    /\ \A p \in Places : \A k : Pushed(p, k) \in Places
<1>1. ASSUME NEW p \in Places, NEW ds, NEW n \in Int PROVE Stepped(p, ds, n) \in Places
  BY DEF Places, Stepped, At
<1> QED
  BY <1>1 DEF Pushed

LEMMA MoveTypeInit == MoveInit => MoveTypeOK
<1> SUFFICES ASSUME MoveInit PROVE MoveTypeOK
  OBVIOUS
<1>1. Start \in Places
  BY MovementAssumption
<1>2. c2s \in Seq(ToServer) /\ s2c \in Seq(ToClient)
  BY DEF MoveInit
<1> QED
  BY <1>1, <1>2 DEF MoveInit, MoveTypeOK, Animations

\* What a client sends is one of its packets.
LEMMA ClientPackets ==
    ASSUME MoveTypeOK, buf' \in BOOLEAN
    PROVE  /\ \A k \in Keys, t \in {"DOWN", "UP"} : <<KeyPacket(t, k)>> \in Seq(ToServer)
           /\ \A t \in {"SWING", "STRIKE", "DONE"} :
                /\ ActPacket(t) \in ToServer /\ <<ActPacket(t)>> \in Seq(ToServer)
           /\ \A k \in Arrows : TestPacket(k) \in ToServer
<1>1. \A k \in Keys, t \in {"DOWN", "UP"} : KeyPacket(t, k) \in ToServer
  BY DEF MoveTypeOK, KeyPacket, ToServer, KeyPackets
<1>2. \A t \in {"SWING", "STRIKE", "DONE"} : ActPacket(t) \in ToServer
  BY DEF ActPacket, ToServer, ActPackets
<1>3. \A k \in Arrows : TestPacket(k) \in ToServer
  BY DEF TestPacket, ToServer, TestPackets
<1>4. \A p \in ToServer : <<p>> \in Seq(ToServer)
  OBVIOUS
<1> QED
  BY <1>1, <1>2, <1>3, <1>4

\* The strikes of a swing, and the tests of a frame
Strikes(n) == <<ActPacket("SWING")>> \o [i \in 1 .. n |-> ActPacket("STRIKE")]
Tests(ps) == [i \in DOMAIN ps |-> TestPacket(ps[i])]

LEMMA SwingSends ==
    ASSUME MoveTypeOK, NEW strikes, Swing(strikes)
    PROVE  \E n \in Nat : c2s' = c2s \o Strikes(n)
<1> DEFINE on == {i \in DOMAIN Others : strikes /\ InSector(hero, Others[i], face, AttackRange)}
<1>1. IsFiniteSet(on)
  <2>1. DOMAIN Others = 1 .. Len(Others) /\ Len(Others) \in Nat
    BY MovementAssumption
  <2>2. IsFiniteSet(1 .. Len(Others))
    BY <2>1, FS_Interval
  <2>3. on \subseteq 1 .. Len(Others)
    BY <2>1
  <2> HIDE DEF on
  <2> QED
    BY <2>2, <2>3, FS_Subset
<1>2. c2s' = c2s \o Strikes(Cardinality(on))
  BY DEF Swing, SendAll, Strikes
<1> HIDE DEF on
<1>3. Cardinality(on) \in Nat
  BY <1>1, FS_CardinalityType
<1> QED
  BY <1>2, <1>3

LEMMA FrameSends ==
    ASSUME MoveTypeOK, Frame
    PROVE  \E ps \in Seq(Arrows) : c2s' = c2s \o Tests(ps)
<1>1. DOMAIN Others = 1 .. Len(Others) /\ Len(Others) \in Nat
  BY MovementAssumption
<1>2. Pushes(TestedAt, Others) \in Seq(Arrows)
  BY <1>1, PushesType
<1> QED
  BY <1>2 DEF Frame, SendAll, Tests

LEMMA SentTypes ==
    ASSUME MoveTypeOK, buf' \in BOOLEAN
    PROVE  /\ \A n \in Nat : /\ Strikes(n) \in Seq(ToServer) /\ Len(Strikes(n)) = n + 1
                             /\ Strikes(n)[1].t = "SWING"
                             /\ \A i \in 1 .. n : Strikes(n)[i + 1].t = "STRIKE"
           /\ \A ps \in Seq(Arrows) :
                Tests(ps) \in Seq(ToServer) /\ \A i \in DOMAIN Tests(ps) : Tests(ps)[i].t = "COLL"
<1>1. ASSUME NEW n \in Nat
      PROVE  /\ Strikes(n) \in Seq(ToServer) /\ Len(Strikes(n)) = n + 1
             /\ Strikes(n)[1].t = "SWING"
             /\ \A i \in 1 .. n : Strikes(n)[i + 1].t = "STRIKE"
  <2> DEFINE s == <<ActPacket("SWING")>>
             t == [i \in 1 .. n |-> ActPacket("STRIKE")]
  <2>1. s \in Seq(ToServer) /\ Len(s) = 1 /\ s[1] = ActPacket("SWING")
    BY ClientPackets
  <2>2. t \in Seq(ToServer) /\ Len(t) = n /\ \A i \in 1 .. n : t[i] = ActPacket("STRIKE")
    BY ClientPackets
  <2>3. Strikes(n) = s \o t
    BY DEF Strikes
  <2> HIDE DEF s, t
  <2>4. /\ s \o t \in Seq(ToServer) /\ Len(s \o t) = n + 1 /\ (s \o t)[1] = s[1]
        /\ \A i \in 1 .. n : (s \o t)[1 + i] = t[i]
    <3>1. /\ s \o t \in Seq(ToServer) /\ Len(s \o t) = Len(s) + Len(t)
          /\ \A i \in 1 .. Len(s) : (s \o t)[i] = s[i]
          /\ \A i \in 1 .. Len(t) : (s \o t)[Len(s) + i] = t[i]
      <4>1. s \in Seq(ToServer) /\ t \in Seq(ToServer)
        BY <2>1, <2>2
      <4> QED
        BY ONLY <4>1, Joined
    <3> QED
      BY <2>1, <2>2, <3>1
  <2>5. \A i \in 1 .. n : (s \o t)[i + 1] = t[i]
    BY <2>4
  <2> QED
    BY <2>1, <2>2, <2>3, <2>4, <2>5 DEF ActPacket
<1>2. ASSUME NEW ps \in Seq(Arrows)
      PROVE  Tests(ps) \in Seq(ToServer) /\ \A i \in DOMAIN Tests(ps) : Tests(ps)[i].t = "COLL"
  <2>1. \A i \in DOMAIN ps : TestPacket(ps[i]) \in ToServer
    BY ClientPackets
  <2> QED
    BY <2>1 DEF Tests, TestPacket
<1> QED
  BY <1>1, <1>2

\* What the server sends is one of its packets, and is shown by the others.
LEMMA SentOne ==
    ASSUME MoveTypeOK, NEW p \in ToClient, Broadcast(<<p>>)
    PROVE  /\ s2c' = s2c \o <<p>> /\ s2c' \in Seq(ToClient) /\ <<p>> \in Seq(ToClient)
           /\ Show(p) /\ oanim' = Animation(p, oanim)
BY DEF Broadcast, Last, MoveTypeOK

LEMMA SentTwo ==
    ASSUME MoveTypeOK, NEW p \in ToClient, NEW q \in ToClient, Broadcast(<<p, q>>)
    PROVE  /\ s2c' = s2c \o <<p, q>> /\ s2c' \in Seq(ToClient) /\ <<p, q>> \in Seq(ToClient)
           /\ Show(q) /\ oanim' = Animation(q, Animation(p, oanim))
BY DEF Broadcast, Last, MoveTypeOK

\* A key packet is served as the toggling of its bit, unless there is none.
LEMMA KeyServed ==
    ASSUME MoveTypeOK, Serve, Head(c2s).t \in {"DOWN", "UP"}
    PROVE  LET p == Head(c2s) IN
           /\ p.k \in Keys
           /\ sdir' = IF p.t = "DOWN" THEN sdir \cup {p.k} ELSE Released(p.k)
           /\ sdir' \subseteq Keys /\ spos' \in Places
           /\ Broadcast(<<PosPacket>>) /\ PosPacket \in ToClient /\ told' = "POS"
<1> DEFINE p == Head(c2s)
<1>1. p \in ToServer
  BY Taken DEF Serve, MoveTypeOK
<1>2. p.k \in Keys /\ p.x \in Places
  BY <1>1 DEF ToServer, KeyPackets, TestPackets, ActPackets
<1>3. /\ sdir' = IF p.t = "DOWN" THEN sdir \cup {p.k} ELSE Released(p.k)
      /\ spos' = p.x /\ Broadcast(<<PosPacket>>) /\ told' = "POS"
  BY DEF Serve
<1>4. sdir' \subseteq Keys
  BY <1>2, <1>3 DEF Released, SymDiff, MoveTypeOK
<1>5. PosPacket \in ToClient
  BY <1>2, <1>3, <1>4 DEF PosPacket, ToClient, PosPackets
<1> QED
  BY <1>2, <1>3, <1>4, <1>5

\* The other packets of a client change no direction.
LEMMA OtherServed ==
    ASSUME MoveTypeOK, Serve, Head(c2s).t \notin {"DOWN", "UP"}
    PROVE  LET p == Head(c2s) IN
           /\ UNCHANGED <<sdir, spos>>
           /\ \/ /\ p.t = "COLL" /\ Broadcast(<<CollPacket(p.k)>>) /\ told' = "COLL"
                 /\ p.k \in Arrows /\ CollPacket(p.k) \in ToClient
              \/ /\ p.t = "SWING" /\ Broadcast(<<SwingPacket>>) /\ told' = told
                 /\ SwingPacket \in ToClient
              \/ p.t = "STRIKE" /\ UNCHANGED <<other, s2c, told>>
              \/ /\ p.t = "DONE" /\ p.room /\ Broadcast(<<DonePacket>>) /\ told' = told
                 /\ DonePacket \in ToClient
              \/ p.t = "DONE" /\ ~p.room /\ UNCHANGED <<other, s2c, told>>
<1> DEFINE p == Head(c2s)
<1>1. p \in ToServer
  BY Taken DEF Serve, MoveTypeOK
<1>2. p.t = "COLL" => p.k \in Arrows
  BY <1>1 DEF ToServer, KeyPackets, TestPackets, ActPackets
<1>3. /\ p.k \in Arrows => CollPacket(p.k) \in ToClient
      /\ SwingPacket \in ToClient /\ DonePacket \in ToClient
  BY DEF CollPacket, SwingPacket, DonePacket, ToClient, CollPackets, PlainPackets
<1> QED
  BY <1>2, <1>3 DEF Serve

LEMMA MoveTypeStep ==
    ASSUME MoveTypeOK, [MoveNext]_moveVars
    PROVE  MoveTypeOK'
<1> USE DEF own, server, other, counters, history
<1>0. CASE UNCHANGED moveVars
  BY <1>0 DEF moveVars, MoveTypeOK
<1>1. CASE LoadComplete
  BY <1>1 DEF LoadComplete, MoveTypeOK
<1>2. ASSUME NEW k \in Keys, KeyDown(k)
      PROVE  MoveTypeOK'
  <2>1. c2s' = c2s \o <<KeyPacket("DOWN", k)>> /\ buf' \in BOOLEAN
    BY <1>2 DEF KeyDown, SendAll
  <2>2. c2s' \in Seq(ToServer)
    BY <2>1, ClientPackets DEF MoveTypeOK
  <2> QED
    BY <1>2, <2>2 DEF KeyDown, MoveTypeOK
<1>3. ASSUME NEW k \in Keys, KeyUp(k)
      PROVE  MoveTypeOK'
  <2>1. c2s' = c2s \o <<KeyPacket("UP", k)>> /\ buf' \in BOOLEAN
    BY <1>3 DEF KeyUp, SendAll
  <2>2. c2s' \in Seq(ToServer)
    BY <2>1, ClientPackets DEF MoveTypeOK
  <2> QED
    BY <1>3, <2>2 DEF KeyUp, MoveTypeOK
<1>4. ASSUME NEW strikes, Swing(strikes)
      PROVE  MoveTypeOK'
  <2>1. buf' \in BOOLEAN
    BY <1>4 DEF Swing
  <2>2. c2s' \in Seq(ToServer)
    <3>1. PICK n \in Nat : c2s' = c2s \o Strikes(n)
      BY <1>4, SwingSends
    <3>2. Strikes(n) \in Seq(ToServer)
      BY <2>1, SentTypes
    <3> QED
      BY <3>1, <3>2 DEF MoveTypeOK
  <2> QED
    BY <1>4, <2>2 DEF Swing, MoveTypeOK
<1>5. CASE Frame
  <2>1. buf' \in BOOLEAN
    BY <1>5 DEF Frame, MoveTypeOK
  <2>2. c2s' \in Seq(ToServer)
    <3>1. PICK ps \in Seq(Arrows) : c2s' = c2s \o Tests(ps)
      BY <1>5, FrameSends
    <3>2. Tests(ps) \in Seq(ToServer)
      BY <2>1, SentTypes
    <3> QED
      BY <3>1, <3>2 DEF MoveTypeOK
  <2>3. hero' \in Places /\ me' \in Places
    BY <1>5, PlaceTypes DEF Frame, MoveTypeOK
  <2> QED
    BY <1>5, <2>1, <2>2, <2>3 DEF Frame, MoveTypeOK
<1>6. CASE Animate
  <2>1. c2s' = c2s \o <<ActPacket("DONE")>> /\ buf' \in BOOLEAN
    BY <1>6 DEF Animate, SendAll, MoveTypeOK
  <2>2. c2s' \in Seq(ToServer)
    BY <2>1, ClientPackets DEF MoveTypeOK
  <2> QED
    BY <1>6, <2>1, <2>2 DEF Animate, MoveTypeOK
<1>7. CASE ReadPacket
  <2> DEFINE p == Head(s2c)
  <2>1. p \in ToClient /\ s2c' \in Seq(ToClient)
    BY <1>7, Taken DEF ReadPacket, MoveTypeOK
  <2>2. /\ p.t = "POS" => p.d \subseteq Keys /\ p.x \in Places
        /\ p.t = "HIT" => p.d \subseteq Keys /\ p.alive \in BOOLEAN
        /\ p.t = "RESPAWN" => p.x \in Places
    BY <2>1 DEF ToClient, PosPackets, CollPackets, HitPackets, SpawnPackets, PlainPackets
  <2>3. p.t \in {"POS", "COLL", "HIT", "SWING", "DIE", "RESPAWN", "DONE"}
    BY <1>7 DEF ReadPacket
  <2>4. anim' \in Animations
    BY <1>7, <2>3 DEF ReadPacket, Animation, MoveTypeOK, Animations
  <2>5. hero' \in Places /\ me' \in Places /\ dir' \subseteq Keys /\ locked' \in BOOLEAN
    BY <1>7, <2>2, PlaceTypes DEF ReadPacket, PutAt, MoveTypeOK
  <2> QED
    BY <1>7, <2>1, <2>4, <2>5 DEF ReadPacket, MoveTypeOK
<1>8. CASE OtherFrame
  BY <1>8, PlaceTypes DEF OtherFrame, MoveTypeOK
<1>9. ASSUME NEW p \in ToClient, Show(p)
      PROVE  odir' \subseteq Keys /\ ohero' \in Places
  <2>1. /\ p.t \in {"POS", "HIT"} => p.d \subseteq Keys
        /\ p.t \in {"POS", "RESPAWN"} => p.x \in Places
    BY <1>9 DEF ToClient, PosPackets, CollPackets, HitPackets, SpawnPackets, PlainPackets
  <2> QED
    BY <1>9, <2>1, PlaceTypes DEF Show, MoveTypeOK
<1>10. \A p \in ToClient : Animation(p, oanim) \in Animations
  <2> SUFFICES ASSUME NEW p \in ToClient PROVE Animation(p, oanim) \in Animations
    OBVIOUS
  <2>1. p.t \in {"POS", "COLL", "HIT", "SWING", "DIE", "RESPAWN", "DONE"}
    BY DEF ToClient, PosPackets, CollPackets, HitPackets, SpawnPackets, PlainPackets
  <2> QED
    BY <2>1 DEF Animation, Animations, MoveTypeOK
<1>11. ASSUME NEW p \in ToClient, Broadcast(<<p>>)
       PROVE  /\ s2c' \in Seq(ToClient) /\ oanim' \in Animations
              /\ odir' \subseteq Keys /\ ohero' \in Places
  BY <1>9, <1>10, <1>11, SentOne
<1>12. CASE Serve
  <2>1. c2s' \in Seq(ToServer)
    BY <1>12, Taken DEF Serve, MoveTypeOK
  <2>2. CASE Head(c2s).t \in {"DOWN", "UP"}
    <3>1. sdir' \subseteq Keys /\ spos' \in Places
          /\ Broadcast(<<PosPacket>>) /\ PosPacket \in ToClient
      BY <1>12, <2>2, KeyServed
    <3>2. /\ s2c' \in Seq(ToClient) /\ oanim' \in Animations
          /\ odir' \subseteq Keys /\ ohero' \in Places
      BY <3>1, <1>11
    <3> QED
      BY <1>12, <2>1, <3>1, <3>2 DEF Serve, MoveTypeOK
  <2>3. CASE Head(c2s).t \notin {"DOWN", "UP"}
    <3>1. \/ \E p \in ToClient : Broadcast(<<p>>)
          \/ UNCHANGED <<other, s2c>>
      BY <1>12, <2>3, OtherServed
    <3>2. /\ s2c' \in Seq(ToClient) /\ oanim' \in Animations
          /\ odir' \subseteq Keys /\ ohero' \in Places
      BY <3>1, <1>11 DEF MoveTypeOK
    <3>3. UNCHANGED <<sdir, spos>>
      BY <1>12, <2>3, OtherServed
    <3> QED
      BY <1>12, <2>1, <3>2, <3>3 DEF Serve, MoveTypeOK
  <2> QED
    BY <2>2, <2>3
<1>13. ASSUME NEW alive \in BOOLEAN, Hit(alive)
       PROVE  MoveTypeOK'
  <2>1. sdir' = {} /\ HitPacket(alive) \in ToClient /\ DiePacket \in ToClient
    BY <1>13 DEF Hit, HitPacket, DiePacket, ToClient, HitPackets, PlainPackets
  <2>2. /\ s2c' \in Seq(ToClient) /\ oanim' \in Animations
        /\ odir' \subseteq Keys /\ ohero' \in Places
    <3>1. CASE alive
      <4>1. Broadcast(<<HitPacket(alive)>>)
        BY <1>13, <3>1 DEF Hit
      <4> QED
        BY <2>1, <4>1, <1>11
    <3>2. CASE ~alive
      <4>1. Broadcast(<<DiePacket, HitPacket(alive)>>)
        BY <1>13, <3>2 DEF Hit
      <4>2. /\ s2c' \in Seq(ToClient) /\ Show(HitPacket(alive))
            /\ oanim' = Animation(HitPacket(alive), Animation(DiePacket, oanim))
        BY <2>1, <4>1, SentTwo
      <4>3. oanim' \in Animations
        BY <4>2, <3>2 DEF Animation, HitPacket, DiePacket, Animations
      <4> QED
        BY <2>1, <4>2, <4>3, <1>9
    <3> QED
      BY <3>1, <3>2
  <2> QED
    BY <1>13, <2>1, <2>2 DEF Hit, MoveTypeOK
<1>14. CASE Respawn
  <2>1. spos' \in Places /\ RespawnPacket \in ToClient /\ Broadcast(<<RespawnPacket>>)
    BY <1>14, MovementAssumption DEF Respawn, RespawnPacket, ToClient, SpawnPackets
  <2>2. /\ s2c' \in Seq(ToClient) /\ oanim' \in Animations
        /\ odir' \subseteq Keys /\ ohero' \in Places
    BY <2>1, <1>11
  <2> QED
    BY <1>14, <2>1, <2>2 DEF Respawn, MoveTypeOK
<1> QED
  BY <1>0, <1>1, <1>2, <1>3, <1>4, <1>5, <1>6, <1>7, <1>8, <1>12, <1>13, <1>14 DEF MoveNext

-----------------------------------------------------------------------------
(* Movement: the arrows                                                    *)

\* Packets about other things change nothing.
LEMMA TurnsKept ==
    ASSUME NEW q \in Seq(ToServer), NEW ps \in Seq(ToServer), NEW k, NEW from, NEW to,
           \A i \in DOMAIN ps : ~IsKey(ps[i], k),
           TakeTurns(q, k, from, to)
    PROVE  TakeTurns(q \o ps, k, from, to)
<1>1. /\ Len(q) \in Nat /\ Len(ps) \in Nat
      /\ DOMAIN q = 1 .. Len(q) /\ DOMAIN ps = 1 .. Len(ps)
      /\ DOMAIN (q \o ps) = 1 .. Len(q) + Len(ps)
      /\ \A i \in 1 .. Len(q) : (q \o ps)[i] = q[i]
      /\ \A i \in 1 .. Len(ps) : (q \o ps)[Len(q) + i] = ps[i]
  BY ONLY q \in Seq(ToServer), ps \in Seq(ToServer), Joined
<1>2. ASSUME NEW i \in DOMAIN (q \o ps), i \notin DOMAIN q
      PROVE  ~IsKey((q \o ps)[i], k)
  <2>1. i - Len(q) \in 1 .. Len(ps) /\ i = Len(q) + (i - Len(q))
    BY <1>1, <1>2
  <2> QED
    BY <1>1, <2>1
<1>3. About(q \o ps, k) = About(q, k)
  BY <1>1, <1>2 DEF About
<1>4. \A i \in About(q, k) : (q \o ps)[i] = q[i]
  BY <1>1 DEF About
<1> QED
  BY <1>3, <1>4 DEF TakeTurns

\* An arrow that goes down or comes up sends the next packet about it.
LEMMA TurnsSent ==
    ASSUME NEW q \in Seq(ToServer), NEW p \in ToServer, NEW k, NEW from, NEW to, NEW to2,
           IsKey(p, k), p.t = "DOWN" <=> k \notin to, k \in to2 <=> k \notin to,
           TakeTurns(q, k, from, to)
    PROVE  TakeTurns(q \o <<p>>, k, from, to2)
<1> DEFINE r == q \o <<p>>
           n == Len(q) + 1
<1>1. /\ n \in Nat /\ n > 0
      /\ DOMAIN q = 1 .. n - 1 /\ DOMAIN r = 1 .. n
      /\ \A i \in 1 .. n - 1 : r[i] = q[i]
      /\ r[n] = p
  OBVIOUS
<1> HIDE DEF n, r
<1>2. About(r, k) = About(q, k) \cup {n}
  BY <1>1 DEF About
<1>3. About(q, k) \subseteq 1 .. n - 1 /\ \A i \in About(q, k) : i \in Nat /\ i < n /\ r[i] = q[i]
  BY <1>1 DEF About
<1>4. p.t \in {"DOWN", "UP"}
  BY DEF IsKey
<1>5. \A i \in About(q, k) : q[i].t \in {"DOWN", "UP"}
  BY DEF About, IsKey
<1> DEFINE S == About(q, k)
<1>6. /\ S = {} => (k \in from <=> k \in to)
      /\ \A i \in S :
           /\ (\A j \in S : i <= j) => (q[i].t = "DOWN" <=> k \notin from)
           /\ (\A j \in S : j <= i) => (q[i].t = "DOWN" <=> k \in to)
           /\ \A j \in S : (i < j /\ \A l \in S : l <= i \/ j <= l) => q[i].t # q[j].t
  BY DEF TakeTurns
<1> HIDE DEF S
<1>7. ASSUME NEW i \in S \cup {n}, \A j \in S \cup {n} : i <= j
      PROVE  r[i].t = "DOWN" <=> k \notin from
  <2>1. CASE i = n
    <3>1. S = {}
      BY <1>1, <1>3, <1>7, <2>1 DEF S
    <3> QED
      BY <1>1, <1>6, <2>1, <3>1
  <2>2. CASE i \in S
    BY <1>3, <1>6, <1>7, <2>2 DEF S
  <2> QED
    BY <2>1, <2>2
<1>8. ASSUME NEW i \in S \cup {n}, \A j \in S \cup {n} : j <= i
      PROVE  r[i].t = "DOWN" <=> k \in to2
  <2>1. i = n
    BY <1>1, <1>3, <1>8 DEF S
  <2> QED
    BY <1>1, <2>1
<1>9. ASSUME NEW i \in S \cup {n}, NEW j \in S \cup {n}, i < j,
             \A l \in S \cup {n} : l <= i \/ j <= l
      PROVE  r[i].t # r[j].t
  <2>1. i \in S /\ i \in Nat /\ i < n
    BY <1>1, <1>3, <1>9 DEF S
  <2>2. CASE j \in S
    BY <1>3, <1>6, <1>9, <2>1, <2>2 DEF S
  <2>3. CASE j = n
    <3>1. \A l \in S : l <= i
      BY <1>3, <1>9, <2>1, <2>3 DEF S
    <3>2. q[i].t = "DOWN" <=> k \in to
      BY <1>6, <2>1, <3>1
    <3> QED
      BY <1>1, <1>3, <2>1, <2>3, <3>2 DEF S
  <2> QED
    BY <2>2, <2>3
<1>10. About(r, k) = S \cup {n}
  BY <1>2 DEF S
<1> QED
  BY <1>7, <1>8, <1>9, <1>10 DEF TakeTurns, r

\* The first packet is taken: the next about the same arrow is the other one.
LEMMA TurnsServed ==
    ASSUME NEW q \in Seq(ToServer), q # <<>>, NEW k, NEW from, NEW to, NEW from2,
           TakeTurns(q, k, from, to),
           k \in from2 <=> IF IsKey(Head(q), k) THEN k \notin from ELSE k \in from
    PROVE  /\ IsKey(Head(q), k) => (Head(q).t = "DOWN" <=> k \notin from)
           /\ TakeTurns(Tail(q), k, from2, to)
<1> DEFINE r == Tail(q)
           n == Len(q)
           S == About(q, k)
           T == About(r, k)
<1>1. /\ n \in Nat /\ n > 0 /\ Head(q) = q[1]
      /\ DOMAIN q = 1 .. n /\ DOMAIN r = 1 .. n - 1
      /\ \A i \in 1 .. n - 1 : r[i] = q[i + 1]
  <2>1. q \in Seq(ToServer) /\ q # <<>>
    OBVIOUS
  <2> QED
    BY ONLY <2>1, Taken
<1>2. S \subseteq 1 .. n /\ T \subseteq 1 .. n - 1
  BY <1>1 DEF About
<1>3. \A i \in 1 .. n - 1 : i \in T <=> i + 1 \in S
  BY <1>1 DEF About
<1>4. 1 \in S <=> IsKey(Head(q), k)
  BY <1>1 DEF About
<1>5. /\ S = {} => (k \in from <=> k \in to)
      /\ \A i \in S :
           /\ (\A j \in S : i <= j) => (q[i].t = "DOWN" <=> k \notin from)
           /\ (\A j \in S : j <= i) => (q[i].t = "DOWN" <=> k \in to)
           /\ \A j \in S : (i < j /\ \A l \in S : l <= i \/ j <= l) => q[i].t # q[j].t
  BY DEF TakeTurns
<1>6. \A i \in S : q[i].t \in {"DOWN", "UP"}
  BY DEF About, IsKey
<1> HIDE DEF r, n, S, T
<1>7. \A i \in S : i = 1 \/ (i - 1 \in T /\ i - 1 \in 1 .. n - 1)
  BY <1>1, <1>2, <1>3
<1>8. 1 \in S => (q[1].t = "DOWN" <=> k \notin from)
  BY <1>1, <1>2, <1>5
<1>9. ASSUME T = {}
      PROVE  k \in from2 <=> k \in to
  <2>1. CASE 1 \in S
    <3>1. \A j \in S : j <= 1
      BY <1>7, <1>9
    <3>2. q[1].t = "DOWN" <=> k \in to
      BY <1>5, <2>1, <3>1
    <3> QED
      BY <1>4, <1>8, <2>1, <3>2
  <2>2. CASE 1 \notin S
    <3>1. S = {}
      BY <1>7, <1>9, <2>2
    <3> QED
      BY <1>4, <1>5, <2>2, <3>1
  <2> QED
    BY <2>1, <2>2
<1>10. ASSUME NEW i \in T, \A j \in T : i <= j
       PROVE  r[i].t = "DOWN" <=> k \notin from2
  <2>1. i \in 1 .. n - 1 /\ i + 1 \in S /\ r[i] = q[i + 1]
    BY <1>1, <1>2, <1>3
  <2>2. \A j \in S : j = 1 \/ i + 1 <= j
    <3> SUFFICES ASSUME NEW j \in S, j # 1 PROVE i + 1 <= j
      OBVIOUS
    <3>1. j - 1 \in T /\ j - 1 \in 1 .. n - 1
      BY <1>7
    <3>2. i <= j - 1
      BY <1>10, <3>1
    <3> QED
      BY <1>1, <1>2, <2>1, <3>1, <3>2
  <2>3. CASE 1 \in S
    <3>1. q[1].t # q[i + 1].t
      BY <1>1, <1>5, <2>1, <2>2, <2>3
    <3> QED
      BY <1>4, <1>6, <1>8, <2>1, <2>3, <3>1
  <2>4. CASE 1 \notin S
    <3>1. \A j \in S : i + 1 <= j
      BY <2>2, <2>4
    <3> QED
      BY <1>4, <1>5, <2>1, <2>4, <3>1
  <2> QED
    BY <2>3, <2>4
<1>11. ASSUME NEW i \in T, \A j \in T : j <= i
       PROVE  r[i].t = "DOWN" <=> k \in to
  <2>1. i \in 1 .. n - 1 /\ i + 1 \in S /\ r[i] = q[i + 1]
    BY <1>1, <1>2, <1>3
  <2>2. ASSUME NEW j \in S PROVE j <= i + 1
    <3>1. CASE j = 1
      BY <2>1, <3>1, <1>1
    <3>2. CASE j # 1
      <4>1. j - 1 \in T /\ j - 1 \in 1 .. n - 1
        BY <1>7, <3>2
      <4>2. j - 1 <= i
        BY <1>11, <4>1
      <4>3. j \in 1 .. n
        BY <1>2
      <4> QED
        BY <1>1, <2>1, <4>2, <4>3
    <3> QED
      BY <3>1, <3>2
  <2> QED
    BY <1>5, <2>1, <2>2
<1>12. ASSUME NEW i \in T, NEW j \in T, i < j, \A l \in T : l <= i \/ j <= l
       PROVE  r[i].t # r[j].t
  <2>1. /\ i \in 1 .. n - 1 /\ i + 1 \in S /\ r[i] = q[i + 1]
        /\ j \in 1 .. n - 1 /\ j + 1 \in S /\ r[j] = q[j + 1]
    BY <1>1, <1>2, <1>3
  <2>2. ASSUME NEW l \in S PROVE l <= i + 1 \/ j + 1 <= l
    <3>1. CASE l = 1
      BY <2>1, <3>1, <1>1
    <3>2. CASE l # 1
      <4>1. l - 1 \in T /\ l - 1 \in 1 .. n - 1
        BY <1>7, <3>2
      <4>2. l - 1 <= i \/ j <= l - 1
        BY <1>12, <4>1
      <4>3. l \in 1 .. n
        BY <1>2
      <4> QED
        BY <1>1, <2>1, <4>2, <4>3
    <3> QED
      BY <3>1, <3>2
  <2>3. i + 1 < j + 1
    BY <1>1, <1>12, <2>1
  <2> QED
    BY <1>5, <2>1, <2>2, <2>3
<1>13. TakeTurns(r, k, from2, to)
  BY <1>9, <1>10, <1>11, <1>12 DEF TakeTurns, T
<1> QED
  BY <1>4, <1>8, <1>1, <1>13 DEF r

\* The arrows, step by step
LEMMA KeysStep ==
    ASSUME MoveTypeOK, KeysInv, [MoveNext]_moveVars
    PROVE  KeysInv'
<1> USE DEF own, server, other, counters, history
<1>0. c2s \in Seq(ToServer)
  BY DEF MoveTypeOK
<1>1. ASSUME NEW ps \in Seq(ToServer), c2s' = c2s \o ps,
             \A i \in DOMAIN ps : ps[i].t \notin {"DOWN", "UP"},
             UNCHANGED <<sdir, down, crossed>>
      PROVE  KeysInv'
  <2> SUFFICES ASSUME ~crossed, NEW k \in Keys PROVE TakeTurns(c2s \o ps, k, sdir, down)
    BY <1>1 DEF KeysInv
  <2>1. TakeTurns(c2s, k, sdir, down)
    BY DEF KeysInv
  <2>2. \A i \in DOMAIN ps : ~IsKey(ps[i], k)
    BY <1>1 DEF IsKey
  <2> QED
    BY ONLY <1>0, ps \in Seq(ToServer), <2>1, <2>2, TurnsKept
<1>2. ASSUME UNCHANGED <<c2s, sdir, down, crossed>>
      PROVE  KeysInv'
  BY <1>2 DEF KeysInv
<1>3. ASSUME NEW k \in Keys, NEW t \in {"DOWN", "UP"}, t = "DOWN" <=> k \notin down,
             buf' \in BOOLEAN, c2s' = c2s \o <<KeyPacket(t, k)>>, UNCHANGED <<sdir, crossed>>,
             down' = IF t = "DOWN" THEN down \cup {k} ELSE down \ {k}
      PROVE  KeysInv'
  <2> SUFFICES ASSUME ~crossed, NEW l \in Keys PROVE TakeTurns(c2s', l, sdir, down')
    BY <1>3 DEF KeysInv
  <2>1. TakeTurns(c2s, l, sdir, down)
    BY DEF KeysInv
  <2>2. PICK p : p = KeyPacket(t, k)
    OBVIOUS
  <2>3. p \in ToServer /\ p.t = t /\ p.k = k /\ <<p>> \in Seq(ToServer) /\ c2s' = c2s \o <<p>>
    BY <2>2, <1>3 DEF KeyPacket, ToServer, KeyPackets, MoveTypeOK
  <2>4. CASE l = k
    <3>1. IsKey(p, l) /\ (p.t = "DOWN" <=> l \notin down) /\ (l \in down' <=> l \notin down)
      BY <2>3, <2>4, <1>3 DEF IsKey
    <3>2. PICK D : D = down'
      OBVIOUS
    <3>3. p \in ToServer /\ (l \in D <=> l \notin down)
      BY <2>3, <3>1, <3>2
    <3>4. TakeTurns(c2s \o <<p>>, l, sdir, D)
      BY ONLY <1>0, <2>1, <3>1, <3>3, TurnsSent
    <3> QED
      BY <2>3, <3>2, <3>4
  <2>5. CASE l # k
    <3>1. \A i \in DOMAIN <<p>> : ~IsKey(<<p>>[i], l)
      BY <2>3, <2>5 DEF IsKey
    <3>2. <<p>> \in Seq(ToServer)
      BY <2>3
    <3>3. TakeTurns(c2s \o <<p>>, l, sdir, down)
      BY ONLY <1>0, <2>1, <3>1, <3>2, TurnsKept
    <3>4. l \in down' <=> l \in down
      BY <1>3, <2>5
    <3> QED
      BY <2>3, <3>3, <3>4 DEF TakeTurns
  <2> QED
    BY <2>4, <2>5
<1>4. ASSUME c2s # <<>>, c2s' = Tail(c2s), UNCHANGED <<down, crossed>>,
             \A k \in Keys : TakeTurns(c2s, k, sdir, down) =>
                 (k \in sdir' <=> IF IsKey(Head(c2s), k) THEN k \notin sdir ELSE k \in sdir)
      PROVE  KeysInv'
  <2> SUFFICES ASSUME ~crossed, NEW k \in Keys PROVE TakeTurns(Tail(c2s), k, sdir', down)
    BY <1>4 DEF KeysInv
  <2>1. TakeTurns(c2s, k, sdir, down)
    BY DEF KeysInv
  <2>2. PICK F : F = sdir'
    OBVIOUS
  <2>3. k \in F <=> IF IsKey(Head(c2s), k) THEN k \notin sdir ELSE k \in sdir
    BY <1>4, <2>1, <2>2
  <2>4. c2s # <<>>
    BY <1>4
  <2>5. TakeTurns(Tail(c2s), k, F, down)
    BY ONLY <1>0, <2>1, <2>3, <2>4, TurnsServed
  <2> QED
    BY <2>2, <2>5
<1>5. CASE UNCHANGED moveVars
  BY <1>2, <1>5 DEF moveVars
<1>6. CASE LoadComplete \/ ReadPacket \/ OtherFrame \/ Respawn
  BY <1>2, <1>6 DEF LoadComplete, ReadPacket, OtherFrame, Respawn
<1>7. ASSUME NEW k \in Keys, KeyDown(k)
      PROVE  KeysInv'
  BY <1>3, <1>7 DEF KeyDown, SendAll
<1>8. ASSUME NEW k \in Keys, KeyUp(k)
      PROVE  KeysInv'
  BY <1>3, <1>8 DEF KeyUp, SendAll
<1>9. ASSUME NEW strikes, Swing(strikes)
      PROVE  KeysInv'
  <2>1. PICK n \in Nat : c2s' = c2s \o Strikes(n)
    BY <1>9, SwingSends
  <2>2. buf' \in BOOLEAN
    BY <1>9 DEF Swing
  <2>3. PICK s : s = Strikes(n)
    OBVIOUS
  <2>4. s \in Seq(ToServer) /\ Len(s) = n + 1 /\ s[1].t = "SWING" /\ \A i \in 1 .. n : s[i + 1].t = "STRIKE"
    BY <2>2, <2>3, SentTypes
  <2>5. ASSUME NEW i \in DOMAIN s PROVE s[i].t \notin {"DOWN", "UP"}
    <3>1. i = 1 \/ (i - 1 \in 1 .. n /\ i = (i - 1) + 1)
      BY <2>4
    <3> QED
      BY <2>4, <3>1
  <2> QED
    BY <1>1, <1>9, <2>1, <2>3, <2>4, <2>5 DEF Swing
<1>10. CASE Frame
  <2>1. PICK ps \in Seq(Arrows) : c2s' = c2s \o Tests(ps)
    BY <1>10, FrameSends
  <2>2. buf' \in BOOLEAN
    BY <1>10 DEF Frame, MoveTypeOK
  <2>3. PICK s : s = Tests(ps)
    OBVIOUS
  <2>4. s \in Seq(ToServer) /\ \A i \in DOMAIN s : s[i].t = "COLL"
    BY <2>2, <2>3, SentTypes
  <2> QED
    BY <1>1, <1>10, <2>1, <2>3, <2>4 DEF Frame
<1>11. CASE Animate
  <2>1. buf' \in BOOLEAN
    BY <1>11 DEF Animate, MoveTypeOK
  <2>2. PICK s : s = <<ActPacket("DONE")>>
    OBVIOUS
  <2>3. s \in Seq(ToServer) /\ \A i \in DOMAIN s : s[i].t = "DONE"
    BY <2>1, <2>2, ClientPackets DEF ActPacket
  <2> QED
    BY <1>1, <1>11, <2>2, <2>3 DEF Animate, SendAll
<1>12. CASE Serve
  <2>1. c2s # <<>> /\ c2s' = Tail(c2s) /\ UNCHANGED <<down, crossed>>
    BY <1>12 DEF Serve
  <2>2. CASE Head(c2s).t \in {"DOWN", "UP"}
    <3>1. /\ Head(c2s).k \in Keys
          /\ sdir' = IF Head(c2s).t = "DOWN" THEN sdir \cup {Head(c2s).k} ELSE Released(Head(c2s).k)
      BY <1>12, <2>2, KeyServed
    <3>2. ASSUME NEW k \in Keys, TakeTurns(c2s, k, sdir, down)
          PROVE  k \in sdir' <=> IF IsKey(Head(c2s), k) THEN k \notin sdir ELSE k \in sdir
      <4>1. k \in sdir <=> IF IsKey(Head(c2s), k) THEN k \in sdir ELSE k \in sdir
        OBVIOUS
      <4>2. PICK F : F = IF IsKey(Head(c2s), k) THEN {l \in {k} : k \notin sdir} ELSE sdir
        OBVIOUS
      <4>3. k \in F <=> IF IsKey(Head(c2s), k) THEN k \notin sdir ELSE k \in sdir
        BY <4>2
      <4>4. c2s # <<>>
        BY <2>1
      <4>5. TakeTurns(c2s, k, sdir, down)
        BY <3>2
      <4>6. IsKey(Head(c2s), k) => (Head(c2s).t = "DOWN" <=> k \notin sdir)
        BY ONLY <1>0, <4>3, <4>4, <4>5, TurnsServed
      <4>7. CASE IsKey(Head(c2s), k)
        <5>1. Head(c2s).k = k
          BY <4>7 DEF IsKey
        <5>2. CASE Head(c2s).t = "DOWN"
          BY <3>1, <4>6, <4>7, <5>1, <5>2
        <5>3. CASE Head(c2s).t # "DOWN"
          <6>1. k \in sdir /\ k \notin SymDiff(sdir, {k})
            BY <4>6, <4>7, <5>3 DEF SymDiff
          <6>2. sdir' = SymDiff(sdir, {k})
            BY <3>1, <5>1, <5>3, <6>1 DEF Released
          <6> QED
            BY <4>7, <6>1, <6>2
        <5> QED
          BY <5>2, <5>3
      <4>8. CASE ~IsKey(Head(c2s), k)
        <5>1. Head(c2s).k # k
          BY <2>2, <4>8 DEF IsKey
        <5> QED
          BY <3>1, <4>8, <5>1 DEF Released, SymDiff
      <4> QED
        BY <4>7, <4>8
    <3> QED
      BY <1>4, <2>1, <3>2
  <2>3. CASE Head(c2s).t \notin {"DOWN", "UP"}
    <3>1. UNCHANGED sdir
      BY <1>12, <2>3, OtherServed
    <3>2. \A k \in Keys : ~IsKey(Head(c2s), k)
      BY <2>3 DEF IsKey
    <3> QED
      BY <1>4, <2>1, <3>1, <3>2
  <2> QED
    BY <2>2, <2>3
<1>13. ASSUME NEW alive \in BOOLEAN, Hit(alive)
       PROVE  KeysInv'
  <2>1. ~crossed' => ~crossed /\ UNCHANGED <<c2s, sdir, down>>
    BY <1>13 DEF Hit, MoveTypeOK
  <2> QED
    BY <2>1 DEF KeysInv
<1> QED
  BY <1>5, <1>6, <1>7, <1>8, <1>9, <1>10, <1>11, <1>12, <1>13 DEF MoveNext

-----------------------------------------------------------------------------
(* Movement: the last packet of a kind                                     *)

LEMMA LastKept ==
    ASSUME NEW E, NEW q \in Seq(E), NEW ps \in Seq(E), NEW A, NEW B, NoneOf(ps, A)
    PROVE  /\ LastIn(q, A, B) => LastIn(q \o ps, A, B)
           /\ NoneOf(q \o ps, A) <=> NoneOf(q, A)
<1> DEFINE r == q \o ps
<1>1. /\ Len(q) \in Nat /\ Len(ps) \in Nat
      /\ DOMAIN q = 1 .. Len(q) /\ DOMAIN ps = 1 .. Len(ps)
      /\ DOMAIN r = 1 .. Len(q) + Len(ps)
      /\ \A i \in 1 .. Len(q) : r[i] = q[i]
      /\ \A i \in 1 .. Len(ps) : r[Len(q) + i] = ps[i]
  <2>1. q \in Seq(E) /\ ps \in Seq(E)
    OBVIOUS
  <2> QED
    BY ONLY <2>1, Joined
<1> HIDE DEF r
<1>2. ASSUME NEW i \in DOMAIN r, i \notin DOMAIN q
      PROVE  r[i] \notin A
  <2>1. i - Len(q) \in 1 .. Len(ps) /\ i = Len(q) + (i - Len(q))
    BY <1>1, <1>2
  <2> QED
    BY <1>1, <2>1 DEF NoneOf
<1>3. \A i \in DOMAIN q : i \in DOMAIN r /\ r[i] = q[i]
  BY <1>1
<1>4. LastIn(q, A, B) => LastIn(r, A, B)
  BY <1>2, <1>3 DEF LastIn
<1>5. NoneOf(r, A) <=> NoneOf(q, A)
  BY <1>2, <1>3 DEF NoneOf
<1> QED
  BY <1>4, <1>5 DEF r

LEMMA LastNew ==
    ASSUME NEW E, NEW q \in Seq(E), NEW p \in E, NEW A, NEW B, p \in A, p \in B
    PROVE  LastIn(q \o <<p>>, A, B) /\ ~NoneOf(q \o <<p>>, A)
<1> DEFINE r == q \o <<p>>
           n == Len(q) + 1
<1>1. n \in Nat /\ DOMAIN r = 1 .. n /\ n \in 1 .. n /\ r[n] = p
  OBVIOUS
<1> HIDE DEF r, n
<1>2. LastIn(r, A, B)
  <2> SUFFICES ASSUME NEW i \in DOMAIN r, \A j \in DOMAIN r : r[j] \in A => j <= i
               PROVE  r[i] \in B
    BY DEF LastIn
  <2>1. n <= i
    BY <1>1
  <2>2. i = n
    BY <1>1, <2>1
  <2> QED
    BY <1>1, <2>2
<1>3. ~NoneOf(r, A)
  BY <1>1 DEF NoneOf
<1> QED
  BY <1>2, <1>3 DEF r

LEMMA LastTaken ==
    ASSUME NEW E, NEW q \in Seq(E), q # <<>>, NEW A, NEW B
    PROVE  /\ LastIn(q, A, B) => LastIn(Tail(q), A, B)
           /\ NoneOf(q, A) <=> (Head(q) \notin A /\ NoneOf(Tail(q), A))
           /\ LastIn(q, A, B) /\ NoneOf(Tail(q), A) => Head(q) \notin A \/ Head(q) \in B
<1> DEFINE r == Tail(q)
           n == Len(q)
<1>1. /\ n \in Nat /\ n > 0 /\ Head(q) = q[1]
      /\ DOMAIN q = 1 .. n /\ DOMAIN r = 1 .. n - 1
      /\ \A i \in 1 .. n - 1 : r[i] = q[i + 1]
  <2>1. q \in Seq(E) /\ q # <<>>
    OBVIOUS
  <2> QED
    BY ONLY <2>1, Taken
<1> HIDE DEF r, n
<1>2. \A i \in 1 .. n - 1 : i + 1 \in 1 .. n /\ i \in Int /\ 1 <= i
  BY <1>1
<1>3. \A j \in 1 .. n : j = 1 \/ (j - 1 \in 1 .. n - 1 /\ q[j] = r[j - 1] /\ j \in Int)
  <2> SUFFICES ASSUME NEW j \in 1 .. n, j # 1
               PROVE  j - 1 \in 1 .. n - 1 /\ q[j] = r[j - 1] /\ j \in Int
    OBVIOUS
  <2>1. j - 1 \in 1 .. n - 1 /\ (j - 1) + 1 = j
    BY <1>1
  <2> QED
    BY <1>1, <2>1
<1>4. ASSUME LastIn(q, A, B), NEW i \in 1 .. n - 1, r[i] \in A,
             \A j \in 1 .. n - 1 : r[j] \in A => j <= i
      PROVE  r[i] \in B
  <2>1. i + 1 \in 1 .. n /\ q[i + 1] = r[i]
    BY <1>1, <1>2
  <2>2. ASSUME NEW j \in 1 .. n, q[j] \in A PROVE j <= i + 1
    <3>1. CASE j = 1
      BY <1>2, <3>1
    <3>2. CASE j # 1
      <4>1. j - 1 \in 1 .. n - 1 /\ q[j] = r[j - 1] /\ j \in Int
        BY <1>3, <3>2
      <4>2. j - 1 <= i
        BY <1>4, <2>2, <4>1
      <4> QED
        BY <1>2, <4>1, <4>2
    <3> QED
      BY <3>1, <3>2
  <2> QED
    BY <1>1, <1>4, <2>1, <2>2 DEF LastIn
<1>5. LastIn(q, A, B) => LastIn(r, A, B)
  BY <1>1, <1>4 DEF LastIn
<1>6. NoneOf(r, A) => \A j \in 1 .. n : q[j] \in A => j = 1
  BY <1>1, <1>3 DEF NoneOf
<1>7. NoneOf(q, A) <=> (Head(q) \notin A /\ NoneOf(r, A))
  <2>1. ASSUME NoneOf(q, A) PROVE Head(q) \notin A /\ NoneOf(r, A)
    <3>1. 1 \in 1 .. n
      BY <1>1
    <3> QED
      BY <1>1, <1>2, <2>1, <3>1 DEF NoneOf
  <2>2. ASSUME Head(q) \notin A, NoneOf(r, A) PROVE NoneOf(q, A)
    BY <1>1, <1>6, <2>2 DEF NoneOf
  <2> QED
    BY <2>1, <2>2
<1>8. ASSUME LastIn(q, A, B), NoneOf(r, A), Head(q) \in A PROVE Head(q) \in B
  <2>1. 1 \in 1 .. n /\ \A j \in 1 .. n : q[j] \in A => j <= 1
    BY <1>1, <1>6, <1>8
  <2> QED
    BY <1>1, <1>8, <2>1 DEF LastIn
<1> QED
  BY <1>5, <1>7, <1>8 DEF r

\* Which kind a packet is of is told by its first field.
LEMMA PacketKinds ==
    ASSUME NEW p \in ToClient
    PROVE  /\ p.t \in {"POS", "COLL", "HIT", "SWING", "DIE", "RESPAWN", "DONE"}
           /\ p.t = "POS" => p \in PosPackets /\ p.d \subseteq Keys /\ p.x \in Places
           /\ p.t = "COLL" => p \in CollPackets
           /\ p.t = "HIT" => p \in HitPackets /\ p.d \subseteq Keys /\ p.alive \in BOOLEAN
           /\ p.t = "RESPAWN" => p \in SpawnPackets /\ p.x \in Places
           /\ p.t \in {"SWING", "DIE", "DONE"} => p \in PlainPackets
           /\ p \in PosPackets <=> p.t = "POS"
           /\ p \in CollPackets <=> p.t = "COLL"
           /\ p \in HitPackets <=> p.t = "HIT"
           /\ p \in SpawnPackets <=> p.t = "RESPAWN"
           /\ p \in PlainPackets <=> p.t \in {"SWING", "DIE", "DONE"}
BY DEF ToClient, PosPackets, CollPackets, HitPackets, SpawnPackets, PlainPackets

\* What the steps that only send to the server send
LEMMA ClientSends ==
    ASSUME MoveTypeOK
    PROVE  /\ \A strikes : Swing(strikes) =>
                \E ps \in Seq(ToServer) : /\ c2s' = c2s \o ps /\ NoneOf(ps, Downs)
                                          /\ NoneOf(ps, Dones)
                                          /\ \A i \in DOMAIN ps : ps[i].t \in {"SWING", "STRIKE"}
           /\ Frame => \E ps \in Seq(ToServer) : /\ c2s' = c2s \o ps /\ NoneOf(ps, Downs)
                                                 /\ \A i \in DOMAIN ps : ps[i].t = "COLL"
           /\ Animate => \E p \in ToServer : c2s' = c2s \o <<p>> /\ p.t = "DONE" /\ p.room = buf
           /\ \A k \in Keys : KeyUp(k) =>
                \E p \in ToServer : c2s' = c2s \o <<p>> /\ p.t = "UP"
           /\ \A k \in Keys : KeyDown(k) =>
                \E p \in ToServer : c2s' = c2s \o <<p>> /\ p.t = "DOWN" /\ ~NoneOf(c2s', Downs)
<1>1. ASSUME NEW strikes, Swing(strikes)
      PROVE  \E ps \in Seq(ToServer) : /\ c2s' = c2s \o ps /\ NoneOf(ps, Downs)
                                       /\ NoneOf(ps, Dones)
                                       /\ \A i \in DOMAIN ps : ps[i].t \in {"SWING", "STRIKE"}
  <2>1. PICK n \in Nat : c2s' = c2s \o Strikes(n)
    BY <1>1, SwingSends
  <2>2. buf' \in BOOLEAN
    BY <1>1 DEF Swing
  <2>3. PICK s : s = Strikes(n)
    OBVIOUS
  <2>4. s \in Seq(ToServer) /\ Len(s) = n + 1 /\ s[1].t = "SWING" /\ \A i \in 1 .. n : s[i + 1].t = "STRIKE"
    BY <2>2, <2>3, SentTypes
  <2>5. ASSUME NEW i \in DOMAIN s PROVE s[i].t \in {"SWING", "STRIKE"}
    <3>1. i = 1 \/ (i - 1 \in 1 .. n /\ i = (i - 1) + 1)
      BY <2>4
    <3> QED
      BY <2>4, <3>1
  <2> QED
    BY <2>1, <2>3, <2>4, <2>5 DEF NoneOf, Downs, Dones
<1>2. ASSUME Frame
      PROVE  \E ps \in Seq(ToServer) : /\ c2s' = c2s \o ps /\ NoneOf(ps, Downs)
                                       /\ \A i \in DOMAIN ps : ps[i].t = "COLL"
  <2>1. PICK ps \in Seq(Arrows) : c2s' = c2s \o Tests(ps)
    BY <1>2, FrameSends
  <2>2. buf' \in BOOLEAN
    BY <1>2 DEF Frame, MoveTypeOK
  <2>3. PICK s : s = Tests(ps)
    OBVIOUS
  <2>4. s \in Seq(ToServer) /\ \A i \in DOMAIN s : s[i].t = "COLL"
    BY <2>2, <2>3, SentTypes
  <2> QED
    BY <2>1, <2>3, <2>4 DEF NoneOf, Downs
<1>3. ASSUME Animate
      PROVE  \E p \in ToServer : c2s' = c2s \o <<p>> /\ p.t = "DONE" /\ p.room = buf
  <2>1. buf' = buf /\ buf' \in BOOLEAN
    BY <1>3 DEF Animate, MoveTypeOK
  <2>2. PICK p : p = ActPacket("DONE")
    OBVIOUS
  <2>3. p \in ToServer /\ p.t = "DONE" /\ p.room = buf
    BY <2>1, <2>2, ClientPackets DEF ActPacket
  <2> QED
    BY <1>3, <2>2, <2>3 DEF Animate, SendAll
<1>4. ASSUME NEW k \in Keys, KeyUp(k)
      PROVE  \E p \in ToServer : c2s' = c2s \o <<p>> /\ p.t = "UP"
  <2>1. c2s' = c2s \o <<KeyPacket("UP", k)>> /\ buf' \in BOOLEAN
    BY <1>4 DEF KeyUp, SendAll
  <2>2. KeyPacket("UP", k) \in ToServer /\ KeyPacket("UP", k).t = "UP"
    BY <2>1 DEF KeyPacket, ToServer, KeyPackets, MoveTypeOK
  <2> QED
    BY <2>1, <2>2
<1>5. ASSUME NEW k \in Keys, KeyDown(k)
      PROVE  \E p \in ToServer : c2s' = c2s \o <<p>> /\ p.t = "DOWN" /\ ~NoneOf(c2s', Downs)
  <2>1. c2s' = c2s \o <<KeyPacket("DOWN", k)>> /\ buf' \in BOOLEAN
    BY <1>5 DEF KeyDown, SendAll
  <2>2. PICK p : p = KeyPacket("DOWN", k)
    OBVIOUS
  <2>3. p \in ToServer /\ p.t = "DOWN"
    BY <2>1, <2>2 DEF KeyPacket, ToServer, KeyPackets, MoveTypeOK
  <2>4. p \in Downs /\ c2s \in Seq(ToServer)
    BY <2>3 DEF Downs, MoveTypeOK
  <2>5. ~NoneOf(c2s \o <<p>>, Downs)
    BY ONLY <2>3, <2>4, LastNew
  <2> QED
    BY <2>1, <2>2, <2>3, <2>5
<1> QED
  BY <1>1, <1>2, <1>3, <1>4, <1>5

-----------------------------------------------------------------------------
(* Movement: the directions                                                *)

WithDir(d) == {p \in Turning : p.d = d}

\* One packet to the clients
LEMMA DirSentOne ==
    ASSUME MoveTypeOK, DirInv, NEW p \in ToClient, Broadcast(<<p>>),
           p \in Turning => p.d = sdir', p \notin Turning => UNCHANGED sdir
    PROVE  /\ odir' = sdir' /\ LastIn(s2c', Turning, WithDir(sdir'))
           /\ NoneOf(s2c', Turning) => p \notin Turning /\ NoneOf(s2c, Turning)
<1>0. s2c \in Seq(ToClient) /\ <<p>> \in Seq(ToClient) /\ p \in ToClient
  BY SentOne DEF MoveTypeOK
<1>1. s2c' = s2c \o <<p>> /\ Show(p)
  BY SentOne
<1>2. odir = sdir /\ LastIn(s2c, Turning, WithDir(sdir))
  BY DEF DirInv, WithDir
<1>3. CASE p \in Turning
  <2>1. PICK B : B = WithDir(sdir')
    OBVIOUS
  <2>2. p \in B
    BY <1>3, <2>1 DEF WithDir
  <2>3. LastIn(s2c \o <<p>>, Turning, B) /\ ~NoneOf(s2c \o <<p>>, Turning)
    BY ONLY <1>0, <1>3, <2>2, LastNew
  <2>4. p.t \in {"POS", "HIT"}
    BY <1>3 DEF Turning, PosPackets, HitPackets
  <2>5. odir' = p.d
    BY <1>1, <2>4 DEF Show
  <2> QED
    BY <1>1, <1>3, <2>1, <2>3, <2>5
<1>4. CASE p \notin Turning
  <2>1. p.t \notin {"POS", "HIT"}
    BY <1>4, PacketKinds DEF Turning
  <2>2. odir' = odir
    BY <1>1, <2>1 DEF Show
  <2>3. NoneOf(<<p>>, Turning)
    BY <1>4 DEF NoneOf
  <2>4. /\ LastIn(s2c, Turning, WithDir(sdir)) => LastIn(s2c \o <<p>>, Turning, WithDir(sdir))
        /\ NoneOf(s2c \o <<p>>, Turning) <=> NoneOf(s2c, Turning)
    BY ONLY <1>0, <2>3, LastKept
  <2> QED
    BY <1>1, <1>2, <1>4, <2>2, <2>4
<1> QED
  BY <1>3, <1>4

LEMMA DirStep ==
    ASSUME MoveTypeOK, DirInv, [MoveNext]_moveVars
    PROVE  DirInv'
<1> USE DEF own, server, other, counters, history
<1>0. /\ c2s \in Seq(ToServer) /\ s2c \in Seq(ToClient)
      /\ odir = sdir /\ LastIn(s2c, Turning, WithDir(sdir))
      /\ NoneOf(s2c, Turning) /\ NoneOf(c2s, Downs) => dir = sdir
  BY DEF MoveTypeOK, DirInv, WithDir
<1> SUFFICES /\ odir' = sdir' /\ LastIn(s2c', Turning, WithDir(sdir'))
             /\ NoneOf(s2c', Turning) /\ NoneOf(c2s', Downs) => dir' = sdir'
  BY DEF DirInv, WithDir
<1>1. CASE UNCHANGED moveVars \/ LoadComplete \/ OtherFrame
  BY <1>0, <1>1 DEF moveVars, LoadComplete, OtherFrame
<1>2. ASSUME NEW k \in Keys, KeyDown(k)
      PROVE  /\ UNCHANGED <<s2c, sdir, odir>> /\ ~NoneOf(c2s', Downs)
  BY <1>2, ClientSends DEF KeyDown
<1>3. ASSUME NEW ps \in Seq(ToServer), c2s' = c2s \o ps, NoneOf(ps, Downs),
             UNCHANGED <<s2c, sdir, odir, dir>>
      PROVE  /\ odir' = sdir' /\ LastIn(s2c', Turning, WithDir(sdir'))
             /\ NoneOf(s2c', Turning) /\ NoneOf(c2s', Downs) => dir' = sdir'
  <2>1. NoneOf(c2s \o ps, Downs) <=> NoneOf(c2s, Downs)
    BY ONLY <1>0, ps \in Seq(ToServer), NoneOf(ps, Downs), LastKept
  <2> QED
    BY <1>0, <1>3, <2>1
<1>4. ASSUME NEW k \in Keys, KeyUp(k)
      PROVE  \E ps \in Seq(ToServer) : c2s' = c2s \o ps /\ NoneOf(ps, Downs)
  <2>1. PICK p \in ToServer : c2s' = c2s \o <<p>> /\ p.t = "UP"
    BY <1>4, ClientSends
  <2>2. <<p>> \in Seq(ToServer) /\ NoneOf(<<p>>, Downs)
    BY <2>1 DEF NoneOf, Downs
  <2> QED
    BY <2>1, <2>2
<1>5. ASSUME NEW k \in Keys, KeyUp(k)
      PROVE  UNCHANGED <<s2c, sdir, odir, dir>>
  BY <1>5 DEF KeyUp
<1>6. ASSUME NEW strikes, Swing(strikes)
      PROVE  /\ UNCHANGED <<s2c, sdir, odir, dir>>
             /\ \E ps \in Seq(ToServer) : c2s' = c2s \o ps /\ NoneOf(ps, Downs)
  BY <1>6, ClientSends DEF Swing
<1>7. CASE Frame
  <2>1. /\ UNCHANGED <<s2c, sdir, odir, dir>>
        /\ \E ps \in Seq(ToServer) : c2s' = c2s \o ps /\ NoneOf(ps, Downs)
    BY <1>7, ClientSends DEF Frame
  <2> QED
    BY <2>1, <1>3
<1>8. CASE Animate
  <2>1. UNCHANGED <<s2c, sdir, odir, dir>>
    BY <1>8 DEF Animate
  <2>2. PICK p \in ToServer : c2s' = c2s \o <<p>> /\ p.t = "DONE"
    BY <1>8, ClientSends
  <2>3. <<p>> \in Seq(ToServer) /\ NoneOf(<<p>>, Downs)
    BY <2>2 DEF NoneOf, Downs
  <2> QED
    BY <2>1, <2>2, <2>3, <1>3
<1>9. CASE ReadPacket
  <2>1. s2c # <<>> /\ s2c' = Tail(s2c) /\ UNCHANGED <<c2s, sdir, odir>>
    BY <1>9 DEF ReadPacket
  <2>2. /\ LastIn(s2c, Turning, WithDir(sdir)) => LastIn(Tail(s2c), Turning, WithDir(sdir))
        /\ NoneOf(s2c, Turning) <=> (Head(s2c) \notin Turning /\ NoneOf(Tail(s2c), Turning))
        /\ LastIn(s2c, Turning, WithDir(sdir)) /\ NoneOf(Tail(s2c), Turning) =>
             Head(s2c) \notin Turning \/ Head(s2c) \in WithDir(sdir)
    BY ONLY <1>0, <2>1, LastTaken
  <2>3. Head(s2c) \in ToClient
    BY <2>1, Taken DEF MoveTypeOK
  <2>4. Head(s2c) \in Turning => dir' = Head(s2c).d
    <3>1. Head(s2c) \in Turning => Head(s2c).t \in {"POS", "HIT"}
      BY DEF Turning, PosPackets, HitPackets
    <3> QED
      BY <1>9, <3>1 DEF ReadPacket
  <2>5. Head(s2c) \notin Turning => dir' = dir
    <3>1. Head(s2c) \notin Turning => Head(s2c).t \notin {"POS", "HIT"}
      BY <2>3, PacketKinds DEF Turning
    <3> QED
      BY <1>9, <3>1 DEF ReadPacket
  <2>6. Head(s2c) \in WithDir(sdir) => Head(s2c).d = sdir
    BY DEF WithDir
  <2> QED
    BY <1>0, <2>1, <2>2, <2>4, <2>5, <2>6
<1>10. CASE Serve
  <2>1. c2s # <<>> /\ c2s' = Tail(c2s) /\ UNCHANGED dir
    BY <1>10 DEF Serve
  <2>2. NoneOf(c2s, Downs) <=> (Head(c2s) \notin Downs /\ NoneOf(Tail(c2s), Downs))
    BY ONLY <1>0, <2>1, LastTaken
  <2>3. CASE Head(c2s).t \in {"DOWN", "UP"}
    <3>1. Broadcast(<<PosPacket>>) /\ PosPacket \in ToClient
      BY <1>10, <2>3, KeyServed
    <3>2. PICK p : p = PosPacket
      OBVIOUS
    <3>3. p.d = sdir' /\ p \in Turning /\ p \in ToClient /\ Broadcast(<<p>>)
      BY <3>1, <3>2, PacketKinds DEF PosPacket, Turning
    <3> QED
      BY <3>3, DirSentOne
  <2>4. CASE Head(c2s).t \notin {"DOWN", "UP"}
    <3>1. UNCHANGED sdir /\ Head(c2s) \notin Downs
      BY <1>10, <2>4, OtherServed DEF Downs
    <3>2. \/ \E p \in ToClient : p.t \in {"COLL", "SWING", "DONE"} /\ Broadcast(<<p>>)
          \/ UNCHANGED <<odir, s2c>>
      BY <1>10, <2>4, OtherServed DEF CollPacket, SwingPacket, DonePacket
    <3>3. CASE UNCHANGED <<odir, s2c>>
      BY <1>0, <2>1, <2>2, <3>1, <3>3
    <3>4. CASE \E p \in ToClient : p.t \in {"COLL", "SWING", "DONE"} /\ Broadcast(<<p>>)
      <4>1. PICK p \in ToClient : p.t \in {"COLL", "SWING", "DONE"} /\ Broadcast(<<p>>)
        BY <3>4
      <4>2. p \notin Turning
        BY <4>1 DEF Turning, PosPackets, HitPackets
      <4>3. /\ odir' = sdir' /\ LastIn(s2c', Turning, WithDir(sdir'))
            /\ NoneOf(s2c', Turning) => NoneOf(s2c, Turning)
        BY <3>1, <4>1, <4>2, DirSentOne
      <4> QED
        BY <1>0, <2>1, <2>2, <3>1, <4>3
    <3> QED
      BY <3>2, <3>3, <3>4
  <2> QED
    BY <2>3, <2>4
<1>11. ASSUME NEW alive \in BOOLEAN, Hit(alive)
       PROVE  odir' = sdir' /\ LastIn(s2c', Turning, WithDir(sdir')) /\ ~NoneOf(s2c', Turning)
  <2>1. PICK h : h = HitPacket(alive)
    OBVIOUS
  <2>2. PICK d : d = DiePacket
    OBVIOUS
  <2>3. h \in ToClient /\ h \in Turning /\ h.t = "HIT" /\ h.d = sdir' /\ h.d = {}
    BY <1>11, <2>1 DEF Hit, HitPacket, ToClient, Turning, HitPackets
  <2>4. d \in ToClient /\ d \notin Turning
    BY <2>2 DEF DiePacket, ToClient, PlainPackets, Turning, PosPackets, HitPackets
  <2>5. CASE alive
    <3>1. Broadcast(<<h>>)
      BY <1>11, <2>1, <2>5 DEF Hit
    <3> QED
      BY <2>3, <3>1, DirSentOne
  <2>6. CASE ~alive
    <3>1. Broadcast(<<d, h>>)
      BY <1>11, <2>1, <2>2, <2>6 DEF Hit
    <3>2. s2c' = s2c \o <<d, h>> /\ Show(h)
      BY <2>3, <2>4, <3>1, SentTwo
    <3>3. PICK q : q = s2c \o <<d>>
      OBVIOUS
    <3>4. q \in Seq(ToClient) /\ s2c' = q \o <<h>>
      BY <1>0, <2>3, <2>4, <3>2, <3>3
    <3>5. PICK B : B = WithDir(sdir')
      OBVIOUS
    <3>6. h \in B /\ h \in Turning /\ h \in ToClient
      BY <2>3, <3>5 DEF WithDir
    <3>7. LastIn(q \o <<h>>, Turning, B) /\ ~NoneOf(q \o <<h>>, Turning)
      BY ONLY <3>4, <3>6, LastNew
    <3>8. odir' = sdir'
      BY <2>3, <3>2 DEF Show
    <3> QED
      BY <3>4, <3>5, <3>7, <3>8
  <2> QED
    BY <2>5, <2>6
<1>12. CASE Respawn
  <2>1. PICK p : p = RespawnPacket
    OBVIOUS
  <2>2. p \in ToClient /\ p.t = "RESPAWN" /\ Broadcast(<<p>>) /\ UNCHANGED <<sdir, c2s, dir>>
    BY <1>12, <2>1, MovementAssumption DEF Respawn, RespawnPacket, ToClient, SpawnPackets
  <2>3. p \notin Turning
    BY <2>2 DEF Turning, PosPackets, HitPackets
  <2>4. /\ odir' = sdir' /\ LastIn(s2c', Turning, WithDir(sdir'))
        /\ NoneOf(s2c', Turning) => NoneOf(s2c, Turning)
    BY <2>2, <2>3, DirSentOne
  <2> QED
    BY <1>0, <2>2, <2>4
<1>13. ASSUME NEW k \in Keys, KeyUp(k)
       PROVE  /\ odir' = sdir' /\ LastIn(s2c', Turning, WithDir(sdir'))
              /\ NoneOf(s2c', Turning) /\ NoneOf(c2s', Downs) => dir' = sdir'
  BY <1>3, <1>4, <1>5, <1>13
<1>14. ASSUME NEW strikes, Swing(strikes)
       PROVE  /\ odir' = sdir' /\ LastIn(s2c', Turning, WithDir(sdir'))
              /\ NoneOf(s2c', Turning) /\ NoneOf(c2s', Downs) => dir' = sdir'
  BY <1>3, <1>6, <1>14
<1>15. ASSUME NEW k \in Keys, KeyDown(k)
       PROVE  /\ odir' = sdir' /\ LastIn(s2c', Turning, WithDir(sdir'))
              /\ NoneOf(s2c', Turning) /\ NoneOf(c2s', Downs) => dir' = sdir'
  BY <1>0, <1>2, <1>15
<1> QED
  BY <1>1, <1>7, <1>8, <1>9, <1>10, <1>11, <1>12, <1>13, <1>14, <1>15 DEF MoveNext

-----------------------------------------------------------------------------
(* Movement: the places                                                    *)

\* A packet that puts the hero somewhere puts it there for the other client.
LEMMA PlaceSentOne ==
    ASSUME MoveTypeOK, NEW p \in ToClient, Broadcast(<<p>>), p.t \in {"POS", "RESPAWN"},
           p.x = spos'
    PROVE  /\ ohero' = spos' /\ LastIn(s2c', Moving, Putting(spos'))
           /\ ~NoneOf(s2c', Moving)
<1>0. s2c \in Seq(ToClient) /\ p \in ToClient
  BY DEF MoveTypeOK
<1>1. s2c' = s2c \o <<p>> /\ Show(p)
  BY SentOne
<1>2. PICK B : B = Putting(spos')
  OBVIOUS
<1>3. p \in B /\ p \in Moving
  BY <1>2, PacketKinds DEF Putting, Moving, Turning
<1>4. LastIn(s2c \o <<p>>, Moving, B) /\ ~NoneOf(s2c \o <<p>>, Moving)
  BY ONLY <1>0, <1>3, LastNew
<1> QED
  BY <1>1, <1>2, <1>4 DEF Show

LEMMA PlaceStep ==
    ASSUME MoveTypeOK, DirInv, PlaceInv, [MoveNext]_moveVars
    PROVE  PlaceInv'
<1> USE DEF own, server, other, counters, history
<1> DEFINE Still == sdir = {} /\ told \in {"POS", "RESPAWN"}
<1>0. /\ c2s \in Seq(ToServer) /\ s2c \in Seq(ToClient)
      /\ odir = sdir /\ (NoneOf(s2c, Turning) /\ NoneOf(c2s, Downs) => dir = sdir)
  BY DEF MoveTypeOK, DirInv
<1>1. Still => /\ ohero = spos /\ LastIn(s2c, Moving, Putting(spos))
               /\ NoneOf(s2c, Moving) /\ NoneOf(c2s, Downs) => hero = spos
  BY DEF PlaceInv
<1> HIDE DEF Still
<1> SUFFICES ASSUME Still'
             PROVE  /\ ohero' = spos' /\ LastIn(s2c', Moving, Putting(spos'))
                    /\ NoneOf(s2c', Moving) /\ NoneOf(c2s', Downs) => hero' = spos'
  BY DEF PlaceInv, Still
<1>2. CASE UNCHANGED moveVars \/ LoadComplete
  BY <1>1, <1>2 DEF moveVars, LoadComplete, Still
<1>3. ASSUME NEW ps \in Seq(ToServer), c2s' = c2s \o ps, NoneOf(ps, Downs),
             UNCHANGED <<s2c, sdir, spos, ohero, told, hero>>
      PROVE  /\ ohero' = spos' /\ LastIn(s2c', Moving, Putting(spos'))
             /\ NoneOf(s2c', Moving) /\ NoneOf(c2s', Downs) => hero' = spos'
  <2>1. NoneOf(c2s \o ps, Downs) <=> NoneOf(c2s, Downs)
    BY ONLY <1>0, ps \in Seq(ToServer), NoneOf(ps, Downs), LastKept
  <2>2. Still
    BY <1>3 DEF Still
  <2> QED
    BY <1>1, <1>3, <2>1, <2>2
<1>4. ASSUME NEW k \in Keys, KeyDown(k)
      PROVE  /\ ohero' = spos' /\ LastIn(s2c', Moving, Putting(spos'))
             /\ NoneOf(s2c', Moving) /\ NoneOf(c2s', Downs) => hero' = spos'
  <2>1. UNCHANGED <<s2c, sdir, spos, ohero, told, hero>>
    BY <1>4 DEF KeyDown
  <2>2. ~NoneOf(c2s', Downs)
    BY <1>4, ClientSends
  <2>3. Still
    BY <2>1 DEF Still
  <2> QED
    BY <1>1, <2>1, <2>2, <2>3
<1>5. ASSUME NEW k \in Keys, KeyUp(k)
      PROVE  /\ ohero' = spos' /\ LastIn(s2c', Moving, Putting(spos'))
             /\ NoneOf(s2c', Moving) /\ NoneOf(c2s', Downs) => hero' = spos'
  <2>1. PICK p \in ToServer : c2s' = c2s \o <<p>> /\ p.t = "UP"
    BY <1>5, ClientSends
  <2>2. <<p>> \in Seq(ToServer) /\ NoneOf(<<p>>, Downs)
    BY <2>1 DEF NoneOf, Downs
  <2>3. UNCHANGED <<s2c, sdir, spos, ohero, told, hero>>
    BY <1>5 DEF KeyUp
  <2> QED
    BY <1>3, <2>1, <2>2, <2>3
<1>6. ASSUME NEW strikes, Swing(strikes)
      PROVE  /\ ohero' = spos' /\ LastIn(s2c', Moving, Putting(spos'))
             /\ NoneOf(s2c', Moving) /\ NoneOf(c2s', Downs) => hero' = spos'
  <2>1. UNCHANGED <<s2c, sdir, spos, ohero, told, hero>>
    BY <1>6 DEF Swing
  <2> QED
    BY <1>3, <1>6, <2>1, ClientSends
<1>7. CASE Frame
  <2>1. UNCHANGED <<s2c, sdir, spos, ohero, told>> /\ dir # {}
    BY <1>7 DEF Frame
  <2>2. PICK ps \in Seq(ToServer) : c2s' = c2s \o ps /\ NoneOf(ps, Downs)
    BY <1>7, ClientSends
  <2>3. NoneOf(c2s \o ps, Downs) <=> NoneOf(c2s, Downs)
    BY ONLY <1>0, ps \in Seq(ToServer), <2>2, LastKept
  <2>4. Still /\ sdir = {}
    BY <2>1 DEF Still
  <2>5. NoneOf(s2c, Moving) => NoneOf(s2c, Turning)
    BY DEF NoneOf, Moving
  <2>6. ~(NoneOf(s2c', Moving) /\ NoneOf(c2s', Downs))
    BY <1>0, <2>1, <2>2, <2>3, <2>4, <2>5
  <2> QED
    BY <1>1, <2>1, <2>4, <2>6
<1>8. CASE Animate
  <2>1. PICK p \in ToServer : c2s' = c2s \o <<p>> /\ p.t = "DONE"
    BY <1>8, ClientSends
  <2>2. <<p>> \in Seq(ToServer) /\ NoneOf(<<p>>, Downs)
    BY <2>1 DEF NoneOf, Downs
  <2>3. UNCHANGED <<s2c, sdir, spos, ohero, told, hero>>
    BY <1>8 DEF Animate
  <2> QED
    BY <1>3, <2>1, <2>2, <2>3
<1>9. CASE ReadPacket
  <2>1. s2c # <<>> /\ s2c' = Tail(s2c) /\ UNCHANGED <<c2s, sdir, spos, ohero, told>>
    BY <1>9 DEF ReadPacket
  <2>2. Still
    BY <2>1 DEF Still
  <2>3. /\ LastIn(s2c, Moving, Putting(spos)) => LastIn(Tail(s2c), Moving, Putting(spos))
        /\ NoneOf(s2c, Moving) <=> (Head(s2c) \notin Moving /\ NoneOf(Tail(s2c), Moving))
        /\ LastIn(s2c, Moving, Putting(spos)) /\ NoneOf(Tail(s2c), Moving) =>
             Head(s2c) \notin Moving \/ Head(s2c) \in Putting(spos)
    BY ONLY <1>0, <2>1, LastTaken
  <2>4. Head(s2c) \in ToClient
    BY <2>1, Taken DEF MoveTypeOK
  <2>5. Head(s2c) \in Putting(spos) => hero' = spos
    <3>1. Head(s2c) \in Putting(spos) => Head(s2c).t \in {"POS", "RESPAWN"} /\ Head(s2c).x = spos
      BY DEF Putting, PosPackets, SpawnPackets
    <3> QED
      BY <1>9, <3>1 DEF ReadPacket, PutAt
  <2>6. Head(s2c) \notin Moving => hero' = hero
    <3>1. Head(s2c) \notin Moving => Head(s2c).t \notin {"POS", "COLL", "HIT", "RESPAWN"}
      BY <2>4, PacketKinds DEF Moving, Turning
    <3> QED
      BY <1>9, <3>1 DEF ReadPacket
  <2> QED
    BY <1>1, <2>1, <2>2, <2>3, <2>5, <2>6
<1>10. CASE Serve
  <2>1. c2s # <<>> /\ c2s' = Tail(c2s) /\ UNCHANGED hero
    BY <1>10 DEF Serve
  <2>2. NoneOf(c2s, Downs) <=> (Head(c2s) \notin Downs /\ NoneOf(Tail(c2s), Downs))
    BY ONLY <1>0, <2>1, LastTaken
  <2>3. CASE Head(c2s).t \in {"DOWN", "UP"}
    <3>1. Broadcast(<<PosPacket>>) /\ PosPacket \in ToClient
      BY <1>10, <2>3, KeyServed
    <3>2. PICK p : p = PosPacket
      OBVIOUS
    <3>3. p.t = "POS" /\ p.x = spos' /\ p \in ToClient /\ Broadcast(<<p>>)
      BY <3>1, <3>2 DEF PosPacket
    <3> QED
      BY <3>3, PlaceSentOne
  <2>4. CASE Head(c2s).t \notin {"DOWN", "UP"}
    <3>1. UNCHANGED <<sdir, spos>> /\ Head(c2s) \notin Downs
      BY <1>10, <2>4, OtherServed DEF Downs
    <3>2. \/ \E p \in ToClient : p.t \in {"SWING", "DONE"} /\ Broadcast(<<p>>) /\ told' = told
          \/ UNCHANGED <<ohero, s2c, told>>
          \/ told' = "COLL"
      BY <1>10, <2>4, OtherServed DEF SwingPacket, DonePacket
    <3>3. CASE UNCHANGED <<ohero, s2c, told>>
      <4>1. Still
        BY <3>1, <3>3 DEF Still
      <4> QED
        BY <1>1, <2>1, <2>2, <3>1, <3>3, <4>1
    <3>4. CASE \E p \in ToClient : p.t \in {"SWING", "DONE"} /\ Broadcast(<<p>>) /\ told' = told
      <4>1. PICK p \in ToClient : p.t \in {"SWING", "DONE"} /\ Broadcast(<<p>>) /\ told' = told
        BY <3>4
      <4>2. p \notin Moving
        BY <4>1 DEF Moving, Turning, PosPackets, HitPackets, CollPackets, SpawnPackets
      <4>3. s2c' = s2c \o <<p>> /\ <<p>> \in Seq(ToClient) /\ Show(p)
        BY <4>1, SentOne
      <4>4. ohero' = ohero
        BY <4>1, <4>3 DEF Show
      <4>5. NoneOf(<<p>>, Moving)
        BY <4>2 DEF NoneOf
      <4>6. /\ LastIn(s2c, Moving, Putting(spos)) => LastIn(s2c \o <<p>>, Moving, Putting(spos))
            /\ NoneOf(s2c \o <<p>>, Moving) <=> NoneOf(s2c, Moving)
        BY ONLY <1>0, <4>3, <4>5, LastKept
      <4>7. Still
        BY <3>1, <4>1 DEF Still
      <4> QED
        BY <1>1, <2>1, <2>2, <3>1, <4>3, <4>4, <4>6, <4>7
    <3>5. told' # "COLL"
      BY DEF Still
    <3> QED
      BY <3>2, <3>3, <3>4, <3>5
  <2> QED
    BY <2>3, <2>4
<1>11. ASSUME NEW alive \in BOOLEAN, Hit(alive)
       PROVE  FALSE
  BY <1>11 DEF Hit, Still
<1>12. CASE Respawn
  <2>1. PICK p : p = RespawnPacket
    OBVIOUS
  <2>2. p \in ToClient /\ p.t = "RESPAWN" /\ p.x = spos' /\ Broadcast(<<p>>)
    BY <1>12, <2>1, MovementAssumption DEF Respawn, RespawnPacket, ToClient, SpawnPackets
  <2> QED
    BY <2>2, PlaceSentOne
<1>13. CASE OtherFrame
  <2>1. odir # {} /\ UNCHANGED <<sdir, told>>
    BY <1>13 DEF OtherFrame
  <2> QED
    BY <1>0, <2>1 DEF Still
<1> QED
  BY <1>2, <1>4, <1>5, <1>6, <1>7, <1>8, <1>9, <1>10, <1>11, <1>12, <1>13 DEF MoveNext

-----------------------------------------------------------------------------
(* Movement: the number of the room                                        *)

LostDones == {p \in ToServer : p.t = "DONE" /\ ~p.room}

LEMMA DoneRooms ==
    ASSUME NEW q \in Seq(ToServer)
    PROVE  (\A i \in DOMAIN q : q[i].t = "DONE" => q[i].room) <=> NoneOf(q, LostDones)
<1>1. \A i \in DOMAIN q : q[i] \in ToServer
  OBVIOUS
<1> QED
  BY <1>1 DEF NoneOf, LostDones

LEMMA BufStep ==
    ASSUME MoveTypeOK, MoveTypeOK', BufInv, [MoveNext]_moveVars
    PROVE  BufInv'
<1> USE DEF own, server, other, counters, history
<1>0. c2s \in Seq(ToServer) /\ c2s' \in Seq(ToServer) /\ buf \in BOOLEAN /\ loaded \in BOOLEAN
  BY DEF MoveTypeOK
<1>1. (loaded => buf) /\ (~loaded => Quiet) /\ NoneOf(c2s, LostDones)
  <2>1. DoneReachesRoom
    BY DEF BufInv
  <2>2. NoneOf(c2s, LostDones)
    BY <1>0, <2>1, DoneRooms DEF DoneReachesRoom
  <2> QED
    BY <2>2 DEF BufInv
<1>2. ASSUME loaded' => buf', ~loaded' => Quiet', NoneOf(c2s', LostDones)
      PROVE  BufInv'
  <2>1. PICK q : q = c2s'
    OBVIOUS
  <2>2. q \in Seq(ToServer) /\ NoneOf(q, LostDones)
    BY <1>0, <1>2, <2>1
  <2>3. \A i \in DOMAIN q : q[i].t = "DONE" => q[i].room
    BY <2>2, DoneRooms
  <2> QED
    BY <1>2, <2>1, <2>3 DEF BufInv, DoneReachesRoom
<1>3. ASSUME loaded, UNCHANGED loaded, buf',
             \E ps \in Seq(ToServer) : c2s' = c2s \o ps /\ NoneOf(ps, LostDones)
      PROVE  BufInv'
  <2>1. PICK ps \in Seq(ToServer) : c2s' = c2s \o ps /\ NoneOf(ps, LostDones)
    BY <1>3
  <2>2. NoneOf(c2s \o ps, LostDones) <=> NoneOf(c2s, LostDones)
    BY ONLY <1>0, ps \in Seq(ToServer), <2>1, LastKept
  <2> QED
    BY <1>1, <1>2, <1>3, <2>1, <2>2
<1>4. ASSUME NEW ps \in Seq(ToServer), \A i \in DOMAIN ps : ps[i].t # "DONE"
      PROVE  NoneOf(ps, LostDones)
  BY <1>4 DEF NoneOf, LostDones
<1>5. CASE UNCHANGED moveVars
  BY <1>1, <1>2, <1>5 DEF moveVars, Quiet
<1>6. CASE LoadComplete \/ OtherFrame
  BY <1>1, <1>2, <1>6 DEF LoadComplete, OtherFrame, Quiet
<1>7. ASSUME NEW k \in Keys, KeyDown(k) \/ KeyUp(k)
      PROVE  BufInv'
  <2>1. PICK p \in ToServer : c2s' = c2s \o <<p>> /\ p.t \in {"DOWN", "UP"}
    BY <1>7, ClientSends
  <2>2. <<p>> \in Seq(ToServer) /\ NoneOf(<<p>>, LostDones)
    BY <2>1 DEF NoneOf, LostDones
  <2>3. loaded /\ UNCHANGED loaded /\ buf'
    BY <1>7 DEF KeyDown, KeyUp
  <2> QED
    BY <1>3, <2>1, <2>2, <2>3
<1>8. ASSUME NEW strikes, Swing(strikes)
      PROVE  BufInv'
  <2>1. PICK ps \in Seq(ToServer) : c2s' = c2s \o ps /\ \A i \in DOMAIN ps : ps[i].t \in {"SWING", "STRIKE"}
    BY <1>8, ClientSends
  <2>2. NoneOf(ps, LostDones)
    BY <1>4, <2>1
  <2>3. loaded /\ UNCHANGED loaded /\ buf'
    BY <1>8 DEF Swing
  <2> QED
    BY <1>3, <2>1, <2>2, <2>3
<1>9. CASE Frame
  <2>1. PICK ps \in Seq(ToServer) : c2s' = c2s \o ps /\ \A i \in DOMAIN ps : ps[i].t = "COLL"
    BY <1>9, ClientSends
  <2>2. NoneOf(ps, LostDones)
    BY <1>4, <2>1
  <2>3. loaded /\ UNCHANGED loaded
    BY <1>1, <1>9 DEF Frame, Quiet
  <2>4. buf'
    BY <1>1, <1>9, <2>3 DEF Frame
  <2> QED
    BY <1>3, <2>1, <2>2, <2>3, <2>4
<1>10. CASE Animate
  <2>1. loaded /\ UNCHANGED <<loaded, buf>>
    BY <1>1, <1>10 DEF Animate, DoneFlags, Quiet
  <2>2. PICK p \in ToServer : c2s' = c2s \o <<p>> /\ p.t = "DONE" /\ p.room = buf
    BY <1>10, ClientSends
  <2>3. buf /\ buf'
    BY <1>1, <2>1
  <2>4. p.room
    BY <2>2, <2>3
  <2>5. <<p>> \in Seq(ToServer) /\ NoneOf(<<p>>, LostDones)
    BY <2>2, <2>4 DEF NoneOf, LostDones
  <2> QED
    BY <1>3, <2>1, <2>2, <2>3, <2>5
<1>11. CASE ReadPacket
  <2>1. loaded /\ UNCHANGED <<loaded, buf, c2s>>
    BY <1>1, <1>11 DEF ReadPacket, Quiet
  <2> QED
    BY <1>1, <1>2, <2>1
<1>12. CASE Serve
  <2>1. loaded /\ UNCHANGED <<loaded, buf>> /\ c2s # <<>> /\ c2s' = Tail(c2s)
    BY <1>1, <1>12 DEF Serve, Quiet
  <2>2. NoneOf(c2s, LostDones) <=> (Head(c2s) \notin LostDones /\ NoneOf(Tail(c2s), LostDones))
    BY ONLY <1>0, <2>1, LastTaken
  <2> QED
    BY <1>1, <1>2, <2>1, <2>2
<1>13. ASSUME NEW alive \in BOOLEAN, Hit(alive)
       PROVE  BufInv'
  <2>1. loaded /\ UNCHANGED <<loaded, buf, c2s>>
    BY <1>13 DEF Hit
  <2> QED
    BY <1>1, <1>2, <2>1
<1>14. CASE Respawn
  <2>1. loaded /\ UNCHANGED <<loaded, buf, c2s>>
    BY <1>1, <1>14 DEF Respawn, Quiet
  <2> QED
    BY <1>1, <1>2, <2>1
<1> QED
  BY <1>5, <1>6, <1>7, <1>8, <1>9, <1>10, <1>11, <1>12, <1>13, <1>14 DEF MoveNext

-----------------------------------------------------------------------------
(* Movement: the animations                                                *)

LEMMA SwingsEndKept ==
    ASSUME NEW q \in Seq(ToServer), NEW ps \in Seq(ToServer),
           \A i \in DOMAIN ps : ps[i].t # "SWING", SwingsEnd(q)
    PROVE  SwingsEnd(q \o ps)
<1> DEFINE r == q \o ps
<1>1. /\ Len(q) \in Nat /\ Len(ps) \in Nat
      /\ DOMAIN q = 1 .. Len(q) /\ DOMAIN ps = 1 .. Len(ps)
      /\ DOMAIN r = 1 .. Len(q) + Len(ps)
      /\ \A i \in 1 .. Len(q) : r[i] = q[i]
      /\ \A i \in 1 .. Len(ps) : r[Len(q) + i] = ps[i]
  <2>1. q \in Seq(ToServer) /\ ps \in Seq(ToServer)
    OBVIOUS
  <2> QED
    BY ONLY <2>1, Joined
<1> HIDE DEF r
<1>2. ASSUME NEW i \in DOMAIN r, i \notin DOMAIN q
      PROVE  r[i].t # "SWING"
  <2>1. i - Len(q) \in 1 .. Len(ps) /\ i = Len(q) + (i - Len(q))
    BY <1>1, <1>2
  <2> QED
    BY <1>1, <2>1
<1>3. \A i \in DOMAIN q : i \in DOMAIN r /\ r[i] = q[i]
  BY <1>1
<1>4. SwingsEnd(r)
  BY <1>2, <1>3 DEF SwingsEnd
<1> QED
  BY <1>4 DEF r

LEMMA SwingsEndNew ==
    ASSUME NEW q \in Seq(ToServer), NEW p \in ToServer, p.t = "DONE"
    PROVE  SwingsEnd(q \o <<p>>)
<1> DEFINE r == q \o <<p>>
           n == Len(q) + 1
<1>1. n \in Nat /\ DOMAIN r = 1 .. n /\ n \in 1 .. n /\ r[n] = p
  OBVIOUS
<1> HIDE DEF r, n
<1>2. ASSUME NEW i \in DOMAIN r, r[i].t = "SWING"
      PROVE  i < n
  BY <1>1, <1>2
<1>3. SwingsEnd(r)
  BY <1>1, <1>2 DEF SwingsEnd
<1> QED
  BY <1>3 DEF r

LEMMA SwingsEndTaken ==
    ASSUME NEW q \in Seq(ToServer), q # <<>>, SwingsEnd(q)
    PROVE  /\ SwingsEnd(Tail(q))
           /\ Head(q).t = "SWING" => ~NoneOf(Tail(q), Dones)
<1> DEFINE r == Tail(q)
           n == Len(q)
<1>1. /\ n \in Nat /\ n > 0 /\ Head(q) = q[1]
      /\ DOMAIN q = 1 .. n /\ DOMAIN r = 1 .. n - 1
      /\ \A i \in 1 .. n - 1 : r[i] = q[i + 1]
      /\ \A i \in 1 .. n : q[i] \in ToServer
  <2>1. q \in Seq(ToServer) /\ q # <<>>
    OBVIOUS
  <2> QED
    BY ONLY <2>1, Taken
<1> HIDE DEF r, n
<1>2. ASSUME NEW i \in 1 .. n, q[i].t = "SWING"
      PROVE  \E j \in 1 .. n - 1 : i - 1 < j /\ r[j].t = "DONE" /\ r[j] \in ToServer
  <2>1. PICK j \in 1 .. n : i < j /\ q[j].t = "DONE"
    BY <1>1, <1>2 DEF SwingsEnd
  <2>2. j - 1 \in 1 .. n - 1 /\ i - 1 < j - 1 /\ (j - 1) + 1 = j
    BY <1>1, <2>1
  <2>3. r[j - 1] = q[j]
    BY <1>1, <2>2
  <2> QED
    BY <1>1, <2>1, <2>2, <2>3
<1>3. ASSUME NEW i \in 1 .. n - 1, r[i].t = "SWING"
      PROVE  \E j \in 1 .. n - 1 : i < j /\ r[j].t = "DONE"
  <2>1. i + 1 \in 1 .. n /\ q[i + 1].t = "SWING" /\ (i + 1) - 1 = i
    BY <1>1, <1>3
  <2>2. \E j \in 1 .. n - 1 : (i + 1) - 1 < j /\ r[j].t = "DONE"
    BY <1>2, <2>1
  <2> QED
    BY <2>1, <2>2
<1>4. SwingsEnd(r)
  BY <1>1, <1>3 DEF SwingsEnd
<1>5. Head(q).t = "SWING" => ~NoneOf(r, Dones)
  <2>1. 1 \in 1 .. n
    BY <1>1
  <2> QED
    BY <1>1, <1>2, <2>1 DEF NoneOf, Dones
<1> QED
  BY <1>4, <1>5 DEF r

\* Which packets start an animation
LEMMA StartingKinds ==
    ASSUME NEW p \in ToClient
    PROVE  /\ p \in Starting <=> p.t # "COLL" /\ (p.t = "HIT" => p.alive)
           /\ p \in Starting => \A a : Animation(p, a) = Animation(p, "IDLE")
           /\ p \notin Starting => \A a : Animation(p, a) = a
<1>1. p \in Starting <=> p.t # "COLL" /\ (p.t = "HIT" => p.alive)
  BY PacketKinds DEF Starting, Hurting
<1>2. p.t \in {"POS", "COLL", "HIT", "SWING", "DIE", "RESPAWN", "DONE"}
  BY PacketKinds
<1>3. p \in Starting => \A a : Animation(p, a) = Animation(p, "IDLE")
  BY <1>1, <1>2 DEF Animation
<1>4. p \notin Starting => \A a : Animation(p, a) = a
  BY <1>1, <1>2 DEF Animation
<1> QED
  BY <1>1, <1>3, <1>4

LEMMA AnimSentOne ==
    ASSUME MoveTypeOK, AnimInv, NEW p \in ToClient, Broadcast(<<p>>)
    PROVE  /\ LastIn(s2c', Starting, ShowingAs(oanim'))
           /\ NoneOf(s2c', Starting) => NoneOf(s2c, Starting) /\ oanim' = oanim
           /\ oanim' = IF p \in Starting THEN Animation(p, "IDLE") ELSE oanim
           /\ NoneOf(s2c', Hurting) => NoneOf(s2c, Hurting)
           /\ p \in Hurting => ~NoneOf(s2c', Hurting)
<1>0. s2c \in Seq(ToClient) /\ <<p>> \in Seq(ToClient) /\ p \in ToClient
  BY SentOne DEF MoveTypeOK
<1>1. s2c' = s2c \o <<p>> /\ oanim' = Animation(p, oanim)
  BY SentOne
<1>2. LastIn(s2c, Starting, ShowingAs(oanim))
  BY DEF AnimInv
<1>3. oanim' = IF p \in Starting THEN Animation(p, "IDLE") ELSE oanim
  BY <1>1, StartingKinds
<1>4. /\ LastIn(s2c', Starting, ShowingAs(oanim'))
      /\ NoneOf(s2c', Starting) => NoneOf(s2c, Starting) /\ oanim' = oanim
  <2>1. CASE p \in Starting
    <3>1. PICK B : B = ShowingAs(oanim')
      OBVIOUS
    <3>2. p \in B
      BY <1>3, <2>1, <3>1 DEF ShowingAs
    <3>3. LastIn(s2c \o <<p>>, Starting, B) /\ ~NoneOf(s2c \o <<p>>, Starting)
      BY ONLY <1>0, <2>1, <3>2, LastNew
    <3> QED
      BY <1>1, <3>1, <3>3
  <2>2. CASE p \notin Starting
    <3>1. NoneOf(<<p>>, Starting)
      BY <2>2 DEF NoneOf
    <3>2. /\ LastIn(s2c, Starting, ShowingAs(oanim)) => LastIn(s2c \o <<p>>, Starting, ShowingAs(oanim))
          /\ NoneOf(s2c \o <<p>>, Starting) <=> NoneOf(s2c, Starting)
      BY ONLY <1>0, <3>1, LastKept
    <3>3. oanim' = oanim
      BY <1>3, <2>2
    <3> QED
      BY <1>1, <1>2, <3>2, <3>3
  <2> QED
    BY <2>1, <2>2
<1>5. /\ NoneOf(s2c', Hurting) => NoneOf(s2c, Hurting)
      /\ p \in Hurting => ~NoneOf(s2c', Hurting)
  <2>1. CASE p \in Hurting
    <3>1. PICK B : p \in B
      OBVIOUS
    <3>2. ~NoneOf(s2c \o <<p>>, Hurting)
      BY ONLY <1>0, <2>1, <3>1, LastNew
    <3> QED
      BY <1>1, <3>2
  <2>2. CASE p \notin Hurting
    <3>1. NoneOf(<<p>>, Hurting)
      BY <2>2 DEF NoneOf
    <3>2. NoneOf(s2c \o <<p>>, Hurting) <=> NoneOf(s2c, Hurting)
      BY ONLY <1>0, <3>1, LastKept
    <3> QED
      BY <1>1, <2>2, <3>2
  <2> QED
    BY <2>1, <2>2
<1> QED
  BY <1>3, <1>4, <1>5

LEMMA AnimStep ==
    ASSUME MoveTypeOK, MoveTypeOK', BufInv, AnimInv, [MoveNext]_moveVars
    PROVE  AnimInv'
<1> USE DEF own, server, other, counters, history
<1>0. c2s \in Seq(ToServer) /\ s2c \in Seq(ToClient) /\ oanim \in Animations
  BY DEF MoveTypeOK
<1>1. /\ LastIn(s2c, Starting, ShowingAs(oanim))
      /\ NoneOf(s2c, Starting) => anim = oanim
      /\ oanim = "RUN" => sdir # {}
      /\ oanim \in {"SWING", "HIT", "DIE"} =>
           doing # {} \/ ~NoneOf(c2s, Dones) \/ ~NoneOf(s2c, Hurting)
      /\ doing # {} \/ SwingsEnd(c2s)
  BY DEF AnimInv
<1>2. ASSUME NEW ps \in Seq(ToServer), c2s' = c2s \o ps,
             doing' # {} \/ (doing' = doing /\ \A i \in DOMAIN ps : ps[i].t # "SWING"),
             UNCHANGED <<s2c, sdir, anim, oanim>>
      PROVE  AnimInv'
  <2>1. doing' # {} \/ SwingsEnd(c2s')
    BY <1>0, <1>1, <1>2, SwingsEndKept
  <2>2. NoneOf(c2s', Dones) => NoneOf(c2s, Dones)
    <3>1. c2s' = c2s \o ps
      BY <1>2
    <3>2. \A i \in DOMAIN c2s : i \in DOMAIN (c2s \o ps) /\ (c2s \o ps)[i] = c2s[i]
      <4>1. /\ Len(c2s) \in Nat /\ Len(ps) \in Nat /\ DOMAIN c2s = 1 .. Len(c2s)
            /\ DOMAIN (c2s \o ps) = 1 .. Len(c2s) + Len(ps)
            /\ \A i \in 1 .. Len(c2s) : (c2s \o ps)[i] = c2s[i]
        BY ONLY <1>0, ps \in Seq(ToServer), Joined
      <4> QED
        BY <4>1
    <3> QED
      BY <3>1, <3>2 DEF NoneOf
  <2> QED
    BY <1>1, <1>2, <2>1, <2>2 DEF AnimInv
<1>3. ASSUME NEW p \in ToClient, Broadcast(<<p>>), UNCHANGED <<doing, anim>>,
             doing # {} \/ SwingsEnd(c2s'),
             oanim' = "RUN" => sdir' # {},
             oanim' \in {"SWING", "HIT", "DIE"} =>
               doing # {} \/ ~NoneOf(c2s', Dones) \/ ~NoneOf(s2c', Hurting)
      PROVE  AnimInv'
  <2>1. /\ LastIn(s2c', Starting, ShowingAs(oanim'))
        /\ NoneOf(s2c', Starting) => NoneOf(s2c, Starting) /\ oanim' = oanim
    BY <1>3, AnimSentOne
  <2> QED
    BY <1>1, <1>3, <2>1 DEF AnimInv
<1>4. CASE UNCHANGED moveVars
  BY <1>1, <1>4 DEF moveVars, AnimInv
<1>5. CASE LoadComplete \/ OtherFrame
  BY <1>1, <1>5 DEF LoadComplete, OtherFrame, AnimInv
<1>6. ASSUME NEW k \in Keys, KeyDown(k) \/ KeyUp(k)
      PROVE  AnimInv'
  <2>1. PICK p \in ToServer : c2s' = c2s \o <<p>> /\ p.t \in {"DOWN", "UP"}
    BY <1>6, ClientSends
  <2>2. <<p>> \in Seq(ToServer) /\ \A i \in DOMAIN <<p>> : <<p>>[i].t # "SWING"
    BY <2>1
  <2>3. UNCHANGED <<doing, s2c, sdir, anim, oanim>>
    BY <1>6 DEF KeyDown, KeyUp
  <2> QED
    BY <1>2, <2>1, <2>2, <2>3
<1>7. ASSUME NEW strikes, Swing(strikes)
      PROVE  AnimInv'
  <2>1. PICK ps \in Seq(ToServer) : c2s' = c2s \o ps
    BY <1>7, ClientSends
  <2>2. doing' # {} /\ UNCHANGED <<s2c, sdir, anim, oanim>>
    BY <1>7 DEF Swing
  <2> QED
    BY <1>2, <2>1, <2>2
<1>8. CASE Frame
  <2>1. PICK ps \in Seq(ToServer) : c2s' = c2s \o ps /\ \A i \in DOMAIN ps : ps[i].t = "COLL"
    BY <1>8, ClientSends
  <2>2. UNCHANGED <<doing, s2c, sdir, anim, oanim>>
    BY <1>8 DEF Frame
  <2>3. \A i \in DOMAIN ps : ps[i].t # "SWING"
    BY <2>1
  <2> QED
    BY <1>2, <2>1, <2>2, <2>3
<1>9. CASE Animate
  <2>1. PICK p \in ToServer : c2s' = c2s \o <<p>> /\ p.t = "DONE"
    BY <1>9, ClientSends
  <2>2. UNCHANGED <<s2c, sdir, anim, oanim>>
    BY <1>9 DEF Animate
  <2>3. SwingsEnd(c2s \o <<p>>)
    BY <1>0, <2>1, SwingsEndNew
  <2>4. p \in Dones
    BY <2>1 DEF Dones
  <2>5. PICK B : p \in B
    OBVIOUS
  <2>6. ~NoneOf(c2s \o <<p>>, Dones)
    BY ONLY <1>0, p \in ToServer, <2>4, <2>5, LastNew
  <2> QED
    BY <1>1, <2>1, <2>2, <2>3, <2>6 DEF AnimInv
<1>10. CASE ReadPacket
  <2>1. s2c # <<>> /\ s2c' = Tail(s2c) /\ UNCHANGED <<c2s, sdir, oanim>>
        /\ anim' = Animation(Head(s2c), anim)
    BY <1>10 DEF ReadPacket
  <2>2. Head(s2c) \in ToClient
    BY <2>1, Taken DEF MoveTypeOK
  <2>3. /\ LastIn(s2c, Starting, ShowingAs(oanim)) => LastIn(Tail(s2c), Starting, ShowingAs(oanim))
        /\ NoneOf(s2c, Starting) <=> (Head(s2c) \notin Starting /\ NoneOf(Tail(s2c), Starting))
        /\ LastIn(s2c, Starting, ShowingAs(oanim)) /\ NoneOf(Tail(s2c), Starting) =>
             Head(s2c) \notin Starting \/ Head(s2c) \in ShowingAs(oanim)
    BY ONLY <1>0, <2>1, LastTaken
  <2>4. NoneOf(s2c, Hurting) <=> (Head(s2c) \notin Hurting /\ NoneOf(Tail(s2c), Hurting))
    BY ONLY <1>0, <2>1, LastTaken
  <2>5. Head(s2c) \in ShowingAs(oanim) => anim' = oanim
    BY <2>1, <2>2, StartingKinds DEF ShowingAs
  <2>6. Head(s2c) \notin Starting => anim' = anim
    BY <2>1, <2>2, StartingKinds
  <2>7. doing \subseteq doing' /\ (Head(s2c) \in Hurting => doing' # {})
    BY <1>10 DEF ReadPacket, FlagsOfHit, Hurting
  <2>8. doing # {} => doing' # {}
    BY <2>7
  <2>9. LastIn(s2c', Starting, ShowingAs(oanim')) /\ (NoneOf(s2c', Starting) => anim' = oanim')
    BY <1>1, <2>1, <2>3, <2>5, <2>6
  <2> QED
    BY <1>1, <2>1, <2>4, <2>7, <2>8, <2>9 DEF AnimInv
<1>11. CASE Serve
  <2>1. c2s # <<>> /\ c2s' = Tail(c2s) /\ UNCHANGED <<doing, anim>>
    BY <1>11 DEF Serve
  <2>2. NoneOf(c2s, Dones) <=> (Head(c2s) \notin Dones /\ NoneOf(Tail(c2s), Dones))
    BY ONLY <1>0, <2>1, LastTaken
  <2>3. SwingsEnd(c2s) => /\ SwingsEnd(Tail(c2s))
                          /\ Head(c2s).t = "SWING" => ~NoneOf(Tail(c2s), Dones)
    BY ONLY <1>0, <2>1, SwingsEndTaken
  <2>4. doing # {} \/ SwingsEnd(c2s')
    BY <1>1, <2>1, <2>3
  <2>5. Head(c2s) \in ToServer
    BY <2>1, Taken DEF MoveTypeOK
  <2>6. Head(c2s) \in Dones <=> Head(c2s).t = "DONE"
    BY <2>5 DEF Dones
  <2>7. CASE Head(c2s).t \in {"DOWN", "UP"}
    <3>1. Broadcast(<<PosPacket>>) /\ PosPacket \in ToClient
      BY <1>11, <2>7, KeyServed
    <3>2. PICK p : p = PosPacket
      OBVIOUS
    <3>3. p.t = "POS" /\ p.d = sdir' /\ p \in ToClient /\ Broadcast(<<p>>)
      BY <3>1, <3>2 DEF PosPacket
    <3>4. oanim' = Animation(p, "IDLE")
      BY <3>3, AnimSentOne, StartingKinds
    <3>5. oanim' = IF sdir' = {} THEN "IDLE" ELSE "RUN"
      BY <3>3, <3>4 DEF Animation
    <3> QED
      BY <1>3, <2>1, <2>4, <3>3, <3>5
  <2>8. CASE Head(c2s).t \notin {"DOWN", "UP"}
    <3>1. UNCHANGED sdir
      BY <1>11, <2>8, OtherServed
    <3>2. \/ /\ Head(c2s).t = "COLL"
             /\ \E p \in ToClient : p.t = "COLL" /\ Broadcast(<<p>>)
          \/ /\ Head(c2s).t = "SWING"
             /\ \E p \in ToClient : p.t = "SWING" /\ Broadcast(<<p>>)
          \/ Head(c2s).t = "STRIKE" /\ UNCHANGED <<oanim, s2c>>
          \/ /\ Head(c2s).t = "DONE"
             /\ \E p \in ToClient : p.t = "DONE" /\ Broadcast(<<p>>)
          \/ Head(c2s).t = "DONE" /\ ~Head(c2s).room
      BY <1>11, <2>8, OtherServed DEF CollPacket, SwingPacket, DonePacket
    <3>3. CASE /\ Head(c2s).t = "COLL"
               /\ \E p \in ToClient : p.t = "COLL" /\ Broadcast(<<p>>)
      <4>1. PICK p \in ToClient : p.t = "COLL" /\ Broadcast(<<p>>)
        BY <3>3
      <4>2. p \notin Starting
        BY <4>1, StartingKinds
      <4>3. oanim' = oanim /\ (NoneOf(s2c', Hurting) => NoneOf(s2c, Hurting))
        BY <4>1, <4>2, AnimSentOne
      <4>4. NoneOf(c2s', Dones) => NoneOf(c2s, Dones)
        BY <2>1, <2>2, <2>6, <3>3
      <4> QED
        BY <1>1, <1>3, <2>1, <2>4, <3>1, <4>1, <4>3, <4>4
    <3>4. CASE /\ Head(c2s).t = "SWING"
               /\ \E p \in ToClient : p.t = "SWING" /\ Broadcast(<<p>>)
      <4>1. PICK p \in ToClient : p.t = "SWING" /\ Broadcast(<<p>>)
        BY <3>4
      <4>2. oanim' = Animation(p, "IDLE")
        BY <4>1, AnimSentOne, StartingKinds
      <4>3. oanim' = "SWING"
        BY <4>1, <4>2 DEF Animation
      <4>4. doing # {} \/ ~NoneOf(c2s', Dones)
        BY <1>1, <2>1, <2>3, <3>4
      <4> QED
        BY <1>3, <2>1, <2>4, <4>1, <4>3, <4>4
    <3>5. CASE Head(c2s).t = "STRIKE" /\ UNCHANGED <<oanim, s2c>>
      <4>1. NoneOf(c2s', Dones) => NoneOf(c2s, Dones)
        BY <2>1, <2>2, <2>6, <3>5
      <4> QED
        BY <1>1, <2>1, <2>4, <3>1, <3>5, <4>1 DEF AnimInv
    <3>6. CASE /\ Head(c2s).t = "DONE"
               /\ \E p \in ToClient : p.t = "DONE" /\ Broadcast(<<p>>)
      <4>1. PICK p \in ToClient : p.t = "DONE" /\ Broadcast(<<p>>)
        BY <3>6
      <4>2. oanim' = Animation(p, "IDLE")
        BY <4>1, AnimSentOne, StartingKinds
      <4>3. oanim' = "IDLE"
        BY <4>1, <4>2 DEF Animation
      <4> QED
        BY <1>3, <2>1, <2>4, <4>1, <4>3
    <3>7. ~(Head(c2s).t = "DONE" /\ ~Head(c2s).room)
      <4>1. Head(c2s) = c2s[1] /\ 1 \in DOMAIN c2s
        BY <1>0, <2>1, Taken
      <4> QED
        BY <4>1 DEF BufInv, DoneReachesRoom
    <3> QED
      BY <3>2, <3>3, <3>4, <3>5, <3>6, <3>7
  <2> QED
    BY <2>7, <2>8
<1>12. ASSUME NEW alive \in BOOLEAN, Hit(alive)
       PROVE  AnimInv'
  <2>1. PICK h : h = HitPacket(alive)
    OBVIOUS
  <2>2. PICK d : d = DiePacket
    OBVIOUS
  <2>3. h \in ToClient /\ h.t = "HIT" /\ h.alive = alive
    BY <1>12, <2>1 DEF Hit, HitPacket, ToClient, HitPackets
  <2>4. d \in ToClient /\ d.t = "DIE"
    BY <2>2 DEF DiePacket, ToClient, PlainPackets
  <2>5. UNCHANGED <<doing, anim, c2s>> /\ sdir' = {}
    BY <1>12 DEF Hit
  <2>6. CASE alive
    <3>1. Broadcast(<<h>>)
      BY <1>12, <2>1, <2>6 DEF Hit
    <3>2. h \in Hurting /\ h \in Starting
      BY <2>3, <2>6, StartingKinds DEF Hurting
    <3>3. oanim' = Animation(h, "IDLE") /\ ~NoneOf(s2c', Hurting)
      BY <2>3, <3>1, <3>2, AnimSentOne
    <3>4. oanim' = "HIT"
      BY <2>3, <2>6, <3>3 DEF Animation
    <3> QED
      BY <1>1, <1>3, <2>3, <2>5, <3>1, <3>3, <3>4
  <2>7. CASE ~alive
    <3>1. Broadcast(<<d, h>>)
      BY <1>12, <2>1, <2>2, <2>7 DEF Hit
    <3>2. s2c' = s2c \o <<d, h>> /\ oanim' = Animation(h, Animation(d, oanim))
      BY <2>3, <2>4, <3>1, SentTwo
    <3>3. d \in Hurting /\ d \in Starting /\ h \notin Hurting /\ h \notin Starting
      BY <2>3, <2>4, <2>7, StartingKinds DEF Hurting
    <3>4. oanim' = "DIE" /\ Animation(d, "IDLE") = "DIE"
      BY <2>3, <2>4, <2>7, <3>2 DEF Animation
    <3>5. PICK q : q = s2c \o <<d>>
      OBVIOUS
    <3>6. q \in Seq(ToClient) /\ s2c' = q \o <<h>> /\ <<h>> \in Seq(ToClient)
      BY <1>0, <2>3, <2>4, <3>2, <3>5
    <3>7. PICK B : B = ShowingAs("DIE")
      OBVIOUS
    <3>8. d \in B
      BY <3>3, <3>4, <3>7 DEF ShowingAs
    <3>9. LastIn(q, Starting, B) /\ ~NoneOf(q, Starting)
      BY ONLY <1>0, <2>4, <3>3, <3>5, <3>8, LastNew
    <3>10. ~NoneOf(q, Hurting)
      BY ONLY <1>0, <2>4, <3>3, <3>5, <3>8, LastNew
    <3>11. NoneOf(<<h>>, Starting) /\ NoneOf(<<h>>, Hurting)
      BY <3>3 DEF NoneOf
    <3>12. /\ LastIn(q, Starting, B) => LastIn(q \o <<h>>, Starting, B)
           /\ NoneOf(q \o <<h>>, Starting) <=> NoneOf(q, Starting)
      BY ONLY <3>6, <3>11, LastKept
    <3>13. NoneOf(q \o <<h>>, Hurting) <=> NoneOf(q, Hurting)
      BY ONLY <3>6, <3>11, LastKept
    <3>14. LastIn(s2c', Starting, ShowingAs(oanim')) /\ ~NoneOf(s2c', Starting)
           /\ ~NoneOf(s2c', Hurting)
      BY <3>4, <3>6, <3>7, <3>9, <3>10, <3>12, <3>13
    <3> QED
      BY <1>1, <2>5, <3>4, <3>14 DEF AnimInv
  <2> QED
    BY <2>6, <2>7
<1>13. CASE Respawn
  <2>1. PICK p : p = RespawnPacket
    OBVIOUS
  <2>2. p \in ToClient /\ p.t = "RESPAWN" /\ Broadcast(<<p>>) /\ UNCHANGED <<doing, anim, c2s>>
    BY <1>13, <2>1, MovementAssumption DEF Respawn, RespawnPacket, ToClient, SpawnPackets
  <2>3. oanim' = Animation(p, "IDLE")
    BY <2>2, AnimSentOne, StartingKinds
  <2>4. oanim' = "IDLE"
    BY <2>2, <2>3 DEF Animation
  <2> QED
    BY <1>1, <1>3, <2>2, <2>4
<1> QED
  BY <1>4, <1>5, <1>6, <1>7, <1>8, <1>9, <1>10, <1>11, <1>12, <1>13 DEF MoveNext

-----------------------------------------------------------------------------
(* Movement: the theorems                                                  *)

LEMMA MoveInvInit == MoveInit => MoveInv
<1> SUFFICES ASSUME MoveInit PROVE MoveInv
  OBVIOUS
<1>1. MoveTypeOK
  BY MoveTypeInit
<1>2. c2s = <<>> /\ s2c = <<>> /\ DOMAIN c2s = {} /\ DOMAIN s2c = {}
  BY DEF MoveInit
<1>3. KeysInv
  BY <1>2 DEF MoveInit, KeysInv, TakeTurns, About
<1>4. DirInv
  BY <1>2 DEF MoveInit, DirInv, LastIn
<1>5. PlaceInv
  BY <1>2 DEF MoveInit, PlaceInv, LastIn
<1>6. BufInv
  BY <1>2 DEF MoveInit, BufInv, Quiet, DoneReachesRoom
<1>7. AnimInv
  BY <1>2 DEF MoveInit, AnimInv, LastIn, SwingsEnd
<1> QED
  BY <1>1, <1>3, <1>4, <1>5, <1>6, <1>7 DEF MoveInv

LEMMA MoveInvStep == MoveInv /\ [MoveNext]_moveVars => MoveInv'
<1> SUFFICES ASSUME MoveInv, [MoveNext]_moveVars PROVE MoveInv'
  OBVIOUS
<1>1. MoveTypeOK /\ KeysInv /\ DirInv /\ PlaceInv /\ BufInv /\ AnimInv
  BY DEF MoveInv
<1>2. MoveTypeOK'
  BY <1>1, MoveTypeStep
<1>3. KeysInv' /\ DirInv' /\ PlaceInv'
  BY <1>1, KeysStep, DirStep, PlaceStep
<1>4. BufInv' /\ AnimInv'
  BY <1>1, <1>2, BufStep, AnimStep
<1> QED
  BY <1>2, <1>3, <1>4 DEF MoveInv

\* The invariant of Movement for any arrows, places, other heroes and bounds:
\* key packets of an arrow take turns, the last packet with a direction, of a
\* place or of an animation on its way to a client agrees with the server, and
\* byte 2 of send_buffer is the room's number from CS_LOADCOMPLETE on.
THEOREM MoveInvariant == MoveSpec => []MoveInv
<1> QED
  BY MoveInvInit, MoveInvStep, PTL DEF MoveSpec

LEMMA MoveInvGivesStops == MoveInv => StopsWhenReleased
<1> SUFFICES ASSUME MoveInv, Delivered, HandsOff, ~crossed
             PROVE  sdir = {} /\ dir = {} /\ odir = {}
  BY DEF StopsWhenReleased
<1>1. c2s = <<>> /\ s2c = <<>> /\ down = {} /\ sdir \subseteq Keys
  BY DEF Delivered, HandsOff, MoveInv, MoveTypeOK
<1>2. \A k \in Keys : TakeTurns(c2s, k, sdir, down)
  BY DEF MoveInv, KeysInv
<1>3. \A k \in Keys : k \notin sdir
  BY <1>1, <1>2 DEF TakeTurns, About
<1>4. sdir = {}
  BY <1>1, <1>3
<1>5. odir = sdir /\ dir = sdir
  BY <1>1 DEF MoveInv, DirInv, NoneOf
<1> QED
  BY <1>4, <1>5

LEMMA MoveInvGivesPlaces == MoveInv => PlacesAgree
<1> SUFFICES ASSUME MoveInv, Delivered
             PROVE  /\ odir = sdir /\ dir = sdir
                    /\ sdir = {} /\ told \in {"POS", "RESPAWN"} =>
                         hero = spos /\ ohero = spos
  BY DEF PlacesAgree
<1>1. c2s = <<>> /\ s2c = <<>>
  BY DEF Delivered
<1>2. odir = sdir /\ dir = sdir
  BY <1>1 DEF MoveInv, DirInv, NoneOf
<1>3. sdir = {} /\ told \in {"POS", "RESPAWN"} => hero = spos /\ ohero = spos
  BY <1>1 DEF MoveInv, PlaceInv, NoneOf
<1> QED
  BY <1>2, <1>3

LEMMA MoveInvGivesAnimations == MoveInv => AnimationsEnd
<1> SUFFICES ASSUME MoveInv, Delivered, doing = {}
             PROVE  \A a \in {anim, oanim} : a = "IDLE" \/ (a = "RUN" /\ sdir # {})
  BY DEF AnimationsEnd
<1>1. c2s = <<>> /\ s2c = <<>>
  BY DEF Delivered
<1>2. /\ anim = oanim /\ oanim \notin {"SWING", "HIT", "DIE"}
      /\ oanim = "RUN" => sdir # {}
  BY <1>1 DEF MoveInv, AnimInv, NoneOf
<1>3. oanim \in Animations
  BY DEF MoveInv, MoveTypeOK
<1> QED
  BY <1>2, <1>3 DEF Animations

\* Whatever arrows go down and come up during animations, hits and deaths: once
\* all is let go and delivered, the hero stands for the client that steers it,
\* the server and the other client, unless a hit has stopped it while it ran.
THEOREM ReleasedHeroStops == MoveSpec => []StopsWhenReleased
<1> QED
  BY MoveInvariant, MoveInvGivesStops, PTL

\* Once all is delivered, the three agree on the way the hero runs and, when it
\* stands where a key or a respawn has put it, on the place.
THEOREM DeliveredPlacesAgree == MoveSpec => []PlacesAgree
<1> QED
  BY MoveInvariant, MoveInvGivesPlaces, PTL

\* Once all is delivered and no flag of the hero is left, neither client shows
\* a swing, a hit, a fall, or a run of a hero that stands.
THEOREM ShownAnimationsEnd == MoveSpec => []AnimationsEnd
<1> QED
  BY MoveInvariant, MoveInvGivesAnimations, PTL

\* CS_SKILL_DONE, which writes no number of a room, always carries the hero's.
THEOREM DonePacketsReachRoom == MoveSpec => []DoneReachesRoom
<1>1. MoveInv => DoneReachesRoom
  BY DEF MoveInv, BufInv
<1> QED
  BY <1>1, MoveInvariant, PTL
=============================================================================
