---------------------------- MODULE PacketStream ----------------------------
(***************************************************************************)
(* Cutting a byte stream into packets: the receive loop of Worker_Thread   *)
(* (Lunatic_Server.cpp) and its twin ReadPacket (LunaticProject.cpp).  The *)
(* first byte of a packet is its length; a receive returns any number of   *)
(* bytes, so it may begin and end inside packets.                          *)
(*                                                                         *)
(* A byte is identified with its position in the stream, and a packet with *)
(* the set of its positions.  Only the byte at the start of a packet is a  *)
(* length; any other byte that the loop took for one might be anything.    *)
(***************************************************************************)
EXTENDS Integers, Sequences

CONSTANTS
    MaxPacket,      \* MAX_PACKET_SIZE, the size of packet_buf
    BufSize,        \* MAX_BUFF_SIZE or BUF_SIZE, what a receive can return
    MaxSent         \* packets sent over one connection

ASSUME StreamAssumption ==
    /\ MaxPacket \in 1 .. 255
    /\ BufSize \in Nat \ {0}
    /\ MaxSent \in Nat

VARIABLES
    starts,         \* where the packets begin, and where the next one will
    curr,           \* cu_size, curr_packet_size; in_packet_size
    prev,           \* pr_size, prev_packet_data; saved_packet_size
    kept,           \* the bytes packet_buf[0 .. prev - 1]
    pos,            \* buf, ptr: the first byte not looked at
    io,             \* io_size, iobyte: bytes received and not looked at
    handled         \* the packets given to ProcessPacket

vars == <<starts, curr, prev, kept, pos, io, handled>>

Init ==
    /\ starts = <<0>>
    /\ curr = 0 /\ prev = 0
    /\ kept = {}
    /\ pos = 0 /\ io = 0
    /\ handled = <<>>

Sent == Len(starts) - 1
End == starts[Len(starts)]
Bytes(from, to) == from .. to - 1
Packet(k) == Bytes(starts[k], starts[k + 1])

\* The other side sends a packet of n bytes.
Send(n) ==
    /\ Sent < MaxSent
    /\ starts' = Append(starts, End + n)
    /\ UNCHANGED <<curr, prev, kept, pos, io, handled>>

\* The receive posted after the last loop completes with n bytes.
Receive(n) ==
    /\ io = 0
    /\ pos + n <= End
    /\ io' = n
    /\ UNCHANGED <<starts, curr, prev, kept, pos, handled>>

\* buf[0], taken for the length of a packet
LengthsAt(p) ==
    LET here == {k \in 1 .. Sent : starts[k] = p} IN
    IF here = {} THEN 0 .. 255 ELSE {starts[k + 1] - starts[k] : k \in here}

\* One turn of the loop: the packet is completed and handled, or what there
\* is of it is kept.
Whole_bug(size) == io + prev > size
Whole(size) == io + prev >= size

Missing_bug(size) == size
Missing(size) == size - prev

Complete(size) ==
    LET n == Missing(size) IN
    /\ Whole(size)
    /\ handled' = Append(handled, kept \cup Bytes(pos, pos + n))
    /\ io' = io - n
    /\ pos' = pos + n
    /\ curr' = 0 /\ prev' = 0 /\ kept' = {}
    /\ UNCHANGED starts

Keep(size) ==
    /\ ~Whole(size)
    /\ kept' = kept \cup Bytes(pos, pos + io)
    /\ prev' = prev + io
    /\ pos' = pos + io
    /\ io' = 0
    /\ curr' = size
    /\ UNCHANGED <<starts, handled>>

Turn ==
    /\ io > 0
    /\ \E size \in IF curr = 0 THEN LengthsAt(pos) ELSE {curr} :
          Complete(size) \/ Keep(size)

\* The connection is lost while a receive is pending, and the next one gets
\* the same slot: Accept_Thread resets it.
ResetSize_bug == curr
ResetSize == 0
Reconnect ==
    /\ io = 0
    /\ starts' = <<0>>
    /\ curr' = ResetSize /\ prev' = 0
    /\ kept' = {}
    /\ pos' = 0 /\ io' = 0
    /\ handled' = <<>>

Next ==
    \/ \E n \in 1 .. MaxPacket : Send(n)
    \/ \E n \in 1 .. BufSize : Receive(n)
    \/ Turn
    \/ Reconnect

Spec == Init /\ [][Next]_vars

\* What was sent arrives, and the loop runs.
FairSpec == /\ Spec
            /\ WF_vars(\E n \in 1 .. BufSize : Receive(n))
            /\ WF_vars(Turn)
-----------------------------------------------------------------------------
(* Properties *)

Packets == [k \in 1 .. Sent |-> Packet(k)]
Queue == INSTANCE PacketQueue WITH sent <- Packets, handled <- handled

\* However the stream is cut up by the network, ProcessPacket gets the
\* packets that were sent, whole, each once and in order, and nothing of a
\* former connection of the slot.
InOrder == Queue!Spec

\* The loop is always at a packet's first byte with nothing kept, or inside
\* a packet whose beginning it has kept and whose length it knows; and what it
\* keeps leaves room for at least one more byte in packet_buf.
Aligned ==
    LET n == Len(handled) + 1 IN
    /\ n <= Len(starts) /\ pos + io <= End
    /\ pos = starts[n] + prev
    /\ kept = Bytes(starts[n], pos)
    /\ IF prev = 0 THEN curr = 0
       ELSE n <= Sent /\ curr = starts[n + 1] - starts[n]
    /\ prev \in 0 .. MaxPacket - 1
    /\ prev > 0 => prev < curr

\* No packet stays in the buffers: each one sent is handled, or the
\* connection is lost.
Drained ==
    \A k \in 1 .. MaxSent : Sent >= k ~> (Len(handled) >= k \/ Sent < k)
=============================================================================
