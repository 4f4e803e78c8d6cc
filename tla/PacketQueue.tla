---------------------------- MODULE PacketQueue ----------------------------
(***************************************************************************)
(* What one direction of a connection promises to the program: packets are *)
(* handled whole, each once and in the order they were sent; a connection  *)
(* that breaks is forgotten altogether.                                    *)
(***************************************************************************)
EXTENDS Naturals, Sequences

VARIABLES
    sent,           \* the packets sent over this connection
    handled         \* those given to ProcessPacket

vars == <<sent, handled>>

Init == sent = <<>> /\ handled = <<>>

\* One more packet, whatever it is
Send ==
    /\ Len(sent') = Len(sent) + 1
    /\ \A i \in DOMAIN sent : sent'[i] = sent[i]
    /\ UNCHANGED handled

Handle ==
    /\ Len(handled) < Len(sent)
    /\ handled' = Append(handled, sent[Len(handled) + 1])
    /\ UNCHANGED sent

Reconnect == sent' = <<>> /\ handled' = <<>>

Next == Send \/ Handle \/ Reconnect

Spec == Init /\ [][Next]_vars
=============================================================================
