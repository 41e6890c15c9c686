-------------------------- MODULE MC_PacketTxQueue --------------------------
(***************************************************************************)
(* A small instance of the outbound queue for TLC, in which the forged     *)
(* packets are the answers to three segments and a datagram.               *)
(***************************************************************************)
EXTENDS Answers

CONSTANTS w1, w2

(* A client's packet with some 32-bit words of options.                    *)
Packet(options) ==
  [eth |-> [dest |-> "router", src |-> "mine"], from |-> <<49320, 10>>, to |-> <<36431, 51000>>,
   ports |-> <<50000, 443>>, ip |-> [i \in 1 .. 2 * options |-> 257]]

(* Hellos of some bytes: the first one across the end of the sequence      *)
(* numbers, the second one with options in both headers, the third one     *)
(* with a FIN.                                                             *)
Said(seq, ack, bytes, fin, options) ==
  [seq |-> seq, ack |-> ack, bytes |-> bytes, fin |-> fin,
   tcp |-> [i \in 1 .. 2 * options |-> 257], data |-> [i \in 1 .. bytes \div 2 |-> 4660]]
    @@ Packet(options)
MCSent == {Said(-4, 65535, 10, 0, 0), Said(70000, -1, 5, 0, 1), Said(5, 9, 2, 1, 0)}
MCQuic == {[bytes |-> 4, data |-> <<4660, 4660>>] @@ Packet(0)}

(* TLC evaluates this set once.                                            *)
MCRawPacket == Forged
=============================================================================
