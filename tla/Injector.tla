------------------------------ MODULE Injector ------------------------------
(***************************************************************************)
(* What packet_injector.cpp answers a captured packet with: two resets of  *)
(* its TCP connection, or an ICMP message for a QUIC datagram.             *)
(*                                                                         *)
(* A packet is its Ethernet addresses and the 16-bit words behind them, in *)
(* network order; an IP address, a sequence number and an acknowledgement  *)
(* are two words.  The code adds the words up in the order of the machine, *)
(* which swaps the bytes of the checksum and of the place it is put.       *)
(*                                                                         *)
(* A definition that stands just before another and that nothing uses is a *)
(* faulty variant of it, which a property has to be able to tell from it.  *)
(***************************************************************************)
EXTENDS SequencesExt, Integers

Word == 65536
Carried[sum \in Nat] == IF sum < Word THEN sum ELSE Carried[(sum % Word) + (sum \div Word)]
Sum(words) == FoldLeft(LAMBDA a, b : a + b, 0, words)
calculate_checksum(words) == Word - 1 - Carried[Sum(words)]

(* A 32-bit number and one of 16 bits.                                     *)
Plus(long, n) ==
  LET low == long[2] + n
  IN  <<(long[1] + (low \div Word)) % Word, low % Word>>

Saddr(p) == SubSeq(p.words, 7, 8)
Daddr(p) == SubSeq(p.words, 9, 10)
IpLen(p) == 4 * ((p.words[1] \div 256) % 16)
CapLen(p) == 14 + 2 * Len(p.words)
Inner(p) == SubSeq(p.words, IpLen(p) \div 2 + 1, Len(p.words))
TcpLen(p) == 4 * (Inner(p)[7] \div 4096)
Flag(p, bit) == (Inner(p)[7] \div bit) % 2

(* The headers of an answer.                                               *)
IpHeader(id, proto, from, to, len) ==
  LET bare == <<17664, 20 + len, id, 0, 16384 + proto, 0>> \o from \o to
  IN  [bare EXCEPT ![6] = calculate_checksum(bare)]

TcpHeader(ports, seq, ack, flags) == ports \o seq \o ack \o <<20480 + flags, 0, 0, 0>>

Pseudogram(from, to, tcp) == from \o to \o <<6, 20>> \o tcp

SealedBare(from, to, tcp) == [tcp EXCEPT ![9] = calculate_checksum(tcp)]
Sealed(from, to, tcp) == [tcp EXCEPT ![9] = calculate_checksum(Pseudogram(from, to, tcp))]
Reset(id, from, to, tcp) == IpHeader(id, 6, from, to, 20) \o Sealed(from, to, tcp)
-----------------------------------------------------------------------------
(* How far a segment takes its sender's sequence numbers.                  *)
Payload(p) ==
  LET len == p.words[2] - (IpLen(p) + TcpLen(p)) IN IF len < 0 THEN 0 ELSE len
OccupiesData(p) == Payload(p)
Occupies(p) == Payload(p) + Flag(p, 2) + Flag(p, 1)

(* The answer to a segment: nothing if its headers are not all there, else *)
(* a reset to the server and one to the client, which comes from this      *)
(* machine's own network card.                                             *)
Whole(p) ==
  /\ CapLen(p) >= 54
  /\ IpLen(p) >= 20 /\ CapLen(p) >= 14 + IpLen(p) + 20
  /\ TcpLen(p) >= 20 /\ CapLen(p) >= 14 + IpLen(p) + TcpLen(p)
Ports(p) == SubSeq(Inner(p), 1, 2)
NextSeq(p) == Plus(SubSeq(Inner(p), 3, 4), Occupies(p))
Ack(p) == SubSeq(Inner(p), 5, 6)
Fwd(p) ==
  [eth |-> p.eth,
   words |-> Reset(54321, Saddr(p), Daddr(p), TcpHeader(Ports(p), NextSeq(p), Ack(p), 4))]
Bwd(p) ==
  [eth |-> [dest |-> p.eth.src, src |-> p.eth.src],
   words |-> Reset(12345, Daddr(p), Saddr(p),
                   TcpHeader(Reverse(Ports(p)), Ack(p), NextSeq(p), 20))]
queue_spoofed_rst_packet(p) == IF Whole(p) THEN <<Fwd(p), Bwd(p)>> ELSE <<>>

(* The answer to a datagram: "port unreachable", with the datagram's IP    *)
(* header and 8 bytes more.                                                *)
WholeIp(p) ==
  /\ CapLen(p) >= 42
  /\ IpLen(p) >= 20 /\ CapLen(p) >= 14 + IpLen(p) + 8
Quoted(p) == SubSeq(p.words, 1, (IpLen(p) + 8) \div 2)
Icmp(payload) ==
  LET bare == <<771, 0, 0, 0>> \o payload
  IN  [bare EXCEPT ![2] = calculate_checksum(bare)]
Unreachable(p) ==
  [eth |-> [dest |-> p.eth.src, src |-> p.eth.src],
   words |-> IpHeader(12346, 1, Daddr(p), Saddr(p), 16 + IpLen(p)) \o Icmp(Quoted(p))]
queue_spoofed_icmp_unreachable(p) == IF WholeIp(p) THEN <<Unreachable(p)>> ELSE <<>>
=============================================================================
