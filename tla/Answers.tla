------------------------------ MODULE Answers ------------------------------
(***************************************************************************)
(* The outbound queue with what is really in it: the answers of the        *)
(* injector to segments and QUIC datagrams that clients sent, and what     *)
(* their receivers make of them.                                           *)
(*                                                                         *)
(* The clients and the capture are external.  A client's packet has an     *)
(* Ethernet header, the two IP addresses, the two ports and options and    *)
(* data of whole words; bytes says how long the data was when it was sent. *)
(* A segment has numbers, an acknowledgement and perhaps a FIN (a SYN gets *)
(* no answer).  Fields that nobody looks at have a fixed value.            *)
(***************************************************************************)
EXTENDS PacketTxQueue, Injector

CONSTANTS
  Sent,       \* the segments that get answers
  Quic        \* the datagrams that get answers

Words == 0 .. Word - 1
Options == {o \in Seq(Words) : Len(o) <= 20 /\ Len(o) % 2 = 0}

(* 32 bits, as a number that may be negative or too large.                 *)
Long(n) == <<(n \div Word) % Word, n % Word>>

IpFields(s, proto, len) ==
  <<17664 + 128 * Len(s.ip), 20 + 2 * Len(s.ip) + len, 7, 16384, 32768 + proto, 0>>
    \o s.from \o s.to \o s.ip
TcpFields(s) ==
  s.ports \o Long(s.seq) \o Long(s.ack) \o <<20480 + 2048 * Len(s.tcp) + 16 + s.fin, 512, 0, 0>>

Segment(s) ==
  [eth |-> s.eth,
   words |-> IpFields(s, 6, 20 + 2 * Len(s.tcp) + s.bytes) \o (TcpFields(s) \o s.tcp \o s.data)]
Datagram(d) ==
  [eth |-> d.eth, words |-> IpFields(d, 17, 8 + d.bytes) \o (d.ports \o <<8 + d.bytes, 0>> \o d.data)]

(* The capture may have cut a packet anywhere behind its IP header.        *)
Cut(p) == {[p EXCEPT !.words = SubSeq(@, 1, k)] : k \in IpLen(p) \div 2 .. Len(p.words)}

ResetsTo(s) == UNION {ToSet(queue_spoofed_rst_packet(p)) : p \in Cut(Segment(s))}
UnreachableTo(d) == UNION {ToSet(queue_spoofed_icmp_unreachable(p)) : p \in Cut(Datagram(d))}
Forged ==
  (UNION {ResetsTo(s) : s \in Sent}) \cup (UNION {UnreachableTo(d) : d \in Quic})

IsPacket(s) ==
  /\ {s.from, s.to, s.ports} \subseteq {pair \in Seq(Words) : Len(pair) = 2}
  /\ s.ip \in Options /\ s.data \in Seq(Words) /\ s.bytes \in Nat
IsSegment(s) ==
  /\ IsPacket(s)
  /\ s.seq \in Int /\ s.ack \in Int /\ s.fin \in {0, 1} /\ s.tcp \in Options
  /\ 40 + 2 * Len(s.ip) + 2 * Len(s.tcp) + s.bytes < Word

ASSUME AnswersAssumption ==
  /\ \A s \in Sent : IsSegment(s)
  /\ \A d \in Quic : IsPacket(d) /\ 28 + 2 * Len(d.ip) + d.bytes < Word
  /\ RawPacket \subseteq Forged
-----------------------------------------------------------------------------
(* Properties of what is on its way out.                                   *)

Outgoing == ToSet(queue) \cup ({outPkt} \ {NoPacket})

(* The receiver's test, the one's complement sum of RFC 1071.              *)
SumsUp(words) == Sum(words) % 65535 = 0 /\ Sum(words) > 0
Covered(f) ==
  IF f.words[5] % 256 = 6
  THEN SubSeq(f.words, 7, 10) \o <<6, 20>> \o Inner(f) ELSE Inner(f)
Sound == {f \in RawPacket : SumsUp(SubSeq(f.words, 1, 10)) /\ SumsUp(Covered(f))}

(* Nobody drops an answer for its checksums (packet_injector.cpp:4-22).    *)
ChecksumsHold == Outgoing \subseteq Sound

(* Where the two ends of a connection are when they have the segment.      *)
Expected(s) == Long(s.seq + s.bytes + s.fin)
EndsServer(f, s) ==
  /\ f.eth = s.eth /\ Saddr(f) = s.from /\ Daddr(f) = s.to
  /\ SubSeq(Inner(f), 1, 4) = s.ports \o Expected(s)
  /\ Flag(f, 4) = 1
EndsClient(f, s) ==
  /\ f.eth.dest = s.eth.src /\ Saddr(f) = s.to /\ Daddr(f) = s.from
  /\ SubSeq(Inner(f), 1, 6) = Reverse(s.ports) \o Long(s.ack) \o Expected(s)
  /\ Flag(f, 4) = 1
EndsQuic(f, d) ==
  /\ f.eth.dest = d.eth.src /\ Daddr(f) = d.from
  /\ Inner(f)[1] = 771
  /\ SubSeq(Inner(f), 5, Len(Inner(f))) = SubSeq(Datagram(d).words, 1, 14 + Len(d.ip))
Fitting ==
  {f \in RawPacket :
     /\ \A s \in Sent : f \in ResetsTo(s) => EndsServer(f, s) \/ EndsClient(f, s)
     /\ \A d \in Quic : f \in UnreachableTo(d) => EndsQuic(f, d)}

(* Each reset has the sequence number its receiver expects next, whatever  *)
(* it is the answer to (packet_injector.cpp:43-46, :82, :127), and the     *)
(* ICMP message quotes its datagram (:203): no receiver ignores an answer. *)
AnswersFit == Outgoing \subseteq Fitting
=============================================================================
