--------------------------- MODULE MC_ConnTracker ---------------------------
(***************************************************************************)
(* Small instances of ConnTracker for TLC.  Three host names: site, sub    *)
(* (a subdomain of site) and other.  The traffic has every combination of  *)
(* flags, payload and host name that consumer_func tells apart.            *)
(***************************************************************************)
EXTENDS ConnTracker

CONSTANTS w1, w2, c1, c2

site == "google.com"
sub == "maps.google.com"
other == "games.com"

Lists(white, black) == [white |-> white, black |-> black]

(* A whitelist; the same with an exception on the blacklist; a blacklist   *)
(* alone, which lets everything else pass.                                 *)
MCConfigs == {Lists({site}, {}), Lists({site}, {sub}), Lists({}, {other})}

Segment(c, flags, payload, domain) ==
  [conn |-> c, flags |-> flags, payload |-> payload, domain |-> domain,
   whole |-> TRUE, injected |-> FALSE]

Syn(c) == Segment(c, {"SYN"}, FALSE, NoDomain)
Ack(c) == Segment(c, {"ACK"}, FALSE, NoDomain)
Data(c) == Segment(c, {"ACK"}, TRUE, NoDomain)
Hello(c, d) == Segment(c, {"ACK"}, TRUE, d)
Fin(c) == Segment(c, {"FIN", "ACK"}, FALSE, NoDomain)
LastRequest(c) == Segment(c, {"FIN", "ACK"}, TRUE, site)
Reset(c) == Segment(c, {"RST"}, FALSE, NoDomain)
Damaged(c) == [Data(c) EXCEPT !.whole = FALSE]
ForgedReset(c) == [Reset(c) EXCEPT !.injected = TRUE]

MCTraffic ==
  UNION {{Syn(c), Ack(c), Data(c), Fin(c), LastRequest(c), Reset(c), Damaged(c),
          ForgedReset(c)}
           \cup {Hello(c, d) : d \in Domains} : c \in Conns}

(* For the liveness runs: one packet for each way through consumer_func.   *)
FewPackets ==
  UNION {{Syn(c), Data(c), Damaged(c), Hello(c, sub), Fin(c), ForgedReset(c)} : c \in Conns}
(* A TLS hello in two segments: the second one names no host.              *)
SplitHello == UNION {{Syn(c), Hello(c, site), Data(c)} : c \in Conns}
OneSite == {Lists({site}, {})}

(* Requests for one host on one connection while the lists are edited.     *)
Requests == {Hello(c, sub) : c \in Conns}
FewConfigs == {Lists({site}, {}), Lists({}, {sub})}

WorkerSymmetry == Permutations(Workers)
=============================================================================
