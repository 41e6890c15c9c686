----------------------------- MODULE ClientConn -----------------------------
(***************************************************************************)
(* The connection tracker and the programs it watches: the clients of this *)
(* machine open, use and close connections, the capture delivers what they *)
(* send in its order (CapturePipeline: DeliversFrames), the workers handle *)
(* it, and the resets they forge end connections.  A connection is known   *)
(* to the tracker by the server's address and the client's port alone, so  *)
(* a port that is used again is the same connection to it.                 *)
(*                                                                         *)
(* The clients, the servers and the network are external.                  *)
(***************************************************************************)
EXTENDS ConnTracker

CONSTANTS
  Hosts,      \* the names behind the server's address
  Hellos,     \* pairs: a host, and the names found in the segments of a hello
  Orderly,    \* ports rest after a reset, and no end of a connection is missed
  MaxWire     \* bound: packets on their way to the worker

ASSUME ClientAssumption ==
  /\ Hosts \subseteq Domains
  /\ Hellos \subseteq Hosts \X Seq(STRING)
  /\ Orderly \in BOOLEAN
  /\ MaxWire \in Nat

VARIABLES
  client,     \* of each port, the host it talks to and how far it is
  wire,       \* captured packets, each with the host its client talks to
  of,         \* the host of the packet that each worker holds
  about       \* history: the host each verdict was given for

world == <<client, wire, of>>
clientVars == <<vars, world, about>>

Phases == {"closed", "open", "reset"}

Segment(c, flags, payload, domain) ==
  [conn |-> c, flags |-> flags, payload |-> payload, domain |-> domain,
   whole |-> TRUE, injected |-> FALSE]
Syn(c) == Segment(c, {"SYN"}, FALSE, NoDomain)
Data(c) == Segment(c, {"ACK"}, TRUE, NoDomain)
Hello(c, d) == Segment(c, {"ACK"}, TRUE, d)
Fin(c) == Segment(c, {"FIN", "ACK"}, FALSE, NoDomain)
Abort(c) == Segment(c, {"RST"}, FALSE, NoDomain)

ClientInit ==
  /\ Init
  /\ client \in [Conns -> [host : Hosts, phase : {"closed"}]]
  /\ wire = <<>>
  /\ of = [w \in Workers |-> NoDomain]
  /\ about = [c \in Conns |-> NoDomain]
-----------------------------------------------------------------------------
(* What the clients do.                                                    *)
Judged == In(allowed) \cup In(blocked)
InFlight(c) ==
  \/ \E i \in DOMAIN wire : wire[i].packet.conn = c
  \/ \E w \in Workers : pc[w] # "idle" /\ pkt[w].conn = c

Captured(c, packets) ==
  /\ Len(wire) + Len(packets) <= MaxWire
  /\ wire' = wire \o [i \in DOMAIN packets |-> [packet |-> packets[i], host |-> client'[c].host]]

(* A client sends some packets; the tracker has yet to see them.           *)
Sends(c, packets) ==
  /\ Captured(c, packets)
  /\ UNCHANGED <<vars, of, about>>

Rested(c) == Orderly => c \notin Judged /\ ~InFlight(c)
Connect(c, h) ==
  /\ \/ client[c].phase = "closed"
     \/ client[c].phase = "reset" /\ Rested(c)
  /\ client' = [client EXCEPT ![c] = [host |-> h, phase |-> "open"]]
  /\ Sends(c, <<Syn(c)>>)

(* A request, or a hello, in as many segments as it takes.                 *)
SayHello(c) ==
  /\ client[c].phase = "open"
  /\ UNCHANGED client
  /\ \E hello \in Hellos :
       /\ hello[1] = client[c].host
       /\ Sends(c, [i \in DOMAIN hello[2] |-> Hello(c, hello[2][i])])

SendData(c) ==
  /\ client[c].phase = "open"
  /\ UNCHANGED client
  /\ Sends(c, <<Data(c)>>)

CloseClient(c) ==
  /\ client[c].phase = "open"
  /\ client' = [client EXCEPT ![c].phase = "closed"]
  /\ \E p \in {Fin(c), Abort(c)} : Sends(c, <<p>>)

(* The server's reset ends the connection; the program does not look at    *)
(* what servers send (:359).                                               *)
ServerResets(c) ==
  /\ client[c].phase = "open"
  /\ client' = [client EXCEPT ![c].phase = "reset"]
  /\ UNCHANGED <<vars, wire, of, about>>

(* The capture misses a packet: the pool or the kernel's buffer is full.   *)
Miss ==
  /\ \E i \in DOMAIN wire :
       /\ Orderly => ~Closing(wire[i].packet)
       /\ wire' = RemoveAt(wire, i)
  /\ UNCHANGED <<vars, client, of, about>>
-----------------------------------------------------------------------------
(* What the tracker does.                                                  *)
Takes(w) ==
  /\ wire # <<>>
  /\ Dequeue(w, Head(wire).packet)
  /\ of' = [of EXCEPT ![w] = Head(wire).host]
  /\ wire' = Tail(wire)
  /\ UNCHANGED <<client, about>>

(* The history: an entry is about the host its packet named.               *)
Noted(c, w) ==
  IF c \notin Judged' THEN NoDomain
  ELSE IF c \notin Judged THEN pkt[w].domain ELSE about[c]
Works(w) ==
  /\ WorkerRead(w) \/ WorkerWrite(w)
  /\ of' = [of EXCEPT ![w] = IF pc'[w] = "idle" THEN NoDomain ELSE of[w]]
  /\ about' = [c \in Conns |-> Noted(c, w)]
  /\ UNCHANGED <<client, wire>>

TimeAndLists ==
  /\ Tick \/ WatcherSweep \/ \E f \in Configs : ChangeFilter(f)
  /\ about' = [c \in Conns |-> IF c \in Judged' THEN about[c] ELSE NoDomain]
  /\ UNCHANGED world

(* A forged reset ends the connection on its port, or arrives too late and *)
(* is ignored.                                                             *)
ResetSent ==
  /\ Send
  /\ LET c == Head(outbound).conn IN
     \/ UNCHANGED client
     \/ client[c].phase = "open" /\ client' = [client EXCEPT ![c].phase = "reset"]
  /\ UNCHANGED <<wire, of, about>>
-----------------------------------------------------------------------------
Clients ==
  \E c \in Conns :
    \/ \E h \in Hosts : Connect(c, h)
    \/ SayHello(c) \/ SendData(c) \/ CloseClient(c) \/ ServerResets(c)

ClientNext ==
  \/ Clients \/ Miss
  \/ \E w \in Workers : Takes(w) \/ Works(w)
  \/ TimeAndLists
  \/ ResetSent

ClientSpec == ClientInit /\ [][ClientNext]_clientVars
-----------------------------------------------------------------------------
(* Properties.                                                             *)

ClientTypeOK ==
  /\ TypeOK
  /\ client \in [Conns -> [host : Hosts, phase : Phases]]
  /\ Len(wire) <= MaxWire
  /\ \A i \in DOMAIN wire : wire[i].packet \in Traffic /\ wire[i].host \in Hosts
  /\ of \in [Workers -> Hosts \cup {NoDomain}]
  /\ about \in [Conns -> Domains \cup {NoDomain}]

(* A packet is judged by a verdict about the host its own client talks to  *)
(* and never by one that is left of another client of the port (:365-377). *)
(* True while ports rest until their verdicts are forgotten.               *)
JudgedByOwnHost ==
  \A w \in Workers :
    pc[w] \in {"lookup", "blockcheck"} /\ pkt[w].conn \in Judged =>
      about[pkt[w].conn] = of[w]

(* A segment names the host of its connection or none, wherever the hello  *)
(* is cut: never a part of the name (:5-72).                               *)
SegmentsNameTheHost ==
  \A i \in DOMAIN wire : wire[i].packet.domain \in {NoDomain, wire[i].host}
=============================================================================
