-------------------------- MODULE ClientConnProofs --------------------------
(***************************************************************************)
(* Theorems about ClientConn: the tracker among its clients is the tracker *)
(* (so what is proved of the tracker holds among them), and a client that  *)
(* lets its port rest is judged by verdicts of its own.                    *)
(***************************************************************************)
EXTENDS ClientConn, Parsers, ConnTrackerProofs, SequenceTheorems

Captures == [packet : Traffic, host : Hosts]

(* The tracker is ready for what the clients send, and what it finds in    *)
(* the segments of a hello is the host of it or nothing.  The run of       *)
(* MC_ClientConn checks both of its hellos (SegmentsNameTheHost).          *)
ClientsFit ==
  \A c \in Conns :
    /\ {Syn(c), Data(c), Fin(c), Abort(c)} \subseteq Traffic
    /\ \A hello \in Hellos : \A i \in DOMAIN hello[2] :
         /\ Hello(c, hello[2][i]) \in Traffic
         /\ hello[2][i] \in {NoDomain, hello[1]}

LEMMA MessagesFit ==
  ASSUME ClientsFit, NEW c \in Conns, NEW hello \in Hellos
  PROVE  [i \in DOMAIN hello[2] |-> Hello(c, hello[2][i])] \in Seq(Traffic)
<1>1. hello[2] \in Seq(STRING)
  BY ClientAssumption
<1>. DEFINE n == Len(hello[2])
            t == [i \in 1 .. n |-> Hello(c, hello[2][i])]
<1>2. n \in Nat /\ DOMAIN hello[2] = 1 .. n
  BY <1>1, LenProperties
<1>3. \A i \in 1 .. n : Hello(c, hello[2][i]) \in Traffic
  BY <1>2 DEF ClientsFit
<1>4. t \in [1 .. n -> Traffic]
  BY <1>3
<1>. HIDE DEF t
<1>5. t \in Seq(Traffic)
  BY <1>2, <1>4
<1>. QED  BY <1>2, <1>5 DEF t
-----------------------------------------------------------------------------
(* Types of the world around the tracker.                                  *)
Ports == [Conns -> [host : Hosts, phase : Phases]]

World ==
  /\ client \in Ports
  /\ wire \in Seq(Captures)
  /\ of \in [Workers -> Hosts \cup {NoDomain}]

LEMMA PacketsCaptured ==
  ASSUME NEW c \in Conns, NEW packets \in Seq(Traffic), World, client' \in Ports,
         Captured(c, packets)
  PROVE  wire' \in Seq(Captures)
<1>. DEFINE n == Len(packets)
            t == [i \in 1 .. n |-> [packet |-> packets[i], host |-> client'[c].host]]
<1>1. n \in Nat /\ DOMAIN packets = 1 .. n /\ \A i \in 1 .. n : packets[i] \in Traffic
  BY LenProperties
<1>2. client'[c].host \in Hosts
  BY DEF Ports
<1>3. t \in [1 .. n -> Captures]
  BY <1>1, <1>2 DEF Captures
<1>4. wire' = wire \o t
  BY <1>1 DEF Captured
<1>. HIDE DEF t, n
<1>5. t \in Seq(Captures)
  BY <1>1, <1>3
<1>. QED  BY <1>4, <1>5, ConcatProperties DEF World

(* What a client may send, and what becomes of its port: it opens it, it   *)
(* talks on it, or it closes it.                                           *)
Proper(p, h) ==
  /\ p.domain \in {NoDomain, h}
  /\ Closing(p) => ~p.payload /\ "SYN" \notin p.flags

Spoken(c, packets) ==
  \A i \in DOMAIN packets : packets[i].conn = c /\ Proper(packets[i], client'[c].host)

Opens(c, packets) ==
  /\ client[c].phase = "closed" \/ Rested(c)
  /\ client'[c].phase = "open"
  /\ \A i \in DOMAIN packets : ~Closing(packets[i])

Talks(c, packets) ==
  /\ client[c].phase = "open" /\ client'[c] = client[c]
  /\ \A i \in DOMAIN packets : ~Closing(packets[i])

Closes(c, packets) ==
  /\ client[c].phase = "open" /\ client'[c].host = client[c].host
  /\ Len(packets) = 1 /\ Closing(packets[1])

LEMMA ClientSends ==
  ASSUME ClientsFit, World, NEW c \in Conns,
         (\E h \in Hosts : Connect(c, h)) \/ SayHello(c) \/ SendData(c) \/ CloseClient(c)
  PROVE  \E packets \in Seq(Traffic) :
           /\ Sends(c, packets)
           /\ client' \in Ports
           /\ \A d \in Conns \ {c} : client'[d] = client[d]
           /\ Spoken(c, packets)
           /\ Opens(c, packets) \/ Talks(c, packets) \/ Closes(c, packets)
<1>1. CASE \E h \in Hosts : Connect(c, h)
  <2>1. PICK h \in Hosts : Connect(c, h)
    BY <1>1
  <2>2. Syn(c) \in Traffic /\ Syn(c).conn = c /\ Syn(c).domain = NoDomain /\ ~Closing(Syn(c))
    BY DEF ClientsFit, Syn, Segment, Closing
  <2>. DEFINE packets == <<Syn(c)>>
  <2>3. /\ packets \in Seq(Traffic) /\ Len(packets) = 1
        /\ DOMAIN packets = {1} /\ packets[1] = Syn(c)
    BY <2>2
  <2>4. Sends(c, packets)
    BY <2>1 DEF Connect
  <2>. HIDE DEF packets
  <2>5. client' \in Ports /\ (\A d \in Conns \ {c} : client'[d] = client[d])
    BY <2>1 DEF Connect, World, Ports, Phases
  <2>6. Spoken(c, packets)
    BY <2>2, <2>3 DEF Spoken, Proper
  <2>7. Opens(c, packets)
    BY <2>1, <2>2, <2>3 DEF Connect, Opens, World, Ports
  <2>. QED  BY <2>3, <2>4, <2>5, <2>6, <2>7
<1>2. CASE SayHello(c)
  <2>1. PICK hello \in Hellos :
          /\ hello[1] = client[c].host
          /\ Sends(c, [i \in DOMAIN hello[2] |-> Hello(c, hello[2][i])])
    BY <1>2 DEF SayHello
  <2>. DEFINE packets == [i \in DOMAIN hello[2] |-> Hello(c, hello[2][i])]
  <2>2. packets \in Seq(Traffic) /\ Sends(c, packets)
    BY <2>1, MessagesFit
  <2>3. \A i \in DOMAIN packets :
          /\ packets[i].conn = c /\ packets[i].domain \in {NoDomain, hello[1]}
          /\ ~Closing(packets[i])
    BY DEF ClientsFit, Hello, Segment, Closing
  <2>. HIDE DEF packets
  <2>4. client' = client /\ client[c].phase = "open" /\ client' \in Ports
    BY <1>2 DEF SayHello, World
  <2>5. Spoken(c, packets) /\ Talks(c, packets)
    BY <2>1, <2>3, <2>4 DEF Spoken, Talks, Proper
  <2>. QED  BY <2>2, <2>4, <2>5
<1>3. CASE SendData(c)
  <2>1. Data(c) \in Traffic /\ Data(c).conn = c /\ Data(c).domain = NoDomain /\ ~Closing(Data(c))
    BY DEF ClientsFit, Data, Segment, Closing
  <2>. DEFINE packets == <<Data(c)>>
  <2>2. /\ packets \in Seq(Traffic) /\ Len(packets) = 1
        /\ DOMAIN packets = {1} /\ packets[1] = Data(c)
    BY <2>1
  <2>3. Sends(c, packets)
    BY <1>3 DEF SendData
  <2>. HIDE DEF packets
  <2>4. client' = client /\ client[c].phase = "open" /\ client' \in Ports
    BY <1>3 DEF SendData, World
  <2>5. Spoken(c, packets) /\ Talks(c, packets)
    BY <2>1, <2>2, <2>4 DEF Spoken, Talks, Proper
  <2>. QED  BY <2>2, <2>3, <2>4, <2>5
<1>4. CASE CloseClient(c)
  <2>1. PICK p \in {Fin(c), Abort(c)} : Sends(c, <<p>>)
    BY <1>4 DEF CloseClient
  <2>2. /\ p \in Traffic /\ p.conn = c /\ p.domain = NoDomain /\ Closing(p)
        /\ ~p.payload /\ "SYN" \notin p.flags
    <3>1. Fin(c) \in Traffic /\ Abort(c) \in Traffic
      BY DEF ClientsFit
    <3>2. /\ p.conn = c /\ p.domain = NoDomain /\ Closing(p)
          /\ ~p.payload /\ "SYN" \notin p.flags
      BY DEF Fin, Abort, Segment, Closing
    <3>. QED  BY <3>1, <3>2
  <2>. DEFINE packets == <<p>>
  <2>3. /\ packets \in Seq(Traffic) /\ Len(packets) = 1
        /\ DOMAIN packets = {1} /\ packets[1] = p
    BY <2>2
  <2>4. Sends(c, packets)
    BY <2>1
  <2>. HIDE DEF packets
  <2>5. /\ client' \in Ports /\ (\A d \in Conns \ {c} : client'[d] = client[d])
        /\ client[c].phase = "open" /\ client'[c].host = client[c].host
    BY <1>4 DEF CloseClient, World, Ports, Phases
  <2>6. Spoken(c, packets) /\ Closes(c, packets)
    BY <2>2, <2>3, <2>5 DEF Spoken, Closes, Proper
  <2>. QED  BY <2>3, <2>4, <2>5, <2>6
<1>. QED  BY <1>1, <1>2, <1>3, <1>4

LEMMA RemoveKeeps ==
  ASSUME NEW S, NEW s \in Seq(S), NEW k \in 1 .. Len(s)
  PROVE  /\ RemoveAt(s, k) \in Seq(S)
         /\ Len(RemoveAt(s, k)) = Len(s) - 1
         /\ \A j \in 1 .. Len(s) - 1 : RemoveAt(s, k)[j] = IF j < k THEN s[j] ELSE s[j + 1]
<1>. DEFINE a == SubSeq(s, 1, k - 1)
            b == SubSeq(s, k + 1, Len(s))
            n == Len(s)
<1>1. n \in Nat /\ \A i \in 1 .. n : s[i] \in S
  BY LenProperties
<1>2. a \in Seq(S) /\ Len(a) = k - 1 /\ \A i \in 1 .. k - 1 : a[i] = s[i]
  <2>1. 1 \in Int /\ k - 1 \in Int /\ \A i \in 1 .. k - 1 : s[i] \in S
    BY <1>1
  <2>. HIDE DEF n
  <2>2. /\ a \in Seq(S) /\ Len(a) = (IF 1 <= k - 1 THEN k - 1 - 1 + 1 ELSE 0)
        /\ \A i \in 1 .. k - 1 - 1 + 1 : a[i] = s[1 + i - 1]
    BY <2>1, SubSeqProperties
  <2>. QED  BY <2>2
<1>3. b \in Seq(S) /\ Len(b) = n - k /\ \A i \in 1 .. n - k : b[i] = s[k + i]
  <2>1. k + 1 \in Int /\ n \in Int /\ \A i \in k + 1 .. n : s[i] \in S
    BY <1>1
  <2>2. /\ b \in Seq(S) /\ Len(b) = (IF k + 1 <= n THEN n - (k + 1) + 1 ELSE 0)
        /\ \A i \in 1 .. n - (k + 1) + 1 : b[i] = s[k + 1 + i - 1]
    BY <2>1, SubSeqProperties
  <2>. QED  BY <1>1, <2>2
<1>. HIDE DEF a, b
<1>4. /\ a \o b \in Seq(S) /\ Len(a \o b) = Len(a) + Len(b)
      /\ \A i \in 1 .. Len(a) + Len(b) :
           (a \o b)[i] = IF i <= Len(a) THEN a[i] ELSE b[i - Len(a)]
  BY <1>2, <1>3, ConcatProperties
<1>5. Len(a) + Len(b) = n - 1
  BY <1>1, <1>2, <1>3
<1>6. PICK m \in Nat : m = n
  BY <1>1
<1>7. PICK q \in Seq(S) : q = a \o b
  BY <1>4
<1>8. ASSUME NEW j \in 1 .. m - 1, j < k
      PROVE  q[j] = s[j]
  BY <1>2, <1>4, <1>5, <1>6, <1>7, <1>8
<1>9. ASSUME NEW j \in 1 .. m - 1, ~(j < k)
      PROVE  q[j] = s[j + 1]
  <2>1. j - (k - 1) \in 1 .. m - k /\ k + (j - (k - 1)) = j + 1 /\ ~(j <= k - 1)
    BY <1>6, <1>9
  <2>2. q[j] = b[j - (k - 1)]
    BY <1>2, <1>4, <1>5, <1>6, <1>7, <1>9, <2>1
  <2>3. b[j - (k - 1)] = s[k + (j - (k - 1))]
    BY <1>3, <1>6, <2>1
  <2>. QED  BY <2>1, <2>2, <2>3
<1>10. RemoveAt(s, k) = q
  BY <1>7 DEF RemoveAt, a, b
<1>. QED  BY <1>4, <1>5, <1>6, <1>7, <1>8, <1>9, <1>10

LEMMA WorldStep ==
  ASSUME ClientsFit
  PROVE  World /\ [ClientNext]_clientVars => World'
<1>. SUFFICES ASSUME World, [ClientNext]_clientVars PROVE World'
  OBVIOUS
<1>1. ASSUME NEW c \in Conns,
             (\E h \in Hosts : Connect(c, h)) \/ SayHello(c) \/ SendData(c) \/ CloseClient(c)
      PROVE  World'
  <2>1. PICK packets \in Seq(Traffic) : Sends(c, packets) /\ client' \in Ports
    BY <1>1, ClientSends
  <2>2. wire' \in Seq(Captures)
    BY <2>1, PacketsCaptured DEF Sends
  <2>. QED  BY <2>1, <2>2 DEF World, Sends
<1>2. ASSUME NEW c \in Conns, ServerResets(c)
      PROVE  World'
  BY <1>2 DEF ServerResets, World, Ports, Phases
<1>3. CASE Miss
  <2>1. PICK i \in DOMAIN wire : wire' = RemoveAt(wire, i)
    BY <1>3 DEF Miss
  <2>2. wire' \in Seq(Captures)
    BY <2>1, RemoveKeeps, LenProperties DEF World
  <2>. QED  BY <1>3, <2>2 DEF Miss, World
<1>4. ASSUME NEW w \in Workers, Takes(w)
      PROVE  World'
  <2>1. Head(wire) \in Captures /\ wire' \in Seq(Captures)
    BY <1>4, HeadTailProperties DEF Takes, World
  <2>2. of' \in [Workers -> Hosts \cup {NoDomain}]
    BY <1>4, <2>1 DEF Takes, World, Captures
  <2>. QED  BY <1>4, <2>1, <2>2 DEF Takes, World
<1>5. ASSUME NEW w \in Workers, Works(w)
      PROVE  World'
  BY <1>5 DEF Works, World
<1>6. CASE TimeAndLists
  BY <1>6 DEF TimeAndLists, World, world
<1>7. CASE ResetSent
  <2>1. client' \in Ports
    BY <1>7 DEF ResetSent, World, Ports, Phases
  <2>. QED  BY <1>7, <2>1 DEF ResetSent, World
<1>8. CASE UNCHANGED clientVars
  BY <1>8 DEF clientVars, world, World
<1>. QED
  BY <1>1, <1>2, <1>3, <1>4, <1>5, <1>6, <1>7, <1>8 DEF ClientNext, Clients

LEMMA WorldTyped ==
  ASSUME ClientsFit
  PROVE  ClientSpec => []World
<1>1. ClientInit => World
  <2>. SUFFICES ASSUME ClientInit PROVE World
    OBVIOUS
  <2>1. client \in Ports
    BY DEF ClientInit, Ports, Phases
  <2>. QED  BY <2>1 DEF ClientInit, World
<1>2. World /\ [ClientNext]_clientVars => World'
  BY WorldStep
<1>. QED  BY <1>1, <1>2, PTL DEF ClientSpec
-----------------------------------------------------------------------------
(* The tracker among its clients.                                          *)

(* What the tracker does among the clients is what it does on its own.     *)
LEMMA TrackerStep == World /\ [ClientNext]_clientVars => [Next]_vars
<1>. SUFFICES ASSUME World, [ClientNext]_clientVars PROVE [Next]_vars
  OBVIOUS
<1>1. CASE Clients
  BY <1>1 DEF Clients, Connect, SayHello, SendData, CloseClient, Sends, ServerResets
<1>2. ASSUME NEW w \in Workers, Takes(w)
      PROVE  Next
  <2>1. Head(wire) \in Captures
    BY <1>2, HeadTailProperties DEF Takes, World
  <2>2. Head(wire).packet \in Traffic
    BY <2>1 DEF Captures
  <2>. QED  BY <1>2, <2>2 DEF Takes, Next, Receive
<1>3. ASSUME NEW w \in Workers, Works(w)
      PROVE  Next
  BY <1>3 DEF Works, Next
<1>4. CASE TimeAndLists
  BY <1>4 DEF TimeAndLists, Next
<1>5. CASE Miss \/ ResetSent \/ UNCHANGED clientVars
  BY <1>5 DEF Miss, ResetSent, Next, clientVars
<1>. QED  BY <1>1, <1>2, <1>3, <1>4, <1>5 DEF ClientNext

(* So every theorem about the tracker holds of it among its clients.       *)
THEOREM ClientsRunTheTracker ==
  ASSUME ClientsFit
  PROVE  ClientSpec => Spec
<1>1. ClientInit => Init
  BY DEF ClientInit
<1>. QED  BY <1>1, TrackerStep, WorldTyped, PTL DEF ClientSpec, Spec

(* The types of the world, its bound and its history.                      *)
WireBound == Len(wire) <= MaxWire
Remembers == about \in [Conns -> Domains \cup {NoDomain}]

LEMMA WireBoundStep ==
  ASSUME ClientsFit
  PROVE  World /\ WireBound /\ [ClientNext]_clientVars => WireBound'
<1>. SUFFICES ASSUME World, WireBound, [ClientNext]_clientVars PROVE WireBound'
  OBVIOUS
<1>0. wire \in Seq(Captures) /\ Len(wire) \in Nat /\ MaxWire \in Nat
  BY LenProperties, ClientAssumption DEF World
<1>1. ASSUME NEW c \in Conns,
             (\E h \in Hosts : Connect(c, h)) \/ SayHello(c) \/ SendData(c) \/ CloseClient(c)
      PROVE  WireBound'
  <2>1. PICK packets \in Seq(Traffic) : Sends(c, packets)
    BY <1>1, ClientSends
  <2>. DEFINE n == Len(packets)
              t == [i \in 1 .. n |-> [packet |-> packets[i], host |-> client'[c].host]]
  <2>2. n \in Nat /\ DOMAIN packets = 1 .. n
    BY LenProperties
  <2>3. t \in Seq({t[i] : i \in 1 .. n}) /\ Len(t) = n
    BY <2>2
  <2>4. wire' = wire \o t
    BY <2>1, <2>2 DEF Sends, Captured
  <2>. HIDE DEF t
  <2>5. PICK S : wire \in Seq(S) /\ t \in Seq(S)
    <3>. DEFINE S == Captures \cup {t[i] : i \in 1 .. n}
    <3>1. wire \in Seq(S) /\ t \in Seq(S)
      BY <1>0, <2>3, SeqMonotonic
    <3>. QED  BY <3>1
  <2>6. Len(wire \o t) = Len(wire) + Len(t)
    BY ONLY <2>5, ConcatProperties
  <2>7. Len(wire') = Len(wire) + Len(packets)
    BY <2>3, <2>4, <2>6
  <2>. QED  BY <2>1, <2>7 DEF Sends, Captured, WireBound
<1>2. CASE Miss
  <2>1. PICK i \in DOMAIN wire : wire' = RemoveAt(wire, i)
    BY <1>2 DEF Miss
  <2>2. Len(wire') = Len(wire) - 1
    BY <1>0, <2>1, RemoveKeeps, LenProperties
  <2>. QED  BY <1>0, <2>2 DEF WireBound
<1>3. ASSUME NEW w \in Workers, Takes(w)
      PROVE  WireBound'
  <2>1. Len(wire') = Len(wire) - 1
    BY <1>0, <1>3, HeadTailProperties DEF Takes
  <2>. QED  BY <1>0, <2>1 DEF WireBound
<1>4. ASSUME UNCHANGED wire
      PROVE  WireBound'
  BY <1>4 DEF WireBound
<1>. QED
  BY <1>1, <1>2, <1>3, <1>4
     DEF ClientNext, Clients, ServerResets, Works, TimeAndLists, ResetSent, clientVars, world

(* A worker that enters a verdict holds a packet, so the host it is given  *)
(* for is the one of a packet.                                             *)
LEMMA RemembersStep ==
  TypeOK /\ Remembers /\ [ClientNext]_clientVars => Remembers'
<1>. SUFFICES ASSUME TypeOK, Remembers, [ClientNext]_clientVars PROVE Remembers'
  OBVIOUS
<1>1. ASSUME UNCHANGED about
      PROVE  Remembers'
  BY <1>1 DEF Remembers
<1>2. ASSUME NEW w \in Workers, Works(w)
      PROVE  Remembers'
  <2>1. pc[w] # "idle"
    BY <1>2 DEF Works, WorkerRead, WorkerWrite, Lookup, CheckBlocked, CheckPending, Classify,
        CheckMode, SkipReset, PushForward, PushBackward, CloseConn, RegisterSyn, Block, Allow
  <2>2. pkt[w].domain \in Domains \cup {NoDomain}
    BY <2>1, Held DEF Packet
  <2>. QED  BY <1>2, <2>2 DEF Works, Noted, Remembers
<1>3. CASE TimeAndLists
  BY <1>3 DEF TimeAndLists, Remembers
<1>. QED
  BY <1>1, <1>2, <1>3
     DEF ClientNext, Clients, Connect, SayHello, SendData, CloseClient, Sends, ServerResets,
         Miss, Takes, ResetSent, clientVars

(* The tracker and the world around it keep their types, for any clients.  *)
THEOREM ClientsTypeCorrect ==
  ASSUME ClientsFit
  PROVE  ClientSpec => []ClientTypeOK
<1>1. ClientInit => WireBound /\ Remembers
  BY ClientAssumption DEF ClientInit, WireBound, Remembers
<1>2. TypeOK /\ World /\ WireBound /\ Remembers => ClientTypeOK
  <2>. SUFFICES ASSUME TypeOK, World, WireBound, Remembers PROVE ClientTypeOK
    OBVIOUS
  <2>1. \A i \in DOMAIN wire : wire[i] \in Captures
    BY LenProperties DEF World
  <2>. QED  BY <2>1 DEF World, WireBound, Remembers, ClientTypeOK, Ports, Captures
<1>3. ClientSpec => [](TypeOK /\ World)
  BY ClientsRunTheTracker, TypeCorrect, WorldTyped, PTL
<1>. QED
  BY <1>1, <1>2, <1>3, WireBoundStep, RemembersStep, PTL DEF ClientSpec

(* While the workers stay apart, the verdicts do not change sides among    *)
(* the clients ...                                                         *)
THEOREM ClientsGetOneVerdict ==
  ASSUME ClientsFit
  PROVE  ClientSpec /\ []Apart => [](VerdictsDisjoint /\ AllowedNeverReset)
  BY ClientsRunTheTracker, ApartWorkersDecideOnce, PTL

(* ... and the tracker filters.                                            *)
THEOREM ClientsAreFiltered ==
  ASSUME ClientsFit
  PROVE  ClientSpec /\ []Apart => ImplementsFilter
  BY ClientsRunTheTracker, ApartWorkersFilter, PTL
-----------------------------------------------------------------------------
(* Who uses a port.  From place i of a sequence of captures s on, the port *)
(* c is used for the host h, until a packet closes the connection; and if  *)
(* none does, its client is still busy with h.                             *)
NoEnd(s, c, i, j) ==
  \A k \in i .. j : ~(s[k].packet.conn = c /\ Closing(s[k].packet))

Steady(s, port, c, h, i) ==
  /\ \A j \in i .. Len(s) :
       s[j].packet.conn = c /\ NoEnd(s, c, i, j - 1) => s[j].host = h
  /\ NoEnd(s, c, i, Len(s)) => port.phase # "closed" /\ port.host = h

(* The client goes on, or is reset.                                        *)
LEMMA SteadyPort ==
  ASSUME NEW s, NEW c, NEW h, NEW i, NEW port, NEW port2, Steady(s, port, c, h, i),
         port2.host = port.host, port.phase # "closed" => port2.phase # "closed"
  PROVE  Steady(s, port2, c, h, i)
  BY DEF Steady

(* The packet at the place does not close the connection.                  *)
LEMMA SteadyLater ==
  ASSUME NEW s \in Seq(Captures), NEW c, NEW h, NEW i \in 1 .. Len(s), NEW port,
         Steady(s, port, c, h, i), ~(s[i].packet.conn = c /\ Closing(s[i].packet))
  PROVE  Steady(s, port, c, h, i + 1)
<1>1. Len(s) \in Nat
  BY LenProperties
<1>2. ASSUME NEW j \in Nat, NoEnd(s, c, i + 1, j)
      PROVE  NoEnd(s, c, i, j)
  BY <1>2 DEF NoEnd
<1>3. \A j \in i + 1 .. Len(s) : j \in i .. Len(s) /\ j - 1 \in Nat
  BY <1>1
<1>. QED  BY <1>1, <1>2, <1>3 DEF Steady

(* The first packet is taken.                                              *)
LEMMA SteadyTail ==
  ASSUME NEW s \in Seq(Captures), s # <<>>, NEW c, NEW h, NEW i \in 1 .. Len(s), NEW port,
         Steady(s, port, c, h, i + 1)
  PROVE  Steady(Tail(s), port, c, h, i)
<1>1. PICK n \in Nat : n = Len(s)
  BY LenProperties
<1>2. PICK q : q = Tail(s)
  OBVIOUS
<1>3. Len(q) = n - 1 /\ \A k \in 1 .. n - 1 : q[k] = s[k + 1]
  BY <1>1, <1>2, HeadTailProperties
<1>4. ASSUME NEW j \in 0 .. n - 1, NoEnd(q, c, i, j)
      PROVE  NoEnd(s, c, i + 1, j + 1)
  <2>. SUFFICES ASSUME NEW k \in i + 1 .. j + 1
                PROVE  ~(s[k].packet.conn = c /\ Closing(s[k].packet))
    BY DEF NoEnd
  <2>1. k - 1 \in i .. j /\ k - 1 \in 1 .. n - 1 /\ (k - 1) + 1 = k
    BY <1>1, <1>4
  <2>2. q[k - 1] = s[k]
    BY <1>3, <2>1
  <2>. QED  BY <1>4, <2>1, <2>2 DEF NoEnd
<1>5. ASSUME NEW j \in i .. Len(q), q[j].packet.conn = c, NoEnd(q, c, i, j - 1)
      PROVE  q[j].host = h
  <2>1. /\ j - 1 \in 0 .. n - 1 /\ (j - 1) + 1 = j
        /\ j + 1 \in i + 1 .. n /\ (j + 1) - 1 = j /\ j \in 1 .. n - 1
    BY <1>1, <1>3, <1>5
  <2>2. NoEnd(s, c, i + 1, (j + 1) - 1)
    BY <1>4, <1>5, <2>1
  <2>3. q[j] = s[j + 1]
    BY <1>3, <2>1
  <2>. QED  BY <1>1, <1>5, <2>1, <2>2, <2>3 DEF Steady
<1>6. NoEnd(q, c, i, Len(q)) => port.phase # "closed" /\ port.host = h
  <2>1. n - 1 \in 0 .. n - 1 /\ (n - 1) + 1 = n
    BY <1>1
  <2>. QED  BY <1>1, <1>3, <1>4, <2>1 DEF Steady
<1>. QED  BY <1>2, <1>5, <1>6 DEF Steady

(* A packet that closes no connection is missed.                           *)
LEMMA SteadyRemove ==
  ASSUME NEW s \in Seq(Captures), NEW m \in 1 .. Len(s), ~Closing(s[m].packet),
         NEW c, NEW h, NEW i \in 1 .. Len(s) + 1, NEW port, Steady(s, port, c, h, i)
  PROVE  Steady(RemoveAt(s, m), port, c, h, IF i <= m THEN i ELSE i - 1)
<1>1. PICK n \in Nat : n = Len(s)
  BY LenProperties
<1>2. PICK q : q = RemoveAt(s, m)
  OBVIOUS
<1>3. /\ Len(q) = n - 1
      /\ \A k \in 1 .. n - 1 : q[k] = IF k < m THEN s[k] ELSE s[k + 1]
  BY <1>1, <1>2, RemoveKeeps
<1>4. PICK b \in 1 .. n : b = IF i <= m THEN i ELSE i - 1
  BY <1>1
<1>5. ASSUME NEW j \in 0 .. n, NoEnd(q, c, b, IF j < m THEN j ELSE j - 1)
      PROVE  NoEnd(s, c, i, j)
  <2>. SUFFICES ASSUME NEW k \in i .. j
                PROVE  ~(s[k].packet.conn = c /\ Closing(s[k].packet))
    BY DEF NoEnd
  <2>1. CASE k < m
    <3>1. k \in b .. (IF j < m THEN j ELSE j - 1) /\ k \in 1 .. n - 1
      BY <1>1, <1>4, <1>5, <2>1
    <3>. QED  BY <1>3, <1>5, <2>1, <3>1 DEF NoEnd
  <2>2. CASE k > m
    <3>1. /\ k - 1 \in b .. (IF j < m THEN j ELSE j - 1) /\ k - 1 \in 1 .. n - 1
          /\ ~(k - 1 < m) /\ (k - 1) + 1 = k
      BY <1>1, <1>4, <1>5, <2>2
    <3>2. q[k - 1] = s[k]
      BY <1>3, <3>1
    <3>. QED  BY <1>5, <3>1, <3>2 DEF NoEnd
  <2>. QED  BY <1>1, <2>1, <2>2
<1>6. ASSUME NEW j \in b .. n - 1, q[j].packet.conn = c, NoEnd(q, c, b, j - 1)
      PROVE  q[j].host = h
  <2>1. PICK l \in i .. n : l = IF j < m THEN j ELSE j + 1
    BY <1>1, <1>4, <1>6
  <2>2. j \in 1 .. n - 1 /\ q[j] = s[l]
    BY <1>1, <1>3, <1>4, <1>6, <2>1
  <2>3. l - 1 \in 0 .. n /\ j - 1 = IF l - 1 < m THEN l - 1 ELSE (l - 1) - 1
    <3>1. CASE j < m
      BY <1>1, <1>4, <1>6, <2>1, <3>1
    <3>2. CASE j > m
      BY <1>1, <1>4, <1>6, <2>1, <3>2
    <3>3. CASE j = m
      BY <1>1, <1>4, <1>6, <2>1, <3>3
    <3>. QED  BY <1>1, <1>4, <1>6, <3>1, <3>2, <3>3
  <2>4. NoEnd(s, c, i, l - 1)
    BY <1>5, <1>6, <2>3
  <2>. QED  BY <1>1, <1>6, <2>1, <2>2, <2>4 DEF Steady
<1>7. NoEnd(q, c, b, n - 1) => port.phase # "closed" /\ port.host = h
  <2>1. n \in 0 .. n /\ n - 1 = IF n < m THEN n ELSE n - 1
    BY <1>1
  <2>2. NoEnd(q, c, b, n - 1) => NoEnd(s, c, i, n)
    BY <1>5, <2>1
  <2>. QED  BY <1>1, <2>2 DEF Steady
<1>. QED  BY <1>2, <1>3, <1>4, <1>6, <1>7 DEF Steady

(* A client sends some packets.  Nothing changes for the other ports; if   *)
(* it opens its port, the port was closed.                                 *)
LEMMA SteadyAppend ==
  ASSUME NEW s \in Seq(Captures), NEW t \in Seq(Captures), NEW c, NEW h,
         NEW i \in 1 .. Len(s) + 1, NEW port, NEW port2, Steady(s, port, c, h, i),
         \/ (\A k \in 1 .. Len(t) : t[k].packet.conn # c) /\ port2 = port
         \/ port.phase = "closed"
         \/ /\ \A k \in 1 .. Len(t) : t[k].host = port.host /\ t[k].packet.conn = c
            /\ port2.host = port.host
            /\ \/ port2.phase # "closed"
               \/ Len(t) = 1 /\ Closing(t[1].packet)
  PROVE  Steady(s \o t, port2, c, h, i)
<1>1. PICK n \in Nat, m \in Nat : n = Len(s) /\ m = Len(t)
  BY LenProperties
<1>2. PICK q : q = s \o t
  OBVIOUS
<1>3. /\ Len(q) = n + m
      /\ \A k \in 1 .. n : q[k] = s[k]
      /\ \A k \in 1 .. m : q[n + k] = t[k]
  <2>1. /\ Len(q) = n + m
        /\ \A k \in 1 .. n + m : q[k] = IF k <= n THEN s[k] ELSE t[k - n]
    BY <1>1, <1>2, ConcatProperties
  <2>2. ASSUME NEW k \in 1 .. m
        PROVE  q[n + k] = t[k]
    <3>1. n + k \in 1 .. n + m /\ ~(n + k <= n) /\ (n + k) - n = k
      BY <1>1
    <3>. QED  BY <2>1, <3>1
  <2>. QED  BY <1>1, <2>1, <2>2
<1>4. ASSUME NEW j \in 0 .. n + m, NoEnd(q, c, i, j)
      PROVE  NoEnd(s, c, i, IF j <= n THEN j ELSE n)
  BY <1>1, <1>3, <1>4 DEF NoEnd
<1>5. ASSUME NEW j \in n .. n + m, NoEnd(q, c, i, j)
      PROVE  port.phase # "closed" /\ port.host = h
  <2>1. NoEnd(s, c, i, n)
    BY <1>1, <1>4, <1>5
  <2>. QED  BY <1>1, <2>1 DEF Steady
<1>6. ASSUME NEW j \in i .. n + m, q[j].packet.conn = c, NoEnd(q, c, i, j - 1)
      PROVE  q[j].host = h
  <2>1. CASE j <= n
    <3>1. j \in i .. n /\ j \in 1 .. n /\ j - 1 \in 0 .. n + m /\ j - 1 <= n
      BY <1>1, <1>6, <2>1
    <3>2. NoEnd(s, c, i, j - 1)
      BY <1>4, <1>6, <3>1
    <3>. QED  BY <1>1, <1>3, <1>6, <3>1, <3>2 DEF Steady
  <2>2. CASE j > n
    <3>1. j - 1 \in n .. n + m /\ j - n \in 1 .. m /\ n + (j - n) = j
      BY <1>1, <1>6, <2>2
    <3>2. port.phase # "closed" /\ port.host = h
      BY <1>5, <1>6, <3>1
    <3>3. q[j] = t[j - n]
      BY <1>3, <3>1
    <3>. QED  BY <1>1, <1>6, <3>1, <3>2, <3>3
  <2>. QED  BY <1>1, <1>6, <2>1, <2>2
<1>7. ASSUME NoEnd(q, c, i, n + m)
      PROVE  port2.phase # "closed" /\ port2.host = h
  <2>1. port.phase # "closed" /\ port.host = h
    BY <1>1, <1>5, <1>7
  <2>2. ASSUME m = 1, Closing(t[1].packet), t[1].packet.conn = c
        PROVE  FALSE
    <3>1. n + 1 \in i .. n + m /\ q[n + 1] = t[1]
      BY <1>1, <1>3, <2>2
    <3>. QED  BY <1>7, <2>2, <3>1 DEF NoEnd
  <2>3. CASE \A k \in 1 .. Len(t) : t[k].host = port.host /\ t[k].packet.conn = c
    BY <1>1, <2>1, <2>2, <2>3
  <2>4. CASE port2 = port
    BY <2>1, <2>4
  <2>. QED  BY <2>1, <2>3, <2>4
<1>. QED  BY <1>2, <1>3, <1>6, <1>7 DEF Steady

(* What is sent is itself followed by packets of its client.               *)
LEMMA SteadyNew ==
  ASSUME NEW s \in Seq(Captures), NEW t \in Seq(Captures), NEW c, NEW port,
         NEW m \in 1 .. Len(t), ~Closing(t[m].packet),
         \A k \in 1 .. Len(t) : t[k].host = port.host,
         port.phase # "closed" \/ (Len(t) = 1 /\ Closing(t[1].packet))
  PROVE  Steady(s \o t, port, c, t[m].host, Len(s) + m + 1)
<1>1. PICK n \in Nat, l \in Nat : n = Len(s) /\ l = Len(t)
  BY LenProperties
<1>2. PICK q : q = s \o t
  OBVIOUS
<1>3. /\ Len(q) = n + l
      /\ \A k \in 1 .. n + l : q[k] = IF k <= n THEN s[k] ELSE t[k - n]
  BY <1>1, <1>2, ConcatProperties
<1>4. port.phase # "closed" /\ t[m].host = port.host
  BY <1>1
<1>5. ASSUME NEW j \in n + m + 1 .. n + l
      PROVE  q[j].host = port.host
  <2>1. j \in 1 .. n + l /\ ~(j <= n) /\ j - n \in 1 .. l
    BY <1>1, <1>5
  <2>2. q[j] = t[j - n]
    BY <1>3, <2>1
  <2>. QED  BY <1>1, <2>1, <2>2
<1>. QED  BY <1>1, <1>2, <1>3, <1>4, <1>5 DEF Steady
-----------------------------------------------------------------------------
(* A client whose port rests is judged by its own verdicts.  Packets of a  *)
(* connection are followed by packets of the same client until one closes  *)
(* it, on their way, in a worker's hands and behind a verdict; and a       *)
(* worker forgets the verdict with the packet that closes the connection.  *)
WireProper == \A k \in 1 .. Len(wire) : Proper(wire[k].packet, wire[k].host)

WireSteady ==
  \A k \in 1 .. Len(wire) :
    LET c == wire[k].packet.conn
    IN  ~Closing(wire[k].packet) => Steady(wire, client[c], c, wire[k].host, k + 1)

HeldSteady(w) ==
  LET c == pkt[w].conn
  IN  pc[w] # "idle" /\ ~Closing(pkt[w]) => Steady(wire, client[c], c, of[w], 1)

Ending == {pkt[w].conn : w \in {v \in Workers : pc[v] = "close"}}
VerdictSteady ==
  \A c \in Judged \ Ending : Steady(wire, client[c], c, about[c], 1)

OwnVerdict(w) ==
  /\ pc[w] # "idle" => Proper(pkt[w], of[w])
  /\ pc[w] # "idle" /\ pkt[w].conn \in Judged => about[pkt[w].conn] = of[w]
  /\ pc[w] \notin {"idle", "close"} /\ Closing(pkt[w]) =>
       pkt[w].conn \notin Judged /\ pc[w] \in {"lookup", "blockcheck"}
  /\ pc[w] \in {"classify", "unlisted", "block", "allow"} => pkt[w].domain # NoDomain

Own ==
  /\ WireProper /\ WireSteady /\ VerdictSteady
  /\ \A w \in Workers : HeldSteady(w) /\ OwnVerdict(w)

(* The tracker does nothing.                                               *)
LEMMA TrackerRests ==
  ASSUME Own, UNCHANGED <<vars, of, about>>,
         WireProper', WireSteady', VerdictSteady', \A w \in Workers : HeldSteady(w)'
  PROVE  Own'
<1>1. \A w \in Workers : OwnVerdict(w)'
  BY DEF Own, OwnVerdict, Judged, In, vars
<1>. QED  BY <1>1 DEF Own

(* Another worker is at another connection.                                *)
LEMMA OtherOwn ==
  ASSUME NEW v \in Workers, HeldSteady(v), OwnVerdict(v), UNCHANGED <<wire, client>>,
         pc'[v] = pc[v], pkt'[v] = pkt[v], of'[v] = of[v],
         pc[v] # "idle" =>
           /\ pkt[v].conn \in Judged' <=> pkt[v].conn \in Judged
           /\ pkt[v].conn \in Judged => about'[pkt[v].conn] = about[pkt[v].conn]
  PROVE  HeldSteady(v)' /\ OwnVerdict(v)'
  BY DEF HeldSteady, OwnVerdict

LEMMA WireConns ==
  ASSUME World
  PROVE  /\ Len(wire) \in Nat /\ DOMAIN wire = 1 .. Len(wire)
         /\ \A k \in 1 .. Len(wire) :
              /\ wire[k] \in Captures /\ wire[k].packet \in Packet
              /\ wire[k].packet.conn \in Conns
<1>1. /\ Len(wire) \in Nat /\ DOMAIN wire = 1 .. Len(wire)
      /\ \A k \in 1 .. Len(wire) : wire[k] \in Captures
  BY LenProperties DEF World
<1>2. ASSUME NEW k \in 1 .. Len(wire)
      PROVE  wire[k].packet \in Packet
  <2>1. wire[k].packet \in Traffic
    BY <1>1 DEF Captures
  <2>. QED  BY <2>1, TrackerAssumption
<1>3. \A k \in 1 .. Len(wire) : wire[k].packet.conn \in Conns
  BY <1>2 DEF Packet
<1>. QED  BY <1>1, <1>2, <1>3

LEMMA SendsOwn ==
  ASSUME TypeOK, World, Own, NEW c \in Conns, NEW packets \in Seq(Traffic),
         Orderly, Sends(c, packets), client' \in Ports,
         \A d \in Conns \ {c} : client'[d] = client[d],
         Spoken(c, packets), Opens(c, packets) \/ Talks(c, packets) \/ Closes(c, packets)
  PROVE  Own'
<1>1. PICK n \in Nat, m \in Nat : n = Len(wire) /\ m = Len(packets)
  BY LenProperties DEF World
<1>2. wire \in Seq(Captures) /\ client \in Ports
  BY DEF World
<1>3. DOMAIN packets = 1 .. m
  BY <1>1, LenProperties
<1>4. PICK t : t = [k \in DOMAIN packets |-> [packet |-> packets[k], host |-> client'[c].host]]
  OBVIOUS
<1>5. /\ t \in Seq(Captures) /\ Len(t) = m
      /\ \A k \in 1 .. m : t[k].packet = packets[k] /\ t[k].host = client'[c].host
  <2>1. \A k \in 1 .. m : packets[k] \in Traffic
    BY <1>1, LenProperties
  <2>2. client'[c].host \in Hosts
    BY DEF Ports
  <2>3. t \in [1 .. m -> Captures]
    BY <1>3, <1>4, <2>1, <2>2 DEF Captures
  <2>. QED  BY <1>1, <1>3, <1>4, <2>3
<1>6. PICK q : q = wire'
  OBVIOUS
<1>7. q = wire \o t
  BY <1>4, <1>6 DEF Sends, Captured
<1>8. /\ Len(q) = n + m
      /\ \A k \in 1 .. n : q[k] = wire[k]
      /\ \A k \in n + 1 .. n + m : k - n \in 1 .. m /\ q[k] = t[k - n]
  <2>1. /\ Len(q) = n + m
        /\ \A k \in 1 .. n + m : q[k] = IF k <= n THEN wire[k] ELSE t[k - n]
    <3>1. /\ Len(wire \o t) = Len(wire) + Len(t)
          /\ \A k \in 1 .. Len(wire) + Len(t) :
               (wire \o t)[k] = IF k <= Len(wire) THEN wire[k] ELSE t[k - Len(wire)]
      BY <1>2, <1>5, ConcatProperties
    <3>. QED  BY <1>1, <1>5, <1>7, <3>1
  <2>. QED  BY <1>1, <2>1
(* Whoever can count on the next packets can go on counting on them: only  *)
(* a port that nobody counts on changes hands.                             *)
<1>9. ASSUME NEW d \in Conns, NEW h, NEW i \in 1 .. n + 1, Steady(wire, client[d], d, h, i),
             d = c => ~Rested(c) \/ ~Opens(c, packets)
      PROVE  Steady(q, client'[d], d, h, i)
  <2>1. CASE d # c
    <3>1. \A k \in 1 .. Len(t) : t[k].packet.conn # d
      BY <1>1, <1>3, <1>5, <2>1 DEF Spoken
    <3>2. PICK port : port = client'[d]
      OBVIOUS
    <3>3. port = client[d]
      BY <2>1, <3>2
    <3>. QED  BY <1>1, <1>2, <1>5, <1>7, <1>9, <3>1, <3>2, <3>3, SteadyAppend
  <2>2. CASE d = c /\ client[c].phase = "closed"
    <3>1. PICK port : port = client'[d]
      OBVIOUS
    <3>. QED  BY <1>1, <1>2, <1>5, <1>7, <1>9, <2>2, <3>1, SteadyAppend
  <2>3. CASE d = c /\ (Talks(c, packets) \/ Closes(c, packets))
    <3>1. PICK port : port = client'[d]
      OBVIOUS
    <3>2. /\ \A k \in 1 .. Len(t) : t[k].host = client[d].host /\ t[k].packet.conn = d
          /\ port.host = client[d].host
      BY <1>1, <1>3, <1>5, <2>3, <3>1 DEF Spoken, Talks, Closes
    <3>3. port.phase # "closed" \/ (Len(t) = 1 /\ Closing(t[1].packet))
      BY <1>1, <1>5, <2>3, <3>1 DEF Talks, Closes
    <3>. QED  BY <1>1, <1>2, <1>5, <1>7, <1>9, <3>1, <3>2, <3>3, SteadyAppend
  <2>. QED  BY <1>9, <2>1, <2>2, <2>3 DEF Opens
<1>10. Rested(c) => /\ c \notin Judged
                    /\ \A k \in 1 .. n : wire[k].packet.conn # c
                    /\ \A w \in Workers : pc[w] # "idle" => pkt[w].conn # c
  <2>1. DOMAIN wire = 1 .. n
    BY <1>1, <1>2, LenProperties
  <2>. QED  BY <2>1 DEF Rested, InFlight
<1>11. WireProper'
  <2>1. \A k \in 1 .. m : Proper(packets[k], client'[c].host)
    BY <1>3 DEF Spoken
  <2>2. ASSUME NEW k \in 1 .. n + m
        PROVE  Proper(q[k].packet, q[k].host)
    <3>1. CASE k \in 1 .. n
      BY <1>1, <1>8, <3>1 DEF Own, WireProper
    <3>2. CASE k \in n + 1 .. n + m
      <4>1. k - n \in 1 .. m /\ q[k] = t[k - n]
        BY <1>8, <3>2
      <4>2. q[k].packet = packets[k - n] /\ q[k].host = client'[c].host
        BY <1>5, <4>1
      <4>. QED  BY <2>1, <4>1, <4>2
    <3>. QED  BY <1>1, <3>1, <3>2
  <2>. QED  BY <1>6, <1>8, <2>2 DEF WireProper
<1>12. \A k \in 1 .. n : wire[k].packet.conn \in Conns
  BY <1>1, WireConns
<1>13. WireSteady'
  <2>1. ASSUME NEW k \in 1 .. n + m, NEW d, d = q[k].packet.conn, ~Closing(q[k].packet)
        PROVE  Steady(q, client'[d], d, q[k].host, k + 1)
    <3>1. CASE k \in 1 .. n
      <4>1. q[k] = wire[k] /\ k + 1 \in 1 .. n + 1 /\ d \in Conns
        BY <1>1, <1>8, <1>12, <2>1, <3>1
      <4>2. Steady(wire, client[d], d, wire[k].host, k + 1)
        BY <1>1, <2>1, <3>1, <4>1 DEF Own, WireSteady
      <4>3. d = c => ~Rested(c)
        BY <1>10, <2>1, <3>1, <4>1
      <4>. QED  BY <1>9, <4>1, <4>2, <4>3
    <3>2. CASE k \in n + 1 .. n + m
      <4>1. PICK j \in 1 .. m : j = k - n
        BY <1>8, <3>2
      <4>2. q[k] = t[j] /\ d = c /\ n + j + 1 = k + 1
        BY <1>1, <1>3, <1>5, <1>8, <2>1, <3>2, <4>1 DEF Spoken
      <4>3. PICK port : port = client'[c]
        OBVIOUS
      <4>4. \A l \in 1 .. Len(t) : t[l].host = port.host
        BY <1>5, <4>3
      <4>5. port.phase # "closed" \/ (Len(t) = 1 /\ Closing(t[1].packet))
        BY <1>1, <1>5, <4>3 DEF Opens, Talks, Closes
      <4>6. Steady(wire \o t, port, c, t[j].host, Len(wire) + j + 1)
        BY <1>2, <1>5, <2>1, <4>2, <4>4, <4>5, SteadyNew
      <4>. QED  BY <1>1, <1>7, <4>2, <4>3, <4>6
    <3>. QED  BY <1>1, <3>1, <3>2
  <2>. QED  BY <1>6, <1>8, <2>1 DEF WireSteady
<1>14. ASSUME NEW w \in Workers
       PROVE  HeldSteady(w)'
  <2>1. ASSUME pc[w] # "idle", ~Closing(pkt[w]), NEW d, d = pkt[w].conn
        PROVE  Steady(q, client'[d], d, of[w], 1)
    <3>1. d \in Conns
      BY <2>1, Held
    <3>2. Steady(wire, client[d], d, of[w], 1)
      BY <2>1 DEF Own, HeldSteady
    <3>3. (d = c => ~Rested(c)) /\ 1 \in 1 .. n + 1
      BY <1>1, <1>10, <2>1
    <3>. QED  BY <1>9, <3>1, <3>2, <3>3
  <2>. QED  BY <1>6, <2>1 DEF HeldSteady, Sends, vars
<1>15. VerdictSteady'
  <2>1. ASSUME NEW d \in Judged \ Ending
        PROVE  Steady(q, client'[d], d, about[d], 1)
    <3>1. d \in Conns
      BY DEF Judged, In
    <3>2. Steady(wire, client[d], d, about[d], 1)
      BY <2>1 DEF Own, VerdictSteady
    <3>. QED  BY <1>1, <1>9, <1>10, <2>1, <3>1, <3>2
  <2>2. Judged' = Judged /\ Ending' = Ending
    BY DEF Sends, vars, Judged, In, Ending
  <2>. QED  BY <1>6, <2>1, <2>2 DEF VerdictSteady, Sends
<1>. QED  BY <1>11, <1>13, <1>14, <1>15, TrackerRests DEF Sends

(* A reset ends a connection, the tracker at most takes it off its queue.  *)
LEMMA ResetsOwn ==
  ASSUME Own, UNCHANGED <<tables, pc, pkt, wire, of, about>>,
         \A c \in Conns : /\ client'[c].host = client[c].host
                          /\ client[c].phase # "closed" => client'[c].phase # "closed",
         \A k \in 1 .. Len(wire) : wire[k].packet.conn \in Conns,
         \A w \in Workers : pc[w] # "idle" => pkt[w].conn \in Conns
  PROVE  Own'
<1>1. ASSUME NEW c \in Conns, NEW h, NEW i, Steady(wire, client[c], c, h, i)
      PROVE  Steady(wire, client'[c], c, h, i)
  BY <1>1, SteadyPort
<1>2. Judged' = Judged /\ Judged \subseteq Conns /\ Ending' = Ending
  BY DEF Judged, In, tables, Ending
<1>3. WireProper' /\ \A w \in Workers : OwnVerdict(w)'
  BY <1>2 DEF Own, WireProper, OwnVerdict
<1>4. WireSteady'
  BY <1>1 DEF Own, WireSteady
<1>5. ASSUME NEW w \in Workers
      PROVE  HeldSteady(w)'
  BY <1>1 DEF Own, HeldSteady
<1>6. VerdictSteady'
  BY <1>1, <1>2 DEF Own, VerdictSteady
<1>. QED  BY <1>3, <1>4, <1>5, <1>6 DEF Own

LEMMA MissOwn ==
  ASSUME World, Own, Orderly, Miss
  PROVE  Own'
<1>1. PICK n \in Nat : n = Len(wire)
  BY WireConns
<1>2. wire \in Seq(Captures)
  BY DEF World
<1>3. PICK m \in 1 .. n : ~Closing(wire[m].packet) /\ wire' = RemoveAt(wire, m)
  BY <1>1, WireConns DEF Miss
<1>4. PICK q : q = wire'
  OBVIOUS
<1>5. /\ q = RemoveAt(wire, m) /\ Len(q) = n - 1
      /\ \A k \in 1 .. n - 1 : q[k] = IF k < m THEN wire[k] ELSE wire[k + 1]
  BY <1>1, <1>2, <1>3, <1>4, RemoveKeeps
<1>6. ASSUME NEW c, NEW h, NEW i \in 1 .. n + 1, NEW port, Steady(wire, port, c, h, i),
             NEW j, j = IF i <= m THEN i ELSE i - 1
      PROVE  Steady(q, port, c, h, j)
  BY <1>1, <1>2, <1>3, <1>5, <1>6, SteadyRemove
<1>7. WireProper' /\ WireSteady'
  <2>1. ASSUME NEW k \in 1 .. n - 1
        PROVE  /\ Proper(q[k].packet, q[k].host)
               /\ ~Closing(q[k].packet) =>
                    Steady(q, client[q[k].packet.conn], q[k].packet.conn, q[k].host, k + 1)
    <3>1. PICK l \in 1 .. n : l = IF k < m THEN k ELSE k + 1
      BY <1>1, <2>1
    <3>2. q[k] = wire[l]
      BY <1>5, <3>1
    <3>3. Proper(wire[l].packet, wire[l].host)
      BY <1>1 DEF Own, WireProper
    <3>4. l + 1 \in 1 .. n + 1 /\ k + 1 = IF l + 1 <= m THEN l + 1 ELSE (l + 1) - 1
      <4>1. CASE k < m
        BY <1>1, <2>1, <3>1, <4>1
      <4>2. CASE ~(k < m)
        BY <1>1, <2>1, <3>1, <4>2
      <4>. QED  BY <4>1, <4>2
    <3>5. PICK c : c = wire[l].packet.conn
      OBVIOUS
    <3>6. ~Closing(wire[l].packet) => Steady(wire, client[c], c, wire[l].host, l + 1)
      BY <1>1, <3>5 DEF Own, WireSteady
    <3>7. ~Closing(wire[l].packet) => Steady(q, client[c], c, wire[l].host, k + 1)
      BY <1>6, <3>4, <3>6
    <3>. QED  BY <3>2, <3>3, <3>5, <3>7
  <2>. QED  BY <1>4, <1>5, <2>1 DEF Miss, WireProper, WireSteady
<1>8. 1 \in 1 .. n + 1 /\ 1 = IF 1 <= m THEN 1 ELSE 1 - 1
  BY <1>1
<1>9. ASSUME NEW w \in Workers
      PROVE  HeldSteady(w)'
  <2>1. ASSUME pc[w] # "idle", ~Closing(pkt[w])
        PROVE  Steady(q, client[pkt[w].conn], pkt[w].conn, of[w], 1)
    BY <1>6, <1>8, <2>1 DEF Own, HeldSteady
  <2>. QED  BY <1>4, <2>1 DEF HeldSteady, Miss, vars
<1>10. VerdictSteady'
  <2>1. ASSUME NEW c \in Judged \ Ending
        PROVE  Steady(q, client[c], c, about[c], 1)
    BY <1>6, <1>8, <2>1 DEF Own, VerdictSteady
  <2>2. Judged' = Judged /\ Ending' = Ending
    BY DEF Miss, vars, Judged, In, Ending
  <2>. QED  BY <1>4, <2>1, <2>2 DEF VerdictSteady, Miss
<1>. QED  BY <1>7, <1>9, <1>10, TrackerRests DEF Miss

LEMMA TakesOwn ==
  ASSUME NEW w \in Workers, TypeOK, World, Own, Takes(w), Apart'
  PROVE  Own'
<1>1. PICK n \in Nat : n = Len(wire)
  BY WireConns
<1>2. wire \in Seq(Captures) /\ wire # <<>> /\ pc[w] = "idle"
  BY DEF World, Takes, Dequeue
<1>3. PICK q : q = Tail(wire)
  OBVIOUS
<1>4. /\ n >= 1 /\ Head(wire) = wire[1] /\ Len(q) = n - 1
      /\ \A k \in 1 .. n - 1 : q[k] = wire[k + 1]
  BY <1>1, <1>2, <1>3, HeadTailProperties
<1>5. PICK p : p = wire[1].packet
  OBVIOUS
<1>6. /\ wire' = q /\ pkt' = [pkt EXCEPT ![w] = p]
      /\ pc' = [pc EXCEPT ![w] = IF Closing(p) THEN "close" ELSE "lookup"]
      /\ of' = [of EXCEPT ![w] = wire[1].host]
      /\ UNCHANGED <<tables, client, about>>
  BY <1>3, <1>4, <1>5 DEF Takes, Dequeue, Goto
<1>7. /\ pkt'[w] = p /\ pc'[w] = (IF Closing(p) THEN "close" ELSE "lookup")
      /\ of'[w] = wire[1].host
  BY <1>6 DEF TypeOK, World
<1>8. Judged' = Judged
  BY <1>6 DEF Judged, In, tables
<1>r. \A v \in Workers \ {w} : pc'[v] = pc[v] /\ pkt'[v] = pkt[v] /\ of'[v] = of[v]
  BY <1>6 DEF TypeOK, World
<1>s. pc'[w] # "idle" /\ \A v \in Workers \ {w} : pc[v] # "idle" => pkt[v].conn # p.conn
  BY <1>7, <1>r DEF Apart
<1>9. ASSUME NEW c, NEW h, NEW i \in 1 .. n, NEW port, Steady(wire, port, c, h, i + 1)
      PROVE  Steady(q, port, c, h, i)
  BY <1>1, <1>2, <1>3, <1>9, SteadyTail
<1>10. WireProper' /\ WireSteady'
  <2>1. ASSUME NEW k \in 1 .. n - 1
        PROVE  /\ Proper(q[k].packet, q[k].host)
               /\ ~Closing(q[k].packet) =>
                    Steady(q, client[q[k].packet.conn], q[k].packet.conn, q[k].host, k + 1)
    <3>1. k + 1 \in 1 .. n /\ q[k] = wire[k + 1]
      BY <1>1, <1>4, <2>1
    <3>2. Proper(wire[k + 1].packet, wire[k + 1].host)
      BY <1>1, <3>1 DEF Own, WireProper
    <3>3. PICK c : c = wire[k + 1].packet.conn
      OBVIOUS
    <3>4. ~Closing(wire[k + 1].packet) =>
            Steady(wire, client[c], c, wire[k + 1].host, (k + 1) + 1)
      BY <1>1, <3>1, <3>3 DEF Own, WireSteady
    <3>. QED  BY <1>9, <3>1, <3>2, <3>3, <3>4
  <2>. QED  BY <1>4, <1>6, <2>1 DEF WireProper, WireSteady
(* What is steady behind the first packet stays so without it.             *)
<1>n. ASSUME NEW c, NEW h, NEW port, Steady(wire, port, c, h, 1), ~(p.conn = c /\ Closing(p))
      PROVE  Steady(q, port, c, h, 1)
  <2>1. 1 \in 1 .. Len(wire) /\ ~(wire[1].packet.conn = c /\ Closing(wire[1].packet))
    BY <1>1, <1>4, <1>5, <1>n
  <2>2. Steady(wire, port, c, h, 1 + 1)
    BY <1>2, <1>n, <2>1, SteadyLater
  <2>. QED  BY <1>1, <1>4, <1>9, <2>2
<1>11. ASSUME NEW v \in Workers
       PROVE  HeldSteady(v)'
  <2>1. CASE v = w
    <3>1. ASSUME ~Closing(p), NEW c, c = p.conn
          PROVE  Steady(q, client[c], c, wire[1].host, 1)
      <4>1. Steady(wire, client[c], c, wire[1].host, 1 + 1)
        BY <1>1, <1>4, <1>5, <3>1 DEF Own, WireSteady
      <4>. QED  BY <1>1, <1>4, <1>9, <4>1
    <3>. QED  BY <1>6, <1>7, <2>1, <3>1 DEF HeldSteady
  <2>2. CASE v # w
    <3>1. ASSUME pc[v] # "idle", ~Closing(pkt[v]), NEW c, c = pkt[v].conn
          PROVE  Steady(q, client[c], c, of[v], 1)
      <4>1. Steady(wire, client[c], c, of[v], 1)
        BY <3>1 DEF Own, HeldSteady
      <4>2. PICK port : port = client[c]
        OBVIOUS
      <4>. QED  BY <1>n, <1>s, <2>2, <3>1, <4>1, <4>2
    <3>. QED  BY <1>6, <1>r, <2>2, <3>1 DEF HeldSteady
  <2>. QED  BY <2>1, <2>2
<1>12. VerdictSteady'
  <2>1. ASSUME NEW c \in Judged, c \notin Ending'
        PROVE  Steady(q, client[c], c, about[c], 1)
    <3>1. c \notin Ending /\ ~(p.conn = c /\ Closing(p))
      BY <1>2, <1>7, <1>r, <2>1 DEF Ending
    <3>2. Steady(wire, client[c], c, about[c], 1)
      BY <3>1 DEF Own, VerdictSteady
    <3>3. PICK port, h : port = client[c] /\ h = about[c]
      OBVIOUS
    <3>. QED  BY <1>n, <3>1, <3>2, <3>3
  <2>. QED  BY <1>6, <1>8, <2>1 DEF VerdictSteady
<1>13. ASSUME NEW v \in Workers
       PROVE  OwnVerdict(v)'
  <2>1. CASE v = w
    <3>1. Proper(p, wire[1].host)
      BY <1>1, <1>4, <1>5 DEF Own, WireProper
    <3>2. ASSUME NEW c \in Judged, c = p.conn
          PROVE  about[c] = wire[1].host
      <4>1. c \notin Ending
        BY <1>2, <1>s, <3>2 DEF Ending
      <4>2. Steady(wire, client[c], c, about[c], 1)
        BY <4>1 DEF Own, VerdictSteady
      <4>3. NoEnd(wire, c, 1, 1 - 1) /\ 1 \in 1 .. Len(wire)
        BY <1>1, <1>4 DEF NoEnd
      <4>. QED  BY <1>5, <3>2, <4>2, <4>3 DEF Steady
    <3>. QED  BY <1>6, <1>7, <1>8, <2>1, <3>1, <3>2 DEF OwnVerdict
  <2>2. CASE v # w
    BY <1>6, <1>8, <1>r, <2>2 DEF Own, OwnVerdict
  <2>. QED  BY <2>1, <2>2
<1>. QED  BY <1>10, <1>11, <1>12, <1>13 DEF Own

(* A worker goes on without giving or forgetting a verdict.                *)
LEMMA GoesOnOwn ==
  ASSUME NEW w \in Workers, TypeOK, Own, UNCHANGED <<wire, client>>, OthersRest(w),
         \A v \in Workers \ {w} : of'[v] = of[v],
         Judged' = Judged, \A c \in Judged : about'[c] = about[c],
         pc[w] \notin {"idle", "close"},
         \/ pc'[w] = "idle"
         \/ /\ pkt'[w] = pkt[w] /\ of'[w] = of[w] /\ pc'[w] \notin {"idle", "close"}
            /\ Closing(pkt[w]) => pc'[w] \in {"lookup", "blockcheck"}
            /\ pc'[w] \in {"classify", "unlisted", "block", "allow"} => pkt[w].domain # NoDomain
  PROVE  Own'
<1>1. WireProper' /\ WireSteady'
  BY DEF Own, WireProper, WireSteady
<1>2. HeldSteady(w)' /\ OwnVerdict(w)'
  BY DEF Own, HeldSteady, OwnVerdict
<1>3. ASSUME NEW v \in Workers \ {w}
      PROVE  HeldSteady(v)' /\ OwnVerdict(v)'
  BY OtherOwn DEF Own, OthersRest
<1>4. Ending' = Ending
  BY DEF Ending, OthersRest
<1>5. VerdictSteady'
  BY <1>4 DEF Own, VerdictSteady
<1>. QED  BY <1>1, <1>2, <1>3, <1>5 DEF Own

(* It enters a verdict about what its packet names.                        *)
LEMMA EntersOwn ==
  ASSUME NEW w \in Workers, TypeOK, Own, Apart, UNCHANGED <<wire, client>>, OthersRest(w),
         \A v \in Workers \ {w} : of'[v] = of[v],
         pc[w] \in {"block", "allow"}, Judged' = Judged \cup {pkt[w].conn},
         \A c \in Judged' : about'[c] = IF c \in Judged THEN about[c] ELSE pkt[w].domain,
         \/ pc'[w] = "idle"
         \/ pkt'[w] = pkt[w] /\ of'[w] = of[w] /\ pc'[w] = "fwd"
  PROVE  Own'
<1>1. WireProper' /\ WireSteady'
  BY DEF Own, WireProper, WireSteady
<1>2. HeldSteady(w)'
  BY DEF Own, HeldSteady
<1>3. ~Closing(pkt[w]) /\ pkt[w].domain = of[w]
  BY DEF Own, OwnVerdict, Proper
<1>4. Ending' = Ending
  BY DEF Ending, OthersRest
<1>5. VerdictSteady'
  <2>1. ASSUME NEW c \in Judged' \ Ending
        PROVE  Steady(wire, client[c], c, about'[c], 1)
    <3>1. CASE c \in Judged
      BY <2>1, <3>1 DEF Own, VerdictSteady
    <3>2. CASE c \notin Judged
      BY <1>3, <2>1, <3>2 DEF Own, HeldSteady
    <3>. QED  BY <3>1, <3>2
  <2>. QED  BY <1>4, <2>1 DEF VerdictSteady
<1>6. OwnVerdict(w)'
  BY <1>3 DEF Own, OwnVerdict
<1>7. ASSUME NEW v \in Workers \ {w}
      PROVE  HeldSteady(v)' /\ OwnVerdict(v)'
  <2>1. pc[v] # "idle" => pkt[v].conn # pkt[w].conn
    BY DEF Apart
  <2>2. HeldSteady(v) /\ OwnVerdict(v)
    BY DEF Own
  <2>. QED  BY <2>1, <2>2, OtherOwn DEF OthersRest
<1>. QED  BY <1>1, <1>2, <1>5, <1>6, <1>7 DEF Own

LEMMA WorksOwn ==
  ASSUME NEW w \in Workers, TypeOK, World, Own, Apart, Works(w)
  PROVE  Own'
<1>1. /\ UNCHANGED <<wire, client>>
      /\ \A c \in Conns : about'[c] = Noted(c, w)
      /\ about' = [c \in Conns |-> Noted(c, w)]
      /\ pc'[w] # "idle" => of'[w] = of[w]
      /\ \A v \in Workers \ {w} : of'[v] = of[v]
  BY DEF Works, World
<1>0. OthersRest(w)
  BY OneMoves DEF Works, WorkerRead, WorkerWrite
<1>2. Judged \subseteq Conns /\ Judged' \subseteq Conns
  BY DEF Judged, In
<1>3. \A c \in Judged' : about'[c] = IF c \in Judged THEN about[c] ELSE pkt[w].domain
  BY <1>1, <1>2 DEF Noted
<1>4. ASSUME UNCHANGED <<allowed, blocked>>
      PROVE  Judged' = Judged /\ \A c \in Judged : about'[c] = about[c]
  <2>1. Judged' = Judged
    BY <1>4 DEF Judged, In
  <2>. QED  BY <1>3, <2>1
<1>5. pkt \in [Workers -> Traffic \cup {NoPacket}] /\ pc \in [Workers -> PC]
  BY DEF TypeOK
<1>6. CASE CloseConn(w)
  <2>1. Judged' = Judged \ {pkt[w].conn}
    BY <1>6, CloseEntries DEF Judged
  <2>2. \/ pc'[w] = "idle"
        \/ pc'[w] = "lookup" /\ pkt' = pkt /\ of'[w] = of[w]
    BY <1>1, <1>5, <1>6 DEF CloseConn, Done, Goto
  <2>3. WireProper' /\ WireSteady'
    BY <1>1 DEF Own, WireProper, WireSteady
  <2>4. HeldSteady(w)'
    BY <1>1, <1>6, <2>2 DEF Own, HeldSteady, CloseConn
  <2>5. VerdictSteady'
    <3>1. Ending \subseteq Ending' \cup {pkt[w].conn}
      BY <1>0 DEF Ending, OthersRest
    <3>. QED  BY <1>1, <1>3, <2>1, <3>1 DEF Own, VerdictSteady
  <2>6. OwnVerdict(w)'
    BY <1>3, <1>6, <2>1, <2>2 DEF Own, OwnVerdict, CloseConn
  <2>7. ASSUME NEW v \in Workers \ {w}
        PROVE  HeldSteady(v)' /\ OwnVerdict(v)'
    <3>1. pc[v] # "idle" => pkt[v].conn # pkt[w].conn
      BY <1>6 DEF Apart, CloseConn
    <3>2. HeldSteady(v) /\ OwnVerdict(v)
      BY DEF Own
    <3>. QED  BY <1>0, <1>1, <1>3, <2>1, <3>1, <3>2, OtherOwn DEF OthersRest
  <2>. QED  BY <2>3, <2>4, <2>5, <2>6, <2>7 DEF Own
<1>7. CASE Lookup(w)
  <2>1. UNCHANGED tables /\ pc[w] = "lookup"
    BY <1>7 DEF Lookup
  <2>2. \/ pc'[w] = "idle"
        \/ pkt' = pkt /\ pc'[w] = "blockcheck"
        \/ pkt' = pkt /\ pc'[w] = "syn" /\ IsSyn(pkt[w])
    BY <1>5, <1>7 DEF Lookup, Done, Goto
  <2>3. IsSyn(pkt[w]) => ~Closing(pkt[w])
    BY <2>1 DEF Own, OwnVerdict, Proper, IsSyn
  <2>. QED  BY <1>0, <1>1, <1>4, <2>1, <2>2, <2>3, GoesOnOwn DEF tables
<1>8. CASE RegisterSyn(w)
  <2>1. UNCHANGED <<allowed, blocked>> /\ pc[w] = "syn" /\ pc'[w] = "idle"
    BY <1>5, <1>8 DEF RegisterSyn, Done, Goto
  <2>. QED  BY <1>0, <1>1, <1>4, <2>1, GoesOnOwn
<1>9. CASE CheckBlocked(w)
  <2>1. UNCHANGED tables /\ pc[w] = "blockcheck"
    BY <1>9 DEF CheckBlocked
  <2>2. \/ pc'[w] = "idle"
        \/ pkt' = pkt /\ pc'[w] = "fwdHeld" /\ pkt[w].conn \in Judged
        \/ pkt' = pkt /\ pc'[w] = "classify" /\ pkt[w].domain # NoDomain /\ pkt[w].payload
        \/ pkt' = pkt /\ pc'[w] = "pendcheck" /\ pkt[w].payload
    BY <1>5, <1>9 DEF CheckBlocked, ByPayload, Done, Goto, Judged
  <2>3. pkt[w].conn \in Judged \/ pkt[w].payload => ~Closing(pkt[w])
    BY <2>1 DEF Own, OwnVerdict, Proper
  <2>. QED  BY <1>0, <1>1, <1>4, <2>1, <2>2, <2>3, GoesOnOwn DEF tables
<1>10. CASE Classify(w) \/ CheckMode(w)
  <2>1. /\ UNCHANGED <<tables, pkt>> /\ pc[w] \in {"classify", "unlisted"}
        /\ pc'[w] \in {"unlisted", "block", "allow"}
    BY <1>5, <1>10 DEF Classify, CheckMode, Goto
  <2>2. ~Closing(pkt[w]) /\ pkt[w].domain # NoDomain
    BY <2>1 DEF Own, OwnVerdict
  <2>. QED  BY <1>0, <1>1, <1>4, <2>1, <2>2, GoesOnOwn DEF tables
<1>11. CASE CheckPending(w) \/ SkipReset(w) \/ PushForward(w) \/ PushBackward(w)
  <2>1. /\ UNCHANGED tables
        /\ pc[w] \in {"pendcheck", "fwd", "bwd", "fwdHeld", "bwdHeld"}
        /\ pc'[w] = "idle" \/ (pkt' = pkt /\ pc'[w] \in {"fwd", "bwd", "bwdHeld"})
    BY <1>5, <1>11 DEF CheckPending, SkipReset, PushForward, PushBackward, Done, Goto
  <2>2. ~Closing(pkt[w])
    BY <2>1 DEF Own, OwnVerdict
  <2>. QED  BY <1>0, <1>1, <1>4, <2>1, <2>2, GoesOnOwn DEF tables
<1>12. CASE Block(w)
  <2>1. Judged' = Judged \cup {pkt[w].conn}
    BY <1>12, BlockEntries DEF Judged
  <2>2. pc[w] = "block" /\ pkt' = pkt /\ pc'[w] = "fwd"
    BY <1>5, <1>12 DEF Block, Goto
  <2>. QED  BY <1>0, <1>1, <1>3, <2>1, <2>2, EntersOwn
<1>13. CASE Allow(w)
  <2>1. Judged' = Judged \cup {pkt[w].conn}
    BY <1>13, AllowEntries DEF Judged
  <2>2. pc[w] = "allow" /\ pc'[w] = "idle"
    BY <1>5, <1>13 DEF Allow, Done, Goto
  <2>. QED  BY <1>0, <1>1, <1>3, <2>1, <2>2, EntersOwn
<1>. QED
  BY <1>6, <1>7, <1>8, <1>9, <1>10, <1>11, <1>12, <1>13 DEF Works, WorkerRead, WorkerWrite

(* Time passes, the sweep forgets, the lists change.                       *)
LEMMA TimeOwn ==
  ASSUME TypeOK, Own, TimeAndLists
  PROVE  Own'
<1>1. UNCHANGED <<wire, client, of, pc, pkt>>
  BY DEF TimeAndLists, world, Tick, WatcherSweep, Sweep, ChangeFilter
<1>2. Judged' \subseteq Judged /\ Ending' = Ending
  <2>1. ASSUME Tick PROVE Judged' \subseteq Judged
    BY <2>1, TickEntries DEF Judged
  <2>2. ASSUME WatcherSweep PROVE Judged' \subseteq Judged
    BY <2>2, SweepEntries DEF WatcherSweep, Judged
  <2>3. ASSUME \E f \in Configs : ChangeFilter(f) PROVE Judged' \subseteq Judged
    BY <2>3 DEF ChangeFilter, Judged, In, tables
  <2>4. Ending' = Ending
    BY <1>1 DEF Ending
  <2>. QED  BY <2>1, <2>2, <2>3, <2>4 DEF TimeAndLists
<1>3. \A c \in Judged' : about'[c] = about[c]
  BY DEF TimeAndLists, Judged, In
<1>4. WireProper' /\ WireSteady' /\ \A w \in Workers : HeldSteady(w)'
  BY <1>1 DEF Own, WireProper, WireSteady, HeldSteady
<1>5. VerdictSteady'
  BY <1>1, <1>2, <1>3 DEF Own, VerdictSteady
<1>6. \A w \in Workers : OwnVerdict(w)'
  BY <1>1, <1>2, <1>3 DEF Own, OwnVerdict
<1>. QED  BY <1>4, <1>5, <1>6 DEF Own

LEMMA OwnStep ==
  ASSUME ClientsFit, Orderly
  PROVE  TypeOK /\ World /\ Own /\ Apart /\ Apart' /\ [ClientNext]_clientVars => Own'
<1>. SUFFICES ASSUME TypeOK, World, Own, Apart, Apart', [ClientNext]_clientVars PROVE Own'
  OBVIOUS
<1>1. ASSUME NEW c \in Conns,
             (\E h \in Hosts : Connect(c, h)) \/ SayHello(c) \/ SendData(c) \/ CloseClient(c)
      PROVE  Own'
  BY <1>1, ClientSends, SendsOwn
<1>2. \A w \in Workers : pc[w] # "idle" => pkt[w].conn \in Conns
  BY Held
<1>3. ASSUME NEW c \in Conns, ServerResets(c)
      PROVE  Own'
  <2>1. \A d \in Conns : /\ client'[d].host = client[d].host
                         /\ client[d].phase # "closed" => client'[d].phase # "closed"
    BY <1>3 DEF ServerResets, World, Ports
  <2>2. UNCHANGED <<tables, pc, pkt, wire, of, about>>
    BY <1>3 DEF ServerResets, vars, tables
  <2>. QED  BY <1>2, <2>1, <2>2, WireConns, ResetsOwn
<1>4. CASE ResetSent
  <2>1. \A d \in Conns : /\ client'[d].host = client[d].host
                         /\ client[d].phase # "closed" => client'[d].phase # "closed"
    BY <1>4 DEF ResetSent, World, Ports
  <2>2. UNCHANGED <<tables, pc, pkt, wire, of, about>>
    BY <1>4 DEF ResetSent, Send
  <2>. QED  BY <1>2, <2>1, <2>2, WireConns, ResetsOwn
<1>5. CASE Miss
  BY <1>5, MissOwn
<1>6. ASSUME NEW w \in Workers, Takes(w) \/ Works(w)
      PROVE  Own'
  BY <1>6, TakesOwn, WorksOwn
<1>7. CASE TimeAndLists
  BY <1>7, TimeOwn
<1>8. CASE UNCHANGED clientVars
  <2>1. UNCHANGED <<vars, client, wire, of, about>>
    BY <1>8 DEF clientVars, world
  <2>2. Judged' = Judged /\ Ending' = Ending
    BY <2>1 DEF vars, Judged, In, Ending
  <2>. QED
    BY <2>1, <2>2 DEF vars, Own, WireProper, WireSteady, HeldSteady, VerdictSteady, OwnVerdict
<1>. QED
  BY <1>1, <1>3, <1>4, <1>5, <1>6, <1>7, <1>8 DEF ClientNext, Clients

(* A packet is judged by a verdict about the host of its own client, for   *)
(* any clients, hosts, captures and workers: if the packets of a           *)
(* connection are with one worker at a time, a port rests after a reset,   *)
(* and the capture misses no packet that closes a connection (:365-509).   *)
THEOREM ClientsAreJudgedByTheirOwn ==
  ASSUME ClientsFit, Orderly
  PROVE  ClientSpec /\ []Apart => []JudgedByOwnHost
<1>1. ClientInit => Own
  <2>. SUFFICES ASSUME ClientInit PROVE Own
    OBVIOUS
  <2>1. Len(wire) = 0 /\ Judged = {} /\ \A w \in Workers : pc[w] = "idle"
    BY DEF ClientInit, Init, Judged, In
  <2>. QED
    BY <2>1 DEF Own, WireProper, WireSteady, HeldSteady, VerdictSteady, OwnVerdict
<1>2. Own => JudgedByOwnHost
  BY DEF Own, OwnVerdict, JudgedByOwnHost
<1>3. TypeOK /\ World /\ Own /\ Apart /\ Apart' /\ [ClientNext]_clientVars => Own'
  BY OwnStep
<1>. QED
  BY <1>1, <1>2, <1>3, ClientsRunTheTracker, TypeCorrect, WorldTyped, PTL DEF ClientSpec

(* With one worker they are.                                               *)
THEOREM OneWorkerJudgesByTheirOwn ==
  ASSUME ClientsFit, Orderly, NEW w, Workers = {w}
  PROVE  ClientSpec => []JudgedByOwnHost
  BY ClientsAreJudgedByTheirOwn, SingleApart, PTL
-----------------------------------------------------------------------------
(* What the parsers find in a part of a message.                           *)

(* What is read of a payload within its length are bytes.                  *)
LEMMA BytesRead ==
  ASSUME NEW p \in Octets, NEW i \in Nat, i < Len(p)
  PROVE  Byte(p, i) \in Nat
<1>1. PICK k \in 1 .. Len(p) : k = i + 1
  BY LenProperties DEF Octets
<1>. QED  BY <1>1, OctetRead DEF Byte

LEMMA WordsRead ==
  ASSUME NEW p \in Octets, NEW i \in Nat, i + 1 < Len(p)
  PROVE  Word(p, i) \in Nat
<1>1. i < Len(p) /\ i + 1 \in Nat /\ Len(p) \in Nat
  BY LenProperties DEF Octets
<1>2. Byte(p, i) \in Nat /\ Byte(p, i + 1) \in Nat
  BY <1>1, BytesRead
<1>. QED  BY <1>2 DEF Word

(* The loop over the extensions ends: each of them is four bytes or more.  *)
ScanStep(p, end, scan, i) ==
  IF i + 4 > end THEN NoDomain
  ELSE IF Word(p, i) = 0 THEN NameAt(p, i + 4, end)
  ELSE scan[Follower(p, i)]

LEMMA Follows ==
  ASSUME NEW p \in Octets, NEW end \in Nat, end <= Len(p), NEW i \in Nat, i + 4 <= end
  PROVE  Follower(p, i) \in Nat /\ Follower(p, i) > i
<1>1. i + 2 \in Nat /\ (i + 2) + 1 < Len(p)
  BY LenProperties DEF Octets
<1>2. Word(p, i + 2) \in Nat
  BY <1>1, WordsRead
<1>. QED  BY <1>2 DEF Follower

LEMMA ScanExists ==
  ASSUME NEW p \in Octets, NEW end \in Nat, end <= Len(p)
  PROVE  \E scan : scan = [i \in Nat |-> ScanStep(p, end, scan, i)]
<1>. DEFINE From(k) == {i \in Nat : i >= k}
            G == {k \in Nat : \E f : f = [i \in From(k) |-> ScanStep(p, end, f, i)]}
<1>1. ASSUME NEW k \in Nat, k < end => k + 1 \in G PROVE k \in G
  <2>1. CASE k >= end
    <3>. DEFINE f == [i \in From(k) |-> NoDomain]
    <3>1. \A i \in From(k) : i + 4 > end
      BY <2>1
    <3>2. f = [i \in From(k) |-> ScanStep(p, end, f, i)]
      BY <3>1 DEF ScanStep
    <3>. QED  BY <3>2
  <2>2. CASE k < end
    <3>1. PICK f : f = [i \in From(k + 1) |-> ScanStep(p, end, f, i)]
      BY <1>1, <2>2
    <3>. DEFINE g == [i \in From(k) |-> IF i = k THEN ScanStep(p, end, f, k) ELSE f[i]]
    <3>2. \A i \in From(k) : i # k => i \in From(k + 1)
      OBVIOUS
    <3>3. \A i \in From(k) : i + 4 <= end => Follower(p, i) \in From(k + 1)
      BY Follows
    <3>4. From(k + 1) \subseteq From(k) /\ k \notin From(k + 1)
      OBVIOUS
    <3>. HIDE DEF From
    <3>5. \A i \in From(k + 1) : g[i] = f[i]
      BY <3>4
    <3>6. \A i \in From(k) : ScanStep(p, end, f, i) = ScanStep(p, end, g, i)
      <4>. SUFFICES ASSUME NEW i \in From(k) PROVE ScanStep(p, end, f, i) = ScanStep(p, end, g, i)
        OBVIOUS
      <4>1. CASE i + 4 > end
        BY <4>1 DEF ScanStep
      <4>2. CASE ~(i + 4 > end)
        <5>1. i \in Nat
          BY DEF From
        <5>2. i + 4 <= end
          BY <4>2, <5>1
        <5>3. g[Follower(p, i)] = f[Follower(p, i)]
          BY <3>3, <3>5, <5>2
        <5>. QED  BY <5>3 DEF ScanStep
      <4>. QED  BY <4>1, <4>2
    <3>7. \A i \in From(k) : g[i] = ScanStep(p, end, f, i)
      BY <3>1, <3>2
    <3>8. g = [i \in From(k) |-> ScanStep(p, end, g, i)]
      BY <3>6, <3>7
    <3>. HIDE DEF g
    <3>9. \E h : h = [i \in From(k) |-> ScanStep(p, end, h, i)]
      BY <3>8
    <3>. QED  BY <3>9
  <2>3. k >= end \/ k < end
    OBVIOUS
  <2>. QED  BY <2>1, <2>2, <2>3, Zenon
<1>2. ASSUME NEW k \in Nat, k < end => \A j \in Nat : j > k => j \in G PROVE k \in G
  <2>1. k + 1 \in Nat /\ k + 1 > k
    OBVIOUS
  <2>. HIDE DEF G
  <2>2. k < end => k + 1 \in G
    BY <1>2, <2>1
  <2>. QED  BY <1>1, <2>2
<1>. HIDE DEF G
<1>3. 0 \in G
  BY <1>2, Downward
<1>4. From(0) = Nat
  OBVIOUS
<1>. QED  BY <1>3, <1>4 DEF G

LEMMA ScanIs ==
  ASSUME NEW p \in Octets, NEW end \in Nat, end <= Len(p), NEW i \in Nat
  PROVE  Scan(p, end)[i] = ScanStep(p, end, Scan(p, end), i)
<1>1. \E scan : scan = [k \in Nat |-> ScanStep(p, end, scan, k)]
  BY ScanExists
<1>2. Scan(p, end) = CHOOSE scan : scan = [k \in Nat |-> ScanStep(p, end, scan, k)]
  BY DEF Scan, ScanStep
<1>3. Scan(p, end) = [k \in Nat |-> ScanStep(p, end, Scan(p, end), k)]
  BY <1>1, <1>2
<1>. QED  BY <1>3

(* Where the parts of a complete hello are.                                *)
LEMMA Layout ==
  ASSUME NEW p \in Octets, NEW n \in Nat, n <= Len(p), Complete(p, n)
  PROVE  /\ Ciphers(p) \in Nat /\ Compression(p) \in Nat /\ Extensions(p) \in Nat
         /\ Word(p, Extensions(p)) \in Nat
         /\ ExtEnd(p, n) \in Nat /\ ExtEnd(p, n) <= n
         /\ ExtEnd(p, n) = IF Extensions(p) + 2 + Word(p, Extensions(p)) <= n
                           THEN Extensions(p) + 2 + Word(p, Extensions(p)) ELSE n
<1>0. /\ Len(p) \in Nat /\ n > 43 /\ Ciphers(p) + 2 <= n /\ Compression(p) < n
      /\ Extensions(p) + 2 <= n
  BY LenProperties DEF Octets, Complete, Session
<1>1. Ciphers(p) \in Nat
  <2>1. Byte(p, 43) \in Nat
    BY <1>0, BytesRead
  <2>. QED  BY <2>1 DEF Ciphers, Session
<1>2. Compression(p) \in Nat
  <2>1. Word(p, Ciphers(p)) \in Nat
    BY <1>0, <1>1, WordsRead
  <2>. QED  BY <1>1, <2>1 DEF Compression
<1>3. Extensions(p) \in Nat
  <2>1. Byte(p, Compression(p)) \in Nat
    BY <1>0, <1>2, BytesRead
  <2>. QED  BY <1>2, <2>1 DEF Extensions
<1>4. Word(p, Extensions(p)) \in Nat
  BY <1>0, <1>3, WordsRead
<1>5. PICK a \in Nat : a = Extensions(p) + 2 + Word(p, Extensions(p))
  BY <1>3, <1>4
<1>6. Min({a, n}) = IF a <= n THEN a ELSE n
  <2>1. PICK m \in {a, n} : m = IF a <= n THEN a ELSE n
    OBVIOUS
  <2>2. {a, n} \subseteq Nat /\ \A k \in {a, n} : m <= k
    BY <2>1
  <2>3. Min({a, n}) = m
    BY ONLY <2>2, m \in {a, n}, MinIs
  <2>. QED  BY <2>1, <2>3
<1>7. ExtEnd(p, n) = IF a <= n THEN a ELSE n
  BY <1>5, <1>6 DEF ExtEnd
<1>. QED  BY <1>1, <1>2, <1>3, <1>4, <1>5, <1>7

(* A shorter payload has the same name or none.                            *)
LEMMA FrontName ==
  ASSUME NEW p \in Octets, NEW e \in Nat, NEW f \in Nat, e <= f, f <= Len(p),
         NEW i \in Nat, i + 4 <= e
  PROVE  NameAt(p, i + 4, e) \in {NoDomain, NameAt(p, i + 4, f)}
<1>1. CASE i + 4 + 5 <= e
  <2>1. i + 4 + 5 \in Nat /\ i + 4 + 5 <= f /\ i + 4 + 3 \in Nat /\ i + 4 + 3 + 1 < Len(p)
    BY <1>1, LenProperties DEF Octets
  <2>2. Word(p, i + 4 + 3) \in Nat
    BY <2>1, WordsRead
  <2>3. i + 4 + 5 + Word(p, i + 4 + 3) <= e => i + 4 + 5 + Word(p, i + 4 + 3) <= f
    BY <2>1, <2>2
  <2>4. ServerName(p, i + 4 + 5, Word(p, i + 4 + 3), e)
          \in {NoDomain, ServerName(p, i + 4 + 5, Word(p, i + 4 + 3), f)}
    BY <2>3, Zenon DEF ServerName
  <2>. QED  BY <1>1, <2>1, <2>4, Zenon DEF NameAt
<1>2. CASE ~(i + 4 + 5 <= e)
  BY <1>2, Zenon DEF NameAt
<1>. QED  BY <1>1, <1>2

LEMMA FrontScan ==
  ASSUME NEW p \in Octets, NEW e \in Nat, NEW f \in Nat, e <= f, f <= Len(p)
  PROVE  \A i \in Nat : Scan(p, e)[i] \in {NoDomain, Scan(p, f)[i]}
<1>. DEFINE G == {i \in Nat : Scan(p, e)[i] \in {NoDomain, Scan(p, f)[i]}}
<1>0. e <= Len(p)
  BY LenProperties DEF Octets
<1>1. ASSUME NEW i \in Nat, i < e => \A j \in Nat : j > i => j \in G
      PROVE  i \in G
  <2>1. /\ Scan(p, e)[i] = ScanStep(p, e, Scan(p, e), i)
        /\ Scan(p, f)[i] = ScanStep(p, f, Scan(p, f), i)
    BY <1>0, ScanIs
  <2>2. CASE i + 4 > e
    BY <2>1, <2>2, Zenon DEF ScanStep
  <2>3. CASE i + 4 <= e
    <3>1. ~(i + 4 > e) /\ ~(i + 4 > f) /\ i < e
      BY <2>3
    <3>2. CASE Word(p, i) = 0
      <4>1. Scan(p, e)[i] = NameAt(p, i + 4, e) /\ Scan(p, f)[i] = NameAt(p, i + 4, f)
        BY <2>1, <3>1, <3>2, Zenon DEF ScanStep
      <4>. QED  BY <2>3, <4>1, FrontName
    <3>3. CASE Word(p, i) # 0
      <4>1. /\ Scan(p, e)[i] = Scan(p, e)[Follower(p, i)]
            /\ Scan(p, f)[i] = Scan(p, f)[Follower(p, i)]
        BY <2>1, <3>1, <3>3, Zenon DEF ScanStep
      <4>2. Follower(p, i) \in Nat /\ Follower(p, i) > i
        BY <1>0, <2>3, Follows
      <4>3. Follower(p, i) \in G
        BY <1>1, <3>1, <4>2, Zenon
      <4>. QED  BY <4>1, <4>3
    <3>. QED  BY <3>2, <3>3
  <2>. QED  BY <2>2, <2>3
<1>. HIDE DEF G
<1>2. \A i \in Nat : i \in G
  BY ONLY <1>1, e \in Nat, Downward
<1>. QED  BY <1>2 DEF G

(* A hello that is cut anywhere names the same host as the whole, or none: *)
(* never a part of the name (packet_processor.cpp:18-72).                  *)
THEOREM FrontOfHello ==
  ASSUME NEW p \in Octets, NEW n \in Nat, n <= Len(p), NEW k \in Nat, k <= n
  PROVE  extract_sni(p, k) \in {NoDomain, extract_sni(p, n)}
<1>. SUFFICES ASSUME Complete(p, k) PROVE extract_sni(p, k) \in {NoDomain, extract_sni(p, n)}
  BY DEF extract_sni
<1>0. k <= Len(p)
  BY LenProperties DEF Octets
<1>1. /\ Ciphers(p) \in Nat /\ Compression(p) \in Nat /\ Extensions(p) \in Nat
      /\ Word(p, Extensions(p)) \in Nat /\ ExtEnd(p, k) \in Nat
      /\ ExtEnd(p, k) = IF Extensions(p) + 2 + Word(p, Extensions(p)) <= k
                        THEN Extensions(p) + 2 + Word(p, Extensions(p)) ELSE k
  BY <1>0, Layout
<1>2. Complete(p, n)
  BY <1>1 DEF Complete, Session
<1>3. /\ ExtEnd(p, n) \in Nat /\ ExtEnd(p, n) <= n
      /\ ExtEnd(p, n) = IF Extensions(p) + 2 + Word(p, Extensions(p)) <= n
                        THEN Extensions(p) + 2 + Word(p, Extensions(p)) ELSE n
  BY <1>2, Layout
<1>4. ExtEnd(p, k) <= ExtEnd(p, n) /\ ExtEnd(p, n) <= Len(p) /\ Extensions(p) + 2 \in Nat
  BY <1>1, <1>3, LenProperties DEF Octets
<1>5. Scan(p, ExtEnd(p, k))[Extensions(p) + 2]
        \in {NoDomain, Scan(p, ExtEnd(p, n))[Extensions(p) + 2]}
  BY <1>1, <1>3, <1>4, FrontScan
<1>. QED  BY <1>2, <1>5 DEF extract_sni

(* Payloads that agree up to a length read the same there.                 *)
LEMMA AgreeBytes ==
  ASSUME NEW p, NEW q, NEW n, Agree(p, q, n), NEW i \in Nat
  PROVE  /\ i < n => Byte(p, i) = Byte(q, i)
         /\ i + 1 < n => Word(p, i) = Word(q, i)
<1>0. n \in Nat
  BY DEF Agree
<1>1. ASSUME NEW j \in Nat, j < n PROVE Byte(p, j) = Byte(q, j)
  <2>1. j + 1 \in 1 .. n
    BY <1>0, <1>1
  <2>. QED  BY <2>1, Zenon DEF Agree, Byte
<1>2. ASSUME i + 1 < n PROVE Word(p, i) = Word(q, i)
  <2>1. i < n /\ i + 1 \in Nat
    BY <1>0, <1>2
  <2>2. Byte(p, i) = Byte(q, i) /\ Byte(p, i + 1) = Byte(q, i + 1)
    BY <1>1, <1>2, <2>1
  <2>. QED  BY <2>2, Zenon DEF Word
<1>. QED  BY <1>1, <1>2

LEMMA AgreeCharacters ==
  ASSUME NEW p, NEW q, NEW n, Agree(p, q, n), NEW i \in Nat, NEW len \in Nat, i + len <= n
  PROVE  Characters(p, i, len) = Characters(q, i, len)
  BY AgreePieces, Zenon DEF Characters, SamePiece

LEMMA AgreeName ==
  ASSUME NEW p, NEW q, NEW n, Agree(p, q, n), NEW e \in Nat, e <= n, NEW i \in Nat
  PROVE  NameAt(p, i, e) = NameAt(q, i, e)
<1>0. n \in Nat /\ p \in Octets /\ n <= Len(p) /\ Len(p) \in Nat
  BY LenProperties DEF Agree, Octets
<1>1. CASE i + 5 <= e
  <2>1. /\ i + 2 \in Nat /\ i + 2 < n /\ i + 3 \in Nat /\ i + 3 + 1 < n /\ i + 3 + 1 < Len(p)
        /\ i + 5 \in Nat
    BY <1>0, <1>1
  <2>2. Byte(p, i + 2) = Byte(q, i + 2) /\ Word(p, i + 3) = Word(q, i + 3)
    BY <2>1, AgreeBytes
  <2>3. Word(p, i + 3) \in Nat
    BY <1>0, <2>1, WordsRead
  <2>4. ASSUME i + 5 + Word(p, i + 3) <= e
        PROVE  Characters(p, i + 5, Word(p, i + 3)) = Characters(q, i + 5, Word(p, i + 3))
    <3>1. i + 5 + Word(p, i + 3) <= n
      BY <1>0, <2>1, <2>3, <2>4
    <3>. QED  BY <2>1, <2>3, <3>1, AgreeCharacters
  <2>. QED  BY <2>2, <2>4, Zenon DEF NameAt, ServerName
<1>2. CASE ~(i + 5 <= e)
  BY <1>2, Zenon DEF NameAt
<1>. QED  BY <1>1, <1>2

LEMMA AgreeScan ==
  ASSUME NEW p, NEW q, NEW n, Agree(p, q, n), NEW e \in Nat, e <= n
  PROVE  \A i \in Nat : Scan(p, e)[i] = Scan(q, e)[i]
<1>. DEFINE G == {i \in Nat : Scan(p, e)[i] = Scan(q, e)[i]}
<1>0. /\ n \in Nat /\ p \in Octets /\ q \in Octets /\ e <= Len(p) /\ e <= Len(q)
  BY LenProperties DEF Agree, Octets
<1>1. ASSUME NEW i \in Nat, i < e => \A j \in Nat : j > i => j \in G
      PROVE  i \in G
  <2>1. /\ Scan(p, e)[i] = ScanStep(p, e, Scan(p, e), i)
        /\ Scan(q, e)[i] = ScanStep(q, e, Scan(q, e), i)
    BY <1>0, ScanIs
  <2>2. CASE i + 4 > e
    BY <2>1, <2>2, Zenon DEF ScanStep
  <2>3. CASE i + 4 <= e
    <3>1. ~(i + 4 > e) /\ i < e /\ i + 4 \in Nat /\ i + 1 < n /\ i + 2 \in Nat /\ i + 2 + 1 < n
      BY <1>0, <2>3
    <3>2. Word(p, i) = Word(q, i) /\ Word(p, i + 2) = Word(q, i + 2)
      BY <3>1, AgreeBytes
    <3>3. CASE Word(p, i) = 0
      <4>1. NameAt(p, i + 4, e) = NameAt(q, i + 4, e)
        BY <3>1, AgreeName
      <4>. QED  BY <2>1, <3>1, <3>2, <3>3, <4>1 DEF ScanStep
    <3>4. CASE Word(p, i) # 0
      <4>1. Follower(p, i) = Follower(q, i)
        BY <3>2, Zenon DEF Follower
      <4>2. /\ Scan(p, e)[i] = Scan(p, e)[Follower(p, i)]
            /\ Scan(q, e)[i] = Scan(q, e)[Follower(p, i)]
        BY <2>1, <3>1, <3>2, <3>4, <4>1, Zenon DEF ScanStep
      <4>3. Follower(p, i) \in Nat /\ Follower(p, i) > i
        BY <1>0, <2>3, Follows
      <4>4. Follower(p, i) \in G
        BY <1>1, <3>1, <4>3, Zenon
      <4>. QED  BY <4>2, <4>4
    <3>. QED  BY <3>3, <3>4
  <2>. QED  BY <2>2, <2>3
<1>. HIDE DEF G
<1>2. \A i \in Nat : i \in G
  BY ONLY <1>1, e \in Nat, Downward
<1>. QED  BY <1>2 DEF G

(* Nothing behind the length of a payload is read: what an earlier frame   *)
(* left behind it in the buffer does not change the name                   *)
(* (packet_processor.cpp:18-72, every read is behind a check of the rest). *)
THEOREM HelloReadsInside ==
  ASSUME NEW p, NEW q, NEW n, Agree(p, q, n)
  PROVE  extract_sni(p, n) = extract_sni(q, n)
<1>0. /\ n \in Nat /\ p \in Octets /\ q \in Octets /\ n <= Len(p) /\ n <= Len(q)
      /\ Agree(q, p, n)
  BY DEF Agree
<1>1. ASSUME NEW r, NEW s, Agree(r, s, n), Complete(r, n)
      PROVE  /\ Complete(s, n) /\ Extensions(s) = Extensions(r)
             /\ ExtEnd(s, n) = ExtEnd(r, n)
  <2>1. /\ r \in Octets /\ n <= Len(r)
    BY <1>1 DEF Agree
  <2>2. /\ Ciphers(r) \in Nat /\ Compression(r) \in Nat /\ Extensions(r) \in Nat
        /\ n > 43 /\ Byte(r, 0) = 22 /\ Byte(r, 5) = 1
        /\ Ciphers(r) + 2 <= n /\ Compression(r) < n /\ Extensions(r) + 2 <= n
    BY <1>0, <1>1, <2>1, Layout DEF Complete, Session
  <2>3. Byte(s, 0) = 22 /\ Byte(s, 5) = 1 /\ Byte(s, 43) = Byte(r, 43)
    <3>1. 0 < n /\ 5 < n /\ 43 < n
      BY <1>0, <2>2
    <3>. QED  BY <1>1, <2>2, <3>1, AgreeBytes
  <2>4. Ciphers(s) = Ciphers(r)
    BY <2>3, Zenon DEF Ciphers, Session
  <2>5. Word(s, Ciphers(r)) = Word(r, Ciphers(r))
    <3>1. Ciphers(r) + 1 < n
      BY <1>0, <2>2
    <3>. QED  BY <1>1, <2>2, <3>1, AgreeBytes
  <2>6. Compression(s) = Compression(r)
    BY <2>4, <2>5, Zenon DEF Compression
  <2>7. Byte(s, Compression(r)) = Byte(r, Compression(r))
    BY <1>1, <2>2, AgreeBytes
  <2>8. Extensions(s) = Extensions(r)
    BY <2>6, <2>7, Zenon DEF Extensions
  <2>9. Word(s, Extensions(r)) = Word(r, Extensions(r))
    <3>1. Extensions(r) + 1 < n
      BY <1>0, <2>2
    <3>. QED  BY <1>1, <2>2, <3>1, AgreeBytes
  <2>10. ExtEnd(s, n) = ExtEnd(r, n)
    BY <2>8, <2>9, Zenon DEF ExtEnd
  <2>11. Complete(s, n)
    BY <2>2, <2>3, <2>4, <2>6, <2>8 DEF Complete, Session
  <2>. QED  BY <2>8, <2>10, <2>11
<1>2. Complete(p, n) <=> Complete(q, n)
  BY <1>0, <1>1
<1>3. ASSUME Complete(p, n) PROVE extract_sni(p, n) = extract_sni(q, n)
  <2>1. Extensions(q) = Extensions(p) /\ ExtEnd(q, n) = ExtEnd(p, n)
    BY <1>1, <1>3
  <2>2. ExtEnd(p, n) \in Nat /\ ExtEnd(p, n) <= n /\ Extensions(p) + 2 \in Nat
    BY <1>0, <1>3, Layout
  <2>3. Scan(p, ExtEnd(p, n))[Extensions(p) + 2] = Scan(q, ExtEnd(p, n))[Extensions(p) + 2]
    BY <2>2, AgreeScan
  <2>. QED  BY <1>2, <1>3, <2>1, <2>3, Zenon DEF extract_sni
<1>4. ASSUME ~Complete(p, n) PROVE extract_sni(p, n) = extract_sni(q, n)
  BY <1>2, <1>4, Zenon DEF extract_sni
<1>. QED  BY <1>3, <1>4

(* The places of the extensions of a hello up to its server_name.          *)
Path(p, n, m, at) ==
  /\ at[1] = Extensions(p) + 2
  /\ \A j \in 1 .. m : at[j] + 4 <= ExtEnd(p, n)
  /\ \A j \in 1 .. m : j < m => Word(p, at[j]) # 0 /\ at[j + 1] = Follower(p, at[j])
  /\ Word(p, at[m]) = 0

(* A hello names what its first server_name extension says, however many   *)
(* others are before it (packet_processor.cpp:51-70).                      *)
THEOREM HelloNamesServer ==
  ASSUME NEW p \in Octets, NEW n \in Nat, n <= Len(p), Complete(p, n),
         NEW m \in Nat, m >= 1, NEW at \in [1 .. m -> Nat], Path(p, n, m, at)
  PROVE  extract_sni(p, n) = NameAt(p, at[m] + 4, ExtEnd(p, n))
<1>. DEFINE end == ExtEnd(p, n)
            name == NameAt(p, at[m] + 4, end)
            G == {j \in Nat : 1 <= j /\ j <= m => Scan(p, end)[at[j]] = name}
<1>1. end \in Nat /\ end <= Len(p) /\ Extensions(p) \in Nat
  BY Layout, LenProperties DEF Octets
<1>2. ASSUME NEW j \in Nat, j < m => \A k \in Nat : k > j => k \in G
      PROVE  j \in G
  <2>. SUFFICES ASSUME 1 <= j, j <= m PROVE Scan(p, end)[at[j]] = name
    OBVIOUS
  <2>1. j \in 1 .. m /\ at[j] \in Nat
    OBVIOUS
  <2>. HIDE DEF end, name
  <2>2. Scan(p, end)[at[j]] = ScanStep(p, end, Scan(p, end), at[j])
    BY <1>1, <2>1, ScanIs
  <2>3. ~(at[j] + 4 > end)
    BY <1>1, <2>1 DEF Path, end
  <2>4. CASE j = m
    <3>1. Word(p, at[j]) = 0
      BY <2>4 DEF Path
    <3>. QED  BY <2>2, <2>3, <2>4, <3>1, Zenon DEF ScanStep, name
  <2>5. CASE j < m
    <3>1. Word(p, at[j]) # 0 /\ at[j + 1] = Follower(p, at[j])
      BY <2>1, <2>5 DEF Path
    <3>2. Scan(p, end)[at[j]] = Scan(p, end)[at[j + 1]]
      BY <2>2, <2>3, <3>1, Zenon DEF ScanStep
    <3>3. j + 1 \in Nat /\ j + 1 > j /\ 1 <= j + 1 /\ j + 1 <= m
      BY <2>5
    <3>4. j + 1 \in G
      BY <1>2, <2>5, <3>3
    <3>. QED  BY <3>2, <3>3, <3>4
  <2>. QED  BY <2>4, <2>5
<1>. HIDE DEF G
<1>3. \A j \in Nat : j \in G
  BY ONLY <1>2, m \in Nat, Downward
<1>4. Scan(p, end)[at[1]] = name
  BY <1>3 DEF G
<1>. QED  BY <1>4 DEF Path, extract_sni

(* What a piece of a request names.                                        *)
OneHost(p) == \A i, j \in HostsIn(p, Len(p)) : i = j

PieceMoved(p, s, d, i, m) == Piece(s, i, m) = Piece(p, d + i, m)

LEMMA PieceShifted ==
  ASSUME NEW C, NEW p \in Seq(C), NEW d \in Nat, NEW l \in Nat, d + l <= Len(p),
         NEW s, s = SubSeq(p, d + 1, d + l),
         NEW i \in Nat, NEW m \in Int, i + m <= l
  PROVE  PieceMoved(p, s, d, i, m)
<1>1. PICK j \in Int : j = i + m /\ j <= l /\ d + j = d + i + m
  OBVIOUS
<1>2. SubSeq(SubSeq(p, d + 1, d + l), i + 1, j) = SubSeq(p, d + i + 1, d + j)
  BY ONLY p \in Seq(C), d \in Nat, l \in Nat, d + l <= Len(p), i \in Nat, j \in Int, <1>1,
     PieceOfPiece
<1>. QED  BY <1>1, <1>2 DEF Piece, PieceMoved

LEMMA HostsShifted ==
  ASSUME NEW C, NEW p \in Seq(C), NEW d \in Nat, NEW l \in Nat, d + l <= Len(p),
         NEW s, s = SubSeq(p, d + 1, d + l)
  PROVE  \A i \in 0 .. l - 6 : i \in HostsIn(s, l) <=> d + i \in HostsIn(p, Len(p))
<1>. SUFFICES ASSUME NEW i \in 0 .. l - 6
              PROVE  i \in HostsIn(s, l) <=> d + i \in HostsIn(p, Len(p))
  OBVIOUS
<1>0. i \in Nat /\ i + 6 <= l /\ Len(p) \in Nat /\ d + i \in 0 .. Len(p) - 6
  BY LenProperties
<1>1. PieceMoved(p, s, d, i, 6)
  BY ONLY p \in Seq(C), d \in Nat, l \in Nat, d + l <= Len(p), s = SubSeq(p, d + 1, d + l),
     <1>0, 6 \in Int, PieceShifted, Zenon
<1>. QED  BY <1>0, <1>1 DEF HostsIn, PieceMoved

LEMMA EndsShifted ==
  ASSUME NEW C, NEW p \in Seq(C), NEW d \in Nat, NEW l \in Nat, d + l <= Len(p),
         NEW s, s = SubSeq(p, d + 1, d + l), NEW h \in Nat
  PROVE  Shifted(EndsIn(p, Len(p), d + h), EndsIn(s, l, h), d, l - 2)
<1>0. Len(p) \in Nat
  BY LenProperties
<1>1. ASSUME NEW i \in Nat, i >= h, i <= l - 2
      PROVE  i \in EndsIn(s, l, h) <=> d + i \in EndsIn(p, Len(p), d + h)
  <2>0. i + 2 <= l /\ d + i \in d + h .. Len(p) - 2 /\ i \in h .. l - 2
    BY <1>0, <1>1
  <2>1. PieceMoved(p, s, d, i, 2)
    BY ONLY p \in Seq(C), d \in Nat, l \in Nat, d + l <= Len(p), s = SubSeq(p, d + 1, d + l),
       <2>0, i \in Nat, 2 \in Int, PieceShifted, Zenon
  <2>. QED  BY <2>0, <2>1 DEF EndsIn, PieceMoved
<1>2. ASSUME NEW u \in EndsIn(s, l, h)
      PROVE  u <= l - 2 /\ d + u \in EndsIn(p, Len(p), d + h)
  <2>1. u \in Nat /\ u >= h /\ u <= l - 2
    BY DEF EndsIn
  <2>. QED  BY <1>1, <2>1
<1>3. ASSUME NEW t \in EndsIn(p, Len(p), d + h)
      PROVE  t >= d /\ (t - d <= l - 2 => t - d \in EndsIn(s, l, h))
  <2>1. t \in Nat /\ t >= d + h
    BY <1>0 DEF EndsIn
  <2>2. t >= d /\ t - d \in Nat /\ t - d >= h /\ d + (t - d) = t
    BY <2>1
  <2>. QED  BY <1>1, <2>2
<1>. QED  BY <1>2, <1>3 DEF Shifted

(* A request that is cut anywhere names its host in the piece that has the *)
(* whole line, and none in any other: never a part of the name             *)
(* (packet_processor.cpp:5-15).  A front of it may even have more hosts.   *)
THEOREM PieceOfRequest ==
  ASSUME NEW C, NEW p \in Seq(C), NEW d \in Nat, NEW l \in Nat, d + l <= Len(p),
         d = 0 \/ OneHost(p)
  PROVE  extract_http_host(SubSeq(p, d + 1, d + l), l)
           \in {NoDomain, extract_http_host(p, Len(p))}
<1>1. PICK s : s = SubSeq(p, d + 1, d + l)
  OBVIOUS
<1>2. PICK h : h = Min(HostsIn(s, l))
  OBVIOUS
<1>3. SUFFICES ASSUME HostsIn(s, l) # {}, EndsIn(s, l, h) # {}
               PROVE  extract_http_host(s, l) = extract_http_host(p, Len(p))
  BY <1>1, <1>2, Zenon DEF extract_http_host
<1>4. /\ HostsIn(s, l) \subseteq Nat /\ HostsIn(p, Len(p)) \subseteq Nat
      /\ HostsIn(s, l) \subseteq 0 .. l - 6
  <2>1. Len(p) \in Nat /\ 0 .. l - 6 \subseteq Nat /\ 0 .. Len(p) - 6 \subseteq Nat
    BY LenProperties
  <2>2. HostsIn(s, l) \subseteq 0 .. l - 6 /\ HostsIn(p, Len(p)) \subseteq 0 .. Len(p) - 6
    BY Zenon DEF HostsIn
  <2>. QED  BY <2>1, <2>2
<1>5. h \in HostsIn(s, l) /\ h \in Nat /\ h \in 0 .. l - 6
  BY <1>2, <1>3, <1>4, MinOfNumbers
<1>6. \A i \in 0 .. l - 6 : i \in HostsIn(s, l) <=> d + i \in HostsIn(p, Len(p))
  BY <1>1, HostsShifted
<1>7. ASSUME NEW t \in HostsIn(p, Len(p)) PROVE t >= d
  <2>1. t \in Nat /\ d + h \in HostsIn(p, Len(p))
    BY <1>4, <1>5, <1>6
  <2>. QED  BY <1>5, <2>1 DEF OneHost
<1>8. Shifted(HostsIn(p, Len(p)), HostsIn(s, l), d, l - 6)
  <2>1. ASSUME NEW t \in HostsIn(p, Len(p)), t - d <= l - 6
        PROVE  t - d \in HostsIn(s, l)
    <3>1. t - d \in 0 .. l - 6 /\ d + (t - d) = t
      BY <1>4, <1>7, <2>1
    <3>. QED  BY <1>6, <3>1
  <2>2. \A i \in HostsIn(s, l) : i <= l - 6 /\ d + i \in HostsIn(p, Len(p))
    BY <1>4, <1>6
  <2>. QED  BY <1>7, <2>1, <2>2 DEF Shifted
<1>9. l - 6 \in Int /\ l - 2 \in Int /\ d + h \in Nat
  BY <1>5
<1>10. HostsIn(p, Len(p)) # {} /\ Min(HostsIn(p, Len(p))) = d + h
  BY ONLY <1>2, <1>3, <1>4, <1>8, <1>9, d \in Nat, MinShifted
<1>11. PICK e : e = Min(EndsIn(s, l, h))
  OBVIOUS
<1>12. EndsIn(s, l, h) \subseteq Nat /\ EndsIn(p, Len(p), d + h) \subseteq Nat
  BY <1>5 DEF EndsIn
<1>13. e \in Nat /\ e <= l
  <2>1. e \in EndsIn(s, l, h)
    BY <1>3, <1>11, <1>12, MinOfNumbers
  <2>. QED  BY <1>5, <2>1 DEF EndsIn
<1>14. Shifted(EndsIn(p, Len(p), d + h), EndsIn(s, l, h), d, l - 2)
  BY <1>1, <1>5, EndsShifted
<1>15. EndsIn(p, Len(p), d + h) # {} /\ Min(EndsIn(p, Len(p), d + h)) = d + e
  BY ONLY <1>3, <1>9, <1>11, <1>12, <1>14, d \in Nat, MinShifted
<1>16. Piece(s, h + 6, e - (h + 6)) = Piece(p, d + h + 6, d + e - (d + h + 6))
  <2>1. PICK i \in Nat, m \in Int : i = h + 6 /\ m = e - (h + 6) /\ i + m <= l
    BY <1>5, <1>13
  <2>2. d + i = d + h + 6 /\ m = d + e - (d + h + 6)
    BY <1>5, <1>13, <2>1
  <2>3. PieceMoved(p, s, d, i, m)
    BY ONLY p \in Seq(C), d \in Nat, l \in Nat, d + l <= Len(p), <1>1, <2>1, i \in Nat, m \in Int,
       PieceShifted, Zenon
  <2>. QED  BY <1>1, <2>1, <2>2, <2>3 DEF PieceMoved
<1>17. extract_http_host(s, l) = Piece(s, h + 6, e - (h + 6))
  BY <1>2, <1>3, <1>11, Zenon DEF extract_http_host
<1>18. extract_http_host(p, Len(p)) = Piece(p, d + h + 6, d + e - (d + h + 6))
  <2>1. PICK g, f : g = d + h /\ f = d + e
    OBVIOUS
  <2>2. /\ HostsIn(p, Len(p)) # {} /\ Min(HostsIn(p, Len(p))) = g
        /\ EndsIn(p, Len(p), g) # {} /\ Min(EndsIn(p, Len(p), g)) = f
    BY <1>10, <1>15, <2>1, Zenon
  <2>3. extract_http_host(p, Len(p)) = Piece(p, g + 6, f - (g + 6))
    BY <2>2, Zenon DEF extract_http_host
  <2>4. g + 6 = d + h + 6 /\ f - (g + 6) = d + e - (d + h + 6)
    BY <1>5, <1>13, <2>1
  <2>. QED  BY <2>3, <2>4
<1>. QED  BY <1>16, <1>17, <1>18
-----------------------------------------------------------------------------
(* What the segments of a message name.  A part of a hello that is not its *)
(* front must not look like a hello itself, and a request that is not sent *)
(* whole or in front has one "Host: ".                                     *)
HelloPart(found, host) ==
  \E p \in Octets : \E d, l \in Nat :
    /\ d + l <= Len(p) /\ extract_sni(p, Len(p)) = host
    /\ d = 0 \/ ~Complete(SubSeq(p, d + 1, d + l), l)
    /\ found = extract_sni(SubSeq(p, d + 1, d + l), l)

RequestPart(found, host) ==
  \E C : \E p \in Seq(C) : \E d, l \in Nat :
    /\ d + l <= Len(p) /\ extract_http_host(p, Len(p)) = host
    /\ d = 0 \/ OneHost(p)
    /\ found = extract_http_host(SubSeq(p, d + 1, d + l), l)

HellosParsed ==
  \A hello \in Hellos : \A i \in DOMAIN hello[2] :
    HelloPart(hello[2][i], hello[1]) \/ RequestPart(hello[2][i], hello[1])

TrafficFits ==
  \A c \in Conns :
    /\ {Syn(c), Data(c), Fin(c), Abort(c)} \subseteq Traffic
    /\ \A hello \in Hellos : \A i \in DOMAIN hello[2] : Hello(c, hello[2][i]) \in Traffic

LEMMA HelloPartNames ==
  ASSUME NEW found, NEW host, HelloPart(found, host)
  PROVE  found \in {NoDomain, host}
<1>1. PICK p \in Octets, d \in Nat, l \in Nat :
        /\ d + l <= Len(p) /\ extract_sni(p, Len(p)) = host
        /\ d = 0 \/ ~Complete(SubSeq(p, d + 1, d + l), l)
        /\ found = extract_sni(SubSeq(p, d + 1, d + l), l)
  BY DEF HelloPart
<1>2. CASE d = 0
  <2>1. d + 1 = 1 /\ d + l = l /\ l <= Len(p) /\ Len(p) \in Nat
    BY <1>1, <1>2, LenProperties DEF Octets
  <2>2. extract_sni(SubSeq(p, 1, l), l) = extract_sni(p, l)
    BY <2>1, FrontAgrees, HelloReadsInside
  <2>3. extract_sni(p, l) \in {NoDomain, extract_sni(p, Len(p))}
    BY <2>1, FrontOfHello
  <2>. QED  BY <1>1, <2>1, <2>2, <2>3
<1>3. CASE ~Complete(SubSeq(p, d + 1, d + l), l)
  BY <1>1, <1>3, Zenon DEF extract_sni
<1>. QED  BY <1>1, <1>2, <1>3

LEMMA RequestPartNames ==
  ASSUME NEW found, NEW host, RequestPart(found, host)
  PROVE  found \in {NoDomain, host}
<1>1. PICK C : \E p \in Seq(C) : \E d, l \in Nat :
        /\ d + l <= Len(p) /\ extract_http_host(p, Len(p)) = host
        /\ d = 0 \/ OneHost(p)
        /\ found = extract_http_host(SubSeq(p, d + 1, d + l), l)
  BY DEF RequestPart
<1>2. PICK p \in Seq(C), d \in Nat, l \in Nat :
        /\ d + l <= Len(p) /\ extract_http_host(p, Len(p)) = host
        /\ d = 0 \/ OneHost(p)
        /\ found = extract_http_host(SubSeq(p, d + 1, d + l), l)
  BY <1>1
<1>3. found \in {NoDomain, extract_http_host(p, Len(p))}
  BY <1>2, PieceOfRequest
<1>. QED  BY <1>2, <1>3

(* The clients fit the tracker, whatever they say and wherever it is cut.  *)
LEMMA ParsedClientsFit == TrafficFits /\ HellosParsed => ClientsFit
  BY HelloPartNames, RequestPartNames DEF TrafficFits, HellosParsed, ClientsFit

LEMMA WireProperStep ==
  ASSUME ClientsFit
  PROVE  World /\ WireProper /\ [ClientNext]_clientVars => WireProper'
<1>. SUFFICES ASSUME World, WireProper, [ClientNext]_clientVars PROVE WireProper'
  OBVIOUS
<1>1. PICK n \in Nat : n = Len(wire)
  BY LenProperties DEF World
<1>2. wire \in Seq(Captures) /\ \A k \in 1 .. n : Proper(wire[k].packet, wire[k].host)
  BY <1>1 DEF World, WireProper
<1>3. ASSUME NEW c \in Conns,
             (\E h \in Hosts : Connect(c, h)) \/ SayHello(c) \/ SendData(c) \/ CloseClient(c)
      PROVE  WireProper'
  <2>1. PICK packets \in Seq(Traffic) :
          Sends(c, packets) /\ client' \in Ports /\ Spoken(c, packets)
    BY <1>3, ClientSends
  <2>2. PICK m \in Nat : m = Len(packets) /\ DOMAIN packets = 1 .. m
    BY LenProperties
  <2>3. PICK t : t = [k \in DOMAIN packets |-> [packet |-> packets[k], host |-> client'[c].host]]
    OBVIOUS
  <2>4. /\ t \in Seq(Captures) /\ Len(t) = m
        /\ \A k \in 1 .. m : t[k].packet = packets[k] /\ t[k].host = client'[c].host
    <3>1. \A k \in 1 .. m : packets[k] \in Traffic
      BY <2>2, LenProperties
    <3>2. client'[c].host \in Hosts
      BY <2>1 DEF Ports
    <3>3. t \in [1 .. m -> Captures]
      BY <2>2, <2>3, <3>1, <3>2 DEF Captures
    <3>. QED  BY <2>2, <2>3, <3>3
  <2>5. \A k \in 1 .. m : Proper(t[k].packet, t[k].host)
    BY <2>1, <2>2, <2>4 DEF Spoken
  <2>6. PICK q : q = wire'
    OBVIOUS
  <2>7. q = wire \o t
    BY <2>1, <2>3, <2>6 DEF Sends, Captured
  <2>8. /\ Len(q) = n + m
        /\ \A k \in 1 .. n + m : q[k] = IF k <= n THEN wire[k] ELSE t[k - n]
    BY <1>1, <1>2, <2>4, <2>7, ConcatProperties
  <2>9. \A k \in 1 .. n + m : k <= n \/ k - n \in 1 .. m
    OBVIOUS
  <2>10. \A k \in 1 .. Len(q) : Proper(q[k].packet, q[k].host)
    BY <1>2, <2>5, <2>8, <2>9
  <2>. QED  BY <2>6, <2>10 DEF WireProper
<1>4. CASE Miss
  <2>1. PICK i \in 1 .. n : wire' = RemoveAt(wire, i)
    BY <1>1, <1>4, LenProperties DEF Miss, World
  <2>2. PICK q : q = wire'
    OBVIOUS
  <2>3. /\ Len(q) = n - 1
        /\ \A j \in 1 .. n - 1 : q[j] = IF j < i THEN wire[j] ELSE wire[j + 1]
    BY <1>1, <1>2, <2>1, <2>2, RemoveKeeps
  <2>4. \A j \in 1 .. Len(q) : j \in 1 .. n /\ j + 1 \in 1 .. n
    BY <2>3
  <2>5. \A j \in 1 .. Len(q) : Proper(q[j].packet, q[j].host)
    BY <1>2, <2>3, <2>4
  <2>. QED  BY <2>2, <2>5 DEF WireProper
<1>5. ASSUME NEW w \in Workers, Takes(w)
      PROVE  WireProper'
  <2>1. PICK q : q = wire'
    OBVIOUS
  <2>2. /\ Len(q) = n - 1
        /\ \A j \in 1 .. n - 1 : q[j] = wire[j + 1]
    BY <1>1, <1>2, <1>5, <2>1, HeadTailProperties DEF Takes
  <2>3. \A j \in 1 .. Len(q) : j + 1 \in 1 .. n
    BY <2>2
  <2>4. \A j \in 1 .. Len(q) : Proper(q[j].packet, q[j].host)
    BY <1>2, <2>2, <2>3
  <2>. QED  BY <2>1, <2>4 DEF WireProper
<1>6. ASSUME UNCHANGED wire
      PROVE  WireProper'
  BY <1>6 DEF WireProper
<1>. QED
  BY <1>3, <1>4, <1>5, <1>6
     DEF ClientNext, Clients, ServerResets, Works, TimeAndLists, ResetSent, clientVars, world

(* No segment on its way names anything but the host of its connection,    *)
(* for any hellos and requests of any clients, cut anywhere: never a part  *)
(* of a name (packet_processor.cpp:5-72).                                  *)
THEOREM SegmentsNameNoOther ==
  ASSUME TrafficFits, HellosParsed
  PROVE  ClientSpec => []SegmentsNameTheHost
<1>0. ClientsFit
  BY ParsedClientsFit
<1>1. ClientInit => WireProper
  <2>. SUFFICES ASSUME ClientInit PROVE WireProper
    OBVIOUS
  <2>1. Len(wire) = 0
    BY DEF ClientInit
  <2>. QED  BY <2>1 DEF WireProper
<1>2. World /\ WireProper => SegmentsNameTheHost
  <2>. SUFFICES ASSUME World, WireProper PROVE SegmentsNameTheHost
    OBVIOUS
  <2>1. DOMAIN wire = 1 .. Len(wire)
    BY LenProperties DEF World
  <2>. QED  BY <2>1 DEF WireProper, Proper, SegmentsNameTheHost
<1>3. World /\ WireProper /\ [ClientNext]_clientVars => WireProper'
  BY <1>0, WireProperStep
<1>4. ClientSpec => []World
  BY <1>0, WorldTyped
<1>. QED  BY <1>1, <1>2, <1>3, <1>4, PTL DEF ClientSpec
=============================================================================
