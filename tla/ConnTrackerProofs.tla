------------------------- MODULE ConnTrackerProofs -------------------------
(***************************************************************************)
(* Theorems about ConnTracker, for any number of workers, connections,     *)
(* host names and packets, and any times to live.                          *)
(***************************************************************************)
EXTENDS ConnTracker, DataTheorems

(* The names of the ways a state can change; every proof of a step below   *)
(* goes through them in this order.                                        *)
LEMMA StepCases ==
  ASSUME [Next]_vars, NEW P,
         ASSUME NEW w \in Workers, NEW p \in Traffic, Dequeue(w, p) PROVE P,
         ASSUME NEW w \in Workers, NEW c \in Conns, AnswerQuic(w, c) PROVE P,
         ASSUME NEW w \in Workers, CloseConn(w) PROVE P,
         ASSUME NEW w \in Workers, Lookup(w) PROVE P,
         ASSUME NEW w \in Workers, RegisterSyn(w) PROVE P,
         ASSUME NEW w \in Workers, CheckBlocked(w) PROVE P,
         ASSUME NEW w \in Workers, Classify(w) PROVE P,
         ASSUME NEW w \in Workers, CheckMode(w) PROVE P,
         ASSUME NEW w \in Workers, Block(w) PROVE P,
         ASSUME NEW w \in Workers, Allow(w) PROVE P,
         ASSUME NEW w \in Workers, CheckPending(w) PROVE P,
         ASSUME NEW w \in Workers, SkipReset(w) PROVE P,
         ASSUME NEW w \in Workers, PushForward(w) PROVE P,
         ASSUME NEW w \in Workers, PushBackward(w) PROVE P,
         ASSUME NEW f \in Configs, ChangeFilter(f) PROVE P,
         ASSUME NEW lag \in 0 .. MaxLag, Sweep(lag) PROVE P,
         Send => P,
         Tick => P,
         UNCHANGED vars => P
  PROVE  P
BY Zenon DEF Next, Receive, WorkerRead, WorkerWrite, WatcherSweep

(* The bounds are natural numbers and an entry can outlive its time.       *)
LEMMA Bounds ==
  /\ MaxAge \in Nat /\ MaxLag \in Nat
  /\ AllowTTL \in Nat /\ BlockTTL \in Nat /\ PendTTL \in Nat
BY TrackerAssumption

(* Aging, expiry, stamping and erasing keep a table a table.               *)
LEMMA TableTypes ==
  ASSUME NEW table \in [Conns -> Age]
  PROVE  /\ \A c \in Conns : Erased(table, c) \in [Conns -> Age]
         /\ \A c \in Conns : Stamped(table, c) \in [Conns -> Age]
         /\ \A limit \in Int : Expired(table, limit) \in [Conns -> Age]
         /\ Older(table) \in [Conns -> Age]
<1>1. /\ Absent \in Age /\ 0 \in Age
      /\ \A a \in Age : a \notin {Absent, MaxAge} => a + 1 \in Age
  BY Bounds DEF Age, Absent
<1>2. QED
  BY <1>1, Zenon DEF Erased, Stamped, Expired, Older

(* What they do to the set of connections that have an entry.              *)
LEMMA TableEntries ==
  ASSUME NEW table \in [Conns -> Age]
  PROVE  /\ \A c \in Conns : In(Erased(table, c)) = In(table) \ {c}
         /\ \A c \in Conns : In(Stamped(table, c)) = In(table) \cup {c}
         /\ \A limit \in Int : In(Expired(table, limit)) \subseteq In(table)
         /\ In(Older(table)) = In(table)
<1>1. /\ 0 # Absent
      /\ \A a \in Age : a # Absent => a + 1 # Absent
  BY Bounds DEF Age, Absent
<1>2. ASSUME NEW c \in Conns PROVE In(Erased(table, c)) = In(table) \ {c}
  BY DEF In, Erased
<1>3. ASSUME NEW c \in Conns PROVE In(Stamped(table, c)) = In(table) \cup {c}
  BY <1>1 DEF In, Stamped
<1>4. ASSUME NEW limit \in Int PROVE In(Expired(table, limit)) \subseteq In(table)
  BY DEF In, Expired
<1>5. In(Older(table)) = In(table)
  BY <1>1 DEF In, Older
<1>6. QED
  BY <1>2, <1>3, <1>4, <1>5

(* A push leaves a queue of forged packets within the limit, and so does a *)
(* pop: at the limit the push drops the front first.                       *)
LEMMA QueueTypes ==
  ASSUME Out!TypeOK
  PROVE  /\ \A p \in Raw : Out!Push(p) => Out!TypeOK'
         /\ Out!Pop => Out!TypeOK'
<1>1. /\ outbound \in Seq(Raw) /\ Len(outbound) <= Capacity /\ Capacity \in Nat \ {0}
      /\ Len(outbound) \in Nat
  BY TrackerAssumption DEF Out!TypeOK
<1>2. outbound # <<>> =>
        Tail(outbound) \in Seq(Raw) /\ Len(Tail(outbound)) = Len(outbound) - 1
  BY <1>1
<1>3. ASSUME NEW p \in Raw, Out!Push(p) PROVE Out!TypeOK'
  <2>1. CASE Len(outbound) >= Capacity
    <3>1. outbound # <<>>
      BY <1>1, <2>1
    <3>2. outbound' = Append(Tail(outbound), p)
      BY <1>3, <2>1 DEF Out!Push, Out!Pushed
    <3>3. Len(Append(Tail(outbound), p)) = Len(Tail(outbound)) + 1
      BY <1>2, <3>1
    <3>4. QED
      BY <1>1, <1>2, <3>1, <3>2, <3>3 DEF Out!TypeOK
  <2>2. CASE ~(Len(outbound) >= Capacity)
    <3>1. outbound' = Append(outbound, p)
      BY <1>3, <2>2 DEF Out!Push, Out!Pushed
    <3>2. QED
      BY <1>1, <2>2, <3>1 DEF Out!TypeOK
  <2>3. QED
    BY <2>1, <2>2
<1>4. Out!Pop => Out!TypeOK'
  BY <1>1, <1>2 DEF Out!Pop, Out!TypeOK
<1>5. QED
  BY <1>3, <1>4

-----------------------------------------------------------------------------
(* Types.                                                                  *)

LEMMA TypeInit == Init => TypeOK
<1>1. SUFFICES ASSUME Init PROVE TypeOK
  OBVIOUS
<1>2. /\ Absent \in Age /\ Capacity \in Nat
  BY Bounds, TrackerAssumption DEF Age, Absent
<1>3. /\ allowed \in [Conns -> Age] /\ blocked \in [Conns -> Age]
      /\ pending \in [Conns -> Age]
  BY <1>1, <1>2 DEF Init
<1>4. Out!TypeOK
  BY <1>1, <1>2 DEF Init, Out!TypeOK
<1>5. QED
  BY <1>1, <1>3, <1>4 DEF Init, TypeOK, PC

(* What a worker holds when it is at work is a packet of the traffic.      *)
LEMMA Held ==
  ASSUME TypeOK, NEW w \in Workers, pc[w] # "idle"
  PROVE  /\ pkt[w] \in Traffic
         /\ pkt[w] \in Packet
         /\ pkt[w].conn \in Conns
         /\ pkt[w].injected \in BOOLEAN
<1>1. pkt[w] \in Traffic
  BY DEF TypeOK
<1>2. pkt[w] \in Packet
  BY <1>1, TrackerAssumption
<1>3. QED
  BY <1>1, <1>2 DEF Packet

(* A worker moves on with its packet, or is done with it.                  *)
LEMMA MoveTypes ==
  ASSUME TypeOK, NEW w \in Workers, pc[w] # "idle",
         \/ \E label \in PC \ {"idle"} : Goto(w, label) /\ UNCHANGED pkt
         \/ Done(w)
  PROVE  /\ pc' \in [Workers -> PC]
         /\ pkt' \in [Workers -> Traffic \cup {NoPacket}]
         /\ \A v \in Workers : pkt'[v] = NoPacket <=> pc'[v] = "idle"
BY DEF TypeOK, Goto, Done, PC

LEMMA TypeStep == TypeOK /\ [Next]_vars => TypeOK'
<1> SUFFICES ASSUME TypeOK, [Next]_vars PROVE TypeOK'
  OBVIOUS
<1> USE Held, MoveTypes, TableTypes
<1>1. ASSUME NEW w \in Workers, NEW p \in Traffic, Dequeue(w, p) PROVE TypeOK'
  <2>1. p # NoPacket
    BY TrackerAssumption
  <2>2. QED
    BY <1>1, <2>1 DEF Dequeue, Goto, TypeOK, PC, tables, Out!TypeOK
<1>2. ASSUME NEW w \in Workers, NEW c \in Conns, AnswerQuic(w, c) PROVE TypeOK'
  <2>1. Unreachable(c) \in Raw
    BY DEF Unreachable, Raw
  <2>2. QED
    BY <1>2, <2>1, QueueTypes DEF AnswerQuic, TypeOK, tables
<1>3. ASSUME NEW w \in Workers, CloseConn(w) PROVE TypeOK'
  <2>1. /\ allowed' \in [Conns -> Age] /\ blocked' \in [Conns -> Age]
        /\ pending' \in [Conns -> Age]
    <3>1. pkt[w].conn \in Conns
      BY <1>3 DEF CloseConn
    <3>2. QED
      BY <1>3, <3>1, Zenon DEF CloseConn, TypeOK
  <2>2. \/ Goto(w, "lookup") /\ UNCHANGED pkt
        \/ Done(w)
    BY <1>3 DEF CloseConn
  <2>3. QED
    BY <1>3, <2>1, <2>2 DEF CloseConn, TypeOK, PC, Out!TypeOK
<1>4. ASSUME NEW w \in Workers, Lookup(w) PROVE TypeOK'
  BY <1>4 DEF Lookup, TypeOK, PC, tables, Out!TypeOK
<1>5. ASSUME NEW w \in Workers, RegisterSyn(w) PROVE TypeOK'
  <2>1. pending' \in [Conns -> Age]
    <3>1. pkt[w].conn \in Conns
      BY <1>5 DEF RegisterSyn
    <3>2. pending' = pending \/ pending' = Stamped(pending, pkt[w].conn)
      BY <1>5 DEF RegisterSyn
    <3>3. QED
      BY <3>1, <3>2, Zenon DEF TypeOK
  <2>2. QED
    BY <1>5, <2>1 DEF RegisterSyn, TypeOK, Out!TypeOK
<1>6. ASSUME NEW w \in Workers, CheckBlocked(w) PROVE TypeOK'
  BY <1>6 DEF CheckBlocked, ByPayload, TypeOK, PC, tables, Out!TypeOK
<1>7. ASSUME NEW w \in Workers, Classify(w) PROVE TypeOK'
  BY <1>7 DEF Classify, TypeOK, PC, tables, Out!TypeOK
<1>8. ASSUME NEW w \in Workers, CheckMode(w) PROVE TypeOK'
  BY <1>8 DEF CheckMode, TypeOK, PC, tables, Out!TypeOK
<1>9. ASSUME NEW w \in Workers, Block(w) PROVE TypeOK'
  <2>1. blocked' \in [Conns -> Age] /\ pending' \in [Conns -> Age]
    <3>1. pkt[w].conn \in Conns
      BY <1>9 DEF Block
    <3>2. /\ blocked' \in {blocked, Stamped(blocked, pkt[w].conn)}
          /\ pending' \in {pending, Erased(pending, pkt[w].conn)}
      BY <1>9 DEF Block, Enter
    <3>3. QED
      BY <3>1, <3>2, ZenonT(60) DEF TypeOK
  <2>2. seen' \in [Workers -> SUBSET Configs]
    BY <1>9 DEF Block, Enter, TypeOK
  <2>3. QED
    BY <1>9, <2>1, <2>2 DEF Block, TypeOK, PC, Out!TypeOK
<1>10. ASSUME NEW w \in Workers, Allow(w) PROVE TypeOK'
  <2>1. allowed' \in [Conns -> Age] /\ pending' \in [Conns -> Age]
    <3>1. pkt[w].conn \in Conns
      BY <1>10 DEF Allow
    <3>2. /\ allowed' \in {allowed, Stamped(allowed, pkt[w].conn)}
          /\ pending' \in {pending, Erased(pending, pkt[w].conn)}
      BY <1>10 DEF Allow, Enter
    <3>3. QED
      BY <3>1, <3>2, ZenonT(60) DEF TypeOK
  <2>2. seen' \in [Workers -> SUBSET Configs]
    BY <1>10 DEF Allow, Enter, TypeOK
  <2>3. QED
    BY <1>10, <2>1, <2>2 DEF Allow, TypeOK, PC, Out!TypeOK
<1>11. ASSUME NEW w \in Workers, CheckPending(w) PROVE TypeOK'
  BY <1>11 DEF CheckPending, TypeOK, PC, tables, Out!TypeOK
<1>12. ASSUME NEW w \in Workers, PushForward(w) PROVE TypeOK'
  <2>1. [kind |-> "fwd", conn |-> pkt[w].conn] \in Raw
    BY <1>12 DEF Raw, PushForward
  <2>2. QED
    BY <1>12, <2>1, QueueTypes DEF PushForward, TypeOK, PC, tables
<1>13. ASSUME NEW w \in Workers, PushBackward(w) PROVE TypeOK'
  <2>1. [kind |-> "bwd", conn |-> pkt[w].conn] \in Raw
    BY <1>13 DEF Raw, PushBackward
  <2>2. QED
    BY <1>13, <2>1, QueueTypes DEF PushBackward, TypeOK, PC, tables
<1>14. ASSUME NEW f \in Configs, ChangeFilter(f) PROVE TypeOK'
  BY <1>14 DEF ChangeFilter, TypeOK, tables, Out!TypeOK
<1>15. ASSUME NEW lag \in 0 .. MaxLag, Sweep(lag) PROVE TypeOK'
  <2>1. AllowTTL + lag \in Int /\ BlockTTL + lag \in Int /\ PendTTL + lag \in Int
    BY Bounds
  <2>2. QED
    BY <1>15, <2>1 DEF Sweep, Expired, TypeOK, tables, Out!TypeOK
<1>16. Send => TypeOK'
  BY QueueTypes DEF Send, TypeOK, tables
<1>17. Tick => TypeOK'
  <2>1. ASSUME Tick
        PROVE  /\ allowed' \in [Conns -> Age] /\ blocked' \in [Conns -> Age]
               /\ pending' \in [Conns -> Age]
    BY <2>1, Zenon DEF Tick, TypeOK
  <2>2. QED
    BY <2>1 DEF Tick, TypeOK, Out!TypeOK
<1>18. UNCHANGED vars => TypeOK'
  BY DEF vars, TypeOK, Out!TypeOK
<1>19. ASSUME NEW w \in Workers, SkipReset(w) PROVE TypeOK'
  BY <1>19 DEF SkipReset, TypeOK, PC, tables, Out!TypeOK
<1>20. QED
  BY <1>1, <1>2, <1>3, <1>4, <1>5, <1>6, <1>7, <1>8, <1>9, <1>10, <1>11, <1>12,
     <1>13, <1>14, <1>15, <1>16, <1>17, <1>18, <1>19, StepCases, Zenon

(* Every reachable state is of its type, and the outbound queue never      *)
(* outgrows its limit.                                                     *)
THEOREM TypeCorrect == Spec => []TypeOK
BY TypeInit, TypeStep, PTL DEF Spec

-----------------------------------------------------------------------------
(* The queue.                                                              *)

(* What a worker pushes is a forged packet.                                *)
LEMMA PushedRaw ==
  ASSUME TypeOK, NEW w \in Workers, pc[w] # "idle"
  PROVE  \A kind \in {"fwd", "bwd", "icmp"} : [kind |-> kind, conn |-> pkt[w].conn] \in Raw
BY Held DEF Raw

LEMMA QueueStep == TypeOK /\ [Next]_vars => [Out!Next]_outbound
<1> SUFFICES ASSUME TypeOK, [Next]_vars PROVE [Out!Next]_outbound
  OBVIOUS
<1>1. ASSUME NEW w \in Workers, NEW p \in Traffic, Dequeue(w, p) PROVE [Out!Next]_outbound
  BY <1>1 DEF Dequeue
<1>2. ASSUME NEW w \in Workers, NEW c \in Conns, AnswerQuic(w, c)
      PROVE  [Out!Next]_outbound
  <2>1. Unreachable(c) \in Raw
    BY DEF Unreachable, Raw
  <2>2. QED
    BY <1>2, <2>1 DEF AnswerQuic, Out!Next
<1>3. ASSUME NEW w \in Workers, CloseConn(w) PROVE [Out!Next]_outbound
  BY <1>3 DEF CloseConn
<1>4. ASSUME NEW w \in Workers, Lookup(w) PROVE [Out!Next]_outbound
  BY <1>4 DEF Lookup
<1>5. ASSUME NEW w \in Workers, RegisterSyn(w) PROVE [Out!Next]_outbound
  BY <1>5 DEF RegisterSyn
<1>6. ASSUME NEW w \in Workers, CheckBlocked(w) PROVE [Out!Next]_outbound
  BY <1>6 DEF CheckBlocked
<1>7. ASSUME NEW w \in Workers, Classify(w) PROVE [Out!Next]_outbound
  BY <1>7 DEF Classify
<1>8. ASSUME NEW w \in Workers, CheckMode(w) PROVE [Out!Next]_outbound
  BY <1>8 DEF CheckMode
<1>9. ASSUME NEW w \in Workers, Block(w) PROVE [Out!Next]_outbound
  BY <1>9 DEF Block
<1>10. ASSUME NEW w \in Workers, Allow(w) PROVE [Out!Next]_outbound
  BY <1>10 DEF Allow
<1>11. ASSUME NEW w \in Workers, CheckPending(w) PROVE [Out!Next]_outbound
  BY <1>11 DEF CheckPending
<1>12. ASSUME NEW w \in Workers, SkipReset(w) PROVE [Out!Next]_outbound
  BY <1>12 DEF SkipReset
<1>13. ASSUME NEW w \in Workers, PushForward(w) PROVE [Out!Next]_outbound
  <2>1. [kind |-> "fwd", conn |-> pkt[w].conn] \in Raw
    BY <1>13, PushedRaw DEF PushForward
  <2>2. QED
    BY <1>13, <2>1 DEF PushForward, Out!Next
<1>14. ASSUME NEW w \in Workers, PushBackward(w) PROVE [Out!Next]_outbound
  <2>1. [kind |-> "bwd", conn |-> pkt[w].conn] \in Raw
    BY <1>14, PushedRaw DEF PushBackward
  <2>2. QED
    BY <1>14, <2>1 DEF PushBackward, Out!Next
<1>15. ASSUME NEW f \in Configs, ChangeFilter(f) PROVE [Out!Next]_outbound
  BY <1>15 DEF ChangeFilter
<1>16. ASSUME NEW lag \in 0 .. MaxLag, Sweep(lag) PROVE [Out!Next]_outbound
  BY <1>16 DEF Sweep
<1>17. Send => [Out!Next]_outbound
  BY DEF Send, Out!Next
<1>18. Tick => [Out!Next]_outbound
  BY DEF Tick
<1>19. UNCHANGED vars => [Out!Next]_outbound
  BY DEF vars
<1>20. QED
  BY <1>1, <1>2, <1>3, <1>4, <1>5, <1>6, <1>7, <1>8, <1>9, <1>10, <1>11, <1>12,
     <1>13, <1>14, <1>15, <1>16, <1>17, <1>18, <1>19, StepCases, Zenon

(* The tracker uses its queue as OutboundFifo allows, which is what        *)
(* PacketTxQueue implements: pushes of forged packets and pops, whatever   *)
(* the workers do (packet_injector.cpp:149-150, 228, main.cpp:157-161).    *)
THEOREM TrackerUsesTheQueue == Spec => Out!Spec
<1>1. Init => Out!Init
  BY DEF Init, Out!Init
<1>2. QED
  BY <1>1, QueueStep, TypeCorrect, PTL DEF Spec, Out!Spec

-----------------------------------------------------------------------------
(* Resets in pairs.                                                        *)

(* The packets f of a queue are followed by as many packets b, n of which  *)
(* are still to come.                                                      *)
Followed(q, f, b, n) ==
  \A k \in 1 .. Len(q) + 1 : Times(q, f, k) <= Times(q, b, k) + n

(* A push of another packet keeps it so, one of f needs one more b to come *)
(* and one of b is one less.                                               *)
Gives(p, v) == IF p = v THEN 1 ELSE 0

LEMMA FollowedAppend ==
  ASSUME NEW q \in Seq(Raw), NEW p \in Raw, NEW f, NEW b, NEW n \in Nat, NEW m \in Nat,
         Followed(q, f, b, n), n + Gives(p, f) <= m + Gives(p, b)
  PROVE  Followed(Append(q, p), f, b, m)
<1>r. PICK r : r = Append(q, p)
  OBVIOUS
<1>1. Len(q) \in Nat /\ Len(r) = Len(q) + 1 /\ r \in Seq(Raw)
  BY <1>r, AppendProperties, LenProperties
<1>2. ASSUME NEW k \in 1 .. Len(r) + 1 PROVE Times(r, f, k) <= Times(r, b, k) + m
  <2>1. CASE k = Len(r) + 1
    <3>1. k \in Nat /\ k > Len(r)
      BY <1>1, <2>1
    <3>2. Times(r, f, k) = 0 /\ Times(r, b, k) = 0
      BY <1>1, <3>1, TimesType
    <3>3. QED
      BY <3>2
  <2>2. CASE k # Len(r) + 1
    <3>1. k \in 1 .. Len(q) + 1 /\ k \in Nat
      BY <1>1, <2>2
    <3>2. /\ Times(r, f, k) = Times(q, f, k) + Gives(p, f)
          /\ Times(r, b, k) = Times(q, b, k) + Gives(p, b)
      BY <1>r, <3>1, TimesAppend DEF Gives
    <3>3. Times(q, f, k) \in Nat /\ Times(q, b, k) \in Nat
      BY <3>1, TimesType
    <3>4. Times(q, f, k) <= Times(q, b, k) + n
      BY <3>1 DEF Followed
    <3>5. Gives(p, f) \in Nat /\ Gives(p, b) \in Nat
      BY DEF Gives
    <3>6. QED
      BY <3>2, <3>3, <3>4, <3>5
  <2>3. QED
    BY <2>1, <2>2
<1>3. QED
  BY <1>2, <1>r DEF Followed

(* What the front loses is no matter to what is behind it.                 *)
LEMMA FollowedTail ==
  ASSUME NEW q \in Seq(Raw), q # <<>>, NEW f, NEW b, NEW n \in Nat, Followed(q, f, b, n)
  PROVE  Followed(Tail(q), f, b, n)
<1>r. PICK r : r = Tail(q)
  OBVIOUS
<1>1. Len(q) \in Nat /\ Len(r) = Len(q) - 1
  BY <1>r, HeadTailProperties, LenProperties
<1>2. ASSUME NEW k \in 1 .. Len(r) + 1 PROVE Times(r, f, k) <= Times(r, b, k) + n
  <2>1. k \in Nat \ {0} /\ k + 1 \in 1 .. Len(q) + 1
    BY <1>1
  <2>2. Times(r, f, k) = Times(q, f, k + 1) /\ Times(r, b, k) = Times(q, b, k + 1)
    BY <1>r, <2>1, TimesTail
  <2>3. QED
    BY <2>1, <2>2 DEF Followed
<1>3. QED
  BY <1>2, <1>r DEF Followed

LEMMA FollowedPush ==
  ASSUME Out!TypeOK, NEW p \in Raw, Out!Push(p), NEW f, NEW b, NEW n \in Nat, NEW m \in Nat,
         Followed(outbound, f, b, n), n + Gives(p, f) <= m + Gives(p, b)
  PROVE  Followed(outbound', f, b, m)
<1>1. /\ outbound \in Seq(Raw) /\ Len(outbound) \in Nat /\ Capacity \in Nat \ {0}
  BY TrackerAssumption DEF Out!TypeOK
<1>q. PICK q : q = IF Len(outbound) >= Capacity THEN Tail(outbound) ELSE outbound
  OBVIOUS
<1>2. q \in Seq(Raw) /\ Followed(q, f, b, n)
  <2>1. CASE Len(outbound) >= Capacity
    <3>1. outbound # <<>>
      BY <1>1, <2>1
    <3>2. q = Tail(outbound) /\ q \in Seq(Raw)
      BY <1>1, <1>q, <2>1, <3>1
    <3>3. QED
      BY <1>1, <3>1, <3>2, FollowedTail
  <2>2. CASE ~(Len(outbound) >= Capacity)
    BY <1>1, <1>q, <2>2
  <2>3. QED
    BY <2>1, <2>2
<1>3. outbound' = Append(q, p)
  BY <1>q DEF Out!Push, Out!Pushed
<1>4. QED
  BY <1>2, <1>3, FollowedAppend

(* The invariant in these words.                                           *)
Fwd(c) == [kind |-> "fwd", conn |-> c]
Bwd(c) == [kind |-> "bwd", conn |-> c]
ToCome(c) == Cardinality(HalfDone(c))

HalvesCounted == \A c \in Conns : IsFiniteSet(HalfDone(c)) /\ ToCome(c) \in Nat
AllFollowed == \A c \in Conns : Followed(outbound, Fwd(c), Bwd(c), ToCome(c))

LEMMA FollowedMeans ==
  TypeOK => HalvesCounted /\ (ForwardIsFollowed <=> AllFollowed)
<1>. SUFFICES ASSUME TypeOK PROVE HalvesCounted /\ (ForwardIsFollowed <=> AllFollowed)
  OBVIOUS
<1>1. ASSUME NEW c \in Conns PROVE IsFiniteSet(HalfDone(c)) /\ ToCome(c) \in Nat
  <2>1. HalfDone(c) \subseteq Workers
    BY DEF HalfDone
  <2>2. IsFiniteSet(HalfDone(c))
    BY <2>1, TrackerAssumption, FS_Subset
  <2>3. QED
    BY <2>2, FS_CardinalityType DEF ToCome
<1>2. outbound \in Seq(Raw) /\ Len(outbound) \in Nat
  BY DEF TypeOK, Out!TypeOK
<1>3. ASSUME NEW c \in Conns, NEW k \in 1 .. Len(outbound) + 1
      PROVE  /\ Times(outbound, Fwd(c), k) = Cardinality(Queued("fwd", c, k))
             /\ Times(outbound, Bwd(c), k) = Cardinality(Queued("bwd", c, k))
  BY DEF Times, Places, Queued, Fwd, Bwd
<1>4. ASSUME NEW c \in Conns
      PROVE  LET k == Len(outbound) + 1
             IN  Times(outbound, Fwd(c), k) <= Times(outbound, Bwd(c), k) + ToCome(c)
  <2>1. Len(outbound) + 1 \in Nat /\ Len(outbound) + 1 > Len(outbound)
    BY <1>2
  <2>2. /\ Times(outbound, Fwd(c), Len(outbound) + 1) = 0
        /\ Times(outbound, Bwd(c), Len(outbound) + 1) = 0
    BY <1>2, <2>1, TimesType
  <2>3. QED
    BY <1>1, <2>2
<1>5. ASSUME NEW c \in Conns
      PROVE  Followed(outbound, Fwd(c), Bwd(c), ToCome(c))
               <=> \A k \in 1 .. Len(outbound) :
                     Cardinality(Queued("fwd", c, k))
                       <= Cardinality(Queued("bwd", c, k)) + Cardinality(HalfDone(c))
  <2>1. \A k \in 1 .. Len(outbound) + 1 : k \in 1 .. Len(outbound) \/ k = Len(outbound) + 1
    BY <1>2
  <2>2. \A k \in 1 .. Len(outbound) : k \in 1 .. Len(outbound) + 1
    BY <1>2
  <2>3. QED
    BY <1>3, <1>4, <2>1, <2>2 DEF Followed, ToCome
<1>6. QED
  BY <1>1, <1>5 DEF ForwardIsFollowed, HalvesCounted, AllFollowed

LEMMA FollowedMeansNext ==
  TypeOK' => HalvesCounted' /\ (ForwardIsFollowed' <=> AllFollowed')
BY FollowedMeans, PTL


(* A worker comes between its two pushes with the first and leaves with    *)
(* the second.                                                             *)
LEMMA ForwardHalf ==
  ASSUME TypeOK, NEW w \in Workers, PushForward(w), NEW c \in Conns
  PROVE  ToCome(c)' = ToCome(c) + Gives(Fwd(pkt[w].conn), Fwd(c))
<1>1. /\ pc[w] \in {"fwd", "fwdHeld"} /\ pc'[w] \in {"bwd", "bwdHeld"} /\ UNCHANGED pkt
      /\ \A v \in Workers \ {w} : pc'[v] = pc[v]
  BY DEF PushForward, Goto, TypeOK
<1>2. IsFiniteSet(HalfDone(c)) /\ ToCome(c) \in Nat
  BY FollowedMeans DEF HalvesCounted
<1>3. w \notin HalfDone(c)
  BY <1>1 DEF HalfDone
<1>4. HalfDone(c)' = IF pkt[w].conn = c THEN HalfDone(c) \cup {w} ELSE HalfDone(c)
  BY <1>1 DEF HalfDone
<1>5. Fwd(pkt[w].conn) = Fwd(c) <=> pkt[w].conn = c
  BY DEF Fwd
<1>6. Cardinality(HalfDone(c) \cup {w}) = Cardinality(HalfDone(c)) + 1
  BY <1>2, <1>3, FS_AddElement
<1>7. QED
  BY <1>2, <1>4, <1>5, <1>6 DEF ToCome, Gives

LEMMA BackwardHalf ==
  ASSUME TypeOK, NEW w \in Workers, PushBackward(w), NEW c \in Conns
  PROVE  ToCome(c) = ToCome(c)' + Gives(Bwd(pkt[w].conn), Bwd(c))
<1>1. /\ pc[w] \in {"bwd", "bwdHeld"} /\ pc'[w] = "idle"
      /\ \A v \in Workers \ {w} : pc'[v] = pc[v] /\ pkt'[v] = pkt[v]
  BY DEF PushBackward, Done, Goto, TypeOK
<1>2. IsFiniteSet(HalfDone(c)) /\ ToCome(c) \in Nat
  BY FollowedMeans DEF HalvesCounted
<1>3. HalfDone(c)' = IF pkt[w].conn = c THEN HalfDone(c) \ {w} ELSE HalfDone(c)
  BY <1>1 DEF HalfDone
<1>4. Bwd(pkt[w].conn) = Bwd(c) <=> pkt[w].conn = c
  BY DEF Bwd
<1>5. pkt[w].conn = c => w \in HalfDone(c)
  BY <1>1 DEF HalfDone
<1>6. w \in HalfDone(c) => Cardinality(HalfDone(c) \ {w}) = Cardinality(HalfDone(c)) - 1
  BY <1>2, FS_RemoveElement
<1>7. QED
  BY <1>2, <1>3, <1>4, <1>5, <1>6 DEF ToCome, Gives

(* No other step changes who is between two pushes.                        *)
Elsewhere == {"idle", "close", "lookup", "syn", "blockcheck", "classify", "unlisted",
              "block", "allow", "pendcheck", "fwd", "fwdHeld"}
LEMMA OtherHalf ==
  ASSUME TypeOK, NEW w \in Workers, pc[w] \in Elsewhere,
         \/ \E label \in Elsewhere : Goto(w, label) /\ pkt' = [pkt EXCEPT ![w] = pkt'[w]]
         \/ Done(w)
  PROVE  \A c \in Conns : HalfDone(c)' = HalfDone(c)
<1>1. /\ pc'[w] \in Elsewhere
      /\ \A v \in Workers \ {w} : pc'[v] = pc[v] /\ pkt'[v] = pkt[v]
  BY DEF Done, Goto, TypeOK, Elsewhere
<1>2. QED
  BY <1>1 DEF HalfDone, Elsewhere

LEMMA FollowedStep ==
  TypeOK /\ ForwardIsFollowed /\ [Next]_vars => ForwardIsFollowed'
<1> SUFFICES ASSUME TypeOK, ForwardIsFollowed, [Next]_vars PROVE ForwardIsFollowed'
  OBVIOUS
<1>t. TypeOK' /\ Out!TypeOK
  BY TypeStep DEF TypeOK
<1>f. \A c \in Conns : /\ Followed(outbound, Fwd(c), Bwd(c), ToCome(c))
                       /\ ToCome(c) \in Nat /\ ToCome(c)' \in Nat
  BY <1>t, FollowedMeans, FollowedMeansNext DEF HalvesCounted, AllFollowed
<1>g. (\A c \in Conns : Followed(outbound', Fwd(c), Bwd(c), ToCome(c)')) => ForwardIsFollowed'
  BY <1>t, FollowedMeansNext DEF AllFollowed, Followed, Fwd, Bwd
<1>s. ASSUME UNCHANGED outbound, \A c \in Conns : HalfDone(c)' = HalfDone(c)
      PROVE  ForwardIsFollowed'
  <2>1. ASSUME NEW c \in Conns PROVE Followed(outbound', Fwd(c), Bwd(c), ToCome(c)')
    <3>1. ToCome(c)' = ToCome(c)
      BY <1>s DEF ToCome
    <3>2. QED
      BY <1>f, <1>s, <3>1
  <2>2. QED
    BY <1>g, <2>1
<1>1. ASSUME NEW w \in Workers, NEW p \in Traffic, Dequeue(w, p) PROVE ForwardIsFollowed'
  <2>1. pkt'[w] = p
    BY <1>1 DEF Dequeue, TypeOK
  <2>2. \E label \in Elsewhere : Goto(w, label) /\ pkt' = [pkt EXCEPT ![w] = pkt'[w]]
    BY <1>1, <2>1 DEF Dequeue, Elsewhere
  <2>3. pc[w] \in Elsewhere
    BY <1>1 DEF Dequeue, Elsewhere
  <2>4. QED
    BY <1>1, <1>s, <2>2, <2>3, OtherHalf DEF Dequeue
<1>2. ASSUME NEW w \in Workers, NEW c \in Conns, AnswerQuic(w, c) PROVE ForwardIsFollowed'
  <2>1. Unreachable(c) \in Raw
    BY DEF Unreachable, Raw
  <2>2. ASSUME NEW d \in Conns PROVE Followed(outbound', Fwd(d), Bwd(d), ToCome(d)')
    <3>1. ToCome(d)' = ToCome(d)
      BY <1>2 DEF AnswerQuic, ToCome, HalfDone
    <3>2. Gives(Unreachable(c), Fwd(d)) = 0 /\ Gives(Unreachable(c), Bwd(d)) = 0
      BY DEF Gives, Unreachable, Fwd, Bwd
    <3>3. Out!Push(Unreachable(c))
      BY <1>2 DEF AnswerQuic
    <3>4. ToCome(d) + Gives(Unreachable(c), Fwd(d)) <= ToCome(d)' + Gives(Unreachable(c), Bwd(d))
      BY <1>f, <3>1, <3>2
    <3>5. QED
      BY <1>f, <1>t, <2>1, <3>3, <3>4, FollowedPush
  <2>3. QED
    BY <1>g, <2>2
<1>3. ASSUME NEW w \in Workers, CloseConn(w) PROVE ForwardIsFollowed'
  <2>1. \/ \E label \in Elsewhere : Goto(w, label) /\ pkt' = [pkt EXCEPT ![w] = pkt'[w]]
        \/ Done(w)
    BY <1>3 DEF CloseConn, Elsewhere, TypeOK
  <2>2. pc[w] \in Elsewhere
    BY <1>3 DEF CloseConn, Elsewhere
  <2>3. QED
    BY <1>3, <1>s, <2>1, <2>2, OtherHalf DEF CloseConn
<1>4. ASSUME NEW w \in Workers, Lookup(w) PROVE ForwardIsFollowed'
  <2>1. \/ \E label \in Elsewhere : Goto(w, label) /\ pkt' = [pkt EXCEPT ![w] = pkt'[w]]
        \/ Done(w)
    BY <1>4 DEF Lookup, Elsewhere, TypeOK
  <2>2. pc[w] \in Elsewhere
    BY <1>4 DEF Lookup, Elsewhere
  <2>3. QED
    BY <1>4, <1>s, <2>1, <2>2, OtherHalf DEF Lookup
<1>5. ASSUME NEW w \in Workers, RegisterSyn(w) PROVE ForwardIsFollowed'
  <2>1. pc[w] \in Elsewhere
    BY <1>5 DEF RegisterSyn, Elsewhere
  <2>2. QED
    BY <1>5, <1>s, <2>1, OtherHalf DEF RegisterSyn
<1>6. ASSUME NEW w \in Workers, CheckBlocked(w) PROVE ForwardIsFollowed'
  <2>1. \/ \E label \in Elsewhere : Goto(w, label) /\ pkt' = [pkt EXCEPT ![w] = pkt'[w]]
        \/ Done(w)
    BY <1>6 DEF CheckBlocked, ByPayload, Elsewhere, TypeOK
  <2>2. pc[w] \in Elsewhere
    BY <1>6 DEF CheckBlocked, Elsewhere
  <2>3. QED
    BY <1>6, <1>s, <2>1, <2>2, OtherHalf DEF CheckBlocked
<1>7. ASSUME NEW w \in Workers, Classify(w) PROVE ForwardIsFollowed'
  <2>1. \E label \in Elsewhere : Goto(w, label) /\ pkt' = [pkt EXCEPT ![w] = pkt'[w]]
    BY <1>7 DEF Classify, Elsewhere, TypeOK
  <2>2. pc[w] \in Elsewhere
    BY <1>7 DEF Classify, Elsewhere
  <2>3. QED
    BY <1>7, <1>s, <2>1, <2>2, OtherHalf DEF Classify
<1>8. ASSUME NEW w \in Workers, CheckMode(w) PROVE ForwardIsFollowed'
  <2>1. \E label \in Elsewhere : Goto(w, label) /\ pkt' = [pkt EXCEPT ![w] = pkt'[w]]
    BY <1>8 DEF CheckMode, Elsewhere, TypeOK
  <2>2. pc[w] \in Elsewhere
    BY <1>8 DEF CheckMode, Elsewhere
  <2>3. QED
    BY <1>8, <1>s, <2>1, <2>2, OtherHalf DEF CheckMode
<1>9. ASSUME NEW w \in Workers, Block(w) PROVE ForwardIsFollowed'
  <2>1. \E label \in Elsewhere : Goto(w, label) /\ pkt' = [pkt EXCEPT ![w] = pkt'[w]]
    BY <1>9 DEF Block, Elsewhere, TypeOK
  <2>2. pc[w] \in Elsewhere
    BY <1>9 DEF Block, Elsewhere
  <2>3. QED
    BY <1>9, <1>s, <2>1, <2>2, OtherHalf DEF Block
<1>10. ASSUME NEW w \in Workers, Allow(w) PROVE ForwardIsFollowed'
  <2>1. pc[w] \in Elsewhere
    BY <1>10 DEF Allow, Elsewhere
  <2>2. QED
    BY <1>10, <1>s, <2>1, OtherHalf DEF Allow
<1>11. ASSUME NEW w \in Workers, CheckPending(w) PROVE ForwardIsFollowed'
  <2>1. \/ \E label \in Elsewhere : Goto(w, label) /\ pkt' = [pkt EXCEPT ![w] = pkt'[w]]
        \/ Done(w)
    BY <1>11 DEF CheckPending, Elsewhere, TypeOK
  <2>2. pc[w] \in Elsewhere
    BY <1>11 DEF CheckPending, Elsewhere
  <2>3. QED
    BY <1>11, <1>s, <2>1, <2>2, OtherHalf DEF CheckPending
<1>12. ASSUME NEW w \in Workers, SkipReset(w) PROVE ForwardIsFollowed'
  <2>1. pc[w] \in Elsewhere
    BY <1>12 DEF SkipReset, Elsewhere
  <2>2. QED
    BY <1>12, <1>s, <2>1, OtherHalf DEF SkipReset
<1>13. ASSUME NEW w \in Workers, PushForward(w) PROVE ForwardIsFollowed'
  <2>1. Fwd(pkt[w].conn) \in Raw /\ Out!Push(Fwd(pkt[w].conn))
    BY <1>13, PushedRaw DEF PushForward, Fwd
  <2>2. ASSUME NEW d \in Conns PROVE Followed(outbound', Fwd(d), Bwd(d), ToCome(d)')
    <3>1. ToCome(d)' = ToCome(d) + Gives(Fwd(pkt[w].conn), Fwd(d))
      BY <1>13, ForwardHalf
    <3>2. Gives(Fwd(pkt[w].conn), Bwd(d)) = 0 /\ Gives(Fwd(pkt[w].conn), Fwd(d)) \in Nat
      BY DEF Gives, Fwd, Bwd
    <3>3. ToCome(d) + Gives(Fwd(pkt[w].conn), Fwd(d))
            <= ToCome(d)' + Gives(Fwd(pkt[w].conn), Bwd(d))
      BY <1>f, <3>1, <3>2
    <3>4. QED
      BY <1>f, <1>t, <2>1, <3>3, FollowedPush
  <2>3. QED
    BY <1>g, <2>2
<1>14. ASSUME NEW w \in Workers, PushBackward(w) PROVE ForwardIsFollowed'
  <2>1. Bwd(pkt[w].conn) \in Raw /\ Out!Push(Bwd(pkt[w].conn))
    BY <1>14, PushedRaw DEF PushBackward, Bwd
  <2>2. ASSUME NEW d \in Conns PROVE Followed(outbound', Fwd(d), Bwd(d), ToCome(d)')
    <3>1. ToCome(d) = ToCome(d)' + Gives(Bwd(pkt[w].conn), Bwd(d))
      BY <1>14, BackwardHalf
    <3>2. Gives(Bwd(pkt[w].conn), Fwd(d)) = 0 /\ Gives(Bwd(pkt[w].conn), Bwd(d)) \in Nat
      BY DEF Gives, Fwd, Bwd
    <3>3. ToCome(d) + Gives(Bwd(pkt[w].conn), Fwd(d))
            <= ToCome(d)' + Gives(Bwd(pkt[w].conn), Bwd(d))
      BY <1>f, <3>1, <3>2
    <3>4. QED
      BY <1>f, <1>t, <2>1, <3>3, FollowedPush
  <2>3. QED
    BY <1>g, <2>2
<1>15. ASSUME NEW f \in Configs, ChangeFilter(f) PROVE ForwardIsFollowed'
  BY <1>15, <1>s DEF ChangeFilter, HalfDone
<1>16. ASSUME NEW lag \in 0 .. MaxLag, Sweep(lag) PROVE ForwardIsFollowed'
  BY <1>16, <1>s DEF Sweep, HalfDone
<1>17. Send => ForwardIsFollowed'
  <2>. SUFFICES ASSUME Send PROVE ForwardIsFollowed'
    OBVIOUS
  <2>1. /\ outbound # <<>> /\ outbound' = Tail(outbound) /\ outbound \in Seq(Raw)
        /\ \A c \in Conns : HalfDone(c)' = HalfDone(c)
    BY <1>t DEF Send, Out!Pop, Out!TypeOK, HalfDone
  <2>2. ASSUME NEW c \in Conns PROVE Followed(outbound', Fwd(c), Bwd(c), ToCome(c)')
    <3>1. ToCome(c)' = ToCome(c)
      BY <2>1 DEF ToCome
    <3>2. QED
      BY <1>f, <2>1, <3>1, FollowedTail
  <2>3. QED
    BY <1>g, <2>2
<1>18. Tick => ForwardIsFollowed'
  BY <1>s DEF Tick, HalfDone
<1>19. UNCHANGED vars => ForwardIsFollowed'
  BY <1>s DEF vars, HalfDone
<1>20. QED
  BY <1>1, <1>2, <1>3, <1>4, <1>5, <1>6, <1>7, <1>8, <1>9, <1>10, <1>11, <1>12,
     <1>13, <1>14, <1>15, <1>16, <1>17, <1>18, <1>19, StepCases, Zenon

(* The reset for a server is never sent without the one for the client to  *)
(* come, however many workers push and whatever the limit drops.           *)
THEOREM ForwardsAreFollowed == Spec => []ForwardIsFollowed
<1>1. Init => ForwardIsFollowed
  BY DEF Init, ForwardIsFollowed
<1>2. QED
  BY <1>1, FollowedStep, TypeCorrect, PTL DEF Spec

-----------------------------------------------------------------------------
(* What each action does to the sets of entries.                           *)

LEMMA CloseEntries ==
  ASSUME TypeOK, NEW w \in Workers, CloseConn(w)
  PROVE  /\ In(allowed)' = In(allowed) \ {pkt[w].conn}
         /\ In(blocked)' = In(blocked) \ {pkt[w].conn}
         /\ In(pending)' = In(pending) \ {pkt[w].conn}
<1>1. pkt[w].conn \in Conns
  BY Held DEF CloseConn
<1>2. /\ allowed \in [Conns -> Age] /\ blocked \in [Conns -> Age]
      /\ pending \in [Conns -> Age]
  BY DEF TypeOK
<1>3. /\ In(allowed') = In(allowed) \ {pkt[w].conn}
      /\ In(blocked') = In(blocked) \ {pkt[w].conn}
      /\ In(pending') = In(pending) \ {pkt[w].conn}
  BY <1>1, <1>2, TableEntries DEF CloseConn
<1>4. QED
  BY <1>3 DEF In

LEMMA SynEntries ==
  ASSUME TypeOK, NEW w \in Workers, RegisterSyn(w)
  PROVE  /\ In(allowed)' = In(allowed)
         /\ In(blocked)' = In(blocked)
         /\ \/ In(pending)' = In(pending)
            \/ /\ pkt[w].conn \notin In(allowed) \cup In(blocked)
               /\ In(pending)' = In(pending) \cup {pkt[w].conn}
<1>1. pkt[w].conn \in Conns
  BY Held DEF RegisterSyn
<1>2. pending \in [Conns -> Age]
  BY DEF TypeOK
<1>3. In(Stamped(pending, pkt[w].conn)) = In(pending) \cup {pkt[w].conn}
  BY <1>1, <1>2, TableEntries
<1>4. QED
  BY <1>3 DEF RegisterSyn, In

LEMMA BlockEntries ==
  ASSUME TypeOK, NEW w \in Workers, Block(w)
  PROVE  /\ In(allowed)' = In(allowed)
         /\ In(blocked)' = In(blocked) \cup {pkt[w].conn}
         /\ \/ pkt[w].conn \in In(blocked) /\ In(pending)' = In(pending)
            \/ In(pending)' = In(pending) \ {pkt[w].conn}
<1>1. pkt[w].conn \in Conns
  BY Held DEF Block
<1>2. blocked \in [Conns -> Age] /\ pending \in [Conns -> Age]
  BY DEF TypeOK
<1>3. /\ In(Stamped(blocked, pkt[w].conn)) = In(blocked) \cup {pkt[w].conn}
      /\ In(Erased(pending, pkt[w].conn)) = In(pending) \ {pkt[w].conn}
  BY <1>1, <1>2, TableEntries
<1>4. QED
  BY <1>3 DEF Block, Enter, In

LEMMA AllowEntries ==
  ASSUME TypeOK, NEW w \in Workers, Allow(w)
  PROVE  /\ In(allowed)' = In(allowed) \cup {pkt[w].conn}
         /\ In(blocked)' = In(blocked)
         /\ \/ pkt[w].conn \in In(allowed) /\ In(pending)' = In(pending)
            \/ In(pending)' = In(pending) \ {pkt[w].conn}
<1>1. pkt[w].conn \in Conns
  BY Held DEF Allow
<1>2. allowed \in [Conns -> Age] /\ pending \in [Conns -> Age]
  BY DEF TypeOK
<1>3. /\ In(Stamped(allowed, pkt[w].conn)) = In(allowed) \cup {pkt[w].conn}
      /\ In(Erased(pending, pkt[w].conn)) = In(pending) \ {pkt[w].conn}
  BY <1>1, <1>2, TableEntries
<1>4. QED
  BY <1>3 DEF Allow, Enter, In

LEMMA SweepEntries ==
  ASSUME TypeOK, NEW lag \in 0 .. MaxLag, Sweep(lag)
  PROVE  /\ In(allowed)' \subseteq In(allowed)
         /\ In(blocked)' \subseteq In(blocked)
         /\ In(pending)' \subseteq In(pending)
BY TableEntries DEF Sweep, Expired, In

LEMMA TickEntries ==
  ASSUME TypeOK, Tick
  PROVE  /\ In(allowed)' = In(allowed)
         /\ In(blocked)' = In(blocked)
         /\ In(pending)' = In(pending)
<1>1. /\ In(Older(allowed)) = In(allowed) /\ In(Older(blocked)) = In(blocked)
      /\ In(Older(pending)) = In(pending)
  BY TableEntries DEF TypeOK
<1>2. QED
  BY <1>1 DEF Tick, In

(* Every other step leaves the tables alone.                               *)
LEMMA OtherEntries ==
  ASSUME UNCHANGED tables
  PROVE  /\ In(allowed)' = In(allowed)
         /\ In(blocked)' = In(blocked)
         /\ In(pending)' = In(pending)
BY DEF tables, In

-----------------------------------------------------------------------------
(* A connection with a verdict is not pending.                             *)

LEMMA ExclusiveStep ==
  TypeOK /\ PendingExclusive /\ [Next]_vars => PendingExclusive'
<1> SUFFICES ASSUME TypeOK, PendingExclusive, [Next]_vars PROVE PendingExclusive'
  OBVIOUS
<1>1. ASSUME UNCHANGED tables PROVE PendingExclusive'
  BY <1>1, OtherEntries DEF PendingExclusive
<1>2. ASSUME NEW w \in Workers, CloseConn(w) PROVE PendingExclusive'
  BY <1>2, CloseEntries DEF PendingExclusive
<1>3. ASSUME NEW w \in Workers, RegisterSyn(w) PROVE PendingExclusive'
  BY <1>3, SynEntries DEF PendingExclusive
<1>4. ASSUME NEW w \in Workers, Block(w) PROVE PendingExclusive'
  BY <1>4, BlockEntries DEF PendingExclusive
<1>5. ASSUME NEW w \in Workers, Allow(w) PROVE PendingExclusive'
  BY <1>5, AllowEntries DEF PendingExclusive
<1>6. ASSUME NEW lag \in 0 .. MaxLag, Sweep(lag) PROVE PendingExclusive'
  BY <1>6, SweepEntries DEF PendingExclusive
<1>7. Tick => PendingExclusive'
  BY TickEntries DEF PendingExclusive
<1>8. UNCHANGED vars => UNCHANGED tables
  BY DEF vars, tables
<1>9. QED
  BY <1>1, <1>2, <1>3, <1>4, <1>5, <1>6, <1>7, <1>8, StepCases, Zenon
     DEF Dequeue, AnswerQuic, Lookup, CheckBlocked, Classify, CheckMode, CheckPending,
         SkipReset, PushForward, PushBackward, ChangeFilter, Send

(* No connection that has a verdict is pending, however the workers, the   *)
(* sweep and the changes of the lists interleave.                          *)
THEOREM PendingIsExclusive == Spec => []PendingExclusive
<1>1. Init => PendingExclusive
  BY DEF Init, PendingExclusive, In
<1>2. QED
  BY <1>1, ExclusiveStep, TypeCorrect, PTL DEF Spec

-----------------------------------------------------------------------------
(* A worker that resets a blocked connection under its shared lock.        *)

LEMMA ResetStep ==
  TypeOK /\ ResetHoldsVerdict /\ [Next]_vars => ResetHoldsVerdict'
<1> SUFFICES ASSUME TypeOK, ResetHoldsVerdict, [Next]_vars
             PROVE  ResetHoldsVerdict'
  OBVIOUS
(* A writer finds nobody between the two pushes.                           *)
<1>1. ASSUME IpFree,
             \A v \in Workers : pc'[v] \in {"fwdHeld", "bwdHeld"} => pc'[v] = pc[v]
      PROVE  ResetHoldsVerdict'
  BY <1>1 DEF IpFree, Holding, ResetHoldsVerdict
(* A reader moves alone and leaves the tables as they are.                 *)
<1>2. ASSUME UNCHANGED tables, NEW w \in Workers,
             \A v \in Workers \ {w} : pc'[v] = pc[v] /\ pkt'[v] = pkt[v],
             pc'[w] \in {"fwdHeld", "bwdHeld"} =>
               pkt'[w] = pkt[w] /\ pkt[w].conn \in In(blocked)
      PROVE  ResetHoldsVerdict'
  BY <1>2, OtherEntries DEF ResetHoldsVerdict
<1>3. ASSUME NEW w \in Workers, NEW p \in Traffic, Dequeue(w, p)
      PROVE  ResetHoldsVerdict'
  BY <1>2, <1>3 DEF Dequeue, Goto, TypeOK
<1>4. ASSUME UNCHANGED tables, UNCHANGED <<pc, pkt>> PROVE ResetHoldsVerdict'
  BY <1>4, OtherEntries DEF ResetHoldsVerdict
<1>5. ASSUME NEW w \in Workers, NEW c \in Conns, AnswerQuic(w, c)
      PROVE  ResetHoldsVerdict'
  BY <1>4, <1>5 DEF AnswerQuic
<1>6. ASSUME NEW w \in Workers, CloseConn(w) PROVE ResetHoldsVerdict'
  BY <1>1, <1>6 DEF CloseConn, Done, Goto, TypeOK
<1>7. ASSUME NEW w \in Workers, Lookup(w) PROVE ResetHoldsVerdict'
  BY <1>2, <1>7 DEF Lookup, Done, Goto, TypeOK
<1>8. ASSUME NEW w \in Workers, RegisterSyn(w) PROVE ResetHoldsVerdict'
  BY <1>1, <1>8 DEF RegisterSyn, Done, Goto, TypeOK
<1>9. ASSUME NEW w \in Workers, CheckBlocked(w) PROVE ResetHoldsVerdict'
  BY <1>2, <1>9 DEF CheckBlocked, ByPayload, Done, Goto, TypeOK
<1>10. ASSUME NEW w \in Workers, Classify(w) PROVE ResetHoldsVerdict'
  BY <1>2, <1>10 DEF Classify, Goto, TypeOK
<1>11. ASSUME NEW w \in Workers, CheckMode(w) PROVE ResetHoldsVerdict'
  BY <1>2, <1>11 DEF CheckMode, Goto, TypeOK
<1>12. ASSUME NEW w \in Workers, Block(w) PROVE ResetHoldsVerdict'
  BY <1>1, <1>12 DEF Block, Enter, Goto, TypeOK
<1>13. ASSUME NEW w \in Workers, Allow(w) PROVE ResetHoldsVerdict'
  BY <1>1, <1>13 DEF Allow, Enter, Done, Goto, TypeOK
<1>14. ASSUME NEW w \in Workers, CheckPending(w) PROVE ResetHoldsVerdict'
  BY <1>2, <1>14 DEF CheckPending, Done, Goto, TypeOK
<1>15. ASSUME NEW w \in Workers, PushForward(w) PROVE ResetHoldsVerdict'
  BY <1>2, <1>15 DEF PushForward, Goto, TypeOK, ResetHoldsVerdict
<1>16. ASSUME NEW w \in Workers, PushBackward(w) PROVE ResetHoldsVerdict'
  BY <1>2, <1>16 DEF PushBackward, Done, Goto, TypeOK
<1>17. ASSUME NEW f \in Configs, ChangeFilter(f) PROVE ResetHoldsVerdict'
  BY <1>4, <1>17 DEF ChangeFilter
<1>18. ASSUME NEW lag \in 0 .. MaxLag, Sweep(lag) PROVE ResetHoldsVerdict'
  BY <1>1, <1>18 DEF Sweep
<1>19. Tick => ResetHoldsVerdict'
  BY TickEntries DEF Tick, ResetHoldsVerdict
<1>20. Send => ResetHoldsVerdict'
  BY <1>4 DEF Send
<1>21. UNCHANGED vars => ResetHoldsVerdict'
  BY <1>4 DEF vars, tables
<1>22. ASSUME NEW w \in Workers, SkipReset(w) PROVE ResetHoldsVerdict'
  BY <1>2, <1>22 DEF SkipReset, Done, Goto, TypeOK
<1>23. QED
  BY <1>3, <1>5, <1>6, <1>7, <1>8, <1>9, <1>10, <1>11, <1>12, <1>13, <1>14, <1>15,
     <1>16, <1>17, <1>18, <1>19, <1>20, <1>21, <1>22, StepCases, Zenon

(* From the look-up to the second push of the pair, a connection that is   *)
(* reset because it is blocked stays blocked.                              *)
THEOREM ResetsHoldTheirVerdict == Spec => []ResetHoldsVerdict
<1>1. Init => ResetHoldsVerdict
  BY DEF Init, ResetHoldsVerdict
<1>2. QED
  BY <1>1, ResetStep, TypeCorrect, PTL DEF Spec

-----------------------------------------------------------------------------
(* Entries leave for a reason.                                             *)

(* A forged packet is never at work.                                       *)
Genuine == \A w \in Workers : pc[w] = "close" => ~pkt[w].injected

LEMMA GenuineStep == TypeOK /\ Genuine /\ [Next]_vars => Genuine'
<1> SUFFICES ASSUME TypeOK, Genuine, [Next]_vars PROVE Genuine'
  OBVIOUS
<1>1. ASSUME \A v \in Workers : pc'[v] = "close" => pc[v] = "close" /\ pkt'[v] = pkt[v]
      PROVE  Genuine'
  BY <1>1 DEF Genuine
<1>2. ASSUME NEW w \in Workers, NEW p \in Traffic, Dequeue(w, p) PROVE Genuine'
  BY <1>2 DEF Dequeue, Forged, Goto, TypeOK, Genuine
<1>3. ASSUME UNCHANGED <<pc, pkt>> PROVE Genuine'
  BY <1>1, <1>3
<1>4. ASSUME NEW w \in Workers,
             \/ \E label \in PC \ {"close"} : Goto(w, label) /\ UNCHANGED pkt
             \/ Done(w)
      PROVE  Genuine'
  BY <1>1, <1>4 DEF Goto, Done, TypeOK
<1>5. ASSUME NEW w \in Workers, CloseConn(w) PROVE Genuine'
  BY <1>4, <1>5 DEF CloseConn, PC
<1>6. ASSUME NEW w \in Workers, Lookup(w) PROVE Genuine'
  BY <1>4, <1>6 DEF Lookup, PC
<1>7. ASSUME NEW w \in Workers, RegisterSyn(w) PROVE Genuine'
  BY <1>4, <1>7 DEF RegisterSyn, PC
<1>8. ASSUME NEW w \in Workers, CheckBlocked(w) PROVE Genuine'
  BY <1>4, <1>8 DEF CheckBlocked, ByPayload, PC
<1>9. ASSUME NEW w \in Workers, Classify(w) PROVE Genuine'
  BY <1>4, <1>9 DEF Classify, PC
<1>10. ASSUME NEW w \in Workers, CheckMode(w) PROVE Genuine'
  BY <1>4, <1>10 DEF CheckMode, PC
<1>11. ASSUME NEW w \in Workers, Block(w) PROVE Genuine'
  BY <1>4, <1>11 DEF Block, PC
<1>12. ASSUME NEW w \in Workers, Allow(w) PROVE Genuine'
  BY <1>4, <1>12 DEF Allow, PC
<1>13. ASSUME NEW w \in Workers, CheckPending(w) PROVE Genuine'
  BY <1>4, <1>13 DEF CheckPending, PC
<1>14. ASSUME NEW w \in Workers, PushForward(w) PROVE Genuine'
  BY <1>4, <1>14 DEF PushForward, PC
<1>15. ASSUME NEW w \in Workers, PushBackward(w) PROVE Genuine'
  BY <1>4, <1>15 DEF PushBackward, PC
<1>16. ASSUME NEW w \in Workers, SkipReset(w) PROVE Genuine'
  BY <1>4, <1>16 DEF SkipReset, PC
<1>17. QED
  BY <1>2, <1>3, <1>5, <1>6, <1>7, <1>8, <1>9, <1>10, <1>11, <1>12, <1>13, <1>14,
     <1>15, <1>16, StepCases, Zenon
     DEF AnswerQuic, ChangeFilter, Sweep, Send, Tick, vars

LEMMA SweepEvicts ==
  ASSUME TypeOK, NEW lag \in 0 .. MaxLag, Sweep(lag), NEW c \in Conns
  PROVE  /\ c \in In(allowed) \ In(allowed)' => allowed[c] > AllowTTL
         /\ c \in In(blocked) \ In(blocked)' => blocked[c] > BlockTTL
         /\ c \in In(pending) \ In(pending)' => pending[c] > PendTTL
<1>1. /\ allowed[c] \in Int /\ blocked[c] \in Int /\ pending[c] \in Int
      /\ lag \in Nat
      /\ AllowTTL \in Nat /\ BlockTTL \in Nat /\ PendTTL \in Nat
  BY Bounds DEF TypeOK, Age, Absent
<1>2. /\ allowed[c] > AllowTTL + lag => allowed[c] > AllowTTL
      /\ blocked[c] > BlockTTL + lag => blocked[c] > BlockTTL
      /\ pending[c] > PendTTL + lag => pending[c] > PendTTL
  BY <1>1
<1>3. QED
  BY <1>2 DEF Sweep, Expired, In

LEMMA EvictionStep ==
  TypeOK /\ Genuine /\ [Next]_vars =>
    [\A c \in Conns :
       /\ c \in In(allowed) \ In(allowed)' => ClosedByClient(c) \/ allowed[c] > AllowTTL
       /\ c \in In(blocked) \ In(blocked)' => ClosedByClient(c) \/ blocked[c] > BlockTTL
       /\ c \in In(pending) \ In(pending)' =>
             \/ ClosedByClient(c)
             \/ pending[c] > PendTTL
             \/ c \in In(allowed)' \cup In(blocked)']_tables
<1> DEFINE Justified(c) ==
      /\ c \in In(allowed) \ In(allowed)' => ClosedByClient(c) \/ allowed[c] > AllowTTL
      /\ c \in In(blocked) \ In(blocked)' => ClosedByClient(c) \/ blocked[c] > BlockTTL
      /\ c \in In(pending) \ In(pending)' =>
            \/ ClosedByClient(c)
            \/ pending[c] > PendTTL
            \/ c \in In(allowed)' \cup In(blocked)'
<1> SUFFICES ASSUME TypeOK, Genuine, [Next]_vars, NEW c \in Conns PROVE Justified(c)
  OBVIOUS
<1>1. ASSUME UNCHANGED tables PROVE Justified(c)
  BY <1>1, OtherEntries
<1>2. ASSUME NEW w \in Workers, CloseConn(w) PROVE Justified(c)
  <2>1. ClosedByClient(pkt[w].conn)
    BY <1>2 DEF CloseConn, ClosedByClient, Genuine
  <2>2. QED
    BY <1>2, <2>1, CloseEntries
<1>3. ASSUME NEW w \in Workers, RegisterSyn(w) PROVE Justified(c)
  BY <1>3, SynEntries
<1>4. ASSUME NEW w \in Workers, Block(w) PROVE Justified(c)
  BY <1>4, BlockEntries
<1>5. ASSUME NEW w \in Workers, Allow(w) PROVE Justified(c)
  BY <1>5, AllowEntries
<1>6. ASSUME NEW lag \in 0 .. MaxLag, Sweep(lag) PROVE Justified(c)
  BY <1>6, SweepEvicts
<1>7. Tick => Justified(c)
  BY TickEntries
<1>8. UNCHANGED vars => UNCHANGED tables
  BY DEF vars, tables
<1> HIDE DEF Justified
<1>9. QED
  BY <1>1, <1>2, <1>3, <1>4, <1>5, <1>6, <1>7, <1>8, StepCases, Zenon
     DEF Dequeue, AnswerQuic, Lookup, CheckBlocked, Classify, CheckMode, CheckPending,
         SkipReset, PushForward, PushBackward, ChangeFilter, Send

(* An entry leaves its table only after its time to live, because the      *)
(* client closed the connection, or, pending, for a verdict: never because *)
(* of a packet this program sent.                                          *)
THEOREM EvictionIsJustified == Spec => EvictionJustified
<1>1. Init => Genuine
  BY DEF Init, Genuine
<1>2. QED
  BY <1>1, GenuineStep, EvictionStep, TypeCorrect, PTL DEF Spec, EvictionJustified

-----------------------------------------------------------------------------
(* Verdicts.                                                               *)

(* A worker that decides has seen the lists in force, and what it knows of *)
(* the host name is true of them if they are all it has seen.              *)
DecisionOf(f, d, label) ==
  /\ label = "unlisted" => ~Hit(f.black, d) /\ ~Hit(f.white, d)
  /\ label = "allow" => Permits(f, d)
  /\ label = "block" => ~Permits(f, d)

Informed ==
  \A w \in Workers :
    Deciding(w) =>
      /\ filter \in seen[w]
      /\ seen[w] = {filter} => DecisionOf(filter, pkt[w].domain, pc[w])

LEMMA InformedStep == TypeOK /\ Informed /\ [Next]_vars => Informed'
<1> SUFFICES ASSUME TypeOK, Informed, [Next]_vars PROVE Informed'
  OBVIOUS
(* A worker that decides in the next state decided in this one, and        *)
(* neither the lists nor what it knows has changed.                        *)
<1>1. ASSUME filter' = filter,
             \A v \in Workers : Deciding(v)' =>
               /\ Deciding(v) /\ pc'[v] = pc[v]
               /\ pkt'[v] = pkt[v] /\ seen'[v] = seen[v]
      PROVE  Informed'
  BY <1>1 DEF Informed
<1>2. ASSUME UNCHANGED <<filter, pc, pkt, seen>> PROVE Informed'
  BY <1>1, <1>2 DEF Deciding
<1>3. ASSUME NEW w \in Workers, UNCHANGED <<filter, seen>>,
             \/ \E label \in PC \ {"unlisted", "block", "allow"} :
                  Goto(w, label) /\ UNCHANGED pkt
             \/ Done(w)
      PROVE  Informed'
  BY <1>1, <1>3 DEF Goto, Done, TypeOK, Deciding
<1>4. ASSUME NEW w \in Workers, NEW p \in Traffic, Dequeue(w, p) PROVE Informed'
  BY <1>1, <1>4 DEF Dequeue, Goto, TypeOK, Deciding
<1>5. ASSUME NEW w \in Workers, CloseConn(w) PROVE Informed'
  BY <1>3, <1>5 DEF CloseConn, PC
<1>6. ASSUME NEW w \in Workers, Lookup(w) PROVE Informed'
  BY <1>3, <1>6 DEF Lookup, PC
<1>7. ASSUME NEW w \in Workers, RegisterSyn(w) PROVE Informed'
  BY <1>3, <1>7 DEF RegisterSyn, PC
<1>8. ASSUME NEW w \in Workers, CheckBlocked(w) PROVE Informed'
  BY <1>3, <1>8 DEF CheckBlocked, ByPayload, PC
<1>9. ASSUME NEW w \in Workers, Classify(w) PROVE Informed'
  <2>1. ASSUME NEW v \in Workers \ {w}
        PROVE  /\ Deciding(v)' = Deciding(v) /\ pc'[v] = pc[v]
               /\ seen'[v] = seen[v]
    BY <1>9 DEF Classify, Goto, TypeOK, Deciding
  <2>2. seen'[w] = {filter} /\ filter' = filter /\ pkt' = pkt
    BY <1>9 DEF Classify, TypeOK
  <2>3. pc'[w] = IF Hit(filter.black, pkt[w].domain) THEN "block"
                 ELSE IF Hit(filter.white, pkt[w].domain) THEN "allow" ELSE "unlisted"
    BY <1>9 DEF Classify, Goto, TypeOK
  <2>4. DecisionOf(filter, pkt[w].domain, pc'[w])
    BY <2>3 DEF DecisionOf, Permits
  <2>5. QED
    BY <2>1, <2>2, <2>4 DEF Informed
<1>10. ASSUME NEW w \in Workers, CheckMode(w) PROVE Informed'
  <2>1. ASSUME NEW v \in Workers \ {w}
        PROVE  Deciding(v)' = Deciding(v) /\ pc'[v] = pc[v]
    BY <1>10 DEF CheckMode, Goto, TypeOK, Deciding
  <2>2. seen' = seen /\ filter' = filter /\ pkt' = pkt
    BY <1>10 DEF CheckMode
  <2>3. Deciding(w) /\ pc[w] = "unlisted"
    BY <1>10 DEF CheckMode, Deciding
  <2>4. pc'[w] = IF filter.white # {} THEN "block" ELSE "allow"
    BY <1>10 DEF CheckMode, Goto, TypeOK
  <2>5. seen[w] = {filter} => DecisionOf(filter, pkt[w].domain, pc'[w])
    BY <2>3, <2>4 DEF Informed, DecisionOf, Permits
  <2>6. QED
    BY <2>1, <2>2, <2>3, <2>5 DEF Informed
<1>11. ASSUME NEW w \in Workers, Block(w) PROVE Informed'
  BY <1>1, <1>11 DEF Block, Enter, Goto, TypeOK, Deciding
<1>12. ASSUME NEW w \in Workers, Allow(w) PROVE Informed'
  BY <1>1, <1>12 DEF Allow, Enter, Done, Goto, TypeOK, Deciding
<1>13. ASSUME NEW w \in Workers, CheckPending(w) PROVE Informed'
  BY <1>3, <1>13 DEF CheckPending, PC
<1>14. ASSUME NEW w \in Workers, PushForward(w) PROVE Informed'
  BY <1>3, <1>14 DEF PushForward, PC
<1>15. ASSUME NEW w \in Workers, PushBackward(w) PROVE Informed'
  BY <1>3, <1>15 DEF PushBackward, PC
<1>16. ASSUME NEW f \in Configs, ChangeFilter(f) PROVE Informed'
  <2>1. ASSUME NEW v \in Workers, Deciding(v)'
        PROVE  filter' \in seen'[v] /\ seen'[v] # {filter'}
    BY <1>16, <2>1 DEF ChangeFilter, Deciding, Informed, TypeOK
  <2>2. QED
    BY <2>1 DEF Informed
<1>17. UNCHANGED vars => Informed'
  BY <1>2 DEF vars
<1>18. ASSUME NEW w \in Workers, SkipReset(w) PROVE Informed'
  BY <1>3, <1>18 DEF SkipReset, PC
<1>19. QED
  BY <1>2, <1>4, <1>5, <1>6, <1>7, <1>8, <1>9, <1>10, <1>11, <1>12, <1>13, <1>14,
     <1>15, <1>16, <1>17, <1>18, StepCases, Zenon DEF AnswerQuic, Sweep, Send, Tick

(* A worker that saw one version of the lists while it decided enters the  *)
(* verdict they give.                                                      *)
THEOREM VerdictsAreExact == Spec => []VerdictExact
<1>1. Init => Informed
  BY DEF Init, Informed, Deciding
<1>2. Informed => VerdictExact
  BY DEF Informed, VerdictExact, Deciding, DecisionOf
<1>3. QED
  BY <1>1, <1>2, InformedStep, TypeCorrect, PTL DEF Spec

-----------------------------------------------------------------------------
(* Workers that stay apart: the packets of a connection are with one of    *)
(* them at a time.                                                         *)

(* What a worker has found out about its connection on its way to the      *)
(* place where it is.                                                      *)
Looked(w) ==
  /\ pc[w] \in {"syn", "blockcheck", "classify", "unlisted", "block", "allow",
               "pendcheck", "fwd", "bwd", "fwdHeld", "bwdHeld"} =>
       pkt[w].conn \notin In(allowed)
  /\ pc[w] \in {"classify", "unlisted", "allow"} => pkt[w].conn \notin In(blocked)

Decided == VerdictsDisjoint /\ \A w \in Workers : Looked(w)

(* A worker's step leaves the others where they are.                       *)
OthersRest(w) == \A v \in Workers \ {w} : pc'[v] = pc[v] /\ pkt'[v] = pkt[v]

LEMMA OneMoves ==
  ASSUME TypeOK, NEW w \in Workers,
         \/ \E p \in Traffic : Dequeue(w, p)
         \/ CloseConn(w) \/ Lookup(w) \/ RegisterSyn(w) \/ CheckBlocked(w)
         \/ Classify(w) \/ CheckMode(w) \/ Block(w) \/ Allow(w)
         \/ CheckPending(w) \/ SkipReset(w) \/ PushForward(w) \/ PushBackward(w)
  PROVE  OthersRest(w)
<1>1. pc \in [Workers -> PC] /\ pkt \in [Workers -> Traffic \cup {NoPacket}]
  BY DEF TypeOK
<1>2. ASSUME NEW label, Goto(w, label)
      PROVE  \A v \in Workers \ {w} : pc'[v] = pc[v]
  BY <1>1, <1>2 DEF Goto
<1>3. ASSUME Done(w)
      PROVE  OthersRest(w)
  BY <1>1, <1>2, <1>3 DEF Done, OthersRest
<1>. QED
  BY <1>1, <1>2, <1>3
     DEF OthersRest, Dequeue, CloseConn, Lookup, RegisterSyn, CheckBlocked, Classify,
         CheckMode, Block, Allow, CheckPending, SkipReset, PushForward, PushBackward

(* What the others have found out about their connections stays true: the  *)
(* step gives a verdict about no connection but its own.                   *)
LEMMA OthersLooked ==
  ASSUME Decided, Apart, NEW w \in Workers, OthersRest(w), VerdictsDisjoint', Looked(w)',
         \/ UNCHANGED tables
         \/ /\ pc[w] # "idle"
            /\ In(allowed)' \subseteq In(allowed) \cup {pkt[w].conn}
            /\ In(blocked)' \subseteq In(blocked) \cup {pkt[w].conn}
  PROVE  Decided'
<1>1. ASSUME NEW v \in Workers \ {w}, pc[v] # "idle"
      PROVE  /\ pkt[v].conn \in In(allowed)' => pkt[v].conn \in In(allowed)
             /\ pkt[v].conn \in In(blocked)' => pkt[v].conn \in In(blocked)
  BY <1>1, OtherEntries DEF Apart
<1>2. ASSUME NEW v \in Workers \ {w}
      PROVE  Looked(v)'
  BY <1>1, <1>2 DEF Decided, Looked, OthersRest
<1>. QED  BY <1>2 DEF Decided

LEMMA DecidedStep ==
  TypeOK /\ Decided /\ Apart /\ [Next]_vars => Decided'
<1> SUFFICES ASSUME TypeOK, Decided, Apart, [Next]_vars PROVE Decided'
  OBVIOUS
<1>0. VerdictsDisjoint /\ \A w \in Workers : Looked(w)
  BY DEF Decided
<1>1. ASSUME UNCHANGED tables, UNCHANGED <<pc, pkt>> PROVE Decided'
  BY <1>1, OtherEntries DEF Decided, Looked, VerdictsDisjoint
(* A step that touches no table.                                           *)
<1>2. ASSUME NEW w \in Workers, UNCHANGED tables, OthersRest(w), Looked(w)' PROVE Decided'
  BY <1>0, <1>2, OtherEntries, OthersLooked DEF VerdictsDisjoint
<1>3. ASSUME NEW w \in Workers, NEW p \in Traffic, Dequeue(w, p) PROVE Decided'
  <2>1. Looked(w)'
    BY <1>3 DEF Dequeue, Goto, TypeOK, Looked
  <2>. QED  BY <1>2, <1>3, <2>1, OneMoves DEF Dequeue
<1>4. ASSUME NEW w \in Workers, CloseConn(w) PROVE Decided'
  <2>1. Looked(w)' /\ VerdictsDisjoint'
    BY <1>0, <1>4, CloseEntries DEF CloseConn, Done, Goto, TypeOK, Looked, VerdictsDisjoint
  <2>2. /\ pc[w] # "idle"
        /\ In(allowed)' \subseteq In(allowed) /\ In(blocked)' \subseteq In(blocked)
    BY <1>4, CloseEntries DEF CloseConn
  <2>. QED  BY <1>4, <2>1, <2>2, OneMoves, OthersLooked
<1>5. ASSUME NEW w \in Workers, Lookup(w) PROVE Decided'
  <2>1. Looked(w)'
    BY <1>0, <1>5, OtherEntries DEF Lookup, Done, Goto, TypeOK, Looked
  <2>. QED  BY <1>2, <1>5, <2>1, OneMoves DEF Lookup
<1>6. ASSUME NEW w \in Workers, RegisterSyn(w) PROVE Decided'
  <2>1. Looked(w)' /\ VerdictsDisjoint'
    BY <1>0, <1>6, SynEntries DEF RegisterSyn, Done, Goto, TypeOK, Looked, VerdictsDisjoint
  <2>2. pc[w] # "idle" /\ In(allowed)' = In(allowed) /\ In(blocked)' = In(blocked)
    BY <1>6, SynEntries DEF RegisterSyn
  <2>. QED  BY <1>6, <2>1, <2>2, OneMoves, OthersLooked
<1>7. ASSUME NEW w \in Workers, CheckBlocked(w) PROVE Decided'
  <2>1. Looked(w)'
    BY <1>0, <1>7, OtherEntries DEF CheckBlocked, ByPayload, Done, Goto, TypeOK, Looked
  <2>. QED  BY <1>2, <1>7, <2>1, OneMoves DEF CheckBlocked
<1>8. ASSUME NEW w \in Workers, Classify(w) PROVE Decided'
  <2>1. Looked(w)'
    BY <1>0, <1>8, OtherEntries DEF Classify, Goto, TypeOK, Looked
  <2>. QED  BY <1>2, <1>8, <2>1, OneMoves DEF Classify
<1>9. ASSUME NEW w \in Workers, CheckMode(w) PROVE Decided'
  <2>1. Looked(w)'
    BY <1>0, <1>9, OtherEntries DEF CheckMode, Goto, TypeOK, Looked
  <2>. QED  BY <1>2, <1>9, <2>1, OneMoves DEF CheckMode
<1>10. ASSUME NEW w \in Workers, Block(w) PROVE Decided'
  <2>1. pc[w] = "block" /\ pc'[w] = "fwd" /\ pkt' = pkt
    BY <1>10 DEF Block, Goto, TypeOK
  <2>2. Looked(w)' /\ VerdictsDisjoint'
    BY <1>0, <1>10, <2>1, BlockEntries DEF Looked, VerdictsDisjoint
  <2>3. In(allowed)' = In(allowed) /\ In(blocked)' = In(blocked) \cup {pkt[w].conn}
    BY <1>10, BlockEntries
  <2>. QED  BY <1>10, <2>1, <2>2, <2>3, OneMoves, OthersLooked
<1>11. ASSUME NEW w \in Workers, Allow(w) PROVE Decided'
  <2>1. pc[w] = "allow" /\ pc'[w] = "idle"
    BY <1>11 DEF Allow, Done, Goto, TypeOK
  <2>2. Looked(w)' /\ VerdictsDisjoint'
    BY <1>0, <1>11, <2>1, AllowEntries DEF Looked, VerdictsDisjoint
  <2>3. In(allowed)' = In(allowed) \cup {pkt[w].conn} /\ In(blocked)' = In(blocked)
    BY <1>11, AllowEntries
  <2>. QED  BY <1>11, <2>1, <2>2, <2>3, OneMoves, OthersLooked
<1>12. ASSUME NEW w \in Workers, CheckPending(w) PROVE Decided'
  <2>1. Looked(w)'
    BY <1>0, <1>12, OtherEntries DEF CheckPending, Done, Goto, TypeOK, Looked
  <2>. QED  BY <1>2, <1>12, <2>1, OneMoves DEF CheckPending
<1>13. ASSUME NEW w \in Workers, SkipReset(w) PROVE Decided'
  <2>1. Looked(w)'
    BY <1>13 DEF SkipReset, Done, Goto, TypeOK, Looked
  <2>. QED  BY <1>2, <1>13, <2>1, OneMoves DEF SkipReset
<1>14. ASSUME NEW w \in Workers, PushForward(w) PROVE Decided'
  <2>1. Looked(w)'
    BY <1>0, <1>14, OtherEntries DEF PushForward, Goto, TypeOK, Looked
  <2>. QED  BY <1>2, <1>14, <2>1, OneMoves DEF PushForward
<1>15. ASSUME NEW w \in Workers, PushBackward(w) PROVE Decided'
  <2>1. Looked(w)'
    BY <1>15 DEF PushBackward, Done, Goto, TypeOK, Looked
  <2>. QED  BY <1>2, <1>15, <2>1, OneMoves DEF PushBackward
<1>16. ASSUME NEW lag \in 0 .. MaxLag, Sweep(lag) PROVE Decided'
  BY <1>0, <1>16, SweepEntries DEF Sweep, Decided, Looked, VerdictsDisjoint
<1>17. Tick => Decided'
  BY <1>0, TickEntries DEF Tick, Decided, Looked, VerdictsDisjoint
<1>18. UNCHANGED vars => Decided'
  BY <1>1 DEF vars, tables
<1>19. QED
  BY <1>1, <1>3, <1>4, <1>5, <1>6, <1>7, <1>8, <1>9, <1>10, <1>11, <1>12, <1>13, <1>14,
     <1>15, <1>16, <1>17, <1>18, StepCases, Zenon DEF AnswerQuic, ChangeFilter, Send

LEMMA DecidedInit == Init => Decided
BY DEF Init, Decided, VerdictsDisjoint, Looked, In

(* Workers that stay apart give a connection one verdict and never reset   *)
(* one that they have allowed, however many they are and whatever the      *)
(* sweep and the lists do: the locks (:365-509) are enough between         *)
(* connections.                                                            *)
THEOREM ApartWorkersDecideOnce ==
  Spec /\ []Apart => [](VerdictsDisjoint /\ AllowedNeverReset)
<1>1. Decided => VerdictsDisjoint /\ AllowedNeverReset
  BY DEF Decided, Looked, AllowedNeverReset
<1>2. QED
  BY <1>1, DecidedInit, DecidedStep, TypeCorrect, PTL DEF Spec

(* A single worker is always apart.                                        *)
LEMMA SingleApart ==
  ASSUME NEW w, Workers = {w}
  PROVE  []Apart
<1>1. Apart
  BY DEF Apart
<1>. QED  BY <1>1, PTL

(* So it gives one connection one verdict ...                              *)
THEOREM SingleWorkerDecidesOnce ==
  ASSUME NEW w, Workers = {w}
  PROVE  Spec => [](VerdictsDisjoint /\ AllowedNeverReset)
BY SingleApart, ApartWorkersDecideOnce, PTL

(* ... and never resets a connection that it has allowed.                  *)
THEOREM SingleWorkerSparesAllowed ==
  ASSUME NEW w, Workers = {w}
  PROVE  Spec => []AllowedNeverReset
BY SingleWorkerDecidesOnce, PTL

-----------------------------------------------------------------------------
(* Workers that stay apart implement the abstract filter.                  *)

Verdicted == [c \in Conns |-> Verdict(c)]
Resetting == {pkt[w].conn : w \in Resetters}

(* The verdict of a connection, by the table that has it.                  *)
LEMMA VerdictMeans ==
  ASSUME PendingExclusive, VerdictsDisjoint, NEW c \in Conns
  PROVE  /\ Verdict(c) \in {"none", "pending", "allowed", "blocked"}
         /\ Verdict(c) = "allowed" <=> c \in In(allowed)
         /\ Verdict(c) = "blocked" <=> c \in In(blocked)
         /\ Verdict(c) = "pending" <=> c \in In(pending)
BY DEF Verdict, PendingExclusive, VerdictsDisjoint

LEMMA VerdictMeansNext ==
  ASSUME PendingExclusive', VerdictsDisjoint', NEW c \in Conns
  PROVE  /\ Verdict(c)' \in {"none", "pending", "allowed", "blocked"}
         /\ Verdict(c)' = "allowed" <=> c \in In(allowed)'
         /\ Verdict(c)' = "blocked" <=> c \in In(blocked)'
         /\ Verdict(c)' = "pending" <=> c \in In(pending)'
BY DEF Verdict, PendingExclusive, VerdictsDisjoint

(* The verdicts change only for one connection, or only by being forgotten.*)
LEMMA VerdictGiven ==
  ASSUME PendingExclusive, VerdictsDisjoint, PendingExclusive', VerdictsDisjoint',
         NEW c \in Conns,
         \A d \in Conns \ {c} :
           /\ d \in In(allowed)' <=> d \in In(allowed)
           /\ d \in In(blocked)' <=> d \in In(blocked)
           /\ d \in In(pending)' <=> d \in In(pending)
  PROVE  Verdicted' = [Verdicted EXCEPT ![c] = Verdict(c)']
<1>1. ASSUME NEW d \in Conns \ {c} PROVE Verdict(d)' = Verdict(d)
  BY VerdictMeans, VerdictMeansNext
<1>2. QED
  BY <1>1 DEF Verdicted

LEMMA VerdictsForgotten ==
  ASSUME PendingExclusive, VerdictsDisjoint, PendingExclusive', VerdictsDisjoint',
         In(allowed)' \subseteq In(allowed), In(blocked)' \subseteq In(blocked),
         In(pending)' \subseteq In(pending), UNCHANGED Resetting
  PROVE  Filter!Next
<1> DEFINE S == {c \in Conns : Verdict(c)' = "none"}
<1>1. ASSUME NEW c \in Conns
      PROVE  Verdict(c)' = IF c \in S THEN "none" ELSE Verdict(c)
  BY VerdictMeans, VerdictMeansNext
<1>2. Filter!Forget(S)
  BY <1>1 DEF Filter!Forget, Resetting
<1>3. QED
  BY <1>2 DEF Filter!Next

LEMMA Unmoved ==
  ASSUME UNCHANGED tables
  PROVE  Verdicted' = Verdicted
BY OtherEntries DEF Verdicted, Verdict
(* A worker resets the connection of its packet while it is at a push, and *)
(* nobody else does.                                                       *)
Pushing == {"fwd", "bwd", "fwdHeld", "bwdHeld"}

LEMMA ResettingOwn ==
  ASSUME TypeOK, Apart, NEW w \in Workers, pc[w] # "idle", OthersRest(w),
         pc'[w] # "idle" => pkt'[w] = pkt[w]
  PROVE  /\ pc[w] \in Pushing <=> pkt[w].conn \in Resetting
         /\ pc'[w] \in Pushing => Resetting' = Resetting \cup {pkt[w].conn}
         /\ pc'[w] \notin Pushing => Resetting' = Resetting \ {pkt[w].conn}
<1>. DEFINE others == {pkt[v].conn : v \in Resetters \ {w}}
<1>1. pkt[w].conn \notin others
  BY DEF Resetters, Apart
<1>2. Resetting = others \cup (IF pc[w] \in Pushing THEN {pkt[w].conn} ELSE {})
  BY DEF Resetting, Resetters, Pushing
<1>3. Resetting' = others \cup (IF pc'[w] \in Pushing THEN {pkt[w].conn} ELSE {})
  BY DEF Resetting, Resetters, Pushing, OthersRest
<1>. HIDE DEF others
<1>. QED  BY <1>1, <1>2, <1>3

Good == TypeOK /\ PendingExclusive /\ VerdictsDisjoint

LEMMA FilterStep ==
  ASSUME Good, Decided, Apart, Good', [Next]_vars
  PROVE  Filter!Next \/ UNCHANGED <<Verdicted, Resetting>>
<1> DEFINE Goal == Filter!Next \/ UNCHANGED <<Verdicted, Resetting>>
<1> USE DEF Good
<1> HIDE DEF Goal
<1>0. ASSUME NEW w \in Workers, pc[w] # "idle"
      PROVE  pkt[w].conn \in Conns
  BY <1>0, Held
<1>1. ASSUME UNCHANGED tables, UNCHANGED <<pc, pkt>> PROVE Goal
  BY <1>1, Unmoved DEF Goal, Resetting, Resetters
(* A step of a worker on its way that touches no table.                    *)
<1>2. ASSUME NEW w \in Workers, UNCHANGED tables, OthersRest(w), pc[w] # "idle",
             pc'[w] # "idle" => pkt'[w] = pkt[w],
             pc[w] \notin Pushing, pc'[w] \notin Pushing
      PROVE  Goal
  BY <1>2, Unmoved, ResettingOwn DEF Goal
(* ... that begins to reset a connection that is blocked or waits, ...     *)
<1>a. ASSUME NEW w \in Workers, UNCHANGED tables, OthersRest(w), pc[w] # "idle",
             pkt'[w] = pkt[w], pc'[w] \in Pushing,
             pkt[w].conn \in In(pending) \cup In(blocked)
      PROVE  Goal
  <2>1. PICK c \in Conns : c = pkt[w].conn
    BY <1>a, <1>0
  <2>2. Verdict(c) \in {"pending", "blocked"}
    BY <1>a, <2>1, VerdictMeans
  <2>3. Resetting' = Resetting \cup {c}
    BY <1>a, <2>1, ResettingOwn
  <2>4. Filter!Reset(c)
    BY <1>a, <2>2, <2>3, Unmoved DEF Filter!Reset, Verdicted, Resetting
  <2>. QED  BY <2>4 DEF Goal, Filter!Next
(* ... or that ends it.                                                    *)
<1>b. ASSUME NEW w \in Workers, UNCHANGED tables, OthersRest(w),
             pc[w] \in Pushing, pc'[w] = "idle"
      PROVE  Goal
  <2>1. PICK c \in Conns : c = pkt[w].conn
    BY <1>b, <1>0 DEF Pushing
  <2>2. Resetting' = Resetting \ {c}
    BY <1>b, <2>1, ResettingOwn DEF Pushing
  <2>3. Filter!ResetDone(c)
    BY <1>b, <2>2, Unmoved DEF Filter!ResetDone, Verdicted, Resetting
  <2>. QED  BY <2>3 DEF Goal, Filter!Next
<1>3. ASSUME NEW w \in Workers, NEW p \in Traffic, Dequeue(w, p) PROVE Goal
  <2>1. /\ pc[w] \notin Pushing /\ pc'[w] \notin Pushing /\ OthersRest(w)
        /\ UNCHANGED tables
    BY <1>3, OneMoves DEF Dequeue, Goto, TypeOK, Pushing
  <2>2. UNCHANGED Resetting
    BY <2>1 DEF Resetting, Resetters, Pushing, OthersRest
  <2>. QED  BY <2>1, <2>2, Unmoved DEF Goal
<1>4. ASSUME NEW w \in Workers, CloseConn(w) PROVE Goal
  <2>1. /\ pc[w] # "idle" /\ pc[w] \notin Pushing /\ pc'[w] \notin Pushing
        /\ pc'[w] # "idle" => pkt'[w] = pkt[w]
    BY <1>4 DEF CloseConn, Done, Goto, TypeOK, Pushing
  <2>2. UNCHANGED Resetting
    BY <1>4, <2>1, OneMoves, ResettingOwn
  <2>. QED  BY <1>4, <2>2, CloseEntries, VerdictsForgotten DEF Goal
<1>5. ASSUME NEW w \in Workers, Lookup(w) PROVE Goal
  <2>1. /\ pc[w] # "idle" /\ pc[w] \notin Pushing /\ pc'[w] \notin Pushing
        /\ pc'[w] # "idle" => pkt'[w] = pkt[w]
        /\ UNCHANGED tables
    BY <1>5 DEF Lookup, Done, Goto, TypeOK, Pushing
  <2>. QED  BY <1>2, <1>5, <2>1, OneMoves
<1>6. ASSUME NEW w \in Workers, RegisterSyn(w) PROVE Goal
  <2>1. /\ pc[w] # "idle" /\ pc[w] \notin Pushing /\ pc'[w] = "idle"
    BY <1>6 DEF RegisterSyn, Done, Goto, TypeOK, Pushing
  <2>2. UNCHANGED Resetting
    BY <1>6, <2>1, OneMoves, ResettingOwn DEF Pushing
  <2>3. PICK c \in Conns : c = pkt[w].conn
    BY <1>0, <2>1
  <2>4. CASE In(pending)' = In(pending)
    <3>1. Verdicted' = Verdicted
      BY <1>6, <2>4, SynEntries DEF Verdicted, Verdict
    <3>2. QED
      BY <2>2, <3>1 DEF Goal
  <2>5. CASE In(pending)' # In(pending)
    <3>1. /\ pkt[w].conn \notin In(allowed) \cup In(blocked) \cup In(pending)
          /\ pkt[w].conn \in In(pending)'
      BY <1>6, <2>5, SynEntries
    <3>2. Verdict(c) = "none" /\ Verdict(c)' = "pending"
      BY <2>3, <3>1, VerdictMeans, VerdictMeansNext
    <3>3. Verdicted' = [Verdicted EXCEPT ![c] = Verdict(c)']
      BY <1>6, <2>3, SynEntries, VerdictGiven
    <3>4. Filter!Await(c)
      BY <2>2, <3>2, <3>3 DEF Filter!Await, Filter!Give, Verdicted, Resetting
    <3>5. QED
      BY <3>4 DEF Goal, Filter!Next
  <2>. QED  BY <2>4, <2>5
<1>7. ASSUME NEW w \in Workers, CheckBlocked(w) PROVE Goal
  <2>1. pc[w] # "idle" /\ pc[w] \notin Pushing /\ UNCHANGED tables
    BY <1>7 DEF CheckBlocked, Pushing
  <2>2. CASE pkt[w].conn \in In(blocked)
    <3>1. pkt' = pkt /\ pc'[w] \in Pushing
      BY <1>7, <2>2 DEF CheckBlocked, Goto, TypeOK, Pushing
    <3>. QED  BY <1>7, <1>a, <2>1, <2>2, <3>1, OneMoves
  <2>3. CASE pkt[w].conn \notin In(blocked)
    <3>1. pc'[w] \notin Pushing /\ (pc'[w] # "idle" => pkt'[w] = pkt[w])
      BY <1>7, <2>3 DEF CheckBlocked, ByPayload, Done, Goto, TypeOK, Pushing
    <3>. QED  BY <1>2, <1>7, <2>1, <3>1, OneMoves
  <2>. QED  BY <2>2, <2>3
<1>8. ASSUME NEW w \in Workers, Classify(w) \/ CheckMode(w) PROVE Goal
  <2>1. /\ pc[w] # "idle" /\ pc[w] \notin Pushing /\ pc'[w] \notin Pushing
        /\ pkt' = pkt /\ UNCHANGED tables
    BY <1>8 DEF Classify, CheckMode, Goto, TypeOK, Pushing
  <2>. QED  BY <1>2, <1>8, <2>1, OneMoves
<1>9. ASSUME NEW w \in Workers, Block(w) PROVE Goal
  <2>1. pc[w] = "block" /\ pc'[w] \in Pushing /\ pkt' = pkt
    BY <1>9 DEF Block, Goto, TypeOK, Pushing
  <2>2. PICK c \in Conns : c = pkt[w].conn /\ c \notin In(allowed)
    BY <1>0, <2>1 DEF Decided, Looked
  <2>3. Resetting' = Resetting \cup {c}
    BY <1>9, <2>1, <2>2, OneMoves, ResettingOwn
  <2>4. Verdicted' = [Verdicted EXCEPT ![c] = Verdict(c)']
    BY <1>9, <2>2, BlockEntries, VerdictGiven
  <2>5. Verdict(c)' = "blocked"
    BY <1>9, <2>2, BlockEntries, VerdictMeansNext
  <2>6. CASE c \in In(blocked)
    <3>1. Verdict(c) = "blocked"
      BY <2>6, VerdictMeans
    <3>2. Verdicted' = Verdicted
      BY <2>4, <2>5, <3>1 DEF Verdicted
    <3>3. Filter!Reset(c)
      BY <2>3, <3>1, <3>2 DEF Filter!Reset, Verdicted, Resetting
    <3>4. QED
      BY <3>3 DEF Goal, Filter!Next
  <2>7. CASE c \notin In(blocked)
    <3>1. Verdict(c) \in {"none", "pending"}
      BY <2>2, <2>7, VerdictMeans
    <3>2. Filter!Refuse(c)
      BY <2>3, <2>4, <2>5, <3>1
         DEF Filter!Refuse, Filter!Give, Filter!Undecided, Verdicted, Resetting
    <3>3. QED
      BY <3>2 DEF Goal, Filter!Next
  <2>. QED  BY <2>6, <2>7
<1>10. ASSUME NEW w \in Workers, Allow(w) PROVE Goal
  <2>1. pc[w] = "allow" /\ pc'[w] = "idle" /\ pc[w] \notin Pushing
    BY <1>10 DEF Allow, Done, Goto, TypeOK, Pushing
  <2>2. PICK c \in Conns : c = pkt[w].conn /\ c \notin In(allowed) \cup In(blocked)
    BY <1>0, <2>1 DEF Decided, Looked
  <2>3. c \notin Resetting /\ UNCHANGED Resetting
    BY <1>10, <2>1, <2>2, OneMoves, ResettingOwn DEF Pushing
  <2>4. Verdicted' = [Verdicted EXCEPT ![c] = Verdict(c)']
    BY <1>10, <2>2, AllowEntries, VerdictGiven
  <2>5. /\ Verdict(c)' = "allowed"
        /\ Verdict(c) \in {"none", "pending"}
    BY <1>10, <2>2, AllowEntries, VerdictMeans, VerdictMeansNext
  <2>6. Filter!Admit(c)
    BY <2>3, <2>4, <2>5
       DEF Filter!Admit, Filter!Give, Filter!Undecided, Verdicted, Resetting
  <2>. QED  BY <2>6 DEF Goal, Filter!Next
<1>11. ASSUME NEW w \in Workers, CheckPending(w) PROVE Goal
  <2>1. pc[w] # "idle" /\ pc[w] \notin Pushing /\ UNCHANGED tables
    BY <1>11 DEF CheckPending, Pushing
  <2>2. CASE pkt[w].conn \in In(pending)
    <3>1. pkt' = pkt /\ pc'[w] \in Pushing
      BY <1>11, <2>2 DEF CheckPending, Goto, TypeOK, Pushing
    <3>. QED  BY <1>11, <1>a, <2>1, <2>2, <3>1, OneMoves
  <2>3. CASE pkt[w].conn \notin In(pending)
    <3>1. pc'[w] = "idle" /\ pc'[w] \notin Pushing
      BY <1>11, <2>3 DEF CheckPending, Done, Goto, TypeOK, Pushing
    <3>. QED  BY <1>2, <1>11, <2>1, <3>1, OneMoves
  <2>. QED  BY <2>2, <2>3
<1>12. ASSUME NEW w \in Workers, SkipReset(w) \/ PushBackward(w) PROVE Goal
  <2>1. pc[w] \in Pushing /\ pc'[w] = "idle" /\ UNCHANGED tables
    BY <1>12 DEF SkipReset, PushBackward, Done, Goto, TypeOK, Pushing
  <2>. QED  BY <1>12, <1>b, <2>1, OneMoves
<1>13. ASSUME NEW w \in Workers, PushForward(w) PROVE Goal
  <2>1. pc[w] \in Pushing /\ pc'[w] \in Pushing /\ pkt' = pkt /\ UNCHANGED tables
    BY <1>13 DEF PushForward, Goto, TypeOK, Pushing
  <2>2. UNCHANGED Resetting
    BY <1>13, <2>1, OneMoves, ResettingOwn DEF Pushing
  <2>. QED  BY <2>1, <2>2, Unmoved DEF Goal
<1>14. ASSUME NEW lag \in 0 .. MaxLag, Sweep(lag) PROVE Goal
  <2>1. UNCHANGED Resetting
    BY <1>14 DEF Sweep, Resetting, Resetters
  <2>2. QED
    BY <1>14, <2>1, SweepEntries, VerdictsForgotten DEF Goal
<1>15. Tick => Goal
  <2>1. ASSUME Tick PROVE UNCHANGED Resetting
    BY <2>1 DEF Tick, Resetting, Resetters
  <2>2. QED
    BY <2>1, TickEntries, VerdictsForgotten DEF Goal
<1>16. UNCHANGED vars => Goal
  BY <1>1 DEF vars, tables
<1>17. Goal
  BY <1>1, <1>3, <1>4, <1>5, <1>6, <1>7, <1>8, <1>9, <1>10, <1>11, <1>12, <1>13, <1>14,
     <1>15, <1>16, StepCases, Zenon DEF AnswerQuic, ChangeFilter, Send
<1>18. QED
  BY <1>17 DEF Goal

(* While the workers stay apart, what the tracker does to the verdicts is  *)
(* what the abstract filter may do, however many workers there are:        *)
(* packet_processor.cpp:365-509, watcher.cpp:42-62.                        *)
THEOREM ApartWorkersFilter == Spec /\ []Apart => ImplementsFilter
<1>1. Spec /\ []Apart => [](Good /\ Decided)
  <2>1. Decided => VerdictsDisjoint
    BY DEF Decided
  <2>. QED
    BY <2>1, DecidedInit, DecidedStep, TypeCorrect, PendingIsExclusive, PTL DEF Spec, Good
<1>2. Init => Filter!Init
  BY DEF Init, Filter!Init, Verdict, In, Resetters
<1>3. Good /\ Decided /\ Apart /\ Good' /\ [Next]_vars => [Filter!Next]_(Filter!vars)
  BY FilterStep DEF Filter!vars, Verdicted, Resetting
<1>4. QED
  BY <1>1, <1>2, <1>3, PTL DEF Spec, ImplementsFilter, Filter!Spec

(* With one worker it always is.                                           *)
THEOREM SingleWorkerFilters ==
  ASSUME NEW w, Workers = {w}
  PROVE  Spec => ImplementsFilter
BY SingleApart, ApartWorkersFilter, PTL
=============================================================================
