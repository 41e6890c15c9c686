----------------------- MODULE CapturePipelineProofs -----------------------
(***************************************************************************)
(* Theorems about CapturePipeline, for any number of workers, any supply   *)
(* of buffers and any start of the pool, whether the port refuses or not.  *)
(***************************************************************************)
EXTENDS CapturePipeline, SequenceTheorems, TLAPS

(* What the three ways of changing a list of buffers do to it.             *)
LEMMA AppendBuffer ==
  ASSUME NEW s \in Seq(Buffers), NEW b \in Buffers
  PROVE  /\ Append(s, b) \in Seq(Buffers)
         /\ ToSet(Append(s, b)) = ToSet(s) \cup {b}
         /\ IsInjective(s) /\ b \notin ToSet(s) => IsInjective(Append(s, b))
<1>1. /\ Append(s, b) \in Seq(Buffers) /\ Len(s) \in Nat
      /\ DOMAIN s = 1 .. Len(s) /\ DOMAIN Append(s, b) = 1 .. Len(s) + 1
      /\ \A i \in 1 .. Len(s) : Append(s, b)[i] = s[i]
      /\ Append(s, b)[Len(s) + 1] = b
  OBVIOUS
<1>2. 1 .. Len(s) + 1 = (1 .. Len(s)) \cup {Len(s) + 1}
  BY <1>1
<1>3. ToSet(Append(s, b)) = ToSet(s) \cup {b}
  BY <1>1, <1>2, Zenon DEF ToSet
<1>4. ASSUME IsInjective(s), b \notin ToSet(s) PROVE IsInjective(Append(s, b))
  <2>1. \A i \in 1 .. Len(s) : s[i] # b
    BY <1>1, <1>4 DEF ToSet
  <2>2. QED
    BY <1>1, <1>2, <1>4, <2>1 DEF IsInjective
<1>5. QED
  BY <1>1, <1>3, <1>4

LEMMA TailBuffers ==
  ASSUME NEW s \in Seq(Buffers), s # <<>>
  PROVE  /\ Head(s) \in Buffers /\ Head(s) \in ToSet(s)
         /\ Tail(s) \in Seq(Buffers)
         /\ ToSet(Tail(s)) \subseteq ToSet(s)
         /\ IsInjective(s) => IsInjective(Tail(s)) /\ Head(s) \notin ToSet(Tail(s))
<1>1. /\ Head(s) = s[1] /\ Head(s) \in Buffers
      /\ Tail(s) \in Seq(Buffers) /\ Len(s) \in Nat \ {0} /\ Len(Tail(s)) = Len(s) - 1
      /\ DOMAIN s = 1 .. Len(s) /\ DOMAIN Tail(s) = 1 .. Len(s) - 1
      /\ \A i \in 1 .. Len(s) - 1 : Tail(s)[i] = s[i + 1] /\ i + 1 \in 1 .. Len(s)
      /\ 1 \in 1 .. Len(s)
  BY HeadTailProperties
<1>2. ToSet(Tail(s)) \subseteq ToSet(s)
  BY <1>1 DEF ToSet
<1>3. ASSUME IsInjective(s) PROVE IsInjective(Tail(s)) /\ Head(s) \notin ToSet(Tail(s))
  <2>1. \A i \in 1 .. Len(s) - 1 : s[i + 1] # s[1]
    BY <1>1, <1>3 DEF IsInjective
  <2>2. Head(s) \notin ToSet(Tail(s))
    BY <1>1, <2>1 DEF ToSet
  <2>3. IsInjective(Tail(s))
    BY <1>1, <1>3 DEF IsInjective
  <2>4. QED
    BY <2>2, <2>3
<1>4. QED
  BY <1>1, <1>2, <1>3 DEF ToSet

LEMMA FrontBuffers ==
  ASSUME NEW s \in Seq(Buffers), s # <<>>
  PROVE  /\ Last(s) \in Buffers /\ Last(s) \in ToSet(s)
         /\ Front(s) \in Seq(Buffers)
         /\ ToSet(Front(s)) \subseteq ToSet(s)
         /\ IsInjective(s) => IsInjective(Front(s)) /\ Last(s) \notin ToSet(Front(s))
<1>1. /\ Len(s) \in Nat \ {0} /\ DOMAIN s = 1 .. Len(s) /\ Last(s) = s[Len(s)]
      /\ Len(s) \in 1 .. Len(s)
      /\ \A i \in 1 .. Len(s) : s[i] \in Buffers
  BY DEF Last
<1>2. /\ Front(s) \in Seq(Buffers) /\ DOMAIN Front(s) = 1 .. Len(s) - 1
      /\ \A i \in 1 .. Len(s) - 1 : Front(s)[i] = s[i] /\ i \in 1 .. Len(s)
  BY <1>1, SubSeqProperties DEF Front
<1>3. ToSet(Front(s)) \subseteq ToSet(s)
  BY <1>1, <1>2 DEF ToSet
<1>4. ASSUME IsInjective(s) PROVE IsInjective(Front(s)) /\ Last(s) \notin ToSet(Front(s))
  <2>1. \A i \in 1 .. Len(s) - 1 : s[i] # s[Len(s)]
    BY <1>1, <1>2, <1>4 DEF IsInjective
  <2>2. Last(s) \notin ToSet(Front(s))
    BY <1>1, <1>2, <2>1 DEF ToSet
  <2>3. IsInjective(Front(s))
    BY <1>1, <1>2, <1>4 DEF IsInjective
  <2>4. QED
    BY <2>2, <2>3
<1>5. QED
  BY <1>1, <1>2, <1>3, <1>4 DEF ToSet

(* The frames in a list of buffers.                                        *)
LEMMA FramesIn ==
  ASSUME NEW S, NEW contents \in [Buffers -> S], NEW s \in Seq(Buffers)
  PROVE  /\ [i \in DOMAIN s |-> contents[s[i]]] \in Seq(S)
         /\ Len([i \in DOMAIN s |-> contents[s[i]]]) = Len(s)
<1>1. DOMAIN s = 1 .. Len(s) /\ Len(s) \in Nat /\ \A i \in 1 .. Len(s) : s[i] \in Buffers
  OBVIOUS
<1>2. [i \in 1 .. Len(s) |-> contents[s[i]]] \in [1 .. Len(s) -> S]
  BY <1>1
<1>3. [i \in 1 .. Len(s) |-> contents[s[i]]] \in Seq(S)
  BY <1>1, <1>2, SeqDef
<1>4. QED
  BY <1>1, <1>3, LenProperties

-----------------------------------------------------------------------------
(* Types.                                                                  *)

LEMMA TypeInit == Init => TypeOK
<1> SUFFICES ASSUME Init PROVE TypeOK
  OBVIOUS
<1>1. ToSet(port) = {} /\ Working = {}
  BY DEF Init, ToSet, Working
<1>2. filled \in BOOLEAN /\ (filled => filling # NoBuffer /\ data[filling] \in Frame)
  BY Zenon DEF Init
<1>3. QED
  BY <1>1, <1>2, PipelineAssumption DEF Init, TypeOK

LEMMA TypeStep == TypeOK /\ SingleOwner /\ [Next]_vars => TypeOK'
<1> SUFFICES ASSUME TypeOK, SingleOwner, [Next]_vars PROVE TypeOK'
  OBVIOUS
<1> USE PipelineAssumption
<1>1. CASE Acquire
  BY <1>1, FrontBuffers DEF Acquire, TypeOK, Working
<1>2. CASE AcquireNew
  BY <1>2 DEF AcquireNew, TypeOK, Working
<1>3. CASE Drop
  BY <1>3 DEF Drop, vars, TypeOK, Working
<1>4. ASSUME NEW f \in Frame, SetData(f) PROVE TypeOK'
  <2>1. data' \in [Buffers -> Frame \cup {NoFrame}] /\ data'[filling] = f
    BY <1>4 DEF SetData, TypeOK
  <2>2. \A b \in ToSet(port) \cup Working : b \in Buffers /\ data'[b] \in Frame
    <3>1. \A b \in ToSet(port) \cup Working : b \in Buffers
      BY DEF TypeOK, ToSet, Working
    <3>2. QED
      BY <1>4, <3>1 DEF SetData, TypeOK
  <2>3. QED
    BY <1>4, <2>1, <2>2 DEF SetData, TypeOK, Working
<1>5. CASE Post
  <2>1. filled' \in BOOLEAN
        /\ (filled' => filling' # NoBuffer /\ data'[filling'] \in Frame)
    BY <1>5, Zenon DEF Post, HandlerDone
  <2>2. filling \in Buffers /\ data[filling] \in Frame
    BY <1>5 DEF Post, TypeOK
  <2>3. port' \in Seq(Buffers) /\ ToSet(port)' = ToSet(port) \cup {filling}
    BY <1>5, <2>2, AppendBuffer DEF Post, TypeOK
  <2>4. Working' = Working /\ data' = data
    BY <1>5 DEF Post, Working
  <2>5. QED
    BY <1>5, <2>1, <2>2, <2>3, <2>4 DEF Post, HandlerDone, TypeOK
<1>6. CASE PostFails
  <2>1. filled' \in BOOLEAN
        /\ (filled' => filling' # NoBuffer /\ data'[filling'] \in Frame)
    BY <1>6, Zenon DEF PostFails, HandlerDone
  <2>2. QED
    BY <1>6, <2>1 DEF PostFails, HandlerDone, TypeOK, Working
<1>7. ASSUME NEW w \in Workers, Get(w) PROVE TypeOK'
  <2>1. /\ Head(port) \in ToSet(port) /\ Head(port) \in Buffers
        /\ Tail(port) \in Seq(Buffers) /\ ToSet(Tail(port)) \subseteq ToSet(port)
    BY <1>7, TailBuffers DEF Get, TypeOK
  <2>2. Working' \subseteq Working \cup {Head(port)}
    BY <1>7, <2>1 DEF Get, TypeOK, Working
  <2>3. QED
    BY <1>7, <2>1, <2>2 DEF Get, TypeOK
<1>8. ASSUME NEW w \in Workers, Release(w) PROVE TypeOK'
  <2>1. held' \in [Workers -> Buffers \cup {NoBuffer}]
    BY <1>8 DEF Release, TypeOK
  <2>2. \A v \in Workers : held'[v] \in {held[v], NoBuffer}
    BY <1>8 DEF Release, TypeOK
  <2>3. Working' \subseteq Working
    BY <2>2 DEF Working
  <2>4. pool' \in Seq(Buffers)
    BY <1>8, AppendBuffer DEF Release, TypeOK
  <2>5. QED
    BY <1>8, <2>1, <2>3, <2>4 DEF Release, TypeOK
<1>9. CASE UNCHANGED vars
  BY <1>9 DEF vars, TypeOK, Working
<1>10. QED
  BY <1>1, <1>2, <1>3, <1>4, <1>5, <1>6, <1>7, <1>8, <1>9 DEF Next, Capture, Worker

-----------------------------------------------------------------------------
(* Ownership.                                                              *)

(* SingleOwner, pair by pair.                                              *)
Apart ==
  /\ ToSet(pool) \cap ToSet(port) = {} /\ ToSet(pool) \cap Working = {}
  /\ ToSet(pool) \cap Inside(filling) = {} /\ ToSet(pool) \cap fresh = {}
  /\ ToSet(port) \cap Working = {} /\ ToSet(port) \cap Inside(filling) = {}
  /\ ToSet(port) \cap fresh = {} /\ Working \cap Inside(filling) = {}
  /\ Working \cap fresh = {} /\ Inside(filling) \cap fresh = {}
  /\ IsInjective(pool) /\ IsInjective(port)
  /\ \A v, w \in Workers : held[v] = held[w] /\ held[v] # NoBuffer => v = w

LEMMA OwnerApart == SingleOwner <=> Apart
<1>1. /\ DOMAIN Places = 1 .. 5
      /\ Places[1] = ToSet(pool) /\ Places[2] = ToSet(port) /\ Places[3] = Working
      /\ Places[4] = Inside(filling) /\ Places[5] = fresh
  BY DEF Places
<1>2. (\A i, j \in 1 .. 5 : i # j => Places[i] \cap Places[j] = {}) <=>
        \A i, j \in 1 .. 5 : i < j => Places[i] \cap Places[j] = {}
  OBVIOUS
<1>3. SingleOwner => Apart
  BY <1>1 DEF SingleOwner, Apart
<1>4. Apart => \A i, j \in 1 .. 5 : i < j => Places[i] \cap Places[j] = {}
  <2>1. \A i, j \in 1 .. 5 : i < j =>
          \/ i = 1 /\ j \in 2 .. 5
          \/ i = 2 /\ j \in 3 .. 5
          \/ i = 3 /\ j \in 4 .. 5
          \/ i = 4 /\ j = 5
    OBVIOUS
  <2>2. QED
    BY <1>1, <2>1 DEF Apart
<1>5. Apart => SingleOwner
  BY <1>1, <1>2, <1>4 DEF SingleOwner, Apart
<1>6. QED
  BY <1>3, <1>5

LEMMA OwnerInit == Init => SingleOwner
<1>1. Init => Apart
  BY PipelineAssumption DEF Init, Apart, Working, Inside, ToSet, IsInjective
<1>2. QED
  BY <1>1, OwnerApart

LEMMA OwnerStep == TypeOK /\ SingleOwner /\ [Next]_vars => SingleOwner'
<1> SUFFICES ASSUME TypeOK, Apart, [Next]_vars PROVE Apart'
  BY OwnerApart, PTL
<1> USE PipelineAssumption
<1>1. CASE Acquire
  <2>1. /\ Last(pool) \in Buffers /\ Last(pool) \in ToSet(pool)
        /\ ToSet(pool)' \subseteq ToSet(pool) /\ Last(pool) \notin ToSet(pool)'
        /\ IsInjective(pool)'
    BY <1>1, FrontBuffers DEF Acquire, TypeOK, Apart
  <2>2. Inside(filling)' = {Last(pool)} /\ Working' = Working
    BY <1>1, <2>1 DEF Acquire, Inside, Working
  <2>3. QED
    BY <1>1, <2>1, <2>2 DEF Acquire, Apart
<1>2. CASE AcquireNew
  <2>1. PICK b \in fresh : filling' = b /\ fresh' = fresh \ {b}
    BY <1>2 DEF AcquireNew
  <2>2. Inside(filling)' = {b} /\ Working' = Working
    BY <1>2, <2>1 DEF AcquireNew, Inside, Working, TypeOK
  <2>3. QED
    BY <1>2, <2>1, <2>2 DEF AcquireNew, Apart
<1>3. CASE Post
  <2>1. /\ ToSet(port)' = ToSet(port) \cup {filling}
        /\ filling \in Inside(filling)
        /\ IsInjective(port)'
    BY <1>3, AppendBuffer DEF Post, TypeOK, Apart, Inside
  <2>2. Inside(filling)' = {} /\ Working' = Working
    BY <1>3 DEF Post, HandlerDone, Inside, Working
  <2>3. QED
    BY <1>3, <2>1, <2>2 DEF Post, Apart
<1>4. CASE PostFails
  <2>1. Inside(filling)' = {} /\ Working' = Working
    BY <1>4 DEF PostFails, HandlerDone, Inside, Working
  <2>2. QED
    BY <1>4, <2>1 DEF PostFails, Apart
<1>5. ASSUME NEW w \in Workers, Get(w) PROVE Apart'
  <2>1. /\ Head(port) \in Buffers /\ Head(port) \in ToSet(port)
        /\ ToSet(port)' \subseteq ToSet(port) /\ Head(port) \notin ToSet(port)'
        /\ IsInjective(port)'
    BY <1>5, TailBuffers DEF Get, TypeOK, Apart
  <2>2. Working' = Working \cup {Head(port)}
    BY <1>5, <2>1 DEF Get, TypeOK, Working
  <2>3. \A v \in Workers : held[v] # Head(port)
    BY <2>1 DEF Apart, Working
  <2>4. \A u, v \in Workers : held'[u] = held'[v] /\ held'[u] # NoBuffer => u = v
    BY <1>5, <2>3 DEF Get, TypeOK, Apart
  <2>5. QED
    BY <1>5, <2>1, <2>2, <2>4 DEF Get, Apart
<1>6. ASSUME NEW w \in Workers, Release(w) PROVE Apart'
  <2>1. /\ held[w] \in Working /\ held[w] \in Buffers
        /\ ToSet(pool)' = ToSet(pool) \cup {held[w]}
        /\ IsInjective(pool)'
    BY <1>6, AppendBuffer DEF Release, TypeOK, Apart, Working
  <2>2. Working' = Working \ {held[w]}
    BY <1>6 DEF Release, TypeOK, Working, Apart
  <2>3. \A u, v \in Workers : held'[u] = held'[v] /\ held'[u] # NoBuffer => u = v
    BY <1>6 DEF Release, TypeOK, Apart
  <2>4. QED
    BY <1>6, <2>1, <2>2, <2>3 DEF Release, Apart
<1>7. ASSUME UNCHANGED <<pool, fresh, filling, port, held>> PROVE Apart'
  BY <1>7 DEF Apart, Working, Inside
<1>8. QED
  BY <1>1, <1>2, <1>3, <1>4, <1>5, <1>6, <1>7
     DEF Next, Capture, Worker, Drop, SetData, vars

LEMMA Invariance == Spec => [](TypeOK /\ SingleOwner)
BY TypeInit, TypeStep, OwnerInit, OwnerStep, PTL DEF Spec

(* Every variable keeps its type, and what waits or is worked on is a      *)
(* frame.                                                                  *)
THEOREM TypeCorrect == Spec => []TypeOK
BY Invariance, PTL

(* No buffer is ever in two places: no frame is overwritten while a worker *)
(* can still read it, and no buffer is released twice.                     *)
THEOREM BuffersHaveOneOwner == Spec => []SingleOwner
BY Invariance, PTL

-----------------------------------------------------------------------------
(* The pipeline is a FIFO of frames.                                       *)

LEMMA FramesInit == Init => Frames!Init
<1> SUFFICES ASSUME Init PROVE Frames!Init
  OBVIOUS
<1>1. [i \in DOMAIN port |-> data[port[i]]] = <<>>
  BY DEF Init
<1>2. QED
  BY <1>1 DEF Init, Frames!Init, Contents

LEMMA FramesStep ==
  TypeOK /\ SingleOwner /\ [Next]_vars =>
    [Frames!Next]_<<[i \in DOMAIN port |-> data[port[i]]],
                    [w \in Workers |-> Contents(held[w])]>>
<1> DEFINE posted == [i \in DOMAIN port |-> data[port[i]]]
           working == [w \in Workers |-> Contents(held[w])]
<1> SUFFICES ASSUME TypeOK, SingleOwner, [Next]_vars
             PROVE  Frames!Next \/ UNCHANGED <<posted, working>>
  OBVIOUS
<1>0. posted \in Seq(Frame \cup {NoFrame}) /\ Len(posted) = Len(port)
  <2>1. port \in Seq(Buffers) /\ data \in [Buffers -> Frame \cup {NoFrame}]
    BY DEF TypeOK
  <2>2. QED
    BY <2>1, FramesIn
<1> USE PipelineAssumption
<1>1. ASSUME UNCHANGED <<port, held, data>> PROVE UNCHANGED <<posted, working>>
  BY <1>1 DEF Contents
<1>2. ASSUME NEW f \in Frame, SetData(f) PROVE UNCHANGED <<posted, working>>
  <2>1. /\ filling \notin ToSet(port) /\ filling \notin Working
        /\ filling \in Buffers
    BY <1>2, OwnerApart DEF SetData, Apart, Inside, TypeOK
  <2>2. \A b \in Buffers : b # filling => data'[b] = data[b]
    BY <1>2 DEF SetData, TypeOK
  <2>3. \A i \in DOMAIN port : data'[port[i]] = data[port[i]]
    BY <2>1, <2>2 DEF ToSet, TypeOK
  <2>4. \A w \in Workers : held[w] # NoBuffer => data'[held[w]] = data[held[w]]
    BY <2>1, <2>2 DEF Working, TypeOK
  <2>5. QED
    BY <1>2, <2>3, <2>4 DEF SetData, Contents
<1>3. CASE Post
  <2>1. filling \in Buffers /\ data[filling] \in Frame
    BY <1>3 DEF Post, TypeOK
  <2>2. posted' = Append(posted, data[filling])
    <3>1. /\ port' = Append(port, filling) /\ data' = data
          /\ port \in Seq(Buffers)
      BY <1>3 DEF Post, TypeOK
    <3>3. /\ Append(posted, data[filling]) \in Seq(Frame \cup {NoFrame})
          /\ Len(Append(posted, data[filling])) = Len(port) + 1
          /\ \A i \in 1 .. Len(port) : Append(posted, data[filling])[i] = data[port[i]]
          /\ Append(posted, data[filling])[Len(port) + 1] = data[filling]
      BY <1>0, <2>1, <3>1
    <3>4. /\ Len(port') = Len(port) + 1 /\ Len(port) \in Nat
          /\ port' \in Seq(Buffers)
          /\ \A i \in 1 .. Len(port) : port'[i] = port[i]
          /\ port'[Len(port) + 1] = filling
      BY <2>1, <3>1
    <3>5. /\ posted' \in Seq(Frame \cup {NoFrame}) /\ Len(posted') = Len(port) + 1
          /\ \A i \in 1 .. Len(port) + 1 : posted'[i] = data[port'[i]]
      BY <3>1, <3>4 DEF TypeOK
    <3>6. \A i \in 1 .. Len(port) + 1 : i \in 1 .. Len(port) \/ i = Len(port) + 1
      BY <3>4
    <3> HIDE DEF posted
    <3>7. \A i \in 1 .. Len(posted') : posted'[i] = Append(posted, data[filling])[i]
      BY <3>3, <3>4, <3>5, <3>6
    <3>8. QED
      BY <3>3, <3>5, <3>7, SeqEqual
  <2>3. working' = working
    BY <1>3 DEF Post, Contents
  <2>4. QED
    BY <2>1, <2>2, <2>3 DEF Frames!Next, Frames!Capture
<1>4. ASSUME NEW w \in Workers, Get(w) PROVE Frames!Next
  <2>1. /\ port \in Seq(Buffers) /\ port # <<>> /\ port' = Tail(port) /\ data' = data
        /\ Head(port) = port[1] /\ Head(port) \in Buffers
    BY <1>4 DEF Get, TypeOK
  <2>3. posted # <<>> /\ Head(posted) = data[Head(port)] /\ posted' = Tail(posted)
    <3>1. /\ Len(port) \in Nat \ {0} /\ Len(Tail(port)) = Len(port) - 1
          /\ Tail(port) \in Seq(Buffers)
          /\ \A i \in 1 .. Len(port) - 1 : Tail(port)[i] = port[i + 1]
      BY <2>1, HeadTailProperties
    <3>2. /\ posted # <<>> /\ posted[1] = data[port[1]]
      BY <1>0, <2>1, <3>1
    <3>3. /\ Tail(posted) \in Seq(Frame \cup {NoFrame})
          /\ Len(Tail(posted)) = Len(port) - 1
          /\ \A i \in 1 .. Len(port) - 1 : Tail(posted)[i] = posted[i + 1]
          /\ Head(posted) = posted[1]
      BY <1>0, <3>2, HeadTailProperties
    <3>4. \A i \in 1 .. Len(port) - 1 : posted[i + 1] = data[port[i + 1]]
      BY <2>1, <3>1
    <3>5. /\ posted' \in Seq(Frame \cup {NoFrame}) /\ Len(posted') = Len(port) - 1
          /\ \A i \in 1 .. Len(port) - 1 : posted'[i] = data[Tail(port)[i]]
      BY <2>1, <3>1 DEF TypeOK
    <3> HIDE DEF posted
    <3>6. \A i \in 1 .. Len(posted') : posted'[i] = Tail(posted)[i]
      BY <3>1, <3>3, <3>4, <3>5
    <3>7. posted' = Tail(posted)
      BY <3>3, <3>5, <3>6, SeqEqual
    <3>8. QED
      BY <2>1, <3>2, <3>3, <3>7
  <2>4. working[w] = NoFrame /\ working' = [working EXCEPT ![w] = Head(posted)]
    BY <1>4, <2>1, <2>3 DEF Get, TypeOK, Contents
  <2>5. QED
    BY <2>3, <2>4 DEF Frames!Next, Frames!Take
<1>5. ASSUME NEW w \in Workers, Release(w) PROVE Frames!Next
  <2>1. held[w] \in Working /\ held[w] \in Buffers
    BY <1>5 DEF Release, TypeOK, Working
  <2>2. working[w] # NoFrame
    BY <1>5, <2>1 DEF Release, TypeOK, Contents
  <2>3. working' = [working EXCEPT ![w] = NoFrame] /\ posted' = posted
    BY <1>5 DEF Release, TypeOK, Contents
  <2>4. QED
    BY <2>2, <2>3 DEF Frames!Next, Frames!Finish
<1>6. QED
  BY <1>1, <1>2, <1>3, <1>4, <1>5
     DEF Next, Capture, Worker, Acquire, AcquireNew, Drop, PostFails, vars

(* Behind the pool, the completion port and the raw pointers, the pipeline *)
(* delivers the posted frames in order, each unchanged and to one worker.  *)
THEOREM PipelineDeliversFrames == Spec => DeliversFrames
BY Invariance, FramesInit, FramesStep, PTL DEF Spec, DeliversFrames, Frames!Spec
=============================================================================
