-------------------------- MODULE CapturePipeline --------------------------
(***************************************************************************)
(* The way of a captured frame through FocusGuard: packet_handler, called  *)
(* by pcap_loop on the main thread, takes a buffer from the packet pool,   *)
(* copies the frame into it and posts its address to the completion port;  *)
(* a worker gets the address, works on the frame in place and its releaser *)
(* gives the buffer back to the pool when the loop body is left.           *)
(*                                                                         *)
(* The pool's mutex covers Acquire and Release, each one action.  The port *)
(* is external: a queue of addresses that can refuse a post.               *)
(*                                                                         *)
(* A definition that stands just before another and that nothing uses is a *)
(* faulty variant of it, which a property has to be able to tell from it.  *)
(***************************************************************************)
EXTENDS SequencesExt

CONSTANTS
  Workers,    \* the consumer threads
  Buffers,    \* bound: the buffers there is memory for
  Initial,    \* those the pool starts with, 10000 in the program
  Frame,      \* the contents of a frame
  NoFrame,    \* the contents of a buffer that was never filled
  NoBuffer    \* a null pointer

ASSUME PipelineAssumption ==
  /\ NoFrame \notin Frame
  /\ NoBuffer \notin Buffers
  /\ Initial \in Seq(Buffers)
  /\ IsInjective(Initial)

VARIABLES
  pool,       \* pool_, used from its back
  fresh,      \* the buffers not allocated yet
  data,       \* raw_data of each buffer
  filling,    \* pkt of packet_handler
  filled,     \* whether SetData has copied the frame
  port,       \* the addresses in g_hIocp
  held        \* pkt of each worker

vars == <<pool, fresh, data, filling, filled, port, held>>

Init ==
  /\ pool = Initial
  /\ fresh = Buffers \ ToSet(Initial)
  /\ data = [b \in Buffers |-> NoFrame]
  /\ filling = NoBuffer
  /\ filled = FALSE
  /\ port = <<>>
  /\ held = [w \in Workers |-> NoBuffer]
-----------------------------------------------------------------------------
(* PacketPool::Acquire: the last buffer released, or a new one when the    *)
(* pool is empty.  If there is no memory for one the frame is dropped.     *)
AcquireKeeping ==
  /\ filling = NoBuffer
  /\ pool # <<>>
  /\ filling' = Last(pool)
  /\ UNCHANGED <<pool, fresh, data, filled, port, held>>
Acquire ==
  /\ filling = NoBuffer
  /\ pool # <<>>
  /\ filling' = Last(pool)
  /\ pool' = Front(pool)
  /\ UNCHANGED <<fresh, data, filled, port, held>>

AcquireNew ==
  /\ filling = NoBuffer
  /\ pool = <<>>
  /\ \E b \in fresh : filling' = b /\ fresh' = fresh \ {b}
  /\ UNCHANGED <<pool, data, filled, port, held>>

(* No memory for a new buffer: the handler catches bad_alloc and drops the *)
(* frame.                                                                  *)
Drop ==
  /\ filling = NoBuffer
  /\ pool = <<>> /\ fresh = {}
  /\ UNCHANGED vars

(* CapturedPacket::SetData copies the frame out of the capture's memory.   *)
SetData(f) ==
  /\ filling # NoBuffer /\ ~filled
  /\ data' = [data EXCEPT ![filling] = f]
  /\ filled' = TRUE
  /\ UNCHANGED <<pool, fresh, filling, port, held>>

(* PostQueuedCompletionStatus.  The handler does not look at its result:   *)
(* it is done with the buffer whether the port took the address or not.    *)
HandlerDone == filling' = NoBuffer /\ filled' = FALSE

PostUnfilled ==
  /\ filling # NoBuffer
  /\ port' = Append(port, filling)
  /\ HandlerDone
  /\ UNCHANGED <<pool, fresh, data, held>>
Post ==
  /\ filled
  /\ port' = Append(port, filling)
  /\ HandlerDone
  /\ UNCHANGED <<pool, fresh, data, held>>

PostFails ==
  /\ filled
  /\ HandlerDone
  /\ UNCHANGED <<pool, fresh, data, port, held>>
-----------------------------------------------------------------------------
(* GetQueuedCompletionStatus gives the next address to one waiting worker. *)
GetPeeking(w) ==
  /\ held[w] = NoBuffer
  /\ port # <<>>
  /\ held' = [held EXCEPT ![w] = Head(port)]
  /\ port' = Tail(port)
  /\ pool' = Append(pool, Head(port))
  /\ UNCHANGED <<fresh, data, filling, filled>>
Get(w) ==
  /\ held[w] = NoBuffer
  /\ port # <<>>
  /\ held' = [held EXCEPT ![w] = Head(port)]
  /\ port' = Tail(port)
  /\ UNCHANGED <<pool, fresh, data, filling, filled>>

(* ~PktReleaser: every way out of the loop body gives the buffer back.     *)
ReleaseNothing(w) ==
  /\ held[w] # NoBuffer
  /\ held' = [held EXCEPT ![w] = NoBuffer]
  /\ UNCHANGED <<pool, fresh, data, filling, filled, port>>
ReleaseWhenIdle(w) ==
  /\ held[w] # NoBuffer
  /\ port = <<>>
  /\ pool' = Append(pool, held[w])
  /\ held' = [held EXCEPT ![w] = NoBuffer]
  /\ UNCHANGED <<fresh, data, filling, filled, port>>
Release(w) ==
  /\ held[w] # NoBuffer
  /\ pool' = Append(pool, held[w])
  /\ held' = [held EXCEPT ![w] = NoBuffer]
  /\ UNCHANGED <<fresh, data, filling, filled, port>>
-----------------------------------------------------------------------------
Capture ==
  \/ Acquire \/ AcquireNew \/ Drop
  \/ (\E f \in Frame : SetData(f)) \/ Post \/ PostFails
Worker(w) == Get(w) \/ Release(w)

Next == Capture \/ \E w \in Workers : Worker(w)

Spec == Init /\ [][Next]_vars

(* The workers are scheduled; frames need not arrive.                      *)
Fairness == \A w \in Workers : WF_vars(Worker(w))

FairSpec == Spec /\ Fairness
-----------------------------------------------------------------------------
(* Properties.                                                             *)

Inside(value) == {value} \ {NoBuffer}
Working == {held[w] : w \in Workers} \ {NoBuffer}

(* The variables have their types, and a frame is copied into a buffer     *)
(* before it is posted, worked on, or posted again.                        *)
TypeOK ==
  /\ pool \in Seq(Buffers)
  /\ fresh \subseteq Buffers
  /\ data \in [Buffers -> Frame \cup {NoFrame}]
  /\ filling \in Buffers \cup {NoBuffer}
  /\ filled \in BOOLEAN
  /\ filled => filling # NoBuffer /\ data[filling] \in Frame
  /\ port \in Seq(Buffers)
  /\ held \in [Workers -> Buffers \cup {NoBuffer}]
  /\ \A b \in ToSet(port) \cup Working : data[b] \in Frame

(* A buffer is in one place: in the pool, in the capture thread's hands,   *)
(* at the port, with one worker, or not allocated.  So a frame is not      *)
(* overwritten while it waits or is worked on, and no two threads touch    *)
(* one buffer.                                                             *)
Places == <<ToSet(pool), ToSet(port), Working, Inside(filling), fresh>>
SingleOwner ==
  /\ \A i, j \in DOMAIN Places : i # j => Places[i] \cap Places[j] = {}
  /\ IsInjective(pool)
  /\ IsInjective(port)
  /\ \A v, w \in Workers : held[v] = held[w] /\ held[v] # NoBuffer => v = w

(* The pipeline is a FIFO of frames that each reach one worker unchanged.  *)
Contents(b) == IF b = NoBuffer THEN NoFrame ELSE data[b]
Frames == INSTANCE FrameFifo WITH
  posted <- [i \in DOMAIN port |-> data[port[i]]],
  working <- [w \in Workers |-> Contents(held[w])]

DeliversFrames == Frames!Spec

(* A posted frame is taken while a worker is free, and every worker comes  *)
(* back for the next.                                                      *)
KeepsDelivering == Frames!Fairness

(* A buffer at the port comes back to the pool, and another frame can be   *)
(* captured in it.                                                         *)
BuffersReturn == \A b \in Buffers : b \in ToSet(port) ~> b \in ToSet(pool)
=============================================================================
