---------------------------- MODULE OutboundFifo ----------------------------
(***************************************************************************)
(* What the outbound queue of FocusGuard promises its users, without its   *)
(* mutex and its condition variable: a bounded FIFO of forged packets.     *)
(* A push always succeeds; when the queue is full it drops the oldest      *)
(* packet to make room (config.h, PacketTxQueue::Push).                    *)
(* PacketTxQueue implements this specification, ConnTracker uses it.       *)
(*                                                                         *)
(* A definition that stands just before another and that nothing uses is a *)
(* faulty variant of it, which a property has to be able to tell from it.  *)
(***************************************************************************)
EXTENDS Naturals, Sequences

CONSTANTS
  Capacity,   \* max_capacity_ of the queue, 4096 in the program
  RawPacket   \* the forged packets

VARIABLE queue

PushedUnlessFull(q, p) == IF Len(q) >= Capacity THEN q ELSE Append(q, p)
PushedUnbounded(q, p) == Append(q, p)
(* What Push leaves behind: at the limit the front is dropped first.       *)
Pushed(q, p) == Append(IF Len(q) >= Capacity THEN Tail(q) ELSE q, p)

Init == queue = <<>>

Push(p) == queue' = Pushed(queue, p)

Pop ==
  /\ queue # <<>>
  /\ queue' = Tail(queue)

Next == (\E p \in RawPacket : Push(p)) \/ Pop

Spec == Init /\ [][Next]_queue

(* The sender thread keeps draining a queue that stays non-empty.          *)
Fairness == WF_queue(Pop)

(* The queue never holds more than Capacity packets.                       *)
TypeOK ==
  /\ queue \in Seq(RawPacket)
  /\ Len(queue) <= Capacity
=============================================================================
