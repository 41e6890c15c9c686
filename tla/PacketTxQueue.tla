--------------------------- MODULE PacketTxQueue ---------------------------
(***************************************************************************)
(* The outbound queue of FocusGuard with its mutex and its condition       *)
(* variable, the worker threads that push forged packets, the one sender   *)
(* thread that pops and sends them, and the end of main, which stops the   *)
(* queue and closes the capture handle.                                    *)
(*                                                                         *)
(* A push holds the mutex for one critical section, which is one action    *)
(* guarded by the mutex being free; it notifies after it has let go.  The  *)
(* sender's wait is taken apart: it tests its condition, and only then     *)
(* joins the waiters of the condition variable and lets go of the mutex.   *)
(* Stop does not take the mutex.                                           *)
(*                                                                         *)
(* A definition that stands just before another and that nothing uses is a *)
(* faulty variant of it, which a property has to be able to tell from it.  *)
(***************************************************************************)
EXTENDS Naturals, Sequences

CONSTANTS
  Pushers,    \* the worker threads
  RawPacket,  \* the forged packets
  NoPacket,   \* the value of outPkt while the sender holds none
  Capacity,   \* max_capacity_, 4096 in the program
  MayEnd      \* whether pcap_loop may return: a live capture ends on an error only

ASSUME QueueAssumption ==
  /\ NoPacket \notin RawPacket
  /\ Capacity \in Nat \ {0}
  /\ MayEnd \in BOOLEAN

VARIABLES
  queue,      \* queue_
  locked,     \* whether the sender holds mtx_
  stopped,    \* stopped_
  outPkt,     \* pkt of packet_sender_func
  sender,     \* where the sender thread is
  pushing,    \* where each worker is in Push
  main        \* where main is after the start-up

vars == <<queue, locked, stopped, outPkt, sender, pushing, main>>

Fifo == INSTANCE OutboundFifo

TypeOK ==
  /\ queue \in Seq(RawPacket)
  /\ Len(queue) <= Capacity
  /\ locked \in BOOLEAN
  /\ locked <=> sender \in {"test", "park", "take"}
  /\ stopped \in BOOLEAN
  /\ stopped <=> main # "capture"
  /\ outPkt \in RawPacket \cup {NoPacket}
  /\ sender \in {"lock", "test", "park", "parked", "take", "send", "gone"}
  /\ outPkt # NoPacket <=> sender = "send"
  /\ pushing \in [Pushers -> {"idle", "notify"}]
  /\ main \in {"capture", "notify", "close", "closed"}

Init ==
  /\ queue = <<>>
  /\ locked = FALSE
  /\ stopped = FALSE
  /\ outPkt = NoPacket
  /\ sender = "lock"
  /\ pushing = [w \in Pushers |-> "idle"]
  /\ main = "capture"
-----------------------------------------------------------------------------
(* PacketTxQueue::Push, the critical section and then notify_one.          *)
Push(w, p) ==
  /\ pushing[w] = "idle"
  /\ ~locked
  /\ Fifo!Push(p)
  /\ pushing' = [pushing EXCEPT ![w] = "notify"]
  /\ UNCHANGED <<locked, stopped, outPkt, sender, main>>

(* A notification wakes the sender if it waits and is lost if it does not. *)
Wake == sender' = IF sender = "parked" THEN "lock" ELSE sender

NotifyNobody(w) ==
  /\ pushing[w] = "notify"
  /\ pushing' = [pushing EXCEPT ![w] = "idle"]
  /\ UNCHANGED <<queue, locked, stopped, outPkt, sender, main>>
Notify(w) ==
  /\ pushing[w] = "notify"
  /\ Wake
  /\ pushing' = [pushing EXCEPT ![w] = "idle"]
  /\ UNCHANGED <<queue, locked, stopped, outPkt, main>>
-----------------------------------------------------------------------------
(* PacketTxQueue::Pop, called in a loop by packet_sender_func.             *)
Lock ==
  /\ sender = "lock"
  /\ locked' = TRUE
  /\ sender' = "test"
  /\ UNCHANGED <<queue, stopped, outPkt, pushing, main>>

(* The predicate of the wait.                                              *)
TestLettingGo ==
  /\ sender = "test"
  /\ sender' = IF queue # <<>> \/ stopped THEN "take" ELSE "park"
  /\ locked' = (queue # <<>> \/ stopped)
  /\ UNCHANGED <<queue, stopped, outPkt, pushing, main>>
Test ==
  /\ sender = "test"
  /\ sender' = IF queue # <<>> \/ stopped THEN "take" ELSE "park"
  /\ UNCHANGED <<queue, locked, stopped, outPkt, pushing, main>>

(* cv_.wait joins the waiters and unlocks the mutex in one step.           *)
Park ==
  /\ sender = "park"
  /\ sender' = "parked"
  /\ locked' = FALSE
  /\ UNCHANGED <<queue, stopped, outPkt, pushing, main>>

(* A wait may also end for no reason.                                      *)
SpuriousWake ==
  /\ sender = "parked"
  /\ sender' = "lock"
  /\ UNCHANGED <<queue, locked, stopped, outPkt, pushing, main>>

(* The wait is over: the stopped queue is given up when it is empty, else  *)
(* its front is taken.                                                     *)
TakeLast ==
  /\ sender = "take"
  /\ locked' = FALSE
  /\ \/ /\ stopped /\ queue = <<>>
        /\ sender' = "gone"
        /\ UNCHANGED <<queue, outPkt>>
     \/ /\ queue # <<>>
        /\ outPkt' = queue[Len(queue)]
        /\ queue' = SubSeq(queue, 1, Len(queue) - 1)
        /\ sender' = "send"
  /\ UNCHANGED <<stopped, pushing, main>>
Take ==
  /\ sender = "take"
  /\ locked' = FALSE
  /\ \/ /\ stopped /\ queue = <<>>
        /\ sender' = "gone"
        /\ UNCHANGED <<queue, outPkt>>
     \/ /\ Fifo!Pop
        /\ outPkt' = Head(queue)
        /\ sender' = "send"
  /\ UNCHANGED <<stopped, pushing, main>>

(* pcap_sendpacket.                                                        *)
Send ==
  /\ sender = "send"
  /\ sender' = "lock"
  /\ outPkt' = NoPacket
  /\ UNCHANGED <<queue, locked, stopped, pushing, main>>
-----------------------------------------------------------------------------
(* The end of main: Stop sets the flag, then notifies; then the handle is  *)
(* closed.  The sender thread is detached: main does not wait for it, and  *)
(* the threads go on until main has returned and the process is gone.      *)
StopStore ==
  /\ MayEnd
  /\ main = "capture"
  /\ stopped' = TRUE
  /\ main' = "notify"
  /\ UNCHANGED <<queue, locked, outPkt, sender, pushing>>

StopNotify ==
  /\ main = "notify"
  /\ Wake
  /\ main' = "close"
  /\ UNCHANGED <<queue, locked, stopped, outPkt, pushing>>

Close ==
  /\ main = "close"
  /\ main' = "closed"
  /\ UNCHANGED <<queue, locked, stopped, outPkt, sender, pushing>>
-----------------------------------------------------------------------------
Pusher(w) == (\E p \in RawPacket : Push(w, p)) \/ Notify(w)
Sender == Lock \/ Test \/ Park \/ Take \/ Send
Main == StopStore \/ StopNotify \/ Close

Next == (\E w \in Pushers : Pusher(w)) \/ Sender \/ SpuriousWake \/ Main

Spec == Init /\ [][Next]_vars

(* The threads are scheduled.  Nothing makes a worker push, a wait end for *)
(* no reason, or the capture end; a Stop that has begun goes on.           *)
FairSpec ==
  /\ Spec
  /\ WF_vars(Sender)
  /\ \A w \in Pushers : WF_vars(Notify(w))
  /\ WF_vars(StopNotify \/ Close)
-----------------------------------------------------------------------------
(* Properties.                                                             *)

(* The queue is a bounded FIFO that drops its oldest packet at the limit,  *)
(* whatever the threads and Stop do.                                       *)
ImplementsFifo == Fifo!Spec

(* While the capture runs, the sender keeps draining the queue: it does    *)
(* not sleep through the pushes of the workers.                            *)
KeepsDraining == []~stopped => Fifo!Fairness

(* The sender does not sleep on a packet: if it waits while the queue has  *)
(* one, a worker is about to notify it (config.h:112-120).                 *)
NoLostPush ==
  sender = "parked" /\ queue # <<>> => \E w \in Pushers : pushing[w] = "notify"
=============================================================================
