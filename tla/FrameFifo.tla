----------------------------- MODULE FrameFifo -----------------------------
(***************************************************************************)
(* What the capture pipeline of FocusGuard promises its workers, without   *)
(* buffers: the frames that the capture thread posts reach the workers in  *)
(* the order of the capture, each of them one worker, and a worker's frame *)
(* does not change while it works on it.  CapturePipeline implements this. *)
(***************************************************************************)
EXTENDS Sequences

CONSTANTS Workers, Frame, NoFrame

VARIABLES
  posted,     \* the frames on their way to the workers
  working     \* the frame each worker has

Init ==
  /\ posted = <<>>
  /\ working = [w \in Workers |-> NoFrame]

Capture(f) ==
  /\ posted' = Append(posted, f)
  /\ UNCHANGED working

Take(w) ==
  /\ working[w] = NoFrame
  /\ posted # <<>>
  /\ working' = [working EXCEPT ![w] = Head(posted)]
  /\ posted' = Tail(posted)

Finish(w) ==
  /\ working[w] # NoFrame
  /\ working' = [working EXCEPT ![w] = NoFrame]
  /\ UNCHANGED posted

Next ==
  \/ \E f \in Frame : Capture(f)
  \/ \E w \in Workers : Take(w) \/ Finish(w)

Spec == Init /\ [][Next]_<<posted, working>>

(* A posted frame is taken as long as workers are free for it, and a worker*)
(* comes back for the next.                                                *)
Fairness ==
  /\ WF_<<posted, working>>(\E w \in Workers : Take(w))
  /\ \A w \in Workers : WF_<<posted, working>>(Finish(w))
=============================================================================
