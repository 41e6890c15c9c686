--------------------------- MODULE VerdictFilter ---------------------------
(***************************************************************************)
(* What the connection tracker promises, without its tables, its locks and *)
(* the steps of its worker: a connection is given one verdict, which is    *)
(* forgotten but never turned into the other one, and only connections     *)
(* that wait for a verdict or are blocked are reset.                       *)
(* ConnTracker implements this specification while each connection is with *)
(* one worker at a time.                                                   *)
(***************************************************************************)
CONSTANT Conns

VARIABLES
  verdict,    \* of each connection
  resetting   \* the connections that are being reset

Verdicts == {"none", "pending", "allowed", "blocked"}
Undecided == {"none", "pending"}

Init ==
  /\ verdict = [c \in Conns |-> "none"]
  /\ resetting = {}

Give(c, v) == verdict' = [verdict EXCEPT ![c] = v]

Await(c) == verdict[c] = "none" /\ Give(c, "pending") /\ UNCHANGED resetting

Admit(c) ==
  /\ verdict[c] \in Undecided
  /\ c \notin resetting
  /\ Give(c, "allowed")
  /\ UNCHANGED resetting

Refuse(c) ==
  /\ verdict[c] \in Undecided
  /\ Give(c, "blocked")
  /\ resetting' = resetting \cup {c}

Reset(c) ==
  /\ verdict[c] \in {"pending", "blocked"}
  /\ resetting' = resetting \cup {c}
  /\ UNCHANGED verdict

ResetDone(c) ==
  /\ resetting' = resetting \ {c}
  /\ UNCHANGED verdict

Forget(S) ==
  /\ verdict' = [c \in Conns |-> IF c \in S THEN "none" ELSE verdict[c]]
  /\ UNCHANGED resetting

Next ==
  \/ \E c \in Conns : Await(c) \/ Admit(c) \/ Refuse(c) \/ Reset(c) \/ ResetDone(c)
  \/ \E S \in SUBSET Conns : Forget(S)

vars == <<verdict, resetting>>

Spec == Init /\ [][Next]_vars
=============================================================================
