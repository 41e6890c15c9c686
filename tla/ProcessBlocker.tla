--------------------------- MODULE ProcessBlocker ---------------------------
(***************************************************************************)
(* process_blocker_func: five times a second the thread copies the list of *)
(* programs to end, takes a snapshot of the processes, and goes through it *)
(* ending those whose program is on the copy.  Between the snapshot and    *)
(* the end of a process others start and stop, and Windows gives the id of *)
(* one that has stopped to another, unless somebody has a handle of it.    *)
(*                                                                         *)
(* The processes, the snapshot and the handles are external.               *)
(*                                                                         *)
(* A definition that stands just before another and that nothing uses is a *)
(* faulty variant of it, which a property has to be able to tell from it.  *)
(***************************************************************************)
EXTENDS HostNames

CONSTANTS
  Pids,       \* process ids
  Programs,   \* names of programs that may run
  Nobody,     \* no process has the id
  Protected,  \* programs that OpenProcess refuses to open
  KillLists   \* the values blacklist_process takes

ASSUME BlockerAssumption ==
  /\ Nobody \notin Programs
  /\ Protected \subseteq Programs
  /\ KillLists \subseteq SUBSET STRING
  /\ KillLists # {}

VARIABLES
  proc,       \* the program each process id runs
  kill_list,  \* blacklist_process
  copied,     \* current_blacklist
  snapshot,   \* what the snapshot says of the ids it has left
  blocker,    \* where the thread is
  pe32,       \* the id it looks at
  listed,     \* history: all that was listed since the copy was taken
  reused      \* history: the ids given to processes since the snapshot

round == <<copied, snapshot, blocker, pe32>>
history == <<listed, reused>>
vars == <<proc, kill_list, round, history>>

NoIds == [p \in {} |-> Nobody]
Left == DOMAIN snapshot
Without(p) == [q \in Left \ {p} |-> snapshot[q]]

(* iequals: without regard to case.                                        *)
Matches == [e \in Programs |-> {k \in UNION KillLists : ToLower(k) = ToLower(e)}]
On(list, e) == Matches[e] \cap list # {}

Init ==
  /\ proc \in [Pids -> Programs \cup {Nobody}]
  /\ kill_list \in KillLists
  /\ copied = {} /\ snapshot = NoIds
  /\ blocker = "sleep"
  /\ pe32 \in Pids
  /\ listed = {} /\ reused = {}
-----------------------------------------------------------------------------
(* Others start and end processes, and the user edits the list.            *)
Held(p) == blocker = "terminate" /\ p = pe32
Begin(p, e) ==
  /\ proc[p] = Nobody /\ ~Held(p)
  /\ proc' = [proc EXCEPT ![p] = e]
  /\ reused' = IF blocker = "sleep" THEN {} ELSE reused \cup {p}
  /\ UNCHANGED <<kill_list, round, listed>>

End(p) ==
  /\ proc[p] # Nobody
  /\ proc' = [proc EXCEPT ![p] = Nobody]
  /\ UNCHANGED <<kill_list, round, history>>

Reload(list) ==
  /\ kill_list' = list
  /\ listed' = IF blocker = "sleep" THEN {} ELSE listed \cup list
  /\ UNCHANGED <<proc, round, reused>>
-----------------------------------------------------------------------------
(* The thread goes back to sleep; what it has read is gone.                *)
Rest ==
  /\ blocker' = "sleep"
  /\ copied' = {} /\ snapshot' = NoIds /\ listed' = {} /\ reused' = {}

(* The copy of the list under g_wl_mutex; an empty one ends the round.     *)
Copy ==
  /\ blocker = "sleep"
  /\ kill_list # {}
  /\ copied' = kill_list
  /\ listed' = kill_list
  /\ blocker' = "snapshot"
  /\ UNCHANGED <<proc, kill_list, snapshot, pe32, reused>>

TakeSnapshotWithGaps ==
  /\ blocker = "snapshot"
  /\ snapshot' = proc
  /\ reused' = {}
  /\ blocker' = "scan"
  /\ UNCHANGED <<proc, kill_list, copied, pe32, listed>>
TakeSnapshot ==
  /\ blocker = "snapshot"
  /\ snapshot' = [p \in {q \in Pids : proc[q] # Nobody} |-> proc[p]]
  /\ reused' = {}
  /\ blocker' = "scan"
  /\ UNCHANGED <<proc, kill_list, copied, pe32, listed>>

SnapshotFails ==
  /\ blocker = "snapshot"
  /\ Rest
  /\ UNCHANGED <<proc, kill_list, pe32>>

(* The next entry of the snapshot, in any order.                           *)
ExamineKeepsFlag(p) ==
  LET last == proc[pe32] IN
  /\ blocker = "scan"
  /\ p \in Left
  /\ pe32' = p
  /\ blocker' = IF On(copied, snapshot[p]) \/ (last # Nobody /\ On(copied, last))
                THEN "open" ELSE "scan"
  /\ snapshot' = Without(p)
  /\ UNCHANGED <<proc, kill_list, copied, history>>
Examine(p) ==
  /\ blocker = "scan"
  /\ p \in Left
  /\ pe32' = p
  /\ blocker' = IF On(copied, snapshot[p]) THEN "open" ELSE "scan"
  /\ snapshot' = Without(p)
  /\ UNCHANGED <<proc, kill_list, copied, history>>

Finish ==
  /\ blocker = "scan"
  /\ Left = {}
  /\ Rest
  /\ UNCHANGED <<proc, kill_list, pe32>>

(* OpenProcess opens the process that has the id now, if there is one.     *)
OpenProcessOrGiveUp ==
  /\ blocker = "open"
  /\ \/ proc[pe32] \in Protected \cup {Nobody} /\ Rest
     \/ /\ proc[pe32] \notin Protected \cup {Nobody}
        /\ blocker' = "terminate"
        /\ UNCHANGED <<copied, snapshot, history>>
  /\ UNCHANGED <<proc, kill_list, pe32>>
OpenProcess ==
  /\ blocker = "open"
  /\ blocker' = IF proc[pe32] \in Protected \cup {Nobody} THEN "scan" ELSE "terminate"
  /\ UNCHANGED <<proc, kill_list, copied, snapshot, pe32, history>>

(* TerminateProcess; it fails if the process has ended by itself.  A kill  *)
(* is logged (Statistics: LogProcessKilled), and the handle is closed.     *)
TerminateProcess ==
  /\ blocker = "terminate"
  /\ proc' = [proc EXCEPT ![pe32] = Nobody]
  /\ blocker' = "scan"
  /\ UNCHANGED <<kill_list, copied, snapshot, pe32, history>>
-----------------------------------------------------------------------------
Others ==
  \/ \E p \in Pids : End(p) \/ \E e \in Programs : Begin(p, e)
  \/ \E list \in KillLists : Reload(list)
Examines == \E p \in Pids : Examine(p)
Blocker == Copy \/ Examines \/ Finish \/ OpenProcess \/ TerminateProcess

Next == Others \/ Blocker \/ TakeSnapshot \/ SnapshotFails

Spec == Init /\ [][Next]_vars

(* The thread is scheduled, and snapshots succeed again and again.         *)
FairSpec == Spec /\ WF_vars(Blocker) /\ SF_vars(TakeSnapshot)
-----------------------------------------------------------------------------
(* Properties.                                                             *)

(* Every variable has its type; the thread that holds a handle has one.    *)
TypeOK ==
  /\ proc \in [Pids -> Programs \cup {Nobody}]
  /\ kill_list \in KillLists
  /\ copied \subseteq UNION KillLists /\ listed \subseteq UNION KillLists
  /\ Left \subseteq Pids /\ \A p \in Left : snapshot[p] \in Programs
  /\ blocker \in {"sleep", "snapshot", "scan", "open", "terminate"}
  /\ pe32 \in Pids
  /\ reused \subseteq Pids

(* The thread ends a program that was on no list since it copied the list  *)
(* only if the process id has changed hands since the snapshot (:40, :66). *)
KillJustified ==
  blocker = "terminate" =>
    \/ proc[pe32] = Nobody
    \/ On(listed, proc[pe32])
    \/ pe32 \in reused

(* A program that stays on the list does not go on running, unless Windows *)
(* protects it (:57-74).                                                   *)
ListedProgramsEnd ==
  \A p \in Pids : \A e \in Programs \ Protected :
    [](On(kill_list, e)) => (proc[p] = e ~> proc[p] # e)
=============================================================================
