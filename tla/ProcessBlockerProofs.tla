------------------------ MODULE ProcessBlockerProofs ------------------------
(***************************************************************************)
(* Theorems about ProcessBlocker, for any programs, any number of process  *)
(* ids and any lists.                                                      *)
(***************************************************************************)
EXTENDS ProcessBlocker, TLAPS

LEMMA TypeInit == Init => TypeOK
BY BlockerAssumption DEF Init, TypeOK, NoIds, Left

(* What a round leaves behind has its type.                                *)
LEMMA RestTypes ==
  ASSUME Rest
  PROVE  /\ copied' \subseteq UNION KillLists /\ listed' \subseteq UNION KillLists
         /\ Left' \subseteq Pids /\ \A p \in Left' : snapshot'[p] \in Programs
         /\ blocker' \in {"sleep", "snapshot", "scan", "open", "terminate"}
         /\ reused' \subseteq Pids
BY DEF Rest, NoIds, Left

LEMMA TypeStep == TypeOK /\ [Next]_vars => TypeOK'
<1> SUFFICES ASSUME TypeOK, [Next]_vars PROVE TypeOK'
  OBVIOUS
<1>1. ASSUME NEW p \in Pids, NEW e \in Programs, Begin(p, e) PROVE TypeOK'
  BY <1>1 DEF Begin, TypeOK, round, Left
<1>2. ASSUME NEW p \in Pids, End(p) PROVE TypeOK'
  BY <1>2 DEF End, TypeOK, round, history, Left
<1>3. ASSUME NEW list \in KillLists, Reload(list) PROVE TypeOK'
  BY <1>3 DEF Reload, TypeOK, round, Left
<1>4. Copy => TypeOK'
  BY DEF Copy, TypeOK, Left
<1>5. TakeSnapshot => TypeOK'
  BY DEF TakeSnapshot, TypeOK, Left
<1>6. SnapshotFails => TypeOK'
  BY RestTypes DEF SnapshotFails, TypeOK
<1>7. ASSUME NEW p \in Pids, Examine(p) PROVE TypeOK'
  BY <1>7 DEF Examine, Without, TypeOK, history, Left
<1>8. Finish => TypeOK'
  BY RestTypes DEF Finish, TypeOK
<1>9. OpenProcess => TypeOK'
  BY DEF OpenProcess, TypeOK, history, Left
<1>10. TerminateProcess => TypeOK'
  BY DEF TerminateProcess, TypeOK, history, Left
<1>11. UNCHANGED vars => TypeOK'
  BY DEF vars, round, history, TypeOK, Left
<1>12. QED
  BY <1>1, <1>2, <1>3, <1>4, <1>5, <1>6, <1>7, <1>8, <1>9, <1>10, <1>11
     DEF Next, Others, Blocker, Examines

(* Every reachable state is of its type.                                   *)
THEOREM TypeCorrect == Spec => []TypeOK
BY TypeInit, TypeStep, PTL DEF Spec

-----------------------------------------------------------------------------
(* The reason the thread has for a process, at each step of a round.       *)

Justified(p) == proc[p] = Nobody \/ On(listed, proc[p]) \/ p \in reused

CopyListed == blocker # "sleep" => copied \subseteq listed
SnapshotTrue ==
  blocker \in {"scan", "open", "terminate"} =>
    \A p \in Left : proc[p] \in {snapshot[p], Nobody} \/ p \in reused
TargetJustified == blocker \in {"open", "terminate"} => Justified(pe32)

Justification == CopyListed /\ SnapshotTrue /\ TargetJustified

(* A longer list has no fewer programs on it.                              *)
LEMMA OnGrows ==
  ASSUME NEW short, NEW long, short \subseteq long, NEW e, On(short, e)
  PROVE  On(long, e)
BY DEF On

LEMMA JustificationStep ==
  TypeOK /\ Justification /\ [Next]_vars => Justification'
<1> SUFFICES ASSUME TypeOK, Justification, [Next]_vars PROVE Justification'
  OBVIOUS
<1> USE DEF Justification
(* Asleep, the thread has nothing to justify.                              *)
<1>1. ASSUME blocker' = "sleep" PROVE Justification'
  BY <1>1 DEF CopyListed, SnapshotTrue, TargetJustified
<1>2. ASSUME NEW p \in Pids, NEW e \in Programs, Begin(p, e) PROVE Justification'
  <2>1. CASE blocker = "sleep"
    BY <1>1, <1>2, <2>1 DEF Begin, round
  <2>2. CASE blocker # "sleep"
    <3>1. /\ reused' = reused \cup {p} /\ listed' = listed
          /\ \A q \in Pids \ {p} : proc'[q] = proc[q]
      BY <1>2, <2>2 DEF Begin, TypeOK
    <3>2. QED
      BY <1>2, <3>1
         DEF Begin, round, TypeOK, CopyListed, SnapshotTrue, TargetJustified, Justified, Left
  <2>3. QED
    BY <2>1, <2>2
<1>3. ASSUME NEW p \in Pids, End(p) PROVE Justification'
  BY <1>3 DEF End, round, history, TypeOK, CopyListed, SnapshotTrue, TargetJustified,
              Justified, Left
<1>4. ASSUME NEW list \in KillLists, Reload(list) PROVE Justification'
  <2>1. CASE blocker = "sleep"
    BY <1>1, <1>4, <2>1 DEF Reload, round
  <2>2. CASE blocker # "sleep"
    <3>1. listed' = listed \cup list
      BY <1>4, <2>2 DEF Reload
    <3>2. On(listed, proc[pe32]) => On(listed', proc[pe32])
      BY <3>1, OnGrows
    <3>3. QED
      BY <1>4, <3>1, <3>2
         DEF Reload, round, CopyListed, SnapshotTrue, TargetJustified, Justified, Left
  <2>3. QED
    BY <2>1, <2>2
<1>5. Copy => Justification'
  BY DEF Copy, CopyListed, SnapshotTrue, TargetJustified
<1>6. TakeSnapshot => Justification'
  BY DEF TakeSnapshot, CopyListed, SnapshotTrue, TargetJustified, Left
<1>7. SnapshotFails => Justification'
  BY <1>1 DEF SnapshotFails, Rest
<1>8. ASSUME NEW p \in Pids, Examine(p) PROVE Justification'
  <2>1. /\ copied \subseteq listed /\ proc' = proc /\ reused' = reused /\ listed' = listed
        /\ pe32' = p /\ copied' = copied
    BY <1>8 DEF Examine, history, CopyListed
  <2>2. proc[p] \in {snapshot[p], Nobody} \/ p \in reused
    BY <1>8 DEF Examine, SnapshotTrue
  <2>3. On(copied, snapshot[p]) => On(listed, snapshot[p])
    BY <2>1, OnGrows
  <2>4. TargetJustified'
    BY <1>8, <2>1, <2>2, <2>3 DEF Examine, TargetJustified, Justified
  <2>5. SnapshotTrue'
    BY <1>8, <2>1 DEF Examine, Without, SnapshotTrue, Left
  <2>6. QED
    BY <1>8, <2>1, <2>4, <2>5 DEF Examine, CopyListed
<1>9. Finish => Justification'
  BY <1>1 DEF Finish, Rest
<1>10. OpenProcess => Justification'
  BY DEF OpenProcess, history, CopyListed, SnapshotTrue, TargetJustified, Justified, Left
<1>11. TerminateProcess => Justification'
  BY DEF TerminateProcess, history, TypeOK, CopyListed, SnapshotTrue, TargetJustified, Left
<1>12. UNCHANGED vars => Justification'
  BY DEF vars, round, history, CopyListed, SnapshotTrue, TargetJustified, Justified, Left
<1>13. QED
  BY <1>2, <1>3, <1>4, <1>5, <1>6, <1>7, <1>8, <1>9, <1>10, <1>11, <1>12
     DEF Next, Others, Blocker, Examines

(* What the thread ends was on a list at some time since it copied it, or  *)
(* its process id has changed hands since the snapshot.                    *)
THEOREM KillsAreJustified == Spec => []KillJustified
<1>1. Init => Justification
  BY DEF Init, Justification, CopyListed, SnapshotTrue, TargetJustified
<1>2. Justification => KillJustified
  BY DEF Justification, TargetJustified, Justified, KillJustified
<1>3. QED
  BY <1>1, <1>2, JustificationStep, TypeCorrect, PTL DEF Spec
=============================================================================
