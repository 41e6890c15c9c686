------------------------- MODULE FilterStoreProofs -------------------------
(***************************************************************************)
(* Theorems about FilterStore, for any number of workers, any names and    *)
(* anything the user may make of the file; about the comparison of a name  *)
(* with those of a list; and about the parser of the DNS questions that    *)
(* the names to register come from.                                        *)
(***************************************************************************)
EXTENDS FilterStore, Parsers, DataTheorems

(* The contents of a file with one name more.                              *)
LEMMA Extended ==
  ASSUME NEW f \in Content, NEW d \in Domains
  PROVE  [f EXCEPT !.allowed = Append(@, d)] \in Content
<1>1. Append(f.allowed, d) \in Seq(Domains)
  BY DEF Content
<1>2. QED
  BY <1>1 DEF Content

(* What a reader finds is a file, and a legal one is the last one saved.   *)
LEMMA Found ==
  ASSUME TypeOK
  PROVE  /\ Text \in Content \cup {Illegal, Missing}
         /\ Legal(Text) => Text \in Content /\ Text = file /\ ~truncated
BY DEF TypeOK, Text, Legal

LEMMA TypeInit == Init => TypeOK
<1>1. SUFFICES ASSUME Init PROVE TypeOK
  OBVIOUS
<1>2. Empty \in Content /\ 1 \in 1 .. MaxClock
  BY StoreAssumption DEF Empty, Content
<1>3. file \in Content \cup {Illegal, Missing}
  BY <1>1, StoreAssumption DEF Init
<1>4. lists \in Content
  BY <1>1, <1>2, <1>3 DEF Init, Legal
<1>5. mtime \in 0 .. clock /\ last \in 0 .. clock
  BY <1>1 DEF Init
<1>6. \A w \in Workers : name[w] = NoDomain <=> reg[w] = "idle"
  BY <1>1 DEF Init
<1>7. QED
  BY <1>1, <1>2, <1>3, <1>4, <1>5, <1>6 DEF Init, TypeOK, Reg

(* A worker that returns, and one that goes on with its name.              *)
LEMMA ReturnTypes ==
  ASSUME TypeOK, NEW w \in Workers, Return(w)
  PROVE  /\ reg' \in [Workers -> Reg]
         /\ name' \in [Workers -> Domains \cup {NoDomain}]
         /\ \A v \in Workers : name'[v] = NoDomain <=> reg'[v] = "idle"
         /\ copy' \in [Workers -> Content]
<1>1. Empty \in Content
  BY DEF Empty, Content
<1>2. QED
  BY <1>1 DEF TypeOK, Return, Reg

LEMMA GoOnTypes ==
  ASSUME TypeOK, NEW w \in Workers, reg[w] # "idle",
         NEW where \in Reg \ {"idle"}, reg' = [reg EXCEPT ![w] = where],
         UNCHANGED name
  PROVE  /\ reg' \in [Workers -> Reg]
         /\ name' \in [Workers -> Domains \cup {NoDomain}]
         /\ \A v \in Workers : name'[v] = NoDomain <=> reg'[v] = "idle"
         /\ name[w] \in Domains
BY DEF TypeOK

LEMMA TypeStep == TypeOK /\ [Next]_vars => TypeOK'
<1> SUFFICES ASSUME TypeOK, [Next]_vars PROVE TypeOK'
  OBVIOUS
<1> USE DEF disk, watching, registering
<1>1. ASSUME NEW f \in Edits, UserSave(f) PROVE TypeOK'
  <2>1. f \in Content \cup {Illegal, Missing}
    BY StoreAssumption
  <2>2. clock \in Nat /\ mtime' \in 0 .. clock
    BY <1>1, StoreAssumption DEF UserSave, TypeOK
  <2>3. QED
    BY <1>1, <2>1, <2>2 DEF UserSave, TypeOK
<1>2. CASE Tick
  <2>1. clock' \in 1 .. MaxClock /\ mtime' \in 0 .. clock' /\ last' \in 0 .. clock'
    BY <1>2, StoreAssumption DEF Tick, TypeOK
  <2>2. QED
    BY <1>2, <2>1 DEF Tick, TypeOK
<1>3. CASE WatchStart
  BY <1>3 DEF WatchStart, TypeOK
<1>4. CASE Poll
  BY <1>4 DEF Poll, TypeOK
<1>5. CASE LoadFails
  BY <1>5 DEF LoadFails, TypeOK
<1>6. CASE Load
  BY <1>6, Found DEF Load, TypeOK
<1>7. CASE Swap
  BY <1>7 DEF Swap, TypeOK
<1>8. ASSUME NEW w \in Workers, NEW d \in Domains, Query(w, d) PROVE TypeOK'
  BY <1>8, StoreAssumption DEF Query, TypeOK, Reg
<1>9. ASSUME NEW w \in Workers, CheckMemory(w) PROVE TypeOK'
  <2>1. CASE Return(w)
    BY <1>9, <2>1, ReturnTypes DEF CheckMemory, TypeOK
  <2>2. CASE reg' = [reg EXCEPT ![w] = "lock"] /\ UNCHANGED <<name, copy>>
    BY <1>9, <2>2, GoOnTypes DEF CheckMemory, TypeOK, Reg
  <2>3. QED
    BY <1>9, <2>1, <2>2 DEF CheckMemory
<1>10. ASSUME NEW w \in Workers, LockFile(w) PROVE TypeOK'
  BY <1>10, GoOnTypes DEF LockFile, TypeOK, Reg
<1>11. ASSUME NEW w \in Workers, ReadFile(w) PROVE TypeOK'
  <2>1. CASE Return(w)
    BY <1>11, <2>1, ReturnTypes DEF ReadFile, TypeOK
  <2>2. CASE /\ Legal(Text)
             /\ reg' = [reg EXCEPT ![w] = "open"]
             /\ copy' = [copy EXCEPT ![w] = Text]
             /\ UNCHANGED name
    BY <1>11, <2>2, GoOnTypes, Found DEF ReadFile, TypeOK, Reg
  <2>3. QED
    BY <1>11, <2>1, <2>2 DEF ReadFile
<1>12. ASSUME NEW w \in Workers, OpenFile(w) PROVE TypeOK'
  <2>1. clock \in 0 .. clock
    BY StoreAssumption DEF TypeOK
  <2>2. QED
    BY <1>12, <2>1, GoOnTypes DEF OpenFile, TypeOK, Reg
<1>13. ASSUME NEW w \in Workers, OpenFails(w) PROVE TypeOK'
  BY <1>13, GoOnTypes DEF OpenFails, TypeOK, Reg
<1>14. ASSUME NEW w \in Workers, WriteFile(w) PROVE TypeOK'
  <2>1. clock \in 0 .. clock
    BY StoreAssumption DEF TypeOK
  <2>2. reg[w] # "idle" /\ name[w] \in Domains /\ copy[w] \in Content
    BY <1>14 DEF WriteFile, TypeOK
  <2>3. file' \in Content \cup {Illegal, Missing}
    BY <1>14, <2>2, Extended DEF WriteFile
  <2>4. QED
    BY <1>14, <2>1, <2>2, <2>3, GoOnTypes DEF WriteFile, TypeOK, Reg
<1>15. ASSUME NEW w \in Workers, AppendMemory(w) PROVE TypeOK'
  <2>1. name[w] \in Domains
    BY <1>15 DEF AppendMemory, TypeOK
  <2>2. lists' \in Content
    BY <1>15, <2>1, Extended DEF AppendMemory, TypeOK
  <2>3. QED
    BY <1>15, <2>2, ReturnTypes DEF AppendMemory, TypeOK
<1>16. ASSUME NEW w \in Workers, DumpThrows(w) PROVE TypeOK'
  <2>1. file' \in Content \cup {Illegal, Missing} /\ byUser' \in BOOLEAN
    BY <1>16, Found DEF DumpThrows, TypeOK
  <2>2. QED
    BY <1>16, <2>1, ReturnTypes DEF DumpThrows, TypeOK
<1>17. CASE UNCHANGED vars
  BY <1>17 DEF vars, TypeOK
<1>18. QED
  BY <1>1, <1>2, <1>3, <1>4, <1>5, <1>6, <1>7, <1>8, <1>9, <1>10, <1>11, <1>12,
     <1>13, <1>14, <1>15, <1>16, <1>17 DEF Next, Watch, Register

(* The lists are always legal ones, whatever the file is, and the times    *)
(* that the watcher compares are times that have been.                     *)
THEOREM TypeCorrect == Spec => []TypeOK
BY TypeInit, TypeStep, PTL DEF Spec

-----------------------------------------------------------------------------
(* One worker at a time is between the lock and the return, and it writes  *)
(* back what is in the file.                                               *)
Alone == \A v, w \in Workers : InFile(v) /\ InFile(w) => v = w

LEMMA StoreStep ==
  TypeOK /\ Alone /\ NoRegistrationLost /\ [Next]_vars => Alone' /\ NoRegistrationLost'
<1> SUFFICES ASSUME TypeOK, Alone, NoRegistrationLost, [Next]_vars
             PROVE  Alone' /\ NoRegistrationLost'
  OBVIOUS
<1> USE DEF disk, watching, registering
<1>1. ASSUME UNCHANGED <<file, registering>>, UNCHANGED byUser
      PROVE  Alone' /\ NoRegistrationLost'
  BY <1>1 DEF Alone, InFile, NoRegistrationLost
<1>2. ASSUME NEW f \in Edits, UserSave(f) PROVE Alone' /\ NoRegistrationLost'
  BY <1>2 DEF UserSave, Alone, InFile, NoRegistrationLost
<1>3. CASE Tick \/ Watch
  BY <1>1, <1>3 DEF Tick, Watch, WatchStart, Poll, LoadFails, Load, Swap
<1>4. ASSUME NEW w \in Workers, UNCHANGED <<file, byUser>>,
             \/ Return(w)
             \/ /\ \E where \in Reg : reg' = [reg EXCEPT ![w] = where] /\ where \in {"check", "lock"}
                /\ UNCHANGED copy
      PROVE  Alone' /\ NoRegistrationLost'
  <2>1. /\ \A v \in Workers \ {w} : reg'[v] = reg[v] /\ copy'[v] = copy[v]
        /\ reg'[w] \in {"idle", "check", "lock"}
    BY <1>4 DEF Return, TypeOK
  <2>2. QED
    BY <1>4, <2>1 DEF Alone, InFile, NoRegistrationLost
<1>5. ASSUME NEW w \in Workers, NEW d \in Domains, Query(w, d)
      PROVE  Alone' /\ NoRegistrationLost'
  BY <1>4, <1>5 DEF Query, Reg
<1>6. ASSUME NEW w \in Workers, CheckMemory(w) PROVE Alone' /\ NoRegistrationLost'
  BY <1>4, <1>6 DEF CheckMemory, Reg
<1>7. ASSUME NEW w \in Workers, LockFile(w) PROVE Alone' /\ NoRegistrationLost'
  <2>1. /\ \A v \in Workers \ {w} : reg'[v] = reg[v]
        /\ reg'[w] = "read"
        /\ \A v \in Workers : ~InFile(v)
    BY <1>7 DEF LockFile, TypeOK
  <2>2. QED
    BY <1>7, <2>1 DEF LockFile, Alone, InFile, NoRegistrationLost
<1>8. ASSUME NEW w \in Workers, ReadFile(w) PROVE Alone' /\ NoRegistrationLost'
  <2>1. CASE Return(w)
    BY <1>4, <1>8, <2>1 DEF ReadFile
  <2>2. CASE /\ Legal(Text)
             /\ reg' = [reg EXCEPT ![w] = "open"]
             /\ copy' = [copy EXCEPT ![w] = Text]
    <3>1. /\ \A v \in Workers \ {w} : reg'[v] = reg[v] /\ copy'[v] = copy[v]
          /\ reg[w] = "read" /\ reg'[w] = "open"
          /\ copy'[w] = file
      BY <1>8, <2>2, Found DEF ReadFile, TypeOK
    <3>2. QED
      BY <1>8, <3>1 DEF ReadFile, Alone, InFile, NoRegistrationLost
  <2>3. QED
    BY <1>8, <2>1, <2>2 DEF ReadFile
<1>9. ASSUME NEW w \in Workers, OpenFile(w) \/ OpenFails(w)
      PROVE  Alone' /\ NoRegistrationLost'
  <2>1. /\ \A v \in Workers \ {w} : reg'[v] = reg[v]
        /\ reg[w] = "open" /\ reg'[w] \in {"write", "append"}
        /\ UNCHANGED <<file, byUser, copy>>
    BY <1>9 DEF OpenFile, OpenFails, TypeOK
  <2>2. QED
    BY <2>1 DEF Alone, InFile, NoRegistrationLost
<1>10. ASSUME NEW w \in Workers, WriteFile(w) PROVE Alone' /\ NoRegistrationLost'
  <2>1. /\ \A v \in Workers \ {w} : reg'[v] = reg[v]
        /\ reg[w] = "write" /\ reg'[w] = "append"
    BY <1>10 DEF WriteFile, TypeOK
  <2>2. \A v \in Workers \ {w} : ~InFile(v)
    BY <2>1 DEF Alone, InFile
  <2>3. QED
    BY <2>1, <2>2 DEF Alone, InFile, NoRegistrationLost
<1>11. ASSUME NEW w \in Workers, AppendMemory(w) PROVE Alone' /\ NoRegistrationLost'
  BY <1>4, <1>11 DEF AppendMemory
<1>12. ASSUME NEW w \in Workers, DumpThrows(w) PROVE Alone' /\ NoRegistrationLost'
  <2>1. /\ \A v \in Workers \ {w} : reg'[v] = reg[v]
        /\ reg[w] = "write" /\ reg'[w] = "idle"
    BY <1>12 DEF DumpThrows, Return, TypeOK
  <2>2. \A v \in Workers \ {w} : ~InFile(v)
    BY <2>1 DEF Alone, InFile
  <2>3. QED
    BY <2>1, <2>2 DEF Alone, InFile, NoRegistrationLost
<1>13. CASE UNCHANGED vars
  BY <1>1, <1>13 DEF vars
<1>14. QED
  BY <1>2, <1>3, <1>5, <1>6, <1>7, <1>8, <1>9, <1>10, <1>11, <1>12, <1>13
     DEF Next, Register

(* The mutex of the file keeps a registration from being written over by   *)
(* one that did not see it (packet_processor.cpp:117).                     *)
THEOREM RegistrationsAreKept == Spec => []NoRegistrationLost
<1>1. Init => Alone /\ NoRegistrationLost
  BY DEF Init, Alone, InFile, NoRegistrationLost
<1>2. QED
  BY <1>1, TypeInit, TypeStep, StoreStep, PTL DEF Spec

(* A step may add a name to a file that a registration wrote, or spoil the *)
(* file, but a legal file has what was there before.                       *)
Grows ==
  ~byUser /\ ~byUser' /\ Legal(file') =>
    Legal(file) /\ Names(file) \subseteq Names(file') /\ file'.blocked = file.blocked

LEMMA OneName ==
  ASSUME NEW f \in Content, NEW d \in Domains,
         NEW g, g = [f EXCEPT !.allowed = Append(@, d)]
  PROVE  Names(f) \subseteq Names(g) /\ g.blocked = f.blocked
<1>1. PICK s \in Seq(Domains), b \in SUBSET Domains : f = [allowed |-> s, blocked |-> b]
  BY DEF Content
<1>2. g = [allowed |-> Append(s, d), blocked |-> b]
  BY <1>1
<1>3. \A i \in DOMAIN s : i \in DOMAIN Append(s, d) /\ Append(s, d)[i] = s[i]
  OBVIOUS
<1>4. QED
  BY <1>1, <1>2, <1>3 DEF Names, ToSet

LEMMA GrowStep == TypeOK /\ NoRegistrationLost /\ [Next]_vars => Grows
<1> SUFFICES ASSUME TypeOK, NoRegistrationLost, [Next]_vars PROVE Grows
  OBVIOUS
<1> USE DEF disk, watching, registering
<1>1. ASSUME file' = file PROVE Grows
  BY <1>1 DEF Grows
<1>2. ASSUME NEW f \in Edits, UserSave(f) PROVE Grows
  BY <1>2 DEF UserSave, Grows
<1>3. ASSUME NEW w \in Workers, WriteFile(w), ~byUser, Legal(file')
      PROVE  Legal(file) /\ Names(file) \subseteq Names(file') /\ file'.blocked = file.blocked
  <2>1. file = copy[w]
    BY <1>3 DEF WriteFile, NoRegistrationLost
  <2>2. name[w] \in Domains /\ copy[w] \in Content
    BY <1>3 DEF WriteFile, TypeOK
  <2>3. file' = [file EXCEPT !.allowed = Append(@, name[w])]
    BY <1>3, <2>1 DEF WriteFile, Legal
  <2>4. Legal(file)
    BY <2>1, <2>2, StoreAssumption DEF Legal
  <2>5. QED
    BY <2>1, <2>2, <2>3, <2>4, OneName
<1>4. ASSUME NEW w \in Workers, DumpThrows(w), Legal(file') PROVE file' = file
  BY <1>4, Found DEF DumpThrows
<1>5. CASE Tick \/ Watch
  BY <1>1, <1>5 DEF Tick, Watch, WatchStart, Poll, LoadFails, Load, Swap
<1>6. ASSUME NEW w \in Workers,
             \/ \E d \in Domains : Query(w, d)
             \/ CheckMemory(w) \/ LockFile(w) \/ ReadFile(w) \/ OpenFile(w)
             \/ OpenFails(w) \/ AppendMemory(w)
      PROVE  Grows
  BY <1>1, <1>6 DEF Query, CheckMemory, LockFile, ReadFile, OpenFile, OpenFails, AppendMemory
<1>7. CASE UNCHANGED vars
  BY <1>1, <1>7 DEF vars
<1>8. ASSUME NEW w \in Workers, WriteFile(w) \/ DumpThrows(w) PROVE Grows
  BY <1>3, <1>4, <1>8 DEF Grows
<1>9. QED
  BY <1>2, <1>5, <1>6, <1>7, <1>8 DEF Next, Register

(* As long as the user leaves the file alone, no later registration takes  *)
(* a name or a block from it and leaves a legal file; what fails to be     *)
(* written leaves none (packet_processor.cpp:120-137).                     *)
THEOREM RegistrationsOnlyGrow == Spec => RegistrationsStay
<1>1. TypeOK /\ NoRegistrationLost /\ [Next]_vars =>
        [~byUser /\ ~byUser' /\ Legal(file') =>
           Legal(file) /\ Names(file) \subseteq Names(file')
             /\ file'.blocked = file.blocked]_vars
  BY GrowStep DEF Grows
<1>2. QED
  BY <1>1, TypeCorrect, RegistrationsAreKept, PTL DEF Spec, RegistrationsStay
-----------------------------------------------------------------------------
(* What is under a name, by its characters; dot is the one of ".".         *)
IsDot(dot) == "." = <<dot>>
UnderAt(d, w, dot) ==
  /\ Len(w) + 1 < Len(d) /\ d[Len(d) - Len(w)] = dot
  /\ \A j \in 1 .. Len(w) : d[Len(d) - Len(w) + j] = w[j]

LEMMA UnderIs ==
  ASSUME NEW C, NEW dot \in C, IsDot(dot), NEW d \in Seq(C), NEW w \in Seq(C)
  PROVE  IsUnder(d, w) <=> UnderAt(d, w, dot)
<1>1. PICK t \in Seq(C) : t = <<dot>> \o w
  <2>1. <<dot>> \in Seq(C)
    OBVIOUS
  <2>. QED  BY <2>1, ConcatProperties
<1>2. PICK n \in Nat, m \in Nat : n = Len(d) /\ m = Len(w)
  BY LenProperties
<1>3. /\ Len(t) = m + 1 /\ t[1] = dot
      /\ \A j \in 1 .. m : t[j + 1] = w[j]
  <2>1. <<dot>> \in Seq(C) /\ Len(<<dot>>) = 1 /\ <<dot>>[1] = dot
    OBVIOUS
  <2>2. /\ Len(t) = 1 + m
        /\ \A i \in 1 .. 1 + m : t[i] = IF i <= 1 THEN <<dot>>[i] ELSE w[i - 1]
    BY <1>1, <1>2, <2>1, ConcatProperties
  <2>3. t[1] = dot
    BY <2>1, <2>2
  <2>4. ASSUME NEW j \in 1 .. m PROVE t[j + 1] = w[j]
    <3>1. j + 1 \in 1 .. 1 + m /\ ~(j + 1 <= 1) /\ j + 1 - 1 = j
      OBVIOUS
    <3>. QED  BY <2>2, <3>1
  <2>. QED  BY <2>2, <2>3, <2>4
<1>4. IsUnder(d, w) <=> EndsWith(t, d)
  BY <1>1 DEF IsUnder, IsDot
<1>5. ASSUME m + 1 < n
      PROVE  Piece(d, n - (m + 1), m + 1) = t <=>
               d[n - m] = dot /\ \A j \in 1 .. m : d[n - m + j] = w[j]
  <2>1. PICK a \in Nat, l \in Nat : a = n - m /\ l = m + 1
    BY <1>5
  <2>2. /\ a >= 1 /\ n = a + l - 1 /\ n <= Len(d) /\ Len(t) = l
        /\ n = a + Len(t) - 1 /\ a \in 1 .. Len(d) + 1
    BY <1>2, <1>3, <1>5, <2>1
  <2>3. Piece(d, n - (m + 1), m + 1) = SubSeq(d, a, n)
    <3>1. n - (m + 1) + 1 = a /\ n - (m + 1) + (m + 1) = n
      BY <2>1
    <3>. QED  BY <3>1 DEF Piece
  <2>4. PICK s : s = SubSeq(d, a, n)
    OBVIOUS
  <2>5. /\ s \in Seq(C) /\ Len(s) = l
        /\ \A i \in 1 .. l : s[i] = d[a + i - 1]
    BY ONLY d \in Seq(C), a \in Nat, l \in Nat, <2>2, <2>4, PieceElements
  <2>6. ASSUME s = t
        PROVE  d[n - m] = dot /\ \A j \in 1 .. m : d[n - m + j] = w[j]
    <3>1. 1 \in 1 .. l /\ a + 1 - 1 = n - m
      BY <2>1
    <3>2. ASSUME NEW j \in 1 .. m PROVE d[n - m + j] = w[j]
      <4>1. j + 1 \in 1 .. l /\ a + (j + 1) - 1 = n - m + j
        BY <2>1
      <4>2. s[j + 1] = d[n - m + j]
        BY <2>5, <4>1
      <4>. QED  BY <1>3, <2>6, <4>2
    <3>3. s[1] = d[n - m]
      BY <2>5, <3>1
    <3>. QED  BY <1>3, <2>6, <3>2, <3>3
  <2>7. ASSUME d[n - m] = dot, \A j \in 1 .. m : d[n - m + j] = w[j]
        PROVE  s = t
    <3>. SUFFICES ASSUME NEW i \in 1 .. l PROVE s[i] = t[i]
      BY <2>2, <2>5, SeqEqual
    <3>1. s[i] = d[a + i - 1]
      BY <2>5
    <3>2. CASE i = 1
      <4>1. a + i - 1 = n - m
        BY <2>1, <3>2
      <4>. QED  BY <1>3, <2>7, <3>1, <3>2, <4>1
    <3>3. CASE i # 1
      <4>1. PICK j \in 1 .. m : i = j + 1 /\ a + i - 1 = n - m + j
        <5>1. i - 1 \in 1 .. m /\ i = (i - 1) + 1 /\ a + i - 1 = n - m + (i - 1)
          BY <2>1, <3>3
        <5>. QED  BY <5>1
      <4>. QED  BY <1>3, <2>7, <3>1, <4>1
    <3>. QED  BY <3>2, <3>3
  <2>. QED  BY <2>3, <2>4, <2>6, <2>7, Zenon
<1>6. EndsWith(t, d) <=> m + 1 < n /\ Piece(d, n - (m + 1), m + 1) = t
  BY <1>2, <1>3 DEF EndsWith
<1>7. UnderAt(d, w, dot) <=>
        m + 1 < n /\ d[n - m] = dot /\ \A j \in 1 .. m : d[n - m + j] = w[j]
  BY <1>2, Zenon DEF UnderAt
<1>. QED  BY <1>4, <1>5, <1>6, <1>7, Zenon

(* A name with more than one label, its first label and the rest of it.    *)
FirstOf(d, dot, label, rest) ==
  /\ label # <<>> /\ rest # <<>> /\ rest[1] # dot
  /\ \A i \in 1 .. Len(label) : label[i] # dot
  /\ d = label \o (<<dot>> \o rest)

(* A name is on the list of another exactly if it is that name or its rest *)
(* is, so it is one label after another that is compared and no part of a  *)
(* label: "notgoogle.com" is not "google.com" (packet_processor.cpp:       *)
(* 424-441, the dot in the suffix).                                        *)
THEOREM ListedByLabels ==
  ASSUME NEW C, NEW dot \in C, IsDot(dot),
         NEW d \in Seq(C), NEW w \in Seq(C), NEW label \in Seq(C), NEW rest \in Seq(C),
         FirstOf(d, dot, label, rest)
  PROVE  OnList(d, w) <=> d = w \/ OnList(rest, w)
<1>1. PICK l \in Nat, r \in Nat, m \in Nat :
        l = Len(label) /\ r = Len(rest) /\ m = Len(w) /\ l >= 1 /\ r >= 1
  BY EmptySeq, LenProperties DEF FirstOf
<1>2. PICK n \in Nat : n = l + 1 + r /\ n = Len(d)
      /\ (\A i \in 1 .. l : d[i] = label[i]) /\ d[l + 1] = dot
      /\ \A j \in 1 .. r : d[l + 1 + j] = rest[j]
  <2>1. PICK t : t = <<dot>> \o rest
    OBVIOUS
  <2>2. <<dot>> \in Seq(C) /\ Len(<<dot>>) = 1 /\ <<dot>>[1] = dot
    OBVIOUS
  <2>3. /\ t \in Seq(C) /\ Len(t) = 1 + r
        /\ \A i \in 1 .. 1 + r : t[i] = IF i <= 1 THEN <<dot>>[i] ELSE rest[i - 1]
    BY <1>1, <2>1, <2>2, ConcatProperties
  <2>4. d = label \o t
    BY <2>1 DEF FirstOf
  <2>5. /\ Len(d) = l + (1 + r)
        /\ \A i \in 1 .. l + (1 + r) : d[i] = IF i <= l THEN label[i] ELSE t[i - l]
    <3>1. label \in Seq(C) /\ t \in Seq(C) /\ Len(label) = l /\ Len(t) = 1 + r
      BY <1>1, <2>3
    <3>2. /\ Len(label \o t) = Len(label) + Len(t)
          /\ \A i \in 1 .. Len(label) + Len(t) :
               (label \o t)[i] = IF i <= Len(label) THEN label[i] ELSE t[i - Len(label)]
      BY ONLY <3>1, ConcatProperties, Zenon
    <3>. QED  BY ONLY <2>4, <3>1, <3>2, Zenon
  <2>6. ASSUME NEW i \in 1 .. l PROVE d[i] = label[i]
    BY <2>5
  <2>7. d[l + 1] = dot
    <3>1. l + 1 \in 1 .. l + (1 + r) /\ ~(l + 1 <= l) /\ l + 1 - l = 1 /\ 1 \in 1 .. 1 + r
      OBVIOUS
    <3>. QED  BY <2>2, <2>3, <2>5, <3>1
  <2>8. ASSUME NEW j \in 1 .. r PROVE d[l + 1 + j] = rest[j]
    <3>1. /\ l + 1 + j \in 1 .. l + (1 + r) /\ ~(l + 1 + j <= l) /\ l + 1 + j - l = 1 + j
          /\ 1 + j \in 1 .. 1 + r /\ ~(1 + j <= 1) /\ 1 + j - 1 = j
      OBVIOUS
    <3>. QED  BY <2>3, <2>5, <3>1
  <2>. QED  BY <2>5, <2>6, <2>7, <2>8
<1>3. /\ IsUnder(d, w) <=> UnderAt(d, w, dot)
      /\ IsUnder(rest, w) <=> UnderAt(rest, w, dot)
  BY UnderIs
<1>4. ASSUME UnderAt(d, w, dot) PROVE rest = w \/ UnderAt(rest, w, dot)
  <2>0. m + 1 < n /\ d[n - m] = dot /\ \A j \in 1 .. m : d[n - m + j] = w[j]
    BY <1>1, <1>2, <1>4, Zenon DEF UnderAt
  <2>1. PICK k \in Nat : k = n - m /\ k >= 2 /\ d[k] = dot
        /\ \A j \in 1 .. m : d[k + j] = w[j]
    BY <2>0, n - m \in Nat, n - m >= 2
  <2>2. ~(k <= l)
    BY <1>1, <1>2, <2>1 DEF FirstOf
  <2>3. CASE k = l + 1
    <3>1. m = r
      BY <1>2, <2>1, <2>3
    <3>2. \A j \in 1 .. r : rest[j] = w[j]
      BY <1>2, <2>1, <2>3, <3>1
    <3>. QED  BY <1>1, <3>1, <3>2, SeqEqual
  <2>4. CASE k > l + 1
    <3>1. PICK i \in 1 .. r : i = k - (l + 1) /\ k = l + 1 + i /\ i = r - m
      BY <1>2, <2>1, <2>4
    <3>2. rest[i] = dot
      BY <1>2, <2>1, <3>1
    <3>3. i # 1
      BY <3>2 DEF FirstOf
    <3>4. ASSUME NEW j \in 1 .. m PROVE rest[r - m + j] = w[j]
      <4>1. i + j \in 1 .. r /\ l + 1 + (i + j) = k + j /\ r - m + j = i + j
        <5>1. k = l + 1 + i /\ i = r - m
          BY <3>1
        <5>. QED
          BY ONLY <5>1, l \in Nat, r \in Nat, m \in Nat, k \in Nat, i \in 1 .. r, j \in 1 .. m
      <4>2. d[k + j] = rest[i + j]
        BY <1>2, <4>1
      <4>. QED  BY <2>1, <4>1, <4>2
    <3>5. m + 1 < r /\ rest[r - m] = dot
      <4>1. i = r - m
        BY <3>1
      <4>2. m + 1 < r
        BY ONLY <3>3, <4>1, r \in Nat, m \in Nat, i \in 1 .. r
      <4>. QED  BY <3>2, <4>1, <4>2, Zenon
    <3>. QED  BY <1>1, <3>4, <3>5, Zenon DEF UnderAt
  <2>. QED  BY <2>2, <2>3, <2>4
<1>5. ASSUME rest = w PROVE UnderAt(d, w, dot)
  <2>1. m = r /\ m + 1 < n /\ n - m = l + 1
    BY <1>1, <1>2, <1>5
  <2>. QED  BY <1>1, <1>2, <1>5, <2>1 DEF UnderAt
<1>6. ASSUME UnderAt(rest, w, dot) PROVE UnderAt(d, w, dot)
  <2>1. m + 1 < r /\ rest[r - m] = dot /\ \A j \in 1 .. m : rest[r - m + j] = w[j]
    BY <1>1, <1>6, Zenon DEF UnderAt
  <2>2. PICK i \in 1 .. r : i = r - m /\ l + 1 + i = n - m
    <3>1. r - m \in 1 .. r /\ l + 1 + (r - m) = n - m
      BY <1>1, <1>2, <2>1
    <3>. QED  BY <3>1
  <2>3. d[n - m] = dot
    BY <1>2, <2>1, <2>2
  <2>4. ASSUME NEW j \in 1 .. m PROVE d[n - m + j] = w[j]
    <3>1. i + j \in 1 .. r /\ l + 1 + (i + j) = n - m + j /\ r - m + j = i + j
      BY ONLY <2>2, l \in Nat, r \in Nat, m \in Nat, n \in Nat, i \in 1 .. r, j \in 1 .. m
    <3>2. d[n - m + j] = rest[i + j]
      BY <1>2, <3>1
    <3>. QED  BY <2>1, <3>1, <3>2
  <2>5. m + 1 < n
    BY <1>2, <2>1
  <2>. QED  BY <1>1, <1>2, <2>3, <2>4, <2>5 DEF UnderAt
<1>. QED  BY <1>3, <1>4, <1>5, <1>6, Zenon DEF OnList

(* The only name of one label that is on the list of another is that one.  *)
THEOREM LabelListed ==
  ASSUME NEW C, NEW dot \in C, IsDot(dot), NEW d \in Seq(C), NEW w \in Seq(C),
         \A i \in 1 .. Len(d) : d[i] # dot
  PROVE  OnList(d, w) <=> d = w
<1>1. PICK n \in Nat, m \in Nat : n = Len(d) /\ m = Len(w)
  BY LenProperties
<1>2. ~UnderAt(d, w, dot)
  BY <1>1 DEF UnderAt
<1>. QED  BY <1>2, UnderIs DEF OnList
-----------------------------------------------------------------------------
(* The parser of DNS questions.  One label after another ends: each has a  *)
(* length of at least one.                                                 *)
LEMMA LabelFollows ==
  ASSUME NEW p \in Octets, NEW n \in Nat, n <= Len(p), NEW i \in Nat, ~LastLabel(p, n, i)
  PROVE  /\ i < n /\ Byte(p, i) \in Nat
         /\ NextLabel(p, i) \in Nat /\ NextLabel(p, i) > i
<1>1. i < n
  BY DEF LastLabel
<1>2. PICK k \in 1 .. Len(p) : k = i + 1
  BY <1>1, LenProperties DEF Octets
<1>3. Byte(p, i) \in Nat
  BY <1>2, OctetRead DEF Byte
<1>. QED  BY <1>1, <1>3 DEF NextLabel

TextStep(p, n, text, i) ==
  IF LastLabel(p, n, i) THEN NoDomain
  ELSE Dotted(Characters(p, i + 1, Byte(p, i)), text[NextLabel(p, i)])

FitsStep(p, n, fits, i) ==
  LastLabel(p, n, i) \/ (NextLabel(p, i) <= n /\ fits[NextLabel(p, i)])

LEMMA TextExists ==
  ASSUME NEW p \in Octets, NEW n \in Nat, n <= Len(p)
  PROVE  \E text : text = [i \in Nat |-> TextStep(p, n, text, i)]
<1>. DEFINE From(k) == {i \in Nat : i >= k}
            G == {k \in Nat : \E f : f = [i \in From(k) |-> TextStep(p, n, f, i)]}
<1>1. ASSUME NEW k \in Nat, k < n => k + 1 \in G PROVE k \in G
  <2>1. CASE k >= n
    <3>. DEFINE f == [i \in From(k) |-> NoDomain]
    <3>1. \A i \in From(k) : LastLabel(p, n, i)
      BY <2>1 DEF LastLabel
    <3>2. f = [i \in From(k) |-> TextStep(p, n, f, i)]
      BY <3>1 DEF TextStep
    <3>. QED  BY <3>2
  <2>2. CASE k < n
    <3>1. PICK f : f = [i \in From(k + 1) |-> TextStep(p, n, f, i)]
      BY <1>1, <2>2
    <3>. DEFINE g == [i \in From(k) |-> IF i = k THEN TextStep(p, n, f, k) ELSE f[i]]
    <3>2. \A i \in From(k) : i # k => i \in From(k + 1)
      OBVIOUS
    <3>3. \A i \in From(k) : ~LastLabel(p, n, i) => NextLabel(p, i) \in From(k + 1)
      BY LabelFollows
    <3>4. From(k + 1) \subseteq From(k) /\ k \notin From(k + 1)
      OBVIOUS
    <3>. HIDE DEF From
    <3>5. \A i \in From(k + 1) : g[i] = f[i]
      BY <3>4
    <3>6. \A i \in From(k) : TextStep(p, n, f, i) = TextStep(p, n, g, i)
      BY <3>3, <3>5 DEF TextStep
    <3>7. \A i \in From(k) : g[i] = TextStep(p, n, f, i)
      BY <3>1, <3>2
    <3>8. g = [i \in From(k) |-> TextStep(p, n, g, i)]
      BY <3>6, <3>7
    <3>. HIDE DEF g
    <3>9. \E h : h = [i \in From(k) |-> TextStep(p, n, h, i)]
      BY <3>8
    <3>. QED  BY <3>9
  <2>3. k >= n \/ k < n
    OBVIOUS
  <2>. QED  BY <2>1, <2>2, <2>3, Zenon
<1>2. ASSUME NEW k \in Nat, k < n => \A j \in Nat : j > k => j \in G PROVE k \in G
  <2>1. k + 1 \in Nat /\ k + 1 > k
    OBVIOUS
  <2>. HIDE DEF G
  <2>2. k < n => k + 1 \in G
    BY <1>2, <2>1
  <2>. QED  BY <1>1, <2>2
<1>. HIDE DEF G
<1>3. 0 \in G
  BY <1>2, Downward
<1>4. From(0) = Nat
  OBVIOUS
<1>. QED  BY <1>3, <1>4 DEF G

LEMMA TextIs ==
  ASSUME NEW p \in Octets, NEW n \in Nat, n <= Len(p), NEW i \in Nat
  PROVE  QName(p, n)[i] = TextStep(p, n, QName(p, n), i)
<1>1. \E text : text = [k \in Nat |-> TextStep(p, n, text, k)]
  BY TextExists
<1>2. QName(p, n) = CHOOSE text : text = [k \in Nat |-> TextStep(p, n, text, k)]
  BY DEF QName, TextStep
<1>3. QName(p, n) = [k \in Nat |-> TextStep(p, n, QName(p, n), k)]
  BY <1>1, <1>2
<1>. QED  BY <1>3

LEMMA FitsExists ==
  ASSUME NEW p \in Octets, NEW n \in Nat, n <= Len(p)
  PROVE  \E fits : fits = [i \in Nat |-> FitsStep(p, n, fits, i)]
<1>. DEFINE From(k) == {i \in Nat : i >= k}
            G == {k \in Nat : \E f : f = [i \in From(k) |-> FitsStep(p, n, f, i)]}
<1>1. ASSUME NEW k \in Nat, k < n => k + 1 \in G PROVE k \in G
  <2>1. CASE k >= n
    <3>. DEFINE f == [i \in From(k) |-> TRUE]
    <3>1. \A i \in From(k) : LastLabel(p, n, i)
      BY <2>1 DEF LastLabel
    <3>2. f = [i \in From(k) |-> FitsStep(p, n, f, i)]
      BY <3>1, Zenon DEF FitsStep
    <3>. QED  BY <3>2
  <2>2. CASE k < n
    <3>1. PICK f : f = [i \in From(k + 1) |-> FitsStep(p, n, f, i)]
      BY <1>1, <2>2
    <3>. DEFINE g == [i \in From(k) |-> IF i = k THEN FitsStep(p, n, f, k) ELSE f[i]]
    <3>2. \A i \in From(k) : i # k => i \in From(k + 1)
      OBVIOUS
    <3>3. \A i \in From(k) : ~LastLabel(p, n, i) => NextLabel(p, i) \in From(k + 1)
      BY LabelFollows
    <3>4. From(k + 1) \subseteq From(k) /\ k \notin From(k + 1)
      OBVIOUS
    <3>. HIDE DEF From
    <3>5. \A i \in From(k + 1) : g[i] = f[i]
      BY <3>4
    <3>6. \A i \in From(k) : FitsStep(p, n, f, i) = FitsStep(p, n, g, i)
      BY <3>3, <3>5, Zenon DEF FitsStep
    <3>7. \A i \in From(k) : g[i] = FitsStep(p, n, f, i)
      BY <3>1, <3>2
    <3>8. g = [i \in From(k) |-> FitsStep(p, n, g, i)]
      BY <3>6, <3>7
    <3>. HIDE DEF g
    <3>9. \E h : h = [i \in From(k) |-> FitsStep(p, n, h, i)]
      BY <3>8
    <3>. QED  BY <3>9
  <2>3. k >= n \/ k < n
    OBVIOUS
  <2>. QED  BY <2>1, <2>2, <2>3, Zenon
<1>2. ASSUME NEW k \in Nat, k < n => \A j \in Nat : j > k => j \in G PROVE k \in G
  <2>1. k + 1 \in Nat /\ k + 1 > k
    OBVIOUS
  <2>. HIDE DEF G
  <2>2. k < n => k + 1 \in G
    BY <1>2, <2>1
  <2>. QED  BY <1>1, <2>2
<1>. HIDE DEF G
<1>3. 0 \in G
  BY <1>2, Downward
<1>4. From(0) = Nat
  OBVIOUS
<1>. QED  BY <1>3, <1>4 DEF G

LEMMA FitsIs ==
  ASSUME NEW p \in Octets, NEW n \in Nat, n <= Len(p), NEW i \in Nat
  PROVE  Fits(p, n)[i] = FitsStep(p, n, Fits(p, n), i)
<1>1. \E fits : fits = [k \in Nat |-> FitsStep(p, n, fits, k)]
  BY FitsExists
<1>2. Fits(p, n) = CHOOSE fits : fits = [k \in Nat |-> FitsStep(p, n, fits, k)]
  BY DEF Fits, FitsStep
<1>3. Fits(p, n) = [k \in Nat |-> FitsStep(p, n, Fits(p, n), k)]
  BY <1>1, <1>2
<1>. QED  BY <1>3

(* Two questions that agree up to a length have the same labels there.     *)
LEMMA AgreeLabels ==
  ASSUME NEW p, NEW q, NEW n, Agree(p, q, n), NEW i \in Nat
  PROVE  /\ LastLabel(p, n, i) <=> LastLabel(q, n, i)
         /\ ~LastLabel(p, n, i) => NextLabel(p, i) = NextLabel(q, i) /\ Byte(p, i) = Byte(q, i)
<1>1. CASE i >= n
  BY <1>1, Zenon DEF LastLabel
<1>2. CASE ~(i >= n)
  <2>1. i + 1 \in 1 .. n
    BY <1>2 DEF Agree
  <2>2. Byte(p, i) = Byte(q, i)
    BY <2>1, Zenon DEF Agree, Byte
  <2>. QED  BY <2>2, Zenon DEF LastLabel, NextLabel
<1>. QED  BY <1>1, <1>2

LEMMA AgreeText ==
  ASSUME NEW p, NEW q, NEW n, Agree(p, q, n), NEW i \in Nat,
         ~LastLabel(p, n, i), NextLabel(p, i) <= n
  PROVE  Characters(p, i + 1, Byte(p, i)) = Characters(q, i + 1, Byte(p, i))
<1>1. p \in Octets /\ n \in Nat /\ n <= Len(p)
  BY DEF Agree
<1>2. Byte(p, i) \in Nat /\ i + 1 \in Nat /\ i + 1 + Byte(p, i) <= n
  BY <1>1, LabelFollows DEF NextLabel
<1>3. SamePiece(p, q, i + 1 + 1, i + 1 + Byte(p, i))
  BY <1>2, AgreePieces, Zenon
<1>. QED  BY <1>3, Zenon DEF Characters, SamePiece

SameQuestion(p, q, n, i) ==
  /\ Fits(p, n)[i] <=> Fits(q, n)[i]
  /\ Fits(p, n)[i] => QName(p, n)[i] = QName(q, n)[i]

(* Nothing behind the length of a question is read, so what an earlier     *)
(* frame left there does not change the name; a label that runs past the   *)
(* end is never taken (packet_processor.cpp:75-93).                        *)
THEOREM QuestionReadsInside ==
  ASSUME NEW p, NEW q, NEW n, Agree(p, q, n)
  PROVE  extract_dns_query(p, n) = extract_dns_query(q, n)
<1>. DEFINE G == {i \in Nat : SameQuestion(p, q, n, i)}
<1>0. n \in Nat /\ p \in Octets /\ q \in Octets /\ n <= Len(p) /\ n <= Len(q)
  BY DEF Agree
<1>1. ASSUME NEW i \in Nat, i < n => \A j \in Nat : j > i => j \in G
      PROVE  i \in G
  <2>1. /\ Fits(p, n)[i] = FitsStep(p, n, Fits(p, n), i)
        /\ Fits(q, n)[i] = FitsStep(q, n, Fits(q, n), i)
    BY <1>0, FitsIs
  <2>2. /\ QName(p, n)[i] = TextStep(p, n, QName(p, n), i)
        /\ QName(q, n)[i] = TextStep(q, n, QName(q, n), i)
    BY <1>0, TextIs
  <2>3. LastLabel(p, n, i) <=> LastLabel(q, n, i)
    BY AgreeLabels
  <2>4. CASE LastLabel(p, n, i)
    <3>1. SameQuestion(p, q, n, i)
      BY <2>1, <2>2, <2>3, <2>4, Zenon DEF FitsStep, TextStep, SameQuestion
    <3>. QED  BY <3>1
  <2>5. CASE ~LastLabel(p, n, i)
    <3>1. NextLabel(p, i) = NextLabel(q, i) /\ Byte(p, i) = Byte(q, i)
      BY <2>5, AgreeLabels
    <3>2. i < n /\ NextLabel(p, i) \in Nat /\ NextLabel(p, i) > i
      BY <1>0, <2>5, LabelFollows
    <3>3. SameQuestion(p, q, n, NextLabel(p, i))
      BY <1>1, <3>2
    <3>4. Fits(p, n)[i] <=> Fits(q, n)[i]
      BY <2>1, <2>3, <3>1, <3>3, Zenon DEF FitsStep, SameQuestion
    <3>5. ASSUME Fits(p, n)[i] PROVE QName(p, n)[i] = QName(q, n)[i]
      <4>1. NextLabel(p, i) <= n /\ Fits(p, n)[NextLabel(p, i)]
        BY <2>1, <2>5, <3>5, Zenon DEF FitsStep
      <4>2. Characters(p, i + 1, Byte(p, i)) = Characters(q, i + 1, Byte(p, i))
        BY <2>5, <4>1, AgreeText
      <4>3. QName(p, n)[NextLabel(p, i)] = QName(q, n)[NextLabel(p, i)]
        BY <3>3, <4>1, Zenon DEF SameQuestion
      <4>. QED  BY <2>2, <2>3, <2>5, <3>1, <4>2, <4>3 DEF TextStep
    <3>6. SameQuestion(p, q, n, i)
      BY <3>4, <3>5, Zenon DEF SameQuestion
    <3>. QED  BY <3>6
  <2>. QED  BY <2>4, <2>5
<1>. HIDE DEF G
<1>2. \A i \in Nat : i \in G
  BY ONLY <1>0, <1>1, Downward
<1>3. SameQuestion(p, q, n, 12)
  BY <1>2 DEF G
<1>. QED  BY <1>3, Zenon DEF SameQuestion, extract_dns_query

(* The places of the labels of a question, and the name they make.         *)
Labels(p, n, m, at) ==
  /\ at[1] = 12
  /\ \A j \in 1 .. m : ~LastLabel(p, n, at[j]) /\ at[j + 1] = NextLabel(p, at[j])
  /\ \A j \in 1 .. m : at[j + 1] <= n

Joined(p, m, at, whole) ==
  /\ whole[m + 1] = NoDomain
  /\ \A j \in 1 .. m : whole[j] = Dotted(Characters(p, at[j] + 1, Byte(p, at[j])), whole[j + 1])

(* The name of a question is that of all its labels in their order, up to  *)
(* a zero, a pointer or the end of the datagram (packet_processor.cpp:     *)
(* 82-91), ...                                                             *)
THEOREM QuestionNamesLabels ==
  ASSUME NEW p \in Octets, NEW n \in Nat, n <= Len(p), n > 12,
         NEW m \in Nat, NEW at \in [1 .. m + 1 -> Nat], Labels(p, n, m, at),
         LastLabel(p, n, at[m + 1]), NEW whole, Joined(p, m, at, whole)
  PROVE  extract_dns_query(p, n) = whole[1]
<1>. DEFINE G == {j \in Nat : 1 <= j /\ j <= m + 1 =>
                     Fits(p, n)[at[j]] /\ QName(p, n)[at[j]] = whole[j]}
<1>1. ASSUME NEW j \in Nat, j < m + 1 => \A k \in Nat : k > j => k \in G
      PROVE  j \in G
  <2>. SUFFICES ASSUME 1 <= j, j <= m + 1
                PROVE  Fits(p, n)[at[j]] /\ QName(p, n)[at[j]] = whole[j]
    OBVIOUS
  <2>1. at[j] \in Nat
    OBVIOUS
  <2>2. /\ Fits(p, n)[at[j]] = FitsStep(p, n, Fits(p, n), at[j])
        /\ QName(p, n)[at[j]] = TextStep(p, n, QName(p, n), at[j])
    BY <2>1, FitsIs, TextIs
  <2>3. CASE j = m + 1
    <3>1. LastLabel(p, n, at[j]) /\ whole[j] = NoDomain
      BY <2>3 DEF Joined
    <3>. QED  BY <2>2, <3>1, Zenon DEF FitsStep, TextStep
  <2>4. CASE j < m + 1
    <3>1. j \in 1 .. m /\ j + 1 \in Nat /\ j + 1 > j /\ 1 <= j + 1 /\ j + 1 <= m + 1
      BY <2>4
    <3>2. ~LastLabel(p, n, at[j]) /\ at[j + 1] = NextLabel(p, at[j]) /\ at[j + 1] <= n
      BY <3>1, Zenon DEF Labels
    <3>3. whole[j] = Dotted(Characters(p, at[j] + 1, Byte(p, at[j])), whole[j + 1])
      BY <3>1, Zenon DEF Joined
    <3>4. j + 1 \in G
      BY <1>1, <2>4, <3>1
    <3>5. Fits(p, n)[at[j + 1]] /\ QName(p, n)[at[j + 1]] = whole[j + 1]
      BY <3>1, <3>4
    <3>6. Fits(p, n)[at[j]]
      BY <2>2, <3>2, <3>5, Zenon DEF FitsStep
    <3>7. QName(p, n)[at[j]] = whole[j]
      BY <2>2, <3>2, <3>3, <3>5 DEF TextStep
    <3>. QED  BY <3>6, <3>7
  <2>. QED  BY <2>3, <2>4
<1>. HIDE DEF G
<1>2. \A j \in Nat : j \in G
  BY ONLY <1>1, m + 1 \in Nat, Downward
<1>3. Fits(p, n)[at[1]] /\ QName(p, n)[at[1]] = whole[1]
  BY <1>2 DEF G
<1>4. at[1] = 12
  BY DEF Labels
<1>. QED  BY <1>3, <1>4, n > 12, Zenon DEF extract_dns_query

(* ... and none of them if one runs past that end (:86).                   *)
THEOREM CutQuestionNamesNothing ==
  ASSUME NEW p \in Octets, NEW n \in Nat, n <= Len(p),
         NEW m \in Nat, NEW at \in [1 .. m + 1 -> Nat], Labels(p, n, m, at),
         ~LastLabel(p, n, at[m + 1]), NextLabel(p, at[m + 1]) > n
  PROVE  extract_dns_query(p, n) = NoDomain
<1>. DEFINE G == {j \in Nat : 1 <= j /\ j <= m + 1 => ~Fits(p, n)[at[j]]}
<1>1. ASSUME NEW j \in Nat, j < m + 1 => \A k \in Nat : k > j => k \in G
      PROVE  j \in G
  <2>. SUFFICES ASSUME 1 <= j, j <= m + 1
                PROVE  ~Fits(p, n)[at[j]]
    OBVIOUS
  <2>1. at[j] \in Nat
    OBVIOUS
  <2>2. Fits(p, n)[at[j]] = FitsStep(p, n, Fits(p, n), at[j])
    BY <2>1, FitsIs
  <2>3. CASE j = m + 1
    <3>1. NextLabel(p, at[j]) \in Nat
      BY <2>1, <2>3, LabelFollows
    <3>2. ~LastLabel(p, n, at[j]) /\ ~(NextLabel(p, at[j]) <= n)
      BY <2>3, <3>1
    <3>. QED  BY <2>2, <3>2, Zenon DEF FitsStep
  <2>4. CASE j < m + 1
    <3>1. j \in 1 .. m /\ j + 1 \in Nat /\ j + 1 > j /\ 1 <= j + 1 /\ j + 1 <= m + 1
      BY <2>4
    <3>2. ~LastLabel(p, n, at[j]) /\ at[j + 1] = NextLabel(p, at[j])
      BY <3>1, Zenon DEF Labels
    <3>3. j + 1 \in G
      BY <1>1, <2>4, <3>1
    <3>4. ~Fits(p, n)[at[j + 1]]
      BY <3>1, <3>3
    <3>. QED  BY <2>2, <3>2, <3>4, Zenon DEF FitsStep
  <2>. QED  BY <2>3, <2>4
<1>. HIDE DEF G
<1>2. \A j \in Nat : j \in G
  BY ONLY <1>1, m + 1 \in Nat, Downward
<1>3. ~Fits(p, n)[at[1]]
  BY <1>2 DEF G
<1>4. at[1] = 12
  BY DEF Labels
<1>. QED  BY <1>3, <1>4, Zenon DEF extract_dns_query
=============================================================================
