------------------------ MODULE PacketTxQueueProofs ------------------------
(***************************************************************************)
(* Theorems about PacketTxQueue, for any number of workers, any packets    *)
(* and any limit, with the stop of the queue or without; and, when the     *)
(* packets are the injector's, about the answers in it, for any segments   *)
(* and datagrams that clients may have sent.                               *)
(*                                                                         *)
(* A packet is built word by word, so most lemmas say which words are      *)
(* where; those of one packet are the parts of a definition ...Has.        *)
(***************************************************************************)
EXTENDS Answers, DataTheorems

(* What a push and a pop leave in the queue.                               *)
LEMMA QueueTypes ==
  ASSUME queue \in Seq(RawPacket), Len(queue) <= Capacity
  PROVE  /\ \A p \in RawPacket :
              Fifo!Push(p) => queue' \in Seq(RawPacket) /\ Len(queue') <= Capacity
         /\ Fifo!Pop =>
              /\ queue' \in Seq(RawPacket) /\ Len(queue') <= Capacity
              /\ Head(queue) \in RawPacket
<1>1. Len(queue) \in Nat /\ Capacity \in Nat \ {0}
  BY QueueAssumption
<1>2. queue # <<>> =>
        /\ Tail(queue) \in Seq(RawPacket) /\ Len(Tail(queue)) = Len(queue) - 1
        /\ Head(queue) \in RawPacket
  OBVIOUS
<1>3. ASSUME NEW p \in RawPacket, Fifo!Push(p)
      PROVE  queue' \in Seq(RawPacket) /\ Len(queue') <= Capacity
  <2>1. CASE Len(queue) >= Capacity
    <3>1. queue # <<>>
      BY <1>1, <2>1
    <3>2. queue' = Append(Tail(queue), p)
      BY <1>3, <2>1 DEF Fifo!Push, Fifo!Pushed
    <3>3. Len(Append(Tail(queue), p)) = Len(Tail(queue)) + 1
      BY <1>2, <3>1
    <3>4. QED
      BY <1>1, <1>2, <3>1, <3>2, <3>3
  <2>2. CASE ~(Len(queue) >= Capacity)
    <3>1. queue' = Append(queue, p)
      BY <1>3, <2>2 DEF Fifo!Push, Fifo!Pushed
    <3>2. QED
      BY <1>1, <2>2, <3>1
  <2>3. QED
    BY <2>1, <2>2
<1>4. QED
  BY <1>1, <1>2, <1>3 DEF Fifo!Pop

(* The invariant: the types, no packet that nobody will announce, and the  *)
(* reason for it: between the test and the wait the mutex keeps the queue  *)
(* as empty as the test found it.                                          *)
Inv ==
  /\ TypeOK
  /\ NoLostPush
  /\ sender = "park" => queue = <<>>

LEMMA InvInit == Init => Inv
<1> SUFFICES ASSUME Init PROVE Inv
  OBVIOUS
<1>1. queue \in Seq(RawPacket) /\ Len(queue) <= Capacity
  BY QueueAssumption DEF Init
<1>2. TypeOK
  BY <1>1 DEF Init, TypeOK
<1>3. QED
  BY <1>2 DEF Init, Inv, NoLostPush

LEMMA InvStep == Inv /\ [Next]_vars => Inv'
<1> SUFFICES ASSUME Inv, [Next]_vars PROVE Inv'
  OBVIOUS
<1> USE QueueAssumption
<1>1. ASSUME NEW w \in Pushers, NEW p \in RawPacket, Push(w, p) PROVE Inv'
  <2>1. queue' \in Seq(RawPacket) /\ Len(queue') <= Capacity
    BY <1>1, QueueTypes DEF Push, Inv, TypeOK
  <2>2. pushing'[w] = "notify"
    BY <1>1 DEF Push, Inv, TypeOK
  <2>3. sender' # "park"
    BY <1>1 DEF Push, Inv, TypeOK
  <2>4. TypeOK'
    BY <1>1, <2>1 DEF Push, Inv, TypeOK
  <2>5. QED
    BY <2>2, <2>3, <2>4 DEF Inv, NoLostPush
<1>2. ASSUME NEW w \in Pushers, Notify(w) PROVE Inv'
  BY <1>2 DEF Notify, Wake, Inv, TypeOK, NoLostPush
<1>3. CASE Lock
  BY <1>3 DEF Lock, Inv, TypeOK, NoLostPush
<1>4. CASE Test
  BY <1>4 DEF Test, Inv, TypeOK, NoLostPush
<1>5. CASE Park
  BY <1>5 DEF Park, Inv, TypeOK, NoLostPush
<1>6. CASE Take
  <2>1. CASE stopped /\ sender' = "gone" /\ UNCHANGED <<queue, outPkt>>
    BY <1>6, <2>1 DEF Take, Inv, TypeOK, NoLostPush
  <2>2. CASE Fifo!Pop /\ outPkt' = Head(queue) /\ sender' = "send"
    <3>1. /\ queue' \in Seq(RawPacket) /\ Len(queue') <= Capacity
          /\ outPkt' \in RawPacket
      BY <2>2, QueueTypes DEF Inv, TypeOK
    <3>2. QED
      BY <1>6, <2>2, <3>1 DEF Take, Inv, TypeOK, NoLostPush
  <2>3. QED
    BY <1>6, <2>1, <2>2 DEF Take
<1>7. CASE Send
  BY <1>7 DEF Send, Inv, TypeOK, NoLostPush
<1>8. CASE SpuriousWake
  BY <1>8 DEF SpuriousWake, Inv, TypeOK, NoLostPush
<1>9. CASE StopStore
  BY <1>9 DEF StopStore, Inv, TypeOK, NoLostPush
<1>10. CASE StopNotify
  BY <1>10 DEF StopNotify, Wake, Inv, TypeOK, NoLostPush
<1>11. CASE Close
  BY <1>11 DEF Close, Inv, TypeOK, NoLostPush
<1>12. CASE UNCHANGED vars
  BY <1>12 DEF vars, Inv, TypeOK, NoLostPush
<1>13. QED
  BY <1>1, <1>2, <1>3, <1>4, <1>5, <1>6, <1>7, <1>8, <1>9, <1>10, <1>11, <1>12
     DEF Next, Pusher, Sender, Main

LEMMA Invariance == Spec => []Inv
BY InvInit, InvStep, PTL DEF Spec

(* Every variable keeps its type and the queue its limit.                  *)
THEOREM TypeCorrect == Spec => []TypeOK
BY Invariance, PTL DEF Inv

(* The sender never sleeps on a packet that no worker is about to announce.*)
THEOREM NoPushIsLost == Spec => []NoLostPush
BY Invariance, PTL DEF Inv

(* The queue of the threads, the mutex and the condition variable is the   *)
(* abstract bounded FIFO: every step is one of its steps or leaves the     *)
(* queue alone.                                                            *)
THEOREM QueueImplementsFifo == Spec => ImplementsFifo
<1>1. Init => Fifo!Init
  BY DEF Init, Fifo!Init
<1>2. [Next]_vars => [Fifo!Next]_queue
  <2> SUFFICES ASSUME [Next]_vars PROVE [Fifo!Next]_queue
    OBVIOUS
  <2>1. ASSUME NEW w \in Pushers, NEW p \in RawPacket, Push(w, p) PROVE Fifo!Next
    BY <2>1 DEF Push, Fifo!Next
  <2>2. CASE Take
    BY <2>2 DEF Take, Fifo!Next
  <2>3. QED
    BY <2>1, <2>2 DEF Next, Pusher, Sender, Main, Notify, Lock, Test, Park, Send,
       SpuriousWake, StopStore, StopNotify, Close, vars
<1>3. QED
  BY <1>1, <1>2, PTL DEF Spec, ImplementsFifo, Fifo!Spec
-----------------------------------------------------------------------------
(* calculate_checksum.                                                     *)

(* A multiple of 65535 more leaves the same remainder by 65535, ...        *)
LEMMA Remainder ==
  ASSUME NEW m \in Int, NEW k \in Int
  PROVE  (m + 65535 * k) % 65535 = m % 65535
  BY SMT

(* ... and a number is its quotient by 65536 and its remainder.            *)
LEMMA Divided ==
  ASSUME NEW m \in Int
  PROVE  /\ m \div 65536 \in Int /\ m % 65536 \in Int
         /\ 0 <= m % 65536 /\ m % 65536 < 65536
         /\ m = 65536 * (m \div 65536) + (m % 65536)
  BY SMT

(* Adding the carry to the low word makes a number smaller and keeps its   *)
(* remainder by 65535.                                                     *)
LEMMA CarryKeeps ==
  ASSUME NEW m \in Nat, m >= 65536
  PROVE  /\ (m % 65536) + (m \div 65536) \in Nat
         /\ 0 < (m % 65536) + (m \div 65536) /\ (m % 65536) + (m \div 65536) < m
         /\ ((m % 65536) + (m \div 65536) - 1) % 65535 = (m - 1) % 65535
         /\ ((m % 65536) + (m \div 65536)) % 65535 = m % 65535
<1>1. PICK q \in Int, r \in Int :
        q = m \div 65536 /\ r = m % 65536 /\ 0 <= r /\ r < 65536 /\ m = 65536 * q + r
  BY Divided
<1>2. q > 0
  BY <1>1, SMT
<1>3. m = (r + q) + 65535 * q
  BY <1>1, SMT
<1>4. (r + q) \in Nat /\ 0 < r + q /\ r + q < m
  BY <1>1, <1>2, <1>3, SMT
<1>5. (r + q) % 65535 = m % 65535
  <2>1. ((r + q) + 65535 * q) % 65535 = (r + q) % 65535
    BY <1>4, Remainder, SMT
  <2>. QED  BY <1>3, <2>1
<1>6. (r + q - 1) % 65535 = (m - 1) % 65535
  <2>1. ((r + q - 1) + 65535 * q) % 65535 = (r + q - 1) % 65535
    BY <1>4, Remainder, SMT
  <2>2. m - 1 = (r + q - 1) + 65535 * q
    BY <1>1, <1>3, SMT
  <2>. QED  BY <2>1, <2>2
<1>. QED  BY <1>1, <1>4, <1>5, <1>6

(* Carried is a solution of its equation, since there is one: the number   *)
(* itself, if it is 0, or its remainder by 65535 among 1 .. 65535.         *)
LEMMA CarriedStep ==
  ASSUME NEW n \in Nat
  PROVE  Carried[n] = IF n < Word THEN n ELSE Carried[(n % Word) + (n \div Word)]
<1>. DEFINE Step(g) == [m \in Nat |-> IF m < Word THEN m ELSE g[(m % Word) + (m \div Word)]]
            w == [m \in Nat |-> IF m = 0 THEN 0 ELSE 1 + ((m - 1) % 65535)]
<1>1. w = Step(w)
  <2>1. ASSUME NEW m \in Nat, m < 65536 PROVE w[m] = m
    BY <2>1, SMT
  <2>2. ASSUME NEW m \in Nat, m >= 65536 PROVE w[m] = w[(m % 65536) + (m \div 65536)]
    <3>1. PICK k \in Nat : k = (m % 65536) + (m \div 65536)
      BY <2>2, CarryKeeps
    <3>2. 0 < k /\ (k - 1) % 65535 = (m - 1) % 65535
      BY <2>2, <3>1, CarryKeeps
    <3>3. w[m] = 1 + ((m - 1) % 65535) /\ w[k] = 1 + ((k - 1) % 65535)
      BY <2>2, <3>2
    <3>. QED  BY <3>1, <3>2, <3>3
  <2>. HIDE DEF w
  <2>3. w = [m \in Nat |-> w[m]]
    BY DEF w
  <2>4. \A m \in Nat : w[m] = IF m < Word THEN m ELSE w[(m % Word) + (m \div Word)]
    BY <2>1, <2>2 DEF Word
  <2>. QED  BY <2>3, <2>4
<1>2. Carried = Step(Carried)
  <2>. HIDE DEF w
  <2>. QED  BY <1>1 DEF Carried
<1>. QED  BY <1>2

(* What the loop of the code does with a sum of one word, ...              *)
LEMMA CarriedSmall ==
  ASSUME NEW n \in Nat, n < 65536
  PROVE  Carried[n] = n
<1>1. n < Word
  BY SMT DEF Word
<1>. QED  BY <1>1, CarriedStep, SMT

(* ... and with a larger one.                                              *)
LEMMA CarriedLarge ==
  ASSUME NEW n \in Nat, n >= 65536
  PROVE  Carried[n] = Carried[(n % 65536) + (n \div 65536)]
<1>1. ~(n < Word)
  BY SMT DEF Word
<1>2. Carried[n] = Carried[(n % Word) + (n \div Word)]
  BY <1>1, CarriedStep, SMT
<1>. QED  BY <1>2, SMT DEF Word

(* A sum keeps its remainder and fits a word in the end, ...               *)
Kept(n) ==
  /\ Carried[n] \in Nat /\ Carried[n] <= 65535
  /\ Carried[n] % 65535 = n % 65535
  /\ n > 0 => Carried[n] > 0

(* calculate_checksum adds up ... *)
LEMMA CarriedKeeps == \A n \in Nat : Kept(n)
<1>. DEFINE T == {n \in Nat : ~Kept(n)}
<1>. SUFFICES ASSUME T # {} PROVE FALSE
  OBVIOUS
<1>1. T \subseteq Nat
  OBVIOUS
<1>. HIDE DEF T
<1>2. PICK m \in T : \A k \in T : m <= k
  BY <1>1, Least
<1>3. m \in Nat /\ ~Kept(m)
  BY DEF T
<1>4. m >= 65536
  <2>1. ASSUME m < 65536 PROVE Kept(m)
    <3>1. Carried[m] = m
      BY <1>3, <2>1, CarriedSmall
    <3>. QED  BY <1>3, <2>1, <3>1, SMT DEF Kept
  <2>. QED  BY <1>3, <2>1, SMT
<1>5. PICK k \in Nat : k = (m % 65536) + (m \div 65536)
  BY <1>3, <1>4, CarryKeeps
<1>6. 0 < k /\ k < m /\ k % 65535 = m % 65535
  BY <1>3, <1>4, <1>5, CarryKeeps
<1>7. Carried[m] = Carried[k]
  BY <1>3, <1>4, <1>5, CarriedLarge
<1>8. k \notin T
  BY <1>1, <1>2, <1>3, <1>6, SMT
<1>9. Kept(k)
  BY <1>8 DEF T
<1>. QED  BY <1>3, <1>6, <1>7, <1>9, SMT DEF Kept

(* The sum over a sequence in the form that has theorems.                  *)
LEMMA SumIsCount ==
  ASSUME NEW s \in Seq(Nat)
  PROVE  Sum(s) = Count(s, 1 .. Len(s))
<1>1. s \in [1 .. Len(s) -> Nat] /\ Len(s) \in Nat
  OBVIOUS
<1> QED BY <1>1, FoldLeftIsCount, Zenon DEF Sum

(* The complement of a carried sum makes the sum a multiple of 65535, ...  *)
LEMMA Complement ==
  ASSUME NEW n \in Nat, n > 0, NEW c, c = Carried[n]
  PROVE  /\ c \in Int /\ 0 < c /\ c <= 65535
         /\ (n + (65535 - c)) % 65535 = 0
<1>1. c \in Int /\ 0 < c /\ c <= 65535 /\ c % 65535 = n % 65535
  BY CarriedKeeps, SMT DEF Kept
<1>2. PICK a \in Int, b \in Int, x \in Int : n = 65535 * a + x /\ c = 65535 * b + x
  <2>1. n = 65535 * (n \div 65535) + (n % 65535) /\ n \div 65535 \in Int /\ n % 65535 \in Int
    BY SMT
  <2>2. c = 65535 * (c \div 65535) + (c % 65535) /\ c \div 65535 \in Int
    BY <1>1, SMT
  <2>. QED  BY <1>1, <2>1, <2>2, SMT
<1>3. PICK k \in Int : k = a - b + 1
  BY SMT
<1>4. n + (65535 - c) = 0 + 65535 * k
  BY <1>2, <1>3, SMT
<1>5. (0 + 65535 * k) % 65535 = 0 % 65535
  BY Remainder, SMT
<1>6. 0 % 65535 = 0
  BY SMT
<1>. QED  BY <1>1, <1>4, <1>5, <1>6, SMT

(* ... so calculate_checksum is a word that does, ...                      *)
LEMMA ChecksumRange ==
  ASSUME NEW s \in Seq(Nat), Sum(s) > 0, Sum(s) \in Nat, NEW c, c = calculate_checksum(s)
  PROVE  /\ c \in Words
         /\ (Sum(s) + c) % 65535 = 0
<1>n. PICK n \in Nat : n = Sum(s)
  OBVIOUS
<1>d. PICK d : d = Carried[n]
  OBVIOUS
<1>1. n > 0
  BY <1>n
<1>2. /\ d \in Int /\ 0 < d /\ d <= 65535
      /\ (n + (65535 - d)) % 65535 = 0
  BY <1>1, <1>d, Complement
<1>3. c = 65536 - 1 - d
  BY <1>n, <1>d DEF calculate_checksum, Word
<1>4. c = 65535 - d
  BY <1>2, <1>3, SMT
<1>5. c \in Int /\ 0 <= c /\ c < 65536
  <2>1. PICK e \in Int : e = d
    BY <1>2
  <2>2. 0 < e /\ e <= 65535 /\ c = 65535 - e
    BY <1>2, <1>4, <2>1
  <2>. QED  BY ONLY <2>2, SMT
<1>6. c \in Words
  <2>1. PICK w \in Int : w = 65535
    BY SMT
  <2>2. Word - 1 = w
    BY <2>1, SMT DEF Word
  <2>3. c \in Int /\ 0 <= c /\ c <= w
    BY <1>5, <2>1, SMT
  <2>4. c \in 0 .. w
    BY ONLY <2>3, SMT
  <2>. QED  BY <2>2, <2>4 DEF Words
<1>. QED  BY <1>n, <1>2, <1>4, <1>6

(* ... and a sequence with it in the place of a 0 passes the test of its   *)
(* receiver.                                                               *)
Checked(s, i) == [s EXCEPT ![i] = calculate_checksum(s)]
LEMMA ChecksumVerifies ==
  ASSUME NEW s \in Seq(Words), NEW i \in 1 .. Len(s), s[i] = 0,
         NEW j \in 1 .. Len(s), s[j] # 0
  PROVE  /\ calculate_checksum(s) \in Words
         /\ Checked(s, i) \in Seq(Words) /\ Len(Checked(s, i)) = Len(s)
         /\ \A k \in 1 .. Len(s) : k # i => Checked(s, i)[k] = s[k]
         /\ SumsUp(Checked(s, i))
<1>t. PICK t : t = Checked(s, i)
  OBVIOUS
<1>d. PICK d : d = 1 .. Len(s)
  OBVIOUS
<1>c. PICK c : c = calculate_checksum(s)
  OBVIOUS
<1>1. Words \subseteq Nat
  <2>1. PICK n \in Int : n = Word - 1
    BY SMT DEF Word
  <2>2. 0 .. n \subseteq Nat
    BY ONLY n \in Int, SMT
  <2>. QED  BY ONLY <2>1, <2>2, Zenon DEF Words
<1>2. s \in Seq(Nat)
  BY <1>1, SeqMonotonic
<1>3. s \in [d -> Nat] /\ IsFiniteSet(d) /\ i \in d /\ j \in d
  <2>1. Len(s) \in Nat /\ s \in [1 .. Len(s) -> Nat]
    BY <1>2, LenProperties
  <2>2. IsFiniteSet(1 .. Len(s))
    BY <2>1, FS_Interval
  <2>. QED  BY <1>d, <2>1, <2>2
<1>4. Sum(s) = Count(s, d)
  BY <1>2, <1>d, SumIsCount
<1>5. Sum(s) \in Nat /\ Sum(s) > 0
  <2>1. Count(s, d) \in Nat
    BY <1>3, CountSplit
  <2>2. Count(s, d) # 0
    <3>1. Count(s, d) = 0 <=> \A x \in d : s[x] = 0
      BY <1>3, CountNothing
    <3>. QED  BY <1>3, <3>1
  <2>. QED  BY <1>4, <2>1, <2>2
<1>6. c \in Words /\ (Sum(s) + c) % 65535 = 0
  BY <1>2, <1>5, <1>c, ChecksumRange
<1>7. t = [s EXCEPT ![i] = c]
  BY <1>t, <1>c DEF Checked
<1>8. /\ t \in Seq(Words) /\ Len(t) = Len(s)
      /\ \A k \in 1 .. Len(s) : t[k] = IF k = i THEN c ELSE s[k]
  BY <1>6, <1>7, SeqExcept
<1>9. t \in Seq(Nat)
  BY <1>1, <1>8, SeqMonotonic
<1>10. t \in [d -> Nat]
  BY <1>9, <1>8, <1>d, LenProperties
<1>11. Sum(t) = Count(t, d)
  BY <1>9, <1>8, <1>d, SumIsCount
<1>12. \A k \in d \ {i} : t[k] = s[k]
  BY <1>8, <1>d
<1>13. Count(t, d) = Count(s, d) - s[i] + t[i]
  BY ONLY <1>3, <1>10, <1>12, CountUpdate
<1>14. t[i] = c
  BY <1>8
<1>15. Sum(t) = Sum(s) - 0 + c
  BY <1>4, <1>11, <1>13, <1>14
<1>16. c \in Nat
  BY <1>6, <1>1
<1>17. Sum(t) = Sum(s) + c
  BY <1>5, <1>15, <1>16
<1>18. SumsUp(t)
  BY <1>5, <1>6, <1>16, <1>17 DEF SumsUp
<1>. QED  BY <1>t, <1>c, <1>6, <1>8, <1>18

(* The words as the provers can use them.                                  *)
LEMMA WordsAre == \A x : x \in Words <=> x \in Int /\ 0 <= x /\ x < 65536
<1>1. PICK w \in Int : w = 65535
  BY SMT
<1>2. Word - 1 = w
  BY <1>1, SMT DEF Word
<1>3. \A x : x \in 0 .. w <=> x \in Int /\ 0 <= x /\ x <= w
  BY ONLY w \in Int, SMT
<1>4. \A x \in Int : x <= w <=> x < 65536
  BY <1>1, SMT
<1>. QED  BY <1>2, <1>3, <1>4 DEF Words
-----------------------------------------------------------------------------
(* The packets that the injector makes.                                    *)

(* Addresses, ports and numbers are two words.                             *)
Pairs == {pair \in Seq(Words) : Len(pair) = 2}

LEMMA WordPair ==
  ASSUME NEW x \in Words, NEW y \in Words
  PROVE  <<x, y>> \in Pairs
  BY DEF Pairs

LEMMA LongIsPair ==
  ASSUME NEW n \in Int
  PROVE  Long(n) \in Pairs
<1>1. (n \div Word) % Word \in Words /\ n % Word \in Words
  <2>1. n \div 65536 \in Int /\ n % 65536 \in Int /\ 0 <= n % 65536 /\ n % 65536 < 65536
    BY Divided
  <2>2. LET m == n \div 65536 IN m % 65536 \in Int /\ 0 <= m % 65536 /\ m % 65536 < 65536
    BY <2>1, Divided
  <2>. QED  BY <2>1, <2>2, WordsAre DEF Word
<1>. QED  BY <1>1, WordPair DEF Long

(* What the code writes for seq + length is two words, with the carry      *)
(* between them.                                                           *)
LEMMA PlusIsPair ==
  ASSUME NEW long \in Pairs, NEW n \in Nat
  PROVE  Plus(long, n) \in Pairs
<1>1. long[1] \in Words /\ long[2] \in Words
  BY DEF Pairs
<1>2. long[1] \in Int /\ long[2] \in Int
  BY <1>1, WordsAre
<1>. DEFINE low == long[2] + n
<1>3. low \in Int
  BY <1>2
<1>. HIDE DEF low
<1>4. low \div 65536 \in Int /\ low % 65536 \in Words
  BY <1>3, Divided, WordsAre
<1>5. (long[1] + (low \div 65536)) % 65536 \in Words
  <2>1. PICK m \in Int : m = long[1] + (low \div 65536)
    BY <1>2, <1>4
  <2>. QED  BY <2>1, Divided, WordsAre
<1>6. Plus(long, n) = <<(long[1] + (low \div 65536)) % 65536, low % 65536>>
  BY DEF Plus, Word, low
<1>. QED  BY <1>4, <1>5, <1>6, WordPair

(* The IP header of an answer.                                             *)
IpHeaderHas(h, proto, from, to) ==
  /\ h \in Seq(Words) /\ Len(h) = 10
  /\ h[1] = 17664 /\ h[5] = 16384 + proto
  /\ h[7] = from[1] /\ h[8] = from[2] /\ h[9] = to[1] /\ h[10] = to[2]
  /\ SumsUp(h)

LEMMA IpHeaderSums ==
  ASSUME NEW id \in Words, NEW proto \in {1, 6}, NEW len \in Nat, len < 200,
         NEW from \in Pairs, NEW to \in Pairs
  PROVE  IpHeaderHas(IpHeader(id, proto, from, to, len), proto, from, to)
<1>h. PICK h : h = IpHeader(id, proto, from, to, len)
  OBVIOUS
<1>1. 17664 \in Words /\ 0 \in Words /\ 16384 + proto \in Words /\ 20 + len \in Words
  BY WordsAre, SMT
<1>2. from \in Seq(Words) /\ Len(from) = 2 /\ to \in Seq(Words) /\ Len(to) = 2
  BY DEF Pairs
<1>n. PICK l \in Words, m \in Words, p \in Words, z \in Words :
         l = 17664 /\ m = 20 + len /\ p = 16384 + proto /\ z = 0
  BY <1>1
<1>a. PICK a : a = <<l, m, id, z, p, z>>
  OBVIOUS
<1>3. a \in Seq(Words) /\ Len(a) = 6 /\ a[1] = 17664 /\ a[5] = 16384 + proto /\ a[6] = 0
  <2>1. a \in Seq(Words) /\ Len(a) = 6 /\ a[1] = l /\ a[5] = p /\ a[6] = z
    BY <1>a
  <2>. QED  BY <1>n, <2>1
<1>b. PICK b : b = a \o from
  OBVIOUS
<1>4. a \in Seq(Words) /\ from \in Seq(Words) /\ to \in Seq(Words)
  BY <1>2, <1>3
<1>5. /\ b \in Seq(Words) /\ Len(b) = Len(a) + Len(from)
      /\ \A k \in 1 .. Len(a) : b[k] = a[k]
      /\ \A k \in Len(a) + 1 .. Len(b) : b[k] = from[k - Len(a)]
  BY <1>4, <1>b, SeqConcat
<1>6. /\ Len(b) = 8 /\ b[1] = 17664 /\ b[5] = 16384 + proto /\ b[6] = 0
      /\ b[7] = from[1] /\ b[8] = from[2]
  BY <1>2, <1>3, <1>5
<1>7. b \in Seq(Words)
  BY <1>5
<1>c. PICK c : c = b \o to
  OBVIOUS
<1>8. /\ c \in Seq(Words) /\ Len(c) = Len(b) + Len(to)
      /\ \A k \in 1 .. Len(b) : c[k] = b[k]
      /\ \A k \in Len(b) + 1 .. Len(c) : c[k] = to[k - Len(b)]
  BY <1>4, <1>7, <1>c, SeqConcat
<1>9. /\ Len(c) = 10 /\ c[1] = 17664 /\ c[5] = 16384 + proto /\ c[6] = 0
      /\ c[7] = from[1] /\ c[8] = from[2] /\ c[9] = to[1] /\ c[10] = to[2]
  BY <1>2, <1>6, <1>8
<1>10. c \in Seq(Words)
  BY <1>8
<1>11. PICK i \in 1 .. Len(c), j \in 1 .. Len(c) : i = 6 /\ j = 1
  BY <1>9
<1>12. h = Checked(c, i)
  BY <1>h, <1>n, <1>a, <1>b, <1>c, <1>11 DEF IpHeader, Checked
<1>13. c[i] = 0 /\ c[j] # 0
  BY <1>9, <1>11
<1>14. /\ Checked(c, i) \in Seq(Words) /\ Len(Checked(c, i)) = Len(c)
       /\ \A k \in 1 .. Len(c) : k # i => Checked(c, i)[k] = c[k]
       /\ SumsUp(Checked(c, i))
  BY <1>10, <1>13, ChecksumVerifies
<1>15. IpHeaderHas(h, proto, from, to)
  BY <1>9, <1>11, <1>12, <1>14 DEF IpHeaderHas
<1>. QED  BY ONLY <1>h, <1>15, Zenon

(* What the code puts before a segment for its checksum.                   *)
PseudoHas(q) == q \in Seq(Words) /\ Len(q) = 6 /\ q[5] = 6
AddressesAre(a, from, to) ==
  /\ a \in Seq(Words) /\ Len(a) = 4
  /\ a[1] = from[1] /\ a[2] = from[2] /\ a[3] = to[1] /\ a[4] = to[2]

LEMMA PseudoHeader ==
  ASSUME NEW from \in Pairs, NEW to \in Pairs
  PROVE  PseudoHas(from \o to \o <<6, 20>>) /\ AddressesAre(from \o to, from, to)
<1>q. PICK q : q = from \o to \o <<6, 20>>
  OBVIOUS
<1>1. from \in Seq(Words) /\ Len(from) = 2 /\ to \in Seq(Words) /\ Len(to) = 2
  BY DEF Pairs
<1>a. PICK a : a = from \o to
  OBVIOUS
<1>2. from \in Seq(Words) /\ to \in Seq(Words)
  BY <1>1
<1>3. /\ a \in Seq(Words) /\ Len(a) = Len(from) + Len(to)
      /\ \A k \in 1 .. Len(from) : a[k] = from[k]
      /\ \A k \in Len(from) + 1 .. Len(a) : a[k] = to[k - Len(from)]
  BY <1>2, <1>a, SeqConcat
<1>4. Len(a) = 4 /\ a[1] = from[1] /\ a[2] = from[2] /\ a[3] = to[1] /\ a[4] = to[2]
  BY <1>1, <1>3
<1>b. PICK b : b = <<6, 20>>
  OBVIOUS
<1>5. b \in Seq(Words) /\ Len(b) = 2 /\ b[1] = 6
  <2>1. 6 \in Words /\ 20 \in Words
    BY ONLY WordsAre, SMT
  <2>. QED  BY <1>b, <2>1
<1>6. a \in Seq(Words) /\ b \in Seq(Words) /\ q = a \o b
  BY <1>3, <1>5, <1>a, <1>b, <1>q
<1>7. /\ q \in Seq(Words) /\ Len(q) = Len(a) + Len(b)
      /\ \A k \in Len(a) + 1 .. Len(q) : q[k] = b[k - Len(a)]
  BY ONLY <1>6, SeqConcat
<1>8. Len(q) = 6 /\ q[5] = 6
  BY <1>4, <1>5, <1>7
<1>9. PseudoHas(q)
  BY ONLY <1>7, <1>8, Zenon DEF PseudoHas
<1>10. AddressesAre(a, from, to)
  BY ONLY <1>3, <1>4, Zenon DEF AddressesAre
<1>. QED  BY ONLY <1>a, <1>q, <1>9, <1>10, Zenon

(* A segment with the checksum that the code gives it.                     *)
LEMMA SegmentSums ==
  ASSUME NEW from \in Pairs, NEW to \in Pairs,
         NEW tcp \in Seq(Words), Len(tcp) = 10, tcp[9] = 0
  PROVE  /\ Sealed(from, to, tcp) \in Seq(Words) /\ Len(Sealed(from, to, tcp)) = 10
         /\ \A k \in 1 .. 10 : k # 9 => Sealed(from, to, tcp)[k] = tcp[k]
         /\ SumsUp(Pseudogram(from, to, Sealed(from, to, tcp)))
<1>w. PICK w : w = Sealed(from, to, tcp)
  OBVIOUS
<1>q. PICK q : q = from \o to \o <<6, 20>>
  OBVIOUS
<1>1. q \in Seq(Words) /\ Len(q) = 6 /\ q[5] = 6
  BY ONLY from \in Pairs, to \in Pairs, <1>q, PseudoHeader, Zenon DEF PseudoHas
<1>2. q \in Seq(Words) /\ tcp \in Seq(Words)
  BY <1>1
<1>s. PICK s : s = q \o tcp
  OBVIOUS
<1>3. /\ s \in Seq(Words) /\ Len(s) = Len(q) + Len(tcp)
      /\ \A k \in 1 .. Len(q) : s[k] = q[k]
      /\ \A k \in Len(q) + 1 .. Len(s) : s[k] = tcp[k - Len(q)]
  BY ONLY <1>2, <1>s, SeqConcat
<1>4. Len(s) = 16 /\ s[15] = 0 /\ s[5] = 6
  BY <1>1, <1>3
<1>5. PICK i \in 1 .. Len(s), j \in 1 .. Len(s) : i = 15 /\ j = 5
  BY <1>4
<1>6. s \in Seq(Words) /\ s[i] = 0 /\ s[j] # 0
  BY <1>3, <1>4, <1>5
<1>7. calculate_checksum(s) \in Words /\ SumsUp(Checked(s, i))
  BY <1>6, ChecksumVerifies
<1>c. PICK c \in Words : c = calculate_checksum(s)
  BY <1>7
<1>8. w = [tcp EXCEPT ![9] = c]
  BY <1>w, <1>q, <1>s, <1>c DEF Sealed, Pseudogram
<1>9. PICK n \in 1 .. Len(tcp) : n = 9
  OBVIOUS
<1>10. w = [tcp EXCEPT ![n] = c]
  BY <1>8, <1>9
<1>11. /\ w \in Seq(Words) /\ Len(w) = Len(tcp)
       /\ \A k \in 1 .. Len(tcp) : w[k] = IF k = n THEN c ELSE tcp[k]
  BY ONLY <1>10, SeqExcept
<1>12. Checked(s, i) = [(q \o tcp) EXCEPT ![i] = c]
  BY <1>s, <1>c DEF Checked
<1>13. i = Len(q) + n
  BY <1>1, <1>5, <1>9
<1>14. [(q \o tcp) EXCEPT ![i] = c] = q \o [tcp EXCEPT ![n] = c]
  BY ONLY <1>2, <1>13, ExceptRight, SMTT(40)
<1>15. SumsUp(q \o w)
  BY <1>7, <1>10, <1>12, <1>14
<1>16. Pseudogram(from, to, w) = q \o w
  BY <1>q, Zenon DEF Pseudogram
<1>17. /\ w \in Seq(Words) /\ Len(w) = 10
       /\ \A k \in 1 .. 10 : k # 9 => w[k] = tcp[k]
  BY <1>9, <1>11
<1>18. SumsUp(Pseudogram(from, to, w))
  BY <1>15, <1>16, Zenon
<1>. QED  BY ONLY <1>w, <1>17, <1>18, Zenon

(* What an IP header and an inner packet make together.                    *)
AnswerHas(f, proto, from, to, w) ==
  /\ f.words \in Seq(Words)
  /\ f.words[5] % 256 = proto
  /\ SumsUp(SubSeq(f.words, 1, 10))
  /\ SubSeq(f.words, 7, 10) = from \o to
  /\ Saddr(f) = from /\ Daddr(f) = to
  /\ IpLen(f) = 20
  /\ Inner(f) = w

LEMMA PartsOfAnswer ==
  ASSUME NEW id \in Words, NEW proto \in {1, 6}, NEW len \in Nat, len < 200,
         NEW from \in Pairs, NEW to \in Pairs, NEW w \in Seq(Words),
         NEW f, f.words = IpHeader(id, proto, from, to, len) \o w
  PROVE  AnswerHas(f, proto, from, to, w)
<1>h. PICK h : h = IpHeader(id, proto, from, to, len)
  OBVIOUS
<1>1. /\ h \in Seq(Words) /\ Len(h) = 10
      /\ h[1] = 17664 /\ h[5] = 16384 + proto
      /\ h[7] = from[1] /\ h[8] = from[2] /\ h[9] = to[1] /\ h[10] = to[2]
      /\ SumsUp(h)
  <2>1. IpHeaderHas(IpHeader(id, proto, from, to, len), proto, from, to)
    BY ONLY len < 200, IpHeaderSums
  <2>. QED  BY ONLY <1>h, <2>1 DEF IpHeaderHas
<1>a. PICK a : a = f.words
  OBVIOUS
<1>2. h \in Seq(Words) /\ w \in Seq(Words) /\ a = h \o w
  BY <1>h, <1>1, <1>a
<1>3. /\ a \in Seq(Words) /\ Len(a) = Len(h) + Len(w)
      /\ \A k \in 1 .. Len(h) : a[k] = h[k]
      /\ \A k \in Len(h) + 1 .. Len(a) : a[k] = w[k - Len(h)]
  BY <1>2, SeqConcat
<1>x. a \in Seq(Words)
  BY <1>3
<1>4. Len(w) \in Nat /\ Len(a) = 10 + Len(w)
  BY <1>1, <1>3
<1>l. Len(h) = 10
  BY <1>1
<1>5. /\ a[1] = 17664 /\ a[5] = 16384 + proto
      /\ a[7] = from[1] /\ a[8] = from[2] /\ a[9] = to[1] /\ a[10] = to[2]
  <2>1. \A k \in 1 .. 10 : a[k] = h[k]
    BY ONLY <1>l, <1>3, Zenon
  <2>. QED  BY ONLY <1>1, <2>1
<1>6. SubSeq(a, 1, 10) = h
  <2>1. \A k \in 1 .. Len(h) : a[1 + k - 1] = h[k]
    BY <1>3
  <2>2. 1 \in 1 .. Len(a) + 1 /\ 10 = 1 + Len(h) - 1 /\ 10 <= Len(a)
    BY <1>1, <1>4
  <2>3. PICK lo \in 1 .. Len(a) + 1, hi \in Int : lo = 1 /\ hi = 10
    BY <2>2
  <2>4. hi = lo + Len(h) - 1 /\ hi <= Len(a) /\ \A k \in 1 .. Len(h) : a[lo + k - 1] = h[k]
    BY ONLY <2>1, <2>2, <2>3
  <2>5. SubSeq(a, lo, hi) = h
    BY ONLY <1>2, <1>x, <2>4, SubSeqIs
  <2>. QED  BY ONLY <2>3, <2>5
<1>p. from \in Seq(Words) /\ Len(from) = 2 /\ to \in Seq(Words) /\ Len(to) = 2
  BY DEF Pairs
<1>7. SubSeq(a, 7, 8) = from
  <2>1. \A k \in 1 .. Len(from) : a[7 + k - 1] = from[k]
    BY <1>5, <1>p
  <2>2. 7 \in 1 .. Len(a) + 1 /\ 8 = 7 + Len(from) - 1 /\ 8 <= Len(a)
    BY <1>4, <1>p
  <2>. QED  BY <1>p, <1>3, <2>1, <2>2, SubSeqIs
<1>8. SubSeq(a, 9, 10) = to
  <2>1. \A k \in 1 .. Len(to) : a[9 + k - 1] = to[k]
    BY <1>5, <1>p
  <2>2. 9 \in 1 .. Len(a) + 1 /\ 10 = 9 + Len(to) - 1 /\ 10 <= Len(a)
    BY <1>4, <1>p
  <2>. QED  BY <1>p, <1>3, <2>1, <2>2, SubSeqIs
<1>9. SubSeq(a, 7, 10) = from \o to
  <2>e. PICK e : e = from \o to
    OBVIOUS
  <2>1. /\ e \in Seq(Words) /\ Len(e) = 4
        /\ e[1] = from[1] /\ e[2] = from[2] /\ e[3] = to[1] /\ e[4] = to[2]
    BY ONLY from \in Pairs, to \in Pairs, <2>e, PseudoHeader, Zenon DEF AddressesAre
  <2>2. \A k \in 1 .. Len(e) : a[7 + k - 1] = e[k]
    BY <1>5, <2>1
  <2>3. 7 \in 1 .. Len(a) + 1 /\ 10 = 7 + Len(e) - 1 /\ 10 <= Len(a)
    BY <1>4, <2>1
  <2>. QED
    <3>1. e \in Seq(Words)
      BY <2>1
    <3>2. PICK lo \in 1 .. Len(a) + 1, hi \in Int : lo = 7 /\ hi = 10
      BY <2>3
    <3>3. hi = lo + Len(e) - 1 /\ hi <= Len(a) /\ \A k \in 1 .. Len(e) : a[lo + k - 1] = e[k]
      BY ONLY <3>2, <2>2, <2>3
    <3>4. SubSeq(a, lo, hi) = e
      BY ONLY <1>x, <3>1, <3>3, SubSeqIs
    <3>. QED  BY ONLY <2>e, <3>2, <3>4
<1>10. IpLen(f) = 20
  <2>1. 17664 \div 256 = 69 /\ 69 % 16 = 5
    BY SMT
  <2>. QED  BY <1>a, <1>5, <2>1 DEF IpLen
<1>11. Inner(f) = w
  <2>1. 20 \div 2 = 10
    BY SMT
  <2>2. Inner(f) = SubSeq(a, 11, Len(a))
    BY <1>a, <1>10, <2>1 DEF Inner
  <2>3. \A k \in 1 .. Len(w) : a[11 + k - 1] = w[k]
    BY <1>1, <1>3, <1>4
  <2>4. 11 \in 1 .. Len(a) + 1 /\ Len(a) = 11 + Len(w) - 1 /\ Len(a) <= Len(a)
    BY <1>4
  <2>. QED  BY <1>3, <2>2, <2>3, <2>4, SubSeqIs
<1>12. Saddr(f) = from /\ Daddr(f) = to
  BY <1>a, <1>7, <1>8 DEF Saddr, Daddr
<1>13. f.words \in Seq(Words) /\ f.words[5] % 256 = proto
  <2>1. (16384 + 1) % 256 = 1 /\ (16384 + 6) % 256 = 6
    BY SMT
  <2>2. a[5] % 256 = proto
    <3>1. PICK y : y = a[5]
      OBVIOUS
    <3>2. y = 16384 + proto
      BY <1>5, <3>1
    <3>3. y % 256 = proto
      BY ONLY <3>2, <2>1, SMT
    <3>. QED  BY <3>1, <3>3, Zenon
  <2>. QED  BY <1>a, <1>x, <2>2
<1>s. SumsUp(h)
  BY <1>1
<1>14. SumsUp(SubSeq(f.words, 1, 10))
  BY ONLY <1>a, <1>s, <1>6, Zenon
<1>15. SubSeq(f.words, 7, 10) = from \o to
  BY ONLY <1>a, <1>9, Zenon
<1>. QED  BY ONLY <1>10, <1>11, <1>12, <1>13, <1>14, <1>15, Zenon DEF AnswerHas

(* The TCP header of a reset, before its checksum.                         *)
TcpHeaderHas(t, ports, seq, ack) ==
  /\ t \in Seq(Words) /\ Len(t) = 10 /\ t[9] = 0
  /\ t[1] = ports[1] /\ t[2] = ports[2]
  /\ t[3] = seq[1] /\ t[4] = seq[2] /\ t[5] = ack[1] /\ t[6] = ack[2]
  /\ (t[7] \div 4) % 2 = 1

LEMMA TcpHeaderWords ==
  ASSUME NEW ports \in Pairs, NEW seq \in Pairs, NEW ack \in Pairs, NEW flags \in {4, 20}
  PROVE  TcpHeaderHas(TcpHeader(ports, seq, ack, flags), ports, seq, ack)
<1>t. PICK t : t = TcpHeader(ports, seq, ack, flags)
  OBVIOUS
<1>p. /\ ports \in Seq(Words) /\ Len(ports) = 2
      /\ seq \in Seq(Words) /\ Len(seq) = 2
      /\ ack \in Seq(Words) /\ Len(ack) = 2
  BY DEF Pairs
<1>n. PICK m \in Words, z \in Words : m = 20480 + flags /\ z = 0 /\ (m \div 4) % 2 = 1
  <2>1. PICK m \in Int : m = 20480 + flags
    BY SMT
  <2>2. 0 <= m /\ m < 65536 /\ (m \div 4) % 2 = 1
    <3>1. m = 20484 \/ m = 20500
      BY <2>1, SMT
    <3>. QED  BY ONLY <3>1, SMT
  <2>3. m \in Words /\ 0 \in Words
    BY <2>2, WordsAre
  <2>. QED  BY <2>1, <2>2, <2>3
<1>d. PICK d : d = <<m, z, z, z>>
  OBVIOUS
<1>1. d \in Seq(Words) /\ Len(d) = 4 /\ d[1] = m /\ d[3] = z
  BY <1>d
<1>a. PICK a : a = ports \o seq
  OBVIOUS
<1>2. /\ a \in Seq(Words) /\ Len(a) = Len(ports) + Len(seq)
      /\ \A k \in 1 .. Len(ports) : a[k] = ports[k]
      /\ \A k \in Len(ports) + 1 .. Len(a) : a[k] = seq[k - Len(ports)]
  <2>1. ports \in Seq(Words) /\ seq \in Seq(Words)
    BY <1>p
  <2>. QED  BY ONLY <2>1, <1>a, SeqConcat
<1>3. /\ a \in Seq(Words) /\ Len(a) = 4
      /\ a[1] = ports[1] /\ a[2] = ports[2] /\ a[3] = seq[1] /\ a[4] = seq[2]
  BY <1>p, <1>2
<1>b. PICK b : b = a \o ack
  OBVIOUS
<1>4. a \in Seq(Words) /\ ack \in Seq(Words) /\ d \in Seq(Words)
  BY <1>p, <1>1, <1>3
<1>5. /\ b \in Seq(Words) /\ Len(b) = Len(a) + Len(ack)
      /\ \A k \in 1 .. Len(a) : b[k] = a[k]
      /\ \A k \in Len(a) + 1 .. Len(b) : b[k] = ack[k - Len(a)]
  BY ONLY <1>4, <1>b, SeqConcat
<1>6. /\ Len(b) = 6
      /\ b[1] = ports[1] /\ b[2] = ports[2] /\ b[3] = seq[1] /\ b[4] = seq[2]
      /\ b[5] = ack[1] /\ b[6] = ack[2]
  BY <1>p, <1>3, <1>5
<1>7. b \in Seq(Words)
  BY <1>5
<1>8. t = b \o d
  <2>1. t = ports \o seq \o ack \o <<20480 + flags, 0, 0, 0>>
    BY <1>t, SMT DEF TcpHeader
  <2>. QED  BY ONLY <2>1, <1>n, <1>a, <1>b, <1>d, SMT
<1>9. /\ t \in Seq(Words) /\ Len(t) = Len(b) + Len(d)
      /\ \A k \in 1 .. Len(b) : t[k] = b[k]
      /\ \A k \in Len(b) + 1 .. Len(t) : t[k] = d[k - Len(b)]
  BY ONLY <1>4, <1>7, <1>8, SeqConcat
<1>10. /\ Len(t) = 10 /\ t[7] = m /\ t[9] = z
       /\ t[1] = ports[1] /\ t[2] = ports[2]
       /\ t[3] = seq[1] /\ t[4] = seq[2] /\ t[5] = ack[1] /\ t[6] = ack[2]
  BY <1>1, <1>6, <1>9
<1>11. (t[7] \div 4) % 2 = 1 /\ t[9] = 0
  <2>1. (m \div 4) % 2 = 1 /\ z = 0
    BY <1>n
  <2>. QED  BY ONLY <2>1, <1>10, Zenon
<1>12. t \in Seq(Words)
  BY <1>9
<1>13. TcpHeaderHas(t, ports, seq, ack)
  BY ONLY <1>10, <1>11, <1>12 DEF TcpHeaderHas
<1>. QED  BY ONLY <1>t, <1>13, Zenon

(* A reset that is made of any words passes both tests of its receiver and *)
(* has the fields that it was given.                                       *)
Sums(f) == SumsUp(SubSeq(f.words, 1, 10)) /\ SumsUp(Covered(f))

ResetHas(f, from, to, ports, seq, ack) ==
  /\ Sums(f)
  /\ Saddr(f) = from /\ Daddr(f) = to
  /\ Inner(f) \in Seq(Words) /\ Len(Inner(f)) = 10
  /\ Inner(f)[1] = ports[1] /\ Inner(f)[2] = ports[2]
  /\ Inner(f)[3] = seq[1] /\ Inner(f)[4] = seq[2]
  /\ Inner(f)[5] = ack[1] /\ Inner(f)[6] = ack[2]
  /\ Flag(f, 4) = 1

LEMMA ResetSums ==
  ASSUME NEW id \in Words, NEW from \in Pairs, NEW to \in Pairs,
         NEW ports \in Pairs, NEW seq \in Pairs, NEW ack \in Pairs, NEW flags \in {4, 20},
         NEW f, f.words = Reset(id, from, to, TcpHeader(ports, seq, ack, flags))
  PROVE  ResetHas(f, from, to, ports, seq, ack)
<1>t. PICK t : t = TcpHeader(ports, seq, ack, flags)
  OBVIOUS
<1>1. /\ t \in Seq(Words) /\ Len(t) = 10 /\ t[9] = 0
      /\ t[1] = ports[1] /\ t[2] = ports[2]
      /\ t[3] = seq[1] /\ t[4] = seq[2] /\ t[5] = ack[1] /\ t[6] = ack[2]
      /\ (t[7] \div 4) % 2 = 1
  <2>1. TcpHeaderHas(TcpHeader(ports, seq, ack, flags), ports, seq, ack)
    BY ONLY TcpHeaderWords
  <2>. QED  BY ONLY <1>t, <2>1 DEF TcpHeaderHas
<1>w. PICK w : w = Sealed(from, to, t)
  OBVIOUS
<1>2. t \in Seq(Words) /\ Len(t) = 10 /\ t[9] = 0
  BY <1>1
<1>3. /\ w \in Seq(Words) /\ Len(w) = 10
      /\ \A k \in 1 .. 10 : k # 9 => w[k] = t[k]
      /\ SumsUp(Pseudogram(from, to, w))
  <2>1. /\ Sealed(from, to, t) \in Seq(Words) /\ Len(Sealed(from, to, t)) = 10
        /\ \A k \in 1 .. 10 : k # 9 => Sealed(from, to, t)[k] = t[k]
        /\ SumsUp(Pseudogram(from, to, Sealed(from, to, t)))
    BY ONLY <1>2, SegmentSums
  <2>. QED  BY ONLY <1>w, <2>1, Zenon
<1>4. f.words = IpHeader(id, 6, from, to, 20) \o w
  BY <1>t, <1>w, Zenon DEF Reset
<1>5. 20 < 200 /\ 20 \in Nat /\ 6 \in {1, 6}
  BY SMT
<1>6. /\ f.words[5] % 256 = 6
      /\ SumsUp(SubSeq(f.words, 1, 10))
      /\ SubSeq(f.words, 7, 10) = from \o to
      /\ Saddr(f) = from /\ Daddr(f) = to
      /\ Inner(f) = w
  <2>1. w \in Seq(Words)
    BY <1>3
  <2>2. AnswerHas(f, 6, from, to, w)
    BY ONLY <1>4, <1>5, <2>1, PartsOfAnswer
  <2>. QED  BY ONLY <2>2 DEF AnswerHas
<1>7. Covered(f) = Pseudogram(from, to, w)
  BY ONLY <1>6, Zenon DEF Covered, Pseudogram
<1>8. Sums(f)
  BY ONLY <1>3, <1>6, <1>7, Zenon DEF Sums
<1>9. /\ w[1] = ports[1] /\ w[2] = ports[2]
      /\ w[3] = seq[1] /\ w[4] = seq[2] /\ w[5] = ack[1] /\ w[6] = ack[2]
      /\ w[7] = t[7]
  BY <1>1, <1>3
<1>10. Flag(f, 4) = 1
  BY <1>1, <1>6, <1>9 DEF Flag
<1>11. w \in Seq(Words) /\ Len(w) = 10
  BY <1>3
<1>. QED  BY ONLY <1>6, <1>8, <1>9, <1>10, <1>11 DEF ResetHas
-----------------------------------------------------------------------------
(* The packets that it is given.                                           *)

(* Two fields of a captured packet.                                        *)
LEMMA PairAt ==
  ASSUME NEW q \in Seq(Words), NEW a \in Nat \ {0}, NEW b, b = a + 1, b <= Len(q)
  PROVE  /\ SubSeq(q, a, b) \in Pairs
         /\ SubSeq(q, a, b)[1] = q[a] /\ SubSeq(q, a, b)[2] = q[b]
<1>1. Len(q) \in Nat /\ a \in Nat /\ b \in Nat /\ 1 <= a /\ a <= b
  BY LenProperties
<1>2. /\ SubSeq(q, a, b) \in Seq(Words)
      /\ Len(SubSeq(q, a, b)) = IF a <= b THEN b - a + 1 ELSE 0
      /\ \A i \in 1 .. b - a + 1 : SubSeq(q, a, b)[i] = q[a + i - 1]
  BY <1>1, SubSeqProperties
<1>3. Len(SubSeq(q, a, b)) = 2 /\ SubSeq(q, a, b)[1] = q[a] /\ SubSeq(q, a, b)[2] = q[b]
  BY <1>1, <1>2
<1>. QED  BY <1>2, <1>3 DEF Pairs

Turned(pair) == <<pair[2], pair[1]>>
LEMMA ReverseOfPair ==
  ASSUME NEW pair \in Pairs
  PROVE  Reverse(pair) = Turned(pair) /\ Turned(pair) \in Pairs
<1>1. pair \in Seq(Words) /\ Len(pair) = 2 /\ pair[1] \in Words /\ pair[2] \in Words
  BY DEF Pairs
<1>2. Reverse(pair) = <<pair[2], pair[1]>>
  BY <1>1 DEF Reverse
<1>. QED  BY <1>1, <1>2, WordPair DEF Turned

(* So does an ICMP message.                                                *)
IcmpHas(f, from, to, payload) ==
  /\ Sums(f)
  /\ Saddr(f) = from /\ Daddr(f) = to
  /\ Inner(f)[1] = 771
  /\ SubSeq(Inner(f), 5, Len(Inner(f))) = payload

LEMMA IcmpSums ==
  ASSUME NEW id \in Words, NEW from \in Pairs, NEW to \in Pairs,
         NEW payload \in Seq(Words), NEW len \in Nat, len < 200,
         NEW f, f.words = IpHeader(id, 1, from, to, len) \o Icmp(payload)
  PROVE  IcmpHas(f, from, to, payload)
<1>n. PICK m \in Words, z \in Words : m = 771 /\ z = 0
  <2>1. 771 \in Words /\ 0 \in Words
    BY ONLY WordsAre, SMT
  <2>. QED  BY <2>1
<1>d. PICK d : d = <<m, z, z, z>>
  OBVIOUS
<1>1. d \in Seq(Words) /\ Len(d) = 4 /\ d[1] = m /\ d[2] = z
  BY <1>d
<1>a. PICK a : a = d \o payload
  OBVIOUS
<1>2. d \in Seq(Words)
  BY <1>1
<1>3. /\ a \in Seq(Words) /\ Len(a) = Len(d) + Len(payload)
      /\ \A k \in 1 .. Len(d) : a[k] = d[k]
      /\ \A k \in Len(d) + 1 .. Len(a) : a[k] = payload[k - Len(d)]
  BY ONLY <1>2, <1>a, SeqConcat
<1>4. Len(payload) \in Nat /\ Len(a) = 4 + Len(payload) /\ a[1] = m /\ a[2] = z
  BY <1>1, <1>3
<1>5. PICK i \in 1 .. Len(a), j \in 1 .. Len(a) : i = 2 /\ j = 1
  BY <1>4
<1>6. a[i] = 0 /\ a[j] # 0 /\ a \in Seq(Words)
  BY <1>n, <1>3, <1>4, <1>5
<1>7. /\ Checked(a, i) \in Seq(Words) /\ Len(Checked(a, i)) = Len(a)
      /\ \A k \in 1 .. Len(a) : k # i => Checked(a, i)[k] = a[k]
      /\ SumsUp(Checked(a, i))
  BY ONLY <1>6, ChecksumVerifies
<1>w. PICK w : w = Icmp(payload)
  OBVIOUS
<1>8. w = Checked(a, i)
  <2>1. a = <<771, 0, 0, 0>> \o payload
    BY <1>n, <1>a, <1>d
  <2>2. Icmp(payload) = [a EXCEPT ![2] = calculate_checksum(a)]
    BY ONLY <2>1, ZenonT(60) DEF Icmp
  <2>3. i = 2
    BY <1>5
  <2>4. Checked(a, i) = [a EXCEPT ![2] = calculate_checksum(a)]
    BY ONLY <2>3, Zenon DEF Checked
  <2>. QED  BY ONLY <1>w, <2>2, <2>4, Zenon
<1>9. w \in Seq(Words)
  BY <1>7, <1>8
<1>10. AnswerHas(f, 1, from, to, w)
  <2>1. 1 \in {1, 6} /\ f.words = IpHeader(id, 1, from, to, len) \o w
    BY <1>w
  <2>. QED  BY ONLY len < 200, <1>9, <2>1, PartsOfAnswer
<1>11. /\ f.words[5] % 256 = 1 /\ SumsUp(SubSeq(f.words, 1, 10))
       /\ Saddr(f) = from /\ Daddr(f) = to /\ Inner(f) = w
  BY ONLY <1>10 DEF AnswerHas
<1>12. Covered(f) = w
  <2>1. f.words[5] % 256 # 6
    <3>1. PICK y : y = f.words[5] % 256
      OBVIOUS
    <3>2. y = 1
      BY <1>11, <3>1, Zenon
    <3>. QED  BY ONLY <3>1, <3>2
  <2>. QED  BY ONLY <1>11, <2>1, Zenon DEF Covered
<1>13. Sums(f)
  BY <1>7, <1>8, <1>11, <1>12, Zenon DEF Sums
<1>14. w[1] = 771
  BY <1>n, <1>4, <1>5, <1>7, <1>8
<1>15. SubSeq(w, 5, Len(w)) = payload
  <2>1. Len(w) = 4 + Len(payload)
    BY <1>4, <1>7, <1>8
  <2>2. \A k \in 1 .. Len(payload) : w[5 + k - 1] = payload[k]
    <3>1. ASSUME NEW k \in 1 .. Len(payload) PROVE w[5 + k - 1] = payload[k]
      <4>1. PICK n \in Nat : n = k + 4
        OBVIOUS
      <4>2. n \in 1 .. Len(a) /\ n # i /\ n \in Len(d) + 1 .. Len(a) /\ n - Len(d) = k
        BY <1>1, <1>4, <1>5, <4>1
      <4>3. w[n] = payload[k]
        BY ONLY <1>3, <1>7, <1>8, <4>2
      <4>. QED  BY <4>1, <4>3
    <3>. QED  BY <3>1
  <2>3. PICK lo \in 1 .. Len(w) + 1 : lo = 5
    BY <2>1, <1>4
  <2>4. Len(w) = lo + Len(payload) - 1 /\ Len(w) <= Len(w)
    BY <2>1, <2>3, <1>4
  <2>5. \A k \in 1 .. Len(payload) : w[lo + k - 1] = payload[k]
    BY <2>2, <2>3
  <2>6. SubSeq(w, lo, Len(w)) = payload
    BY ONLY <1>9, <2>4, <2>5, SubSeqIs
  <2>. QED  BY <2>3, <2>6
<1>. QED  BY ONLY <1>11, <1>13, <1>14, <1>15, Zenon DEF IcmpHas

(* A captured packet with its IP header.                                   *)
HasHeaders(p) ==
  /\ IpLen(p) \in {20, 24, 28, 32, 36, 40, 44, 48, 52, 56, 60}
  /\ Saddr(p) \in Pairs /\ Daddr(p) \in Pairs
  /\ Saddr(p)[1] = p.words[7] /\ Saddr(p)[2] = p.words[8]
  /\ Daddr(p)[1] = p.words[9] /\ Daddr(p)[2] = p.words[10]

LEMMA IpLength ==
  ASSUME NEW p, p.words \in Seq(Words), Len(p.words) >= 1
  PROVE  /\ IpLen(p) \in Nat
         /\ IpLen(p) >= 20 => IpLen(p) \in {20, 24, 28, 32, 36, 40, 44, 48, 52, 56, 60}
<1>1. p.words[1] \in Words
  OBVIOUS
<1>2. PICK x \in Int : x = p.words[1] /\ 0 <= x
  BY <1>1, WordsAre
<1>3. PICK y \in Int : y = (x \div 256) % 16 /\ 0 <= y /\ y < 16
  BY ONLY <1>2, SMT
<1>4. IpLen(p) = 4 * y
  BY <1>2, <1>3 DEF IpLen
<1>. QED  BY ONLY <1>3, <1>4, SMT

LEMMA HeadersThere ==
  ASSUME NEW p, p.words \in Seq(Words), CapLen(p) >= 42, IpLen(p) >= 20
  PROVE  HasHeaders(p) /\ Len(p.words) >= 14
<1>1. Len(p.words) >= 14 /\ Len(p.words) \in Nat
  BY LenProperties DEF CapLen
<1>2. IpLen(p) \in {20, 24, 28, 32, 36, 40, 44, 48, 52, 56, 60}
  BY <1>1, IpLength
<1>q. PICK q \in Seq(Words) : q = p.words
  OBVIOUS
<1>3. Len(q) >= 14
  BY <1>1, <1>q
<1>4. SubSeq(q, 7, 8) \in Pairs /\ SubSeq(q, 7, 8)[1] = q[7] /\ SubSeq(q, 7, 8)[2] = q[8]
  <2>1. PICK a \in Nat \ {0} : a = 7
    OBVIOUS
  <2>2. 8 = a + 1 /\ 8 <= Len(q)
    BY <1>3, <2>1
  <2>. QED  BY ONLY <2>1, <2>2, PairAt
<1>5. SubSeq(q, 9, 10) \in Pairs /\ SubSeq(q, 9, 10)[1] = q[9] /\ SubSeq(q, 9, 10)[2] = q[10]
  <2>1. PICK a \in Nat \ {0} : a = 9
    OBVIOUS
  <2>2. 10 = a + 1 /\ 10 <= Len(q)
    BY <1>3, <2>1
  <2>. QED  BY ONLY <2>1, <2>2, PairAt
<1>. QED  BY ONLY <1>1, <1>2, <1>q, <1>4, <1>5, Zenon DEF HasHeaders, Saddr, Daddr

(* What is behind the IP header, when the capture has n words of it.       *)
LEMMA InnerThere ==
  ASSUME NEW p, p.words \in Seq(Words), HasHeaders(p), NEW n \in Nat,
         CapLen(p) >= 14 + IpLen(p) + 2 * n
  PROVE  /\ Inner(p) \in Seq(Words) /\ Len(Inner(p)) >= n
         /\ Len(Inner(p)) = Len(p.words) - IpLen(p) \div 2
         /\ \A k \in 1 .. Len(Inner(p)) : Inner(p)[k] = p.words[IpLen(p) \div 2 + k]
<1>q. PICK q \in Seq(Words) : q = p.words
  OBVIOUS
<1>1. PICK h \in Nat : h = IpLen(p) \div 2 /\ IpLen(p) = 2 * h
  <2>1. IpLen(p) \in {20, 24, 28, 32, 36, 40, 44, 48, 52, 56, 60}
    BY DEF HasHeaders
  <2>. QED  BY ONLY <2>1, SMT
<1>2. Len(q) \in Nat /\ Len(q) >= h + n
  BY <1>q, <1>1, LenProperties DEF CapLen
<1>3. Inner(p) = SubSeq(q, h + 1, Len(q))
  BY <1>q, <1>1 DEF Inner
<1>4. h + 1 \in 1 .. Len(q) + 1 /\ Len(q) \in h .. Len(q)
  BY <1>1, <1>2
<1>5. /\ SubSeq(q, h + 1, Len(q)) \in Seq(Words)
      /\ Len(SubSeq(q, h + 1, Len(q))) = IF h + 1 <= Len(q) THEN Len(q) - (h + 1) + 1 ELSE 0
      /\ \A i \in 1 .. Len(q) - (h + 1) + 1 : SubSeq(q, h + 1, Len(q))[i] = q[(h + 1) + i - 1]
  BY <1>2, <1>4, SubSeqProperties
<1>6. Len(Inner(p)) = Len(q) - h
  BY <1>2, <1>3, <1>5
<1>7. ASSUME NEW k \in 1 .. Len(Inner(p)) PROVE Inner(p)[k] = q[h + k]
  <2>1. k \in 1 .. Len(q) - (h + 1) + 1 /\ (h + 1) + k - 1 = h + k
    BY <1>2, <1>6
  <2>. QED  BY <1>3, <1>5, <2>1
<1>8. Inner(p) \in Seq(Words)
  BY <1>3, <1>5
<1>9. Len(Inner(p)) >= n
  BY <1>2, <1>6
<1>. QED  BY ONLY <1>q, <1>1, <1>6, <1>7, <1>8, <1>9, Zenon

(* What the two functions of the injector push.                            *)
LEMMA TwoResets ==
  ASSUME NEW p, NEW f \in ToSet(queue_spoofed_rst_packet(p))
  PROVE  Whole(p) /\ (f = Fwd(p) \/ f = Bwd(p))
<1>1. queue_spoofed_rst_packet(p) = IF Whole(p) THEN <<Fwd(p), Bwd(p)>> ELSE <<>>
  BY DEF queue_spoofed_rst_packet
<1>2. ToSet(<<>>) = {}
  BY DEF ToSet
<1>3. \A x, y : ToSet(<<x, y>>) = {x, y}
  BY DEF ToSet
<1>4. f \in ToSet(IF Whole(p) THEN <<Fwd(p), Bwd(p)>> ELSE <<>>)
  BY <1>1
<1>5. CASE Whole(p)
  <2>1. f \in ToSet(<<Fwd(p), Bwd(p)>>)
    BY ONLY <1>4, <1>5, Zenon
  <2>. QED  BY ONLY <1>3, <1>5, <2>1, Zenon
<1>6. CASE ~Whole(p)
  <2>1. f \in ToSet(<<>>)
    BY ONLY <1>4, <1>6, Zenon
  <2>. QED  BY ONLY <1>2, <2>1, Zenon
<1>. QED  BY <1>5, <1>6

(* The checks of the code are enough for what it reads.                    *)
LEMMA SegmentParts ==
  ASSUME NEW p, p.words \in Seq(Words), Whole(p)
  PROVE  /\ HasHeaders(p)
         /\ Ports(p) \in Pairs /\ Ack(p) \in Pairs /\ NextSeq(p) \in Pairs
         /\ SubSeq(Inner(p), 3, 4) \in Pairs
         /\ Ports(p)[1] = Inner(p)[1] /\ Ports(p)[2] = Inner(p)[2]
         /\ SubSeq(Inner(p), 3, 4)[1] = Inner(p)[3] /\ SubSeq(Inner(p), 3, 4)[2] = Inner(p)[4]
         /\ Ack(p)[1] = Inner(p)[5] /\ Ack(p)[2] = Inner(p)[6]
<1>1. CapLen(p) >= 42 /\ IpLen(p) >= 20 /\ CapLen(p) >= 14 + IpLen(p) + 2 * 10
  <2>1. CapLen(p) \in Int /\ IpLen(p) \in Int
    <3>1. Len(p.words) \in Nat /\ CapLen(p) = 14 + 2 * Len(p.words) /\ CapLen(p) >= 54
      BY LenProperties DEF CapLen, Whole
    <3>2. IpLen(p) \in Nat
      BY <3>1, IpLength
    <3>. QED  BY <3>1, <3>2
  <2>. QED  BY <2>1 DEF Whole
<1>2. HasHeaders(p) /\ Len(p.words) >= 14
  BY ONLY p.words \in Seq(Words), <1>1, HeadersThere
<1>t. PICK t : t = Inner(p)
  OBVIOUS
<1>3. t \in Seq(Words) /\ Len(t) >= 10
  <2>1. PICK n \in Nat : n = 10
    OBVIOUS
  <2>2. HasHeaders(p) /\ CapLen(p) >= 14 + IpLen(p) + 2 * n
    BY <1>1, <1>2, <2>1
  <2>3. Inner(p) \in Seq(Words) /\ Len(Inner(p)) >= n
    BY ONLY p.words \in Seq(Words), <2>2, InnerThere
  <2>. QED  BY <1>t, <2>1, <2>3
<1>4. \A a \in {1, 3, 5} : /\ SubSeq(t, a, a + 1) \in Pairs
                           /\ SubSeq(t, a, a + 1)[1] = t[a] /\ SubSeq(t, a, a + 1)[2] = t[a + 1]
  <2>1. ASSUME NEW a \in {1, 3, 5}
        PROVE  /\ SubSeq(t, a, a + 1) \in Pairs
               /\ SubSeq(t, a, a + 1)[1] = t[a] /\ SubSeq(t, a, a + 1)[2] = t[a + 1]
    <3>1. a \in Nat \ {0} /\ t \in Seq(Words)
      BY <1>3
    <3>2. PICK b \in Nat : b = a + 1
      OBVIOUS
    <3>3. b <= Len(t)
      <4>1. Len(t) \in Nat
        BY <1>3, LenProperties
      <4>. QED  BY <1>3, <3>2, <4>1
    <3>4. SubSeq(t, a, b) \in Pairs /\ SubSeq(t, a, b)[1] = t[a] /\ SubSeq(t, a, b)[2] = t[b]
      BY ONLY <3>1, <3>2, <3>3, PairAt
    <3>. QED  BY ONLY <3>2, <3>4, Zenon
  <2>. QED  BY <2>1
<1>5. /\ SubSeq(t, 1, 2) \in Pairs /\ SubSeq(t, 1, 2)[1] = t[1] /\ SubSeq(t, 1, 2)[2] = t[2]
      /\ SubSeq(t, 3, 4) \in Pairs /\ SubSeq(t, 3, 4)[1] = t[3] /\ SubSeq(t, 3, 4)[2] = t[4]
      /\ SubSeq(t, 5, 6) \in Pairs /\ SubSeq(t, 5, 6)[1] = t[5] /\ SubSeq(t, 5, 6)[2] = t[6]
  <2>1. 1 + 1 = 2 /\ 3 + 1 = 4 /\ 5 + 1 = 6
    OBVIOUS
  <2>. QED  BY ONLY <1>4, <2>1
<1>6. Occupies(p) \in Nat
  <2>1. Flag(p, 2) \in {0, 1} /\ Flag(p, 1) \in {0, 1} /\ TcpLen(p) \in Int
    <3>1. t[7] \in Words
      BY <1>3
    <3>2. PICK y \in Int : y = t[7]
      BY <3>1, WordsAre
    <3>3. (y \div 2) % 2 \in {0, 1} /\ (y \div 1) % 2 \in {0, 1} /\ y \div 4096 \in Int
      BY ONLY y \in Int, SMT
    <3>. QED  BY <1>t, <3>2, <3>3 DEF Flag, TcpLen
  <2>2. p.words[2] \in Int /\ IpLen(p) \in Int
    <3>1. p.words[2] \in Words
      BY <1>2
    <3>2. p.words[2] \in Int
      BY ONLY <3>1, WordsAre
    <3>3. IpLen(p) \in Int
      BY <1>2 DEF HasHeaders
    <3>. QED  BY <3>2, <3>3
  <2>3. Payload(p) \in Nat
    <3>1. PICK x \in Int : x = p.words[2] - (IpLen(p) + TcpLen(p))
      BY <2>1, <2>2
    <3>2. Payload(p) = IF x < 0 THEN 0 ELSE x
      BY <3>1 DEF Payload
    <3>. QED  BY <3>2
  <2>. QED  BY <2>1, <2>3 DEF Occupies
<1>7. NextSeq(p) \in Pairs
  BY <1>t, <1>5, <1>6, PlusIsPair DEF NextSeq
<1>. QED  BY ONLY <1>2, <1>t, <1>5, <1>7, Zenon DEF Ports, Ack

(* Whatever words are captured, the resets are good ones, ...              *)
LEMMA ResetsOf ==
  ASSUME NEW p, p.words \in Seq(Words), NEW f \in ToSet(queue_spoofed_rst_packet(p))
  PROVE  /\ Whole(p)
         /\ \/ f = Fwd(p) /\ ResetHas(f, Saddr(p), Daddr(p), Ports(p), NextSeq(p), Ack(p))
            \/ f = Bwd(p) /\ ResetHas(f, Daddr(p), Saddr(p), Turned(Ports(p)), Ack(p), NextSeq(p))
<1>1. Whole(p) /\ (f = Fwd(p) \/ f = Bwd(p))
  BY TwoResets
<1>2. /\ Saddr(p) \in Pairs /\ Daddr(p) \in Pairs
      /\ Ports(p) \in Pairs /\ Ack(p) \in Pairs /\ NextSeq(p) \in Pairs
  BY <1>1, SegmentParts DEF HasHeaders
<1>3. Reverse(Ports(p)) = Turned(Ports(p)) /\ Turned(Ports(p)) \in Pairs
  BY <1>2, ReverseOfPair
<1>4. PICK m \in Words, n \in Words : m = 54321 /\ n = 12345
  BY ONLY WordsAre, SMT
<1>5. CASE f = Fwd(p)
  <2>1. f.words = Reset(m, Saddr(p), Daddr(p), TcpHeader(Ports(p), NextSeq(p), Ack(p), 4))
    BY <1>4, <1>5, SMT DEF Fwd
  <2>2. ResetHas(f, Saddr(p), Daddr(p), Ports(p), NextSeq(p), Ack(p))
    BY ONLY <1>2, <2>1, ResetSums
  <2>. QED  BY <1>1, <1>5, <2>2
<1>6. CASE f = Bwd(p)
  <2>1. f.words =
          Reset(n, Daddr(p), Saddr(p), TcpHeader(Turned(Ports(p)), Ack(p), NextSeq(p), 20))
    BY <1>3, <1>4, <1>6, SMT DEF Bwd
  <2>2. ResetHas(f, Daddr(p), Saddr(p), Turned(Ports(p)), Ack(p), NextSeq(p))
    BY ONLY <1>2, <1>3, <2>1, ResetSums
  <2>. QED  BY <1>1, <1>6, <2>2
<1>. QED  BY <1>1, <1>5, <1>6

LEMMA OneMessage ==
  ASSUME NEW p, NEW f \in ToSet(queue_spoofed_icmp_unreachable(p))
  PROVE  WholeIp(p) /\ f = Unreachable(p)
<1>1. queue_spoofed_icmp_unreachable(p) = IF WholeIp(p) THEN <<Unreachable(p)>> ELSE <<>>
  BY DEF queue_spoofed_icmp_unreachable
<1>2. ToSet(<<>>) = {}
  BY DEF ToSet
<1>3. \A x : ToSet(<<x>>) = {x}
  BY DEF ToSet
<1>4. f \in ToSet(IF WholeIp(p) THEN <<Unreachable(p)>> ELSE <<>>)
  BY <1>1
<1>5. CASE WholeIp(p)
  <2>1. f \in ToSet(<<Unreachable(p)>>)
    BY ONLY <1>4, <1>5, Zenon
  <2>. QED  BY ONLY <1>3, <1>5, <2>1, Zenon
<1>6. CASE ~WholeIp(p)
  <2>1. f \in ToSet(<<>>)
    BY ONLY <1>4, <1>6, Zenon
  <2>. QED  BY ONLY <1>2, <2>1, Zenon
<1>. QED  BY <1>5, <1>6

(* ... and so are the messages.                                            *)
LEMMA UnreachableOf ==
  ASSUME NEW p, p.words \in Seq(Words), NEW f \in ToSet(queue_spoofed_icmp_unreachable(p))
  PROVE  /\ WholeIp(p) /\ HasHeaders(p)
         /\ f = Unreachable(p) /\ IcmpHas(f, Daddr(p), Saddr(p), Quoted(p))
<1>1. WholeIp(p) /\ f = Unreachable(p)
  BY OneMessage
<1>2. HasHeaders(p)
  <2>1. CapLen(p) >= 42 /\ IpLen(p) >= 20
    BY <1>1 DEF WholeIp
  <2>. QED  BY ONLY p.words \in Seq(Words), <2>1, HeadersThere
<1>3. Saddr(p) \in Pairs /\ Daddr(p) \in Pairs
  BY <1>2 DEF HasHeaders
<1>4. PICK len \in Nat : len = 16 + IpLen(p) /\ len < 200
  <2>1. IpLen(p) \in {20, 24, 28, 32, 36, 40, 44, 48, 52, 56, 60}
    BY <1>2 DEF HasHeaders
  <2>. QED  BY ONLY <2>1, SMT
<1>5. Quoted(p) \in Seq(Words)
  <2>q. PICK q \in Seq(Words) : q = p.words
    OBVIOUS
  <2>1. IpLen(p) \in {20, 24, 28, 32, 36, 40, 44, 48, 52, 56, 60}
    BY <1>2 DEF HasHeaders
  <2>2. PICK h \in Nat : h = (IpLen(p) + 8) \div 2 /\ 2 * h = IpLen(p) + 8
    BY ONLY <2>1, SMT
  <2>3. h <= Len(q) /\ Len(q) \in Nat
    <3>1. Len(q) \in Nat
      BY LenProperties
    <3>2. 14 + 2 * Len(q) >= 14 + IpLen(p) + 8
      BY <1>1, <2>q DEF WholeIp, CapLen
    <3>3. PICK x \in Int : x = IpLen(p)
      BY <2>1
    <3>. QED  BY <2>2, <3>1, <3>2, <3>3
  <2>4. \A i \in 1 .. h : q[i] \in Words
    BY ONLY <2>3, q \in Seq(Words), h \in Nat
  <2>5. SubSeq(q, 1, h) \in Seq(Words)
    BY ONLY <2>3, <2>4, q \in Seq(Words), h \in Nat, SubSeqProperties
  <2>. QED  BY <2>q, <2>2, <2>5 DEF Quoted
<1>6. PICK id \in Words : id = 12346
  BY ONLY WordsAre, SMT
<1>7. f.words = IpHeader(id, 1, Daddr(p), Saddr(p), len) \o Icmp(Quoted(p))
  BY <1>1, <1>4, <1>6, SMT DEF Unreachable
<1>8. IcmpHas(f, Daddr(p), Saddr(p), Quoted(p))
  BY ONLY <1>3, <1>4, <1>5, <1>7, IcmpSums
<1>. QED  BY <1>1, <1>2, <1>8
-----------------------------------------------------------------------------
(* The packets that clients send, and what becomes of them.                *)

IpFieldsHave(w, s, len) ==
  /\ w \in Seq(Words) /\ Len(w) = 10 + Len(s.ip)
  /\ w[1] = 17664 + 128 * Len(s.ip) /\ w[2] = 20 + 2 * Len(s.ip) + len
  /\ w[7] = s.from[1] /\ w[8] = s.from[2] /\ w[9] = s.to[1] /\ w[10] = s.to[2]

LEMMA IpFieldsWords ==
  ASSUME NEW s, IsPacket(s), NEW proto \in {6, 17}, NEW len \in Nat,
         20 + 2 * Len(s.ip) + len < Word
  PROVE  IpFieldsHave(IpFields(s, proto, len), s, len)
<1>p. /\ s.from \in Seq(Words) /\ Len(s.from) = 2
      /\ s.to \in Seq(Words) /\ Len(s.to) = 2
      /\ s.ip \in Seq(Words) /\ Len(s.ip) <= 20
  BY DEF IsPacket, Options
<1>1. Len(s.ip) \in Nat
  BY <1>p, LenProperties
<1>n. PICK l \in Int, m \in Int : l = 17664 + 128 * Len(s.ip) /\ m = 20 + 2 * Len(s.ip) + len
  BY <1>1
<1>2. 0 <= l /\ l < 65536 /\ 0 <= m /\ m < 65536
  <2>1. m < 65536
    BY <1>n, SMT DEF Word
  <2>. QED  BY <1>p, <1>1, <1>n, <2>1, SMT
<1>3. l \in Words /\ m \in Words
  BY ONLY l \in Int, m \in Int, <1>2, WordsAre
<1>k. PICK a \in Words, b \in Words, c \in Words, z \in Words :
         a = 7 /\ b = 16384 /\ c = 32768 + proto /\ z = 0
  <2>1. 7 \in Words /\ 16384 \in Words /\ 32768 + proto \in Words /\ 0 \in Words
    BY ONLY WordsAre, SMT
  <2>. QED  BY <2>1
<1>d. PICK d : d = <<l, m, a, b, c, z>>
  OBVIOUS
<1>4. d \in Seq(Words) /\ Len(d) = 6 /\ d[1] = l /\ d[2] = m
  BY <1>3, <1>d
<1>e. PICK e : e = d \o s.from
  OBVIOUS
<1>5. /\ e \in Seq(Words) /\ Len(e) = Len(d) + Len(s.from)
      /\ \A k \in 1 .. Len(d) : e[k] = d[k]
      /\ \A k \in Len(d) + 1 .. Len(e) : e[k] = s.from[k - Len(d)]
  <2>1. d \in Seq(Words) /\ s.from \in Seq(Words)
    BY <1>p, <1>4
  <2>. QED  BY ONLY <2>1, <1>e, SeqConcat
<1>6. /\ e \in Seq(Words) /\ Len(e) = 8 /\ e[1] = l /\ e[2] = m
      /\ e[7] = s.from[1] /\ e[8] = s.from[2]
  BY <1>p, <1>4, <1>5
<1>g. PICK g : g = e \o s.to
  OBVIOUS
<1>7. /\ g \in Seq(Words) /\ Len(g) = Len(e) + Len(s.to)
      /\ \A k \in 1 .. Len(e) : g[k] = e[k]
      /\ \A k \in Len(e) + 1 .. Len(g) : g[k] = s.to[k - Len(e)]
  <2>1. e \in Seq(Words) /\ s.to \in Seq(Words)
    BY <1>p, <1>6
  <2>. QED  BY ONLY <2>1, <1>g, SeqConcat
<1>8. /\ g \in Seq(Words) /\ Len(g) = 10 /\ g[1] = l /\ g[2] = m
      /\ g[7] = s.from[1] /\ g[8] = s.from[2] /\ g[9] = s.to[1] /\ g[10] = s.to[2]
  BY <1>p, <1>6, <1>7
<1>w. PICK w : w = g \o s.ip
  OBVIOUS
<1>9. /\ w \in Seq(Words) /\ Len(w) = Len(g) + Len(s.ip)
      /\ \A k \in 1 .. Len(g) : w[k] = g[k]
  <2>1. g \in Seq(Words) /\ s.ip \in Seq(Words)
    BY <1>p, <1>8
  <2>. QED  BY ONLY <2>1, <1>w, SeqConcat
<1>10. /\ w \in Seq(Words) /\ Len(w) = 10 + Len(s.ip) /\ w[1] = l /\ w[2] = m
       /\ w[7] = s.from[1] /\ w[8] = s.from[2] /\ w[9] = s.to[1] /\ w[10] = s.to[2]
  BY <1>8, <1>9, SMTT(60)
<1>11. w = IpFields(s, proto, len)
  BY <1>n, <1>k, <1>d, <1>e, <1>g, <1>w, SMT DEF IpFields
<1>12. w[1] = 17664 + 128 * Len(s.ip) /\ w[2] = 20 + 2 * Len(s.ip) + len
  BY <1>n, <1>10
<1>13. IpFieldsHave(w, s, len)
  BY ONLY <1>10, <1>12, SMT DEF IpFieldsHave
<1>. QED  BY ONLY <1>11, <1>13, Zenon

(* A TCP header that a client sent.                                        *)
LEMMA TcpFieldsWords ==
  ASSUME NEW s, IsSegment(s)
  PROVE  /\ TcpFields(s) \in Seq(Words) /\ Len(TcpFields(s)) = 10
         /\ TcpFields(s)[1] = s.ports[1] /\ TcpFields(s)[2] = s.ports[2]
         /\ TcpFields(s)[3] = Long(s.seq)[1] /\ TcpFields(s)[4] = Long(s.seq)[2]
         /\ TcpFields(s)[5] = Long(s.ack)[1] /\ TcpFields(s)[6] = Long(s.ack)[2]
         /\ TcpFields(s)[7] = 20480 + 2048 * Len(s.tcp) + 16 + s.fin
<1>x. PICK x, y : x = Long(s.seq) /\ y = Long(s.ack)
  OBVIOUS
<1>1. x \in Pairs /\ y \in Pairs /\ s.ports \in Pairs
  BY <1>x, LongIsPair DEF IsSegment, IsPacket, Pairs
<1>p. /\ s.ports \in Seq(Words) /\ Len(s.ports) = 2
      /\ x \in Seq(Words) /\ Len(x) = 2
      /\ y \in Seq(Words) /\ Len(y) = 2
  BY <1>1 DEF Pairs
<1>2. s.tcp \in Seq(Words) /\ Len(s.tcp) <= 20 /\ Len(s.tcp) \in Nat /\ s.fin \in {0, 1}
  BY LenProperties DEF IsSegment, Options
<1>n. PICK m \in Int : m = 20480 + 2048 * Len(s.tcp) + 16 + s.fin
  BY <1>2
<1>3. 0 <= m /\ m < 65536
  BY <1>2, <1>n, SMT
<1>4. m \in Words
  BY ONLY <1>3, m \in Int, WordsAre
<1>k. PICK a \in Words, z \in Words : a = 512 /\ z = 0
  BY ONLY WordsAre, SMT
<1>d. PICK d : d = <<m, a, z, z>>
  OBVIOUS
<1>5. d \in Seq(Words) /\ Len(d) = 4 /\ d[1] = m
  BY <1>4, <1>d
<1>e. PICK e : e = s.ports \o x
  OBVIOUS
<1>6. /\ e \in Seq(Words) /\ Len(e) = Len(s.ports) + Len(x)
      /\ \A k \in 1 .. Len(s.ports) : e[k] = s.ports[k]
      /\ \A k \in Len(s.ports) + 1 .. Len(e) : e[k] = x[k - Len(s.ports)]
  <2>1. s.ports \in Seq(Words) /\ x \in Seq(Words)
    BY <1>p
  <2>. QED  BY ONLY <2>1, <1>e, SeqConcat
<1>7. /\ e \in Seq(Words) /\ Len(e) = 4
      /\ e[1] = s.ports[1] /\ e[2] = s.ports[2] /\ e[3] = x[1] /\ e[4] = x[2]
  BY <1>p, <1>6
<1>g. PICK g : g = e \o y
  OBVIOUS
<1>8. /\ g \in Seq(Words) /\ Len(g) = Len(e) + Len(y)
      /\ \A k \in 1 .. Len(e) : g[k] = e[k]
      /\ \A k \in Len(e) + 1 .. Len(g) : g[k] = y[k - Len(e)]
  <2>1. e \in Seq(Words) /\ y \in Seq(Words)
    BY <1>p, <1>7
  <2>. QED  BY ONLY <2>1, <1>g, SeqConcat
<1>9. /\ g \in Seq(Words) /\ Len(g) = 6
      /\ g[1] = s.ports[1] /\ g[2] = s.ports[2] /\ g[3] = x[1] /\ g[4] = x[2]
      /\ g[5] = y[1] /\ g[6] = y[2]
  BY <1>p, <1>7, <1>8
<1>w. PICK w : w = g \o d
  OBVIOUS
<1>10. /\ w \in Seq(Words) /\ Len(w) = Len(g) + Len(d)
       /\ \A k \in 1 .. Len(g) : w[k] = g[k]
       /\ \A k \in Len(g) + 1 .. Len(w) : w[k] = d[k - Len(g)]
  <2>1. g \in Seq(Words) /\ d \in Seq(Words)
    BY <1>5, <1>9
  <2>. QED  BY ONLY <2>1, <1>w, SeqConcat
<1>11. /\ w \in Seq(Words) /\ Len(w) = 10
       /\ w[1] = s.ports[1] /\ w[2] = s.ports[2] /\ w[3] = x[1] /\ w[4] = x[2]
       /\ w[5] = y[1] /\ w[6] = y[2] /\ w[7] = m
  BY <1>5, <1>9, <1>10
<1>12. w = TcpFields(s)
  BY <1>x, <1>n, <1>k, <1>d, <1>e, <1>g, <1>w, SMT DEF TcpFields
<1>. QED  BY ONLY <1>x, <1>n, <1>11, <1>12, SMT

(* A packet that was sent: an IP header and the rest.                      *)
SentHas(w, s, rest, total) ==
  /\ w \in Seq(Words)
  /\ Len(w) = 10 + Len(s.ip) + Len(rest)
  /\ w[1] = 17664 + 128 * Len(s.ip) /\ w[2] = total
  /\ w[7] = s.from[1] /\ w[8] = s.from[2]
  /\ w[9] = s.to[1] /\ w[10] = s.to[2]
  /\ \A k \in 1 .. Len(rest) : w[10 + Len(s.ip) + k] = rest[k]

LEMMA SentParts ==
  ASSUME NEW s, IsPacket(s), NEW proto \in {6, 17}, NEW len \in Nat,
         20 + 2 * Len(s.ip) + len < Word,
         NEW rest \in Seq(Words)
  PROVE  SentHas(IpFields(s, proto, len) \o rest, s, rest, 20 + 2 * Len(s.ip) + len)
<1>h. PICK h : h = IpFields(s, proto, len)
  OBVIOUS
<1>1. /\ h \in Seq(Words) /\ Len(h) = 10 + Len(s.ip)
      /\ h[1] = 17664 + 128 * Len(s.ip) /\ h[2] = 20 + 2 * Len(s.ip) + len
      /\ h[7] = s.from[1] /\ h[8] = s.from[2] /\ h[9] = s.to[1] /\ h[10] = s.to[2]
  <2>1. IpFieldsHave(IpFields(s, proto, len), s, len)
    BY IpFieldsWords
  <2>. QED  BY ONLY <1>h, <2>1, SMT DEF IpFieldsHave
<1>2. Len(s.ip) \in Nat
  BY LenProperties DEF IsPacket, Options
<1>w. PICK w : w = h \o rest
  OBVIOUS
<1>3. /\ w \in Seq(Words) /\ Len(w) = Len(h) + Len(rest)
      /\ \A k \in 1 .. Len(h) : w[k] = h[k]
      /\ \A k \in Len(h) + 1 .. Len(w) : w[k] = rest[k - Len(h)]
  <2>1. h \in Seq(Words) /\ rest \in Seq(Words) /\ w = h \o rest
    BY <1>1, <1>w
  <2>. QED  BY ONLY <2>1, SeqConcat
<1>4. \A k \in {1, 2, 7, 8, 9, 10} : w[k] = h[k]
  <2>1. Len(h) \in Nat /\ Len(h) >= 10
    BY <1>1, <1>2
  <2>2. {1, 2, 7, 8, 9, 10} \subseteq 1 .. Len(h)
    BY ONLY <2>1
  <2>3. \A k \in 1 .. Len(h) : w[k] = h[k]
    BY <1>3
  <2>. QED  BY ONLY <2>2, <2>3, Zenon
<1>5. /\ w[1] = 17664 + 128 * Len(s.ip) /\ w[2] = 20 + 2 * Len(s.ip) + len
      /\ w[7] = s.from[1] /\ w[8] = s.from[2] /\ w[9] = s.to[1] /\ w[10] = s.to[2]
  BY <1>1, <1>4
<1>6. Len(w) = 10 + Len(s.ip) + Len(rest)
  BY <1>1, <1>3
<1>7. ASSUME NEW k \in 1 .. Len(rest) PROVE w[10 + Len(s.ip) + k] = rest[k]
  <2>1. PICK n \in Nat : n = 10 + Len(s.ip) + k
    BY <1>2
  <2>2. n \in Len(h) + 1 .. Len(w) /\ n - Len(h) = k
    BY <1>1, <1>2, <1>6, <2>1, LenProperties
  <2>. QED  BY ONLY <1>3, <2>1, <2>2
<1>8. w \in Seq(Words)
  BY <1>3
<1>9. SentHas(w, s, rest, 20 + 2 * Len(s.ip) + len)
  BY ONLY <1>5, <1>6, <1>7, <1>8, SMT DEF SentHas
<1>. QED  BY ONLY <1>h, <1>w, <1>9, Zenon

(* A segment and a datagram that were sent.                                *)
Rest(s) == TcpFields(s) \o s.tcp \o s.data
Total(s) == 40 + 2 * Len(s.ip) + 2 * Len(s.tcp) + s.bytes

LEMMA RestWords ==
  ASSUME NEW s, IsSegment(s)
  PROVE  /\ Rest(s) \in Seq(Words) /\ Len(Rest(s)) >= 10
         /\ \A k \in 1 .. 10 : Rest(s)[k] = TcpFields(s)[k]
<1>t. PICK t : t = TcpFields(s)
  OBVIOUS
<1>1. t \in Seq(Words) /\ Len(t) = 10
  BY <1>t, TcpFieldsWords
<1>2. s.tcp \in Seq(Words) /\ s.data \in Seq(Words)
  BY DEF IsSegment, IsPacket, Options
<1>a. PICK a : a = t \o s.tcp
  OBVIOUS
<1>3. /\ a \in Seq(Words) /\ Len(a) = Len(t) + Len(s.tcp)
      /\ \A k \in 1 .. Len(t) : a[k] = t[k]
  <2>1. t \in Seq(Words) /\ s.tcp \in Seq(Words)
    BY <1>1, <1>2
  <2>. QED  BY ONLY <2>1, <1>a, SeqConcat
<1>b. PICK b : b = a \o s.data
  OBVIOUS
<1>4. /\ b \in Seq(Words) /\ Len(b) = Len(a) + Len(s.data)
      /\ \A k \in 1 .. Len(a) : b[k] = a[k]
  <2>1. a \in Seq(Words) /\ s.data \in Seq(Words)
    BY <1>2, <1>3
  <2>. QED  BY ONLY <2>1, <1>b, SeqConcat
<1>5. Len(s.tcp) \in Nat /\ Len(s.data) \in Nat
  BY <1>2, LenProperties
<1>n. PICK m \in Nat, n \in Nat : m = Len(s.tcp) /\ n = Len(s.data)
  BY <1>5
<1>6. Len(t) = 10 /\ Len(a) = 10 + m /\ Len(b) = 10 + m + n
  BY <1>1, <1>3, <1>4, <1>n
<1>7. ASSUME NEW k \in 1 .. 10 PROVE b[k] = t[k]
  <2>1. k \in 1 .. Len(t) /\ k \in 1 .. Len(a)
    BY ONLY <1>6, k \in 1 .. 10, m \in Nat
  <2>. QED  BY <1>3, <1>4, <2>1
<1>9. b \in Seq(Words) /\ Len(b) >= 10
  BY <1>4, <1>6
<1>8. b = Rest(s)
  BY <1>t, <1>a, <1>b DEF Rest
<1>. QED  BY ONLY <1>t, <1>7, <1>8, <1>9, Zenon

LEMMA SegmentHas ==
  ASSUME NEW s, IsSegment(s)
  PROVE  SentHas(Segment(s).words, s, Rest(s), Total(s)) /\ Segment(s).eth = s.eth
<1>1. Len(s.ip) \in Nat /\ Len(s.tcp) \in Nat /\ s.bytes \in Nat /\ IsPacket(s)
  BY LenProperties DEF IsSegment, IsPacket, Options
<1>2. PICK len \in Nat : len = 20 + 2 * Len(s.tcp) + s.bytes
  BY <1>1
<1>3. 20 + 2 * Len(s.ip) + len = Total(s) /\ Total(s) < Word
  <2>1. 40 + 2 * Len(s.ip) + 2 * Len(s.tcp) + s.bytes < Word
    BY DEF IsSegment
  <2>2. PICK i \in Nat, j \in Nat, b \in Nat : i = Len(s.ip) /\ j = Len(s.tcp) /\ b = s.bytes
    BY <1>1
  <2>3. Total(s) = 40 + 2 * i + 2 * j + b /\ len = 20 + 2 * j + b
    BY <1>2, <2>2 DEF Total
  <2>4. Total(s) < Word
    BY ONLY <2>1, Zenon DEF Total
  <2>5. 20 + 2 * i + len = Total(s)
    BY ONLY <2>3
  <2>. QED  BY ONLY <2>2, <2>4, <2>5, Zenon
<1>4. Rest(s) \in Seq(Words) /\ 6 \in {6, 17}
  BY RestWords
<1>5. SentHas(IpFields(s, 6, len) \o Rest(s), s, Rest(s), 20 + 2 * Len(s.ip) + len)
  BY <1>1, <1>3, <1>4, SentParts
<1>6. Segment(s).words = IpFields(s, 6, len) \o Rest(s) /\ Segment(s).eth = s.eth
  BY <1>2 DEF Segment, Rest
<1>. QED  BY <1>3, <1>5, <1>6

QuicRest(d) == d.ports \o <<8 + d.bytes, 0>> \o d.data
LEMMA DatagramHas ==
  ASSUME NEW d, IsPacket(d), 28 + 2 * Len(d.ip) + d.bytes < Word
  PROVE  /\ SentHas(Datagram(d).words, d, QuicRest(d), 28 + 2 * Len(d.ip) + d.bytes)
         /\ Datagram(d).eth = d.eth
         /\ QuicRest(d) \in Seq(Words)
<1>1. /\ Len(d.ip) \in Nat /\ d.bytes \in Nat
      /\ d.ports \in Seq(Words) /\ d.data \in Seq(Words)
  BY LenProperties DEF IsPacket, Options
<1>2. PICK len \in Nat : len = 8 + d.bytes
  BY <1>1
<1>3. 20 + 2 * Len(d.ip) + len = 28 + 2 * Len(d.ip) + d.bytes
  BY <1>1, <1>2
<1>4. QuicRest(d) \in Seq(Words)
  <2>1. len \in Words /\ 0 \in Words
    <3>1. len < 65536
      BY <1>1, <1>2, SMT DEF Word
    <3>. QED  BY <3>1, WordsAre, SMT
  <2>2. PICK z \in Words : z = 0
    BY <2>1
  <2>a. PICK a : a = <<len, z>>
    OBVIOUS
  <2>3. a \in Seq(Words)
    BY <2>1, <2>a
  <2>4. QuicRest(d) = d.ports \o a \o d.data
    BY <1>2, <2>2, <2>a DEF QuicRest
  <2>5. d.ports \o a \in Seq(Words)
    BY ONLY <1>1, <2>3, ConcatProperties
  <2>6. (d.ports \o a) \o d.data \in Seq(Words)
    BY ONLY <1>1, <2>5, ConcatProperties
  <2>. QED  BY <2>4, <2>6
<1>5. SentHas(IpFields(d, 17, len) \o QuicRest(d), d, QuicRest(d), 20 + 2 * Len(d.ip) + len)
  BY <1>3, <1>4, SentParts
<1>6. Datagram(d).words = IpFields(d, 17, len) \o QuicRest(d) /\ Datagram(d).eth = d.eth
  BY <1>2 DEF Datagram, QuicRest
<1>. QED  BY <1>3, <1>4, <1>5, <1>6

(* A packet as the capture has it.                                         *)
CutHas(p, s, rest, total) ==
  /\ p.words \in Seq(Words)
  /\ Len(p.words) >= 10 + Len(s.ip)
  /\ p.words[2] = total
  /\ IpLen(p) = 20 + 2 * Len(s.ip)
  /\ Saddr(p) = s.from /\ Daddr(p) = s.to
  /\ \A k \in 1 .. Len(p.words) - (10 + Len(s.ip)) : p.words[10 + Len(s.ip) + k] = rest[k]

CutOf(p, P, s, rest, total) ==
  /\ CutHas(p, s, rest, total) /\ p.eth = P.eth
  /\ \A k \in 1 .. Len(p.words) : p.words[k] = P.words[k]
  /\ Len(p.words) <= Len(P.words)

LEMMA CutParts ==
  ASSUME NEW s, NEW rest, NEW total, NEW P, NEW p,
         IsPacket(s), rest \in Seq(Words), SentHas(P.words, s, rest, total), p \in Cut(P)
  PROVE  CutOf(p, P, s, rest, total)
<1>q. PICK q : q = P.words
  OBVIOUS
<1>1. /\ q \in Seq(Words)
      /\ Len(q) = 10 + Len(s.ip) + Len(rest)
      /\ q[1] = 17664 + 128 * Len(s.ip) /\ q[2] = total
      /\ q[7] = s.from[1] /\ q[8] = s.from[2]
      /\ q[9] = s.to[1] /\ q[10] = s.to[2]
      /\ \A k \in 1 .. Len(rest) : q[10 + Len(s.ip) + k] = rest[k]
  BY <1>q DEF SentHas
<1>2. /\ s.from \in Seq(Words) /\ Len(s.from) = 2
      /\ s.to \in Seq(Words) /\ Len(s.to) = 2
      /\ s.ip \in Seq(Words) /\ Len(s.ip) <= 20 /\ Len(s.ip) % 2 = 0
  BY DEF IsPacket, Options
<1>n. PICK n \in Nat : n = Len(s.ip) /\ n \in 0 .. 20 /\ n % 2 = 0
  <2>1. PICK n \in Nat : n = Len(s.ip)
    BY <1>2, LenProperties
  <2>2. n <= 20 /\ n % 2 = 0
    BY ONLY <1>2, <2>1, Zenon
  <2>3. n \in 0 .. 20
    BY ONLY <2>2, n \in Nat
  <2>. QED  BY ONLY <2>1, <2>2, <2>3, n \in Nat, Zenon
<1>h. \A x \in Int : x = 17664 + 128 * n => 4 * ((x \div 256) % 16) = 20 + 2 * n
  <2>1. n \in {0, 2, 4, 6, 8, 10, 12, 14, 16, 18, 20}
    <3>1. n \in 0 .. 20
      BY <1>n
    <3>2. n % 2 = 0
      BY ONLY <1>n, Zenon
    <3>. QED  BY ONLY <3>1, <3>2, SMT
  <2>. QED  BY ONLY <2>1, SMT
<1>x. PICK x \in Int : x = 17664 + 128 * n /\ 4 * ((x \div 256) % 16) = 20 + 2 * n
  BY ONLY <1>h, n \in Nat, SMT
<1>3. IpLen(P) = 20 + 2 * n
  <2>1. q[1] = x
    BY <1>1, <1>n, <1>x
  <2>. QED  BY ONLY <1>q, <1>x, <2>1, SMT DEF IpLen
<1>4. IpLen(P) \div 2 = 10 + n
  BY <1>3
<1>k. PICK k \in 10 + n .. Len(q) : p = [P EXCEPT !.words = SubSeq(q, 1, k)]
  BY <1>q, <1>4 DEF Cut
<1>w. PICK w : w = SubSeq(q, 1, k)
  OBVIOUS
<1>5. Len(q) \in Nat /\ k \in Nat /\ k <= Len(q) /\ k >= 10 + n
  BY <1>1, <1>n, LenProperties
<1>6. w \in Seq(Words) /\ Len(w) = k /\ \A i \in 1 .. k : w[i] = q[i]
  <2>1. q \in Seq(Words) /\ \A i \in 1 .. k : q[i] \in Words
    BY <1>1, <1>5, SMTT(60)
  <2>2. /\ SubSeq(q, 1, k) \in Seq(Words)
        /\ Len(SubSeq(q, 1, k)) = IF 1 <= k THEN k - 1 + 1 ELSE 0
        /\ \A i \in 1 .. k - 1 + 1 : SubSeq(q, 1, k)[i] = q[1 + i - 1]
    BY ONLY <1>5, <2>1, SubSeqProperties
  <2>. QED  BY ONLY <1>5, <1>w, <2>2
<1>7. p.words = w /\ p.eth = P.eth
  BY <1>k, <1>w, <1>q
<1>8. {1, 2, 7, 8, 9, 10} \subseteq 1 .. k
  BY <1>5, <1>n
<1>9. \A i \in {1, 2, 7, 8, 9, 10} : w[i] = q[i]
  BY ONLY <1>6, <1>8, Zenon
<1>10. /\ w[1] = 17664 + 128 * n /\ w[2] = total
       /\ w[7] = s.from[1] /\ w[8] = s.from[2]
       /\ w[9] = s.to[1] /\ w[10] = s.to[2]
  BY <1>1, <1>9, <1>n
<1>11. IpLen(p) = 20 + 2 * n
  <2>1. w[1] = x
    BY <1>10, <1>x
  <2>. QED  BY ONLY <1>7, <1>x, <2>1, SMT DEF IpLen
<1>12. Saddr(p) = s.from
  <2>1. PICK lo \in 1 .. Len(w) + 1, hi \in Int : lo = 7 /\ hi = 8
    BY <1>5, <1>6, <1>n
  <2>2. hi = lo + Len(s.from) - 1 /\ hi <= Len(w)
    BY <1>2, <1>5, <1>6, <1>n, <2>1
  <2>3. \A i \in 1 .. Len(s.from) : w[lo + i - 1] = s.from[i]
    BY <1>2, <1>10, <2>1
  <2>4. s.from \in Seq(Words) /\ w \in Seq(Words)
    BY <1>2, <1>6
  <2>5. SubSeq(w, lo, hi) = s.from
    BY ONLY <2>2, <2>3, <2>4, SubSeqIs
  <2>. QED  BY <1>7, <2>1, <2>5 DEF Saddr
<1>13. Daddr(p) = s.to
  <2>1. PICK lo \in 1 .. Len(w) + 1, hi \in Int : lo = 9 /\ hi = 10
    BY <1>5, <1>6, <1>n
  <2>2. hi = lo + Len(s.to) - 1 /\ hi <= Len(w)
    BY <1>2, <1>5, <1>6, <1>n, <2>1
  <2>3. \A i \in 1 .. Len(s.to) : w[lo + i - 1] = s.to[i]
    BY <1>2, <1>10, <2>1
  <2>4. s.to \in Seq(Words) /\ w \in Seq(Words)
    BY <1>2, <1>6
  <2>5. SubSeq(w, lo, hi) = s.to
    BY ONLY <2>2, <2>3, <2>4, SubSeqIs
  <2>. QED  BY <1>7, <2>1, <2>5 DEF Daddr
<1>14. ASSUME NEW i \in 1 .. k - (10 + n) PROVE w[10 + n + i] = rest[i]
  <2>1. PICK j \in Nat : j = 10 + n + i
    OBVIOUS
  <2>2. i \in 1 .. Len(rest) /\ j \in 1 .. k
    BY <1>1, <1>5, <1>n, <2>1, LenProperties, SMTT(60)
  <2>3. q[10 + Len(s.ip) + i] = rest[i]
    BY ONLY <1>1, <2>2
  <2>. QED  BY ONLY <1>6, <1>n, <2>1, <2>2, <2>3
<1>15. w \in Seq(Words) /\ Len(w) = k
  BY <1>6
<1>16. CutHas(p, s, rest, total)
  BY ONLY <1>5, <1>n, <1>7, <1>10, <1>11, <1>12, <1>13, <1>14, <1>15, SMT DEF CutHas
<1>17. \A i \in 1 .. Len(w) : w[i] = q[i]
  BY <1>6
<1>18. Len(w) <= Len(q)
  BY <1>5, <1>15
<1>. QED  BY ONLY <1>q, <1>7, <1>16, <1>17, <1>18, Zenon DEF CutOf

(* Where an answer comes from.                                             *)
LEMMA ResetOfSegment ==
  ASSUME NEW s, IsSegment(s), NEW f \in ResetsTo(s)
  PROVE  \E p \in Cut(Segment(s)) :
           /\ f \in ToSet(queue_spoofed_rst_packet(p))
           /\ p.eth = s.eth /\ CutHas(p, s, Rest(s), Total(s))
<1>1. PICK p \in Cut(Segment(s)) : f \in ToSet(queue_spoofed_rst_packet(p))
  BY DEF ResetsTo
<1>2. IsPacket(s) /\ Rest(s) \in Seq(Words)
  BY RestWords DEF IsSegment
<1>3. SentHas(Segment(s).words, s, Rest(s), Total(s)) /\ Segment(s).eth = s.eth
  BY SegmentHas
<1>4. CutHas(p, s, Rest(s), Total(s)) /\ p.eth = Segment(s).eth
  <2>1. PICK P, rest, total : P = Segment(s) /\ rest = Rest(s) /\ total = Total(s)
    OBVIOUS
  <2>2. IsPacket(s) /\ rest \in Seq(Words) /\ SentHas(P.words, s, rest, total) /\ p \in Cut(P)
    BY <1>2, <1>3, <2>1
  <2>3. CutOf(p, P, s, rest, total)
    BY ONLY <2>2, CutParts
  <2>. QED  BY ONLY <2>1, <2>3, Zenon DEF CutOf
<1>. QED  BY <1>1, <1>3, <1>4

LEMMA UnreachableOfDatagram ==
  ASSUME NEW d, IsPacket(d), 28 + 2 * Len(d.ip) + d.bytes < Word, NEW f \in UnreachableTo(d)
  PROVE  \E p \in Cut(Datagram(d)) :
           /\ f \in ToSet(queue_spoofed_icmp_unreachable(p))
           /\ p.eth = d.eth /\ p.words \in Seq(Words)
           /\ IpLen(p) = 20 + 2 * Len(d.ip)
           /\ Saddr(p) = d.from
           /\ Datagram(d).words \in Seq(Words)
           /\ Len(p.words) <= Len(Datagram(d).words)
           /\ \A k \in 1 .. Len(p.words) : p.words[k] = Datagram(d).words[k]
<1>1. PICK p \in Cut(Datagram(d)) : f \in ToSet(queue_spoofed_icmp_unreachable(p))
  BY DEF UnreachableTo
<1>t. PICK total : total = 28 + 2 * Len(d.ip) + d.bytes
  OBVIOUS
<1>2. SentHas(Datagram(d).words, d, QuicRest(d), total) /\ Datagram(d).eth = d.eth
  BY <1>t, DatagramHas
<1>3. QuicRest(d) \in Seq(Words)
  BY DatagramHas
<1>4. /\ CutHas(p, d, QuicRest(d), total) /\ p.eth = Datagram(d).eth
      /\ \A k \in 1 .. Len(p.words) : p.words[k] = Datagram(d).words[k]
      /\ Len(p.words) <= Len(Datagram(d).words)
  <2>1. PICK P, rest : P = Datagram(d) /\ rest = QuicRest(d)
    OBVIOUS
  <2>2. IsPacket(d) /\ rest \in Seq(Words) /\ SentHas(P.words, d, rest, total) /\ p \in Cut(P)
    BY <1>2, <1>3, <2>1
  <2>3. CutOf(p, P, d, rest, total)
    BY ONLY <2>2, CutParts
  <2>. QED  BY ONLY <2>1, <2>3, Zenon DEF CutOf
<1>. QED  BY <1>1, <1>2, <1>4 DEF CutHas, SentHas

(* Every answer's checksums hold, whatever was captured.                   *)
LEMMA ForgedSums == ASSUME NEW f \in Forged PROVE Sums(f)
<1>1. CASE \E s \in Sent : f \in ResetsTo(s)
  <2>1. PICK s \in Sent : f \in ResetsTo(s)
    BY <1>1
  <2>2. IsSegment(s)
    BY AnswersAssumption
  <2>3. PICK p : p.words \in Seq(Words) /\ f \in ToSet(queue_spoofed_rst_packet(p))
    BY <2>1, <2>2, ResetOfSegment DEF CutHas
  <2>. QED  BY <2>3, ResetsOf DEF ResetHas
<1>2. CASE \E d \in Quic : f \in UnreachableTo(d)
  <2>1. PICK d \in Quic : f \in UnreachableTo(d)
    BY <1>2
  <2>2. IsPacket(d) /\ 28 + 2 * Len(d.ip) + d.bytes < Word
    BY AnswersAssumption
  <2>3. PICK p : p.words \in Seq(Words) /\ f \in ToSet(queue_spoofed_icmp_unreachable(p))
    BY <2>1, <2>2, UnreachableOfDatagram
  <2>. QED  BY <2>3, UnreachableOf DEF IcmpHas
<1>3. \/ \E s \in Sent : f \in ResetsTo(s)
      \/ \E d \in Quic : f \in UnreachableTo(d)
  BY SMT DEF Forged
<1>. QED  BY ONLY <1>1, <1>2, <1>3, Zenon

(* Every packet that can be pushed passes both tests.                      *)
LEMMA AllSound == RawPacket \subseteq Sound
  BY ForgedSums, AnswersAssumption DEF Sound, Sums
-----------------------------------------------------------------------------
(* What the receivers make of the answers.                                 *)

(* The addition to a 32-bit number is one of numbers.                      *)
LEMMA LongPlus ==
  ASSUME NEW m \in Int, NEW n \in Nat
  PROVE  Plus(Long(m), n) = Long(m + n)
<1>1. PICK q \in Int, r \in Int : q = m \div 65536 /\ r = m % 65536 /\ 0 <= r /\ r < 65536
                                   /\ m = 65536 * q + r
  BY Divided
<1>2. PICK low \in Int : low = r + n
  OBVIOUS
<1>3. PICK q2 \in Int, r2 \in Int : q2 = low \div 65536 /\ r2 = low % 65536
                                     /\ 0 <= r2 /\ r2 < 65536 /\ low = 65536 * q2 + r2
  BY Divided
<1>4. PICK q3 \in Int, r3 \in Int : q3 = (m + n) \div 65536 /\ r3 = (m + n) % 65536
                                     /\ 0 <= r3 /\ r3 < 65536 /\ m + n = 65536 * q3 + r3
  <2>1. PICK x \in Int : x = m + n
    OBVIOUS
  <2>. QED  BY <2>1, Divided
<1>5. 65536 * (q + q2) + r2 = 65536 * q3 + r3
  BY ONLY <1>1, <1>2, <1>3, <1>4, SMT
<1>6. q + q2 = q3 /\ r2 = r3
  BY ONLY <1>3, <1>4, <1>5, SMT
<1>7. ((q % 65536) + q2) % 65536 = q3 % 65536
  <2>1. PICK a \in Int, b \in Int : q = 65536 * a + b /\ b = q % 65536
    BY Divided
  <2>2. PICK c \in Int, d \in Int : b + q2 = 65536 * c + d /\ d = (b + q2) % 65536
                                     /\ 0 <= d /\ d < 65536
    <3>1. PICK x \in Int : x = b + q2
      OBVIOUS
    <3>. QED  BY <3>1, Divided
  <2>3. PICK e \in Int, g \in Int : q3 = 65536 * e + g /\ g = q3 % 65536 /\ 0 <= g /\ g < 65536
    BY Divided
  <2>4. 65536 * (a + c) + d = 65536 * e + g
    BY ONLY <1>6, <2>1, <2>2, <2>3, SMT
  <2>5. d = g
    BY ONLY <2>2, <2>3, <2>4, SMT
  <2>6. PICK z : z = q % 65536 /\ z = b
    BY ONLY <2>1, SMT
  <2>7. (b + q2) % 65536 = q3 % 65536
    BY ONLY <2>2, <2>3, <2>5, SMT
  <2>8. ((q % 65536) + q2) % 65536 = (b + q2) % 65536
    BY ONLY <2>6, SMT
  <2>. QED  BY ONLY <2>7, <2>8, SMT
<1>8. Long(m) = <<q % 65536, r>> /\ Long(m + n) = <<q3 % 65536, r3>>
  BY <1>1, <1>4, SMT DEF Long, Word
<1>l. PICK l : l = Long(m)
  OBVIOUS
<1>9. l[1] = q % 65536 /\ l[2] = r
  BY <1>8, <1>l, SMT
<1>10. Plus(l, n) = <<(l[1] + ((l[2] + n) \div 65536)) % 65536, (l[2] + n) % 65536>>
  BY SMT DEF Plus, Word
<1>11. Plus(l, n) = <<((q % 65536) + q2) % 65536, r2>>
  BY ONLY <1>2, <1>3, <1>9, <1>10, SMT
<1>. QED  BY ONLY <1>6, <1>7, <1>8, <1>11, <1>l, SMT

(* The fields of a segment as the injector reads them.                     *)
LEMMA OffsetAndFlags ==
  ASSUME NEW n \in 0 .. 20, n % 2 = 0, NEW fin \in {0, 1}, NEW x \in Int,
         x = 20480 + 2048 * n + 16 + fin
  PROVE  /\ 4 * (x \div 4096) = 20 + 2 * n
         /\ (x \div 2) % 2 = 0 /\ (x \div 1) % 2 = fin
<1>1. n \in {0, 2, 4, 6, 8, 10, 12, 14, 16, 18, 20}
  BY ONLY n \in 0 .. 20, n % 2 = 0, SMT
<1>. QED  BY ONLY <1>1, fin \in {0, 1}, x = 20480 + 2048 * n + 16 + fin, SMT

(* The injector reads from a captured segment what its client put there,   *)
(* and where the next one starts.                                          *)
LEMMA SegmentReadBack ==
  ASSUME NEW s, IsSegment(s), NEW p, CutHas(p, s, Rest(s), Total(s)), Whole(p)
  PROVE  /\ Saddr(p) = s.from /\ Daddr(p) = s.to
         /\ Ports(p) = s.ports /\ Ack(p) = Long(s.ack) /\ NextSeq(p) = Expected(s)
<1>1. /\ p.words \in Seq(Words)
      /\ p.words[2] = Total(s)
      /\ IpLen(p) = 20 + 2 * Len(s.ip)
      /\ Saddr(p) = s.from /\ Daddr(p) = s.to
      /\ \A k \in 1 .. Len(p.words) - (10 + Len(s.ip)) :
           p.words[10 + Len(s.ip) + k] = Rest(s)[k]
  BY DEF CutHas
<1>2. /\ s.ip \in Seq(Words) /\ s.tcp \in Seq(Words)
      /\ Len(s.tcp) <= 20 /\ Len(s.tcp) % 2 = 0
      /\ s.bytes \in Nat /\ s.fin \in {0, 1} /\ s.seq \in Int /\ s.ack \in Int
      /\ s.ports \in Pairs
  BY DEF IsSegment, IsPacket, Options, Pairs
<1>n. PICK i \in Nat, n \in Nat, b \in Nat : i = Len(s.ip) /\ n = Len(s.tcp) /\ b = s.bytes
  BY <1>2, LenProperties
<1>t. PICK t : t = Inner(p)
  OBVIOUS
<1>3. /\ t \in Seq(Words) /\ Len(t) >= 10
      /\ Len(t) = Len(p.words) - IpLen(p) \div 2
      /\ \A k \in 1 .. Len(t) : t[k] = p.words[IpLen(p) \div 2 + k]
  <2>1. CapLen(p) >= 14 + IpLen(p) + 2 * 10
    <3>1. PICK x \in Int, y \in Int : x = CapLen(p) /\ y = IpLen(p)
      BY <1>1, <1>n, LenProperties DEF CapLen
    <3>2. x >= 14 + y + 20
      BY <3>1 DEF Whole
    <3>. QED  BY <3>1, <3>2
  <2>2. PICK m \in Nat : m = 10
    OBVIOUS
  <2>3. CapLen(p) >= 14 + IpLen(p) + 2 * m
    BY <2>1, <2>2
  <2>4. HasHeaders(p)
    BY <1>1, SegmentParts
  <2>5. /\ Inner(p) \in Seq(Words) /\ Len(Inner(p)) >= m
        /\ Len(Inner(p)) = Len(p.words) - IpLen(p) \div 2
        /\ \A k \in 1 .. Len(Inner(p)) : Inner(p)[k] = p.words[IpLen(p) \div 2 + k]
    BY ONLY <1>1, <2>3, <2>4, InnerThere
  <2>. QED  BY ONLY <1>t, <2>2, <2>5, Zenon
<1>4. IpLen(p) \div 2 = 10 + i
  <2>1. IpLen(p) = 20 + 2 * i
    BY ONLY <1>1, <1>n, Zenon
  <2>2. (20 + 2 * i) \div 2 = 10 + i
    BY ONLY i \in Nat, SMT
  <2>. QED  BY ONLY <2>1, <2>2
<1>5. \A k \in 1 .. 10 : t[k] = Rest(s)[k]
  <2>w. PICK w, r : w = p.words /\ r = Rest(s)
    OBVIOUS
  <2>1. Len(t) \in Nat /\ Len(w) \in Nat
    BY <1>1, <1>3, <2>w, LenProperties
  <2>2. /\ Len(t) >= 10 /\ Len(t) = Len(w) - (10 + i)
        /\ \A k \in 1 .. Len(t) : t[k] = w[10 + i + k]
    BY ONLY <1>3, <1>4, <2>w, Zenon
  <2>3. \A k \in 1 .. Len(w) - (10 + i) : w[10 + i + k] = r[k]
    BY ONLY <1>1, <1>n, <2>w, Zenon
  <2>4. \A k \in 1 .. 10 : k \in 1 .. Len(t) /\ k \in 1 .. Len(w) - (10 + i)
    BY ONLY <2>1, <2>2, i \in Nat
  <2>5. \A k \in 1 .. 10 : t[k] = r[k]
    BY ONLY <2>2, <2>3, <2>4, Zenon
  <2>. QED  BY <2>w, <2>5
<1>6. \A k \in 1 .. 10 : t[k] = TcpFields(s)[k]
  BY <1>5, RestWords
<1>7. {1, 2, 3, 4, 5, 6, 7} \subseteq 1 .. 10
  OBVIOUS
<1>8. \A k \in {1, 2, 3, 4, 5, 6, 7} : t[k] = TcpFields(s)[k]
  BY ONLY <1>6, <1>7, Zenon
<1>u. PICK u : u = TcpFields(s)
  OBVIOUS
<1>9. /\ u[1] = s.ports[1] /\ u[2] = s.ports[2]
      /\ u[3] = Long(s.seq)[1] /\ u[4] = Long(s.seq)[2]
      /\ u[5] = Long(s.ack)[1] /\ u[6] = Long(s.ack)[2]
      /\ u[7] = 20480 + 2048 * Len(s.tcp) + 16 + s.fin
  BY <1>u, TcpFieldsWords
<1>10. /\ t[1] = s.ports[1] /\ t[2] = s.ports[2]
       /\ t[3] = Long(s.seq)[1] /\ t[4] = Long(s.seq)[2]
       /\ t[5] = Long(s.ack)[1] /\ t[6] = Long(s.ack)[2]
       /\ t[7] = u[7]
  BY <1>u, <1>8, <1>9
<1>11. /\ HasHeaders(p) /\ Ports(p) \in Pairs /\ Ack(p) \in Pairs
       /\ SubSeq(t, 3, 4) \in Pairs
       /\ Ports(p)[1] = t[1] /\ Ports(p)[2] = t[2]
       /\ SubSeq(t, 3, 4)[1] = t[3] /\ SubSeq(t, 3, 4)[2] = t[4]
       /\ Ack(p)[1] = t[5] /\ Ack(p)[2] = t[6]
  BY <1>1, <1>t, SegmentParts
<1>12. Long(s.seq) \in Pairs /\ Long(s.ack) \in Pairs
  BY <1>2, LongIsPair
<1>13. \A x \in Pairs, y \in Pairs : x[1] = y[1] /\ x[2] = y[2] => x = y
  <2>1. ASSUME NEW x \in Pairs, NEW y \in Pairs, x[1] = y[1], x[2] = y[2] PROVE x = y
    <3>1. x \in Seq(Words) /\ y \in Seq(Words) /\ Len(x) = Len(y)
      BY DEF Pairs
    <3>2. \A k \in 1 .. Len(x) : x[k] = y[k]
      BY <2>1 DEF Pairs
    <3>. QED  BY <3>1, <3>2, SeqEqual
  <2>. QED  BY <2>1
<1>14. Ports(p) = s.ports /\ Ack(p) = Long(s.ack) /\ SubSeq(t, 3, 4) = Long(s.seq)
  <2>1. Ports(p) \in Pairs /\ s.ports \in Pairs /\ Ports(p)[1] = s.ports[1] /\ Ports(p)[2] = s.ports[2]
    BY ONLY <1>2, <1>10, <1>11, Zenon
  <2>2. Ack(p) \in Pairs /\ Ack(p)[1] = Long(s.ack)[1] /\ Ack(p)[2] = Long(s.ack)[2]
    BY ONLY <1>10, <1>11, Zenon
  <2>3. /\ SubSeq(t, 3, 4) \in Pairs
        /\ SubSeq(t, 3, 4)[1] = Long(s.seq)[1] /\ SubSeq(t, 3, 4)[2] = Long(s.seq)[2]
    BY ONLY <1>10, <1>11, Zenon
  <2>. QED  BY ONLY <1>12, <1>13, <2>1, <2>2, <2>3, Zenon
<1>15. PICK x \in Int, fin \in {0, 1} :
         /\ fin = s.fin /\ x = t[7]
         /\ 4 * (x \div 4096) = 20 + 2 * n
         /\ (x \div 2) % 2 = 0 /\ (x \div 1) % 2 = fin
  <2>1. PICK fin \in {0, 1} : fin = s.fin
    BY <1>2
  <2>2. PICK x \in Int : x = 20480 + 2048 * n + 16 + fin
    OBVIOUS
  <2>3. n <= 20 /\ n % 2 = 0
    BY ONLY <1>2, <1>n, Zenon
  <2>4. n \in 0 .. 20
    BY ONLY <2>3, n \in Nat
  <2>5. /\ 4 * (x \div 4096) = 20 + 2 * n
        /\ (x \div 2) % 2 = 0 /\ (x \div 1) % 2 = fin
    BY ONLY <2>2, <2>3, <2>4, fin \in {0, 1}, OffsetAndFlags
  <2>6. x = t[7]
    <3>1. t[7] = 20480 + 2048 * Len(s.tcp) + 16 + s.fin
      BY ONLY <1>9, <1>10, SMT
    <3>. QED  BY ONLY <3>1, <1>n, <2>1, <2>2, SMT
  <2>. QED  BY ONLY <2>1, <2>5, <2>6, x \in Int, fin \in {0, 1}, SMT
<1>16. TcpLen(p) = 20 + 2 * n /\ Flag(p, 2) = 0 /\ Flag(p, 1) = fin
  BY ONLY <1>t, <1>15, SMT DEF TcpLen, Flag
<1>17. Payload(p) = b
  <2>1. p.words[2] = 40 + 2 * i + 2 * n + b
    BY ONLY <1>1, <1>n, Zenon DEF Total
  <2>2. IpLen(p) = 20 + 2 * i
    BY ONLY <1>1, <1>n, Zenon
  <2>3. PICK len \in Int : len = p.words[2] - (IpLen(p) + TcpLen(p)) /\ len = b
    BY ONLY <1>16, <2>1, <2>2, i \in Nat, n \in Nat, b \in Nat
  <2>. QED  BY ONLY <2>3, b \in Nat DEF Payload
<1>18. Occupies(p) = b + fin
  BY ONLY <1>16, <1>17, b \in Nat, fin \in {0, 1} DEF Occupies
<1>19. NextSeq(p) = Plus(Long(s.seq), b + fin)
  BY ONLY <1>t, <1>14, <1>18, Zenon DEF NextSeq
<1>20. PICK m \in Int, k \in Nat : m = s.seq /\ k = b + fin
  BY <1>2
<1>21. NextSeq(p) = Long(m + k)
  BY ONLY <1>19, <1>20, LongPlus
<1>22. Expected(s) = Long(m + k)
  <2>1. s.seq + s.bytes + s.fin = m + k
    <3>1. s.seq + s.bytes + s.fin = m + b + fin
      BY ONLY <1>n, <1>15, <1>20, SMT
    <3>. QED  BY ONLY <3>1, <1>20, m \in Int, b \in Nat, fin \in {0, 1}
  <2>. QED  BY <2>1 DEF Expected
<1>. QED  BY <1>1, <1>14, <1>21, <1>22

(* Two or three pairs one after the other.                                 *)
LEMMA PairsJoined ==
  ASSUME NEW x \in Pairs, NEW y \in Pairs, NEW z \in Pairs
  PROVE  /\ x \o y \in Seq(Words) /\ Len(x \o y) = 4
         /\ (x \o y)[1] = x[1] /\ (x \o y)[2] = x[2]
         /\ (x \o y)[3] = y[1] /\ (x \o y)[4] = y[2]
         /\ x \o y \o z \in Seq(Words) /\ Len(x \o y \o z) = 6
         /\ (x \o y \o z)[1] = x[1] /\ (x \o y \o z)[2] = x[2]
         /\ (x \o y \o z)[3] = y[1] /\ (x \o y \o z)[4] = y[2]
         /\ (x \o y \o z)[5] = z[1] /\ (x \o y \o z)[6] = z[2]
<1>a. PICK a : a = x \o y
  OBVIOUS
<1>1. /\ a \in Seq(Words) /\ Len(a) = 4
      /\ a[1] = x[1] /\ a[2] = x[2] /\ a[3] = y[1] /\ a[4] = y[2]
  BY ONLY x \in Pairs, y \in Pairs, <1>a, PseudoHeader, Zenon DEF AddressesAre
<1>b. PICK b : b = a \o z
  OBVIOUS
<1>2. z \in Seq(Words) /\ Len(z) = 2
  BY DEF Pairs
<1>3. /\ b \in Seq(Words) /\ Len(b) = Len(a) + Len(z)
      /\ \A k \in 1 .. Len(a) : b[k] = a[k]
      /\ \A k \in Len(a) + 1 .. Len(b) : b[k] = z[k - Len(a)]
  <2>1. a \in Seq(Words) /\ z \in Seq(Words)
    BY <1>1, <1>2
  <2>. QED  BY ONLY <2>1, <1>b, SeqConcat
<1>4. /\ Len(b) = 6
      /\ b[1] = a[1] /\ b[2] = a[2] /\ b[3] = a[3] /\ b[4] = a[4]
      /\ b[5] = z[1] /\ b[6] = z[2]
  BY <1>1, <1>2, <1>3
<1>5. b \in Seq(Words)
  BY <1>3
<1>. QED  BY ONLY <1>a, <1>b, <1>1, <1>4, <1>5, SMT

(* The front of a sequence.                                                *)
LEMMA FrontIs ==
  ASSUME NEW q \in Seq(Words), NEW t \in Seq(Words), Len(t) <= Len(q),
         \A k \in 1 .. Len(t) : q[k] = t[k], NEW n, n = Len(t)
  PROVE  SubSeq(q, 1, n) = t
<1>1. Len(q) \in Nat /\ Len(t) \in Nat
  BY LenProperties
<1>2. 1 \in 1 .. Len(q) + 1 /\ n = 1 + Len(t) - 1 /\ n <= Len(q)
  BY <1>1
<1>3. \A k \in 1 .. Len(t) : q[1 + k - 1] = t[k]
  BY <1>1
<1>. QED  BY ONLY <1>2, <1>3, SubSeqIs

(* Each reset fits the segment that it answers, ...                        *)
LEMMA ResetFits ==
  ASSUME NEW s, IsSegment(s), NEW f \in ResetsTo(s)
  PROVE  EndsServer(f, s) \/ EndsClient(f, s)
<1>1. PICK p : /\ f \in ToSet(queue_spoofed_rst_packet(p))
               /\ p.eth = s.eth /\ CutHas(p, s, Rest(s), Total(s))
  BY ResetOfSegment
<1>2. p.words \in Seq(Words)
  BY <1>1 DEF CutHas
<1>3. /\ Whole(p)
      /\ \/ f = Fwd(p) /\ ResetHas(f, Saddr(p), Daddr(p), Ports(p), NextSeq(p), Ack(p))
         \/ f = Bwd(p) /\ ResetHas(f, Daddr(p), Saddr(p), Turned(Ports(p)), Ack(p), NextSeq(p))
  BY ONLY <1>1, <1>2, ResetsOf
<1>4. /\ Saddr(p) = s.from /\ Daddr(p) = s.to
      /\ Ports(p) = s.ports /\ Ack(p) = Long(s.ack) /\ NextSeq(p) = Expected(s)
  BY <1>1, <1>3, SegmentReadBack
<1>5. s.ports \in Pairs /\ Long(s.ack) \in Pairs /\ Expected(s) \in Pairs
  BY <1>2, <1>3, <1>4, SegmentParts
<1>6. Reverse(s.ports) = Turned(s.ports) /\ Turned(s.ports) \in Pairs
  BY <1>5, ReverseOfPair
<1>t. PICK t : t = Inner(f)
  OBVIOUS
<1>7. CASE f = Fwd(p) /\ ResetHas(f, Saddr(p), Daddr(p), Ports(p), NextSeq(p), Ack(p))
  <2>1. /\ Saddr(f) = s.from /\ Daddr(f) = s.to /\ Flag(f, 4) = 1
        /\ t \in Seq(Words) /\ Len(t) = 10
        /\ t[1] = s.ports[1] /\ t[2] = s.ports[2]
        /\ t[3] = Expected(s)[1] /\ t[4] = Expected(s)[2]
    BY ONLY <1>t, <1>4, <1>7, Zenon DEF ResetHas
  <2>w. PICK w : w = s.ports \o Expected(s)
    OBVIOUS
  <2>2. /\ w \in Seq(Words) /\ Len(w) = 4
        /\ w[1] = s.ports[1] /\ w[2] = s.ports[2]
        /\ w[3] = Expected(s)[1] /\ w[4] = Expected(s)[2]
    BY ONLY <1>5, <2>w, PairsJoined, ZenonT(40)
  <2>3. \A k \in 1 .. Len(w) : t[k] = w[k]
    BY <2>1, <2>2
  <2>4. t \in Seq(Words) /\ w \in Seq(Words) /\ Len(w) <= Len(t) /\ 4 = Len(w)
    BY <2>1, <2>2
  <2>5. SubSeq(t, 1, 4) = w
    BY ONLY <2>3, <2>4, FrontIs
  <2>6. f.eth = s.eth
    BY <1>1, <1>7 DEF Fwd
  <2>7. EndsServer(f, s)
    BY ONLY <1>t, <2>w, <2>1, <2>5, <2>6, Zenon DEF EndsServer
  <2>. QED  BY <2>7
<1>8. CASE f = Bwd(p)
           /\ ResetHas(f, Daddr(p), Saddr(p), Turned(Ports(p)), Ack(p), NextSeq(p))
  <2>1. /\ Saddr(f) = s.to /\ Daddr(f) = s.from /\ Flag(f, 4) = 1
        /\ t \in Seq(Words) /\ Len(t) = 10
        /\ t[1] = Turned(s.ports)[1] /\ t[2] = Turned(s.ports)[2]
        /\ t[3] = Long(s.ack)[1] /\ t[4] = Long(s.ack)[2]
        /\ t[5] = Expected(s)[1] /\ t[6] = Expected(s)[2]
    BY ONLY <1>t, <1>4, <1>8, Zenon DEF ResetHas
  <2>w. PICK w : w = Turned(s.ports) \o Long(s.ack) \o Expected(s)
    OBVIOUS
  <2>2. /\ w \in Seq(Words) /\ Len(w) = 6
        /\ w[1] = Turned(s.ports)[1] /\ w[2] = Turned(s.ports)[2]
        /\ w[3] = Long(s.ack)[1] /\ w[4] = Long(s.ack)[2]
        /\ w[5] = Expected(s)[1] /\ w[6] = Expected(s)[2]
    <3>1. PICK x \in Pairs, y \in Pairs, z \in Pairs :
             x = Turned(s.ports) /\ y = Long(s.ack) /\ z = Expected(s)
      BY <1>5, <1>6
    <3>v. PICK v : v = x \o y \o z
      OBVIOUS
    <3>2. /\ v \in Seq(Words) /\ Len(v) = 6
          /\ v[1] = x[1] /\ v[2] = x[2] /\ v[3] = y[1] /\ v[4] = y[2]
          /\ v[5] = z[1] /\ v[6] = z[2]
      BY ONLY <3>v, x \in Pairs, y \in Pairs, z \in Pairs, PairsJoined, SMTT(60)
    <3>. QED  BY ONLY <2>w, <3>1, <3>v, <3>2, Zenon
  <2>3. \A k \in 1 .. Len(w) : t[k] = w[k]
    BY <2>1, <2>2
  <2>4. t \in Seq(Words) /\ w \in Seq(Words) /\ Len(w) <= Len(t) /\ 6 = Len(w)
    BY <2>1, <2>2
  <2>5. SubSeq(t, 1, 6) = w
    BY ONLY <2>3, <2>4, FrontIs
  <2>6. f.eth.dest = s.eth.src
    BY <1>1, <1>8 DEF Bwd
  <2>7. EndsClient(f, s)
    BY ONLY <1>t, <1>6, <2>w, <2>1, <2>5, <2>6, Zenon DEF EndsClient
  <2>. QED  BY <2>7
<1>. QED  BY ONLY <1>3, <1>7, <1>8, Zenon

(* ... and each message its datagram, ...                                  *)
LEMMA UnreachableFits ==
  ASSUME NEW d, IsPacket(d), 28 + 2 * Len(d.ip) + d.bytes < Word, NEW f \in UnreachableTo(d)
  PROVE  EndsQuic(f, d)
<1>1. PICK p : /\ f \in ToSet(queue_spoofed_icmp_unreachable(p))
               /\ p.eth = d.eth /\ p.words \in Seq(Words)
               /\ IpLen(p) = 20 + 2 * Len(d.ip)
               /\ Saddr(p) = d.from
               /\ Datagram(d).words \in Seq(Words)
               /\ Len(p.words) <= Len(Datagram(d).words)
               /\ \A k \in 1 .. Len(p.words) : p.words[k] = Datagram(d).words[k]
  BY UnreachableOfDatagram
<1>2. /\ WholeIp(p) /\ HasHeaders(p)
      /\ f = Unreachable(p) /\ IcmpHas(f, Daddr(p), Saddr(p), Quoted(p))
  BY ONLY <1>1, UnreachableOf
<1>3. /\ Daddr(f) = d.from /\ Inner(f)[1] = 771
      /\ SubSeq(Inner(f), 5, Len(Inner(f))) = Quoted(p)
  BY <1>1, <1>2 DEF IcmpHas
<1>4. f.eth.dest = d.eth.src
  BY <1>1, <1>2 DEF Unreachable
<1>i. PICK i \in Nat : i = Len(d.ip)
  BY LenProperties DEF IsPacket, Options
<1>q. PICK q \in Seq(Words), w \in Seq(Words) : q = p.words /\ w = Datagram(d).words
  BY <1>1
<1>5. Len(q) \in Nat /\ Len(w) \in Nat /\ Len(q) <= Len(w)
  BY <1>1, <1>q, LenProperties
<1>6. \A k \in 1 .. Len(q) : q[k] = w[k]
  BY ONLY <1>1, <1>q, Zenon
<1>7. (IpLen(p) + 8) \div 2 = 14 + i /\ 14 + i <= Len(q)
  <2>1. PICK x \in Int : x = IpLen(p) /\ x = 20 + 2 * i
    BY <1>1, <1>i
  <2>2. 14 + 2 * Len(q) >= 14 + x + 8
    BY <1>2, <1>q, <2>1 DEF WholeIp, CapLen
  <2>3. (x + 8) \div 2 = 14 + i /\ 14 + i <= Len(q)
    BY ONLY <1>5, <2>1, <2>2, i \in Nat, x \in Int, SMT
  <2>. QED  BY ONLY <2>1, <2>3, Zenon
<1>8. PICK n \in Nat : n = 14 + i
  OBVIOUS
<1>9. Quoted(p) = SubSeq(q, 1, n)
  BY ONLY <1>q, <1>7, <1>8, Zenon DEF Quoted
<1>10. SubSeq(q, 1, n) = SubSeq(w, 1, n)
  <2>1. n <= Len(q) /\ n <= Len(w) /\ n >= 1
    BY <1>5, <1>7, <1>8
  <2>2. \A k \in 1 .. n : q[k] \in Words /\ w[k] \in Words
    BY <1>5, <2>1
  <2>3. /\ SubSeq(q, 1, n) \in Seq(Words) /\ Len(SubSeq(q, 1, n)) = n
        /\ \A k \in 1 .. n : SubSeq(q, 1, n)[k] = q[k]
    <3>1. /\ SubSeq(q, 1, n) \in Seq(Words)
          /\ Len(SubSeq(q, 1, n)) = IF 1 <= n THEN n - 1 + 1 ELSE 0
          /\ \A k \in 1 .. n - 1 + 1 : SubSeq(q, 1, n)[k] = q[1 + k - 1]
      BY ONLY <2>1, <2>2, n \in Nat, q \in Seq(Words), SubSeqProperties
    <3>. QED  BY ONLY <3>1, <2>1, n \in Nat
  <2>4. /\ SubSeq(w, 1, n) \in Seq(Words) /\ Len(SubSeq(w, 1, n)) = n
        /\ \A k \in 1 .. n : SubSeq(w, 1, n)[k] = w[k]
    <3>1. /\ SubSeq(w, 1, n) \in Seq(Words)
          /\ Len(SubSeq(w, 1, n)) = IF 1 <= n THEN n - 1 + 1 ELSE 0
          /\ \A k \in 1 .. n - 1 + 1 : SubSeq(w, 1, n)[k] = w[1 + k - 1]
      BY ONLY <2>1, <2>2, n \in Nat, w \in Seq(Words), SubSeqProperties
    <3>. QED  BY ONLY <3>1, <2>1, n \in Nat
  <2>5. \A k \in 1 .. n : q[k] = w[k]
    BY <1>5, <1>6, <2>1
  <2>a. PICK a, b : a = SubSeq(q, 1, n) /\ b = SubSeq(w, 1, n)
    OBVIOUS
  <2>6. a \in Seq(Words) /\ b \in Seq(Words) /\ Len(a) = Len(b) /\ \A k \in 1 .. Len(a) : a[k] = b[k]
    BY ONLY <2>3, <2>4, <2>5, <2>a, Zenon
  <2>7. a = b
    BY ONLY <2>6, SeqEqual
  <2>. QED  BY <2>a, <2>7
<1>11. SubSeq(Inner(f), 5, Len(Inner(f))) = SubSeq(Datagram(d).words, 1, 14 + Len(d.ip))
  BY ONLY <1>3, <1>8, <1>9, <1>10, <1>i, <1>q, Zenon
<1>. QED  BY ONLY <1>3, <1>4, <1>11, SMT DEF EndsQuic

(* ... so all that can be pushed fits.                                     *)
LEMMA AllFit == RawPacket \subseteq Fitting
<1>. SUFFICES ASSUME NEW f \in RawPacket PROVE f \in Fitting
  OBVIOUS
<1>1. ASSUME NEW s \in Sent, f \in ResetsTo(s) PROVE EndsServer(f, s) \/ EndsClient(f, s)
  BY <1>1, AnswersAssumption, ResetFits
<1>2. ASSUME NEW d \in Quic, f \in UnreachableTo(d) PROVE EndsQuic(f, d)
  BY <1>2, AnswersAssumption, UnreachableFits
<1>. QED  BY ONLY f \in RawPacket, <1>1, <1>2, Zenon DEF Fitting

-----------------------------------------------------------------------------
(* What is in the queue or with the sender can be pushed.                  *)
LEMMA OutgoingIsForged == Inv => Outgoing \subseteq RawPacket
<1>. SUFFICES ASSUME Inv PROVE Outgoing \subseteq RawPacket
  OBVIOUS
<1>1. queue \in Seq(RawPacket) /\ outPkt \in RawPacket \cup {NoPacket}
  BY DEF Inv, TypeOK
<1>2. ToSet(queue) \subseteq RawPacket
  BY <1>1 DEF ToSet
<1>. QED  BY <1>1, <1>2 DEF Outgoing

(* No answer that waits or is being sent is dropped by its receiver for a  *)
(* checksum, whatever segments and datagrams are answered and wherever the *)
(* capture has cut them.                                                   *)
THEOREM ChecksumsAlwaysHold == Spec => []ChecksumsHold
<1>1. Inv => ChecksumsHold
  BY OutgoingIsForged, AllSound DEF ChecksumsHold
<1>. QED  BY <1>1, Invariance, PTL

(* Each of these answers is one that its receiver acts on: a reset has the *)
(* sequence number that is expected next, over the wrap of the 32 bits and *)
(* behind options and a FIN too, and a message quotes its datagram.        *)
THEOREM AnswersAlwaysFit == Spec => []AnswersFit
<1>1. Inv => AnswersFit
  BY OutgoingIsForged, AllFit DEF AnswersFit
<1>. QED  BY <1>1, Invariance, PTL
=============================================================================
