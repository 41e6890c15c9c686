-------------------------- MODULE LifecycleProofs --------------------------
(***************************************************************************)
(* What is proved of the program's life and of its statistics: types, the  *)
(* life of the firewall rule, the rate at which a domain is counted, and   *)
(* that the report is of one moment.                                       *)
(***************************************************************************)
EXTENDS Lifecycle, DataTheorems, TLAPS

-----------------------------------------------------------------------------
(* Types of the statistics.                                                *)

(* A share in a hundred is one of 0 to 100.                                *)
LEMMA Share ==
  ASSUME NEW a \in Nat, NEW b \in Nat, a + b # 0
  PROVE  (100 * a) \div (a + b) \in 0 .. 100
  OBVIOUS

(* The constructor leaves typed counters.                                  *)
LEMMA ResetTyped ==
  ASSUME StatsTypeOK, Reset, UNCHANGED <<clock, report>>
  PROVE  StatsTypeOK'
  BY DEF StatsTypeOK, Reset, Zero, Blank, Report

(* One more for a place, or for none.                                      *)
LEMMA OneMore ==
  ASSUME NEW D, NEW f \in [D -> Nat], NEW h
  PROVE  [f EXCEPT ![h] = @ + 1] \in [D -> Nat]
<1>1. CASE h \in D
  BY <1>1
<1>2. CASE h \notin D
  BY <1>2
<1>. QED  BY <1>1, <1>2

(* So does the note of the time of a block, ...                            *)
LEMMA RecordTyped ==
  ASSUME StatsTypeOK, RecordBlockTime
  PROVE  first' \in 0 .. clock /\ hourly' \in [0 .. Hours - 1 -> Nat]
<1>1. first' \in 0 .. clock
  BY DEF StatsTypeOK, RecordBlockTime
<1>2. hourly \in [0 .. Hours - 1 -> Nat]
  BY DEF StatsTypeOK
<1>3. hourly' \in [0 .. Hours - 1 -> Nat]
  BY <1>2, OneMore DEF RecordBlockTime
<1>. QED  BY <1>1, <1>3

(* ... the Log calls, ...                                                  *)
LEMMA LogTyped ==
  ASSUME StatsTypeOK, Log
  PROVE  StatsTypeOK'
<1>1. CASE LogNormalConnection
  BY <1>1 DEF StatsTypeOK, LogNormalConnection, file
<1>2. CASE LogProcessKilled
  BY <1>2, RecordTyped DEF StatsTypeOK, LogProcessKilled, file
<1>3. ASSUME NEW n \in Names, LogBlockedConnection(n)
      PROVE  StatsTypeOK'
  <2>1. Root[n] \in Roots
    BY DEF Roots
  <2>2. PICK r \in Roots : r = Root[n]
    BY <2>1
  <2>3. /\ lastLog' = [lastLog EXCEPT ![r] = clock]
        /\ counts' = [counts EXCEPT ![r] = @ + 1]
    BY <1>3, <2>2 DEF LogBlockedConnection
  <2>4. counts' \in [Roots -> Nat] /\ lastLog' \in [Roots -> 0 .. clock]
    BY <2>3 DEF StatsTypeOK
  <2>5. /\ RecordBlockTime
        /\ blocked' = blocked + 1
        /\ UNCHANGED <<clock, normal, killed, file>>
    BY <1>3 DEF LogBlockedConnection
  <2>. QED  BY <2>4, <2>5, RecordTyped DEF StatsTypeOK, file
<1>. QED  BY <1>1, <1>2, <1>3 DEF Log

(* ... the parts of a save, ...                                            *)
LEMMA ScoreTyped ==
  ASSUME StatsTypeOK
  PROVE  Score \in 0 .. 100
<1>. DEFINE bad == blocked + killed
<1>1. normal \in Nat /\ bad \in Nat
  BY DEF StatsTypeOK
<1>2. normal + blocked + killed = normal + bad
  BY DEF StatsTypeOK
<1>. HIDE DEF bad
<1>. QED  BY <1>1, <1>2, Share DEF Score

LEMMA SaveTyped ==
  ASSUME StatsTypeOK, Save
  PROVE  StatsTypeOK'
<1>1. CASE Collect
  <2>1. PICK s \in 0 .. 100 : s = Score
    BY ScoreTyped
  <2>2. draft' = [draft EXCEPT !.normal = normal, !.blocked = blocked, !.killed = killed,
                               !.score = s, !.first = first]
    BY <1>1, <2>1 DEF Collect
  <2>3. normal \in Nat /\ blocked \in Nat /\ killed \in Nat /\ first \in Nat /\ draft \in Report
    BY DEF StatsTypeOK
  <2>4. draft' \in Report
    BY <2>2, <2>3 DEF Report
  <2>. QED  BY <1>1, <2>4 DEF StatsTypeOK, Collect, counters
<1>2. CASE Rank
  <2>1. PICK T \in SUBSET Roots :
          draft' = [draft EXCEPT !.top = [r \in Roots |-> IF r \in T THEN counts[r] ELSE 0],
                                 !.hourly = hourly]
    BY <1>2 DEF Rank
  <2>2. draft' \in Report
    BY <2>1 DEF StatsTypeOK, Report
  <2>. QED  BY <1>2, <2>2 DEF StatsTypeOK, Rank, counters
<1>3. CASE Open
  BY <1>3 DEF StatsTypeOK, Open, counters
<1>4. CASE OpenFails
  <2>1. Blank \in Report
    BY DEF Blank, Zero, Report
  <2>. QED  BY <1>4, <2>1 DEF StatsTypeOK, OpenFails, counters
<1>5. CASE Write
  <2>1. Blank \in Report
    BY DEF Blank, Zero, Report
  <2>2. report' \in Report
    BY <1>5 DEF StatsTypeOK, Write
  <2>. QED  BY <1>5, <2>1, <2>2 DEF StatsTypeOK, Write, counters
<1>6. CASE WriteFails
  <2>1. Blank \in Report
    BY DEF Blank, Zero, Report
  <2>. QED  BY <1>6, <2>1 DEF StatsTypeOK, WriteFails, counters
<1>. QED  BY <1>1, <1>2, <1>3, <1>4, <1>5, <1>6 DEF Save

(* ... and the clock.                                                      *)
LEMMA TickTyped ==
  ASSUME StatsTypeOK, Tick
  PROVE  StatsTypeOK'
  BY StatisticsAssumption DEF StatsTypeOK, Tick, counters, file
-----------------------------------------------------------------------------
(* Types.                                                                  *)

(* Nothing of the numbers but this is needed.                              *)
LEMMA Numbers ==
  ASSUME StatisticsAssumption
  PROVE  Cooldown \in Nat \ {0} /\ MaxClock \in Nat \ {0}
<1>1. Cooldown \in Nat \ {0}
  BY DEF StatisticsAssumption
<1>2. MaxClock \in Nat \ {0}
  BY DEF StatisticsAssumption
<1>. QED  BY <1>1, <1>2

LEMMA Counters ==
  ASSUME StatisticsAssumption, StatsTypeOK
  PROVE  /\ clock \in Nat \ {0} /\ Cooldown \in Nat \ {0}
         /\ counts \in [Roots -> Nat] /\ lastLog \in [Roots -> 0 .. clock]
<1>1. clock \in 1 .. MaxClock
  BY DEF StatsTypeOK
<1>2. clock \in Nat \ {0}
  BY <1>1, Numbers
<1>. QED  BY <1>2, Numbers DEF StatsTypeOK

LEMMA TypeInit == Init => TypeOK
<1>. SUFFICES ASSUME Init PROVE TypeOK
  OBVIOUS
<1>1. StatsTypeOK
  BY StatisticsAssumption DEF Init, StatsInit, StatsTypeOK, Zero, Blank, Report
<1>. QED  BY <1>1 DEF Init, TypeOK

LEMMA MainTyped ==
  ASSUME TypeOK, Main \/ Console \/ Kill
  PROVE  TypeOK'
<1>1. ASSUME UNCHANGED statistics
      PROVE  StatsTypeOK'
  BY <1>1 DEF TypeOK, StatsTypeOK, statistics, counters, file
<1>2. ASSUME NEW from, NEW to \in {"handler", "atexit", "ruled", "up", "failed", "ended"},
             Step(from, to), rule' \in BOOLEAN
      PROVE  TypeOK'
  BY <1>1, <1>2 DEF TypeOK, Step
<1>3. CASE SetHandler \/ RegisterExit \/ AddRule \/ Start \/ StartFails \/ LoopEnds
  BY <1>2, <1>3 DEF SetHandler, RegisterExit, AddRule, Start, StartFails, LoopEnds, TypeOK
<1>4. ASSUME NEW how \in {"return", "signal", "kill"}, Gone(how)
      PROVE  StatsTypeOK'
  BY <1>4, ResetTyped DEF TypeOK, Gone
<1>5. CASE Return
  BY <1>4, <1>5 DEF Return, Gone, TypeOK
<1>6. CASE Signal
  <2>1. early' \in BOOLEAN
    <3>1. early' = (main \in {"handler", "atexit"})
      BY <1>6 DEF Signal
    <3>2. (main \in {"handler", "atexit"}) \in BOOLEAN
      OBVIOUS
    <3>. QED  BY <3>1, <3>2
  <2>. QED  BY <1>1, <1>6, <2>1 DEF Signal, TypeOK
<1>7. CASE HandlerCleans
  BY <1>1, <1>7 DEF HandlerCleans, TypeOK
<1>8. CASE HandlerExits
  BY <1>4, <1>8 DEF HandlerExits, Gone, TypeOK
<1>9. CASE Kill
  BY <1>4, <1>9 DEF Kill, Gone, TypeOK
<1>. QED  BY <1>3, <1>5, <1>6, <1>7, <1>8, <1>9 DEF Main, Console

LEMMA TypeStep == TypeOK /\ [Next]_vars => TypeOK'
<1>. SUFFICES ASSUME TypeOK, [Next]_vars PROVE TypeOK'
  OBVIOUS
<1>1. CASE Main \/ Console \/ Kill
  BY <1>1, MainTyped
<1>2. CASE Workers \/ Watcher \/ Time
  BY <1>2, LogTyped, SaveTyped, TickTyped DEF TypeOK, Workers, Watcher, Time, life
<1>3. CASE UNCHANGED vars
  BY <1>3, ZenonT(60) DEF TypeOK, StatsTypeOK, vars, life, statistics, counters, file
<1>. QED  BY <1>1, <1>2, <1>3 DEF Next

(* Every variable keeps its type: no counter of StatsLogger leaves its     *)
(* range, and no time it notes lies ahead of the clock.                    *)
THEOREM TypeCorrect == Spec => []TypeOK
  BY TypeInit, TypeStep, PTL DEF Spec
-----------------------------------------------------------------------------
(* The rate at which a domain is counted.  The bound speaks of the clock;  *)
(* what the calls keep is that the last of them came no earlier than all   *)
(* the cooldowns before it allow.                                          *)
Spaced ==
  \A r \in Roots :
    \/ lastLog[r] = 0 /\ counts[r] = 0
    \/ lastLog[r] > 0 /\ counts[r] * Cooldown <= lastLog[r] - 1 + Cooldown

LEMMA SpacedBounds == StatisticsAssumption /\ TypeOK /\ Spaced => RateBound
<1>. SUFFICES ASSUME StatisticsAssumption, TypeOK, Spaced, NEW r \in Roots
              PROVE  counts[r] * Cooldown < clock + Cooldown
  BY DEF RateBound
<1>1. clock \in Nat \ {0} /\ counts[r] \in Nat /\ lastLog[r] \in 0 .. clock /\ Cooldown \in Nat \ {0}
  BY Counters DEF TypeOK
<1>2. CASE counts[r] = 0
  BY <1>1, <1>2
<1>3. CASE counts[r] * Cooldown <= lastLog[r] - 1 + Cooldown
  <2>1. counts[r] * Cooldown \in Nat
    BY <1>1
  <2>. QED  BY <1>1, <1>3, <2>1
<1>. QED  BY <1>2, <1>3 DEF Spaced

(* One call more, when the cooldown is over.                               *)
LEMMA Another ==
  ASSUME NEW n \in Nat, NEW last \in Nat, NEW now \in Nat, NEW c \in Nat,
         n * c <= last - 1 + c, now - last >= c
  PROVE  (n + 1) * c <= now - 1 + c
<1>1. n * c \in Nat /\ (n + 1) * c = n * c + c
  OBVIOUS
<1>. QED  BY <1>1

LEMMA SpacedStep == TypeOK /\ Spaced /\ [Next]_vars => Spaced'
<1>. SUFFICES ASSUME TypeOK, Spaced, [Next]_vars PROVE Spaced'
  OBVIOUS
<1>1. CASE UNCHANGED <<counts, lastLog>>
  BY <1>1 DEF Spaced
<1>2. CASE Reset
  BY <1>2 DEF Reset, Zero, Spaced
<1>3. ASSUME NEW n \in Names, LogBlockedConnection(n)
      PROVE  Spaced'
  <2>1. PICK r \in Roots : r = Root[n]
    BY DEF Roots
  <2>2. /\ lastLog' = [lastLog EXCEPT ![r] = clock]
        /\ counts' = [counts EXCEPT ![r] = @ + 1]
        /\ lastLog[r] = 0 \/ ~(clock - lastLog[r] < Cooldown)
    BY <1>3, <2>1 DEF LogBlockedConnection, Recent
  <2>3. /\ counts \in [Roots -> Nat] /\ lastLog \in [Roots -> 0 .. clock]
        /\ clock \in Nat \ {0} /\ Cooldown \in Nat \ {0}
    BY StatisticsAssumption, Counters DEF TypeOK
  <2>4. SUFFICES ASSUME NEW q \in Roots
                 PROVE  \/ lastLog'[q] = 0 /\ counts'[q] = 0
                        \/ lastLog'[q] > 0 /\ counts'[q] * Cooldown <= lastLog'[q] - 1 + Cooldown
    BY DEF Spaced
  <2>5. CASE q # r
    BY <2>2, <2>3, <2>5 DEF Spaced
  <2>6. CASE q = r
    <3>1. lastLog'[q] = clock /\ counts'[q] = counts[q] + 1
      BY <2>2, <2>3, <2>6
    <3>2. CASE counts[q] = 0
      BY <2>3, <3>1, <3>2
    <3>3. CASE lastLog[q] > 0 /\ counts[q] * Cooldown <= lastLog[q] - 1 + Cooldown
      <4>1. lastLog[q] \in Nat /\ counts[q] \in Nat /\ clock - lastLog[q] >= Cooldown
        BY <2>2, <2>3, <2>6, <3>3
      <4>2. (counts[q] + 1) * Cooldown <= clock - 1 + Cooldown
        BY <2>3, <3>3, <4>1, Another
      <4>. QED  BY <2>3, <3>1, <4>2
    <3>. QED  BY <3>2, <3>3 DEF Spaced
  <2>. QED  BY <2>5, <2>6
<1>4. CASE Return \/ HandlerExits \/ Kill
  BY <1>2, <1>4 DEF Return, HandlerExits, Kill, Gone
<1>5. CASE SetHandler \/ RegisterExit \/ AddRule \/ Start \/ StartFails \/ LoopEnds
           \/ Signal \/ HandlerCleans
  BY <1>1, <1>5 DEF SetHandler, RegisterExit, AddRule, Start, StartFails, LoopEnds, Step,
     Signal, HandlerCleans, statistics, counters
<1>6. CASE Workers
  BY <1>1, <1>3, <1>6 DEF Workers, Log, LogNormalConnection, LogProcessKilled
<1>7. CASE Watcher
  BY <1>1, <1>7 DEF Watcher, Save, Collect, Rank, Open, OpenFails, Write, WriteFails, counters
<1>8. CASE Time
  BY <1>1, <1>8 DEF Time, Tick, counters
<1>9. CASE UNCHANGED vars
  BY <1>1, <1>9 DEF vars, statistics, counters
<1>. QED  BY <1>4, <1>5, <1>6, <1>7, <1>8, <1>9 DEF Next, Main, Console

(* A domain is counted once in a cooldown at most, whichever of the names  *)
(* counted with it are blocked, and over a restart.                        *)
THEOREM CountsAreSpaced == Spec => []RateBound
<1>1. Init => Spaced
  BY DEF Init, StatsInit, Zero, Spaced
<1>2. TypeOK /\ Spaced => RateBound
  BY SpacedBounds, StatisticsAssumption
<1>. QED  BY <1>1, <1>2, SpacedStep, TypeCorrect, PTL DEF Spec
-----------------------------------------------------------------------------
(* The life of the firewall rule.                                          *)

(* From the time main has added it the rule stands as long as nobody asks  *)
(* the process to end; where it stands although the handler has removed    *)
(* it, main added it after that.                                           *)
RuleInv ==
  /\ main \in {"ruled", "up", "failed", "ended"} /\ ctrl = "none" => rule
  /\ ctrl = "exit" /\ rule => early
  /\ ctrl # "none" /\ main \in {"handler", "atexit"} => early
  /\ main = "off" /\ rule => ended = "kill" \/ (ended = "signal" /\ early)

LEMMA RuleStep == TypeOK /\ RuleInv /\ [Next]_vars => RuleInv'
<1>. SUFFICES ASSUME TypeOK, RuleInv, [Next]_vars PROVE RuleInv'
  OBVIOUS
<1>1. CASE SetHandler
  BY <1>1 DEF SetHandler, Step, RuleInv, TypeOK
<1>2. CASE RegisterExit
  BY <1>2 DEF RegisterExit, Step, RuleInv
<1>3. CASE AddRule
  BY <1>3 DEF AddRule, Step, RuleInv
<1>4. CASE Start \/ StartFails \/ LoopEnds
  <2>1. /\ main \in {"ruled", "up"} /\ main' \in {"up", "failed", "ended"}
        /\ early' = early /\ ctrl' = ctrl /\ rule' = rule
    BY <1>4 DEF Start, StartFails, LoopEnds, Step, TypeOK
  <2>. QED  BY <2>1 DEF RuleInv
<1>5. CASE Return
  BY <1>5 DEF Return, Gone, RuleInv
<1>6. CASE Signal
  BY <1>6 DEF Signal, RuleInv
<1>7. CASE HandlerCleans
  BY <1>7 DEF HandlerCleans, RuleInv, TypeOK
<1>8. CASE HandlerExits
  BY <1>8 DEF HandlerExits, Gone, RuleInv
<1>9. CASE Kill
  BY <1>9 DEF Kill, Gone, RuleInv
<1>10. CASE Workers \/ Watcher \/ Time \/ UNCHANGED vars
  BY <1>10 DEF Workers, Watcher, Time, vars, life, RuleInv
<1>. QED  BY <1>1, <1>2, <1>3, <1>4, <1>5, <1>6, <1>7, <1>8, <1>9, <1>10 DEF Next, Main, Console

(* Block_QUIC_UDP443 is there while the program filters, and is left       *)
(* behind only by a process that was killed or asked to end too early.     *)
THEOREM RuleIsRemoved == Spec => []RuleMatchesLife
<1>1. Init => RuleInv
  BY DEF Init, RuleInv
<1>2. RuleInv => RuleMatchesLife
  BY DEF RuleInv, RuleMatchesLife
<1>. QED  BY <1>1, <1>2, RuleStep, TypeCorrect, PTL DEF Spec
-----------------------------------------------------------------------------
(* The sums of the report, and its score.                                  *)

(* There are finitely many domains, as there are names, and hours.         *)
LEMMA RootsFinite == IsFiniteSet(Roots)
<1>1. IsFiniteSet(Names)
  BY StatisticsAssumption DEF StatisticsAssumption
<1>2. Root \in Surjection(Names, Roots)
  BY DEF Surjection, Root, Roots
<1>. QED  BY <1>1, <1>2, FS_Surjection

LEMMA HoursFinite == Hours \in Nat \ {0} /\ IsFiniteSet(0 .. Hours - 1)
<1>1. Hours \in Nat \ {0}
  BY StatisticsAssumption DEF StatisticsAssumption
<1>. QED  BY <1>1, FS_Interval

(* The total of the counters of finitely many places is a number, ...      *)
LEMMA TotalIsCount ==
  ASSUME NEW D, IsFiniteSet(D), NEW f \in [D -> Nat]
  PROVE  Total(f) = Count(f, D) /\ Total(f) \in Nat
  BY SumFunctionIsCount, CountSplit DEF Total

(* ... one more place that was blocked makes it one more, ...              *)
LEMMA TotalOneMore ==
  ASSUME NEW D, IsFiniteSet(D), NEW f \in [D -> Nat], NEW x \in D
  PROVE  Total([f EXCEPT ![x] = @ + 1]) = Total(f) + 1
<1>. DEFINE g == [f EXCEPT ![x] = @ + 1]
<1>1. g \in [D -> Nat] /\ g[x] = f[x] + 1 /\ \A y \in D \ {x} : g[y] = f[y]
  OBVIOUS
<1>. HIDE DEF g
<1>2. Count(g, D) = Count(f, D) - f[x] + g[x]
  BY <1>1, CountUpdate
<1>3. f[x] \in Nat /\ Total(f) = Count(f, D) /\ Total(f) \in Nat /\ Total(g) = Count(g, D)
  BY <1>1, TotalIsCount
<1>4. Total(g) = Total(f) + 1
  BY <1>1, <1>2, <1>3
<1>. QED  BY <1>4 DEF g

(* ... and it is zero when nothing was.                                    *)
LEMMA TotalNothing ==
  ASSUME NEW D, IsFiniteSet(D), NEW f \in [D -> Nat], \A x \in D : f[x] = 0
  PROVE  Total(f) = 0
  BY TotalIsCount, CountNothing

(* The lesser of two numbers.                                              *)
LEMMA MinOfTwo ==
  ASSUME NEW a \in Nat, NEW b \in Nat
  PROVE  Min({a, b}) \in {a, b} /\ Min({a, b}) <= a /\ Min({a, b}) <= b
<1>1. \E x \in {a, b} : \A y \in {a, b} : x <= y
  OBVIOUS
<1>. QED  BY <1>1 DEF Min

(* The domains shown were blocked as often as all of them, unless some are *)
(* left out because there are too many.                                    *)
LEMMA Top ==
  ASSUME counts \in [Roots -> Nat], NEW T \in SUBSET Roots, Leading(T),
         NEW top, top = [r \in Roots |-> IF r \in T THEN counts[r] ELSE 0]
  PROVE  /\ Total(top) <= Total(counts)
         /\ Cardinality({r \in Roots : top[r] > 0}) < Shown => Total(top) = Total(counts)
<1>. DEFINE counted == {r \in Roots : counts[r] > 0}
<1>1. top \in [Roots -> Nat] /\ \A r \in Roots : top[r] <= counts[r]
  OBVIOUS
<1>2. Total(top) <= Total(counts)
  BY <1>1, RootsFinite, TotalIsCount, CountMonotone
<1>3. ASSUME Cardinality({r \in Roots : top[r] > 0}) < Shown
      PROVE  Total(top) = Total(counts)
  <2>1. T \subseteq counted /\ Cardinality(T) = Min({Shown, Cardinality(counted)})
    BY DEF Leading
  <2>2. {r \in Roots : top[r] > 0} = T
    BY <2>1
  <2>3. counted \subseteq Roots
    OBVIOUS
  <2>. HIDE DEF counted
  <2>4. IsFiniteSet(counted) /\ Cardinality(counted) \in Nat
    BY <2>3, RootsFinite, FS_Subset, FS_CardinalityType
  <2>5. Shown \in Nat
    BY StatisticsAssumption DEF StatisticsAssumption
  <2>6. Cardinality(T) = Cardinality(counted)
    <3>1. PICK c \in Nat : c = Cardinality(counted)
      BY <2>4
    <3>2. Min({Shown, c}) \in {Shown, c} /\ Min({Shown, c}) <= Shown
      BY <2>5, <3>1, MinOfTwo
    <3>3. Cardinality(T) < Shown
      BY <1>3, <2>2
    <3>. QED  BY <2>1, <2>5, <3>1, <3>2, <3>3
  <2>7. T = counted
    BY <2>1, <2>4, <2>6, FS_Subset
  <2>8. \A r \in Roots : top[r] = counts[r]
    BY <2>7 DEF counted
  <2>9. top = counts
    BY <1>1, <2>8
  <2>. QED  BY <2>9
<1>. QED  BY <1>2, <1>3

(* Rounding down does not round up to a hundred, ...                       *)
LEMMA FullScore ==
  ASSUME NEW a \in Nat, NEW b \in Nat, a + b # 0, (100 * a) \div (a + b) = 100
  PROVE  b = 0
<1>. DEFINE q == (100 * a) \div (a + b)
<1>1. q * (a + b) <= 100 * a
  OBVIOUS
<1>. QED  BY <1>1

(* ... so only a score without blocks and kills is full.                   *)
LEMMA ScoreFull ==
  ASSUME StatsTypeOK
  PROVE  Score = 100 <=> blocked + killed = 0
<1>. DEFINE bad == blocked + killed
<1>1. normal \in Nat /\ bad \in Nat /\ normal + blocked + killed = normal + bad
  BY DEF StatsTypeOK
<1>. HIDE DEF bad
<1>2. CASE normal + bad = 0
  BY <1>1, <1>2 DEF Score, bad
<1>3. CASE normal + bad # 0
  <2>1. Score = (100 * normal) \div (normal + bad)
    BY <1>1, <1>3 DEF Score
  <2>2. Score = 100 => bad = 0
    BY <1>1, <1>3, <2>1, FullScore
  <2>3. bad = 0 => Score = 100
    BY <1>1, <1>3, <2>1
  <2>. QED  BY <2>2, <2>3 DEF bad
<1>. QED  BY <1>2, <1>3

-----------------------------------------------------------------------------
(* The report is of one moment: the inductive invariant.                   *)

(* The counters agree with each other between any two calls, ...           *)
CountersAgree ==
  /\ Total(hourly) = blocked + killed
  /\ Total(counts) = blocked
  /\ first = 0 <=> blocked + killed = 0

(* ... and what a save has put together agrees with them, since no Log     *)
(* call comes between its steps.                                           *)
DraftAgrees ==
  /\ saving # "idle" =>
       /\ draft.blocked = blocked /\ draft.killed = killed
       /\ draft.first = first /\ draft.score = Score
  /\ saving \in {"open", "write"} =>
       /\ draft.hourly = hourly
       /\ \E T \in SUBSET Roots :
            Leading(T) /\ draft.top = [r \in Roots |-> IF r \in T THEN counts[r] ELSE 0]

(* A block or a kill is one more in the timeline, and is not before all    *)
(* times.                                                                  *)
LEMMA RecordAgrees ==
  ASSUME StatsTypeOK, RecordBlockTime
  PROVE  Total(hourly') = Total(hourly) + 1 /\ first' # 0
<1>. DEFINE h == (clock \div HourLength) % Hours
<1>1. clock \in Nat \ {0} /\ HourLength \in Nat \ {0} /\ Hours \in Nat \ {0}
  BY StatisticsAssumption, Counters DEF StatisticsAssumption
<1>2. h \in 0 .. Hours - 1
  <2>1. PICK k \in Nat : k = clock \div HourLength
    BY <1>1
  <2>. QED  BY <1>1, <2>1
<1>. HIDE DEF h
<1>3. hourly' = [hourly EXCEPT ![h] = @ + 1] /\ hourly \in [0 .. Hours - 1 -> Nat]
  BY DEF RecordBlockTime, StatsTypeOK, h
<1>4. Total(hourly') = Total(hourly) + 1
  BY <1>2, <1>3, HoursFinite, TotalOneMore
<1>. QED  BY <1>1, <1>4 DEF RecordBlockTime

(* The Log calls keep the counters in agreement, ...                       *)
LEMMA LogAgrees ==
  ASSUME StatsTypeOK, CountersAgree, DraftAgrees, Log
  PROVE  CountersAgree' /\ DraftAgrees'
<1>1. blocked \in Nat /\ killed \in Nat
  BY DEF StatsTypeOK
<1>2. saving' = "idle" /\ DraftAgrees'
  BY DEF Log, LogNormalConnection, LogProcessKilled, LogBlockedConnection, Free, file, DraftAgrees
<1>3. CASE LogNormalConnection
  BY <1>2, <1>3 DEF LogNormalConnection, CountersAgree
<1>4. CASE LogProcessKilled
  <2>1. killed' = killed + 1 /\ blocked' = blocked /\ counts' = counts /\ RecordBlockTime
    BY <1>4 DEF LogProcessKilled
  <2>. QED  BY <1>1, <1>2, <2>1, RecordAgrees DEF CountersAgree
<1>5. ASSUME NEW n \in Names, LogBlockedConnection(n)
      PROVE  CountersAgree'
  <2>1. PICK r \in Roots : r = Root[n]
    BY DEF Roots
  <2>2. /\ blocked' = blocked + 1 /\ killed' = killed /\ RecordBlockTime
        /\ counts' = [counts EXCEPT ![r] = @ + 1]
    BY <1>5, <2>1 DEF LogBlockedConnection
  <2>3. counts \in [Roots -> Nat]
    BY DEF StatsTypeOK
  <2>4. Total(counts') = Total(counts) + 1
    BY <2>2, <2>3, RootsFinite, TotalOneMore
  <2>. QED  BY <1>1, <2>2, <2>4, RecordAgrees DEF CountersAgree
<1>. QED  BY <1>2, <1>3, <1>4, <1>5 DEF Log

(* ... a save puts its draft together while nobody logs, ...               *)
LEMMA SaveAgrees ==
  ASSUME StatsTypeOK, CountersAgree, DraftAgrees, ReportConsistent, Save
  PROVE  CountersAgree' /\ DraftAgrees' /\ ReportConsistent'
<1>1. UNCHANGED counters
  BY DEF Save, Collect, Rank, Open, OpenFails, Write, WriteFails
<1>2. CountersAgree'
  BY <1>1 DEF counters, CountersAgree
<1>3. ASSUME report' = report
      PROVE  ReportConsistent'
  BY <1>3 DEF ReportConsistent
<1>4. CASE Collect
  <2>1. saving' = "rank" /\ report' = report
    BY <1>4 DEF Collect
  <2>2. /\ draft'.blocked = blocked /\ draft'.killed = killed
        /\ draft'.first = first /\ draft'.score = Score
    BY <1>4 DEF Collect, StatsTypeOK, Report
  <2>3. Score' = Score
    BY <1>1 DEF Score, counters
  <2>. QED  BY <1>1, <1>2, <1>3, <2>1, <2>2, <2>3 DEF DraftAgrees, counters
<1>5. CASE Rank
  <2>1. saving = "rank" /\ saving' = "open" /\ report' = report
    BY <1>5 DEF Rank
  <2>2. PICK T \in SUBSET Roots :
          /\ Leading(T)
          /\ draft' = [draft EXCEPT !.top = [r \in Roots |-> IF r \in T THEN counts[r] ELSE 0],
                                    !.hourly = hourly]
    BY <1>5 DEF Rank
  <2>3. /\ draft'.top = [r \in Roots |-> IF r \in T THEN counts[r] ELSE 0]
        /\ draft'.hourly = hourly
        /\ draft'.blocked = draft.blocked /\ draft'.killed = draft.killed
        /\ draft'.first = draft.first /\ draft'.score = draft.score
    BY <2>2 DEF StatsTypeOK, Report
  <2>4. /\ draft.blocked = blocked /\ draft.killed = killed
        /\ draft.first = first /\ draft.score = Score
    BY <2>1 DEF DraftAgrees
  <2>5. Score' = Score /\ counts' = counts
    BY <1>1 DEF Score, counters
  <2>6. \A U \in SUBSET Roots : Leading(U)' <=> Leading(U)
    BY <2>5 DEF Leading
  <2>7. /\ draft'.hourly = hourly'
        /\ \E U \in SUBSET Roots :
             Leading(U)' /\ draft'.top = [r \in Roots |-> IF r \in U THEN counts'[r] ELSE 0]
    BY <1>1, <2>2, <2>3, <2>5, <2>6 DEF counters
  <2>8. DraftAgrees'
    BY <1>1, <2>3, <2>4, <2>5, <2>7 DEF DraftAgrees, counters
  <2>. QED  BY <1>2, <1>3, <2>1, <2>8
<1>6. CASE Open
  <2>1. saving = "open" /\ saving' = "write" /\ draft' = draft /\ report' = Torn
    BY <1>6 DEF Open
  <2>2. Score' = Score /\ counts' = counts
    BY <1>1 DEF Score, counters
  <2>3. \A U \in SUBSET Roots : Leading(U)' <=> Leading(U)
    BY <2>2 DEF Leading
  <2>4. DraftAgrees'
    BY <1>1, <2>1, <2>2, <2>3 DEF DraftAgrees, counters
  <2>5. ReportConsistent'
    BY <2>1 DEF ReportConsistent
  <2>. QED  BY <1>2, <2>4, <2>5
<1>7. CASE OpenFails \/ WriteFails
  BY <1>2, <1>3, <1>7 DEF OpenFails, WriteFails, DraftAgrees
<1>8. CASE Write
  <2>1. saving = "write" /\ saving' = "idle" /\ report' = draft
    BY <1>8 DEF Write
  <2>2. /\ draft.blocked = blocked /\ draft.killed = killed
        /\ draft.first = first /\ draft.score = Score /\ draft.hourly = hourly
    BY <2>1 DEF DraftAgrees
  <2>3. PICK T \in SUBSET Roots :
          Leading(T) /\ draft.top = [r \in Roots |-> IF r \in T THEN counts[r] ELSE 0]
    BY <2>1 DEF DraftAgrees
  <2>4. counts \in [Roots -> Nat]
    BY DEF StatsTypeOK
  <2>5. /\ Total(draft.top) <= blocked
        /\ Cardinality({r \in Roots : draft.top[r] > 0}) < Shown => Total(draft.top) = blocked
    BY <2>3, <2>4, Top DEF CountersAgree
  <2>6. Score = 100 <=> blocked + killed = 0
    BY ScoreFull
  <2>7. ReportConsistent'
    BY <2>1, <2>2, <2>5, <2>6 DEF ReportConsistent, CountersAgree
  <2>. QED  BY <1>2, <2>1, <2>7 DEF DraftAgrees
<1>. QED  BY <1>4, <1>5, <1>6, <1>7, <1>8 DEF Save

(* ... and a process that starts has counted nothing.                      *)
LEMMA ResetAgrees ==
  ASSUME Reset
  PROVE  CountersAgree' /\ DraftAgrees'
<1>1. /\ blocked' = 0 /\ killed' = 0 /\ first' = 0 /\ saving' = "idle"
      /\ counts' = [r \in Roots |-> 0] /\ hourly' = [h \in 0 .. Hours - 1 |-> 0]
  BY DEF Reset, Zero, Blank
<1>2. Total([r \in Roots |-> 0]) = 0
  BY RootsFinite, TotalNothing
<1>3. Total([h \in 0 .. Hours - 1 |-> 0]) = 0
  BY HoursFinite, TotalNothing
<1>. QED  BY <1>1, <1>2, <1>3 DEF CountersAgree, DraftAgrees

(* The inductive invariant.                                                *)
ReportInv == CountersAgree /\ DraftAgrees /\ ReportConsistent

(* Every step of the program keeps it, the end of the process too: the     *)
(* file may be left torn, but not with half of a report.                   *)
LEMMA ReportStep == TypeOK /\ ReportInv /\ [Next]_vars => ReportInv'
<1>. SUFFICES ASSUME TypeOK, ReportInv, [Next]_vars PROVE ReportInv'
  OBVIOUS
<1>1. CASE UNCHANGED <<counters, file>>
  <2>1. Score' = Score
    BY <1>1 DEF Score, counters
  <2>2. \A T \in SUBSET Roots : Leading(T)' <=> Leading(T)
    BY <1>1 DEF Leading, counters
  <2>3. DraftAgrees'
    BY <1>1, <2>1, <2>2 DEF ReportInv, DraftAgrees, counters, file
  <2>4. CountersAgree' /\ ReportConsistent'
    BY <1>1 DEF ReportInv, CountersAgree, ReportConsistent, counters, file
  <2>. QED  BY <2>3, <2>4 DEF ReportInv
<1>2. CASE Return \/ HandlerExits \/ Kill
  <2>1. Reset /\ report' = report
    BY <1>2 DEF Return, HandlerExits, Kill, Gone
  <2>. QED  BY <2>1, ResetAgrees DEF ReportInv, ReportConsistent
<1>3. CASE SetHandler \/ RegisterExit \/ AddRule \/ Start \/ StartFails \/ LoopEnds
           \/ Signal \/ HandlerCleans
  BY <1>1, <1>3 DEF SetHandler, RegisterExit, AddRule, Start, StartFails, LoopEnds, Step,
     Signal, HandlerCleans, statistics
<1>4. CASE Workers
  <2>1. report' = report
    BY <1>4 DEF Workers, Log, LogNormalConnection, LogProcessKilled, LogBlockedConnection, file
  <2>. QED  BY <1>4, <2>1, LogAgrees DEF Workers, TypeOK, ReportInv, ReportConsistent
<1>5. CASE Watcher
  BY <1>5, SaveAgrees DEF Watcher, TypeOK, ReportInv
<1>6. CASE Time
  BY <1>1, <1>6 DEF Time, Tick
<1>7. CASE UNCHANGED vars
  BY <1>1, <1>7 DEF vars, statistics
<1>. QED  BY <1>2, <1>3, <1>4, <1>5, <1>6, <1>7 DEF Next, Main, Console

(* The report that lies on the disk is of one moment, whatever the workers *)
(* log while it is put together and however often the program ends.        *)
THEOREM ReportIsOfOneMoment == Spec => []ReportConsistent
<1>1. Init => ReportInv
  <2>1. Total([r \in Roots |-> 0]) = 0 /\ Total([h \in 0 .. Hours - 1 |-> 0]) = 0
    BY RootsFinite, HoursFinite, TotalNothing
  <2>. QED  BY <2>1 DEF Init, StatsInit, Zero, Blank, ReportInv, CountersAgree,
            DraftAgrees, ReportConsistent
<1>2. ReportInv => ReportConsistent
  BY DEF ReportInv
<1>. QED  BY <1>1, <1>2, ReportStep, TypeCorrect, PTL DEF Spec
=============================================================================
