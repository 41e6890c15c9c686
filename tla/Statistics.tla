---------------------------- MODULE Statistics ----------------------------
(***************************************************************************)
(* StatsLogger: the counters that the workers and the process blocker feed *)
(* and the report that the watcher saves every five seconds.               *)
(*                                                                         *)
(* mtx_ is held for a whole call.  A Log call is one action; a save is     *)
(* four, since it reads the counters one after the other and then writes   *)
(* the file, and the Log calls wait for it.  A Log call that returns early *)
(* changes nothing and is no step.  The wall clock only goes forward.      *)
(*                                                                         *)
(* A definition that stands just before another and that nothing uses is a *)
(* faulty variant of it, which a property has to be able to tell from it.  *)
(***************************************************************************)
EXTENDS HostNames, Functions

CONSTANTS
  Names,       \* the host names that get blocked
  Malformed,   \* names with bytes that are not UTF-8
  Cooldown,    \* 10 s in the program
  Hours,       \* 24
  HourLength,  \* 3600 s
  Shown,       \* 5, the domains in the report
  NoReport,    \* no file yet
  Torn,        \* a file that is open for writing, or was left without its text
  MaxCount,    \* bound: connections allowed, programs killed
  MaxClock     \* bound: seconds

ASSUME StatisticsAssumption ==
  /\ IsFiniteSet(Names)
  /\ {Cooldown, Hours, HourLength, Shown, MaxCount, MaxClock} \subseteq Nat \ {0}

Root == [n \in Names |-> GetRootDomain(n)]
Roots == {Root[n] : n \in Names}
Noisy == {n \in Names : IsNoiseDomain(Root[n]) \/ IsNoiseDomain(n)}

VARIABLES
  clock,      \* time(nullptr)
  normal,     \* conn_normal_cnt_
  blocked,    \* conn_blocked_cnt_
  killed,     \* process_killed_cnt_
  counts,     \* domain_block_counts_
  lastLog,    \* last_log_time_, 0 for a domain that has none
  hourly,     \* hourly_blocks_
  first,      \* first_block_time_
  saving,     \* where SaveToFile is
  draft,      \* j of SaveToFile
  report      \* FocusGuard_stats.json

counters == <<normal, blocked, killed, counts, lastLog, hourly, first>>
file == <<saving, draft, report>>
statistics == <<clock, counters, file>>

Zero == [r \in Roots |-> 0]
Blank == [normal |-> 0, blocked |-> 0, killed |-> 0, score |-> 100, first |-> 0,
          top |-> Zero, hourly |-> [h \in 0 .. Hours - 1 |-> 0]]

(* The constructor.                                                        *)
Reset ==
  /\ normal' = 0 /\ blocked' = 0 /\ killed' = 0
  /\ counts' = Zero /\ lastLog' = Zero
  /\ hourly' = Blank.hourly /\ first' = 0
  /\ saving' = "idle" /\ draft' = Blank

StatsInit ==
  /\ clock = 1
  /\ normal = 0 /\ blocked = 0 /\ killed = 0
  /\ counts = Zero /\ lastLog = Zero
  /\ hourly = Blank.hourly /\ first = 0
  /\ saving = "idle" /\ draft = Blank
  /\ report = NoReport
-----------------------------------------------------------------------------
(* mtx_, for a Log call.                                                   *)
FreeWhileWriting == saving \in {"idle", "rank"}
Free == saving = "idle"

RecordBlockTime ==
  /\ first' = IF first = 0 THEN clock ELSE first
  /\ hourly' = [hourly EXCEPT ![(clock \div HourLength) % Hours] = @ + 1]

LogNormalConnection ==
  /\ Free
  /\ normal < MaxCount
  /\ normal' = normal + 1
  /\ UNCHANGED <<clock, blocked, killed, counts, lastLog, hourly, first, file>>

(* Names that are counted together share the ten seconds.                  *)
RecentAtMost(r) == lastLog[r] # 0 /\ clock - lastLog[r] < Cooldown - 1
Recent(r) == lastLog[r] # 0 /\ clock - lastLog[r] < Cooldown
LogBlockedConnection(n) ==
  /\ Free
  /\ n \notin Noisy
  /\ ~Recent(Root[n])
  /\ lastLog' = [lastLog EXCEPT ![Root[n]] = clock]
  /\ blocked' = blocked + 1
  /\ counts' = [counts EXCEPT ![Root[n]] = @ + 1]
  /\ RecordBlockTime
  /\ UNCHANGED <<clock, normal, killed, file>>

LogProcessKilled ==
  /\ Free
  /\ killed < MaxCount
  /\ killed' = killed + 1
  /\ RecordBlockTime
  /\ UNCHANGED <<clock, normal, blocked, counts, lastLog, file>>
-----------------------------------------------------------------------------
(* SaveToFile: the totals and the score, rounded down, ...                 *)
Score ==
  LET all == normal + blocked + killed
  IN  IF all = 0 THEN 100 ELSE (100 * normal) \div all

CollectDomains ==
  /\ saving = "idle"
  /\ draft' = [draft EXCEPT !.normal = normal, !.killed = killed,
                            !.blocked = Cardinality({r \in Roots : counts[r] > 0}),
                            !.score = Score, !.first = first]
  /\ saving' = "rank"
  /\ UNCHANGED <<clock, counters, report>>
Collect ==
  /\ saving = "idle"
  /\ draft' = [draft EXCEPT !.normal = normal, !.blocked = blocked, !.killed = killed,
                            !.score = Score, !.first = first]
  /\ saving' = "rank"
  /\ UNCHANGED <<clock, counters, report>>

(* ... the domains blocked most, ties in any order (0 for those not        *)
(* shown), and the hours, ...                                              *)
Leading(T) ==
  LET counted == {r \in Roots : counts[r] > 0} IN
  /\ T \subseteq counted
  /\ Cardinality(T) = Min({Shown, Cardinality(counted)})
  /\ \A r \in T : \A q \in counted \ T : counts[r] >= counts[q]

Rank ==
  /\ saving = "rank"
  /\ \E T \in SUBSET Roots :
       /\ Leading(T)
       /\ draft' = [draft EXCEPT !.top = [r \in Roots |-> IF r \in T THEN counts[r] ELSE 0],
                                 !.hourly = hourly]
  /\ saving' = "open"
  /\ UNCHANGED <<clock, counters, report>>

(* ... and the file: to open it truncates it.                              *)
Open ==
  /\ saving = "open"
  /\ report' = Torn
  /\ saving' = "write"
  /\ UNCHANGED <<clock, counters, draft>>

OpenFails ==
  /\ saving = "open"
  /\ saving' = "idle"
  /\ draft' = Blank
  /\ UNCHANGED <<clock, counters, report>>

(* Names are the bytes of a packet, and dump throws on one that is not     *)
(* UTF-8.  The disk may refuse too.  What has been truncated stays so.     *)
Write ==
  /\ saving = "write"
  /\ \A r \in Roots \cap Malformed : draft.top[r] = 0
  /\ report' = draft
  /\ saving' = "idle"
  /\ draft' = Blank
  /\ UNCHANGED <<clock, counters>>

WriteFails ==
  /\ saving = "write"
  /\ saving' = "idle"
  /\ draft' = Blank
  /\ UNCHANGED <<clock, counters, report>>

Tick ==
  /\ clock < MaxClock
  /\ clock' = clock + 1
  /\ UNCHANGED <<counters, file>>
-----------------------------------------------------------------------------
Log ==
  \/ LogNormalConnection \/ LogProcessKilled
  \/ \E n \in Names : LogBlockedConnection(n)
Save == Collect \/ Rank \/ Open \/ OpenFails \/ Write \/ WriteFails
StatsNext == Log \/ Save \/ Tick
-----------------------------------------------------------------------------
(* Properties.                                                             *)

Report ==
  [normal : Nat, blocked : Nat, killed : Nat, first : Nat, score : 0 .. 100,
   top : [Roots -> Nat], hourly : [0 .. Hours - 1 -> Nat]]

(* Every variable has its type; no time noted lies ahead.                  *)
StatsTypeOK ==
  /\ clock \in 1 .. MaxClock
  /\ {normal, blocked, killed} \subseteq Nat
  /\ counts \in [Roots -> Nat]
  /\ lastLog \in [Roots -> 0 .. clock]
  /\ hourly \in [0 .. Hours - 1 -> Nat]
  /\ first \in 0 .. clock
  /\ saving \in {"idle", "rank", "open", "write"}
  /\ draft \in Report
  /\ report \in Report \cup {NoReport, Torn}

(* A domain, with all the names counted with it, is counted once in ten    *)
(* seconds at most, however often it is blocked (:114-121).                *)
RateBound == \A r \in Roots : counts[r] * Cooldown < clock + Cooldown

(* What the report says at its different places is of one moment, though   *)
(* it is put together while workers log (:136): every block and every kill *)
(* is in the timeline, and a score under 100 has a block or a kill.  The   *)
(* domains add up to the blocks when all of them are shown.                *)
Total(f) == SumFunction(f)
ReportConsistent ==
  report \notin {NoReport, Torn} =>
    LET bad == report.blocked + report.killed IN
    /\ Total(report.hourly) = bad
    /\ report.first = 0 <=> bad = 0
    /\ report.score = 100 <=> bad = 0
    /\ Total(report.top) <= report.blocked
    /\ Cardinality({r \in Roots : report.top[r] > 0}) < Shown => Total(report.top) = report.blocked
=============================================================================
