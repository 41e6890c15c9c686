----------------------------- MODULE Lifecycle -----------------------------
(***************************************************************************)
(* The life of the FocusGuard process: main's start-up and end with the    *)
(* firewall rule Block_QUIC_UDP443, the console handler, and the ways in   *)
(* which a process can end without asking main.  While its threads run,    *)
(* they keep the statistics; the memory goes with the process, the report  *)
(* and the rule stay until somebody removes them.                          *)
(*                                                                         *)
(* The handler runs in a thread of its own next to main.  netsh and the    *)
(* signals are external; netsh is taken to do what it is told, since main  *)
(* does not look at what it returns.                                       *)
(*                                                                         *)
(* A definition that stands just before another and that nothing uses is a *)
(* faulty variant of it, which a property has to be able to tell from it.  *)
(***************************************************************************)
EXTENDS Statistics

VARIABLES
  main,       \* where main is, "off" when there is no process
  ctrl,       \* where the thread of ConsoleHandler is
  rule,       \* whether the firewall has the rule
  ended,      \* history: how the last process ended
  early       \* history: whether it was asked to end before it had added the rule

life == <<main, ctrl, rule, ended, early>>
vars == <<statistics, life>>

Init ==
  /\ StatsInit
  /\ main = "off"
  /\ ctrl = "none"
  /\ rule = FALSE
  /\ ended = "never"
  /\ early = FALSE
-----------------------------------------------------------------------------
(* main, up to pcap_loop.  Without administrator rights it returns before  *)
(* it has done anything.                                                   *)
Step(from, to) ==
  /\ main = from
  /\ main' = to
  /\ ended' = "not yet" /\ early' = (early /\ from # "off")
  /\ UNCHANGED <<statistics, ctrl>>

SetHandler == Step("off", "handler") /\ UNCHANGED rule
RegisterExit == Step("handler", "atexit") /\ UNCHANGED rule
AddRule == Step("atexit", "ruled") /\ rule' = TRUE

(* The adapter is found and opened and the threads are started, or main    *)
(* returns.                                                                *)
Start == Step("ruled", "up") /\ UNCHANGED rule
StartFails == Step("ruled", "failed") /\ UNCHANGED rule
LoopEnds == Step("up", "ended") /\ UNCHANGED rule

(* The process is gone, and its memory with it.                            *)
GoneButForHandler(how) ==
  /\ main' = "off"
  /\ ended' = how
  /\ Reset
  /\ UNCHANGED <<clock, report, ctrl>>
Gone(how) ==
  /\ main' = "off"
  /\ ctrl' = "none"
  /\ ended' = how
  /\ Reset
  /\ UNCHANGED <<clock, report>>

(* Returning from main runs cleanup_firewall, which atexit registered.     *)
ReturnOnly ==
  /\ main \in {"failed", "ended"}
  /\ Gone("return")
  /\ UNCHANGED <<rule, early>>
Return ==
  /\ main \in {"failed", "ended"}
  /\ rule' = FALSE
  /\ Gone("return")
  /\ UNCHANGED early

(* Ctrl-C, or the window is closed: ConsoleHandler removes the rule, then  *)
(* the default handler ends the process, which does not run atexit.        *)
Signal ==
  /\ main # "off" /\ ctrl = "none"
  /\ ctrl' = "cleanup"
  /\ early' = (main \in {"handler", "atexit"})
  /\ UNCHANGED <<statistics, main, rule, ended>>

HandlerCleans ==
  /\ ctrl = "cleanup"
  /\ ctrl' = "exit"
  /\ rule' = FALSE
  /\ UNCHANGED <<statistics, main, ended, early>>

HandlerExits ==
  /\ ctrl = "exit"
  /\ Gone("signal")
  /\ UNCHANGED <<rule, early>>

(* The process is killed, or ended by a signal that ConsoleHandler has no  *)
(* case for: Ctrl-Break, the end of the session or of the system.          *)
Kill ==
  /\ main # "off"
  /\ Gone("kill")
  /\ UNCHANGED <<rule, early>>
-----------------------------------------------------------------------------
Running == main \in {"up", "ended"}

Workers == Running /\ Log /\ UNCHANGED life
Watcher == Running /\ Save /\ UNCHANGED life
OpensReport == Running /\ Open /\ UNCHANGED life
WritesReport == Running /\ Write /\ UNCHANGED life
Time == Tick /\ UNCHANGED life

Main ==
  \/ SetHandler \/ RegisterExit \/ AddRule \/ Start \/ StartFails \/ LoopEnds \/ Return
Console == Signal \/ HandlerCleans \/ HandlerExits

Next == Main \/ Console \/ Kill \/ Workers \/ Watcher \/ Time

Spec == Init /\ [][Next]_vars

(* The watcher is scheduled, and again and again the disk lets the report  *)
(* be opened, and takes a text that there is.  Nothing makes anybody start *)
(* or end the program.                                                     *)
FairSpec ==
  Spec /\ WF_vars(Watcher) /\ SF_vars(OpensReport) /\ SF_vars(WritesReport)
-----------------------------------------------------------------------------
(* Properties.                                                             *)

(* Every variable has its type, those of the statistics too.               *)
TypeOK ==
  /\ StatsTypeOK
  /\ main \in {"off", "handler", "atexit", "ruled", "up", "failed", "ended"}
  /\ ctrl \in {"none", "cleanup", "exit"}
  /\ ctrl # "none" => main # "off"
  /\ rule \in BOOLEAN /\ early \in BOOLEAN
  /\ ended \in {"never", "not yet", "return", "signal", "kill"}

(* The rule stands while the program filters, and it outlives a process    *)
(* only if that was killed, or asked to end before it had added it: every  *)
(* other end removes it, also one that an earlier process left behind.     *)
RuleMatchesLife ==
  /\ main = "up" /\ ctrl = "none" => rule
  /\ main = "off" /\ rule => ended = "kill" \/ (ended = "signal" /\ early)

(* Again and again the report has every block there was until then, as     *)
(* long as the program runs, the blocks during a save too (watcher.cpp:65) *)
(* and after saves that failed, unless a name that is not UTF-8 may be     *)
(* among those shown: with it no report is written (stats_logger.cpp:175), *)
(* and the next one comes when other names have taken its place.           *)
Legible == \A T \in SUBSET Roots : Leading(T) => T \cap Malformed = {}
EveryBlockIsReported ==
  []<>(Running /\ Legible => report \notin {NoReport, Torn} /\ report.blocked = blocked)
=============================================================================
