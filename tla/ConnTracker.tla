---------------------------- MODULE ConnTracker ----------------------------
(***************************************************************************)
(* The connection tracker of FocusGuard: the worker threads running        *)
(* consumer_func, the three connection tables they share (allowed_conns,   *)
(* blocked_conns, pending_conns under g_ip_mutex), the domain lists they   *)
(* read (under g_wl_mutex) and the TTL sweep of the watcher thread.        *)
(*                                                                         *)
(* One action is one critical section of the code, with the tests on the   *)
(* packet that follow it.  g_ip_mutex is a readers/writer lock; every      *)
(* critical section is a single action except the one that keeps its       *)
(* shared lock while it pushes two packets (packet_processor.cpp:393-399), *)
(* so the lock is the guard IpFree of the writers.                         *)
(*                                                                         *)
(* The stream of captured packets is arbitrary: a worker may receive any   *)
(* member of Traffic at any time.  time_t stamps are replaced by the age   *)
(* of the entry, which is all that the code compares.  StatsLogger, which  *)
(* the tracker calls and never reads, has state of its own and is not part *)
(* of this module.                                                         *)
(*                                                                         *)
(* A definition that stands just before another and that nothing uses is a *)
(* faulty variant of it, which a property has to be able to tell from it.  *)
(***************************************************************************)
EXTENDS Integers, HostNames

CONSTANTS
  Workers,    \* the consumer threads, one per core
  Conns,      \* connection identifiers (server address, client port)
  Domains,    \* host names found in packets and in the lists
  Configs,    \* the values the lists take: load_whitelist, auto-registration
  Traffic,    \* the packets the machine sends to ports 80 and 443
  NoPacket,   \* the value of pkt[w] for a worker that holds none
  AllowTTL,   \* 30 s in the program
  BlockTTL,   \* 30 s
  PendTTL,    \* 15 s
  MaxLag,     \* bound: how long the watcher may wait for g_ip_mutex
  MaxAge,     \* bound: ages stop growing here
  Capacity    \* of the outbound queue

Packet == [conn     : Conns,
           flags    : SUBSET {"FIN", "SYN", "RST", "ACK"},
           payload  : BOOLEAN,
           domain   : Domains \cup {NoDomain},
           whole    : BOOLEAN,   \* the TCP header is of a legal length and captured
           injected : BOOLEAN]   \* carries the IP id of a forged packet

Config == [white : SUBSET Domains, black : SUBSET Domains]

Raw == [kind : {"fwd", "bwd", "icmp"}, conn : Conns]

ASSUME TrackerAssumption ==
  /\ IsFiniteSet(Workers)
  /\ NoPacket \notin Packet
  /\ NoDomain \notin Domains
  /\ Configs \in (SUBSET Config) \ {{}}
  /\ Traffic \subseteq Packet
  /\ {AllowTTL, BlockTTL, PendTTL, MaxLag, MaxAge} \subseteq Nat
  /\ \A ttl \in {AllowTTL, BlockTTL, PendTTL} : ttl + MaxLag < MaxAge
  /\ Capacity \in Nat \ {0}

VARIABLES
  allowed,    \* allowed_conns: the age of each connection's entry, or Absent
  blocked,    \* blocked_conns
  pending,    \* pending_conns
  filter,     \* whitelist_domains and blacklist_domains
  pc,         \* where each worker is in consumer_func
  pkt,        \* the packet each worker holds
  outbound,   \* g_outbound_queue
  seen        \* history: the lists in force since a worker classified

vars == <<allowed, blocked, pending, filter, pc, pkt, outbound, seen>>
tables == <<allowed, blocked, pending>>

Out == INSTANCE OutboundFifo WITH queue <- outbound, RawPacket <- Raw

Absent == -1
Age == Absent .. MaxAge
In(table) == {c \in Conns : table[c] # Absent}
Erased(table, c) == [table EXCEPT ![c] = Absent]
Stamped(table, c) == [table EXCEPT ![c] = 0]

PC == {"idle", "close", "lookup", "syn", "blockcheck", "classify", "unlisted",
       "block", "allow", "pendcheck", "fwd", "bwd", "fwdHeld", "bwdHeld"}

(* A worker between its two pushes at packet_processor.cpp:396 still holds *)
(* g_ip_mutex shared; a writer waits for it.                               *)
HoldingLookup == {w \in Workers : pc[w] \in {"syn", "fwdHeld", "bwdHeld"}}
Holding == {w \in Workers : pc[w] \in {"fwdHeld", "bwdHeld"}}
IpFreeIgnoringReaders == TRUE
IpFree == Holding = {}

Goto(w, label) == pc' = [pc EXCEPT ![w] = label]

(* The end of the loop body: the packet goes back to the pool.             *)
Done(w) ==
  /\ Goto(w, "idle")
  /\ pkt' = [pkt EXCEPT ![w] = NoPacket]
-----------------------------------------------------------------------------
(* A domain is on a list when the list has it or a parent of it.           *)
Parents == [d \in Domains |-> {e \in Domains : OnList(d, e)}]
Hit(list, d) == Parents[d] \cap list # {}

(* The decision the two lists stand for: the blacklist first, then the     *)
(* whitelist; an unlisted domain passes only when the whitelist is empty.  *)
Permits(f, d) ==
  /\ ~Hit(f.black, d)
  /\ Hit(f.white, d) \/ f.white = {}

Init ==
  /\ allowed = [c \in Conns |-> Absent]
  /\ blocked = [c \in Conns |-> Absent]
  /\ pending = [c \in Conns |-> Absent]
  /\ filter \in Configs
  /\ pc = [w \in Workers |-> "idle"]
  /\ pkt = [w \in Workers |-> NoPacket]
  /\ outbound = <<>>
  /\ seen = [w \in Workers |-> {}]
-----------------------------------------------------------------------------
(* consumer_func skips the packets that carry the IP id of a forged packet:*)
(* the capture sees what the sender sends.                                 *)
NeverForged(p) == FALSE
Forged(p) == p.injected

Closing(p) == p.flags \cap {"FIN", "RST"} # {}
IsSyn(p) == "SYN" \in p.flags /\ "ACK" \notin p.flags

Dequeue(w, p) ==
  /\ pc[w] = "idle"
  /\ ~Forged(p)
  /\ pkt' = [pkt EXCEPT ![w] = p]
  /\ Goto(w, IF Closing(p) THEN "close" ELSE "lookup")
  /\ UNCHANGED <<tables, filter, outbound, seen>>

(* A QUIC datagram (UDP 443) is answered by one ICMP unreachable, which    *)
(* any datagram long enough to get here is long enough for.                *)
Unreachable(c) == [kind |-> "icmp", conn |-> c]
AnswerQuic(w, c) ==
  /\ pc[w] = "idle"
  /\ Out!Push(Unreachable(c))
  /\ UNCHANGED <<tables, filter, pc, pkt, seen>>

(* FIN or RST from the client: the connection leaves the tables.  A RST    *)
(* ends there, a FIN goes on: it may carry data.                           *)
CloseConnKeepsVerdict(w) ==
  LET p == pkt[w] IN
  /\ pc[w] = "close"
  /\ IpFree
  /\ pending' = Erased(pending, p.conn)
  /\ \/ "RST" \in p.flags /\ Done(w)
     \/ "RST" \notin p.flags /\ Goto(w, "lookup") /\ UNCHANGED pkt
  /\ UNCHANGED <<allowed, blocked, filter, outbound, seen>>
CloseConn(w) ==
  LET p == pkt[w] IN
  /\ pc[w] = "close"
  /\ IpFree
  /\ allowed' = Erased(allowed, p.conn)
  /\ blocked' = Erased(blocked, p.conn)
  /\ pending' = Erased(pending, p.conn)
  /\ \/ "RST" \in p.flags /\ Done(w)
     \/ "RST" \notin p.flags /\ Goto(w, "lookup") /\ UNCHANGED pkt
  /\ UNCHANGED <<filter, outbound, seen>>

LookupSynOnly(w) ==
  /\ pc[w] = "lookup"
  /\ Goto(w, IF IsSyn(pkt[w]) THEN "syn" ELSE "blockcheck")
  /\ UNCHANGED <<tables, filter, pkt, outbound, seen>>
Lookup(w) ==
  LET known == pkt[w].conn \in In(allowed) IN
  /\ pc[w] = "lookup"
  /\ \/ known /\ Done(w)
     \/ ~known /\ IsSyn(pkt[w]) /\ Goto(w, "syn") /\ UNCHANGED pkt
     \/ ~known /\ ~IsSyn(pkt[w]) /\ Goto(w, "blockcheck") /\ UNCHANGED pkt
  /\ UNCHANGED <<tables, filter, outbound, seen>>

(* The shared lock was released after Lookup, so the tables are consulted  *)
(* again under the unique lock.                                            *)
RegisterSynUnchecked(w) ==
  /\ pc[w] = "syn"
  /\ IpFree
  /\ pending' = Stamped(pending, pkt[w].conn)
  /\ Done(w)
  /\ UNCHANGED <<allowed, blocked, filter, outbound, seen>>
RegisterSyn(w) ==
  LET c == pkt[w].conn IN
  /\ pc[w] = "syn"
  /\ IpFree
  /\ pending' = IF c \in In(blocked) \cup In(allowed)
                THEN pending ELSE Stamped(pending, c)
  /\ Done(w)
  /\ UNCHANGED <<allowed, blocked, filter, outbound, seen>>

(* Where a packet that is neither allowed nor a SYN goes: to the injection *)
(* when its connection is blocked, out when it has no payload, and to the  *)
(* filter or to the pending check by whether it names a host.              *)
ByPayload(p) ==
  IF p.domain # NoDomain THEN "classify" ELSE "pendcheck"
CheckBlockedNoHost(w) ==
  LET p == pkt[w] IN
  /\ pc[w] = "blockcheck"
  /\ \/ p.conn \in In(blocked) /\ p.domain = NoDomain
        /\ Goto(w, "fwdHeld") /\ UNCHANGED pkt
     \/ (p.conn \notin In(blocked) \/ p.domain # NoDomain)
        /\ Goto(w, ByPayload(p)) /\ UNCHANGED pkt
  /\ UNCHANGED <<tables, filter, outbound, seen>>
CheckBlocked(w) ==
  LET p == pkt[w]
      known == p.conn \in In(blocked) IN
  /\ pc[w] = "blockcheck"
  /\ \/ known /\ Goto(w, "fwdHeld") /\ UNCHANGED pkt
     \/ ~known /\ ~p.payload /\ Done(w)
     \/ ~known /\ p.payload /\ Goto(w, ByPayload(p)) /\ UNCHANGED pkt
  /\ UNCHANGED <<tables, filter, outbound, seen>>
-----------------------------------------------------------------------------
(* One shared lock of g_wl_mutex covers both list searches...              *)
ClassifyWhiteFirst(w) ==
  LET d == pkt[w].domain IN
  /\ pc[w] = "classify"
  /\ Goto(w, IF Hit(filter.white, d) THEN "allow"
             ELSE IF Hit(filter.black, d) THEN "block" ELSE "unlisted")
  /\ seen' = [seen EXCEPT ![w] = {filter}]
  /\ UNCHANGED <<tables, filter, pkt, outbound>>
Classify(w) ==
  LET d == pkt[w].domain IN
  /\ pc[w] = "classify"
  /\ Goto(w, IF Hit(filter.black, d) THEN "block"
             ELSE IF Hit(filter.white, d) THEN "allow" ELSE "unlisted")
  /\ seen' = [seen EXCEPT ![w] = {filter}]
  /\ UNCHANGED <<tables, filter, pkt, outbound>>

(* ... and a second one asks whether the whitelist is in use at all.       *)
CheckMode(w) ==
  /\ pc[w] = "unlisted"
  /\ Goto(w, IF filter.white # {} THEN "block" ELSE "allow")
  /\ UNCHANGED <<tables, filter, pkt, outbound, seen>>

(* A verdict is entered unless the same verdict is already there; it takes *)
(* the connection out of pending and does not look at the other table.     *)
Enter(w, table, table2) ==
  LET c == pkt[w].conn IN
  /\ IpFree
  /\ \/ c \in In(table) /\ table2 = table /\ UNCHANGED pending
     \/ /\ c \notin In(table)
        /\ table2 = Stamped(table, c)
        /\ pending' = Erased(pending, c)
  /\ seen' = [seen EXCEPT ![w] = {}]

Block(w) ==
  /\ pc[w] = "block"
  /\ Enter(w, blocked, blocked')
  /\ Goto(w, "fwd")
  /\ UNCHANGED <<allowed, filter, pkt, outbound>>

Allow(w) ==
  /\ pc[w] = "allow"
  /\ Enter(w, allowed, allowed')
  /\ Done(w)
  /\ UNCHANGED <<blocked, filter, outbound>>

(* A payload without a host name is reset while its connection is pending  *)
(* and passes otherwise.  The lock is released before the injection.       *)
CheckPendingOrAny(w) ==
  /\ pc[w] = "pendcheck"
  /\ Goto(w, "fwd")
  /\ UNCHANGED <<tables, filter, pkt, outbound, seen>>
CheckPending(w) ==
  LET known == pkt[w].conn \in In(pending) IN
  /\ pc[w] = "pendcheck"
  /\ \/ known /\ Goto(w, "fwd") /\ UNCHANGED pkt
     \/ ~known /\ Done(w)
  /\ UNCHANGED <<tables, filter, outbound, seen>>

(* queue_spoofed_rst_packet: one RST to the server, one to the client;     *)
(* none if the TCP header cannot be taken apart.                           *)
SkipReset(w) ==
  /\ pc[w] \in {"fwd", "fwdHeld"}
  /\ ~pkt[w].whole
  /\ Done(w)
  /\ UNCHANGED <<tables, filter, outbound, seen>>

PushForward(w) ==
  /\ pc[w] \in {"fwd", "fwdHeld"}
  /\ pkt[w].whole
  /\ Out!Push([kind |-> "fwd", conn |-> pkt[w].conn])
  /\ Goto(w, IF pc[w] = "fwd" THEN "bwd" ELSE "bwdHeld")
  /\ UNCHANGED <<tables, filter, pkt, seen>>

PushBackward(w) ==
  /\ pc[w] \in {"bwd", "bwdHeld"}
  /\ Out!Push([kind |-> "bwd", conn |-> pkt[w].conn])
  /\ Done(w)
  /\ UNCHANGED <<tables, filter, seen>>
-----------------------------------------------------------------------------
(* packet_sender_func takes a packet off the queue and sends it.           *)
Send ==
  /\ Out!Pop
  /\ UNCHANGED <<tables, filter, pc, pkt, seen>>

(* The lists are replaced in one critical section (load_whitelist) or grow *)
(* by one name (add_to_whitelist_safe).                                    *)
Deciding(w) == pc[w] \in {"unlisted", "block", "allow"}
ChangeFilter(f) ==
  /\ f # filter
  /\ filter' = f
  /\ seen' = [w \in Workers |-> IF Deciding(w) THEN seen[w] \cup {f} ELSE seen[w]]
  /\ UNCHANGED <<tables, pc, pkt, outbound>>

(* The sweep of watcher_func.  It reads the clock before it waits for the  *)
(* lock, so it sees every entry younger than it is by that wait.           *)
Expired(table, limit) ==
  [c \in Conns |-> IF table[c] > limit THEN Absent ELSE table[c]]
SweepNoBlocked(lag) ==
  /\ IpFree
  /\ allowed' = Expired(allowed, AllowTTL + lag)
  /\ pending' = Expired(pending, PendTTL + lag)
  /\ UNCHANGED <<blocked, filter, pc, pkt, outbound, seen>>
Sweep(lag) ==
  /\ IpFree
  /\ allowed' = Expired(allowed, AllowTTL + lag)
  /\ blocked' = Expired(blocked, BlockTTL + lag)
  /\ pending' = Expired(pending, PendTTL + lag)
  /\ UNCHANGED <<filter, pc, pkt, outbound, seen>>

(* A second passes.                                                        *)
Older(table) ==
  [c \in Conns |-> IF table[c] \in {Absent, MaxAge} THEN table[c] ELSE table[c] + 1]
Tick ==
  /\ allowed' = Older(allowed)
  /\ blocked' = Older(blocked)
  /\ pending' = Older(pending)
  /\ UNCHANGED <<filter, pc, pkt, outbound, seen>>
-----------------------------------------------------------------------------
Receive(w) ==
  \/ \E p \in Traffic : Dequeue(w, p)
  \/ \E c \in Conns : AnswerQuic(w, c)

WorkerRead(w) ==
  \/ Lookup(w) \/ CheckBlocked(w) \/ CheckPending(w)
  \/ Classify(w) \/ CheckMode(w)
  \/ SkipReset(w) \/ PushForward(w) \/ PushBackward(w)

WorkerWrite(w) == CloseConn(w) \/ RegisterSyn(w) \/ Block(w) \/ Allow(w)

WatcherSweep == \E lag \in 0 .. MaxLag : Sweep(lag)

Next ==
  \/ \E w \in Workers : Receive(w) \/ WorkerRead(w) \/ WorkerWrite(w)
  \/ \E f \in Configs : ChangeFilter(f)
  \/ WatcherSweep
  \/ Send
  \/ Tick

Spec == Init /\ [][Next]_vars

(* The threads are scheduled and time passes; a step that needs the unique *)
(* lock gets it if it is free again and again, and readers that overlap do *)
(* not keep it for ever (ReadersPause): the lock does not starve writers.  *)
(* Nothing forces packets to arrive or the lists to change.                *)
ReadersPause == []<>(\A w \in Workers : pc[w] \notin {"fwdHeld", "bwdHeld"})
Fairness ==
  /\ \A w \in Workers : WF_vars(WorkerRead(w)) /\ SF_vars(WorkerWrite(w))
  /\ SF_vars(WatcherSweep)
  /\ WF_vars(Send)
  /\ WF_vars(Tick)
  /\ ReadersPause

FairSpec == Spec /\ Fairness
-----------------------------------------------------------------------------
(* Properties.                                                             *)

(* Every variable has its type, and the outbound queue stays within its    *)
(* limit however many packets the workers push.                            *)
TypeOK ==
  /\ allowed \in [Conns -> Age]
  /\ blocked \in [Conns -> Age]
  /\ pending \in [Conns -> Age]
  /\ filter \in Configs
  /\ pc \in [Workers -> PC]
  /\ pkt \in [Workers -> Traffic \cup {NoPacket}]
  /\ \A w \in Workers : pkt[w] = NoPacket <=> pc[w] = "idle"
  /\ Out!TypeOK
  /\ seen \in [Workers -> SUBSET Configs]

(* A connection that has a verdict is not pending: a SYN that looked the   *)
(* tables up before a verdict came in does not put it back (:385-388), and *)
(* every verdict takes it out.  Otherwise a payload without a host name    *)
(* would reset a connection the whitelist admits.                          *)
PendingExclusive == In(pending) \cap (In(allowed) \cup In(blocked)) = {}

(* While a worker resets a connection because it is blocked, the           *)
(* connection is blocked: no sweep and no FIN takes the verdict away       *)
(* between the look-up and the second push (:393-399).                     *)
ResetHoldsVerdict ==
  \A w \in Workers : pc[w] \in {"fwdHeld", "bwdHeld"} => pkt[w].conn \in In(blocked)

(* The client itself closed the connection: a worker is at :367 with a FIN *)
(* or a RST that this program did not forge.                               *)
ClosedByClient(c) ==
  \E w \in Workers : pc[w] = "close" /\ pkt[w].conn = c /\ ~pkt[w].injected

(* A reset for the server has the one for the client behind it, in the     *)
(* queue or in the hands of the worker that is about to push it, whatever  *)
(* other workers push between the two and however much the limit drops     *)
(* (packet_injector.cpp:149): the client's reset goes last and is dropped  *)
(* last, and with it the connection ends on this machine.                  *)
Queued(kind, c, k) ==
  {i \in k .. Len(outbound) : outbound[i] = [kind |-> kind, conn |-> c]}
HalfDone(c) == {w \in Workers : pc[w] \in {"bwd", "bwdHeld"} /\ pkt[w].conn = c}
ForwardIsFollowed ==
  \A c \in Conns : \A k \in 1 .. Len(outbound) :
    Cardinality(Queued("fwd", c, k))
      <= Cardinality(Queued("bwd", c, k)) + Cardinality(HalfDone(c))

(* An entry leaves its table only after its time to live or because the    *)
(* client closed the connection; a pending entry also leaves for a         *)
(* verdict.  In particular the RST the program sends does not clear the    *)
(* verdict it was sent for (:273-280).                                     *)
EvictionJustified ==
  [][\A c \in Conns :
       /\ c \in In(allowed) \ In(allowed)' => ClosedByClient(c) \/ allowed[c] > AllowTTL
       /\ c \in In(blocked) \ In(blocked)' => ClosedByClient(c) \/ blocked[c] > BlockTTL
       /\ c \in In(pending) \ In(pending)' =>
             \/ ClosedByClient(c)
             \/ pending[c] > PendTTL
             \/ c \in In(allowed)' \cup In(blocked)']_tables

(* A worker whose lists did not change while it decided enters the verdict *)
(* that the two lists, read as one, give the host name.                    *)
VerdictExact ==
  \A w \in Workers : \A f \in seen[w] :
    seen[w] = {f} =>
      /\ pc[w] = "allow" => Permits(f, pkt[w].domain)
      /\ pc[w] = "block" => ~Permits(f, pkt[w].domain)

(* One connection never has both verdicts.  True of workers that stay      *)
(* apart; two that decide about one connection under different lists, or   *)
(* for different host names, enter both, since neither looks at the other  *)
(* table (:449, :461, :479, :490).                                         *)
VerdictsDisjoint == In(allowed) \cap In(blocked) = {}

(* A connection in the allow table is not being reset.  True of a worker   *)
(* that has it alone, whose look-up at :377 comes first; with two, the     *)
(* verdict can arrive after the look-up.                                   *)
AllowedNeverReset ==
  \A w \in Workers :
    pc[w] \in {"fwd", "fwdHeld", "bwd", "bwdHeld"} => pkt[w].conn \notin In(allowed)

(* No two workers are at packets of one connection, as if each connection  *)
(* had a worker of its own.  The completion port does not see to it: it    *)
(* gives any packet to any worker (:239-242).                              *)
Apart ==
  \A v, w \in Workers :
    v # w /\ "idle" \notin {pc[v], pc[w]} => pkt[v].conn # pkt[w].conn

(* With workers that stay apart the tracker is a VerdictFilter: each       *)
(* connection gets one verdict at most, which is only forgotten, and only  *)
(* connections that are blocked or wait for a verdict are reset (:365-509, *)
(* watcher.cpp:45).                                                        *)
Verdict(c) ==
  CASE c \in In(allowed) -> "allowed"
    [] c \in In(blocked) \ In(allowed) -> "blocked"
    [] c \in In(pending) \ (In(allowed) \cup In(blocked)) -> "pending"
    [] OTHER -> "none"
Resetters == {w \in Workers : pc[w] \in {"fwd", "bwd", "fwdHeld", "bwdHeld"}}
Filter == INSTANCE VerdictFilter WITH
            verdict <- [c \in Conns |-> Verdict(c)],
            resetting <- {pkt[w].conn : w \in Resetters}
ImplementsFilter == Filter!Spec

(* No verdict is for ever: an entry that no packet takes away leaves its   *)
(* table with the sweep (:45-55), whatever the workers do meanwhile.       *)
VerdictsExpire ==
  \A c \in Conns :
    /\ c \in In(blocked) ~> c \notin In(blocked)
    /\ c \in In(allowed) ~> c \notin In(allowed)

(* Every worker comes back for the next packet: no worker waits for a lock *)
(* that it holds itself, and the ones that hold it let it go.              *)
WorkersReturn == \A w \in Workers : pc[w] # "idle" ~> pc[w] = "idle"
=============================================================================
