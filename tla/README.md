# FocusGuard in TLA+

FocusGuard is a Windows program that keeps a machine off distracting sites. It
captures the machine's outgoing traffic with Npcap, reads the host name in every
HTTP request and TLS hello, decides by a blacklist and a whitelist, and ends
what it does not allow by forging TCP resets. The engine
(`src/core_engine`, about 1,600 lines of C++ without the vendored libraries) is
all the code there is: `docs/` and `web_ui/` are empty, and the local web
server, the tray agent and the dashboard of `src/README.md` are not written yet.
The repository has no tests.

This directory holds TLA+ models of the engine, TLC configurations that check
them on small instances, and TLAPS proofs of the safety properties for every
instance. `PROJECT.json` maps each definition to the lines it models, and lists
the runs, the hazards, the faulty variants that the properties have to tell from
the code, and the theorems.

## 1. The system

Threads: `main` (in `pcap_loop`), one worker per core (`consumer_func`), one
sender, one watcher, one process blocker. All but `main` are detached.

| part | state it keeps | operations | what makes it correct |
|---|---|---|---|
| capture pipeline (`packet_handler`, `PacketPool`, completion port) | free buffers, frames on their way, the buffer of each worker | acquire, copy, post, get, release | a buffer is in one hand at a time; frames arrive unchanged, in order, once |
| connection tracker (`consumer_func`) | `allowed_conns`, `blocked_conns`, `pending_conns` with time stamps, under `g_ip_mutex` | close, look up, register a SYN, block, allow, check pending | one verdict per connection, the one the lists give; entries leave only for a reason |
| list filter | reads `whitelist_domains`, `blacklist_domains` under `g_wl_mutex` | classify, ask for the mode | a decision is about one version of the lists |
| packet injector | none | two RSTs, or one ICMP unreachable | its receivers accept every answer: sums, ports, sequence numbers |
| outbound queue and sender (`PacketTxQueue`, `packet_sender_func`) | a deque of at most 4096 packets, a stop flag | push, pop, stop, send | bounded FIFO; nothing is slept on; the stop ends the sender |
| TTL sweep (`watcher_func`) | the tables | erase what is older than 30/30/15 s | nothing young goes, nothing old stays |
| list store and hot reload (`load_whitelist`, `watcher_func`) | `whitelist.json`, its last modification time, the three lists | load, reload on change | memory follows the file; a bad file changes nothing |
| DNS auto-registration (`add_to_whitelist_safe`) | the file and the whitelist | match a queried name, append it | only relatives of listed names, and no registration written over by another that has not seen it |
| protocol parsers | none | HTTP host, TLS SNI, DNS query | the name, or none, never a part of it |
| statistics (`StatsLogger`) | counters, per-domain counts, 24 hours, debounce times | log, save | a report is of one moment; a domain counts once in ten seconds |
| process blocker | the kill list, a snapshot, a handle | copy the list, take a snapshot, open, terminate | listed programs end; no other does |
| start-up and end (`main`, the console handler) | the firewall rule, the handle, the threads | add and delete the rule, open, stop, close | the rule does not outlive the process |

How they interact: `main` posts buffers to the workers; the workers share the
tables with each other and with the watcher, the lists with the watcher, the
process blocker and each other (a DNS query may extend them), the outbound queue
with the sender, and the statistics with the watcher and the process blocker.
The sender's packets are captured again, which is why the workers skip packets
with the IP ids 54321, 12345 and 12346.

What is hard in this code: a worker handles one packet in up to six critical
sections, and between two of them other workers, the sweep and a reload may run;
the sender waits on a condition variable that `Stop` notifies without the mutex;
buffers are reused in place; every thread is detached. Verdicts outlive the
connections and the lists they were given for, and the ports of connections and
the ids of processes are used again. `hazards` in `PROJECT.json` has each of
these at its line.

## 2. The modules

| module | what it is | code |
|---|---|---|
| `VerdictFilter` | abstract: one verdict per connection, and who may be reset | the contract of the tables |
| `ConnTracker` | workers, tables, lists, sweep, and the queue they push to | `packet_processor.cpp:232-517`, `watcher.cpp:40-62` |
| `ClientConn` | the tracker and the clients whose connections it watches | the same, and what clients do (external) |
| `OutboundFifo` | abstract: a bounded FIFO that drops its oldest packet | `config.h:100-141` |
| `PacketTxQueue` | the same queue with its mutex, its condition variable, the sender, and the end of `main` | `config.h:100-141`, `packet_injector.cpp:218-227`, `main.cpp:208-212` |
| `Injector` | the forged packets, word by word | `packet_injector.cpp:4-210` |
| `Answers` | the queue with the answers to what clients sent in it, and what receivers make of them | `Injector` and `PacketTxQueue`, and what is external to them |
| `FrameFifo` | abstract: a FIFO of frames, each for one worker | the contract of the port and the pool |
| `CapturePipeline` | pool, port and buffers | `packet_processor.cpp:207-254`, `config.h:30-80` |
| `HostNames` | comparing and grouping host names | `packet_processor.cpp:304-343`, `421-443`, `stats_logger.cpp:26-79` |
| `Parsers` | the name in an HTTP request, a TLS hello, a DNS query | `packet_processor.cpp:5-93` |
| `FilterStore` | the lists in memory, `whitelist.json`, the hot reload, the automatic registration, the user | `packet_processor.cpp:95-190`, `304-343`, `watcher.cpp:13-38`, `main.cpp:131` |
| `Statistics` | counters, debounce, and the report that is saved | `stats_logger.cpp` |
| `Lifecycle` | the process from start to end, the firewall rule, and the statistics while it runs | `main.cpp` |
| `ProcessBlocker` | the thread that ends listed programs, and the programs | `process_blocker.cpp` |
| `...Proofs` | theorems about the module of that name (`PacketTxQueueProofs`: and about `Answers`; `LifecycleProofs`: and about `Statistics`; `ClientConnProofs` and `FilterStoreProofs`: and about `Parsers` and `HostNames`) | |
| `DataTheorems` | facts about sums, sequences and their pieces, least numbers and finite sets of places that the proofs share | |
| `MC_...` | small instances for TLC | |

How they compose. `ConnTracker` uses `OutboundFifo` by `INSTANCE`, and
`PacketTxQueue` implements it: what the tracker assumes about its queue is what
the queue is shown to do, and the tracker does no more to it than `OutboundFifo`
has (`TrackerUsesTheQueue`). `CapturePipeline` implements `FrameFifo`: a worker of the
tracker may receive any packet of `Traffic`, and each worker holds a packet of its
own that does not change under it. While no two workers are at packets of one
connection (`Apart`), `ConnTracker` implements `VerdictFilter`. `ClientConn` extends `ConnTracker` and takes its steps, with packets
that clients send in the place of any packet at any time. `Lifecycle` extends
`Statistics`, whose memory goes with the process and whose report stays.
`HostNames` is under all the modules that compare names, and the instances feed
the modules what the functions give: what `Parsers` finds in a hello is what a
segment names in `MC_ClientConn`. `Answers` extends `PacketTxQueue` and `Injector`:
what is pushed is what is built.

`FilterStore` takes apart what is the one action `ChangeFilter` in `ConnTracker`:
the lists in memory change in `Swap` and `AppendMemory` only, each one critical
section of `g_wl_mutex`. `Reload` of `ProcessBlocker` is the same step.

In the modules whose header says so, a definition that stands just before another
one and that nothing uses is a faulty variant of it (a dropped test, a lost
notification, a swapped order). For every checked property there is one that
violates it (`mutants` in `PROJECT.json`).

### ConnTracker

One action is one critical section of `consumer_func`, together with the tests
on the packet that follow it; `pc[w]` says where worker `w` is.

| `pc[w]` | action | lines of `packet_processor.cpp` |
|---|---|---|
| `idle` | `Dequeue`, `AnswerQuic` | 239-280, 291-302 |
| `close` | `CloseConn` | 366-372 |
| `lookup` | `Lookup` | 375-378 |
| `syn` | `RegisterSyn` | 384-389 |
| `blockcheck` | `CheckBlocked` | 393-416 |
| `classify`, `unlisted` | `Classify`, `CheckMode` | 421-443, 471-473 |
| `block`, `allow` | `Block`, `Allow` | 447-455/478-485, 460-466/489-495 |
| `pendcheck` | `CheckPending` | 502-506 |
| `fwd`, `bwd`; `fwdHeld`, `bwdHeld` | `PushForward`, `PushBackward`, `SkipReset` | 396, 456, 486, 507 and `packet_injector.cpp:25-151` |

`Held` in the last two says that the worker still holds `g_ip_mutex` shared, as
at :394-398. It is the only critical section of the tracker that contains a step
others can see (two pushes), so it is the only one that is more than one action,
and the lock is the guard `IpFree` of the writers.

What is abstracted. A packet is a record of what the code tests: the connection,
the flags, whether it has a payload, the host name in it, whether its TCP header
is legal and captured (`whole`), and whether it carries the id of a forged packet.
Host names are strings and compared as the code does it, by a suffix with a dot
(`IsUnder` of `HostNames`). Every version of the lists is a member of `Configs`,
and `ChangeFilter` switches between them in one step, as `load_whitelist` does at
:176-182 and `add_to_whitelist_safe` at :143-144. A time stamp is the age of its entry, since the code compares nothing
but `now - stamp`; `Tick` is a second. The watcher reads `now` before it waits for
the lock, so the ages it compares are up to `MaxLag` older: `Sweep(lag)`.
The stream of packets is arbitrary: any packet of `Traffic` may come at any time,
which includes every reordering that the port and the scheduling of the workers
can produce. `seen[w]` is a history variable: the versions of the lists in force
since worker `w` classified its host name.

`ImplementsFilter` maps the tables to `VerdictFilter`: the verdict of a connection
is the table it is in, and a connection is being reset while a worker is about to
push a reset for it. Every step of the tracker is then one of `Await`, `Admit`,
`Refuse`, `Reset`, `ResetDone`, `Forget`, or changes nothing there. It needs
`Apart`: with two workers at one connection, `Admit` may come while the connection
is being reset. The completion port does not keep workers apart; it hands any
packet to any worker.

### ClientConn

The tracker knows a connection by the server's address and the client's port, and
drops its entries when the client closes it (:366-372). `ClientConn` puts that next
to what connections do. `client[c]` is the host that the client on port `c` talks to
and whether its connection is open, closed by it, or reset. `Connect`, `SayHello`,
`SendData`, `CloseClient` and `ServerResets` are external and send what clients send;
`wire` has the captured packets in their order. A worker takes the first one
(`Takes`), and does with it all that `ConnTracker` says (`Works`). A forged reset that
is sent ends the connection on its port or comes too late (`ResetSent`), and the
capture may lose a packet (`Miss`). `of[w]` and `about[c]` are histories: the host
whose client sent the packet at hand, and the host that the entry of a
connection was made for.

`Orderly` says that a client whose connection was reset opens no other one on the
port before the tracker has forgotten the last, and that no FIN or RST of a client
is missed. With it a packet is judged by a verdict about its own host; without it
`ClientConn_port_reuse` shows how it is not.

### HostNames and Parsers

These are functions. `IsUnder` is the suffix test of :427 and :438, `IsRelative` that
of the DNS branch with its search for the first label (:322-336), `GetRootDomain` and
`IsNoiseDomain` are the grouping of the statistics. TLC compares them with
references that are not written like the code: a name is on a list if the labels of
one listed name end it (`ListsMeanSubdomains`), the parser finds in a question
the labels that it was made of (`RegistersTheQuestion`), and in a
segment of a hello, cut anywhere, the name of the host or none (`SegmentsNameTheHost`).
The payload of an HTTP request is a string; the other two are sequences of
bytes, as far as they were captured. In `extract_sni` each part of a hello begins where
the one before it ends (`Session`, `Ciphers`, `Compression`, `Extensions`), and a loop of
the code is a function of the offset that it has reached (`Scan`; `Fits` and `QName` of a
question).

### Injector

A packet is its Ethernet addresses and the 16-bit words behind them; a sequence
number is two words with a carry. `queue_spoofed_rst_packet` and
`queue_spoofed_icmp_unreachable` build the answers to a packet, or none if its
headers are not all there (`Whole`, `WholeIp`).

`Answers` has what is around them: `Segment` and `Datagram` are what a client sends,
with any options and data, `Cut` is the capture, and `Forged` all that the injector
may answer. The references of its two properties are not written like the code: the receiver's sum is a remainder modulo 65535, where the code folds
carries, and the sequence number that a receiver expects is computed from signed
integers, where the code adds words.

### PacketTxQueue

`Push` is the critical section of a push, `Notify` the `notify_one` after it. The
sender's `cv_.wait` is taken apart as the standard describes it: `Test` evaluates
the predicate under the mutex, `Park` joins the waiters and lets the mutex go in
one step, a notification or nothing at all wakes it (`Wake`, `SpuriousWake`), and
it locks again. `StopStore`, `StopNotify` and `Close` are the end of `main`, which
`MayEnd` allows: a live capture returns from `pcap_loop` only on an error.
A packet is one of `RawPacket`, any set here and a set of answers in `Answers`.

Two things that the model has and no run states, since the process ends with them:
`Stop` sets its flag and notifies without the mutex (`config.h:132-135`), so the
notification may fall between the sender's test and its wait and be lost; and
`main` closes the handle at `main.cpp:211` while the detached sender may be about
to send on it, or still has what is left in the queue to send: `Pop` refuses only
when there is nothing left.

### CapturePipeline

`pool` is the free list, used from its back; `filling` is the buffer in
`packet_handler`'s hands, `port` the addresses posted, `held[w]` each worker's.
`Drop` is the handler whose `new` failed, `PostFails` a refused post, whose result
the code ignores. The contents of a frame matter only as equal or not.

### FilterStore

`file` is `whitelist.json` as it was last saved, `truncated` says that a worker has
opened it for writing since, and `Text` is what a reader finds. `UserSave` is
external: the user may save, spoil or delete the file at any time. `mtime` has the
resolution of `st_mtime`, a second of `clock`. The watcher goes through `start`
(its first `stat`), `sleep`, `load` and `swap`; a worker that registers a name goes
through `check` (memory), `lock`, `read`, `open`, `write` and `append`, and holds
`g_whitelist_file_mtx` from `read` on. `load_whitelist` does not take that mutex,
so it may find a truncated file. A registration can fail to be written in three ways.
If the file cannot be opened, the name is put on the list in memory all the same
(`OpenFails`). If the disk takes a part of the text only, which nobody looks at, the file
is no legal JSON any more (`Illegal` in `WriteFile`), and the name is put on the list too.
And the name may be no UTF-8 (`Malformed`): it is the bytes of a DNS question as they
came, and `dump(2)` at :137 throws on it. By then :135 has truncated the file, which
stays empty, and the `catch` at :149 skips the list in memory (`DumpThrows`).
Which listed name a queried one is put under is `Derived`, the tests of :322-336 on strings. `byUser`
is a history variable.

### Statistics and Lifecycle

`mtx_` is held for a whole call, so a `Log` call is one action. `SaveToFile` holds it
over four steps, `Collect`, `Rank`, `Open` (or `OpenFails`) and `Write` (or `WriteFails`),
and the `Log` calls wait (`Free`): `draft` is the JSON object as far as it is filled,
`report` the file, `NoReport` before the first one and `Torn` while it is truncated, or
after a write that failed. A write can fail at any time, since nobody looks at the state
of the stream, and always does when the draft shows a name that is not UTF-8
(`Malformed`): `dump(4)` throws on it. Names that
`GetRootDomain` counts together share their count and their ten seconds. The
workers, the watcher and the process blocker are the ones who call; here any of
them may at any time (`Workers`, `Watcher`).

`main` goes from `off` to `handler`, `atexit`, `ruled` and `up`, in the order of
the calls; `failed` is a start that returned early, `ended` a capture that ended, and
`Return` runs `cleanup_firewall` by `atexit`. `ctrl` is the thread of
`ConsoleHandler`, next to `main`: it removes the rule and the process ends. `Kill` is
every end that nobody handles. The two `netsh` calls (:25, :72) are taken to do what they
are told: the code ignores their results, and if `netsh` failed at will nothing would
hold of the rule. With the process its memory is gone (`Gone`); the rule
and the report stay. A signal that comes before `main` adds the rule may remove
nothing, and the rule that `main` adds then stays: `early` notes that it came so.

### ProcessBlocker

A round of the thread: `Copy` of the list, `TakeSnapshot`, `Examine` of one entry
after the other, `OpenProcess` by the id, `TerminateProcess`, `Finish`. Meanwhile
programs start and end (`Begin`, `End`) and the list is replaced (`Reload`). An id
that is free may be given to another program, unless the thread has a handle of
it. `listed` (all that was on a list since the copy) and `reused` (the ids given to
processes since the snapshot) are histories.

## 3. The runs

All are on instances of the `MC_` modules.

| run | question | result |
|---|---|---|
| `ConnTracker_safety` | two workers, one connection, three versions of the lists: `PendingExclusive`, `ForwardIsFollowed`, `ResetHoldsVerdict`, `VerdictExact`, `EvictionJustified` | hold; 711,000 states |
| `ClientConn` | one worker, clients that open, use, close and reopen a port: `VerdictsDisjoint`, `AllowedNeverReset`, `JudgedByOwnHost`, `SegmentsNameTheHost`, and the refinement `ImplementsFilter` | hold; 113,000 states |
| `ConnTracker_live` | `VerdictsExpire`, `WorkersReturn` under `Fairness` | hold; 38,000 states |
| `ConnTracker_allowed_reset` | `AllowedNeverReset` with two workers | violated |
| `ClientConn_port_reuse` | `JudgedByOwnHost` when ports do not rest | violated |
| `PacketTxQueue` | `NoLostPush`, `ImplementsFifo`, `KeepsDraining`; `ChecksumsHold`, `AnswersFit` | hold; 69,000 states |
| `CapturePipeline` | `SingleOwner`, `DeliversFrames`, `KeepsDelivering`, `BuffersReturn` | hold; 37,000 states |
| `FilterStore` | two registrations, which may fail to be written, the watcher and the user: `NoRegistrationLost`, `RegistrationsStay`, `ListsMeanSubdomains`, `RegistersTheQuestion`, `ChangesAreLoaded`, `RegistrationsEnd` | hold; 272,000 states |
| `FilterStore_missed` | `EditsTakeEffect`, with the user's edits alone | violated |
| `FilterStore_grows` | `OnlyRelativesRegistered`, with the machine's queries alone | violated |
| `Lifecycle` | `RuleMatchesLife`, `ReportConsistent`, `RateBound`, `EveryBlockIsReported`, with writes that fail | hold; 213,000 states |
| `ProcessBlocker` | `KillJustified`, `ListedProgramsEnd` | hold; 15,000 states |

Each passing run but `ConnTracker_live` checks the type invariant of its module too.

The violations, each of them a `finding`:

- **An allowed connection is reset** (:500-507). A TLS hello comes in two segments
  and two workers take them. The first one's worker finds the name and is about to
  allow; the second one's worker has found the connection not allowed and still
  pending, and lets the lock go; the verdict is entered; the second worker resets.
- **A port is judged by its last connection** (:359, :377). The program does not look
  at what servers send, so a connection that its server resets leaves its verdict in
  the tables. The client opens another one on the same port, and its packets are let
  through or reset by the verdict about the first one's host. The same happens if the
  capture misses the packet that closes a connection.
- **An edit that never takes effect** (`watcher.cpp:23`, `:34`). What is saved between
  `main`'s load and the watcher's first `stat`, or in a second whose time is noted,
  has no new modification time. `ChangesAreLoaded` says what does hold: a change with
  a new time is loaded, also one that comes during a load, because the time is noted
  first.
- **The whitelist grows to strangers** (:333, :340). The test for the same site in
  other countries looks for the first label of a listed name anywhere in the queried
  one, and what is registered is listed in turn. With `google.com` listed, a query for
  `www.google.com` registers it, and one for `www.games.com` then that.

Two more observations that two workers make possible follow from the same short
critical sections. Two requests of one connection may be decided under two
versions of the lists, and both verdicts are entered: the connection then passes,
blocked as it is, since :377 comes before :395. And the lists may be reloaded
between :421 and :471, so that a host is blocked that neither version blocks.
`VerdictExact` says what holds of the lists: a verdict given while they did not change
is theirs.

Both writers of files open them for writing, which truncates them, before they turn
what they write into text, and that throws on a name that is not UTF-8. Names are the
bytes of a packet, so one such name is enough:

- `FocusGuard_stats.json` is left empty at every save for as long as the name is among the
  five that are shown (`stats_logger.cpp:173-178`), whatever else is blocked.
  `EveryBlockIsReported` therefore asks for a report while no such name can be shown
  (`Legible`); then the reports come, through saves that cannot open the file and writes
  that fail.
- `whitelist.json` is left empty by a query for such a name under a listed one
  (`packet_processor.cpp:135-149`): all that was in it is gone, the names that
  registrations put there too. The lists in memory stay, since what is no legal JSON is
  not loaded (`TypeOK`); later registrations give up at :124 and leave the file
  (`RegistrationsStay`); and a restart has no lists at all, until the user repairs the file.

`NoRegistrationLost` is thus about what registrations do to each other: none is written
over by one that has not seen it. That a failed write loses nothing is not true.

`ClientConn` shows that the first violation needs two workers, and the theorems
`ApartWorkers...` that it needs them at one connection. Workers that are at packets
of different connections do no harm to each other's verdicts, however they
interleave with each other, the sweep and the reload: the locks are enough between
connections. Within one connection they are taken for too short, and nothing else
keeps its packets in one hand. A tracker with one worker, or one that chose the
worker by the connection, would keep all of the promises.

### Bounds, and why they are enough

- Workers: 2. Every race found has two parties besides the sweep and the reload.
- Connections: 1: the code never relates two connections, and the entries of the
  tables are independent. What workers at different connections do to each other is
  proved, not checked (`ApartWorkersDecideOnce`, `ApartWorkersFilter`).
- Host names: 3 (a site, a subdomain of it, another one), and 3 versions of the
  lists: a whitelist, the same with the subdomain on the blacklist, and a
  blacklist with an empty whitelist, so every branch of :445-497 is taken.
- Traffic: one packet for every way through `consumer_func` (SYN, bare ACK, data
  without a name, hello for each name, FIN without and with a request, RST, a
  damaged header, a forged RST).
- Ages: TTLs of 1, 1 and 0 ticks stand for 30, 30 and 15 s; what matters is that
  the pending one is shorter. `MaxLag` is 1 or 0; ages stop at `MaxAge`, above
  every limit the sweep compares with.
- Clients: one port, two hosts behind one address, one of them allowed and the other
  not, one worker, and at most two packets on their way, so that a packet of the last
  connection and one of the next are there together. Hellos and requests are whole
  or cut in two at every place.
- Queue capacity: 2 in the safety run of the tracker, so that the limit separates the two
  resets of a connection, and 1 or 2 in its others; in `PacketTxQueue` 3, with seven packets, two
  workers: the queue is full, empty, and in between.
- Injector: three segments (across the end of the sequence numbers, with options in
  both headers, with a FIN) and a QUIC datagram, each cut at every word behind
  its IP header, so that the tests on what was captured fail on some of them: six
  resets and one ICMP message are built.
- Buffers: 4, of which the pool has 2 at the start, so that it grows to the end of
  memory; 2 workers and 2 frames.
- `FilterStore`: 2 seconds, so that a change can come in the second of the last one
  and in the next, before and after the first look of the watcher, and while it loads; two
  legal versions of the file and none, and the illegal ones that failed writes leave; two
  workers that register one name that can be written and one that cannot (a tilde in it
  stands for a byte that is not UTF-8). With one name that can be written, what
  `RegistrationsStay` says of spoiled files is reached, and that names stay on the list is
  left to its proof. `FilterStore_missed` has 3 seconds. Names of one to three labels out of
  four, one of which ends in another, for the comparisons.
- `Lifecycle`: 3 seconds, a debounce of 2, two hours of 2 seconds, and a report that shows
  one domain of the two that are counted; four names, two of which are counted as one,
  one is noise, and one has a capital and is not UTF-8 (a tilde again). Allowed connections and killed programs up to 1
  each, so that the score takes values between its ends.
- `ProcessBlocker`: 2 ids and 3 programs, one of them protected; an empty list, one name,
  two names, written in other cases than the programs'.

The liveness run of the tracker has fewer kinds of packets and two versions of
the lists, and no symmetry, which is not sound for liveness.

### Fairness, and why the code justifies it

- Every thread that can run does (`WF` of the worker's, the sender's and the
  clock's steps): they are plain OS threads that wait for nothing else.
- A step that needs `g_ip_mutex` alone happens if the lock is free again and again
  (`SF` of the writing steps and of the sweep).
- `ReadersPause`: infinitely often no reader is inside :394-398. The standard does
  not promise it of `std::shared_mutex`: without it TLC finds two workers
  that hold the lock in turns for ever and keep the sweep out. A lock that
  lets no new reader in while a writer waits satisfies it.
  `VerdictsExpire` and the writers' part of `WorkersReturn` depend on this
  assumption about the lock.
- A worker gets `g_whitelist_file_mtx` if it is free again and again.
- The watcher saves, and the report can be opened again and again (`SF` of
  `OpensReport`); the disk takes a text that can be written again and again (`SF` of
  `WritesReport`, which says nothing of a text that throws); the process blocker is scheduled, and a snapshot succeeds again and
  again (`SF` of `TakeSnapshot`). Without these the disk or Windows may refuse for ever.
- Nothing makes packets arrive, workers push, the lists change, the user save, the
  capture end, or anybody start or end a program, FocusGuard among them.

## 4. The proofs

TLAPS proves the following for every value of the constants that satisfies the
modules' assumptions (`TrackerAssumption`, `ClientAssumption`, `QueueAssumption`,
`AnswersAssumption`, `PipelineAssumption`, `StoreAssumption`, `StatisticsAssumption`,
`BlockerAssumption`), so for any number of workers (finitely many, in the tracker), connections, hosts, buffers,
packets, processes and versions of the lists, and any TTLs. The runs evaluate each of
these assumptions on their instance.

- `ConnTrackerProofs`
  - `TypeCorrect`: `TypeOK`, with the limit of the queue.
  - `PendingIsExclusive`: `PendingExclusive` is inductive with `TypeOK`: only
    `RegisterSyn` adds to `pending`, under the lock and with both tables looked up.
  - `ResetsHoldTheirVerdict`: inductive with `TypeOK`; every step that erases
    from `blocked` needs `IpFree`.
  - `EvictionIsJustified`: from `Genuine`, the invariant that no worker holds a
    forged packet.
  - `VerdictsAreExact`: from `Informed`, which says of every worker past
    `Classify` what the versions it has seen have to do with where it is.
  - `ApartWorkersDecideOnce`: while the workers stay apart, `VerdictsDisjoint` and
    `AllowedNeverReset`. Neither is inductive; `Decided` is, which adds `Looked`: past
    the look-ups, a worker's connection is in the tables that they left, which only a
    worker at the same connection could change. `ApartWorkersFilter` shows the
    refinement of `VerdictFilter` with it, step by step. With one worker `Apart` always
    holds, which gives `SingleWorkerDecidesOnce` and its companions.
  - `TrackerUsesTheQueue`: every step pushes one forged packet, pops one, or leaves the
    queue, as `OutboundFifo` says. `ForwardsAreFollowed`: `ForwardIsFollowed` counts in
    every rest of the queue, not in the whole, which makes it inductive (`AllFollowed`):
    a push adds to every rest, the limit and the sender take from the front only, and a
    worker between its two pushes makes up for the one that is missing.
- `ClientConnProofs`
  - `ClientsRunTheTracker`: the steps of `ClientConn` are the tracker's or leave
    its variables alone, if `Traffic` has all that clients may send (`ClientsFit`).
    So `ClientsGetOneVerdict` and `ClientsAreFiltered` follow from the tracker's
    theorems, and nothing of them is proved twice.
  - `ClientsTypeCorrect`: `ClientTypeOK`, from what `Clients` do to the wire (`WireBound`)
    and what the histories note (`Remembers`).
  - `ClientsAreJudgedByTheirOwn`: with `Apart` and `Orderly`, `JudgedByOwnHost`.
    The invariant `Own` relates what the client does, what is on the wire, what the
    worker holds and what the tables have: between two clients of a port there is
    always a packet that closes the first one's connection, ahead of all that the
    second one sends (`WireSteady`, `HeldSteady`), and an entry is about the host of
    the next packet of its port unless such a packet comes first (`VerdictSteady`,
    `OwnVerdict`). A client whose connection was reset sends no such packet, which is
    why its port has to rest.
  - The parsers. `HelloReadsInside`: two payloads that agree up to the length give the same
    name. `FrontOfHello`: a hello cut after any byte gives the whole one's name or none,
    since the tests of a cut hello fail wherever it has lost something. `HelloNamesServer`:
    the name is that of the first server_name extension, at any number of others
    (`Path`). `PieceOfRequest`: the same for a request cut on both sides.
  - `SegmentsNameNoOther`: so no segment names another host than its connection's. It
    assumes that what segments name is what the parsers find in the pieces of a hello
    or a request to that host (`HellosParsed`), in any alphabet. Two things about the pieces are needed,
    and the code depends on them: a piece of a hello that is not its front must not look
    like a hello itself (`Complete`), and a request that is cut has one `Host: ` in it. A
    piece that begins elsewhere may otherwise name what a client wrote into its data.
- `PacketTxQueueProofs`
  - `TypeCorrect`, `NoPushIsLost`: from `Inv`, which adds to them that a sender
    about to wait (`park`) has an empty queue: it holds the mutex since its test.
  - `QueueImplementsFifo`: every step is a push, a pop, or a stutter of
    `OutboundFifo`.
  - `ChecksumsAlwaysHold`, `AnswersAlwaysFit`: from `TypeCorrect`, what is on its way out
    was pushed, so it is an answer to some cut of some segment or datagram. The rest is
    about the functions. Folding the carries of a sum leaves its remainder modulo 65535,
    and not 0 unless the sum is, so a checksum, its complement, makes the words add up to
    a multiple of 65535. A cut that passes the tests of `Whole` still has the headers at
    their places, so the addresses and ports are the client's; and adding words with a
    carry is addition modulo 2^32, also of a negative number.
- `CapturePipelineProofs`
  - `TypeCorrect`; `BuffersHaveOneOwner`: inductive; `PipelineDeliversFrames`: the
    refinement of `FrameFifo`, which needs `SingleOwner` to show that a copy into
    a buffer changes neither a posted frame nor a worker's.
- `FilterStoreProofs`
  - `TypeCorrect`; `RegistrationsAreKept`: `NoRegistrationLost` is inductive with
    `Alone`, the mutual exclusion of the workers between lock and return.
  - `RegistrationsOnlyGrow`: `RegistrationsStay`, from these: a worker that writes over a
    file of another registration has read that very file, so it was legal, and `Append`
    keeps its names; a write that throws leaves the file as the user has saved it, or
    none that is legal.
  - `ListedByLabels`, `LabelListed`: what the suffix test with its dot means. A name is on
    the list of another if it is that one, or if it has several labels and what follows its
    first one is. `QuestionNamesLabels`: a DNS question gives its labels in their order
    (`Labels`, `Joined`); `CutQuestionNamesNothing`: and none of them if one runs past the
    end; `QuestionReadsInside`: whatever lies behind the end.
- `LifecycleProofs`
  - `TypeCorrect`; `CountsAreSpaced`: `RateBound`, from `Spaced`, which bounds the counts
    of a domain by the time of its last one and not by the clock; `RuleIsRemoved`:
    `RuleMatchesLife`, from `RuleInv`, which says of every place of `main` and of the
    handler whether the rule can be there.
  - `ReportIsOfOneMoment`: `ReportConsistent`, from `ReportInv`: the counters agree with
    each other at all times (`CountersAgree`: the counts of the domains add up to the
    blocks, the hours to the blocks and the kills), and so does a draft, as far as it
    is filled (`DraftAgrees`), because no counter moves while it is.
- `ProcessBlockerProofs`
  - `TypeCorrect`; `KillsAreJustified`: from `Justification`, which says for each step of
    a round what the thread's reading is still worth: the names of the copy were
    listed, and an id of the snapshot has the program it had, or none, or has changed
    hands.
- `DataTheorems`: what `SumFunction` and `FoldLeft` of the community modules give. Both are
  defined by a recursive function; the induction theorems of the library that would
  unfold it take an operator, which the provers cannot instantiate. So that the equation
  has a solution is shown by giving one that is not recursive, and what every
  solution is by the smallest argument at which it would differ, which exists because
  the arguments are well-founded. From there it is the step: the sum changes by what
  one argument changes by (`CountUpdate`), and the sums of two sequences add up to that of
  their concatenation. The parsers go forward through a payload, and `Downward` does
  the same for them: what such a function gives at a place follows from what it gives at
  later ones.

Only model-checked:

- the liveness properties (`VerdictsExpire`, `WorkersReturn`, `KeepsDraining`,
  `KeepsDelivering`, `BuffersReturn`, `ChangesAreLoaded`, `RegistrationsEnd`,
  `EveryBlockIsReported`, `ListedProgramsEnd`), which are out of the prover's reach, as
  everything with `ENABLED` is;
- `ListsMeanSubdomains`, `RegistersTheQuestion`: they compare the names and the questions of
  the instance, which are string literals, with what the code makes of them. For the
  provers a literal has no characters. What they say is proved of names as sequences of
  characters, of any length (`ListedByLabels`, `LabelListed`, `QuestionNamesLabels`,
  `CutQuestionNamesNothing`), and the runs show that the literals are such names. That is
  also the limit of those theorems: the dot of a name is a character of which the string
  `"."` consists (`IsDot`), which is what a string is in TLA+ and which the provers take as
  a hypothesis. The theorems about the lists and the registrations hold whatever the
  comparisons give.

## 5. What is not modelled

- Exceptions that reach the loop of a worker: `consumer_func` catches them at :511-515
  and goes on with the next packet. They come from allocation only; those of the JSON
  library are caught where files are read and written, and are modelled there.
- A `netsh` that fails. That it does what it is told is an assumption about Windows that
  `RuleMatchesLife` and the theorem `RuleIsRemoved` rest on.
- Bytes behind a captured frame: `payload_len` at :402 is computed from the IP header, so
  a frame that the capture cut short would be read past its end. The parsers take that
  length for right; that they read nothing behind it is proved (`HelloReadsInside`,
  `QuestionReadsInside`).
- In `ClientConn`, two connections of one port to the same address at once (ports 80 and
  443, which :363 does not tell apart) and a request in the packet that closes the
  connection. `ConnTracker` has the latter (`LastRequest`).
- The order of the calls to the statistics and the steps of the tracker: the tracker
  never reads the statistics, and `Lifecycle` has their calls in any order.
- A wall clock that is set back, which silences a domain until it has caught up
  (`stats_logger.cpp:117`).
- Which adapter is chosen and with what filter it is opened: `Start` is that one is. The
  functions that nobody calls: `Init`, `Size`, the two `send_` wrappers.
- The vendored `json.hpp` and Npcap headers, 31,000 of the 33,000 lines of the
  directory: a file is its content or not legal, and the capture is what the code
  uses of it. The parts of `src/README.md` that have no code.

## 6. What could come next

- `ClientConn` with two workers that do not stay apart: how much of `JudgedByOwnHost` is
  left when the packets of a connection are handled out of order, and connections to
  ports 80 and 443 of one server.
- Captured lengths for the parsers, so that the reads of :402 past a short frame can be
  stated.
- A clock that may be set back, for the statistics and the sweep.
