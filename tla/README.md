# uscan in TLA+

A verification development for `uscan`, the Rust scanner that finds network cameras and other
devices: the library `universal-scanner` and the command line `uscan`. The modules are
translated from the Rust source; TLC checks them on small instances and TLAPS proves their
invariants for every value of the constants. File and line references are to `src/`, with
`US/` for `src/universal-scanner/src/` and `CLI/` for `src/uscan/src/`.

## The system

| Part | State it keeps | Operations | Talks to |
|---|---|---|---|
| Scanner (`US/scanner.rs`, `engine.rs`) | cancellation token, engine instances, contexts, task handles | `new`, `start`, `scan`, `stop` | calls every engine's `listen` and `scan`; owns the broker and the port pool |
| Port provider (`US/ports.rs`) | the pool `used` | `new`, `reserve`, `free_port` | shared by all engines under a mutex; competes with other programs |
| UDP sockets (`US/net.rs`) | a `SocketSet` per engine | the binds, `send_*`, `recv_loop` | one receive task per socket; `parse`, then the report channel |
| 24 socket engines (`US/protocols/`) | request counters | `used_ports`, `listen`, `scan`, `parse` | multicast, broadcast, unicast |
| mDNS broker, Axis, Google Cast, Arecont (`US/mdns.rs`, ...) | handlers by domain, send sockets | `register_domain`, `listen`, `scan`, `on_packet` | engines register callbacks; it calls them from its tasks |
| ARP engine (`US/protocols/arp.rs`, `US/arp/`) | an inject queue per NIC | capture thread, consumer task, sweep | threads outside tokio; libpcap |
| Subnet sweeps (`US/netscan.rs`, `dahua2.rs`, `arecont.rs`) | a sweep token per engine | one task per scan | cancelled by the next scan or by `stop` |
| Device table (`US/devices.rs`) | `entries`, `order` | `add`, `all` | fed by the CLI loop from the report channel |
| CLI loop (`CLI/run.rs`, `output.rs`) | the `select!` loop, exit code | report, rescan, deadline, Ctrl-C | the scanner, stdout, SIGINT |
| Interfaces (`US/iface.rs`) | - | `active_interfaces`, `mask_of`, `subnet_hosts` | read by binds, queries and sweeps |
| Capture file (`US/pcap.rs`) | file, count, mutex | `append_udp` | called by every receive task |
| Configuration, OUI, TVT provisioning, self-test, logging | - | merge, look up, write | pure functions and I/O |

**What is hard here.** Receive tasks, sweeps and capture threads run while `start` and `stop`
run; a `listen` may fail after others have spawned tasks; ports are tested, closed and bound
later, while other programs bind; answers come late, twice, in any order, and the host hears its
own multicast; `select!` drops the futures it did not take; a deadline, a rescan and two Ctrl-C
race; a task may die of a panic, and `scan` may be called after `stop`. `PROJECT.json` lists these hazards by line, each with the properties about it.

**What makes each part correct.**
- Scanner: every task is joined by `stop` or was detached by a failed start, no engine gets
  another's context, probes are sent only where someone listens or a task panicked, `stop` returns and
  the scanner comes to rest.
- Ports and sockets: engines never take each other's ports or datagrams.
- Engines: what is reported is an answer to that engine's protocol, and an answer is heard.
- Broker: a packet that answers for one engine is reported by it and by no other, whatever its layout
  and the order of its records; the decoder ends.
- ARP: threads end with the scan, own requests are not devices.
- Sweeps: at most one live sweep per engine goes on sending, to hosts of private networks only, and to
  all of them.
- Capture file: a reader gets back what was appended, and an append never kills a receive task.
- Device table: one row per device, the best report wins in any order, streaming and batch agree.
- CLI loop: exit codes tell how it ended, output is complete and current, it ends.

## The modules

| Module | Models | Extends |
|---|---|---|
| `DeviceTable` | `DeviceTable::add` and `all` | |
| `RunLoop` | `run_scan`: the `select!` loop, deadline, rescan, Ctrl-C, batch output | `DeviceTable` |
| `RunLoopProofs` | theorems about both; the loop implements `DeviceTable` | `RunLoop` |
| `ScannerLifecycle` | `Scanner::start`, `scan`, `stop` and the tasks they spawn | |
| `ScannerLifecycleProofs` | theorems about it | `ScannerLifecycle` |
| `Sockets` | the port pool and the binds of one start, against other programs | |
| `Registry` | the 24 socket engines: where they listen and probe, what they parse | |
| `Discovery` | probes, answers, delivery and reports, with the real registry | `Sockets`, `Registry` |
| `DiscoveryProofs` | theorems about `Sockets` and `Discovery` | `Discovery` |
| `ArpCapture` | the ARP engine of one start: capture threads, inject queues, consumer, sweeps | |
| `ArpCaptureProofs` | theorems about it | `ArpCapture` |
| `DnsMessage` | the DNS decoder: `read_name`, `parse_txt`, `parse_dns`; what a sender may write | |
| `MdnsEngines` | how Axis, Google Cast and Arecont join records into devices | |
| `Mdns` | the broker: binds, registration, dispatch, queries, receive tasks | `MdnsEngines` |
| `MdnsProofs` | theorems about decoder, joins and broker | `Mdns`, `Induction` |
| `SweepTasks` | abstract: what a sweep promises | |
| `Sweeps` | Dahua's subnet scan and Arecont's queries; `INSTANCE SweepTasks` | |
| `SweepsProofs` | the refinement, and who is probed | `Sweeps`, `Induction` |
| `CaptureFile` | `append_udp` of concurrent tasks, failed writes, a kill | |
| `CaptureFileProofs` | theorems about it | `CaptureFile`, `Induction` |
| `Induction` | induction and recursion over the naturals, stated with sets and functions | |
| `MC*` | instances for TLC | |

### DeviceTable
`entries`, `order` are the struct's fields; `rows` (what `add` returned) and `seen` are history.
`Add(d)` is one call: `Reject` (family filter), `Accept` (`Insert` or `Update`, with the merge of
the MAC) or `Drop`. `Returned(d)` is the row `add` hands back. Device type and serial travel with the
protocol and are left out. A report is one of the constant set `Reports`.

### RunLoop
`pc` follows `run_scan_inner`. Each branch of `select!` is an action (`TakeReport`, `TakeRescan`,
`TakeTimeout`, `TakeCtrlC`); a branch that is taken drops the Ctrl-C future, so `notified` is
lost and `PollCtrlC` makes it anew. `installed` stands for tokio's process-wide handler, which
replaces the default action at the first poll. `TakeReport` is `DeviceTable!Add` and the printing
of the row. Devices that are asked again answer again: `EngineRepeats` puts a report on the channel that was
received before, as often as it likes, and `TakeRepeat` takes it. Such a report changes nothing in the table,
so `repeat` only says whether one is there, and the channel may stay busy for ever within a finite model. `stop()` is one step here: that it returns is `StopReturns` of `ScannerLifecycle`.
The `None` branch of `rx.recv()` is left out: the scanner keeps a sender, so it is never taken.

### ScannerLifecycle
One action per bind of `start`, with the bind's failure beside it; `Fail` is the `?` that drops
the handles collected so far; `JoinTask`, `JoinedAll`, `JoinSweep`, `StopReturn` are the awaits of
`stop`. A task is `<<epoch, owner, socket>>`; epochs number the tokens. `TaskExit` and `SweepExit`
are the tasks' own steps. `Receive` is `select!` taking the socket, also when the token is cancelled, and
`Handled` the end of what `recv_loop` then does; or `Panics` ends the task there, with its token live: at
a slice in `parse` that is no char boundary (`dahua2.rs:178`), or at the sum of the lengths or the poisoned
mutex in `append_udp` (`US/pcap.rs:47-53`, modelled in `CaptureFile`). Only the sockets in `Heard` get
datagrams in an instance: on the others a task has nothing to handle. `SocketFails` is any other error of a bind
than the port being taken. An engine is only its way to listen (`Kind`), so the instances have one engine of each
kind. `Scan` may come whenever no call is in progress: before a start it finds no contexts, after `stop` it
launches sweeps with a cancelled token, which `belated` remembers. Callers keep the one rule that the
code states, `US/scanner.rs:125`: `stop` before a new `start`.

### Sockets, Registry, Discovery
`Sockets` walks through the owners in the order of `start` and, for each, through the sockets its
`listen` binds. `free_port` is `Draw`, the later bind is `BindInterface` or `BindGlobal`, and other
programs act in between. A bind conflicts with sockets of the same port and address unless both
sides set `SO_REUSEADDR`; the trial bind of `free_port` does not set it. `Registry` holds one
record and one `Parses` operator per engine, read off `used_ports`, `listen`, `scan` and `parse`;
a datagram is its size, its leading bytes and the features `parse` looks for. `Answers` are the
devices' datagrams, after the fixtures of the tests. `Discovery` puts them together, and its
`RegistryAssumption` says that the constants of `Sockets` are the registry's: `Scan` sends
each request from each socket, devices answer to the asking socket or to the protocol's port,
`Receive` is one turn of `recv_loop`. `air` only grows, so the network may lose, delay, repeat and
reorder; the host hears its own multicasts and broadcasts on every wildcard socket. WSDiscovery's own probe
passes its parser, so `OnlyAnswersAreReported` exempts it and says nothing of that echo; it stands among the
findings.

### ArpCapture
`thread[n]` follows the loop of `US/arp/capture.rs`: `Check` looks at the token, `Inject` and
`Drained` empty the queue `inject[n]`, then one wait for a frame ends in `Capture`,
`TimeoutExpired` or `CaptureFails`. A NIC that has no address or cannot be opened has no thread. `Consume` is the
consumer's turn: `ArpParse`, which refuses a frame that is cut short (`Malformed`), and `FilterLocal`;
`ConsumerEnds` is `recv` returning `None`: every thread has dropped its sender and the channel is empty.
`local` is the snapshot of our addresses that `listen` takes; `addrs` is what the interfaces have now, which
`scan` reads anew and `AddressChanges` changes for those in `Mobile`. `Requests` is one sweep on a NIC: from each
private address (`Private`) for the hosts of its subnet (`SubnetHosts`) but for that very address
(`SweepPlan`; another of our own may be among them), and a broadcast from the first private address, hosts or no
hosts. `Scan(known, masked)` chooses the NICs whose MAC can be read, and the addresses that still have a mask
when it is looked up. It may come after the cancel. A frame is its sender address; MAC, device type
and vendor are left out. The channel is unbounded in the code and holds `MaxChannel` frames here.

### DnsMessage, MdnsEngines, Mdns
A message is a sequence of cells, one for each thing the decoder reads at a go. `ReadName` is one turn of
`read_name`, with what its recursive calls give as a parameter, and `NamesByPlace` ties the knot: a
recursive function of position and budget. `ReadRecords` and `RecordsByPlace` are the loop of `parse_dns` in
the same form, by the records to come and the position. What the decoder should make of a name is said without
a budget by `Walk` and `Spelled`. What it should make of a packet is what the sender put down, and `Carries`
says what a sender may write: names in any compression, the data of each type, records one behind the
other. A packet `IsWritten` if its `wire` is such a writing of its `said`. A text is a
sequence of words and of the separators that the engines split at, so that `AxisConvert`,
`GoogleConvert` and `ArecontConvert` can be the code's joins over PTR, TXT and address records.
`Reported` is `report_addresses` with its rule about autoconfigured addresses. In `Mdns` the broker
binds its sockets one by one (`Listens`, or `LeavesOut` when a bind fails), `RegisterDomain` is one
`register_domain` of one engine, and `Hears` is `on_packet` in a receive task: it may come as soon as the
socket is bound, so before, between and after the registrations, and whether a query has left from it or not. `MCMdns` plays the responder: it writes record sets as cells, with
names in full or compressed, and its `PacketsAreWritten` lets TLC confirm that these are writings in the
sense of `Carries`. `MessagesAssumption` types the packets, and says that an A record has an
IPv4 address and an AAAA record an IPv6 address; data of the wrong length says the unspecified
address of its type, as the decoder reads it.

### SweepTasks, Sweeps
`SweepTasks` knows four statuses of a sweep. A launch or a stop cancels; a cancelled sweep may begin
one more unit of work. A sweep launched after the stop is cancelled from the start: neither
`arecont.rs:129` nor `dahua2.rs:54` looks at the token first. `Sweeps` has the two tokens, the places where each sweep looks at them, and the
arithmetic of `subnet_hosts` modulo 2^`Bits`. The addresses and hosts that a sweep has still to go through
are sets, taken in ascending order as in the code. `Status` is the refinement mapping. The two kinds of sweep
share nothing but the tokens, which is why an instance runs one or the other.
`ProbesStayInSubnet` says that an address is never probed from itself; another address of ours in the same
subnet is a host like any other, in the code as here. A probe is one `send_unicast` from all sockets of the engine; whether a send fails changes nothing
but the count in a warning. `ScannerLifecycle` has the handles of the sweeps and what `stop` does
with them.

### CaptureFile
The file is a sequence of cells: a record's head, with the length it claims, or one unit of a frame.
`Locks` takes the mutex and lays out the record, `Writes` is one write of `write_all`, which may put down
only part; `WriteFails`, `Unlocks` and `Killed` end it. A reader is a function of positions: from the head
of the file it skips from record to record by the lengths they claim. `checked` tells the two kinds of build apart: in
one a sum that exceeds 16 bits wraps, in the other it panics with the mutex held.

## The runs

| Run | Shows | Bounds |
|---|---|---|
| `lifecycle` | receive tasks, sockets, sweeps, their handles and the contexts through two starts, failed or not, with panics, and scans at any time | 3 engines (group with sweep, mDNS with sweep, ARP) and the broker, 1 NIC, 2 starts, 2 scans; datagrams on the two fixed sockets |
| `lifecycle_live` | `stop` returns, and a scanner left stopped comes to rest | 3 engines (group with sweep, global, ARP), interfaces without an IPv4 address, 2 starts, 1 scan; datagrams without end on the group socket |
| `lifecycle_joins_all` | violation: tasks detached by a failed start outlive `stop` | 1 start |
| `run_loop` | the table's properties in every order of the reports; stdout, exit codes, deadline and Ctrl-C, streaming and batch | 7 reports of which 3 come, and again any number of times: 3 hosts, 2 MACs, versions 0 to 2, with and without MAC, one filtered; 1 rescan tick, 2 SIGINTs |
| `run_ctrl_c` | violation: a first Ctrl-C may be lost | 1 report, 1 tick, 2 SIGINTs |
| `run_batch_ctrl_c` | violation: Ctrl-C prints no batch output | 2 reports |
| `discovery` | ports, delivery and parsing with all 24 engines | each engine alone, and eight pairs that can meet on a port; 1 NIC, 1 outside socket, 2 answers, 4 drawable ports: 3 fixed ports, and the one Hanwha probes |
| `discovery_ports` | violation: Panasonic's port may be drawn | 2 engines |
| `arp_capture` | what is asked for, nothing captured is lost, one frame after a cancel at most, the consumer ends, requests leave | 2 NICs, 2 own addresses in one subnet of which one moves, 1 host, 2 sweeps, channel of 1 |
| `mdns` | names and packets decode, reports are founded and made, record order and layout play no part | 3 engines, the group and 1 NIC, 1 packet heard: 13 record sets in full and compressed, three of them in every order, two cut off, our own query, and every name of 2 or 3 cells; a budget of 4 |
| `sweeps` | who is probed, that all are, and that each sweep is one of `SweepTasks` | 2 scans; 4 rounds; 3 addresses of 4 bits, 3 hosts at most |
| `capture_file` | what a reader gets back, and that no append kills its task | 2 tasks, 4 datagrams of 2 sizes, one of which overflows; lengths modulo 4 |

Why the bounds are enough: two starts are the fewest in which one epoch's tasks can meet
another's sockets, and sweeps launched after one `stop` be thrown away by the next start; two scans are the
fewest in which a sweep is replaced; two SIGINTs are all the code distinguishes. A pair of engines suffices for ports and delivery because both
are relations between two sockets, and `DiscoveryProofs` removes the bound. One NIC suffices for a conflict, since interface sockets of one engine never share a
port; two would only multiply states. In `arp_capture` the second address of ours lies in the subnet of the first and has itself a prefix without room
for hosts; one place on the channel suffices for a frame that is still there when the threads have gone. Two
threads are the fewest of which one may end while the consumer waits for the other, and two
sweeps the fewest in which a queue is refilled before it is empty. Three reports, repeated or not, are the
fewest in which a key is inserted, improved and then met by a worse report; that those received come
again without end is what makes the deadline compete with a channel that never empties. One packet is enough for
`mdns` because the broker keeps nothing from one packet to the next but the handlers, and the packet may
come at any point of their registration; three cells hold every small circle of pointers, and the longer
names exhaust the budget. Four address bits with a cap of three give a subnet without hosts,
one that is cut at the cap, and one address that is not private in between.

`CHECK_DEADLOCK FALSE` appears where the system may rest: after a failed start or when every
answer was sent (`discovery`), when the threads and the consumer have ended (`arp_capture`), when the bounded traffic has come and the tasks have ended (`mdns`,
`sweeps`, `capture_file`), and without `--timeout` (`run_ctrl_c`).

**Fairness.** `ScannerLifecycle`: `stop` goes on while it can (a tokio task that is awaited and
ready is polled); a receive task comes to the end of what it does with a datagram; and when it comes to choose
again and again, with its token cancelled and its socket always ready, it takes the token some time, because
`select!` picks among ready branches at random: that is strong fairness, for with every datagram the
choice is gone for a while. A mutant that gives the socket precedence violates `StoppedComesToRest`. A sweep has
finitely many rounds. Nothing is assumed of callers or other programs. `RunLoop`: the main task runs while it
can, and a branch that stays ready is taken, again by the random choice of `select!`; the repeated reports keep
the channel's branch ready for ever, and a mutant that takes the deadline only when the channel is empty violates
`DeadlineEndsRun`. Nothing is assumed of engines, timers or the user: `DeadlineEndsRun` speaks of a deadline
that passed.
`ArpCapture`: a thread runs, and its read ends with a frame, an error or pcap's 100 ms timeout; the
consumer is polled when it has something to do. On platforms where libpcap starts that timeout only
with the first packet, a cancelled thread, and `stop` with it, waits for the next ARP frame instead.
Nothing is assumed of the traffic, so `RequestsLeave` holds on the busiest link.
`Sweeps`: every spawned task is polled, which includes that the timer of its sleep goes off; of scans,
stops and interfaces nothing is assumed. `Mdns` and `CaptureFile` have safety only.

**Findings.** Each violation run is a disagreement between the code and what the repository says
of it; `PROJECT.json` quotes the sentence. In brief:
1. A Ctrl-C that arrives while another branch is being handled is heard by no one (`CLI/run.rs:79`).
2. With `--batch`, Ctrl-C exits without the output README promises (`CLI/run.rs:87`).
3. A failed `start` detaches tasks that `stop` does not join (`US/scanner.rs:166`).
4. Panasonic reserves 10670 and binds 10669 (`US/protocols/panasonic.rs:56`): an engine started
   earlier may draw 10669 and take, and report as its own, Panasonic's unicast answers.

Seven more were met while modelling. They are visible in a line or two of the code, so they have no
run of their own; where a model meets one, it behaves as the code does:

5. WSDiscovery's default probe passes its own parser (`US/protocols/wsd.rs:96`), so the host, whose group
   socket receives it, reports itself as a device that answered (the first exception of
   `OnlyAnswersAreReported`).
6. "One busy port never fails the whole scan" (`README.md:140`) holds of interface sockets and of
   the broker, not of a group socket: `ssdp.rs:43` and the other multicast engines pass the
   error of its bind up, and `start` fails. `Fail` of `ScannerLifecycle` is that path.
7. `--pcap-out` is said to dump probes and responses (`README.md:94`). `append_udp` is called only by
   `recv_loop` and by `EngineContext::send_all`, which nothing calls: no probe, no mDNS packet and no ARP
   frame is written.
8. Other ports that nobody reserves have the fate of Panasonic's 10669. NiceVision, whose socket is on the
   wildcard address, may draw 7701, to which Hanwha broadcasts from the same host: its parser takes Hanwha's
   request, which is as long as its own answers, for one (the second exception of
   `OnlyAnswersAreReported`). It may as well draw 10669 or, before a broker that could not bind, 5353.
9. `tvt-set` is said to transmit three times (`README.md:78`); the loop of `US/tvt_provision.rs` ends with
   the first send that succeeds.
10. `dahua2.rs:178` cuts an address one byte before its first separator. Where the character before the separator
   has several bytes that is no char boundary: the slice panics and the receive task is gone until the next
   start, while its socket goes on asking.
   `Panics` of `ScannerLifecycle` is that path, and `ProbesAreHeard` names it.
11. `scan` does not look at the token (`US/scanner.rs:174`): after `stop` it spawns sweeps, of which
   Arecont's still sends one query. If a start follows, `ctxs.clear` (line 153) drops their handles; they end
   by themselves. `SweepsAreOwned` and `StopLeavesNothing` name them (`belated`).

## The proofs

Every invariant and the action property of the passing runs are proved, and so is the safety of the two
modules that implement another one. The theorem modules of the library take an operator where an induction or a
recursion goes on, which the installed provers cannot instantiate. `Induction` derives from the
library's well-founded sets the same facts about sets and functions, which they can: `LeastNumber`,
`Induction` over the naturals, `Recursion` (a function defined by its first value and a step exists) and
`MeasuredRecursion` (so does one whose every value looks only at arguments of a smaller measure). With them the
recursive functions of the models are what they say at every argument, and induction over data is
within reach: the decoder, the reader of capture files and the arithmetic of subnets are proved about for
every input. What it takes is a model written with recursive functions.

**RunLoopProofs** proves of `DeviceTable`, for any set of reports, addresses and MACs, type correctness and the
six other invariants of the table. The
inductive invariant `IInv` adds two facts. `EntriesKeyed`: each entry is stored under
its own key; without it a merge could be charged to another key. `RowsBelowEntries`: every row
streamed is below the entry of its key, in version and in the MAC being known; without it
`RowsImprove`, which compares two rows of the past, says nothing about the next row. Every
change is an `Accept(d)`, and `AcceptEffect` says what it does, insert or update alike; the
conjuncts follow from that lemma.

Of the loop it proves, for any reports and command lines and any number of ticks and signals,
`RunKeepsTable`: every step of the loop is a step of `DeviceTable` or a stutter, so `RunSpec => Spec`
and all that is proved of the table holds of the loop's. It then proves the loop's five safety properties.
`RunInv` is the table's invariant and four facts that tie the loop to it: what can have brought the
program to where it is (`CauseKnown`, for the exit codes), what is on stdout there (`OutputIs`: header and
rows while streaming, header and table at the end of a batch), that the table has seen exactly
the reports received (`SeenIsArrived`; from it and `BestReportWins` follows `RepeatChangesNothing`: a report that
comes again, however often, is dropped), and that `order` follows their arrival
(`OrderIsArrival`). The last is not inductive without the one before: only a key that no earlier
report had can be appended.

**DiscoveryProofs** proves of `Sockets`, for any engines, modes, fixed ports, selections and interfaces, and any
number of outside sockets, type correctness, `UnicastReachesOneEngine` and `StartDeafensNobody`.
`BindEffect`'s cases and the draw (`Quiet`, `DrawsPort`, `BindsDrawn`, `BindsFixed`) are what a step can do
to pool and sockets. The inductive invariant: the pool contains the reserved ports once it exists
(`PoolFilled`); a port drawn and not yet bound is in the pool, unreserved and fresh
(`DrawnIsFresh`); drawn sockets have unreserved ports, no two the same (`DrawnPortsDiffer`); every
other socket is its owner's wildcard socket on the fixed port (`OthersAreFixed`); and an owner past
its first bind has its reserved port or lost it to another program (`PassedAreSettled`). The last
one needs the others: the only thing of ours that can be in the way of a reserved fixed port is
the very socket that is wanted.
Assumptions: the named `ASSUME`s of `Sockets`, above all `FixedPortsDiffer`, which TLC evaluates on
the real registry in `discovery`.

Of `Discovery` it proves, for the real registry, any selection of its engines in any order, and any interfaces and
other programs, `OnlyAnswersAreReported` and `AnswersAreHeard`. What is in the air is a request or an answer
in its proper place (`AirInv`), and nothing is bound once something may be sent. Two of our sockets on one
port are one fixed and one drawn (`SharedPort`), and the fixed port is then one that nobody reserved: so who can
be handed what is known but for a few pairs of engines. Only for those is a table of payloads and
parsers needed (`EngineFacts`, `ForeignPayloads`), which the provers evaluate engine by engine.

**ScannerLifecycleProofs** proves, for any registry, any engines and interfaces and any number
of starts and scans, the six invariants of `lifecycle`. The inductive invariant consists of four of them
and of what makes them last: where the calls stand (`PhaseOfCall`), that nothing is
left over between calls (`NothingLeftOver`) and that `start` collects handles of its own epoch
(`LocalIsCurrent`), for a start that reuses the scanner; that every older token is cancelled
(`OldEpochsCancelled`); that a sweep launched after a `stop` has a cancelled token, and is of an older epoch unless the scanner is
still stopped (`BelatedIsLate`); and the order in which `start` walks through the engines (`ContextsInOrder`), of
which `ContextsMatchEngines` is the end. Scans come at any time, also after a stop, and tasks may panic. `StopLeavesNothing` follows from `TasksAreOwned` once `stop` has
emptied both lists of handles; `ProbesAreHeard` needs `ArpSendsNothing`, as ARP's consumer ends
before its epoch does. There is one lemma per action. Assumptions: the `ASSUME`s of the module.

**SweepsProofs** proves, for any number of scans, rounds, addresses and hosts, that `Sweeps` implements the
safety of `SweepTasks` under the mapping `Status` (`SweepsRefineTasks`), and from it that two sweeps of one
engine never overlap but for the unit a cancelled one is in (`SweepsNeverOverlap`). The tokens
alone do not give "one more unit at most"; `LateInv` says where a sweep may be that has begun a unit late,
and from each of those places the way leads past the tokens.
Then it proves who is probed, for addresses of any width, any prefix lengths and any cap: `ProbesStayInSubnet`
and `SweepsCoverSubnets`. `PlanIsFirstHosts` is the arithmetic: of a private address, `subnet_hosts` modulo
2^`Bits` gives the lowest `Cap` addresses strictly within its block, and `FullMaskHasNoHosts` says
that of an address that has gone it gives none. `ProbeInv` says what a sweep has probed and what it still
owes: every address is done, under way or to come.

**CaptureFileProofs** proves `TasksSurvive` and `ReadsBack` for any tasks, payloads and width of the length
fields. The invariant for the first: one writer (`OneWriter`), the record being written is the last and still
open (`LastIsOpen`), a poisoned mutex has an overflow behind it (`PoisonHasCause`), and between two appends the
count is the number of records said to be written (`Counted`). For the second, `FileInv` gives every append its
place: the file with what the writer has yet to write (`Coming`) is one block per append, one behind the other
(`Laid`), and a block is a whole record, a part of one, or a record whose length has wrapped. From
the first to the first damage, the reader stands at the beginning of a block after as many skips as
there were appends that left something (`ReaderReaches`, by induction over them).

**ArpCaptureProofs** proves, for any NICs, hosts, addresses and traffic, type correctness, `CapturedIsReported`
and `OneFrameAfterCancel`. The inductive invariant: a captured frame is our own, too short, reported, or on the
channel (`CapturedIsSomewhere`, which alone says nothing about the moment the consumer ends); threads
live only within the consumer's life (`ThreadsWithinConsumer`); a thread that passed on a frame after
the cancel stands before the check that ends it (`LateEndsNext`). `ThreadMoves` covers the
steps of a thread that carry no frame; `Capture` and `Consume` have lemmas of their own. The type says
what a queue may hold: requests from an address of ours to any but itself, or to the broadcast
address (`RequestsType`, which needs that a product of finite sets is finite). Nothing is assumed
of the subnets: they may hold other addresses of ours, and those are asked for.

**MdnsProofs** proves, for any interfaces, any engines wanted, any packets and any budget, all four invariants of
`mdns`.
- The decoder. `read_name` calls itself behind a label and at a pointer; what it looks at next lies further on
  or has less of the budget, so `MeasuredRecursion` applies and `ReadName` holds at every place
  (`ReadNameEnds`). By induction over the walk, a name whose root comes in time is read as spelt; and
  since a walk that repeats a cell meets pointers without end, the decoder fails on the others
  (`NamesAlwaysDecode`). `RecordSteps` is the same for the loop over the records, and an induction from the
  last record to the first gives `WrittenMessagesDecode`: a packet written by the rules decodes to what
  its sender put down.
- The broker. It has every handler once the engines have listened (`HandlersAlwaysComplete`: no two engines
  share a domain, and the walk through the registrations passes none over, `RegisteredInOrder`). A
  report is made by an engine whose domain an answer of the decoded packet names, with an address of
  that packet, written by the rules or not (`ReportsComeFromAnswers`); with the decoder, `ReportsAreFounded`. A packet
  that names domains of one engine triggers that one, wherever it names them (`NamedIsTriggered`), which makes a device of every family
  of addresses (`ConvertSpares`): `DevicesAreReported`.
- The order. `RecordOrderIrrelevant` follows a packet from the wire to the report. The decoder gives all its
  records in the order sent, as none is of an unknown type (`AllIsSeen`); the names, and so the engine it goes to,
  are the same in any order (`ReorderedNames`, `NamedIsTriggered`); a type of record that comes once stands at one
  place (`ReorderedPlaces`), so what the joins look at is the same (`ReorderedConvert`); and the reports made
  of the packet before all engines had registered are among those (`Converted`, `ReportedIsMade`). Where the order
  does matter it is excluded by name in `OrderIsOpen`: an unknown type ends the parse, several records of a type
  compete, and of two engines the first one named gets the packet.
Assumptions: the packets are typed (`MessagesAssumption`), the two address families and the
autoconfigured addresses are what their names say (`MdnsAddressAssumption`).

**Only model-checked.** Every liveness property, those of `SweepTasks` included, because fairness and `ENABLED`
are beyond the prover. The findings are counterexamples, which only TLC can show.

## Not modelled

- What a report says beyond address, MAC, version and protocol (models, serials): pure functions of one
  datagram. The DNS octets below the cells: lengths of labels and bounds of single octets.
- Formatting of rows, logging, configuration merge, OUI table, self-test: pure functions, straight-line
  I/O or wording. Options that change behaviour are constants of the modules.
- TVT provisioning: one socket, one datagram built from checked arguments, and a loop of three
  with no other actor. Its packet layout is tested against fixtures.
- Reading the interfaces from the kernel; the modules have the result, and let it change.
- The random generator of `free_port` is any choice among the ports; 64 failed draws may happen at
  any time.
- Receive errors (`recv_loop` goes on) are a turn of `Handled` that reports nothing.

## Plan

Done: `DeviceTable`, `RunLoop`, `ScannerLifecycle`, `Sockets`, `Registry`, `Discovery`, `ArpCapture`,
`DnsMessage`, `MdnsEngines`, `Mdns`, `SweepTasks`, `Sweeps` and `CaptureFile`, each with its runs and the proofs of
its safety properties. Next, in this order:

1. The consumer of `ArpCapture` as a refinement of the ARP task of `ScannerLifecycle`, through an abstract
   task like `SweepTasks`.
2. An abstract specification of discovery, a set of devices heard and a table that only improves, that the
   composition of `Discovery` and `RunLoop` implements.
3. The report channel between them: what it holds when `run_scan` ends is dropped.
