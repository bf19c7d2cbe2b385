# NetShield in TLA+

NetShield drops packets of unwelcome sources in the kernel. An XDP program
counts, samples and drops; a Go agent reads the samples, decides which sources
flood or scan, writes a blocklist into the kernel, and serves a dashboard.
This directory holds TLA+ modules of the parts in which state meets time,
goroutines, CPUs or failing calls, TLC configurations that check them on small
instances, and theorems that TLAPS checks for every instance: all the safety
properties that the passing runs check, the types of the state machines, and the
refinement of the blocker's abstract specification.

Paths are relative to the repository. A comment before each definition names
what it stands for; `PROJECT.json` maps every definition to its lines.

    tlc -workers 2 -config blocker.cfg MCEnforcement      # a run
    tlapm BlockerProofs.tla                               # the proofs of a module

## 1. The system

    packets -> XDP program --perf buffers--> collector --chan--> analyzer --chan--> decisions
                  ^   ^                                                               |
        blocklist |   | rate maps, stats                              (main program)  v
                  |                                                        blocker, notifier,
               BPF maps <---- Put / Delete ------- blocker <--- HTTP API    event log, hub
                                                                 |
                               dashboard <--- WebSocket hub, REST answers

The program that wires these parts together (`cmd/`) is not in the repository,
so nothing is said about its order of start and stop; what it does is left to
the environment of each module (`Consume`, `Feed`, `Cancel`).

| component | state it keeps | operations | interacts by | hard behaviours | what makes it correct |
|---|---|---|---|---|---|
| XDP program `bpf/xdp_drop.c` | blocklist maps (read), LRU rate maps, per-CPU counters | one run per packet | maps shared by all CPUs and the agent; perf buffers | unsynchronised read-modify-write, wrapping clock difference, LRU eviction, early returns | counters balance; 1 in N is emitted; what is over the coarse limit is streamed; exactly the blocklist is dropped |
| collector `internal/collector` | reader, drop counter | `New`, `Run`, `parseEvent` | perf buffers in, channel out | blocking read and send against cancellation; losses reported in a record of their own; nobody to read before `New` and after `Run` | every sample is accounted for once; per-CPU order; cancellation ends it |
| rate limiter `internal/analyzer/ratelimiter.go` | per address a ring of per-second buckets | `Record` | called by the analyzer | gaps shorter and longer than the window, late events | the answer is that of a sliding window |
| port-scan detector `internal/analyzer/portscan.go` | TTL map of per-address port tables | `Record`, `DistinctPorts` | called by the analyzer | entries expire by the clock, ports by the events' stamps | reports exactly the scans in the window |
| TTL map `internal/maputils` | entries with expiration | `Set`, `Get`, sweep | used by both of the above | the sweep runs beside the reader | an entry is there until its TTL and not after |
| analyzer `internal/analyzer/analyzer.go` | recently-decided TTL map | `Run`, `evaluate`, `emit` | channels in and out | full decision channel, mark set before the send | spaced decisions; never stalls |
| blocker `internal/blocker` | Go maps of blocks, two BPF maps | `Block`, `Unblock`, `IsBlocked`, `List`, count, `cleanupLoop`, `Close` | API, cleanup goroutine, kernel | lock released between scan and unblocks; kernel calls that fail; full map; byte order | table and kernel agree; blocks are kept until they lapse, then removed |
| loader `internal/loader` | link, objects, `config_map` | `New`, `Close` | kernel | partial failure at start; the program runs from the moment it is attached; 32-bit fields | nothing is left attached; no packet meets the program before its configuration |
| API server `internal/api` | event log, statistics | handlers, `AddEvent`, `UpdateStats` | blocker, hub | stamps taken outside the lock; a read lock held while an answer is written; paging over a log that moves; overflow | a walk misses nothing; a query is answered with its page; blocks get logged |
| middleware `internal/api/middleware.go` | none | `auth`, `logging`, `cors`, `recovery` | wraps every handler, the hub's too | what one wrapper hides from the handlers behind it; blank tokens | no answer without the token; an upgrade gets through (it does not, section 6) |
| configuration `pkg/model/config.go` | the file | `Validate` | read by loader, notifier, server | values that pass and cannot be run with | what passes can be run with |
| WebSocket hub `internal/api/ws.go` | client map, three channels | `Run`, `ServeHTTP`, `Broadcast` | handler, reader, writer, kicker goroutines | a client unregistered several times and in any order with its registration; full channels | no send on or close of a closed channel; no leak |
| notifier `internal/notifier` | pending batch | `New`, `Run`, `flush`, two `Send`s | decisions in, HTTP out | four ready cases at once, concurrent sends, posts repeated after a timeout, a dead context at the end | every decision once, batches in order, none lost by stopping |
| dashboard `web/src` | store, pagers, WebSocket | store actions, loads, hook | REST, WebSocket | overlapping loads, lost messages, late `onclose`, changes of token and filter | converges to the table; shows what is selected; one socket; never gives up |

Left aside: metrics, GeoIP, the statistics record, other pages, deployment
(section 7).

## 2. Modules

| module | models | EXTENDS |
|---|---|---|
| `Addresses` | addresses as strings of the agent, as map keys and as bytes of a packet | |
| `Blocklist` | what the blocker promises: one list, and a kernel that follows it or says so | |
| `Blocker` | `internal/blocker/blocker.go`; implements `Blocklist` (`INSTANCE ... WITH`) | `Addresses` |
| `Enforcement` | the blocker composed with the lookups of `xdp_drop.c` | `Blocker` |
| `XdpFilter` | `bpf/xdp_drop.c` | |
| `RateWindow`, `PortTable`, `TTLMap` | the detectors' data and what one `Record` does to it, as operators | |
| `Sources`, `Clock` | the addresses and the wall clock that detectors and analyzer share | |
| `RateLimiter` | the rate limiter alone, with the events it may be given | `RateWindow`, `Sources` |
| `PortScan` | the port-scan detector alone, likewise | `PortTable`, `TTLMap`, `Sources`, `Clock` |
| `Analyzer` | the goroutine with both detectors and both channels | the five helper modules above |
| `Config` | the configuration file and `Validate` | |
| `Loader` | `New` and `Close` of both builds | `Config` |
| `Collector` | `New`, the goroutine and the perf buffers | |
| `Capture` | collector and loader composed, in one process | `Collector`, an instance of `Loader` |
| `WSHub` | the hub and the goroutines of each connection | |
| `Middleware` | the chain of wrappers and the routes, as functions of a request | `Config` |
| `Server` | hub and middleware composed | `WSHub`, `Middleware` |
| `Notifier` | the goroutine, its concurrent sends and their retries | `Config` |
| `EventLog` | the log, its handlers, and the page that walks through it | |
| `Dashboard` | blocklist handlers, store and Blocklist page | |
| `WsClient` | `useWebSocket.ts` | |
| `Browser` | the store and the page on the hook's socket | `Dashboard`, an instance of `WsClient` |
| `MC...` | constants and symmetry for TLC | |
| `BlockerProofs` | theorems about the blocker, what it promises, and what is dropped | `Enforcement` |
| `XdpFilterProofs` | theorems about the XDP program | `XdpFilter` |
| `DetectorProofs` | theorems about both detectors and the analyzer | `RateLimiter`, `PortScan`, `Analyzer`, `SumTheorems` |
| `CaptureProofs` | theorems about loader and collector | `Capture`, `SumTheorems` |
| `ServerProofs` | theorems about the hub, the handlers in front of it, and the event log | `Server`, `EventLog`, `SumTheorems` |
| `NotifierProofs` | theorems about the notifier | `Notifier` |
| `BrowserProofs` | theorems about the hook, the store and the Blocklist page | `Browser`, `SumTheorems` |
| `SumTheorems` | lemmas about sums over finite sets | |

`RateLimiter`, `PortScan` and `Analyzer` name their variables and their
specifications apart (`RateSpec`, `ScanSpec`, `Spec`), so that one module can
extend the three; each is still a system of its own, with its own `Next`. So do
`EventLog` (`LogSpec`, `logVars`) and the hub.

**How state and steps correspond.** What the code does under one lock, or in one
goroutine without meeting another, is one action; where it lets go of a lock,
blocks, or touches memory another CPU may touch, the model has a program
counter:

- `Blocker`: `blocked` is the three Go maps, which are always written together;
  `bpf` the two BPF maps. `Block`, `Unblock` hold the mutex throughout and are
  one action each, with the kernel's failure as a second outcome that leaves the
  Go maps as written, as the code does. `cleanupLoop` is `CleanupTick` (the clock
  is read before the lock), `CleanupScan`, and one `CleanupUnblock` per address;
  an order of the slice is not fixed, for Go's map iteration fixes none.
- `XdpFilter`: each CPU has a program counter and the program's locals. A
  lookup, the load and the store of `pkt_count++`, and the write of the time are
  separate steps. The v4 and v6 paths are the same program on other maps.
- `Collector`, `Analyzer`, `Notifier`: one action per case of the `select`. A
  channel is a bounded sequence. A flush of the notifier starts one `Send` per
  destination; each post of it (`Post`) arrives or not and is answered or not,
  and the context may end it (`ContextEnds`).
- `Loader`: `Open`, `WriteConfig` and `Attach` are the three stretches of `New`
  between points at which an error leaves something to undo. `Die` is the end
  of the process at any point: nothing is pinned, so the kernel undoes the rest.
- `Capture`: `Packet` is a packet's run of the XDP program, possible only while
  it is attached; the collector's steps end with the process.
- `WSHub`: one action per channel operation of hub, handler, reader, writer and
  kicker. The payload of a message is left out; a message is the set of
  connections open when it was handed over. In `Server` a connection comes with a
  request, which `Chain` answers; only an answer of 101 opens it.
- `EventLog`, `Dashboard`, `WsClient`: a callback of JavaScript is one step; a
  request has the steps asked, answered (when the server reads its state) and
  applied. In `EventLog` the answer is two steps, as the handler holds the read
  lock until it is written (`Serve`, `Respond`); `Lock` and `AddEvent` are a
  writer that waits and one that has the lock. `handleEvents` is a function of
  the query with the arithmetic of a bounded `int`.
- `Browser`: a step of the page or the server (`Step`) leaves the hook alone, a
  step of the hook (`Socket`) takes the messages of a closed socket with it, and
  a new token (`TokenChanges`) restarts both effects.

Variables called *history* in the modules are not in the code: they record what
happened so that a property can speak of it, and no guard reads them.

Operators called `..._Bug` (and `FlushEnds_NoWait`) are plausible mistakes in the
operator they are named after. No specification uses them; put in its place,
each makes a property of a run fail, which shows that the property bites.

## 3. Runs

All of these finish; the times are for two workers.

| run | module | asks | states, time |
|---|---|---|---|
| `blocker` | `MCEnforcement` | Do table, kernel and dropped packets agree, whatever order API calls, cleanup and failing kernel calls come in? Do blocks last, and does the cleanup reach each lapsed one? Is all of it the abstract `Blocklist`? | 141 k, 90 s |
| `enforce_le` | `MCEnforcement` | Are blocked packets dropped on a little-endian host? (No, section 6.) | stops at once |
| `xdp` | `MCXdpFilter` | Do the counters balance, is 1 in N emitted, is every packet over the limit streamed unless CPUs met in the gate? | 1.8 M, 40 s |
| `rate` | `RateLimiter` | Is the bucket ring a sliding window for events in order, and without false alarms for events in any order? | 354 k, 45 s |
| `scan` | `MCPortScan` | Are only scans reported, and all of them for the time the entry is kept? | 294 k, 30 s |
| `analyzer` | `Analyzer` | At most one decision per address and TTL; never waits for its reader | 360 k, 25 s |
| `collect` | `MCCapture` | Does a start that fails leave anything attached? Does a packet meet an unconfigured program? Is every sample sent, counted as lost, refused, or written while nobody read? Do a CPU's events stay in order? Does cancellation end the goroutine? | 260 k, 20 s |
| `ws` | `MCServer` | Can the hub panic? Is every closed connection released, also after the hub has stopped? Is anything answered without the token? | 37 k, 50 s |
| `ws_chain` | `MCServer` | Is an upgrade possible through the server's own handler? (No, section 6.) | stops at once |
| `notify` | `MCNotifier` | Each decision to each destination, once, batches in order, none lost at the end | 51 k, 20 s |
| `events` | `MCEventLog` | Does paging through a moving log miss an event that stays in it? Is what is shown what is selected? Is every query answered with its page? Do slow readers keep blocks out? | 211 k, 50 s |
| `browser` | `Browser` | Do copy and counter converge; can an old answer undo the page's own change; one socket, and never none for ever | 288 k, 100 s |

What the properties say, hazard by hazard, is at the end of each module and in
`PROJECT.json`.

**Bounds, and why they are enough.**

- `blocker`: a map of one entry and two IPv4 addresses make the map full as soon
  as one is blocked; the IPv6 address belongs to a family whose map is not
  loaded. Two clock steps are one block, its lapse and a cleanup that can meet a
  block made after its clock reading (`Durations = {1}`, `CleanupPeriod = 2`).
  Every kernel call may fail. Two reasons tell an old entry from a new one.
  The host is big-endian, the case in which `BlockedIsDropped` holds. `Durations`
  0 (for ever) is in `enforce_le`.
- `xdp`: two CPUs on one source are all a race needs; the window spans two clock
  values, so an entry may be in it, out of it, or stamped in a packet's future;
  a limit of 1 and sampling of 1 in 2 leave packets on both sides of each.
- `rate`: six seconds for a window of three, so that gaps shorter than, equal to
  and longer than the window all occur; as late as an event can be at all.
- `scan`: window 2, TTL 2, delay 2 within five clock values: an entry expires
  while its ports are fresh, and ports age while the entry is kept.
- `analyzer`: one public and one private address, channels of one, so both full
  and empty occur. TTLs are shorter than the run, so marks expire and are set
  again.
- `collect`: two buffers of two records, so a loss report displaces a sample;
  five samples in all fill one buffer, overflow it and wake the reader once more.
  Fields of two bits; one file passes `Validate` and one does not. Both builds.
- `ws`: one connection that dials the hub itself and one behind the middleware,
  each with two kickers and a reader that compete to unregister it, on a
  register channel of one and an unregister channel of two, so that each blocks
  the other. Six requests: with the token in the header, in the URL, and without
  one; to the socket, an ordinary, an exempt and a wrong route. Three
  configurations, one of which `Validate` refuses.
- `notify`: none, one and two destinations, a URL that does not parse, windows
  that are positive, zero and unreadable; four decisions, room for two, two posts
  to a `Send`.
- `events`: pages of one, a log of two, three events of two reasons: the log
  turns over under the pager. Two loads overlap. Seven queries stand for every
  branch of the parsing, and ints of four bits bring the overflow within reach.
  One handler at a time: with two the log's order differs from that of the
  stamps, which is `events_order`.
- `browser`: two addresses, two loads in flight, three changes of table, page or
  token; three sockets, as closed ones are used again; one message in flight.

Clocks stop at a bound of the model and arrivals end at one; actions that do so
name it (`MaxTime`, `MaxEvents`, ...). The runs with `CHECK_DEADLOCK FALSE` are
those in which the program may come to rest: the goroutine has returned, or the
bounded environment has nothing more to send.

## 4. Fairness

| module | assumed | why |
|---|---|---|
| `Blocker` | ticker; the cleanup goroutine | Go's scheduler; a writer that waits for `sync.RWMutex` is not overtaken for ever |
| `Analyzer` | `Evaluate` only | nothing is asked of the reader of decisions, as the property is that it is not needed |
| `Capture` | each step of the goroutine while the process lives; good packets on an attached interface until the bound | `CancelIsSeen` needs a packet to wake `Read`: nobody closes the reader (section 6) |
| `WSHub`, `Server` | each hub case; strong for sends on shared channels | waiting senders are queued first in, first out, by the runtime; the 2 s statistics ticker keeps broadcasting |
| `Notifier` | strong for a case of the `select`; each send | Go picks uniformly among the ready cases; the HTTP client has a timeout |
| `EventLog` | `Lock`, `AddEvent`, `Respond` | goroutines run; the server's write timeout of 30 s ends every answer (`server.go:86`), and a waiting writer keeps new readers out |
| `Browser` | messages handled, interval and statistics ticker fire, some load answered, timer, end of a closing handshake | browser event loop; strong for the answer, since single loads may fail; nothing makes the agent accept a connection |

Nobody is ever assumed to connect, block, cancel, close or kill. `LapsedIsCleaned`
and `DisconnectedIsReleased` except the state after `Close` or the hub's return
explicitly; `StoppedIsReleased` says what holds then.

## 5. What is proved

Each theorem is about every behaviour of the named specification, for all values
of the constants that satisfy the `ASSUME`s of the module: any number of CPUs,
sources, addresses, connections, destinations, sockets and loads, any capacity,
window, limit and lifetime, and any bound of the model. Steps that stutter are
included, and fairness is not used.

| module, theorem | says |
|---|---|
| `BlockerProofs` | |
| `TypeCorrect`, `MapsAreBounded` | types; a map never outgrows `max_entries`, and stays empty without a kernel |
| `BlockingReachesTheKernel` | `ListedIsEnforced`: a listed address is in its map under its reason, unless its last `Block` returned an error |
| `NothingStaysDropped` | `EnforcedIsListed`: a map holds no forgotten address, unless an `Unblock` of it returned an error |
| `CleanupIsSound` | what the cleanup is about to unblock had lapsed at its scan, or is a later block |
| `ActiveBlocksAreKept` | no step changes an active block; only `Unblock` or a cleanup older than the block removes it |
| `KeepsItsPromise` | `Promise`: every behaviour of `Blocker` is one of `Blocklist` |
| `BlockerAgrees` | so `Blocklist`'s own `Agreement` of list and kernel holds of the code's model |
| `BlockingDropsPackets`, `OnlyBlockedIsDropped` | blocked packets are dropped and only those, on a host of network byte order and without v4-mapped sources |
| `XdpFilterProofs` | |
| `XdpTypes` | types; an entry that a lookup found stays until its CPU is done with it |
| `NoPacketIsLost` | `StatsBalance`: a packet counted is in hand or in exactly one other counter |
| `SamplingIsRegular` | `SampleGap`: of any `SampleEveryN` packets passed in a row on a CPU at least one is emitted |
| `UnracedLimitHolds` | `UnracedIsStreamed`: a packet over the coarse limit is emitted unless two CPUs met in the gate of its source |
| `DetectorProofs` | |
| `RateTypes`, `ScanTypes`, `AnalyzerTypes` | types: rings keep their length, tables outlive no TTL, channels keep to their capacities |
| `WindowIsExact` | `ExceededIsExact`: for an address whose events come in order the ring of buckets answers what a sliding window would |
| `AlarmsAreFloods` | `NoFalseAlarm`: late events never make it report an address that kept to the limit |
| `ReportsAreScans` | `NoFalseScan`: only an address that hit that many ports in the window is reported |
| `KeptScansAreReported` | `ScanIsSeenWhileKept`: and each one is, if its events come in order and its hits after its entry was made |
| `MarksAreExact` | `MarksFollowDecisions`: a mark stands for a decision at most `DecidedTTL` old, and each of those has one |
| `NoSecondDecision` | `DecisionsAreSpaced`: no address is decided on twice within `DecidedTTL` |
| `PrivateIsSpared` | private addresses are never decided on and take no room in the detectors |
| `CaptureProofs` | |
| `LoaderCleansUp` | `NothingIsLeftBehind` after a failed `New`, a successful `Close`, or the end of the process at any point |
| `ConfigComesFirst` | `PacketsMeetTheConfig`: no packet meets the program before the file's values are in `config_map` |
| `CollectorKeepsOrder` | `EventsKeepOrder`: the events of a CPU reach the analyzer in the order they were written, each once |
| `CollectorTypes` | types; perf buffers and channel keep to their sizes, and never more is counted as lost than was written |
| `NoSampleGoesMissing` | `SamplesAreAccountedFor`: written is in a buffer, in hand, sent, lost, refused, or unheard: the numbers add up |
| `ServerProofs` | |
| `HubTypes`, `LogTypes` | types; no channel holds more than its capacity, the log no more than its own |
| `HubNeverPanics`, `ServerNeverPanics` | `NoPanic` of the hub alone and behind the handlers: no send on a closed channel, no second close |
| `TokenIsAsked` | `StrangersAreRefused`: no answer without the token but on the exempt routes |
| `WalkIsComplete` | `WalkMissesNothing`: forward to the end, pages show every matching event that was in the log at the start and still is |
| `NoStalePage` | `ShownIsAsked`: what is on display answers the filter and page selected, unless the page says it loads or has failed |
| `AnswersArePages` | `AnswerIsThePage`: every query gets its page, newest first, unless its `since` is unreadable or its indices overflow |
| `NotifierProofs` | |
| `NotifierTypes` | types; what was received and what waits are the decisions in order, and what is pending is the end of what was received |
| `HandedInOrder` | `HandedOnceInOrder`: what a destination was handed is a prefix of what was received |
| `StoppingLosesNothing` | `ReturnLosesNothing`: when `Run` has returned all of it was handed over, and what was pending at the cancellation was posted |
| `HooksSeeOrder` | `BatchesArriveInOrder`: no web hook gets an older batch after a newer one |
| `BrowserProofs` | |
| `BrowserTypes` | types; the copy never has an address twice, and the counter is undefined or at most the number of addresses |
| `BrowserRunsTheHook` | `Browser` implements `WsClient`: each step is one of the hook or leaves it alone |
| `OneSocketAtATime` | `OneSocket`: one live socket at most, none while a retry waits |
| `NoAnswerFromBefore` | `ReloadShowsOwnChange`: an answer from before the page's own change never replaces the copy |

**Assumptions.** They are the `ASSUME`s of the modules and ask for no more than
the types: numbers are numbers, channels that the code makes with a capacity have
one, CPUs and ports are finite, a private address is an address, a v4 address is
four bytes. `EventLog` asks besides that the log's capacity and a page, and the
default limit, are below the largest `int` (the code has 10000, 50 and 64 bits), and
that `limit` and `offset` of a query, once parsed, are `int`s; whether their sum is
one is left open. TLC evaluates each of them in a run. Two theorems have hypotheses
besides: `BlockingDropsPackets` and `OnlyBlockedIsDropped` need `~LittleEndian`
and `MappedV4 = {}`, and both are needed. TLC refutes the conclusion without the
first (`enforce_le`) and without the second (`enforce_mapped`, section 6).

**Arguments.** None of the properties is inductive alone. What each proof adds:

- *Blocker.* A `Put` for one address would disturb the entry of another that
  shared its key, and the range of what a map holds must be known. `IInv` conjoins
  the three mirror properties with `TypeOK`, `CollectedHadLapsed` and
  `ExpiredOnlyWhileUnblocking` (the cleanup's slice is empty at any other program
  counter, without which `CollectedHadLapsed` is lost when the clock is read
  anew). `MapKeyInjective` says that within a family no two addresses share a key,
  in either byte order. One lemma per kind of kernel call gives the effect on each
  conjunct. For the refinement, `BlockKernel` and `RemoveKernel` say what the BPF
  maps show of each family after a call that succeeds or fails, and each action
  then is an action of `Blocklist` or leaves its variables as they are;
  `FailuresAreOfMaps` (only a mirrored address can have a failed call) is what the
  mapping needs besides types.
- *XDP program.* `EntryInHand` makes the read after a lookup meaningful on every
  CPU. `GapIsSilent` says that the packets since the last emission were no
  multiples of `SampleEveryN`, and `SomeMultiple` that of N numbers in a row one is.
  For the gate, `Unraced` relates the shared entry to `ideal`, what atomic counting
  would have made of it: nobody in the gate and the two are equal, or exactly one
  CPU is and the rest of its steps makes them so (`Underway`, by program counter).
- *Rate limiter.* `BucketsCount`: a bucket holds at most what was stamped in the
  seconds that fall into it (`Of`), and exactly that while events come in order.
  `Clearing` is the heart of it: the buckets that the loop clears are those whose
  seconds leave the window, for gaps shorter and longer than the ring, by
  arithmetic modulo the window (`Apart`, `Around`: two seconds that share a bucket
  are a window apart, and a second and the one a window later share one). The
  sum over the buckets is then the sum over the window's seconds (`TotalCounts`).
- *Port scan.* `TablesAreHits`: what a table holds was hit, at that stamp.
  `PresentIsKept` and `TablesAreFull`: while an address's events come in order,
  every hit since its entry was made and still in the window is in its table.
- *Analyzer.* `MarksExpire` and `UnmarkedIsOld`: a mark expires `DecidedTTL` after
  the decision, and an address without one was decided on longer ago, so that
  expiry by `Get` and removal by the sweep cannot differ.
- *Loader and collector.* `Holdings` and `Configured` say what the process holds
  at each point of `New` and `Close`. `OrderInv` orders what was sent, the record
  in hand (`HandIsBetween`) and the records in the buffer by number. `AccountInv` is
  the balance summed over the CPUs; a step changes one summand.
- *Hub.* `OnceRegistered`: a connection is in the register channel at most once and
  not any more when it is in the map or closed; so the hub never closes, nor sends
  to, a channel that is closed, however often kickers unregister the connection.
  In front of it `Admitted` says which answers mean that `auth` let the request in.
- *Event log.* `Filtered` is the handler's loop, as a function of how far it has
  come. `LoopFinds` is its induction, over a set of lengths for which it does what
  it should; `FilteredIs` then gives what the loop selects: the indices of the
  matching events, newest first, each once (`NewerOrder`, `NewerOnce`). `CutOut` and
  `PageIsCutOut` give the slice of it, with `PowersOfTwo` and `SumOfInts` for an `int`
  that wraps. For the walk, an event's depth is the number of newer matching ones.
  A new event makes it larger and the loss of old ones leaves it as it is
  (`DepthGrows`, `LogShifts`), so an event that a page did not show can only be
  further on. `WalkInv` says that of what has not been shown yet, for the page on
  display (`WalkIsAhead`) and for each answer under way (`RepliesAreAhead`), next to
  what it rests on: an active load is for the page selected (`LoadsOfThePage`), the
  page moves on by one page at most (`StepByStep`), no event is logged twice
  (`LoggedOnce`) or comes back once it has left the log (`NoneReturns`).
- *Notifier.* Decisions are numbered, and a stretch of them is a sequence that
  counts on from a number (`Counts`). `HandedSoFar`, `PostedSoFar` and
  `ArrivedSoFar` say how far each destination has come relative to the batch that
  is pending; `SendsAreOfTheBatch`, that no `Send` of an older one is still running.
  For the types, `Bounds` adds that each `Send` has a batch of decisions there
  have been.
- *Browser.* The store's counter is a sum of zeros and ones (`SumOfBits`), or what a
  message says, which is the size of a table (`TableSize`). The only live socket, and
  the only closures that would retry, are those of the socket in `wsRef`
  (`HookInv`); an answer that will be applied is not older than the effect that
  asked for it (`LoadsAreFresh`).
- *Sums.* `SumFunctionOnSet` picks the members of a set in an arbitrary order.
  `SumTheorems` shows that the order does not matter and what a sum becomes when a
  member is taken out or a number changes. The induction theorems of the library
  are about predicates, which the provers cannot instantiate; these are about
  subsets of a set of sets (`SetInduction`, `SubsetInduction`).

**Only model-checked.** All liveness (`LapsedIsCleaned`, `AnalysisNeverStalls`,
`CancelIsSeen`, `DisconnectedIsReleased`, `StoppedIsReleased`, `DecisionsAreHanded`,
`BlocksAreLogged`, `KeepsTrying`, `CopyConverges`, `CounterConverges`), for which
TLAPS would have to reason about `ENABLED`. And that what the agent promises does
not hold where section 6 says so: a counterexample is an instance.

## 6. Where code and documents disagree

Each row is a property that the repository's documents, comments or tests state
and that TLC refutes. `enforce_le` and `ws_chain` are runs of the project.
`enforce_mapped`, `collect_wrap` and `events_order` need constants of their own
and are configurations beside them, to be run in the same way. For the others,
put the property, an `INVARIANT` or, if it is a temporal formula, a `PROPERTY`,
in the place of those in the named run's configuration.

| configuration, property | the code | the text |
|---|---|---|
| `enforce_le`, `BlockedIsDropped` | `blocker.go:232` builds the key with `BigEndian.Uint32` and the map library writes it in host order: on x86 and ARM the bytes are reversed | `bpf/maps.h:11` and `loader/xdp_test.go:182-183`, which use the packet's own byte order |
| `ws_chain`, `SocketsAreUpgraded` | `middleware.go:42-55`: the writer that `logging` hands on has neither `Hijack` nor `Unwrap`, so `Upgrade` (`ws.go:90`) behind `server.go:77-80` answers 500; the tests dial the hub's `ServeHTTP` without the chain | `technical.md:1984` "WebSocket upgrade endpoint."; `README.md:62` "connects over WebSocket automatically" |
| `enforce_mapped`, `BlockedIsDropped` | `blocker.go:79` files a v4-mapped IPv6 source under the IPv4 map, where its frames are not looked up | `xdp_test.go:182-183`, as above |
| `notify`, `ValidConfigRuns` | `config.go:96` accepts `0s`; `time.NewTicker` panics on it (`notifier.go:59`) | `config.go:96-98`, the check that is there for the window |
| `notify`, `ReturnHasPostedAll` | `notifier.go:73-76`: when the channel is closed at the cancellation, that case may be taken, with the dead context | `technical.md:60` "graceful shutdown" |
| `collect`, `CancelledReturns` | `collector.go:64-75`: the reader is closed when `Run` returns, and `Run` waits in `Read` | `technical.md:60` "graceful shutdown" |
| `collect_wrap`, `LimitIsTheFiles` | `loader_linux.go:50` cuts an `int` to 32 bits that `config.go:90` let pass | `config.example.yaml:25-26` "Packets exceeding this rate ... are always streamed" |
| `events`, `ReadableIsAnswered` | `handlers.go:171`: `start + limit` overflows, the slice expression panics, the answer is 500 | `technical.md:1953` "Returns recent block events (paginated)" |
| `blocker`, `CleanupRemovesOnlyExpired` | `blocker.go:222` unblocks after releasing the lock: an address unblocked and blocked anew meanwhile loses its new block | `blocker_test.go:122,145`: "expected cleanupLoop to remove expired block entry" |
| `blocker`, `ActiveIsInKernel` | `blocker.go:85` counts an address whose `Put` failed | `Dashboard.tsx:36` "Currently in kernel map"; `exporter.go:18-19` "Current number of IPs in the kernel blocklist." |
| `xdp`, `OverLimitIsStreamed` | `xdp_drop.c:76` increments a shared counter without atomicity | `config.example.yaml:25-26` "always streamed to userspace for analysis" |
| `rate`, `NoMissedFlood` | `ratelimiter.go:42`: a late event moves `lastSlot` back and the next one clears newer buckets | `technical.md:1742` "Sliding window size in seconds for PPS calculation." |
| `scan`, `ScanIsSeen` | `portscan.go:47`: `Get` does not renew the entry, which expires in the middle of a scan | `technical.md:1746` "within `window` to trigger detection" |
| `analyzer`, `SuppressesOnlyDuplicates` | `analyzer.go:68` marks before `emit`, which may drop the decision | `analyzer.go:61` "prevent duplicate emissions" |
| `ws`, `ConnectedGetBroadcasts` | `ws.go:90-100`: the peer is answered before the hub knows it | `ws_test.go:33-65` dials two, broadcasts at once, expects both to read |
| `events_order`, `NewestFirst` | `handlers.go:65-72` stamps before `AddEvent` takes the lock | `handlers.go:155` "Newest first" |
| `browser`, `CountFollowsTheTable` | `store/index.ts:114` counts the local copy | `Dashboard.tsx:34-36` "Currently in kernel map" |
| `browser`, `CounterIsANumber` | `pkg/model/event.go:67` omits a zero `active_blocks` | `store/index.ts:16` `active_blocks: number` |
| `browser`, `OfflineIsTrue` | `useWebSocket.ts:49`: the `onclose` of a replaced socket clears the flag of the new one | `App.tsx:107` "Connected to Agent" / "Agent Offline" |

Seen while reading and not modelled: `events.h:16` gives fragments port 0 and
`events.h:21` a flag for the coarse rate, and the program does neither;
`technical.md:1751-1753` says that a coarse limit of 0 emits every packet, where the
program then samples; `config.example.yaml:35-40` shows a list `webhooks:`, which
`NotifierConfig` does not read (its keys are `slack` and `discord`); events are
stamped with the time since boot, which `collector.go:153` takes for a date; at
shutdown the GeoIP database is closed before the server (`server.go:93-98`). After
the hub has stopped, handlers, readers and kickers may wait for ever on a full
channel, which `StoppedIsReleased` excepts.

For each of these the passing runs state what does hold: `UnracedIsStreamed`,
`ExceededIsExact` for addresses without late events, `ScanIsSeenWhileKept`,
`ActiveBlockIsKept`, `CopyConverges`, `CounterConverges`, `CancelIsSeen`,
`ReturnLosesNothing`, `PacketsMeetTheConfig`, `AnswerIsThePage`.

## 7. What is not modelled

- *XDP header parsing and the event's fields; `parseEvent`'s layout; v6
  fragments*: data that no property here tells apart. `config_map` is written
  once by the loader (`Loader`), so its values are constants of `XdpFilter`; the
  kill switch passes packets before they are counted.
- *Statistics, health, metrics, GeoIP*: records copied under a lock,
  declarations, lookups in a file. Of the statistics, `Dashboard` has the number
  of blocks.
- *Slack and Discord payloads*: only what is posted when is modelled, not its
  wording.
- *The store's list of events*: `addBlockEvent` puts each new event in front of
  whatever page and filter the Events page shows until its next load; the model
  has the page's own answers only.
- *Other web pages, deployment*: rendering, and configuration of other programs.
- *Sizes*: capacities and periods are constants of the modules.
- *Analyzer and collector together*: each has the other as its environment.
  The events of `RateLimiter` and `PortScan` come in any order that the
  collector's interleaving of buffers allows.

## 8. Plan

Done: the modules of section 2. The core came first: blocker and enforcement
(the product's promise), XDP program, detectors and analyzer, collector, hub,
notifier, event log, dashboard. Then the abstract `Blocklist` that `Blocker`
implements, the loader and its composition with the collector, the middleware in
front of the hub, configuration, sends that are repeated, the arithmetic and the
locks of `handleEvents`, and the browser as a whole.

Left to extend: `Pipeline`, collector and analyzer composed, with backpressure
from the channel to the perf buffers, and a late event as the collector really
makes one; the store's list of events beside the pager.

Proved: every invariant and every action property of the passing runs, and the
types of the state machines (`TypeOK`, which is stated for the proofs; no run lists
it). What is left to prove is liveness, out of reach as section 5 says. `Server` is no
refinement of `WSHub` as it stands: a refused upgrade is a step of the one only.
