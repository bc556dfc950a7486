# TLA+ models of dummy-benchmark

The repository is a small low-latency trading pipeline used to compare hosts.
A mock exchange sends market ticks over UDP; the feedhandler receives them with
io_uring and publishes them on a shared-memory ring; the trading engine consumes
them, runs a strategy per symbol and publishes orders on a second ring, which
the feedhandler drains. Shell scripts prepare the host and run the benchmark.

This directory models the parts where processes, threads, the kernel and kills
interleave, and the pipeline they form; checks them with TLC on small instances,
and proves their safety properties with TLAPS for instances of every size.

## Inventory

| component | state | operations | interacts with |
|---|---|---|---|
| SPSC ring (`ring.rs`) | `head`, `tail`, a `seq` word and a payload per slot, in shared memory; `next_seq` in each handle | `try_publish`, `try_consume`, `pending`, `init_in_place`, `new` | one producer and one consumer process |
| bus (`shm.rs`) | the file: length, `magic`, `version`, `ready`, two rings | `open_or_create`, four handle constructors | feedhandler, engine |
| trading engine | counters, per-worker tick channels, one orders channel, per-symbol EMA and `last_order_ns`, `next_order_id`, `stop` | `run_inline`, `run_with_workers`, `worker_main`, `strategy_step` | both rings; ctrl-c; deadline |
| feedhandler | 32 receive buffers, submission and completion queues, counters | the loop of `main`, `submit_recv`, `parse_tick` | kernel, both rings; ctrl-c; deadline |
| latency histogram | buckets, min, max, sum, count | `record`, `reset`, `quantile`, `summary` | engine, feedhandler |
| mock exchange | schedule, sequence number, prices | pacing loop | UDP; ctrl-c; deadline; `--count` |
| cpu lists, noise, resctrl | thread affinity, resctrl group of each thread | `parse_cpu_list`, `format_cpu_list`, `spawn_noise`, `join_group` | kernel |
| `host-prep.sh` | kernel settings, one snapshot file per setting | `--apply`, `--revert` | kernel |
| `cache-alloc.sh` | resctrl groups and masks | `--setup`, `--clean` | kernel |
| `run-bench.sh`, `run-demo.sh` | what was prepared, the child processes, bus files, report files | set-up, scenarios, trap, tear-down, comparison | all of the above |
| reports (`report.rs`) | a JSON file per binary and scenario | `write_report`, `host_info` | engine, feedhandler, comparison |
| messages, topology | none | layouts, formatting, printing | |

What is hard here: two processes on one ring without locks; processes that are
killed at any instruction (ctrl-c is handled, SIGTERM, which the scripts send,
is not) and started again on the same file; a dispatcher and workers that wait
for one another; buffers shared with the kernel; scripts interrupted halfway;
files of an earlier run; a clock that is set back; a pacing loop that stalls.

What makes each part correct: a ring is a lossless bounded FIFO; a bus is
initialised once, by one process, and stays intact when a peer restarts; the
engine keeps its cooldown, its order ids and the order of each symbol, accounts
for what it drops and exits; the feedhandler publishes each datagram at most
once and in order, leaks no buffer, accounts for all and exits; a histogram
reports the quantiles of what was recorded; a revert restores the host; the
exchange keeps its rate after a stall and ends; a CPU list in a report is the one
the run was given; the two reports of a scenario agree with each other, and the
comparison shows reports of its own bench.

## Modules

`BoundedFifo` — the promise of one ring: `sent` and `got`, two actions.

`SpscRing` — `ring.rs`, one step per access to shared memory and per payload
word. `ppc`/`cpc` say where `try_publish`/`try_consume` is; `PublishRefused`,
`PublishBegin`, `PublishCopy`, `PublishSeq`, `PublishHead` are `try_publish`,
`ConsumeNone`, `ConsumeBegin`, `ConsumeCopy`, `ConsumeTail` are `try_consume`.
The stores that the other side reads are Release stores read by Acquire loads,
and they follow what they publish in program order, so interleaving in program
order is adequate. `ProducerKilled`, `ConsumerKilled` and the two `Attach`
actions are a restart. `PublishKilledBetweenStores` is the one kill that the
code does not survive; only `KillSpec` includes it. Cursors are 64 bits wide:
`U64` is the number of their values, the full test wraps at it, and the only
bound is that fewer than `U64` messages are published.

`ShmBus` — `open_or_create`, one step per system call or store that the other
process can observe, from six kinds of leftover file. The zeroing of the layout
fixes no order. A ring is reduced to its cursors and the sequence numbers found
in its slots, so that a wipe is visible. Two environments: `StaggeredSpec`
(the scripts: the second process starts after a sleep; every kill) and
`RacingSpec` (no stagger, no kill).

`Engine` — dispatcher, workers and environment. `dpc` and `wpc` are program
counters. `Loop`, `Break`, `NoTick`, `Dispatch*`, `DrainOne`, `DrainEnd`, `Join`
are `run_with_workers`; `Worker*` are `worker_main`; `NoOrder`/`EmitOrder` are
`strategy_step`; `InlineTick` is an iteration of `run_inline`
(`workers = 0`; `workers` is `--workers`, chosen in `Init`). Prices
are abstracted: a tick either deviates or not. `ClockAdvances` and
`ClockSetBack` move the wall clock that `now_ns` reads, and `WrappingSub` is the
unsigned difference of the cooldown test in a release build. `symbol_hash` is a constant
function. The orders ring is the bounded FIFO of `SpscRing`, counted. The three
outcomes of `try_send` and of `recv_timeout` are separate; `send` blocks. The
error return of `send` is unreachable, the receiver outlives the workers.

`Feedhandler` — the io_uring loop. `owner[b]` says who may touch buffer `b`.
The kernel fills an armed buffer with the next datagram, may fail a receive and
fires timers. `submit_and_wait` is split into the submission and the wait;
either may be interrupted. `Sync` is `cq.sync()`, which fixes the completions
this iteration sees (`synced`); `Collect` looks at one of them and keeps it in
`done` unless it is a timeout; `Process` and `Rearm` handle and re-arm one
(`item`). The `None` branch of `parse_tick` is unreachable (the
length was tested before) and is merged with the short datagram.

`Relay` — the promise of the feedhandler between socket and ring: datagrams are
handled one at a time in the order in which the kernel handed them over; a short
one is refused, any other published, or dropped if the ring is full just then.
`Feedhandler` implements it (`ImplementsRelay`): queues, batches, re-arming and
interrupted waits do not show.

`LatencyHistogram` — the histogram next to the multiset of its samples. The
quantile is checked against a definition by counting. Its integer ceiling is
exact: the relative error of the f64 constants 0.5, 0.9, 0.99, 0.999 is at most
2.5e-17, below half an ulp of the product, so that an integral product is
computed exactly and any other is at least 1/1000 from an integer.

`HostPrep` — `write_sysfs` for a list of knobs. A knob either reads as what was
written or as a menu with brackets. Runs can be killed between any two commands,
and between the creation of a snapshot file (`Snapshot`) and its line
(`WriteSnapshot`). Each run has options of its own, which leave knobs out
(`Skip`). `Refusals` says when the kernel may refuse a legal value.

`CacheAlloc` — the split of the cache ways, with masks as sets of ways.

`Bench` — `run-bench.sh`, with the set-up and clean-up of `cache-alloc.sh` and
the placement of the binaries' threads. `pc` is the script's command; `back` is
where it goes on after the handler of INT, TERM and EXIT (`Exit`, `RemoveGroup`,
`Revert`). Every command may fail: `ApplyFails` ends the script (`set -e`) with
some settings written, `SetupFails` goes on without groups, `CleanFails` and
`RevertFails` are what `|| true` swallows, and `failed` remembers which of the two
failed when it last ran. `CtrlC` also hits the foreground command, whose failure
ends the script, except in the set-up of the groups, which stands before an `||`;
`Sigterm` reaches the script alone, which tears the host down and goes on.
host-prep is one step here, as `HostPrep` is about it; it may take the SMT
siblings of the host offline, and `online` is what is left. The CPUs are chosen
from `listed`, what was online then, or from those /sys reports isolated, which
need not be online. `PlaceMain` is the pinning and joining in each `main`, where
a failure ends the process (`MainFails`); `PlaceSpawned` that in `noise_worker`
and `worker_main`, which log a failure (`logged`) and keep the CPU and group they
inherited. A pin to a CPU that is offline always fails. Binaries end or hang.

`Exchange` — the loop of the mock exchange's `main`: `Round` and `Break` are its
top, `Send` the body of the loop over the symbols with the early return for
`--count`, `Pace` the three-way decision on `next_due`, `Wake` the end of the
sleep. Time is a number that may advance between any two steps, which stands for
a stall, a slow send and a sleep that lasts too long alike.

`CpuList` — `parse_cpu_list` and `format_cpu_list`, one step per iteration of
their loops, from the text a caller gives to the text of the report and back. A
part of a text is the numbers `str::parse` finds in it. `cpus` is the vector the
caller keeps; a binary goes round it to pin its noise threads. The two kinds of
caller differ in what an error does: a binary ends, `read_cpu_info` takes no CPUs.

`Pipeline` — `run_scenario` with exchange, feedhandler and engine around a bus
file. Both rings are instances of `BoundedFifo`, which `SpscRing` implements; the
loops of the three programs, each with a module of its own, are reduced to a tick
or an order at a time. The engine is the one the script starts, with workers:
`TakeTick` dispatches a tick or drops it, `HandleTick` is a worker's, `PublishOrder`
the dispatcher's in its loop and in the final drain, `StopDispatch` and
`JoinWorkers` lie between these. `work` holds the ticks of all workers' channels and
hands, `emitted` the orders channel; a symbol belongs to one worker (`WorkerOf`).
Messages know the bench they are of, so that a message of
an earlier one is visible. `BeginReport`/`WriteReport` are the two halves of
`fs::write`; `Fail` is every exit through `?`; `EndScenario` is the kill after
the wait, which the module lets come at any time (`Bench` has its bound). Ctrl-c,
after which nothing is compared, is in `Engine`, `Feedhandler` and `Bench`.
`Compare` is the embedded Python: a missing report is `None`, one cut short raises.

`MC*` modules give the constants. A definition named `X_Variant` under a comment
"Not the code" is a faulty version of `X`; none is used by a specification. They
show that each property notices a plausible mistake.

## Runs

| run | shows | bounds |
|---|---|---|
| `ring` | bounded FIFO, cursors and slots in step with it, slot ownership, truthful answers under kills; every message is delivered | 2 slots, 2 words, 2 messages, 6 publications: the ring fills, empties and wraps three times |
| `ring_kill_full` | violated: a kill between the stores of `seq` and `head` | 2 slots, 4 publications |
| `bus` | one initialiser, intact handles, complete header; an opener returns unless an initialiser died before `ready` | 2 sequence numbers per ring, six leftovers, any number of kills |
| `bus_race` | violated: both processes initialise | missing file |
| `engine` | cooldown, unique ids, order per symbol, accounting of orders and ticks; exit unless the orders channel clogs | inline and 2 workers, 2 symbols, channels and ring of 1, 4 ticks, 2 clock values, set back any number of times: every channel fills, every kind of drop occurs, the orders channel clogs |
| `feed` | order, accounting, no leaked buffer, the relay of `Relay`; exit, on a quiet socket too | 2 buffers, 3 datagrams (one short), 1 error, 1 order, 2 timers, ring of 1 |
| `hist` | quantiles and summary | 101 samples of 2 latencies, one of them a bucket bound, the other past the last finite bound; 101 is the least count at which p99 and p99.9 have different ranks and both differ from p90 |
| `bench` | the script ends, restores the host as far as its own clean-up goes through, measures on the prepared host; hot and noise threads share no cache way and no CPU they should not, unless they logged a failure | three hosts (3 CPUs; 8 CPUs and a cache of two minimal masks; SMT siblings among the isolated CPUs, a shared list that wraps and a cache too narrow), 1 worker, 1 noise thread, a wait of 1, 1 signal, of either kind and at every command; the four invariants are proved for any number of signals, `BenchEnds` is checked for one |
| `hostprep` | a complete revert restores every setting but menus, those it leaves out and those whose snapshot was cut off | 3 knobs (one a menu, one with two targets), 2 options, 3 values, any number of runs and kills |
| `exchange` | the rate is never exceeded over a run, the burst after a stall is bounded, `--count` is exact; exit | 2 symbols, a period of 2, 50 ms as 3, rounds up to time 10: stalls within and beyond the tolerance, and the return to the schedule |
| `cpulist` | the report names the CPUs given, in the kernel's form, and an ascending list is the same when parsed again; refusals | every text of at most 3 parts over 4 CPUs: gaps of one and two, duplicates, overlaps, inverted, blank and unreadable parts |
| `pipeline` | nothing of an earlier bench is measured, reports reconcile, rows are of this bench | rings of 1, a socket of 2, 2 symbols with a worker each, channels of 1, 4 ticks, both scenarios, every combination of files left: rings and channels fill, ticks are dropped by the feedhandler and by the dispatcher and orders by the ring, and orders of different symbols overtake each other |

The runs of programs that end do not check for deadlock; that they end is what
`ExitsUnlessClogged`, `FeedhandlerExits`, `BenchEnds` and `ExchangeExits` check.
`pipeline` ends with the script, `cpulist` with the list. `ring` checks `TypeOK`
as part of `RingWellFormed`; that of another module gives the types of its
variables, for the reader and for the proofs, where it is a theorem, and the cfg
of its run leaves it out.

Fairness. `ring`: the consumer polls for as long as it lives, and is started
again. `bus`: a process in `open_or_create` keeps running. `engine`: each thread
is scheduled when it can move; a thread in `send` on a full channel, or in
`join`, cannot. `feed`: the process is scheduled, and timers expire; no datagram
and no signal is owed to it. `bench`: the script is scheduled, the binaries need
not be. `exchange`: the process is scheduled and `Instant` advances, without
which no sleep would end. Ctrl-c, the engine's and the
feedhandler's deadline, datagrams, the peers and the wall clock have no fairness.

## What the violated runs mean

Each one sets a sentence of the repository against the code (`findings` in
`PROJECT.json`). The ring does not survive a producer killed between its last two
stores (publishing `head` first, or re-deriving it from the slots on attach,
would close it; `KillSpec` violates `ProducerOwnsSlot` too, when the consumer has
not taken the message yet). `open_or_create` relies on the scripts' sleep.

What else came up. The first three are the exceptions that properties name:

* `ExitsUnlessClogged`: the dispatcher joins its workers without draining the
  bounded orders channel on which they block in `send`
  (`trading-engine/src/main.rs:416`). Once the ticks still queued yield more
  orders than the channel holds, nothing ever ends. Draining while joining would
  close it.
* `OpenReturnsUnlessAbandoned`: `magic` is stored before `ready`
  (`shm.rs:73-74`); after a kill in between every later opener spins for ever.
* `RevertRestores`: the snapshot of `transparent_hugepage/enabled` and `defrag`
  is the whole menu, `always [madvise] never`; writing it back fails, which
  `host-prep.sh:104` ignores. The bracketed value should be snapshotted.
* `RowsAreOfThisBench` is about scenarios in which both binaries wrote their
  report. If one did not, the comparison shows the report an earlier bench left
  next to the new one, without a word (`run-bench.sh:329`), or ends with an
  uncaught exception on a file cut short.
* `CooldownKept` allows for a clock set back behind the last order: the unsigned
  difference of `trading-engine/src/main.rs:546` then wraps and the order is sent
  (a debug build would panic).
* With `Refusals = {"first", "again"}` `HostPrep` violates `RevertRestores`: a
  write refused on a second `--apply` removes the snapshot the first one made
  (`host-prep.sh:94`).
* `--rate 0` makes the period of the exchange infinite, and
  `Duration::from_secs_f64` panics (`mock-exchange/src/main.rs:133`). `Exchange`
  assumes a period.
* `topology.sh:87` says "Pick the two largest L3 groups"; the code below it takes
  the first two in order.
* `latency.rs:3-4` gives 100 ms as the end of the buckets, which go on to 1 s.
* `HostRestored` excepts a `host-prep.sh --apply` that fails or meets ctrl-c
  halfway: `PROD_PREPPED` is not set yet, so that nothing is reverted although
  settings were written. It also excepts what the handler's own commands leave:
  `|| true` swallows the failure of `cache-alloc.sh --clean`, which stops at the
  first group it cannot remove, and of `host-prep.sh --revert`
  (`run-bench.sh:68-69`). "Reverted" there means what `RevertRestores` says, menus
  apart: after every run with `PROD=1` the menu settings keep the tuned value.
* `MeasuredAsPrepared` excepts SIGTERM, after which the script goes on without the
  tuning.
* `HotThreadsApart` excepts workers that could not be pinned: they stay on the
  engine's CPU and only log it (`trading-engine/src/main.rs:462-465`). With
  `PROD=1` that happens without any error of the operator: host-prep turns SMT
  off, but `/sys/devices/system/cpu/isolated` still lists the siblings, and
  `run-bench.sh:100-103` takes its CPUs from it. The same list makes `main` of a
  binary fail that is told an offline CPU, which leaves its scenario without a
  report.
* `NoiseConfined` excepts a noise thread that could not join its group: it stays in
  the hot one and only logs it (`noise.rs:58-60`).
* `RevertRestores` excepts a setting whose snapshot file was created but not yet
  written when the run was killed (`host-prep.sh:88`): the empty file counts as a
  snapshot afterwards, and --revert writes it back in vain.
* `ReportNamesTheCpus` keeps the order only of a list that ascends without
  duplicates. `format_cpu_list` sorts and dedups what it reports
  (`cpu.rs:69-71`), but noise threads are pinned round-robin over the list as it was
  given (`noise.rs:39-43`): of `--noise-cpus 0,0,1` the report says `0-1`, and four
  noise threads, on 0, 0, 1, 0 in the run, are on 0, 1, 0, 1 when it is repeated from
  the report. `report.rs:56-57`, above `RunConfig`, speaks of "scenarios ...
  reproducible from the JSON alone"; no binary uses `RunConfig`, the report's
  `noise_cpus` come from the same function.
* `EndToEnd` orders the orders of one symbol only. With workers, orders of different
  symbols reach the feedhandler in the order in which their workers finish.
* On a host with fewer than four CPUs and none isolated, `run-bench.sh:110`
  warns of noisy results, and line 146 then always ends the script.
* `noise.rs:3` says the scheduler is free to place noise threads without a CPU
  list; they inherit the pinning of the main thread that spawned them.

## Proofs

Each `XProofs` extends `X` and proves its theorems for every value of the
constants that the assumptions of `X` allow. These are what the code implies: a
capacity, a period, a set of buffers is not empty; a counter that must not wrap
(`U64`, `IdSpace`) is larger than the bound on what it counts; a host has finitely
many CPUs, online or reported isolated; bucket bounds ascend. `BenchProofs` extends
`Bench` and `HostPrep`, `ReportProofs` extends `CpuList` and `LatencyHistogram`;
the specifications of the second of each pair are therefore called `PrepSpec`
and `HistSpec`. Bounds such as `MaxTicks`, `MaxDatagrams` or
`MaxSignals` are any natural number in a proof.

| module | theorems, with the property each states |
|---|---|
| `SpscRingProofs` | `TypeCorrect`, `RingInvariant`, `RingStaysWellFormed` (`RingWellFormed`), `SlotOwnership` (`ProducerOwnsSlot`), `PendingCount` (`PendingIsClose`), `RefusalMeansFull` (`RefusedOnlyWhenFull`), `NoneMeansEmpty` (`NoneOnlyWhenEmpty`), `RingImplementsFifo` (`RefinesFifo`) |
| `ShmBusProofs` | of `StaggeredSpec`: `TypeCorrect`, `HeaderInvariant`, `OneInitialises` (`InitialisedByOne`), `OpenIsReady` (`OpenBusIsReady`), `HandlesAreKept` (`HandlesAgree`) |
| `EngineProofs` | `TypeCorrect`, `ThreadInvariant`, `FlowInvariant`, `SymbolsKeepOrder` (`OrdersInTickOrder`), `IdsAreUnique` (`OrderIdsUnique`), `CooldownHolds` (`CooldownKept`), `NoOrderIsLost` (`OrdersAccounted`), `NoTickIsLost` (`DeadlineLosesNoTick`) |
| `FeedhandlerProofs` | `TypeCorrect`, `BufferInvariant`, `NoBufferIsLeaked` (`EveryBufferArmed`), `ArrivalOrderKept` (`PublishedInOrder`), `NoDatagramIsLost` (`DatagramsAccounted`), `FeedhandlerIsRelay` (`ImplementsRelay`) |
| `ExchangeProofs` | `TypeCorrect`, `PacingInvariant`, `RateIsUpperBound` (`NeverAhead`), `BurstsAreBounded` (`BurstBounded`), `CountIsKept` (`CountIsExact`) |
| `PipelineProofs` | `TypeCorrect`, `StartsClean` (`NothingStale`), `CountersReconcile` (`ReportsReconcile`), `RowsAreShown` (`RowsAreOfThisBench`), `RingsAreFifos`, `StreamKeepsOrder` |
| `BenchProofs` | `SplitIsSound`, `BenchInvariant`, `TypeCorrect`, `HostIsRestored` (`HostRestored`), `PreparedIsMeasured` (`MeasuredAsPrepared`), `NoiseIsConfined` (`NoiseConfined`), `HotPathIsSpread` (`HotThreadsApart`); of `PrepSpec`: `PrepTypeCorrect` and, assuming `OnlyFirstRefused`, `PrepInvariant`, `SnapshotsAreKept` (`SnapshotIsOriginal`), `RevertIsExact` (`RevertRestores`) |
| `ReportProofs` | `ListInvariant`, `WrongIsRefused` (`RefusedIfWrong`), `ReportsNameTheCpus` (`ReportNamesTheCpus`); of `HistSpec`: `HistInvariant`, `QuantilesAreExact` (`QuantilesAreRanks`), `SummariesAreConsistent` (`SummaryConsistent`) |

Every safety invariant, action property and refinement of a passing run is stated
by one of these theorems.

Few of these properties are inductive as they stand. TLC checked every
strengthening below on the instance of its module's run before it was proved.

**Ring.** That the buffer handed out is the oldest unread message rests on where
that message is. `RingInv` adds it in four parts: the cursors count the history
(except between the producer's stores), every unread message is whole in the slot
its number selects, a producer in mid-copy has `head < tail + Capacity`, a
consumer in mid-copy has copied words of `sent[tail + 1]`. The one fact of
arithmetic is `SlotsDistinct`: numbers less than a capacity apart select different
slots. `PublishSeq` is the abstract publish, `ConsumeTail` the abstract consume,
every other step a stutter.

**Bus.** `HeaderInv`: one process at a time is inside `open_or_create` (the
scripts' stagger), what it has made sure of at the point it reached is so, and
beside a process that has the bus open an opener can only attach. That is why a
restart never wipes a live ring; `CursorInv` then has the sequence words of a ring
between its cursors and each handle at its cursor.

**Engine.** `ThreadInv` says who may hold an order and when threads have ended,
`KeptInv` that until ctrl-c no worker ends with ticks in its channel. `TickInv`,
`OrderInv` and `FlowInv` follow a symbol along its one path, channel, strategy,
hand, orders channel, ring: what is further along is of an earlier tick. Ids:
`IdRoom` bounds a thread's `next_order_id` by the ticks seen, less than `IdSpace`,
so the ranges of two threads stay apart. Cooldown: `LastInv` ties `last_order_ns`
to the symbol's latest order. Accounting: `CountInv` counts orders over ring,
drops, channel and hands; `HeldInv` ticks over channels, strategies, drops and
losses, each being a different one because its place in the stream is new.

**Feedhandler.** `OwnerInv` says whose a buffer is by the queue its completion is
in; `QueueInv` that pending receives are of different buffers and in the order of
their datagrams, within and across the completion queue, `synced` and `done`;
`LoopInv` where the loop can be when these are not empty. A publish is then of the
earliest pending datagram (`PublishInv`), and a loop that is about to wait holds
no buffer. For the refinement `RelayInv` adds that the datagrams of the pending
completions are exactly those after the ones reported, up to the last one taken.
The head of `done` is the least of them, so `Process` of a datagram is the relay's
next step; `Process` of a failed receive and every step of queues, loop and
buffers is a stutter.

**Exchange.** `PaceInv` bounds `next_due` from below by the rounds begun (no round
is early) and ties each past round to the schedule within `Slack`, whether the
loop slept, hurried or resynchronised.

**Pipeline.** `WipedFirst`: nothing runs while a left bus file may be there.
`FreshInv`: every message under way is of this bench, in the channels of the workers
too. `CountInv` adds to `ReportsReconcile` what the engine holds: ticks dropped,
ticks with the workers, orders under way, published and dropped are together no
more than the ticks consumed, and fewer once a worker handled one, as a symbol's
first tick causes no order (`OrdersInv`). `ReportInv`: a
process that is gone without a failure left its report, and nobody writes it
again before the comparison. `RingsAreFifos`: whatever fails or is killed, each
step is in each ring a step of `BoundedFifo` or a stutter, except that the script
begins both anew between scenarios; `OpenBus` would not be one if a left file could
be opened, which `WipedFirst` excludes. `StreamKeepsOrder` states `EndToEnd`, the
order of ticks and, for each symbol, of orders from the exchange to the feedhandler,
for any number of workers; its `StreamInv` orders socket, ring and what the engine
got by `seq_num` (`TickInv`), and of each worker the channels, the ring of orders and
what was got of it (`OrderInv`): what is further along is of an earlier tick, and
everything is of a tick that the engine took.

**Host preparation.** `PrepInv` adds to `SnapshotIsOriginal` what the call of
`write_sysfs` under way and the part of a revert behind it have done, whatever
was killed before and left out, and that the one undamaged snapshot which may be
empty is the one being written (`NoHalfSnapshot`). The hypothesis `OnlyFirstRefused` is that the kernel refuses
at most the first write of a legal value; without it both properties are false
(see above), and `hostprep` checks them on the same terms.

**CPU lists.** `ListInv` follows a text through the loops: `out` holds the CPUs
that the parts before `k` name (`Parsing`); the vector `sorted` ascends and holds
what was meant (`Sorted`); between `i` and `j` it is consecutive, and the parts
written name what is before `i` and end two or more below it (`Run`), so that
`written` is canonical; parsed again it appends each CPU behind smaller ones
(`Again`). Two ascending vectors of the same elements are equal
(`AscendingIsUnique`), which is the last step.

**Histogram.** `HistInv`: each counter is the size of a set of samples, a bucket
of those that fall into it (`Counted`), the extremes are samples, and the sum is
between `count` times each (`Extremes`). The running total `cum` is recursive over
the buckets; that it is the number of samples up to a bound (`CumIs`) is proved
with `SetInduction`, induction for the set of numbers for which it is right, which
comes from every set of naturals having a least element (`LeastElement`). The
reference counts samples as a set of pairs (latency, which one of it), so that
facts on finite sets apply.

**Bench.** `ControlInv` has every way through the script and its handlers
(`PROD_PREPPED` is set when the host may have been prepared, and the place a
handler returns to is `exit` or `ended` until a SIGTERM came); `TuningInv`,
`RestoreInv` and `GroupInv` give settings and groups at each command, the handler's
with or without a failure behind it. `QuietInv`: threads exist only in a scenario;
`PinInv` and `JoinInv`: a thread that placed itself is on the CPU of its place, or on
the engine's if it logged that it could not be pinned, and in its group while the
groups stand, or in the engine's if it logged that it could not join. Every step moves a thread in one of seven ways (`Move`),
and the three invariants are proved from these. `NthIsNth`, that the number of
smaller CPUs numbers a finite list without a gap, gives distinct CPUs for distinct
places; `MasksApart` gives disjoint masks on every cache. `SplitIsSound` adds for
a cache of `ways >= 2 * min_cbm_bits` that the masks cover it and are wide enough:
`noise` is at most `ways - min_cbm_bits`, whence `hot + noise = ways` in both
branches.

Only model-checked:

* liveness under fairness (`EventuallyDelivered`, `OpenReturnsUnlessAbandoned`,
  `ExitsUnlessClogged`, `FeedhandlerExits`, `BenchEnds`, `ExchangeExits`), which is
  outside the prover;
* that `RacingSpec` and `KillSpec` fail, which a counterexample shows.

## Not modelled, and the plan

Left out for good: prices and the EMA (floating point); the byte layout of
messages and the JSON text; the live statistics, the idle back-off (it only
delays) and all printing; the reading of /proc and /sys in `cpu.rs`, which copies
text into the report; `topology.sh`, which prints; the dry run, the IRQ masks and
the recommendations of `host-prep.sh`; the mount, the memory bandwidth lines and
`--show` of `cache-alloc.sh`. `RunConfig` of `report.rs` is used by no binary.

What could be proved next: that `Pipeline`, which reduces the loops of `Engine`
and `Feedhandler` to a tick or an order at a time, does so rightly. `Relay` is half
of it for the feedhandler; the rest of the correspondence is by reading. It needs
the modules to number their messages the same way, and for the engine an abstract
specification like `Relay`, with a path per symbol.
