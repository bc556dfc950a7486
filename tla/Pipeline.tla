------------------------------ MODULE Pipeline ------------------------------
(***************************************************************************)
(* The whole pipeline as run_scenario of scripts/run-bench.sh starts it:   *)
(* mock exchange, feedhandler and trading engine around one bus file, the  *)
(* report each of the last two writes when it ends, and the comparison     *)
(* that the script makes of the reports of both scenarios.                 *)
(*                                                                         *)
(* The rings are the bounded FIFO that module SpscRing implements; the     *)
(* feedhandler's loop is module Feedhandler, the engine's module Engine    *)
(* and the pace of the exchange module Exchange: here they take a tick or  *)
(* an order at a time.  The engine is the one the script starts, with a    *)
(* dispatcher and --workers threads (run_with_workers); without workers it *)
(* is in module Engine only.                                               *)
(*                                                                         *)
(* An earlier bench may have left bus files and reports behind.  Processes *)
(* are killed by the script when its wait times out; they may fail at any  *)
(* moment.                                                                 *)
(***************************************************************************)
EXTENDS Integers, SequencesExt, FiniteSets

CONSTANTS
  RingCap,     \* RING_CAPACITY of both rings
  SockCap,     \* datagrams that the feedhandler's socket holds
  SymbolList,  \* the symbols of the exchange, in its order
  WorkerOf,    \* WorkerOf[s]: symbol_hash of symbol s, modulo the workers
  ChanCap,     \* capacity of each worker's channel and of the orders' (8192)
  MaxTicks     \* bound on the ticks sent in a scenario

ASSUME PipelineAssumption ==
  /\ RingCap \in Nat \ {0} /\ SockCap \in Nat \ {0} /\ ChanCap \in Nat \ {0}
  /\ SymbolList \in Seq(STRING) \ {<<>>} /\ MaxTicks \in Nat

Scenarios == {"iso", "noisy"}
Reporters == {"feedhandler", "engine"}
Procs == Reporters \cup {"exchange"}

(* A tick knows the bench it was sent in, "old" or "now", and its seq_num; *)
(* an order is known by the tick that caused it.                           *)
MarketTick == [bench : {"old", "now"}, seq_num : 1 .. MaxTicks]
OldTick == [bench |-> "old", seq_num |-> 1]
OrderMsg == MarketTick

(* for sym in symbols { seq += 1 ... }.                                    *)
Symbol(tick) == SymbolList[((tick.seq_num - 1) % Len(SymbolList)) + 1]
Worker(tick) == WorkerOf[Symbol(tick)]

VARIABLES
  scenario, step,      \* of the script
  bus,                 \* the bus file: "absent", "left" by an earlier bench, or "open"
  ticks_sent, ticks_got, orders_sent, orders_got,   \* its two rings
  proc,                \* proc[p]: "off", "starting", "run", "write" or "gone"; of
                       \* the engine also "join" and "drain", on its way from "run"
  socket,              \* datagrams received and not read
  seq,                 \* of the exchange
  work,                \* ticks dispatched to the workers and not handled
  emitted,             \* orders on their way back to the dispatcher
  seen,                \* symbols whose EMA some worker has started
  fh, te,              \* the metrics the two processes count
  report,              \* report[s][p]: the file: "none", "old", "cut" or "now"
  shown,               \* the comparison: shown[s] is what row s is made of
  \* history
  short,               \* the scenarios in which a process ended without a report
  oldbus               \* the earlier bench left its bus files

script == <<scenario, step>>
rings == <<ticks_sent, ticks_got, orders_sent, orders_got>>
engine == <<work, emitted, seen>>
metrics == <<fh, te>>
files == <<report, shown, short, oldbus>>
vars == <<script, bus, rings, proc, socket, seq, engine, metrics, files>>

Ticks == INSTANCE BoundedFifo WITH
  Msgs <- MarketTick, Capacity <- RingCap, sent <- ticks_sent, got <- ticks_got
Orders == INSTANCE BoundedFifo WITH
  Msgs <- OrderMsg, Capacity <- RingCap, sent <- orders_sent, got <- orders_got

Unread(sent, got) == Len(sent) - Len(got)

NoFeed == [ticks_published |-> 0, publish_drops |-> 0, orders_received |-> 0]
NoEngine == [ticks_consumed |-> 0, ticks_dropped_dispatch |-> 0,
             orders_emitted |-> 0, orders_dropped_ring_full |-> 0]

Init ==
  /\ scenario = "iso" /\ step = "wipe"
  /\ oldbus \in BOOLEAN /\ bus = IF oldbus THEN "left" ELSE "absent"
  /\ Ticks!Init /\ Orders!Init
  /\ proc = [p \in Procs |-> "off"]
  /\ socket = <<>> /\ seq = 0 /\ fh = NoFeed /\ te = NoEngine
  /\ work = <<>> /\ emitted = <<>> /\ seen = {}
  /\ \E old \in [Reporters -> {"none", "old", "cut"}] : report = [s \in Scenarios |-> old]
  /\ shown = <<>> /\ short = {}

-----------------------------------------------------------------------------
(* The script.                                                             *)

(* Not the code: the bus file is kept.                                     *)
Wiped_Kept == bus

(* rm -f "$bus".                                                           *)
Wiped == "absent"

Wipe ==
  /\ step = "wipe"
  /\ bus' = Wiped
  /\ step' = "feedhandler"
  /\ UNCHANGED <<scenario, rings, proc, socket, seq, engine, metrics, files>>

After == [feedhandler |-> "engine", engine |-> "exchange", exchange |-> "wait"]

(* The sleeps stand for: the process before has opened the bus, or ended.  *)
Launch ==
  /\ step \in DOMAIN After
  /\ \A p \in Procs : proc[p] # "starting"
  /\ proc' = [proc EXCEPT ![step] = "starting"]
  /\ step' = After[step]
  /\ UNCHANGED <<scenario, bus, rings, socket, seq, engine, metrics, files>>

(* Both are gone or the wait timed out: kill and wait.  A process killed   *)
(* inside fs::write leaves a file cut short.                               *)
EndScenario ==
  /\ step = "wait"
  /\ short' = IF \E p \in Reporters : proc[p] # "gone" THEN short \cup {scenario} ELSE short
  /\ proc' = [p \in Procs |-> "off"]
  /\ socket' = <<>> /\ seq' = 0 /\ fh' = NoFeed /\ te' = NoEngine
  /\ work' = <<>> /\ emitted' = <<>> /\ seen' = {}
  /\ ticks_sent' = <<>> /\ ticks_got' = <<>> /\ orders_sent' = <<>> /\ orders_got' = <<>>
  /\ IF scenario = "iso"
     THEN scenario' = "noisy" /\ step' = "wipe" /\ bus' = IF oldbus THEN "left" ELSE "absent"
     ELSE scenario' = scenario /\ step' = "compare" /\ bus' = bus
  /\ UNCHANGED <<report, shown, oldbus>>

(* load: a missing file is None, a cut one raises an exception nobody      *)
(* catches.  A scenario with both reports is a row; no rows are an error.  *)
Rows == {s \in Scenarios : \A p \in Reporters : report[s][p] # "none"}
Unreadable == \E s \in Scenarios, p \in Reporters : report[s][p] = "cut"

Compare ==
  /\ step = "compare"
  /\ IF Rows = {} \/ Unreadable
     THEN step' = "failed" /\ UNCHANGED shown
     ELSE step' = "ended" /\ shown' = [s \in Rows |-> report[s]]
  /\ UNCHANGED <<scenario, bus, rings, proc, socket, seq, engine, metrics, report, short, oldbus>>

-----------------------------------------------------------------------------
(* Every process.                                                          *)

(* ShmBus::open_or_create; an earlier bench left an unread tick and order. *)
OpenBus(p) ==
  /\ p \in Reporters /\ proc[p] = "starting"
  /\ proc' = [proc EXCEPT ![p] = "run"]
  /\ bus' = "open"
  /\ IF bus = "left"
     THEN ticks_sent' = <<OldTick>> /\ orders_sent' = <<OldTick>> /\ UNCHANGED <<ticks_got, orders_got>>
     ELSE UNCHANGED rings
  /\ UNCHANGED <<script, socket, seq, engine, metrics, files>>

ConnectSocket ==
  /\ proc["exchange"] = "starting"
  /\ proc' = [proc EXCEPT !["exchange"] = "run"]
  /\ UNCHANGED <<script, bus, rings, socket, seq, engine, metrics, files>>

(* An error at the start, of a submit, or of the write of the report ends  *)
(* main through ?; the report is then missing, the old one, or cut.        *)
Fail(p) ==
  /\ proc[p] \notin {"off", "gone"}
  /\ proc' = [proc EXCEPT ![p] = "gone"]
  /\ socket' = IF p = "feedhandler" THEN <<>> ELSE socket
  /\ short' = IF p \in Reporters THEN short \cup {scenario} ELSE short
  /\ UNCHANGED <<script, bus, rings, seq, engine, metrics, report, shown, oldbus>>

(* Not the code: both scenarios write into one directory.                  *)
OutDir_Shared == "iso"

OutDir == scenario

(* The deadline, and the end of the engine's final drain: the report is    *)
(* opened, which truncates it, ...                                         *)
BeginReport(p) ==
  /\ \/ p = "feedhandler" /\ proc[p] = "run"
     \/ p = "engine" /\ proc[p] = "drain" /\ emitted = <<>>
  /\ proc' = [proc EXCEPT ![p] = "write"]
  /\ report' = [report EXCEPT ![OutDir][p] = "cut"]
  /\ socket' = IF p = "feedhandler" THEN <<>> ELSE socket
  /\ UNCHANGED <<script, bus, rings, seq, engine, metrics, shown, short, oldbus>>

(* ... and written.                                                        *)
WriteReport(p) ==
  /\ p \in Reporters /\ proc[p] = "write"
  /\ proc' = [proc EXCEPT ![p] = "gone"]
  /\ report' = [report EXCEPT ![OutDir][p] = "now"]
  /\ UNCHANGED <<script, bus, rings, socket, seq, engine, metrics, shown, short, oldbus>>

-----------------------------------------------------------------------------
(* The data path.                                                          *)

(* sock.send: the datagram reaches the socket, or is lost.                 *)
SendTick ==
  /\ proc["exchange"] = "run" /\ seq < MaxTicks
  /\ seq' = seq + 1
  /\ \/ /\ proc["feedhandler"] = "run" /\ Len(socket) < SockCap
        /\ socket' = Append(socket, [bench |-> "now", seq_num |-> seq + 1])
     \/ UNCHANGED socket
  /\ UNCHANGED <<script, bus, rings, proc, engine, metrics, files>>

Read == /\ proc["feedhandler"] = "run" /\ socket # <<>>
        /\ socket' = Tail(socket)

(* try_publish of a datagram, which answers true or false.                 *)
PublishTick ==
  /\ Read
  /\ Ticks!Publish(Head(socket))
  /\ fh' = [fh EXCEPT !.ticks_published = @ + 1]
  /\ UNCHANGED <<script, bus, orders_sent, orders_got, proc, seq, engine, te, files>>

(* Not the code: a tick that is dropped is counted as published.           *)
Dropped_Published == [fh EXCEPT !.ticks_published = @ + 1]

Dropped == [fh EXCEPT !.publish_drops = @ + 1]

DropTick ==
  /\ Read
  /\ Unread(ticks_sent, ticks_got) = RingCap
  /\ fh' = Dropped
  /\ UNCHANGED <<script, bus, rings, proc, seq, engine, te, files>>

ConsumeOrder ==
  /\ proc["feedhandler"] = "run"
  /\ Orders!Consume
  /\ fh' = [fh EXCEPT !.orders_received = @ + 1]
  /\ UNCHANGED <<script, bus, ticks_sent, ticks_got, proc, socket, seq, engine, te, files>>

-----------------------------------------------------------------------------
(* The engine: its dispatcher, the workers and the channels between them.  *)

(* A worker may have one tick in its hand, which is no longer in its       *)
(* channel; and it waits when the orders' channel is full.                 *)
Pending(worker) == Cardinality({n \in DOMAIN work : Worker(work[n]) = worker})

(* The dispatcher routes a tick to its symbol's worker, or drops it        *)
(* because that worker's channel is full.                                  *)
TakeTick ==
  /\ proc["engine"] = "run"
  /\ Ticks!Consume
  /\ LET tick == ticks_sent[Len(ticks_got) + 1] IN
     \/ /\ Pending(Worker(tick)) <= ChanCap
        /\ work' = Append(work, tick)
        /\ te' = [te EXCEPT !.ticks_consumed = @ + 1]
     \/ /\ Pending(Worker(tick)) >= ChanCap
        /\ te' = [te EXCEPT !.ticks_consumed = @ + 1, !.ticks_dropped_dispatch = @ + 1]
        /\ UNCHANGED work
  /\ UNCHANGED <<script, bus, orders_sent, orders_got, proc, socket, seq, emitted, seen, fh, files>>

(* A worker handles the first of its ticks, without an order or with one.  *)
(* A symbol's first tick starts its EMA.                                   *)
HandleTick(n) ==
  /\ proc["engine"] \in {"run", "join"}
  /\ n \in DOMAIN work /\ \A m \in 1 .. n - 1 : Worker(work[m]) # Worker(work[n])
  /\ work' = RemoveAt(work, n)
  /\ seen' = seen \cup {Symbol(work[n])}
  /\ \/ UNCHANGED emitted
     \/ /\ Symbol(work[n]) \in seen /\ Len(emitted) < ChanCap
        /\ emitted' = Append(emitted, work[n])
  /\ UNCHANGED <<script, bus, rings, proc, socket, seq, metrics, files>>

(* The dispatcher, in its loop and in the final drain, takes an order, and *)
(* publishes it unless the ring is full.                                   *)
PublishOrder ==
  /\ proc["engine"] \in {"run", "drain"}
  /\ emitted # <<>> /\ emitted' = Tail(emitted)
  /\ \/ /\ Orders!Publish(Head(emitted))
        /\ te' = [te EXCEPT !.orders_emitted = @ + 1]
     \/ /\ Unread(orders_sent, orders_got) = RingCap
        /\ te' = [te EXCEPT !.orders_dropped_ring_full = @ + 1]
        /\ UNCHANGED <<orders_sent, orders_got>>
  /\ UNCHANGED <<script, bus, ticks_sent, ticks_got, proc, socket, seq, work, seen, fh, files>>

(* The deadline ends the loop; the workers end when their channels are     *)
(* empty, and are joined.                                                  *)
StopDispatch ==
  /\ proc["engine"] = "run"
  /\ proc' = [proc EXCEPT !["engine"] = "join"]
  /\ UNCHANGED <<script, bus, rings, socket, seq, engine, metrics, files>>

JoinWorkers ==
  /\ proc["engine"] = "join" /\ work = <<>>
  /\ proc' = [proc EXCEPT !["engine"] = "drain"]
  /\ UNCHANGED <<script, bus, rings, socket, seq, engine, metrics, files>>

-----------------------------------------------------------------------------
Script == Wipe \/ Launch \/ EndScenario \/ Compare
DataPath == SendTick \/ PublishTick \/ DropTick \/ ConsumeOrder
EnginePath ==
  TakeTick \/ (\E n \in DOMAIN work : HandleTick(n)) \/ PublishOrder \/ StopDispatch \/ JoinWorkers

Next == \/ Script
        \/ \E p \in Procs : OpenBus(p) \/ Fail(p) \/ BeginReport(p) \/ WriteReport(p)
        \/ ConnectSocket \/ DataPath \/ EnginePath

Spec == Init /\ [][Next]_vars

-----------------------------------------------------------------------------
Reports == {"none", "old", "cut", "now"}
FeedMetrics == [ticks_published : Nat, publish_drops : Nat, orders_received : Nat]
EngineMetrics == [ticks_consumed : Nat, ticks_dropped_dispatch : Nat,
                  orders_emitted : Nat, orders_dropped_ring_full : Nat]

ScriptOK ==
  /\ scenario \in Scenarios
  /\ step \in {"wipe", "feedhandler", "engine", "exchange", "wait", "compare", "ended", "failed"}
  /\ bus \in {"absent", "left", "open"}
  /\ proc \in [Procs -> {"off", "starting", "run", "join", "drain", "write", "gone"}]

RingOK(sent, got) ==
  sent \in Seq(MarketTick) /\ got \in Seq(MarketTick) /\ Unread(sent, got) \in 0 .. RingCap

DataOK ==
  /\ RingOK(ticks_sent, ticks_got) /\ RingOK(orders_sent, orders_got)
  /\ socket \in Seq(MarketTick) /\ seq \in 0 .. MaxTicks
  /\ fh \in FeedMetrics /\ te \in EngineMetrics

ChannelsOK == work \in Seq(MarketTick) /\ emitted \in Seq(MarketTick)

FilesOK ==
  /\ report \in [Scenarios -> [Reporters -> Reports]]
  /\ shown \in UNION {[S -> [Reporters -> Reports]] : S \in SUBSET Scenarios}
  /\ short \subseteq Scenarios /\ oldbus \in BOOLEAN

TypeOK == ScriptOK /\ DataOK /\ ChannelsOK /\ FilesOK

(***************************************************************************)
(* "The bus file is wiped first so producers/consumers start clean"        *)
(* (run-demo.sh:7; run-bench.sh:220): whatever an earlier bench left, the  *)
(* engine measures no tick and the feedhandler counts no order of it.      *)
(***************************************************************************)
NothingStale ==
  /\ \A n \in DOMAIN ticks_got : ticks_got[n].bench = "now"
  /\ \A n \in DOMAIN orders_got : orders_got[n].bench = "now"

(***************************************************************************)
(* The two reports of a scenario can be set against each other, and with   *)
(* the exchange, whichever process ends or fails first: ticks published    *)
(* are ticks consumed or left in the ring, orders emitted are orders       *)
(* received or left in the ring, nothing is counted that was not sent, and *)
(* the orders emitted and dropped, and the ticks no worker got, are fewer  *)
(* than the ticks consumed.                                                *)
(***************************************************************************)
ReportsReconcile ==
  /\ fh.ticks_published = te.ticks_consumed + Unread(ticks_sent, ticks_got)
  /\ te.orders_emitted = fh.orders_received + Unread(orders_sent, orders_got)
  /\ fh.ticks_published + fh.publish_drops + Len(socket) <= seq
  /\ te.ticks_consumed > 0 =>
        te.orders_emitted + te.orders_dropped_ring_full + te.ticks_dropped_dispatch
          < te.ticks_consumed

(***************************************************************************)
(* The comparison (run-bench.sh:327-333) reads report files by name, and   *)
(* an earlier bench may have left some.  A scenario in which both          *)
(* processes wrote theirs is shown by these two; if both scenarios did,    *)
(* both rows are shown.                                                    *)
(***************************************************************************)
RowsAreOfThisBench ==
  /\ \A s \in DOMAIN shown \ short : \A p \in Reporters : shown[s][p] = "now"
  /\ step \in {"ended", "failed"} /\ short = {} => DOMAIN shown = Scenarios
=============================================================================
