------------------------------- MODULE Engine -------------------------------
(***************************************************************************)
(* The trading engine (crates/trading-engine/src/main.rs): a dispatcher    *)
(* that takes ticks off the shared-memory ring and routes each to one of N *)
(* strategy workers over a bounded channel, the workers, and the bounded   *)
(* channel their orders come back on; or, without workers, the same        *)
(* strategy run inline.  Ctrl-c and the bench deadline end it.             *)
(*                                                                         *)
(* A tick is its symbol and its place in the tick stream; whether its mid  *)
(* price deviates from the EMA by the threshold is left open.  The orders  *)
(* ring is the bounded FIFO that module SpscRing implements, of which only *)
(* the number of unread orders matters here.                               *)
(***************************************************************************)
EXTENDS Integers, Sequences, FiniteSets

CONSTANTS
  WorkerCounts, \* the values --workers may have
  MaxWorkers,  \* the largest of them
  Symbols,
  Hash,        \* symbol_hash, a function of the symbol's bytes alone
  ChanCap,     \* capacity of every channel (8192)
  RingCap,     \* RING_CAPACITY of the orders ring
  IdSpace,     \* 2^32: the worker id is shifted into the upper half of an order id
  Cooldown,    \* --cooldown-ns
  U64,         \* number of values of a timestamp: 2^64 in the code
  MaxTicks,    \* bound on the ticks the engine is given
  MaxTime      \* bound on the wall clock

ASSUME EngineAssumption ==
  /\ MaxWorkers \in Nat \ {0} /\ WorkerCounts \subseteq 0 .. MaxWorkers
  /\ ChanCap \in Nat \ {0} /\ RingCap \in Nat \ {0}
  /\ Hash \in [Symbols -> Nat]
  /\ Cooldown \in Nat /\ MaxTicks \in Nat
  /\ IdSpace \in Nat /\ MaxTicks < IdSpace
  /\ U64 \in Nat /\ MaxTime \in Nat /\ Cooldown <= MaxTime /\ MaxTime < U64

(* The threads that hold strategy state: the workers, or main itself as    *)
(* number 0 when there are none.                                           *)
Threads == 0 .. MaxWorkers - 1

VARIABLES
  workers,    \* --workers
  \* the environment
  now,        \* now_ns(): the wall clock
  stop,       \* the flag the ctrl-c handler sets
  late,       \* the bench deadline has passed
  unread,     \* orders in the shared ring the feedhandler has not consumed
  \* the dispatcher
  dpc,        \* where it is in run_with_workers or run_inline
  ticks_seen, ticks_dropped, orders_dropped,
  lost,       \* ticks in its hand when a channel was found disconnected
  closed,     \* tick_txs is dropped
  \* the channels
  tickq,      \* tickq[w]: ticks queued to worker w
  orderq,     \* orders on their way to the dispatcher
  \* the workers
  wpc,        \* where each is in worker_main
  known,      \* known[w]: symbols whose EMA is initialised
  last,       \* last[w][s]: last_order_ns
  next_id,    \* next_order_id
  hand,       \* the order a worker is about to send, at most one
  \* history
  done,       \* done[w]: the ticks worker w ran its strategy on, in order
  emitted,    \* every order strategy_step returned, in order
  sent        \* every order published on the ring, in order

env == <<now, stop, late, unread>>
counters == <<ticks_seen, ticks_dropped, orders_dropped, lost>>
strategy == <<known, last, next_id>>
vars == <<workers, env, dpc, counters, closed, tickq, orderq, wpc, strategy, hand, done, emitted, sent>>

(* Not the code: every worker starts at 1.                                 *)
FirstId_Shared(w) == 1

(* next_order_id before the first order: "disjoint id space per worker".   *)
FirstId(w) == IF workers = 0 THEN 1 ELSE w * IdSpace

Init ==
  /\ workers \in WorkerCounts
  /\ now = Cooldown /\ stop = FALSE /\ late = FALSE /\ unread = 0
  /\ dpc = "top"
  /\ ticks_seen = 0 /\ ticks_dropped = 0 /\ orders_dropped = 0 /\ lost = 0
  /\ closed = FALSE
  /\ tickq = [w \in Threads |-> <<>>]
  /\ orderq = <<>>
  /\ wpc = [w \in Threads |-> IF w < workers THEN "top" ELSE "done"]
  /\ known = [w \in Threads |-> {}]
  /\ last = [w \in Threads |-> [s \in Symbols |-> 0]]
  /\ next_id = [w \in Threads |-> FirstId(w)]
  /\ hand = [w \in Threads |-> <<>>]
  /\ done = [w \in Threads |-> <<>>]
  /\ emitted = <<>> /\ sent = <<>>

-----------------------------------------------------------------------------
(* strategy_step.                                                          *)

WrappingSub(a, b) == IF a >= b THEN a - b ELSE (a - b) + U64

CooledDown(w, s) == WrappingSub(now, last[w][s]) >= Cooldown

(* The tick starts the symbol's EMA, does not deviate, or comes too early. *)
NoOrder(w, t) ==
  /\ known' = [known EXCEPT ![w] = @ \cup {t.sym}]
  /\ done' = [done EXCEPT ![w] = Append(@, t)]
  /\ UNCHANGED <<last, next_id, emitted>>

Order(w, t) ==
  [id |-> next_id[w] + 1, sym |-> t.sym, tick |-> t.n, ts |-> now]

EmitOrder(w, t) ==
  /\ t.sym \in known[w]
  /\ CooledDown(w, t.sym)
  /\ next_id' = [next_id EXCEPT ![w] = @ + 1]
  /\ last' = [last EXCEPT ![w][t.sym] = now]
  /\ emitted' = Append(emitted, Order(w, t))
  /\ done' = [done EXCEPT ![w] = Append(@, t)]
  /\ UNCHANGED known

(* try_publish_order and the two counters.                                 *)
PublishOrder(o) ==
  IF unread < RingCap
  THEN /\ unread' = unread + 1 /\ sent' = Append(sent, o)
       /\ UNCHANGED orders_dropped
  ELSE /\ orders_dropped' = orders_dropped + 1
       /\ UNCHANGED <<unread, sent>>

-----------------------------------------------------------------------------
(* The dispatcher.                                                         *)

(* Not the code: the deadline does not end the loop.                       *)
Over_StopOnly == stop

(* while !stop, and the deadline test at the top of the loop.              *)
Over == stop \/ late

Loop ==
  /\ dpc = "top" /\ ~Over
  /\ dpc' = "tick"
  /\ UNCHANGED <<workers, env, counters, closed, tickq, orderq, wpc, strategy, hand, done, emitted, sent>>

(* The loop ends and the senders are dropped.                              *)
Break ==
  /\ dpc = "top" /\ Over
  /\ dpc' = "join" /\ closed' = TRUE
  /\ UNCHANGED <<workers, env, counters, tickq, orderq, wpc, strategy, hand, done, emitted, sent>>

(* try_consume finds no tick.                                              *)
NoTick ==
  /\ dpc = "tick"
  /\ dpc' = IF workers = 0 THEN "top" ELSE "drain"
  /\ UNCHANGED <<workers, env, counters, closed, tickq, orderq, wpc, strategy, hand, done, emitted, sent>>

(* Not the code: ticks are dealt out in turn.                              *)
Target_RoundRobin(s) == ticks_seen % workers

(* The worker a symbol is routed to.                                       *)
Target(s) == Hash[s] % workers

Tick(s) == [sym |-> s, n |-> ticks_seen + 1]

TakeTick == dpc = "tick" /\ ticks_seen < MaxTicks /\ ticks_seen' = ticks_seen + 1

(* try_consume and try_send: Ok, Full or Disconnected.                     *)
DispatchOk(s) ==
  /\ workers > 0 /\ TakeTick
  /\ wpc[Target(s)] # "done"
  /\ Len(tickq[Target(s)]) < ChanCap
  /\ tickq' = [tickq EXCEPT ![Target(s)] = Append(@, Tick(s))]
  /\ dpc' = "drain"
  /\ UNCHANGED <<workers, env, ticks_dropped, orders_dropped, lost, closed, orderq, wpc, strategy, hand, done, emitted, sent>>

DispatchFull(s) ==
  /\ workers > 0 /\ TakeTick
  /\ wpc[Target(s)] # "done"
  /\ Len(tickq[Target(s)]) = ChanCap
  /\ ticks_dropped' = ticks_dropped + 1
  /\ dpc' = "drain"
  /\ UNCHANGED <<workers, env, orders_dropped, lost, closed, tickq, orderq, wpc, strategy, hand, done, emitted, sent>>

(* The worker is gone: the loop ends and the tick in hand with it.         *)
DispatchDisconnected(s) ==
  /\ workers > 0 /\ TakeTick
  /\ wpc[Target(s)] = "done"
  /\ lost' = lost + 1
  /\ dpc' = "join" /\ closed' = TRUE
  /\ UNCHANGED <<workers, env, ticks_dropped, orders_dropped, tickq, orderq, wpc, strategy, hand, done, emitted, sent>>

(* while let Ok(..) = order_rx.try_recv(): in the loop, and after the      *)
(* workers were joined.                                                    *)
DrainOne ==
  /\ dpc \in {"drain", "final"}
  /\ orderq # <<>>
  /\ PublishOrder(Head(orderq))
  /\ orderq' = Tail(orderq)
  /\ UNCHANGED <<workers, now, stop, late, dpc, ticks_seen, ticks_dropped, lost, closed, tickq, wpc, strategy, hand, done, emitted>>

DrainEnd ==
  /\ dpc \in {"drain", "final"}
  /\ orderq = <<>>
  /\ dpc' = IF dpc = "drain" THEN "top" ELSE "finished"
  /\ UNCHANGED <<workers, env, counters, closed, tickq, orderq, wpc, strategy, hand, done, emitted, sent>>

(* Not the code: no drain after the join.                                  *)
AfterJoin_NoDrain == "finished"

AfterJoin == "final"

(* h.join() for every worker.  With no workers there is none to wait for.  *)
Join ==
  /\ dpc = "join"
  /\ \A w \in Threads : wpc[w] = "done"
  /\ dpc' = AfterJoin
  /\ UNCHANGED <<workers, env, counters, closed, tickq, orderq, wpc, strategy, hand, done, emitted, sent>>

(* One iteration of run_inline on a tick.                                  *)
InlineTick(s) ==
  /\ workers = 0 /\ TakeTick
  /\ \/ NoOrder(0, Tick(s)) /\ UNCHANGED <<unread, sent, orders_dropped>>
     \/ EmitOrder(0, Tick(s)) /\ PublishOrder(Order(0, Tick(s)))
  /\ dpc' = "top"
  /\ UNCHANGED <<workers, now, stop, late, ticks_dropped, lost, closed, tickq, orderq, wpc, hand>>

-----------------------------------------------------------------------------
(* A worker.                                                               *)

(* Not the code: a closed channel is not read to its end.                  *)
WorkerEnds_WhenClosed == stop \/ closed

(* while !stop.                                                            *)
WorkerEnds == stop

WorkerLoop(w) ==
  /\ wpc[w] = "top"
  /\ wpc' = [wpc EXCEPT ![w] = IF WorkerEnds THEN "done" ELSE "recv"]
  /\ UNCHANGED <<workers, env, dpc, counters, closed, tickq, orderq, strategy, hand, done, emitted, sent>>

(* recv_timeout: Ok, Timeout or Disconnected.                              *)
WorkerStep(w) ==
  /\ wpc[w] = "recv"
  /\ tickq[w] # <<>>
  /\ tickq' = [tickq EXCEPT ![w] = Tail(@)]
  /\ LET t == Head(tickq[w]) IN
     \/ NoOrder(w, t) /\ wpc' = [wpc EXCEPT ![w] = "top"] /\ UNCHANGED hand
     \/ EmitOrder(w, t) /\ wpc' = [wpc EXCEPT ![w] = "send"]
        /\ hand' = [hand EXCEPT ![w] = <<Order(w, t)>>]
  /\ UNCHANGED <<workers, env, dpc, counters, closed, orderq, sent>>

WorkerNothing(w) ==
  /\ wpc[w] = "recv"
  /\ tickq[w] = <<>>
  /\ wpc' = [wpc EXCEPT ![w] = IF closed THEN "done" ELSE "top"]
  /\ UNCHANGED <<workers, env, dpc, counters, closed, tickq, orderq, strategy, hand, done, emitted, sent>>

(* order_tx.send: blocks while the channel is full.  The receiver outlives *)
(* the workers, so the send never fails.                                   *)
WorkerSend(w) ==
  /\ wpc[w] = "send"
  /\ Len(orderq) < ChanCap
  /\ orderq' = orderq \o hand[w]
  /\ hand' = [hand EXCEPT ![w] = <<>>]
  /\ wpc' = [wpc EXCEPT ![w] = "top"]
  /\ UNCHANGED <<workers, env, dpc, counters, closed, tickq, strategy, done, emitted, sent>>

-----------------------------------------------------------------------------
(* The environment.                                                        *)

CtrlC ==
  /\ ~stop /\ stop' = TRUE
  /\ UNCHANGED <<workers, now, late, unread, dpc, counters, closed, tickq, orderq, wpc, strategy, hand, done, emitted, sent>>

Deadline ==
  /\ ~late /\ late' = TRUE
  /\ UNCHANGED <<workers, now, stop, unread, dpc, counters, closed, tickq, orderq, wpc, strategy, hand, done, emitted, sent>>

ClockAdvances ==
  /\ now < MaxTime /\ now' = now + 1
  /\ UNCHANGED <<workers, stop, late, unread, dpc, counters, closed, tickq, orderq, wpc, strategy, hand, done, emitted, sent>>

(* now_ns() reads the wall clock, which may be set back.                   *)
ClockSetBack ==
  /\ now > Cooldown /\ now' = now - 1
  /\ UNCHANGED <<workers, stop, late, unread, dpc, counters, closed, tickq, orderq, wpc, strategy, hand, done, emitted, sent>>

(* The feedhandler consumes an order.                                      *)
OrderConsumed ==
  /\ unread > 0 /\ unread' = unread - 1
  /\ UNCHANGED <<workers, now, stop, late, dpc, counters, closed, tickq, orderq, wpc, strategy, hand, done, emitted, sent>>

-----------------------------------------------------------------------------
Dispatcher ==
  \/ Loop \/ Break \/ NoTick \/ DrainOne \/ DrainEnd \/ Join
  \/ \E s \in Symbols : \/ DispatchOk(s) \/ DispatchFull(s)
                        \/ DispatchDisconnected(s) \/ InlineTick(s)

Worker(w) == WorkerLoop(w) \/ WorkerStep(w) \/ WorkerNothing(w) \/ WorkerSend(w)

Environment == CtrlC \/ Deadline \/ ClockAdvances \/ ClockSetBack \/ OrderConsumed

Next == Dispatcher \/ (\E w \in Threads : Worker(w)) \/ Environment

Spec == Init /\ [][Next]_vars

(* Every thread is scheduled; a thread blocked in send or join is not.     *)
FairSpec == Spec /\ WF_vars(Dispatcher) /\ \A w \in Threads : WF_vars(Worker(w))

-----------------------------------------------------------------------------
Ticks == [sym : Symbols, n : 1 .. MaxTicks]
Orders == [id : Nat, sym : Symbols, tick : 1 .. MaxTicks, ts : 0 .. MaxTime]

EnvironmentOK ==
  workers \in WorkerCounts /\ now \in 0 .. MaxTime /\ stop \in BOOLEAN /\ late \in BOOLEAN

DispatcherOK ==
  /\ dpc \in {"top", "tick", "drain", "join", "final", "finished"} /\ closed \in BOOLEAN
  /\ ticks_seen \in 0 .. MaxTicks
  /\ ticks_dropped \in Nat /\ orders_dropped \in Nat /\ lost \in Nat
  /\ unread \in 0 .. RingCap

WorkersOK ==
  /\ wpc \in [Threads -> {"top", "recv", "send", "done"}]
  /\ known \in [Threads -> SUBSET Symbols]
  /\ last \in [Threads -> [Symbols -> 0 .. MaxTime]]
  /\ next_id \in [Threads -> Nat]

TicksOK == tickq \in [Threads -> Seq(Ticks)] /\ done \in [Threads -> Seq(Ticks)]

OrdersOK ==
  /\ orderq \in Seq(Orders) /\ hand \in [Threads -> Seq(Orders)]
  /\ emitted \in Seq(Orders) /\ sent \in Seq(Orders)

TypeOK == EnvironmentOK /\ DispatcherOK /\ WorkersOK /\ TicksOK /\ OrdersOK

(* The elements of a sequence of ticks or orders.                          *)
Elems(q) == {q[i] : i \in DOMAIN q}

(***************************************************************************)
(* "Minimum nanos between successive orders on the same symbol"            *)
(* (main.rs:46), whichever worker emits them: two successive orders are a  *)
(* cooldown apart, unless the clock was set back behind the first.         *)
(***************************************************************************)
CooldownKept ==
  \A i, j \in DOMAIN emitted :
     /\ i < j /\ emitted[i].sym = emitted[j].sym
     /\ \A m \in i + 1 .. j - 1 : emitted[m].sym # emitted[i].sym
     => \/ emitted[j].ts >= emitted[i].ts + Cooldown
        \/ emitted[j].ts < emitted[i].ts

(***************************************************************************)
(* "Disjoint id space per worker" (main.rs:476): no two orders of a run    *)
(* carry the same order_id.                                                *)
(***************************************************************************)
OrderIdsUnique ==
  \A i, j \in DOMAIN emitted : emitted[i].id = emitted[j].id => i = j

(***************************************************************************)
(* No reordering inside a symbol, through two channels and N threads: the  *)
(* orders of a symbol reach the ring in the order of their ticks.          *)
(***************************************************************************)
OrdersInTickOrder ==
  \A i, j \in DOMAIN sent : i < j /\ sent[i].sym = sent[j].sym => sent[i].tick < sent[j].tick

(***************************************************************************)
(* "Final drain of any orders the workers emitted between our last         *)
(* try_recv and their shutdown" (main.rs:418): when the run is over every  *)
(* order the strategy emitted was published or counted as dropped, and is  *)
(* published once, after ctrl-c as well as after the deadline.             *)
(***************************************************************************)
OrdersAccounted ==
  dpc = "finished" =>
     /\ Len(emitted) = Len(sent) + orders_dropped
     /\ \A i, j \in DOMAIN sent : sent[i] = sent[j] => i = j
     /\ Elems(sent) \subseteq Elems(emitted)

(***************************************************************************)
(* A run that its deadline ends, not ctrl-c, leaves no tick behind: every  *)
(* tick counted in ticks_consumed and not in ticks_dropped_dispatch went   *)
(* through a worker's strategy, and none was lost in the dispatcher.       *)
(***************************************************************************)
DeadlineLosesNoTick ==
  (dpc = "finished" /\ ~stop) =>
     /\ lost = 0
     /\ Cardinality(UNION {Elems(done[w]) : w \in Threads}) = ticks_seen - ticks_dropped

(* The dispatcher waits for a worker that waits for the dispatcher.        *)
Clogged == /\ dpc = "join" /\ Len(orderq) = ChanCap
           /\ \E w \in Threads : wpc[w] = "send"

(***************************************************************************)
(* "Run for N seconds then exit cleanly" (README.md:57): after ctrl-c or   *)
(* the deadline the engine finishes, unless its workers block on a full    *)
(* orders channel while it joins them (main.rs:416), and then never; with  *)
(* no workers it always finishes.                                          *)
(***************************************************************************)
ExitsUnlessClogged == (stop \/ late) ~> (dpc = "finished" \/ Clogged)
=============================================================================
