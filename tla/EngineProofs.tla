---------------------------- MODULE EngineProofs ----------------------------
(***************************************************************************)
(* For any number of workers and symbols, every capacity of the channels   *)
(* and of the ring, and every interleaving of the dispatcher, the workers, *)
(* ctrl-c, the deadline and a clock that may be set back: order ids are    *)
(* unique, the cooldown holds per symbol, the orders of a symbol keep the  *)
(* order of its ticks, and a run that has ended lost no order, nor a tick  *)
(* unless ctrl-c ended it.                                                 *)
(***************************************************************************)
EXTENDS Engine, FiniteSetTheorems, TLAPS

(* The thread that runs the strategy on symbol s.                          *)
Runner(s) == IF workers = 0 THEN 0 ELSE Target(s)

(* A sequence in which every earlier element is R-related to every later.  *)
Along(R, q) == \A i, j \in DOMAIN q : i < j => <<q[i], q[j]>> \in R

TickOrder == {p \in Ticks \X Ticks : p[1].n < p[2].n}
OrderOrder == {p \in Orders \X Orders : p[1].sym = p[2].sym => p[1].tick < p[2].tick}
Ahead(A, B) == \A a \in A, b \in B : <<a, b>> \in OrderOrder

(* The threads: who holds an order, who has ended and why.                 *)
ThreadInv ==
  /\ \A w \in Threads : wpc[w] = "send" => Len(hand[w]) = 1
  /\ \A w \in Threads : wpc[w] # "send" => hand[w] = <<>>
  /\ workers = 0 => orderq = <<>> /\ \A w \in Threads : wpc[w] = "done"
  /\ dpc \in {"final", "finished"} => \A w \in Threads : wpc[w] = "done"
  /\ dpc = "finished" => orderq = <<>>
  /\ closed => dpc \in {"join", "final", "finished"}
  /\ \A w \in Threads : wpc[w] = "done" /\ w < workers => stop \/ closed

(* Until ctrl-c, no queue is left behind by its worker.                    *)
KeptInv ==
  stop \/ (lost = 0 /\ \A w \in Threads : wpc[w] = "done" => tickq[w] = <<>>)

(* A symbol's ticks go to one thread, in order, and its orders come back   *)
(* in order: what is queued is behind what the strategy has seen.          *)
TickInv ==
  \A w \in Threads :
    /\ \A t \in Elems(tickq[w]) : Runner(t.sym) = w /\ t.n <= ticks_seen
    /\ Along(TickOrder, tickq[w])
    /\ workers = 0 => tickq[w] = <<>>

OrderInv ==
  /\ Elems(sent) \subseteq Elems(emitted) /\ Elems(orderq) \subseteq Elems(emitted)
  /\ \A w \in Threads : \A o \in Elems(hand[w]) : o \in Elems(emitted) /\ Runner(o.sym) = w
  /\ \A o \in Elems(emitted) : o.tick <= ticks_seen
                               /\ \A t \in Elems(tickq[Runner(o.sym)]) : o.tick < t.n

FlowInv ==
  /\ Along(OrderOrder, sent) /\ Along(OrderOrder, orderq)
  /\ Ahead(Elems(sent), Elems(orderq))
  /\ \A w \in Threads : Ahead(Elems(sent), Elems(hand[w])) /\ Ahead(Elems(orderq), Elems(hand[w]))

(* A thread's ids are above its first and reach its next_order_id, which   *)
(* moves at most once per tick.                                            *)
IdRoom(w) ==
  FirstId(w) <= next_id[w] /\ next_id[w] + Len(tickq[w]) <= FirstId(w) + ticks_seen
IdRange ==
  \A i \in DOMAIN emitted :
    /\ FirstId(Runner(emitted[i].sym)) < emitted[i].id
    /\ emitted[i].id <= next_id[Runner(emitted[i].sym)]
IdInv == (\A w \in Threads : IdRoom(w)) /\ IdRange /\ OrderIdsUnique

(* last_order_ns is the time of the symbol's latest order.                 *)
LastInv ==
  /\ \A i \in DOMAIN emitted :
        (\A m \in i + 1 .. Len(emitted) : emitted[m].sym # emitted[i].sym)
        => last[Runner(emitted[i].sym)][emitted[i].sym] = emitted[i].ts
  /\ CooldownKept

(* Every order emitted is published, dropped, queued or in a hand.         *)
Sending == {w \in Threads : hand[w] # <<>>}
CountInv == Len(emitted) = Len(sent) + orders_dropped + Len(orderq) + Cardinality(Sending)

(* Every tick seen was dropped or lost, or is queued or done.              *)
Share(w) == Elems(tickq[w]) \cup Elems(done[w])
Held == UNION {Share(w) : w \in Threads}
HeldInv ==
  /\ \A t \in Held : t.n <= ticks_seen
  /\ IsFiniteSet(Held)
  /\ Cardinality(Held) + ticks_dropped + lost = ticks_seen

-----------------------------------------------------------------------------
(* Sequences.                                                              *)

(* What a send adds at the end of a channel.                               *)
LEMMA AtEnd ==
  ASSUME NEW S, NEW q \in Seq(S), NEW x \in S
  PROVE  /\ Append(q, x) \in Seq(S) /\ Len(Append(q, x)) = Len(q) + 1
         /\ Elems(Append(q, x)) = Elems(q) \cup {x}
         /\ \A R : Along(R, q) /\ (\A y \in Elems(q) : <<y, x>> \in R) => Along(R, Append(q, x))
<1> DEFINE a == Append(q, x)
<1>1. a \in Seq(S) /\ Len(a) = Len(q) + 1 /\ a[Len(q) + 1] = x
      /\ DOMAIN a = 1 .. Len(q) + 1 /\ DOMAIN q = 1 .. Len(q) /\ Len(q) \in Nat
      /\ \A i \in 1 .. Len(q) : a[i] = q[i]
  OBVIOUS
<1> HIDE DEF a
<1>2. Elems(a) = Elems(q) \cup {x}
  <2>1. ASSUME NEW y \in Elems(a) PROVE y \in Elems(q) \cup {x}
    <3>1. PICK i \in 1 .. Len(q) + 1 : y = a[i]
      BY <1>1 DEF Elems
    <3>2. CASE i = Len(q) + 1
      BY <1>1, <3>1, <3>2
    <3>3. CASE i \in 1 .. Len(q)
      BY <1>1, <3>1, <3>3 DEF Elems
    <3> QED BY <1>1, <3>2, <3>3
  <2>2. x \in Elems(a) /\ Elems(q) \subseteq Elems(a)
    <3>1. Len(q) + 1 \in DOMAIN a /\ \A i \in DOMAIN q : i \in DOMAIN a
      BY <1>1
    <3> QED BY <1>1, <3>1 DEF Elems
  <2> QED BY <2>1, <2>2
<1>3. ASSUME NEW R, Along(R, q), \A y \in Elems(q) : <<y, x>> \in R PROVE Along(R, a)
  <2> SUFFICES ASSUME NEW i \in 1 .. Len(q) + 1, NEW j \in 1 .. Len(q) + 1, i < j
               PROVE  <<a[i], a[j]>> \in R
    BY <1>1 DEF Along
  <2>1. i \in 1 .. Len(q) /\ a[i] = q[i]
    BY <1>1
  <2>2. CASE j = Len(q) + 1
    BY <1>1, <1>3, <2>1, <2>2 DEF Elems
  <2>3. CASE j \in 1 .. Len(q)
    BY <1>1, <1>3, <2>1, <2>3 DEF Along
  <2> QED BY <1>1, <2>2, <2>3
<1> QED BY <1>1, <1>2, <1>3 DEF a

(* What a receive takes from its head.                                     *)
LEMMA AtHead ==
  ASSUME NEW S, NEW q \in Seq(S), q # <<>>
  PROVE  /\ Head(q) \in S /\ Tail(q) \in Seq(S) /\ Len(Tail(q)) = Len(q) - 1 /\ Len(q) >= 1
         /\ Elems(q) = Elems(Tail(q)) \cup {Head(q)}
         /\ \A R : Along(R, q) =>
              Along(R, Tail(q)) /\ (\A y \in Elems(Tail(q)) : <<Head(q), y>> \in R)
<1> DEFINE t == Tail(q)
<1>1. /\ t \in Seq(S) /\ Len(t) = Len(q) - 1 /\ Head(q) = q[1] /\ Head(q) \in S
      /\ DOMAIN q = 1 .. Len(q) /\ DOMAIN t = 1 .. Len(q) - 1 /\ Len(q) \in Nat /\ Len(q) >= 1
      /\ \A i \in 1 .. Len(q) - 1 : t[i] = q[i + 1]
  OBVIOUS
<1> HIDE DEF t
<1>2. Elems(q) = Elems(t) \cup {Head(q)}
  <2>1. ASSUME NEW y \in Elems(q) PROVE y \in Elems(t) \cup {Head(q)}
    <3>1. PICK i \in 1 .. Len(q) : y = q[i]
      BY <1>1 DEF Elems
    <3>2. CASE i = 1
      BY <1>1, <3>1, <3>2
    <3>3. CASE i # 1
      <4>1. i - 1 \in DOMAIN t /\ t[i - 1] = y
        BY <1>1, <3>1, <3>3
      <4> QED BY <4>1 DEF Elems
    <3> QED BY <3>2, <3>3
  <2>2. ASSUME NEW y \in Elems(t) PROVE y \in Elems(q)
    <3>1. PICK i \in 1 .. Len(q) - 1 : y = q[i + 1]
      BY <1>1 DEF Elems
    <3>2. i + 1 \in DOMAIN q
      BY <1>1
    <3> QED BY <3>1, <3>2 DEF Elems
  <2>3. Head(q) \in Elems(q)
    BY <1>1 DEF Elems
  <2> QED BY <2>1, <2>2, <2>3
<1>3. ASSUME NEW R, Along(R, q)
      PROVE  Along(R, t) /\ (\A y \in Elems(t) : <<Head(q), y>> \in R)
  <2>1. ASSUME NEW i \in 1 .. Len(q) - 1, NEW j \in 1 .. Len(q) - 1, i < j
        PROVE  <<t[i], t[j]>> \in R
    <3>1. i + 1 \in DOMAIN q /\ j + 1 \in DOMAIN q /\ i + 1 < j + 1
      BY <1>1, <2>1
    <3> QED BY <1>1, <1>3, <3>1 DEF Along
  <2>2. ASSUME NEW y \in Elems(t) PROVE <<Head(q), y>> \in R
    <3>1. PICK i \in 1 .. Len(q) - 1 : y = q[i + 1]
      BY <1>1, <2>2 DEF Elems
    <3>2. 1 \in DOMAIN q /\ i + 1 \in DOMAIN q /\ 1 < i + 1
      BY <1>1
    <3> QED BY <1>1, <1>3, <3>1, <3>2 DEF Along
  <2> QED BY <1>1, <2>1, <2>2 DEF Along
<1> QED BY <1>1, <1>2, <1>3 DEF t

(* An empty channel, and a hand that holds one order.                      *)
LEMMA EmptyOrOne ==
  /\ Elems(<<>>) = {} /\ (\A x : Elems(<<x>>) = {x}) /\ \A R : Along(R, <<>>)
  /\ \A S : \A h \in Seq(S) : Len(h) = 1 => \E x \in S : h = <<x>> /\ Elems(h) = {x}
  /\ \A S : \A q \in Seq(S), x \in S : q \o <<x>> = Append(q, x) /\ q \o <<>> = q
<1>1. Elems(<<>>) = {} /\ \A R : Along(R, <<>>)
  BY DEF Elems, Along
<1>2. ASSUME NEW S, NEW h \in Seq(S), Len(h) = 1 PROVE \E x \in S : h = <<x>> /\ Elems(h) = {x}
  <2>1. DOMAIN h = {1} /\ h[1] \in S /\ h = <<h[1]>>
    BY <1>2
  <2>2. Elems(h) = {h[1]}
    BY <2>1 DEF Elems
  <2> QED BY <2>1, <2>2
<1>3. ASSUME NEW S, NEW q \in Seq(S), NEW x \in S PROVE q \o <<x>> = Append(q, x) /\ q \o <<>> = q
  OBVIOUS
<1>4. ASSUME NEW x PROVE Elems(<<x>>) = {x}
  <2>1. DOMAIN <<x>> = {1} /\ <<x>>[1] = x
    OBVIOUS
  <2> QED BY <2>1 DEF Elems
<1> QED BY <1>1, <1>2, <1>3, <1>4

-----------------------------------------------------------------------------
(* Threads and ids.                                                        *)

(* Every symbol has a thread, and with workers it is one of them.          *)
LEMMA RunnerIsThread ==
  ASSUME TypeOK, NEW s \in Symbols
  PROVE  /\ Runner(s) \in Threads
         /\ workers # 0 => Runner(s) = Target(s) /\ Target(s) \in Threads /\ Target(s) < workers
<1>1. /\ workers \in Nat /\ workers <= MaxWorkers /\ MaxWorkers \in Nat \ {0} /\ Hash[s] \in Nat
  BY EngineAssumption DEF TypeOK, EnvironmentOK
<1>2. workers # 0 => Hash[s] % workers \in 0 .. workers - 1
  BY <1>1
<1> QED BY <1>1, <1>2 DEF Runner, Target, Threads

(* The id spaces of two workers are IdSpace apart, which no worker can use *)
(* up.                                                                     *)
LEMMA FirstIds ==
  ASSUME TypeOK
  PROVE  /\ \A w \in Threads : FirstId(w) \in Nat
         /\ \A v, w \in Threads : workers # 0 /\ v < w => FirstId(v) + MaxTicks < FirstId(w)
<1>1. IdSpace \in Nat /\ MaxTicks \in Nat /\ MaxTicks < IdSpace /\ MaxWorkers \in Nat
  BY EngineAssumption
<1>2. ASSUME NEW w \in Nat PROVE w * IdSpace \in Nat
  BY <1>1
<1>3. ASSUME NEW v \in Nat, NEW w \in Nat, v < w PROVE v * IdSpace + MaxTicks < w * IdSpace
  <2>1. PICK d \in Nat : w = v + 1 + d
    BY <1>3, w - v - 1 \in Nat
  <2>2. w * IdSpace = v * IdSpace + IdSpace + d * IdSpace
    BY <1>1, <2>1
  <2>3. d * IdSpace \in Nat /\ v * IdSpace \in Nat
    BY <1>2
  <2> DEFINE x == v * IdSpace
             y == d * IdSpace
             z == w * IdSpace
  <2> HIDE DEF x, y, z
  <2>4. x \in Nat /\ y \in Nat /\ z = x + IdSpace + y
    BY <2>2, <2>3 DEF x, y, z
  <2>5. x + MaxTicks < z
    BY <1>1, <2>4
  <2> QED BY <2>5 DEF x, z
<1>4. ASSUME NEW w \in Threads PROVE w \in Nat
  BY <1>1 DEF Threads
<1>5. \A w \in Threads : FirstId(w) \in Nat
  BY <1>2, <1>4 DEF FirstId
<1>6. ASSUME NEW v \in Threads, NEW w \in Threads, workers # 0, v < w
      PROVE  FirstId(v) + MaxTicks < FirstId(w)
  BY <1>3, <1>4, <1>6 DEF FirstId
<1> QED BY <1>5, <1>6

(* The tick in the dispatcher's hand.                                      *)
LEMMA TickIsTick ==
  ASSUME TypeOK, NEW s \in Symbols, ticks_seen < MaxTicks
  PROVE  Tick(s) \in Ticks /\ Tick(s).n = ticks_seen + 1 /\ Tick(s).sym = s
BY EngineAssumption DEF TypeOK, DispatcherOK, Tick, Ticks

(* strategy_step copies the tick's symbol and place into the order.        *)
LEMMA OrderIsOrder ==
  ASSUME TypeOK, NEW w \in Threads, NEW t \in Ticks
  PROVE  /\ Order(w, t) \in Orders
         /\ Order(w, t).id = next_id[w] + 1 /\ Order(w, t).sym = t.sym
         /\ Order(w, t).tick = t.n /\ Order(w, t).ts = now
         /\ t.sym \in Symbols /\ t.n \in 1 .. MaxTicks
<1>1. next_id[w] \in Nat /\ now \in 0 .. MaxTime /\ t.sym \in Symbols /\ t.n \in 1 .. MaxTicks
  BY DEF TypeOK, WorkersOK, EnvironmentOK, Ticks
<1> QED BY <1>1 DEF Order, Orders

-----------------------------------------------------------------------------
(* Types, part by part.                                                    *)

(* The clock and the flags.                                                *)
LEMMA EnvironmentTypes == TypeOK /\ [Next]_vars => EnvironmentOK'
<1> SUFFICES ASSUME TypeOK, [Next]_vars PROVE EnvironmentOK'
  OBVIOUS
<1>0. EnvironmentOK
  BY DEF TypeOK
<1>1. CASE Dispatcher \/ UNCHANGED vars
  <2>1. UNCHANGED <<workers, now, stop, late>>
    BY <1>1 DEF Dispatcher, Loop, Break, NoTick, DrainOne, DrainEnd, Join, DispatchOk, DispatchFull,
                DispatchDisconnected, InlineTick, env, vars
  <2> QED BY <1>0, <2>1 DEF EnvironmentOK
<1>2. ASSUME NEW w \in Threads, Worker(w) PROVE EnvironmentOK'
  <2>1. UNCHANGED <<workers, now, stop, late>>
    BY <1>2 DEF Worker, WorkerLoop, WorkerStep, WorkerNothing, WorkerSend, env
  <2> QED BY <1>0, <2>1 DEF EnvironmentOK
<1>3. CASE CtrlC \/ Deadline
  BY <1>0, <1>3, Zenon DEF CtrlC, Deadline, EnvironmentOK
<1>4. CASE ClockAdvances \/ ClockSetBack \/ OrderConsumed
  <2>1. now' \in 0 .. MaxTime
    BY <1>0, <1>4, EngineAssumption DEF ClockAdvances, ClockSetBack, OrderConsumed, EnvironmentOK
  <2> QED BY <1>0, <1>4, <2>1, Zenon DEF ClockAdvances, ClockSetBack, OrderConsumed, EnvironmentOK
<1> QED BY <1>1, <1>2, <1>3, <1>4 DEF Next, Environment

(* The dispatcher's counters and the ring's room.                          *)
LEMMA DispatcherTypes == TypeOK /\ [Next]_vars => DispatcherOK'
<1> SUFFICES ASSUME TypeOK, [Next]_vars PROVE DispatcherOK'
  OBVIOUS
<1> USE EngineAssumption
<1>0. /\ dpc \in {"top", "tick", "drain", "join", "final", "finished"} /\ closed \in BOOLEAN
      /\ ticks_seen \in 0 .. MaxTicks
      /\ ticks_dropped \in Nat /\ orders_dropped \in Nat /\ lost \in Nat
      /\ unread \in 0 .. RingCap
  BY DEF TypeOK, DispatcherOK
<1>1. CASE Loop \/ Break \/ NoTick \/ DrainEnd \/ Join
  <2>1. dpc' \in {"top", "tick", "drain", "join", "final", "finished"} /\ UNCHANGED <<counters, unread>>
    BY <1>0, <1>1 DEF Loop, Break, NoTick, DrainEnd, Join, AfterJoin, env
  <2>2. closed' \in BOOLEAN
    BY <1>0, <1>1, Zenon DEF Loop, Break, NoTick, DrainEnd, Join
  <2> QED BY <1>0, <2>1, <2>2 DEF DispatcherOK, counters
<1>2. ASSUME NEW o, PublishOrder(o) PROVE unread' \in 0 .. RingCap /\ orders_dropped' \in Nat
  BY <1>0, <1>2 DEF PublishOrder
<1>3. CASE DrainOne
  BY <1>0, <1>2, <1>3 DEF DrainOne, DispatcherOK
<1>4. ASSUME NEW s \in Symbols, DispatchOk(s) \/ DispatchFull(s) PROVE DispatcherOK'
  BY <1>0, <1>4 DEF DispatchOk, DispatchFull, TakeTick, DispatcherOK, env
<1>5. ASSUME NEW s \in Symbols, DispatchDisconnected(s) PROVE DispatcherOK'
  <2>1. closed' \in BOOLEAN
    BY <1>5, Zenon DEF DispatchDisconnected
  <2> QED BY <1>0, <1>5, <2>1 DEF DispatchDisconnected, TakeTick, DispatcherOK, env
<1>6. ASSUME NEW s \in Symbols, InlineTick(s) PROVE DispatcherOK'
  <2>1. unread' \in 0 .. RingCap /\ orders_dropped' \in Nat
    BY <1>0, <1>2, <1>6 DEF InlineTick
  <2> QED BY <1>0, <1>6, <2>1 DEF InlineTick, TakeTick, DispatcherOK
<1>7. ASSUME NEW w \in Threads, Worker(w) PROVE DispatcherOK'
  <2>1. UNCHANGED <<dpc, counters, closed, unread>>
    BY <1>7 DEF Worker, WorkerLoop, WorkerStep, WorkerNothing, WorkerSend, env
  <2> QED BY <1>0, <2>1 DEF DispatcherOK, counters
<1>8. CASE Environment \/ UNCHANGED vars
  <2>1. UNCHANGED <<dpc, counters, closed>> /\ unread' \in 0 .. RingCap
    BY <1>0, <1>8 DEF Environment, CtrlC, Deadline, ClockAdvances, ClockSetBack, OrderConsumed, vars, env
  <2> QED BY <1>0, <2>1 DEF DispatcherOK, counters
<1> QED BY <1>1, <1>3, <1>4, <1>5, <1>6, <1>7, <1>8 DEF Next, Dispatcher

(* strategy_step keeps the types of what it changes.                       *)
LEMMA StrategyTypes ==
  ASSUME TypeOK, NEW w \in Threads, NEW t \in Ticks, NoOrder(w, t) \/ EmitOrder(w, t)
  PROVE  /\ known' \in [Threads -> SUBSET Symbols]
         /\ last' \in [Threads -> [Symbols -> 0 .. MaxTime]]
         /\ next_id' \in [Threads -> Nat]
         /\ done' \in [Threads -> Seq(Ticks)] /\ emitted' \in Seq(Orders)
<1>1. WorkersOK /\ now \in 0 .. MaxTime /\ done \in [Threads -> Seq(Ticks)] /\ emitted \in Seq(Orders)
  BY DEF TypeOK, EnvironmentOK, TicksOK, OrdersOK
<1>2. t.sym \in Symbols /\ Order(w, t) \in Orders
  BY OrderIsOrder
<1>3. done' \in [Threads -> Seq(Ticks)]
  <2>1. Append(done[w], t) \in Seq(Ticks) /\ done' = [done EXCEPT ![w] = Append(done[w], t)]
    BY <1>1, AtEnd DEF NoOrder, EmitOrder
  <2> QED BY <1>1, <2>1
<1>4. CASE NoOrder(w, t)
  BY <1>1, <1>2, <1>3, <1>4 DEF NoOrder, WorkersOK
<1>5. CASE EmitOrder(w, t)
  <2>1. emitted' \in Seq(Orders)
    BY <1>1, <1>2, <1>5, AtEnd DEF EmitOrder
  <2>2. last' \in [Threads -> [Symbols -> 0 .. MaxTime]]
    BY <1>1, <1>2, <1>5 DEF EmitOrder, WorkersOK
  <2>3. known' \in [Threads -> SUBSET Symbols] /\ next_id' \in [Threads -> Nat]
    BY <1>1, <1>5 DEF EmitOrder, WorkersOK
  <2> QED BY <1>3, <2>1, <2>2, <2>3
<1> QED BY <1>4, <1>5

(* The workers' strategy state, the ticks and the orders.                  *)
LEMMA WorkerTypes == TypeOK /\ [Next]_vars => WorkersOK' /\ TicksOK' /\ OrdersOK'
<1> SUFFICES ASSUME TypeOK, [Next]_vars PROVE WorkersOK' /\ TicksOK' /\ OrdersOK'
  OBVIOUS
<1>0. WorkersOK /\ TicksOK /\ OrdersOK
  BY DEF TypeOK
<1> DEFINE channels == <<tickq, orderq, hand>>
<1>1. CASE \/ Loop \/ Break \/ NoTick \/ DrainEnd \/ Join \/ Environment \/ UNCHANGED vars
           \/ \E s \in Symbols : DispatchFull(s) \/ DispatchDisconnected(s)
  <2>1. UNCHANGED <<wpc, strategy, channels, done, emitted, sent>>
    BY <1>1 DEF Loop, Break, NoTick, DrainEnd, Join, Environment, DispatchFull, DispatchDisconnected,
                CtrlC, Deadline, ClockAdvances, ClockSetBack, OrderConsumed, vars
  <2> QED BY <1>0, <2>1 DEF WorkersOK, TicksOK, OrdersOK, strategy
<1>2. CASE DrainOne
  <2>1. /\ UNCHANGED <<wpc, strategy, tickq, hand, done, emitted>>
        /\ orderq # <<>> /\ orderq' = Tail(orderq)
        /\ sent' = sent \/ sent' = Append(sent, Head(orderq))
    BY <1>2 DEF DrainOne, PublishOrder
  <2>2. Head(orderq) \in Orders /\ Tail(orderq) \in Seq(Orders)
    BY <1>0, <2>1, AtHead DEF OrdersOK
  <2>3. Append(sent, Head(orderq)) \in Seq(Orders)
    BY <1>0, <2>2, AtEnd DEF OrdersOK
  <2> QED BY <1>0, <2>1, <2>2, <2>3 DEF WorkersOK, TicksOK, OrdersOK, strategy
<1>3. ASSUME NEW s \in Symbols, DispatchOk(s) PROVE WorkersOK' /\ TicksOK' /\ OrdersOK'
  <2>1. Target(s) \in Threads /\ Tick(s) \in Ticks
    BY <1>3, RunnerIsThread, TickIsTick DEF DispatchOk, TakeTick
  <2>2. /\ UNCHANGED <<wpc, strategy, orderq, hand, done, emitted, sent>>
        /\ tickq' = [tickq EXCEPT ![Target(s)] = Append(tickq[Target(s)], Tick(s))]
    BY <1>3 DEF DispatchOk
  <2>3. Append(tickq[Target(s)], Tick(s)) \in Seq(Ticks)
    BY <1>0, <2>1, AtEnd DEF TicksOK
  <2>4. TicksOK'
    BY <1>0, <2>1, <2>2, <2>3 DEF TicksOK
  <2> QED BY <1>0, <2>2, <2>4 DEF WorkersOK, OrdersOK, strategy
<1>4. ASSUME NEW s \in Symbols, InlineTick(s) PROVE WorkersOK' /\ TicksOK' /\ OrdersOK'
  <2>1. 0 \in Threads /\ Tick(s) \in Ticks
    BY <1>4, TickIsTick, EngineAssumption DEF InlineTick, TakeTick, Threads
  <2>2. /\ NoOrder(0, Tick(s)) \/ EmitOrder(0, Tick(s))
        /\ UNCHANGED <<wpc, tickq, orderq, hand>>
        /\ sent' = sent \/ sent' = Append(sent, Order(0, Tick(s)))
    BY <1>4 DEF InlineTick, PublishOrder
  <2>a. Order(0, Tick(s)) \in Orders
    BY <2>1, OrderIsOrder
  <2>3. Append(sent, Order(0, Tick(s))) \in Seq(Orders)
    BY <1>0, <2>a, AtEnd DEF OrdersOK
  <2>4. /\ known' \in [Threads -> SUBSET Symbols]
        /\ last' \in [Threads -> [Symbols -> 0 .. MaxTime]]
        /\ next_id' \in [Threads -> Nat]
        /\ done' \in [Threads -> Seq(Ticks)] /\ emitted' \in Seq(Orders)
    BY <2>1, <2>2, StrategyTypes
  <2> QED BY <1>0, <2>2, <2>3, <2>4 DEF WorkersOK, TicksOK, OrdersOK
<1>5. ASSUME NEW w \in Threads, WorkerLoop(w) \/ WorkerNothing(w)
      PROVE  WorkersOK' /\ TicksOK' /\ OrdersOK'
  <2>1. UNCHANGED <<strategy, channels, done, emitted, sent>>
    BY <1>5 DEF WorkerLoop, WorkerNothing
  <2>2. wpc' \in [Threads -> {"top", "recv", "send", "done"}]
    BY <1>0, <1>5 DEF WorkerLoop, WorkerNothing, WorkersOK
  <2> QED BY <1>0, <2>1, <2>2 DEF WorkersOK, TicksOK, OrdersOK, strategy
<1>6. ASSUME NEW w \in Threads, WorkerStep(w) PROVE WorkersOK' /\ TicksOK' /\ OrdersOK'
  <2> DEFINE t == Head(tickq[w])
  <2>1. /\ NoOrder(w, t) \/ EmitOrder(w, t)
        /\ UNCHANGED <<orderq, sent>> /\ tickq[w] # <<>>
        /\ tickq' = [tickq EXCEPT ![w] = Tail(tickq[w])]
        /\ wpc' = [wpc EXCEPT ![w] = "top"] \/ wpc' = [wpc EXCEPT ![w] = "send"]
        /\ hand' = hand \/ hand' = [hand EXCEPT ![w] = <<Order(w, t)>>]
    BY <1>6 DEF WorkerStep
  <2>2. t \in Ticks /\ Tail(tickq[w]) \in Seq(Ticks)
    BY <1>0, <2>1, AtHead DEF TicksOK
  <2> HIDE DEF t
  <2>3. Order(w, t) \in Orders
    BY <2>2, OrderIsOrder
  <2>4. <<Order(w, t)>> \in Seq(Orders)
    BY <2>3
  <2>5. /\ known' \in [Threads -> SUBSET Symbols]
        /\ last' \in [Threads -> [Symbols -> 0 .. MaxTime]]
        /\ next_id' \in [Threads -> Nat]
        /\ done' \in [Threads -> Seq(Ticks)] /\ emitted' \in Seq(Orders)
    BY <2>1, <2>2, StrategyTypes
  <2>6. wpc' \in [Threads -> {"top", "recv", "send", "done"}] /\ tickq' \in [Threads -> Seq(Ticks)]
        /\ hand' \in [Threads -> Seq(Orders)]
    BY <1>0, <2>1, <2>2, <2>4 DEF WorkersOK, TicksOK, OrdersOK
  <2> QED BY <1>0, <2>1, <2>5, <2>6 DEF WorkersOK, TicksOK, OrdersOK
<1>7. ASSUME NEW w \in Threads, WorkerSend(w) PROVE WorkersOK' /\ TicksOK' /\ OrdersOK'
  <2>1. /\ UNCHANGED <<strategy, tickq, done, emitted, sent>>
        /\ orderq' = orderq \o hand[w] /\ hand' = [hand EXCEPT ![w] = <<>>]
        /\ wpc' = [wpc EXCEPT ![w] = "top"]
    BY <1>7 DEF WorkerSend
  <2>2. hand[w] \in Seq(Orders) /\ <<>> \in Seq(Orders)
    BY <1>0 DEF OrdersOK
  <2>3. orderq' \in Seq(Orders)
    BY <1>0, <2>1, <2>2 DEF OrdersOK
  <2> QED BY <1>0, <2>1, <2>2, <2>3 DEF WorkersOK, TicksOK, OrdersOK, strategy
<1> QED BY <1>1, <1>2, <1>3, <1>4, <1>5, <1>6, <1>7 DEF Next, Dispatcher, Worker

(* Type correctness of the engine.                                         *)
THEOREM TypeCorrect == Spec => []TypeOK
<1>1. Init => TypeOK
  <2> SUFFICES ASSUME Init PROVE TypeOK
    OBVIOUS
  <2>0. stop \in BOOLEAN /\ late \in BOOLEAN /\ closed \in BOOLEAN
    BY Zenon DEF Init
  <2>1. EnvironmentOK /\ DispatcherOK
    BY <2>0, EngineAssumption DEF Init, EnvironmentOK, DispatcherOK
  <2>2. ASSUME NEW w \in Threads PROVE FirstId(w) \in Nat
    <3>1. w \in Nat /\ IdSpace \in Nat
      BY EngineAssumption DEF Threads
    <3>2. w * IdSpace \in Nat
      BY <3>1
    <3> QED BY <3>2 DEF FirstId
  <2>3. WorkersOK /\ TicksOK /\ OrdersOK
    BY <2>2, EngineAssumption DEF Init, WorkersOK, TicksOK, OrdersOK
  <2> QED BY <2>1, <2>3 DEF TypeOK
<1>2. TypeOK /\ [Next]_vars => TypeOK'
  BY EnvironmentTypes, DispatcherTypes, WorkerTypes DEF TypeOK
<1> QED BY <1>1, <1>2, PTL DEF Spec

-----------------------------------------------------------------------------
(* Who holds an order, and who ends when: a worker holds one exactly while *)
(* it is blocked in send, and ends for ctrl-c or the closed channel.       *)
LEMMA ThreadStep == TypeOK /\ ThreadInv /\ [Next]_vars => ThreadInv'
<1> SUFFICES ASSUME TypeOK, ThreadInv, [Next]_vars PROVE ThreadInv'
  OBVIOUS
<1>0. /\ wpc \in [Threads -> {"top", "recv", "send", "done"}] /\ hand \in [Threads -> Seq(Orders)]
      /\ stop \in BOOLEAN /\ closed \in BOOLEAN /\ orderq \in Seq(Orders)
      /\ dpc \in {"top", "tick", "drain", "join", "final", "finished"}
  BY DEF TypeOK, EnvironmentOK, DispatcherOK, WorkersOK, OrdersOK
<1>1. CASE Loop \/ NoTick \/ Break
  <2>1. /\ UNCHANGED <<workers, stop, wpc, hand, orderq>> /\ dpc \in {"top", "tick"}
        /\ \/ closed' = closed /\ dpc' \in {"top", "tick", "drain"}
           \/ closed' = TRUE /\ dpc' = "join"
    BY <1>1, Zenon DEF Loop, NoTick, Break, env
  <2> QED BY <2>1 DEF ThreadInv
<1>2. CASE DrainEnd \/ Join
  <2>1. /\ UNCHANGED <<workers, stop, wpc, hand, orderq, closed>>
        /\ \/ dpc = "drain" /\ dpc' = "top"
           \/ dpc = "final" /\ dpc' = "finished" /\ orderq = <<>>
           \/ dpc = "join" /\ dpc' = "final" /\ \A w \in Threads : wpc[w] = "done"
    BY <1>2 DEF DrainEnd, Join, AfterJoin, env
  <2> QED BY <2>1 DEF ThreadInv
<1>3. CASE DrainOne
  <2>1. /\ UNCHANGED <<workers, stop, wpc, hand, closed, dpc>> /\ orderq # <<>>
        /\ dpc \in {"drain", "final"}
    BY <1>3 DEF DrainOne
  <2> QED BY <2>1 DEF ThreadInv
<1>4. ASSUME NEW s \in Symbols, \/ DispatchOk(s) \/ DispatchFull(s) \/ DispatchDisconnected(s)
                               \/ InlineTick(s)
      PROVE  ThreadInv'
  <2>1. /\ UNCHANGED <<workers, stop, wpc, hand, orderq>> /\ dpc = "tick"
        /\ \/ closed' = closed /\ dpc' \in {"top", "drain"}
           \/ closed' = TRUE /\ dpc' = "join"
    BY <1>4, Zenon DEF DispatchOk, DispatchFull, DispatchDisconnected, InlineTick, TakeTick, env
  <2> QED BY <2>1 DEF ThreadInv
<1>5. ASSUME NEW w \in Threads, WorkerLoop(w) \/ WorkerNothing(w) PROVE ThreadInv'
  <2>1. UNCHANGED <<workers, stop, hand, orderq, closed, dpc>> /\ wpc[w] \in {"top", "recv"}
    BY <1>5 DEF WorkerLoop, WorkerNothing, env
  <2>2. \/ wpc' = [wpc EXCEPT ![w] = "recv"] \/ wpc' = [wpc EXCEPT ![w] = "top"]
        \/ wpc' = [wpc EXCEPT ![w] = "done"] /\ (stop \/ closed)
    BY <1>5, Zenon DEF WorkerLoop, WorkerNothing, WorkerEnds
  <2> QED BY <1>0, <2>1, <2>2 DEF ThreadInv
<1>6. ASSUME NEW w \in Threads, WorkerStep(w) PROVE ThreadInv'
  <2>1. /\ UNCHANGED <<workers, stop, orderq, closed, dpc>> /\ wpc[w] = "recv"
        /\ \/ wpc' = [wpc EXCEPT ![w] = "top"] /\ hand' = hand
           \/ \E o : wpc' = [wpc EXCEPT ![w] = "send"] /\ hand' = [hand EXCEPT ![w] = <<o>>]
    BY <1>6 DEF WorkerStep, env
  <2>2. /\ \/ wpc'[w] = "top" /\ hand'[w] = hand[w]
           \/ wpc'[w] = "send" /\ Len(hand'[w]) = 1
        /\ \A v \in Threads : v # w => wpc'[v] = wpc[v] /\ hand'[v] = hand[v]
    BY <1>0, <2>1
  <2> QED BY <2>1, <2>2 DEF ThreadInv
<1>7. ASSUME NEW w \in Threads, WorkerSend(w) PROVE ThreadInv'
  <2>1. /\ UNCHANGED <<workers, stop, closed, dpc>> /\ wpc[w] = "send"
        /\ wpc' = [wpc EXCEPT ![w] = "top"] /\ hand' = [hand EXCEPT ![w] = <<>>]
    BY <1>7 DEF WorkerSend, env
  <2>2. /\ wpc'[w] = "top" /\ hand'[w] = <<>>
        /\ \A v \in Threads : v # w => wpc'[v] = wpc[v] /\ hand'[v] = hand[v]
    BY <1>0, <2>1
  <2> QED BY <2>1, <2>2 DEF ThreadInv
<1>8. CASE Environment \/ UNCHANGED vars
  <2>1. UNCHANGED <<workers, wpc, hand, orderq, closed, dpc>>
    BY <1>8 DEF Environment, CtrlC, Deadline, ClockAdvances, ClockSetBack, OrderConsumed, vars
  <2>2. stop' = TRUE \/ stop' = stop
    BY <1>8 DEF Environment, CtrlC, Deadline, ClockAdvances, ClockSetBack, OrderConsumed, vars, env
  <2> QED BY <2>1, <2>2 DEF ThreadInv
<1> QED BY <1>1, <1>2, <1>3, <1>4, <1>5, <1>6, <1>7, <1>8 DEF Next, Dispatcher, Worker

(* Until ctrl-c, a worker ends when its channel is closed and empty.       *)
LEMMA KeptStep == TypeOK /\ ThreadInv /\ KeptInv /\ [Next]_vars => KeptInv'
<1> SUFFICES ASSUME TypeOK, ThreadInv, KeptInv, [Next]_vars, ~stop' PROVE KeptInv'
  BY DEF KeptInv
<1>0. /\ wpc \in [Threads -> {"top", "recv", "send", "done"}] /\ tickq \in [Threads -> Seq(Ticks)]
      /\ stop \in BOOLEAN /\ closed \in BOOLEAN
  BY DEF TypeOK, EnvironmentOK, DispatcherOK, WorkersOK, TicksOK
<1>a. ~stop
  BY Zenon DEF Next, Dispatcher, Worker, Environment, Loop, Break, NoTick, DrainOne, DrainEnd, Join,
     DispatchOk, DispatchFull, DispatchDisconnected, InlineTick, WorkerLoop, WorkerStep, WorkerNothing,
     WorkerSend, CtrlC, Deadline, ClockAdvances, ClockSetBack, OrderConsumed, vars, env
<1>b. lost = 0 /\ \A w \in Threads : wpc[w] = "done" => tickq[w] = <<>>
  BY <1>a DEF KeptInv
<1>1. CASE \/ Loop \/ Break \/ NoTick \/ DrainEnd \/ DrainOne \/ Join \/ Environment \/ UNCHANGED vars
           \/ \E s \in Symbols : DispatchFull(s) \/ InlineTick(s)
  <2>1. UNCHANGED <<wpc, tickq, lost>>
    BY <1>1 DEF Loop, Break, NoTick, DrainEnd, DrainOne, Join, Environment, CtrlC, Deadline, ClockAdvances,
                ClockSetBack, OrderConsumed, DispatchFull, InlineTick, vars, counters
  <2> QED BY <1>b, <2>1 DEF KeptInv
<1>2. ASSUME NEW s \in Symbols, DispatchOk(s) PROVE KeptInv'
  <2>1. /\ UNCHANGED <<wpc, lost>> /\ wpc[Target(s)] # "done"
        /\ tickq' = [tickq EXCEPT ![Target(s)] = Append(tickq[Target(s)], Tick(s))]
    BY <1>2 DEF DispatchOk
  <2> QED BY <1>0, <1>b, <2>1 DEF KeptInv
<1>3. ASSUME NEW s \in Symbols, DispatchDisconnected(s) PROVE FALSE
  <2>1. workers # 0 /\ wpc[Target(s)] = "done" /\ dpc = "tick"
    BY <1>3, EngineAssumption DEF DispatchDisconnected, TakeTick
  <2>2. Target(s) \in Threads /\ Target(s) < workers
    BY <2>1, RunnerIsThread
  <2> QED BY <1>a, <2>1, <2>2 DEF ThreadInv
<1>4. ASSUME NEW w \in Threads, WorkerLoop(w) PROVE KeptInv'
  <2>1. UNCHANGED <<tickq, lost>> /\ wpc' = [wpc EXCEPT ![w] = "recv"]
    BY <1>4, <1>a, Zenon DEF WorkerLoop, WorkerEnds, counters
  <2> QED BY <1>0, <1>b, <2>1 DEF KeptInv
<1>5. ASSUME NEW w \in Threads, WorkerNothing(w) PROVE KeptInv'
  <2>1. UNCHANGED <<tickq, lost>> /\ tickq[w] = <<>> /\ \E c : wpc' = [wpc EXCEPT ![w] = c]
    BY <1>5, Zenon DEF WorkerNothing, counters
  <2> QED BY <1>0, <1>b, <2>1 DEF KeptInv
<1>6. ASSUME NEW w \in Threads, WorkerStep(w) \/ WorkerSend(w) PROVE KeptInv'
  <2>1. /\ lost' = lost /\ wpc[w] # "done" /\ \E c \in {"top", "send"} : wpc' = [wpc EXCEPT ![w] = c]
        /\ tickq' = tickq \/ tickq' = [tickq EXCEPT ![w] = Tail(tickq[w])]
    BY <1>6 DEF WorkerStep, WorkerSend, counters
  <2> QED BY <1>0, <1>b, <2>1 DEF KeptInv
<1> QED BY <1>1, <1>2, <1>3, <1>4, <1>5, <1>6 DEF Next, Dispatcher, Worker

(* The dispatcher, the workers and their channels end in order, whatever   *)
(* ends the run (main.rs:405-420, 486-530).                                *)
THEOREM ThreadInvariant == Spec => [](ThreadInv /\ KeptInv)
<1>1. Init => ThreadInv /\ KeptInv
  <2> SUFFICES ASSUME Init PROVE ThreadInv /\ KeptInv
    OBVIOUS
  <2>1. \A w \in Threads : /\ wpc[w] \in {"top", "done"} /\ (wpc[w] = "done" => ~(w < workers))
                           /\ (workers = 0 => wpc[w] = "done")
    BY EngineAssumption DEF Init, Threads
  <2>2. /\ \A w \in Threads : hand[w] = <<>> /\ tickq[w] = <<>>
        /\ ~closed /\ orderq = <<>> /\ dpc = "top" /\ lost = 0
    BY DEF Init
  <2> QED BY <2>1, <2>2 DEF ThreadInv, KeptInv
<1> QED BY <1>1, ThreadStep, KeptStep, TypeCorrect, PTL DEF Spec

-----------------------------------------------------------------------------
(* The steps, as they are seen by ticks and orders.                        *)

(* No tick or order moves.                                                 *)
Quiet == UNCHANGED <<workers, tickq, orderq, hand, emitted, sent, done, counters, next_id, last>>

(* The dispatcher takes a tick off the ring and drops or loses it.         *)
Skip ==
  /\ UNCHANGED <<workers, tickq, orderq, hand, wpc, emitted, sent, done, orders_dropped, next_id, last>>
  /\ ticks_seen' = ticks_seen + 1
  /\ \/ ticks_dropped' = ticks_dropped + 1 /\ lost' = lost
     \/ ticks_dropped' = ticks_dropped /\ lost' = lost + 1

(* A worker takes tick t and its strategy emits no order or one.           *)
Takes(w, t) ==
  /\ t \in Elems(tickq[w]) /\ tickq[w] \in Seq(Ticks) /\ tickq'[w] \in Seq(Ticks)
  /\ Elems(tickq[w]) = Elems(tickq'[w]) \cup {t}
  /\ Len(tickq[w]) = Len(tickq'[w]) + 1
  /\ Along(TickOrder, tickq[w]) => /\ Along(TickOrder, tickq'[w])
                                   /\ \A y \in Elems(tickq'[w]) : t.n < y.n
  /\ \A v \in Threads : v # w => tickq'[v] = tickq[v] /\ hand'[v] = hand[v] /\ wpc'[v] = wpc[v]
  /\ wpc[w] = "recv" /\ hand[w] = <<>>
  /\ UNCHANGED <<workers, orderq, sent, counters>>

TakesQuietly(w, t) == Takes(w, t) /\ NoOrder(w, t) /\ wpc'[w] = "top" /\ hand'[w] = <<>>
TakesAndEmits(w, t) ==
  Takes(w, t) /\ EmitOrder(w, t) /\ wpc'[w] = "send" /\ hand'[w] = <<Order(w, t)>>

(* A worker's order goes into the channel, ...                             *)
Sends(w, o) ==
  /\ Elems(hand[w]) = {o} /\ hand'[w] = <<>> /\ orderq' = Append(orderq, o)
  /\ \A v \in Threads : v # w => hand'[v] = hand[v] /\ wpc'[v] = wpc[v]
  /\ wpc[w] = "send" /\ wpc'[w] = "top"
  /\ UNCHANGED <<workers, tickq, emitted, sent, done, counters, next_id, last>>

(* ... and from there to the ring, or is dropped.                          *)
Publishes(o) ==
  \/ sent' = Append(sent, o) /\ orders_dropped' = orders_dropped
  \/ sent' = sent /\ orders_dropped' = orders_dropped + 1

Drains(o) ==
  /\ Elems(orderq) = Elems(orderq') \cup {o} /\ Len(orderq) = Len(orderq') + 1
  /\ Along(OrderOrder, orderq) => /\ Along(OrderOrder, orderq')
                                  /\ \A y \in Elems(orderq') : <<o, y>> \in OrderOrder
  /\ Publishes(o)
  /\ UNCHANGED <<workers, tickq, hand, wpc, emitted, done, ticks_seen, ticks_dropped, lost, next_id, last>>

(* The strategy runs inline.                                               *)
Inline(t) ==
  /\ workers = 0 /\ t.n = ticks_seen + 1
  /\ ticks_seen' = ticks_seen + 1
  /\ UNCHANGED <<workers, tickq, orderq, hand, wpc, ticks_dropped, lost>>

InlineQuietly(t) == Inline(t) /\ NoOrder(0, t) /\ UNCHANGED <<sent, orders_dropped>>
InlineEmits(t) == Inline(t) /\ EmitOrder(0, t) /\ Publishes(Order(0, t))

(* The dispatcher hands a tick to its worker.                              *)
Routes(w, t) ==
  /\ workers # 0 /\ w = Runner(t.sym) /\ t.n = ticks_seen + 1
  /\ tickq[w] \in Seq(Ticks) /\ tickq'[w] = Append(tickq[w], t)
  /\ \A v \in Threads : v # w => tickq'[v] = tickq[v]
  /\ ticks_seen' = ticks_seen + 1
  /\ UNCHANGED <<workers, orderq, hand, wpc, emitted, sent, done, ticks_dropped, lost, orders_dropped,
                 next_id, last>>

(* Every step of the engine is one of these.                               *)
LEMMA StepKinds ==
  TypeOK /\ ThreadInv /\ [Next]_vars =>
    \/ Quiet \/ Skip
    \/ \E w \in Threads, t \in Ticks : TakesQuietly(w, t) \/ TakesAndEmits(w, t) \/ Routes(w, t)
    \/ \E t \in Ticks : InlineQuietly(t) \/ InlineEmits(t)
    \/ \E o \in Orders : Drains(o) \/ \E w \in Threads : Sends(w, o)
<1> SUFFICES ASSUME TypeOK, ThreadInv, [Next]_vars
             PROVE  \/ Quiet \/ Skip
                    \/ \E w \in Threads, t \in Ticks :
                         TakesQuietly(w, t) \/ TakesAndEmits(w, t) \/ Routes(w, t)
                    \/ \E t \in Ticks : InlineQuietly(t) \/ InlineEmits(t)
                    \/ \E o \in Orders : Drains(o) \/ \E w \in Threads : Sends(w, o)
  OBVIOUS
<1>0. /\ wpc \in [Threads -> {"top", "recv", "send", "done"}] /\ tickq \in [Threads -> Seq(Ticks)]
      /\ hand \in [Threads -> Seq(Orders)] /\ orderq \in Seq(Orders) /\ sent \in Seq(Orders)
  BY DEF TypeOK, WorkersOK, TicksOK, OrdersOK
<1>1. ASSUME \/ Loop \/ Break \/ NoTick \/ DrainEnd \/ Join \/ Environment \/ UNCHANGED vars
             \/ \E w \in Threads : WorkerLoop(w) \/ WorkerNothing(w)
      PROVE  Quiet
  BY <1>1 DEF Loop, Break, NoTick, DrainEnd, Join, Environment, CtrlC, Deadline, ClockAdvances, ClockSetBack,
              OrderConsumed, WorkerLoop, WorkerNothing, vars, strategy, Quiet
<1>2. ASSUME NEW s \in Symbols, DispatchFull(s) \/ DispatchDisconnected(s) PROVE Skip
  BY <1>2 DEF DispatchFull, DispatchDisconnected, TakeTick, Skip, strategy
<1>3. ASSUME NEW s \in Symbols, DispatchOk(s) PROVE \E w \in Threads, t \in Ticks : Routes(w, t)
  <2>1. workers # 0 /\ ticks_seen < MaxTicks
    BY <1>3, EngineAssumption DEF DispatchOk, TakeTick
  <2>2. /\ Target(s) \in Threads /\ Runner(s) = Target(s)
        /\ Tick(s) \in Ticks /\ Tick(s).n = ticks_seen + 1 /\ Tick(s).sym = s
    BY <2>1, RunnerIsThread, TickIsTick
  <2>3. /\ tickq' = [tickq EXCEPT ![Target(s)] = Append(tickq[Target(s)], Tick(s))]
        /\ ticks_seen' = ticks_seen + 1
        /\ UNCHANGED <<workers, orderq, hand, wpc, emitted, sent, done, ticks_dropped, lost,
                       orders_dropped, next_id, last>>
    BY <1>3 DEF DispatchOk, TakeTick, strategy
  <2>4. /\ tickq[Target(s)] \in Seq(Ticks) /\ tickq'[Target(s)] = Append(tickq[Target(s)], Tick(s))
        /\ \A v \in Threads : v # Target(s) => tickq'[v] = tickq[v]
    BY <1>0, <2>2, <2>3
  <2>5. Routes(Target(s), Tick(s))
    BY <2>1, <2>2, <2>3, <2>4, Zenon DEF Routes
  <2> QED BY <2>2, <2>5
<1>4. ASSUME NEW o, PublishOrder(o) PROVE Publishes(o)
  BY <1>4 DEF PublishOrder, Publishes
<1>5. ASSUME NEW s \in Symbols, InlineTick(s) PROVE \E t \in Ticks : InlineQuietly(t) \/ InlineEmits(t)
  <2>1. Tick(s) \in Ticks /\ Tick(s).n = ticks_seen + 1
    BY <1>5, TickIsTick DEF InlineTick, TakeTick
  <2>2. Inline(Tick(s))
    BY <1>5, <2>1 DEF InlineTick, TakeTick, Inline
  <2>3. InlineQuietly(Tick(s)) \/ InlineEmits(Tick(s))
    BY <1>4, <1>5, <2>2 DEF InlineTick, InlineQuietly, InlineEmits
  <2> QED BY <2>1, <2>3
<1>6. ASSUME DrainOne PROVE \E o \in Orders : Drains(o)
  <2>1. /\ orderq # <<>> /\ orderq' = Tail(orderq) /\ PublishOrder(Head(orderq))
        /\ UNCHANGED <<workers, tickq, hand, wpc, emitted, done, ticks_seen, ticks_dropped, lost, next_id, last>>
    BY <1>6 DEF DrainOne, strategy
  <2>2. Head(orderq) \in Orders
    BY <1>0, <2>1, AtHead
  <2>3. Elems(orderq) = Elems(orderq') \cup {Head(orderq)} /\ Len(orderq) = Len(orderq') + 1
    <3>1. Elems(orderq) = Elems(Tail(orderq)) \cup {Head(orderq)}
      BY <1>0, <2>1, AtHead
    <3>2. Len(orderq) = Len(Tail(orderq)) + 1
      BY <1>0, <2>1
    <3> QED BY <2>1, <3>1, <3>2
  <2>4. Along(OrderOrder, orderq) =>
           Along(OrderOrder, orderq') /\ \A y \in Elems(orderq') : <<Head(orderq), y>> \in OrderOrder
    BY <1>0, <2>1, AtHead
  <2>5. Drains(Head(orderq))
    BY <1>4, <2>1, <2>3, <2>4, Zenon DEF Drains
  <2> QED BY <2>2, <2>5
<1>7. ASSUME NEW w \in Threads, WorkerStep(w)
      PROVE  \E t \in Ticks : TakesQuietly(w, t) \/ TakesAndEmits(w, t)
  <2> DEFINE q == tickq[w]
             t == Head(q)
  <2>1. /\ wpc[w] = "recv" /\ q # <<>> /\ tickq' = [tickq EXCEPT ![w] = Tail(q)]
        /\ UNCHANGED <<workers, orderq, sent, counters>>
        /\ \/ NoOrder(w, t) /\ wpc' = [wpc EXCEPT ![w] = "top"] /\ hand' = hand
           \/ /\ EmitOrder(w, t) /\ wpc' = [wpc EXCEPT ![w] = "send"]
              /\ hand' = [hand EXCEPT ![w] = <<Order(w, t)>>]
    BY <1>7 DEF WorkerStep
  <2>2. q \in Seq(Ticks) /\ tickq'[w] = Tail(q) /\ hand[w] = <<>>
    BY <1>0, <2>1 DEF ThreadInv
  <2>3. \A v \in Threads : v # w => tickq'[v] = tickq[v] /\ hand'[v] = hand[v] /\ wpc'[v] = wpc[v]
    BY <1>0, <2>1
  <2>4. \/ NoOrder(w, t) /\ wpc'[w] = "top" /\ hand'[w] = <<>>
        \/ EmitOrder(w, t) /\ wpc'[w] = "send" /\ hand'[w] = <<Order(w, t)>>
    BY <1>0, <2>1, <2>2
  <2>5. t \in Ticks /\ Tail(q) \in Seq(Ticks) /\ Elems(q) = Elems(Tail(q)) \cup {t}
    BY <2>1, <2>2, AtHead
  <2>6. Len(q) = Len(Tail(q)) + 1
    BY <2>1, <2>2
  <2>7. Along(TickOrder, q) => Along(TickOrder, Tail(q)) /\ \A y \in Elems(Tail(q)) : t.n < y.n
    <3>1. Along(TickOrder, q) =>
            Along(TickOrder, Tail(q)) /\ \A y \in Elems(Tail(q)) : <<t, y>> \in TickOrder
      BY <2>1, <2>2, AtHead
    <3> QED BY <3>1 DEF TickOrder
  <2>8. Takes(w, t)
    BY <2>1, <2>2, <2>3, <2>5, <2>6, <2>7 DEF Takes
  <2>9. TakesQuietly(w, t) \/ TakesAndEmits(w, t)
    BY <2>4, <2>8 DEF TakesQuietly, TakesAndEmits
  <2> QED BY <2>5, <2>9
<1>8. ASSUME NEW w \in Threads, WorkerSend(w) PROVE \E o \in Orders : Sends(w, o)
  <2>1. /\ wpc[w] = "send" /\ orderq' = orderq \o hand[w] /\ hand' = [hand EXCEPT ![w] = <<>>]
        /\ wpc' = [wpc EXCEPT ![w] = "top"]
        /\ UNCHANGED <<workers, tickq, emitted, sent, done, counters, next_id, last>>
    BY <1>8 DEF WorkerSend, strategy
  <2>2. hand[w] \in Seq(Orders) /\ Len(hand[w]) = 1
    BY <1>0, <2>1 DEF ThreadInv
  <2>3. PICK o \in Orders : hand[w] = <<o>> /\ Elems(hand[w]) = {o}
    BY <2>2, EmptyOrOne
  <2>4. orderq' = Append(orderq, o)
    BY <1>0, <2>1, <2>3, EmptyOrOne
  <2>5. /\ hand'[w] = <<>> /\ wpc'[w] = "top"
        /\ \A v \in Threads : v # w => hand'[v] = hand[v] /\ wpc'[v] = wpc[v]
    BY <1>0, <2>1
  <2> QED BY <2>1, <2>3, <2>4, <2>5 DEF Sends
<1> QED BY <1>1, <1>2, <1>3, <1>5, <1>6, <1>7, <1>8 DEF Next, Dispatcher, Worker

(* A symbol keeps its thread, because --workers is read once.              *)
LEMMA RunnerIsFixed ==
  ASSUME workers' = workers
  PROVE  \A s : (Runner(s))' = Runner(s)
BY DEF Runner, Target

(* What an emitted order adds.                                             *)
LEMMA Emission ==
  ASSUME TypeOK, NEW w \in Threads, NEW t \in Ticks, EmitOrder(w, t)
  PROVE  /\ emitted' = Append(emitted, Order(w, t))
         /\ Elems(emitted') = Elems(emitted) \cup {Order(w, t)}
         /\ Len(emitted') = Len(emitted) + 1
         /\ done' = [done EXCEPT ![w] = Append(done[w], t)]
<1>1. emitted \in Seq(Orders) /\ Order(w, t) \in Orders
  BY OrderIsOrder DEF TypeOK, OrdersOK
<1>2. emitted' = Append(emitted, Order(w, t)) /\ done' = [done EXCEPT ![w] = Append(done[w], t)]
  BY DEF EmitOrder
<1> QED BY <1>1, <1>2, AtEnd

-----------------------------------------------------------------------------
(* A worker is given the ticks of its symbols, in order.                   *)
LEMMA TickStep == TypeOK /\ ThreadInv /\ TickInv /\ [Next]_vars => TickInv'
<1> SUFFICES ASSUME TypeOK, ThreadInv, TickInv, [Next]_vars PROVE TickInv'
  OBVIOUS
<1>0. ticks_seen \in Nat
  BY DEF TypeOK, DispatcherOK
<1>a. ASSUME workers' = workers, ticks_seen' \in Nat, ticks_seen <= ticks_seen',
             NEW v \in Threads, tickq'[v] = tickq[v]
      PROVE  /\ \A t \in Elems(tickq'[v]) : (Runner(t.sym))' = v /\ t.n <= ticks_seen'
             /\ Along(TickOrder, tickq'[v])
             /\ workers' = 0 => tickq'[v] = <<>>
  <2>1. \A t \in Elems(tickq[v]) : t \in Ticks
    BY DEF TypeOK, TicksOK, Elems
  <2>2. \A t \in Elems(tickq[v]) : t.n <= ticks_seen'
    <3> SUFFICES ASSUME NEW t \in Elems(tickq[v]) PROVE t.n <= ticks_seen'
      OBVIOUS
    <3>1. PICK n \in Nat : n = t.n
      BY <2>1 DEF Ticks
    <3>2. n <= ticks_seen
      BY <3>1 DEF TickInv
    <3>3. n <= ticks_seen'
      BY <1>0, <1>a, <3>2
    <3> QED BY <3>1, <3>3
  <2> QED BY <1>a, <2>2, RunnerIsFixed DEF TickInv
<1>1. CASE Quiet
  BY <1>0, <1>1, <1>a DEF Quiet, counters, TickInv
<1>2. CASE Skip
  BY <1>0, <1>2, <1>a DEF Skip, TickInv
<1>3. ASSUME NEW w \in Threads, NEW t \in Ticks, TakesQuietly(w, t) \/ TakesAndEmits(w, t) PROVE TickInv'
  <2>1. Takes(w, t)
    BY <1>3 DEF TakesQuietly, TakesAndEmits
  <2>2. workers' = workers /\ ticks_seen' = ticks_seen
    BY <2>1 DEF Takes, counters
  <2>3. \A v \in Threads : v # w => tickq'[v] = tickq[v]
    BY <2>1 DEF Takes
  <2>4. /\ \A u \in Elems(tickq'[w]) : (Runner(u.sym))' = w /\ u.n <= ticks_seen'
        /\ Along(TickOrder, tickq'[w]) /\ workers' # 0
    <3>1. t \in Elems(tickq[w]) /\ Elems(tickq'[w]) \subseteq Elems(tickq[w])
      BY <2>1 DEF Takes
    <3>2. workers # 0
      BY <3>1, EmptyOrOne DEF TickInv
    <3> QED BY <2>1, <2>2, <3>1, <3>2, RunnerIsFixed DEF Takes, TickInv
  <2> QED BY <1>0, <1>a, <2>2, <2>3, <2>4 DEF TickInv
<1>4. ASSUME NEW w \in Threads, NEW t \in Ticks, Routes(w, t) PROVE TickInv'
  <2>1. /\ workers' = workers /\ workers # 0 /\ ticks_seen' = ticks_seen + 1
        /\ w = Runner(t.sym) /\ t.n = ticks_seen + 1
        /\ tickq[w] \in Seq(Ticks) /\ tickq'[w] = Append(tickq[w], t)
        /\ \A v \in Threads : v # w => tickq'[v] = tickq[v]
    BY <1>4 DEF Routes
  <2>2. \A y \in Elems(tickq[w]) : y \in Ticks /\ y.n <= ticks_seen /\ Runner(y.sym) = w
    BY <2>1 DEF TickInv, Elems
  <2>3. \A y \in Elems(tickq[w]) : y.n <= ticks_seen + 1 /\ <<y, t>> \in TickOrder
    <3> SUFFICES ASSUME NEW y \in Elems(tickq[w]) PROVE y.n <= ticks_seen + 1 /\ <<y, t>> \in TickOrder
      OBVIOUS
    <3>1. PICK n \in Nat : n = y.n
      BY <2>2 DEF Ticks
    <3>2. n <= ticks_seen
      BY <2>2, <3>1
    <3>3. n <= ticks_seen + 1 /\ n < ticks_seen + 1
      BY <1>0, <3>2
    <3> QED BY <2>1, <2>2, <3>1, <3>3 DEF TickOrder
  <2>4. /\ Elems(tickq'[w]) = Elems(tickq[w]) \cup {t}
        /\ Along(TickOrder, tickq[w]) => Along(TickOrder, tickq'[w])
    BY <2>1, <2>3, AtEnd
  <2>5. /\ \A u \in Elems(tickq'[w]) : (Runner(u.sym))' = w /\ u.n <= ticks_seen'
        /\ Along(TickOrder, tickq'[w])
    <3>1. t.n <= ticks_seen'
      BY <1>0, <2>1
    <3> QED BY <2>1, <2>2, <2>3, <2>4, <3>1, RunnerIsFixed DEF TickInv
  <2>6. ASSUME NEW v \in Threads, v # w
        PROVE  /\ \A u \in Elems(tickq'[v]) : (Runner(u.sym))' = v /\ u.n <= ticks_seen'
               /\ Along(TickOrder, tickq'[v])
    BY <1>0, <1>a, <2>1, <2>6
  <2> QED BY <2>1, <2>5, <2>6 DEF TickInv
<1>5. ASSUME NEW t \in Ticks, InlineQuietly(t) \/ InlineEmits(t) PROVE TickInv'
  <2>1. UNCHANGED <<workers, tickq>> /\ ticks_seen' = ticks_seen + 1
    BY <1>5 DEF InlineQuietly, InlineEmits, Inline
  <2> QED BY <1>0, <1>a, <2>1 DEF TickInv
<1>6. ASSUME NEW o \in Orders, Drains(o) \/ \E w \in Threads : Sends(w, o) PROVE TickInv'
  <2>1. UNCHANGED <<workers, tickq, ticks_seen>>
    BY <1>6 DEF Drains, Sends, counters
  <2> QED BY <1>0, <1>a, <2>1 DEF TickInv
<1> QED BY <1>1, <1>2, <1>3, <1>4, <1>5, <1>6, StepKinds

(* Elements of the sequences, with their types.                            *)
LEMMA ElemTypes ==
  ASSUME TypeOK
  PROVE  /\ \A o \in Elems(emitted) \cup Elems(sent) \cup Elems(orderq) :
              o \in Orders /\ o.tick \in Nat /\ o.sym \in Symbols
         /\ \A w \in Threads : \A o \in Elems(hand[w]) : o \in Orders
         /\ \A w \in Threads : \A t \in Elems(tickq[w]) : t \in Ticks /\ t.n \in Nat /\ t.sym \in Symbols
         /\ ticks_seen \in Nat
<1>1. ASSUME NEW o \in Elems(emitted) \cup Elems(sent) \cup Elems(orderq) PROVE o \in Orders
  BY DEF TypeOK, OrdersOK, Elems
<1>2. ASSUME NEW w \in Threads, NEW o \in Elems(hand[w]) PROVE o \in Orders
  BY DEF TypeOK, OrdersOK, Elems
<1>3. ASSUME NEW w \in Threads, NEW t \in Elems(tickq[w]) PROVE t \in Ticks
  BY DEF TypeOK, TicksOK, Elems
<1>4. /\ \A o \in Orders : o.tick \in Nat /\ o.sym \in Symbols
      /\ \A t \in Ticks : t.n \in Nat /\ t.sym \in Symbols
  BY EngineAssumption DEF Orders, Ticks
<1> QED BY <1>1, <1>2, <1>3, <1>4 DEF TypeOK, DispatcherOK

(* Used where a comparison is of fields of records.                        *)
LEMMA NextIsMore == \A n, m \in Nat : n <= m => n <= m + 1 /\ n < m + 1
OBVIOUS

(* An order is behind the ticks that are still queued for its symbol.      *)
LEMMA OrderStep == TypeOK /\ ThreadInv /\ TickInv /\ OrderInv /\ [Next]_vars => OrderInv'
<1> SUFFICES ASSUME TypeOK, ThreadInv, TickInv, OrderInv, [Next]_vars PROVE OrderInv'
  OBVIOUS
<1>0. sent \in Seq(Orders) /\ orderq \in Seq(Orders)
  BY DEF TypeOK, OrdersOK
<1>a. /\ \A o \in Elems(emitted) : o.tick \in Nat /\ o.sym \in Symbols /\ Runner(o.sym) \in Threads
      /\ ticks_seen \in Nat
  BY ElemTypes, RunnerIsThread
<1>1. CASE Quiet
  BY <1>1, RunnerIsFixed DEF Quiet, counters, OrderInv
<1>2. CASE Skip
  <2>1. /\ UNCHANGED <<workers, tickq, orderq, hand, emitted, sent>> /\ ticks_seen' = ticks_seen + 1
    BY <1>2 DEF Skip
  <2>2. \A o \in Elems(emitted) : o.tick <= ticks_seen + 1
    BY <1>a, NextIsMore DEF OrderInv
  <2> QED BY <2>1, <2>2, RunnerIsFixed DEF OrderInv
<1>3. ASSUME NEW w \in Threads, NEW t \in Ticks, TakesQuietly(w, t) PROVE OrderInv'
  <2>1. /\ UNCHANGED <<workers, orderq, sent, emitted, ticks_seen>>
        /\ Elems(tickq'[w]) \subseteq Elems(tickq[w])
        /\ \A v \in Threads : v # w => tickq'[v] = tickq[v] /\ hand'[v] = hand[v]
        /\ hand'[w] = hand[w]
    BY <1>3 DEF TakesQuietly, Takes, NoOrder, counters
  <2>2. \A v \in Threads : Elems(tickq'[v]) \subseteq Elems(tickq[v]) /\ hand'[v] = hand[v]
    BY <2>1
  <2> QED BY <1>a, <2>1, <2>2, RunnerIsFixed DEF OrderInv
<1>4. ASSUME NEW w \in Threads, NEW t \in Ticks, TakesAndEmits(w, t) PROVE OrderInv'
  <2> DEFINE o == Order(w, t)
  <2>1. /\ UNCHANGED <<workers, orderq, sent, ticks_seen>>
        /\ t \in Elems(tickq[w]) /\ Elems(tickq'[w]) \subseteq Elems(tickq[w])
        /\ \A v \in Threads : v # w => tickq'[v] = tickq[v] /\ hand'[v] = hand[v]
        /\ hand'[w] = <<o>>
        /\ Along(TickOrder, tickq[w]) => \A y \in Elems(tickq'[w]) : t.n < y.n
    BY <1>4 DEF TakesAndEmits, Takes, counters
  <2>2. Elems(emitted') = Elems(emitted) \cup {o}
    BY <1>4, Emission DEF TakesAndEmits
  <2>3. o.tick = t.n /\ o.sym = t.sym /\ o \in Orders
    BY OrderIsOrder
  <2>4. Runner(o.sym) = w /\ o.tick <= ticks_seen /\ \A y \in Elems(tickq'[w]) : o.tick < y.n
    BY <2>1, <2>3 DEF TickInv
  <2>5. Elems(hand'[w]) = {o}
    BY <2>1, EmptyOrOne
  <2>6. \A v \in Threads : Elems(tickq'[v]) \subseteq Elems(tickq[v])
    BY <2>1
  <2>7. ASSUME NEW x \in Elems(emitted')
        PROVE  x.tick <= ticks_seen' /\ \A y \in Elems(tickq'[Runner(x.sym)]) : x.tick < y.n
    BY <1>a, <2>1, <2>2, <2>4, <2>6 DEF OrderInv
  <2>8. ASSUME NEW v \in Threads, NEW x \in Elems(hand'[v]) PROVE x \in Elems(emitted') /\ Runner(x.sym) = v
    BY <2>1, <2>2, <2>4, <2>5 DEF OrderInv
  <2> QED BY <2>1, <2>2, <2>7, <2>8, RunnerIsFixed DEF OrderInv
<1>5. ASSUME NEW w \in Threads, NEW t \in Ticks, Routes(w, t) PROVE OrderInv'
  <2>1. /\ UNCHANGED <<workers, orderq, hand, emitted, sent>> /\ ticks_seen' = ticks_seen + 1
        /\ tickq[w] \in Seq(Ticks) /\ tickq'[w] = Append(tickq[w], t)
        /\ \A v \in Threads : v # w => tickq'[v] = tickq[v]
        /\ t.n = ticks_seen + 1
    BY <1>5 DEF Routes
  <2>2. Elems(tickq'[w]) = Elems(tickq[w]) \cup {t}
    BY <2>1, AtEnd
  <2>3. \A v \in Threads : Elems(tickq'[v]) \subseteq Elems(tickq[v]) \cup {t}
    BY <2>1, <2>2
  <2>4. ASSUME NEW x \in Elems(emitted)
        PROVE  x.tick <= ticks_seen' /\ \A y \in Elems(tickq'[Runner(x.sym)]) : x.tick < y.n
    <3>1. x.tick <= ticks_seen + 1 /\ x.tick < t.n
      BY <1>a, <2>1, NextIsMore DEF OrderInv
    <3> QED BY <1>a, <2>1, <2>3, <3>1 DEF OrderInv
  <2> QED BY <2>1, <2>4, RunnerIsFixed DEF OrderInv
<1>6. ASSUME NEW t \in Ticks, InlineQuietly(t) \/ InlineEmits(t) PROVE OrderInv'
  <2> DEFINE o == Order(0, t)
  <2>0. 0 \in Threads
    BY EngineAssumption DEF Threads
  <2>1. /\ UNCHANGED <<workers, tickq, orderq, hand>> /\ ticks_seen' = ticks_seen + 1
        /\ workers = 0 /\ t.n = ticks_seen + 1
        /\ \/ UNCHANGED <<emitted, sent>>
           \/ EmitOrder(0, t) /\ (sent' = Append(sent, o) \/ sent' = sent)
    BY <1>6 DEF InlineQuietly, InlineEmits, Inline, NoOrder, Publishes
  <2>2. o.tick = t.n /\ o \in Orders
    BY <2>0, OrderIsOrder
  <2>3. Elems(emitted) \subseteq Elems(emitted') /\ Elems(emitted') \subseteq Elems(emitted) \cup {o}
    BY <2>0, <2>1, Emission
  <2>4. Elems(sent') \subseteq Elems(emitted')
    <3>1. CASE sent' = sent
      BY <2>3, <3>1 DEF OrderInv
    <3>2. CASE EmitOrder(0, t) /\ sent' = Append(sent, o)
      <4>1. Elems(sent') = Elems(sent) \cup {o}
        BY <1>0, <2>2, <3>2, AtEnd
      <4>2. o \in Elems(emitted')
        BY <2>0, <3>2, Emission
      <4> QED BY <2>3, <4>1, <4>2 DEF OrderInv
    <3> QED BY <2>1, <3>1, <3>2
  <2>5. ASSUME NEW x \in Elems(emitted')
        PROVE  x.tick <= ticks_seen' /\ \A y \in Elems(tickq'[Runner(x.sym)]) : x.tick < y.n
    <3>1. Elems(tickq[Runner(x.sym)]) = {}
      BY <2>0, <2>1, EmptyOrOne DEF TickInv, Runner
    <3>2. x.tick <= ticks_seen + 1
      BY <1>a, <2>1, <2>2, <2>3, NextIsMore DEF OrderInv
    <3> QED BY <2>1, <3>1, <3>2
  <2> QED BY <2>1, <2>3, <2>4, <2>5, RunnerIsFixed DEF OrderInv
<1>7. ASSUME NEW o \in Orders, Drains(o) PROVE OrderInv'
  <2>1. /\ UNCHANGED <<workers, tickq, hand, emitted, ticks_seen>>
        /\ Elems(orderq) = Elems(orderq') \cup {o}
        /\ sent' = Append(sent, o) \/ sent' = sent
    BY <1>7 DEF Drains, Publishes
  <2>2. Elems(Append(sent, o)) = Elems(sent) \cup {o}
    BY <1>0, AtEnd
  <2> QED BY <2>1, <2>2, RunnerIsFixed DEF OrderInv
<1>8. ASSUME NEW o \in Orders, NEW w \in Threads, Sends(w, o) PROVE OrderInv'
  <2>1. /\ UNCHANGED <<workers, tickq, sent, emitted, ticks_seen>>
        /\ Elems(hand[w]) = {o} /\ hand'[w] = <<>> /\ orderq' = Append(orderq, o)
        /\ \A v \in Threads : v # w => hand'[v] = hand[v]
    BY <1>8 DEF Sends, counters
  <2>2. Elems(orderq') = Elems(orderq) \cup {o} /\ Elems(hand'[w]) = {}
    BY <1>0, <2>1, AtEnd, EmptyOrOne
  <2> QED BY <2>1, <2>2, RunnerIsFixed DEF OrderInv
<1> QED BY <1>1, <1>2, <1>3, <1>4, <1>5, <1>6, <1>7, <1>8, StepKinds

(* The orders of a symbol are one behind the other in hand, channel and    *)
(* ring.                                                                   *)
LEMMA FlowStep ==
  TypeOK /\ ThreadInv /\ TickInv /\ OrderInv /\ FlowInv /\ [Next]_vars => FlowInv'
<1> SUFFICES ASSUME TypeOK, ThreadInv, TickInv, OrderInv, FlowInv, [Next]_vars PROVE FlowInv'
  OBVIOUS
<1>0. sent \in Seq(Orders) /\ orderq \in Seq(Orders)
  BY DEF TypeOK, OrdersOK
<1>1. CASE Quiet \/ Skip \/ \E w \in Threads, t \in Ticks : Routes(w, t)
  <2>1. UNCHANGED <<orderq, hand, sent>>
    BY <1>1 DEF Quiet, Skip, Routes
  <2> QED BY <2>1 DEF FlowInv
<1>2. ASSUME NEW w \in Threads, NEW t \in Ticks, TakesQuietly(w, t) PROVE FlowInv'
  <2>1. UNCHANGED <<orderq, sent>> /\ \A v \in Threads : hand'[v] = hand[v]
    BY <1>2 DEF TakesQuietly, Takes
  <2> QED BY <2>1 DEF FlowInv
<1>3. ASSUME NEW w \in Threads, NEW t \in Ticks, TakesAndEmits(w, t) PROVE FlowInv'
  <2> DEFINE o == Order(w, t)
  <2>1. /\ UNCHANGED <<orderq, sent>> /\ hand'[w] = <<o>> /\ t \in Elems(tickq[w])
        /\ \A v \in Threads : v # w => hand'[v] = hand[v]
    BY <1>3 DEF TakesAndEmits, Takes
  <2>2. Elems(hand'[w]) = {o} /\ o \in Orders /\ o.sym = t.sym /\ o.tick = t.n /\ Runner(t.sym) = w
    BY <2>1, EmptyOrOne, OrderIsOrder DEF TickInv
  <2>3. ASSUME NEW x \in Elems(sent) \cup Elems(orderq) PROVE <<x, o>> \in OrderOrder
    <3>1. x \in Elems(emitted) /\ x \in Orders
      BY ElemTypes DEF OrderInv
    <3>2. x.sym = o.sym => x.tick < o.tick
      BY <2>1, <2>2, <3>1 DEF OrderInv
    <3> QED BY <2>2, <3>1, <3>2 DEF OrderOrder
  <2>4. Ahead(Elems(sent), Elems(hand'[w])) /\ Ahead(Elems(orderq), Elems(hand'[w]))
    BY <2>2, <2>3 DEF Ahead
  <2> QED BY <2>1, <2>4 DEF FlowInv
<1>4. ASSUME NEW t \in Ticks, InlineQuietly(t) \/ InlineEmits(t) PROVE FlowInv'
  <2> DEFINE o == Order(0, t)
  <2>0. 0 \in Threads
    BY EngineAssumption DEF Threads
  <2>1. /\ UNCHANGED <<orderq, hand>> /\ workers = 0 /\ t.n = ticks_seen + 1
        /\ sent' = sent \/ sent' = Append(sent, o)
    BY <1>4 DEF InlineQuietly, InlineEmits, Inline, Publishes
  <2>2. Elems(orderq') = {} /\ \A v \in Threads : Elems(hand'[v]) = {}
    BY <2>1, EmptyOrOne DEF ThreadInv
  <2>3. o \in Orders /\ o.tick = t.n
    BY <2>0, OrderIsOrder
  <2>4. ASSUME NEW x \in Elems(sent) PROVE <<x, o>> \in OrderOrder
    <3>1. x \in Elems(emitted) /\ x \in Orders /\ x.tick \in Nat /\ ticks_seen \in Nat
      BY ElemTypes DEF OrderInv
    <3>2. x.tick < o.tick
      BY <2>1, <2>3, <3>1, NextIsMore DEF OrderInv
    <3> QED BY <2>3, <3>1, <3>2 DEF OrderOrder
  <2>5. Along(OrderOrder, Append(sent, o))
    BY <1>0, <2>3, <2>4, AtEnd DEF FlowInv
  <2> QED BY <2>1, <2>2, <2>5 DEF FlowInv, Ahead
<1>5. ASSUME NEW o \in Orders, Drains(o) PROVE FlowInv'
  <2>1. /\ Elems(orderq) = Elems(orderq') \cup {o} /\ hand' = hand
        /\ Along(OrderOrder, orderq') /\ \A y \in Elems(orderq') : <<o, y>> \in OrderOrder
        /\ sent' = sent \/ sent' = Append(sent, o)
    BY <1>5 DEF Drains, Publishes, FlowInv
  <2>2. Elems(Append(sent, o)) = Elems(sent) \cup {o}
    BY <1>0, AtEnd
  <2>3. \A x \in Elems(sent) : <<x, o>> \in OrderOrder
    BY <2>1 DEF FlowInv, Ahead
  <2>4. Along(OrderOrder, Append(sent, o))
    BY <1>0, <2>3, AtEnd DEF FlowInv
  <2>5. Along(OrderOrder, sent') /\ Elems(sent') \subseteq Elems(sent) \cup {o}
    BY <2>1, <2>2, <2>4 DEF FlowInv
  <2>6. Ahead(Elems(sent'), Elems(orderq'))
    BY <2>1, <2>5 DEF FlowInv, Ahead
  <2>7. \A w \in Threads : Ahead(Elems(sent'), Elems(hand'[w])) /\ Ahead(Elems(orderq'), Elems(hand'[w]))
    BY <2>1, <2>5 DEF FlowInv, Ahead
  <2> QED BY <2>1, <2>5, <2>6, <2>7 DEF FlowInv
<1>6. ASSUME NEW o \in Orders, NEW w \in Threads, Sends(w, o) PROVE FlowInv'
  <2>1. /\ sent' = sent /\ Elems(hand[w]) = {o} /\ hand'[w] = <<>> /\ orderq' = Append(orderq, o)
        /\ \A v \in Threads : v # w => hand'[v] = hand[v]
    BY <1>6 DEF Sends
  <2>2. Elems(orderq') = Elems(orderq) \cup {o} /\ Elems(hand'[w]) = {}
    BY <1>0, <2>1, AtEnd, EmptyOrOne
  <2>3. \A x \in Elems(orderq) \cup Elems(sent) : <<x, o>> \in OrderOrder
    BY <2>1 DEF FlowInv, Ahead
  <2>4. Along(OrderOrder, orderq')
    BY <1>0, <2>1, <2>3, AtEnd DEF FlowInv
  <2>5. Ahead(Elems(sent'), Elems(orderq'))
    BY <2>1, <2>2, <2>3 DEF FlowInv, Ahead
  <2>6. ASSUME NEW v \in Threads
        PROVE  Ahead(Elems(sent'), Elems(hand'[v])) /\ Ahead(Elems(orderq'), Elems(hand'[v]))
    <3>1. CASE v = w
      BY <2>2, <3>1 DEF Ahead
    <3>2. CASE v # w
      <4>1. \A x \in Elems(hand[v]) : <<o, x>> \in OrderOrder
        <5>1. \A x \in Elems(hand[v]) : x \in Orders /\ Runner(x.sym) = v
          BY ElemTypes DEF OrderInv
        <5>2. Runner(o.sym) = w
          BY <2>1 DEF OrderInv
        <5> QED BY <3>2, <5>1, <5>2 DEF OrderOrder
      <4> QED BY <2>1, <2>2, <3>2, <4>1 DEF FlowInv, Ahead
    <3> QED BY <3>1, <3>2
  <2> QED BY <2>1, <2>4, <2>5, <2>6 DEF FlowInv
<1> QED BY <1>1, <1>2, <1>3, <1>4, <1>5, <1>6, StepKinds

(* Through two channels and any number of threads, whoever is scheduled    *)
(* when: a symbol's ticks are queued, seen and answered in order.          *)
THEOREM FlowInvariant == Spec => [](TickInv /\ OrderInv /\ FlowInv)
<1>1. Init => TickInv /\ OrderInv /\ FlowInv
  <2> SUFFICES ASSUME Init PROVE TickInv /\ OrderInv /\ FlowInv
    OBVIOUS
  <2>1. /\ \A w \in Threads : tickq[w] = <<>> /\ hand[w] = <<>>
        /\ orderq = <<>> /\ sent = <<>> /\ emitted = <<>>
    BY DEF Init
  <2> QED BY <2>1, EmptyOrOne DEF TickInv, OrderInv, FlowInv, Ahead
<1> QED BY <1>1, TickStep, OrderStep, FlowStep, TypeCorrect, ThreadInvariant, PTL DEF Spec

(* The orders of a symbol reach the ring in the order of its ticks         *)
(* (main.rs:391-412, 486-530).                                             *)
THEOREM SymbolsKeepOrder == Spec => []OrdersInTickOrder
<1>1. FlowInv => OrdersInTickOrder
  BY DEF FlowInv, Along, OrderOrder, OrdersInTickOrder
<1> QED BY <1>1, FlowInvariant, PTL

-----------------------------------------------------------------------------
(* next_order_id moves at most once for each tick of the worker.           *)
LEMMA IdRoomStep ==
  TypeOK /\ ThreadInv /\ (\A w \in Threads : IdRoom(w)) /\ [Next]_vars => \A w \in Threads : IdRoom(w)'
<1> SUFFICES ASSUME TypeOK, ThreadInv, \A w \in Threads : IdRoom(w), [Next]_vars, NEW v \in Threads
             PROVE  IdRoom(v)'
  OBVIOUS
<1>0. PICK f \in Nat, id \in Nat, l \in Nat, n \in Nat :
        f = FirstId(v) /\ id = next_id[v] /\ l = Len(tickq[v]) /\ n = ticks_seen
  <2>1. tickq[v] \in Seq(Ticks) /\ next_id[v] \in Nat /\ ticks_seen \in Nat
    BY DEF TypeOK, TicksOK, WorkersOK, DispatcherOK
  <2>2. Len(tickq[v]) \in Nat
    BY <2>1
  <2> QED BY <2>1, <2>2, FirstIds, Zenon
<1>1. f <= id /\ id + l <= f + n
  BY <1>0 DEF IdRoom
<1>2. ASSUME workers' = workers, NEW d \in {0, 1}, NEW k \in Nat, NEW m \in {0, 1},
             next_id'[v] = id + d, Len(tickq'[v]) = k, ticks_seen' = n + m, d + k <= l + m
      PROVE  IdRoom(v)'
  <2>1. f <= id + d /\ (id + d) + k <= f + (n + m)
    BY <1>1, <1>2
  <2>2. (FirstId(v))' = f
    BY <1>0, <1>2 DEF FirstId
  <2> QED BY <1>2, <2>1, <2>2 DEF IdRoom
<1>3. l + 0 = l /\ n + 0 = n /\ id + 0 = id /\ 0 + l <= l + 0 /\ 0 + l <= l + 1
      /\ 1 + l <= l + 1 /\ l + 1 \in Nat /\ 0 + (l + 1) <= l + 1
  OBVIOUS
<1>4. ASSUME workers' = workers, next_id'[v] = next_id[v], tickq'[v] = tickq[v], NEW m \in {0, 1},
             ticks_seen' = n + m
      PROVE  IdRoom(v)'
  <2>1. 0 + l <= l + m
    OBVIOUS
  <2>2. next_id'[v] = id + 0 /\ Len(tickq'[v]) = l
    BY <1>0, <1>3, <1>4, Zenon
  <2> QED BY <1>2, <1>4, <2>1, <2>2
<1>5. CASE Quiet \/ Skip \/ \E o \in Orders : Drains(o) \/ \E w \in Threads : Sends(w, o)
  <2>1. /\ UNCHANGED <<workers, next_id, tickq>>
        /\ ticks_seen' = ticks_seen \/ ticks_seen' = ticks_seen + 1
    BY <1>5 DEF Quiet, Skip, Drains, Sends, counters
  <2>2. ticks_seen' = n + 0 \/ ticks_seen' = n + 1
    BY <1>0, <1>3, <2>1
  <2> QED BY <1>4, <2>1, <2>2
<1>6. ASSUME NEW w \in Threads, NEW t \in Ticks, Routes(w, t) PROVE IdRoom(v)'
  <2>1. UNCHANGED <<workers, next_id>> /\ ticks_seen' = n + 1
    BY <1>0, <1>6 DEF Routes
  <2>2. CASE v = w
    <3>1. tickq[v] \in Seq(Ticks) /\ tickq'[v] = Append(tickq[v], t)
      BY <1>6, <2>2 DEF Routes
    <3>2. Len(tickq'[v]) = l + 1
      BY <1>0, <3>1, AtEnd
    <3> QED BY <1>0, <1>2, <1>3, <2>1, <3>2
  <2>3. CASE v # w
    BY <1>4, <1>6, <2>1, <2>3 DEF Routes
  <2> QED BY <2>2, <2>3
<1>7. ASSUME NEW w \in Threads, NEW t \in Ticks, TakesQuietly(w, t) \/ TakesAndEmits(w, t) PROVE IdRoom(v)'
  <2>1. /\ workers' = workers /\ ticks_seen' = n + 0
        /\ tickq'[w] \in Seq(Ticks) /\ Len(tickq[w]) = Len(tickq'[w]) + 1
        /\ v # w => tickq'[v] = tickq[v]
        /\ next_id' = next_id \/ next_id' = [next_id EXCEPT ![w] = next_id[w] + 1]
    BY <1>0, <1>3, <1>7 DEF TakesQuietly, TakesAndEmits, Takes, counters, NoOrder, EmitOrder
  <2>2. CASE v = w
    <3>1. PICK k \in Nat : k = Len(tickq'[v]) /\ l = k + 1
      BY <1>0, <2>1, <2>2
    <3>2. 0 + k <= l + 0 /\ 1 + k <= l + 0
      BY <3>1
    <3>3. next_id'[v] = id + 0 \/ next_id'[v] = id + 1
      BY <1>0, <2>1, <2>2 DEF TypeOK, WorkersOK
    <3> QED BY <1>2, <2>1, <3>1, <3>2, <3>3
  <2>3. CASE v # w
    <3>1. next_id'[v] = next_id[v]
      BY <2>1, <2>3 DEF TypeOK, WorkersOK
    <3> QED BY <1>4, <2>1, <2>3, <3>1
  <2> QED BY <2>2, <2>3
<1>8. ASSUME NEW t \in Ticks, InlineQuietly(t) \/ InlineEmits(t) PROVE IdRoom(v)'
  <2>1. /\ UNCHANGED <<workers, tickq>> /\ ticks_seen' = n + 1
        /\ next_id' = next_id \/ next_id' = [next_id EXCEPT ![0] = next_id[0] + 1]
    BY <1>0, <1>8 DEF InlineQuietly, InlineEmits, Inline, NoOrder, EmitOrder
  <2>2. next_id'[v] = id + 0 \/ next_id'[v] = id + 1
    BY <1>0, <2>1 DEF TypeOK, WorkersOK
  <2>3. Len(tickq'[v]) = l
    BY <1>0, <2>1
  <2> QED BY <1>2, <1>3, <2>1, <2>2, <2>3
<1> QED BY <1>5, <1>6, <1>7, <1>8, StepKinds

(* The id of a new order is above those of its worker and outside the id   *)
(* spaces of the others.                                                   *)
LEMMA EmitIds ==
  ASSUME TypeOK, TypeOK', IdInv, workers' = workers, NEW w \in Threads, NEW t \in Ticks, EmitOrder(w, t),
         Runner(t.sym) = w, (IdRoom(w))'
  PROVE  IdRange' /\ OrderIdsUnique'
<1> DEFINE o == Order(w, t)
           n == Len(emitted)
<1>0. /\ emitted \in Seq(Orders) /\ n \in Nat /\ emitted' = Append(emitted, o) /\ o \in Orders
      /\ o.id = next_id[w] + 1 /\ o.sym = t.sym
      /\ next_id \in [Threads -> Nat] /\ next_id' = [next_id EXCEPT ![w] = next_id[w] + 1]
  BY OrderIsOrder, Emission, SMTT(30) DEF TypeOK, OrdersOK, WorkersOK, EmitOrder
<1>1. /\ DOMAIN emitted' = 1 .. n + 1 /\ DOMAIN emitted = 1 .. n
      /\ emitted'[n + 1] = o /\ \A i \in 1 .. n : emitted'[i] = emitted[i]
  BY <1>0
<1>2. /\ next_id'[w] = next_id[w] + 1 /\ \A v \in Threads : v # w => next_id'[v] = next_id[v]
      /\ \A v \in Threads : next_id[v] \in Nat /\ next_id'[v] \in Nat /\ next_id[v] <= next_id'[v]
  BY <1>0
<1>3. \A s : (Runner(s))' = Runner(s)
  BY RunnerIsFixed
<1>4. \A v : (FirstId(v))' = FirstId(v)
  BY DEF FirstId
<1>5. ticks_seen \in 0 .. MaxTicks /\ ticks_seen' \in 0 .. MaxTicks /\ MaxTicks \in Nat
  BY EngineAssumption DEF TypeOK, DispatcherOK
<1>6. \A v \in Threads : next_id[v] <= FirstId(v) + MaxTicks
  <2> SUFFICES ASSUME NEW v \in Threads PROVE next_id[v] <= FirstId(v) + MaxTicks
    OBVIOUS
  <2>1. PICK f \in Nat, id \in Nat, l \in Nat : f = FirstId(v) /\ id = next_id[v] /\ l = Len(tickq[v])
    <3>1. tickq[v] \in Seq(Ticks) /\ Len(tickq[v]) \in Nat
      BY DEF TypeOK, TicksOK
    <3> QED BY <1>2, <3>1, FirstIds
  <2>2. id + l <= f + ticks_seen
    BY <2>1 DEF IdInv, IdRoom
  <2>3. id <= f + MaxTicks
    BY <1>5, <2>2
  <2> QED BY <2>1, <2>3
<1>7. next_id[w] + 1 <= FirstId(w) + MaxTicks
  <2>1. PICK f \in Nat, id \in Nat, l \in Nat : f = FirstId(w) /\ id = next_id[w] + 1 /\ l = Len(tickq'[w])
    <3>1. tickq'[w] \in Seq(Ticks) /\ Len(tickq'[w]) \in Nat
      BY DEF TypeOK, TicksOK
    <3> QED BY <1>2, <3>1, FirstIds
  <2>2. id + l <= f + ticks_seen'
    BY <1>2, <1>4, <2>1 DEF IdRoom
  <2>a. PICK seen \in 0 .. MaxTicks : seen = ticks_seen'
    BY <1>5
  <2>b. id + l <= f + seen
    BY <2>2, <2>a
  <2>3. id <= f + MaxTicks
    BY <1>5, <2>b
  <2> QED BY <2>1, <2>3
<1>8. ASSUME NEW i \in 1 .. n
      PROVE  /\ emitted[i] \in Orders /\ emitted[i].id \in Nat /\ Runner(emitted[i].sym) \in Threads
             /\ FirstId(Runner(emitted[i].sym)) < emitted[i].id
             /\ emitted[i].id <= next_id[Runner(emitted[i].sym)]
  <2>1. emitted[i] \in Orders
    BY <1>0
  <2>2. emitted[i].id \in Nat /\ emitted[i].sym \in Symbols
    BY <2>1 DEF Orders
  <2> QED BY <1>1, <2>1, <2>2, RunnerIsThread DEF IdInv, IdRange
<1>9. IdRange'
  <2> SUFFICES ASSUME NEW i \in 1 .. n + 1
               PROVE  /\ FirstId(Runner(emitted'[i].sym)) < emitted'[i].id
                      /\ emitted'[i].id <= next_id'[Runner(emitted'[i].sym)]
    BY <1>1, <1>3, <1>4 DEF IdRange
  <2>1. CASE i = n + 1
    <3>1. PICK f \in Nat, id \in Nat : f = FirstId(w) /\ id = next_id[w] /\ f <= id
      BY <1>2, FirstIds DEF IdInv, IdRoom
    <3>2. f < id + 1 /\ id + 1 <= id + 1
      BY <3>1
    <3> QED BY <1>0, <1>1, <1>2, <2>1, <3>1, <3>2
  <2>2. CASE i \in 1 .. n
    <3>1. PICK id \in Nat, a \in Nat, b \in Nat :
            /\ id = emitted[i].id /\ a = next_id[Runner(emitted[i].sym)]
            /\ b = next_id'[Runner(emitted[i].sym)] /\ id <= a /\ a <= b
      BY <1>2, <1>8, <2>2
    <3>2. id <= b
      BY <3>1
    <3> QED BY <1>1, <1>8, <2>2, <3>1, <3>2
  <2> QED BY <2>1, <2>2, <1>0
<1>10. ASSUME NEW i \in 1 .. n PROVE emitted[i].id # o.id
  <2>1. PICK v \in Threads, id \in Nat, fv \in Nat, fw \in Nat, nv \in Nat, nw \in Nat :
          /\ v = Runner(emitted[i].sym) /\ id = emitted[i].id /\ fv = FirstId(v) /\ fw = FirstId(w)
          /\ nv = next_id[v] /\ nw = next_id[w]
    BY <1>2, <1>8, FirstIds
  <2>2. fv < id /\ id <= nv /\ fw <= nw /\ nv <= fv + MaxTicks /\ nw + 1 <= fw + MaxTicks
    BY <1>6, <1>7, <1>8, <2>1 DEF IdInv, IdRoom
  <2>3. CASE v = w
    <3>1. id # nw + 1
      BY <2>1, <2>2, <2>3
    <3> QED BY <1>0, <2>1, <3>1
  <2>4. CASE v # w
    <3>1. workers # 0
      BY <2>1, <2>4 DEF Runner
    <3>2. v \in Int /\ w \in Int
      BY EngineAssumption DEF Threads
    <3>3. fv + MaxTicks < fw \/ fw + MaxTicks < fv
      BY <2>1, <2>4, <3>1, <3>2, FirstIds
    <3>4. id # nw + 1
      BY <1>5, <2>2, <3>3
    <3> QED BY <1>0, <2>1, <3>4
  <2> QED BY <2>3, <2>4
<1>11. OrderIdsUnique'
  <2> SUFFICES ASSUME NEW i \in 1 .. n + 1, NEW j \in 1 .. n + 1, emitted'[i].id = emitted'[j].id
               PROVE  i = j
    BY <1>1 DEF OrderIdsUnique
  <2>1. CASE i \in 1 .. n /\ j \in 1 .. n
    BY <1>1, <2>1 DEF IdInv, OrderIdsUnique
  <2>2. CASE i = n + 1 \/ j = n + 1
    BY <1>0, <1>1, <1>10, <2>2
  <2> QED BY <1>0, <2>1, <2>2
<1> QED BY <1>9, <1>11

(* Steps that emit no order leave ids and times alone.                     *)
LEMMA EmitOrNot ==
  ASSUME TypeOK, ThreadInv, TickInv, [Next]_vars
  PROVE  /\ workers' = workers
         /\ \/ UNCHANGED <<emitted, next_id, last>>
            \/ \E w \in Threads, t \in Ticks : EmitOrder(w, t) /\ Runner(t.sym) = w
<1>1. CASE Quiet \/ Skip \/ \E o \in Orders : Drains(o) \/ \E w \in Threads : Sends(w, o)
  BY <1>1 DEF Quiet, Skip, Drains, Sends
<1>2. ASSUME NEW w \in Threads, NEW t \in Ticks, TakesQuietly(w, t) \/ Routes(w, t)
      PROVE  UNCHANGED <<workers, emitted, next_id, last>>
  BY <1>2 DEF TakesQuietly, Takes, NoOrder, Routes
<1>3. ASSUME NEW w \in Threads, NEW t \in Ticks, TakesAndEmits(w, t)
      PROVE  workers' = workers /\ EmitOrder(w, t) /\ Runner(t.sym) = w
  BY <1>3 DEF TakesAndEmits, Takes, TickInv
<1>4. ASSUME NEW t \in Ticks, InlineQuietly(t) PROVE UNCHANGED <<workers, emitted, next_id, last>>
  BY <1>4 DEF InlineQuietly, Inline, NoOrder
<1>5. ASSUME NEW t \in Ticks, InlineEmits(t)
      PROVE  workers' = workers /\ 0 \in Threads /\ EmitOrder(0, t) /\ Runner(t.sym) = 0
  BY <1>5, EngineAssumption DEF InlineEmits, Inline, Runner, Threads
<1> QED BY <1>1, <1>2, <1>3, <1>4, <1>5, StepKinds

(* "Disjoint id space per worker" (main.rs:476): no two orders of a run    *)
(* carry the same order_id, because no worker can use up its id space.     *)
THEOREM IdsAreUnique == Spec => []OrderIdsUnique
<1>1. Init => IdInv
  <2> SUFFICES ASSUME Init PROVE IdInv
    OBVIOUS
  <2>1. ASSUME NEW w \in Threads PROVE IdRoom(w)
    <3>1. FirstId(w) \in Nat
      <4>1. w \in Nat /\ IdSpace \in Nat
        BY EngineAssumption DEF Threads
      <4>2. w * IdSpace \in Nat
        BY <4>1
      <4> QED BY <4>2 DEF FirstId
    <3>2. next_id[w] = FirstId(w) /\ tickq[w] = <<>> /\ ticks_seen = 0
      BY DEF Init
    <3>3. Len(tickq[w]) = 0
      BY <3>2
    <3> QED BY <3>1, <3>2, <3>3 DEF IdRoom
  <2>2. DOMAIN emitted = {}
    BY DEF Init
  <2> QED BY <2>1, <2>2 DEF IdInv, IdRange, OrderIdsUnique
<1>2. TypeOK /\ TypeOK' /\ ThreadInv /\ TickInv /\ IdInv /\ [Next]_vars => IdInv'
  <2> SUFFICES ASSUME TypeOK, TypeOK', ThreadInv, TickInv, IdInv, [Next]_vars PROVE IdInv'
    OBVIOUS
  <2>1. \A w \in Threads : IdRoom(w)'
    BY IdRoomStep DEF IdInv
  <2>2. workers' = workers
    BY EmitOrNot
  <2>3. CASE UNCHANGED <<emitted, next_id, last>>
    <3>1. \A v : (FirstId(v))' = FirstId(v)
      BY <2>2 DEF FirstId
    <3>2. IdRange' /\ OrderIdsUnique'
      BY <2>2, <2>3, <3>1, RunnerIsFixed DEF IdInv, IdRange, OrderIdsUnique
    <3> QED BY <2>1, <3>2 DEF IdInv
  <2>4. ASSUME NEW w \in Threads, NEW t \in Ticks, EmitOrder(w, t), Runner(t.sym) = w PROVE IdInv'
    <3>1. IdRange' /\ OrderIdsUnique'
      BY <2>1, <2>2, <2>4, EmitIds
    <3> QED BY <2>1, <3>1 DEF IdInv
  <2> QED BY <2>3, <2>4, EmitOrNot
<1>3. IdInv => OrderIdsUnique
  BY DEF IdInv
<1> QED BY <1>1, <1>2, <1>3, TypeCorrect, ThreadInvariant, FlowInvariant, PTL DEF Spec

-----------------------------------------------------------------------------
(* The cooldown is measured from the symbol's latest order.                *)
LEMMA EmitLast ==
  ASSUME TypeOK, LastInv, workers' = workers, NEW w \in Threads, NEW t \in Ticks, EmitOrder(w, t),
         Runner(t.sym) = w
  PROVE  LastInv'
<1> DEFINE o == Order(w, t)
           n == Len(emitted)
<1>0. /\ emitted \in Seq(Orders) /\ n \in Nat /\ emitted' = Append(emitted, o) /\ o \in Orders
      /\ o.sym = t.sym /\ o.ts = now /\ t.sym \in Symbols /\ now \in Nat
      /\ last \in [Threads -> [Symbols -> 0 .. MaxTime]] /\ last' = [last EXCEPT ![w][t.sym] = now]
      /\ CooledDown(w, t.sym)
  BY OrderIsOrder, Emission DEF TypeOK, EnvironmentOK, OrdersOK, WorkersOK, EmitOrder
<1>1. /\ DOMAIN emitted' = 1 .. n + 1 /\ DOMAIN emitted = 1 .. n /\ Len(emitted') = n + 1
      /\ emitted'[n + 1] = o /\ \A i \in 1 .. n : emitted'[i] = emitted[i]
  BY <1>0
<1>2. /\ last'[w][t.sym] = now
      /\ \A v \in Threads, s \in Symbols : s # t.sym => last'[v][s] = last[v][s]
  BY <1>0
<1>3. \A s : (Runner(s))' = Runner(s)
  BY RunnerIsFixed
<1>4. \A i \in 1 .. n : /\ emitted[i] \in Orders /\ emitted[i].ts \in Nat /\ emitted[i].sym \in Symbols
                        /\ Runner(emitted[i].sym) \in Threads
  <2> SUFFICES ASSUME NEW i \in 1 .. n PROVE /\ emitted[i] \in Orders /\ emitted[i].ts \in Nat
                                             /\ emitted[i].sym \in Symbols
                                             /\ Runner(emitted[i].sym) \in Threads
    OBVIOUS
  <2>1. emitted[i] \in Orders
    BY <1>0
  <2> QED BY <2>1, RunnerIsThread, EngineAssumption DEF Orders
<1>5. ASSUME NEW i \in 1 .. n + 1,
             \A m \in i + 1 .. n + 1 : emitted'[m].sym # emitted'[i].sym
      PROVE  last'[Runner(emitted'[i].sym)][emitted'[i].sym] = emitted'[i].ts
  <2>1. CASE i = n + 1
    BY <1>0, <1>1, <1>2, <2>1
  <2>2. CASE i \in 1 .. n
    <3>0. n + 1 \in i + 1 .. n + 1
      BY <1>0, <2>2
    <3>1. emitted[i].sym # t.sym
      BY <1>0, <1>1, <1>5, <2>2, <3>0
    <3>2. \A m \in i + 1 .. n : emitted[m].sym # emitted[i].sym
      BY <1>0, <1>1, <1>5, <2>2
    <3>3. last[Runner(emitted[i].sym)][emitted[i].sym] = emitted[i].ts
      BY <1>1, <2>2, <3>2 DEF LastInv
    <3> QED BY <1>1, <1>2, <1>4, <2>2, <3>1, <3>3
  <2> QED BY <1>0, <2>1, <2>2
<1>6. ASSUME NEW i \in 1 .. n, emitted[i].sym = t.sym,
             \A m \in i + 1 .. n : emitted[m].sym # emitted[i].sym
      PROVE  now >= emitted[i].ts + Cooldown \/ now < emitted[i].ts
  <2>1. PICK a \in Nat : a = emitted[i].ts
    BY <1>4
  <2>2. last[w][t.sym] = a
    BY <1>1, <1>6, <2>1 DEF LastInv
  <2>3. now >= a => now - a >= Cooldown
    BY <1>0, <2>2 DEF CooledDown, WrappingSub
  <2>4. now >= a + Cooldown \/ now < a
    BY <1>0, <2>3, EngineAssumption
  <2> QED BY <2>1, <2>4
<1>7. CooldownKept'
  <2> SUFFICES ASSUME NEW i \in 1 .. n + 1, NEW j \in 1 .. n + 1,
                      i < j, emitted'[i].sym = emitted'[j].sym,
                      \A m \in i + 1 .. j - 1 : emitted'[m].sym # emitted'[i].sym
               PROVE  \/ emitted'[j].ts >= emitted'[i].ts + Cooldown
                      \/ emitted'[j].ts < emitted'[i].ts
    BY <1>1 DEF CooldownKept
  <2>0. i \in 1 .. n /\ emitted'[i] = emitted[i]
    BY <1>0, <1>1
  <2>1. CASE j = n + 1
    <3>1. emitted[i].sym = t.sym
      BY <1>0, <1>1, <2>0, <2>1
    <3>2. \A m \in i + 1 .. n : emitted[m].sym # emitted[i].sym
      BY <1>0, <1>1, <2>0, <2>1
    <3> QED BY <1>0, <1>1, <1>6, <2>0, <2>1, <3>1, <3>2
  <2>2. CASE j \in 1 .. n
    <3>1. \A m \in i + 1 .. j - 1 : emitted[m].sym # emitted[i].sym
      BY <1>0, <1>1, <2>0, <2>2
    <3> QED BY <1>1, <2>0, <2>2, <3>1 DEF LastInv, CooldownKept
  <2> QED BY <1>0, <2>1, <2>2
<1> QED BY <1>1, <1>3, <1>5, <1>7 DEF LastInv

(* "Minimum nanos between successive orders on the same symbol"            *)
(* (main.rs:46), whichever worker emits them and however the clock moves.  *)
THEOREM CooldownHolds == Spec => []CooldownKept
<1>1. Init => LastInv
  <2>1. Init => DOMAIN emitted = {}
    BY DEF Init
  <2> QED BY <2>1 DEF LastInv, CooldownKept
<1>2. TypeOK /\ ThreadInv /\ TickInv /\ LastInv /\ [Next]_vars => LastInv'
  <2> SUFFICES ASSUME TypeOK, ThreadInv, TickInv, LastInv, [Next]_vars PROVE LastInv'
    OBVIOUS
  <2>1. workers' = workers
    BY EmitOrNot
  <2>2. CASE UNCHANGED <<emitted, next_id, last>>
    BY <2>1, <2>2, RunnerIsFixed DEF LastInv, CooldownKept
  <2>3. ASSUME NEW w \in Threads, NEW t \in Ticks, EmitOrder(w, t), Runner(t.sym) = w PROVE LastInv'
    BY <2>1, <2>3, EmitLast
  <2> QED BY <2>2, <2>3, EmitOrNot
<1>3. LastInv => CooldownKept
  BY DEF LastInv
<1> QED BY <1>1, <1>2, <1>3, TypeCorrect, ThreadInvariant, FlowInvariant, PTL DEF Spec

-----------------------------------------------------------------------------
(* An order is in one place at a time on its way from strategy to ring.    *)
LEMMA CountStep == TypeOK /\ ThreadInv /\ CountInv /\ [Next]_vars => CountInv'
<1> SUFFICES ASSUME TypeOK, ThreadInv, CountInv, [Next]_vars PROVE CountInv'
  OBVIOUS
<1>0. /\ emitted \in Seq(Orders) /\ sent \in Seq(Orders) /\ orderq \in Seq(Orders)
      /\ orders_dropped \in Nat
  BY DEF TypeOK, OrdersOK, DispatcherOK
<1>1. IsFiniteSet(Sending) /\ Cardinality(Sending) \in Nat
  <2>1. 0 \in Int /\ MaxWorkers - 1 \in Int
    BY EngineAssumption
  <2>2. IsFiniteSet(Threads)
    BY <2>1, FS_Interval DEF Threads
  <2>3. Sending \in SUBSET Threads
    BY DEF Sending
  <2>4. IsFiniteSet(Sending)
    BY <2>2, <2>3, FS_Subset
  <2> QED BY <2>4, FS_CardinalityType
<1>2. PICK e \in Nat, p \in Nat, d \in Nat, q \in Nat, c \in Nat :
        /\ e = Len(emitted) /\ p = Len(sent) /\ d = orders_dropped /\ q = Len(orderq)
        /\ c = Cardinality(Sending)
  <2>1. Len(emitted) \in Nat /\ Len(sent) \in Nat /\ Len(orderq) \in Nat
    BY <1>0
  <2> QED BY <1>0, <1>1, <2>1
<1>3. e = p + d + q + c
  BY <1>2 DEF CountInv
<1>4. /\ \A o \in Orders : /\ Len(Append(emitted, o)) = e + 1 /\ Len(Append(sent, o)) = p + 1
                           /\ Len(Append(orderq, o)) = q + 1
  BY <1>0, <1>2
<1>5. CASE Quiet \/ Skip \/ \E w \in Threads, t \in Ticks : Routes(w, t)
  <2>1. UNCHANGED <<emitted, sent, orders_dropped, orderq, hand>>
    BY <1>5 DEF Quiet, Skip, Routes, counters
  <2> QED BY <2>1 DEF CountInv, Sending
<1>6. ASSUME NEW w \in Threads, NEW t \in Ticks, TakesQuietly(w, t) PROVE CountInv'
  <2>1. UNCHANGED <<emitted, sent, orders_dropped, orderq>> /\ \A v \in Threads : hand'[v] = hand[v]
    BY <1>6 DEF TakesQuietly, Takes, NoOrder, counters
  <2>2. Sending' = Sending
    BY <2>1 DEF Sending
  <2> QED BY <2>1, <2>2 DEF CountInv
<1>7. ASSUME NEW w \in Threads, NEW t \in Ticks, TakesAndEmits(w, t) PROVE CountInv'
  <2>1. /\ UNCHANGED <<sent, orders_dropped, orderq>> /\ hand[w] = <<>> /\ hand'[w] = <<Order(w, t)>>
        /\ \A v \in Threads : v # w => hand'[v] = hand[v]
        /\ EmitOrder(w, t)
    BY <1>7 DEF TakesAndEmits, Takes, counters
  <2>2. Len(emitted') = e + 1
    BY <1>2, <2>1, Emission
  <2>3. Sending' = Sending \cup {w} /\ w \notin Sending
    <3>1. hand'[w] # <<>>
      BY <2>1
    <3> QED BY <2>1, <3>1 DEF Sending
  <2>4. Cardinality(Sending') = c + 1
    BY <1>1, <1>2, <2>3, FS_AddElement
  <2>5. e + 1 = p + d + q + (c + 1)
    BY <1>3
  <2> QED BY <1>2, <2>1, <2>2, <2>4, <2>5 DEF CountInv
<1>8. ASSUME NEW t \in Ticks, InlineQuietly(t) PROVE CountInv'
  <2>1. UNCHANGED <<emitted, sent, orders_dropped, orderq, hand>>
    BY <1>8 DEF InlineQuietly, Inline, NoOrder
  <2> QED BY <2>1 DEF CountInv, Sending
<1>9. ASSUME NEW t \in Ticks, InlineEmits(t) PROVE CountInv'
  <2>1. /\ UNCHANGED <<orderq, hand>> /\ 0 \in Threads /\ EmitOrder(0, t)
        /\ \/ sent' = Append(sent, Order(0, t)) /\ orders_dropped' = d
           \/ sent' = sent /\ orders_dropped' = d + 1
    BY <1>2, <1>9, EngineAssumption DEF InlineEmits, Inline, Publishes, Threads
  <2>2. Len(emitted') = e + 1 /\ Sending' = Sending
    BY <1>2, <2>1, Emission DEF Sending
  <2>3. Len(Append(sent, Order(0, t))) = p + 1
    BY <1>4, <2>1, OrderIsOrder
  <2>4. e + 1 = (p + 1) + d + q + c /\ e + 1 = p + (d + 1) + q + c
    BY <1>3
  <2> QED BY <1>2, <2>1, <2>2, <2>3, <2>4 DEF CountInv
<1>10. ASSUME NEW o \in Orders, Drains(o) PROVE CountInv'
  <2>1. /\ UNCHANGED <<emitted, hand>> /\ Len(orderq) = Len(orderq') + 1
        /\ \/ sent' = Append(sent, o) /\ orders_dropped' = d
           \/ sent' = sent /\ orders_dropped' = d + 1
    BY <1>2, <1>10 DEF Drains, Publishes
  <2>2. orderq' \in Seq(Orders)
    BY WorkerTypes DEF OrdersOK
  <2>3. PICK k \in Nat : k = Len(orderq') /\ q = k + 1
    BY <1>2, <2>1, <2>2
  <2>4. e = (p + 1) + d + k + c /\ e = p + (d + 1) + k + c
    BY <1>3, <2>3
  <2>5. Sending' = Sending
    BY <2>1 DEF Sending
  <2> QED BY <1>2, <1>4, <2>1, <2>3, <2>4, <2>5 DEF CountInv
<1>11. ASSUME NEW o \in Orders, NEW w \in Threads, Sends(w, o) PROVE CountInv'
  <2>1. /\ UNCHANGED <<emitted, sent, orders_dropped>> /\ orderq' = Append(orderq, o)
        /\ Elems(hand[w]) = {o} /\ hand'[w] = <<>>
        /\ \A v \in Threads : v # w => hand'[v] = hand[v]
    BY <1>11 DEF Sends, counters
  <2>2. hand[w] # <<>>
    BY <2>1, EmptyOrOne
  <2>3. Sending' = Sending \ {w} /\ w \in Sending
    BY <2>1, <2>2 DEF Sending
  <2>4. Cardinality(Sending') = c - 1
    BY <1>1, <1>2, <2>3, FS_RemoveElement
  <2>5. e = p + d + (q + 1) + (c - 1)
    BY <1>3
  <2> QED BY <1>2, <1>4, <2>1, <2>4, <2>5 DEF CountInv
<1> QED BY <1>5, <1>6, <1>7, <1>8, <1>9, <1>10, <1>11, StepKinds

(* "Final drain of any orders the workers emitted between our last         *)
(* try_recv and their shutdown" (main.rs:418): when the run is over every  *)
(* order was published once or counted as dropped.                         *)
THEOREM NoOrderIsLost == Spec => []OrdersAccounted
<1>1. Init => CountInv
  <2> SUFFICES ASSUME Init PROVE CountInv
    OBVIOUS
  <2>1. Sending = {} /\ emitted = <<>> /\ sent = <<>> /\ orderq = <<>> /\ orders_dropped = 0
    BY DEF Init, Sending
  <2>2. Len(emitted) = 0 /\ Len(sent) = 0 /\ Len(orderq) = 0
    BY <2>1
  <2> QED BY <2>1, <2>2, FS_EmptySet DEF CountInv
<1>2. TypeOK /\ ThreadInv /\ OrderInv /\ FlowInv /\ CountInv => OrdersAccounted
  <2> SUFFICES ASSUME TypeOK, ThreadInv, OrderInv, FlowInv, CountInv, dpc = "finished"
               PROVE  /\ Len(emitted) = Len(sent) + orders_dropped
                      /\ \A i, j \in DOMAIN sent : sent[i] = sent[j] => i = j
                      /\ Elems(sent) \subseteq Elems(emitted)
    BY DEF OrdersAccounted
  <2>1. Sending = {} /\ orderq = <<>>
    BY DEF ThreadInv, Sending
  <2>2. Cardinality(Sending) = 0 /\ Len(orderq) = 0
    BY <2>1, FS_EmptySet
  <2>3. PICK p \in Nat, d \in Nat : p = Len(sent) /\ d = orders_dropped
    BY DEF TypeOK, OrdersOK, DispatcherOK
  <2>4. Len(emitted) = p + d + 0 + 0
    BY <2>2, <2>3 DEF CountInv
  <2>5. p + d + 0 + 0 = p + d
    OBVIOUS
  <2>6. ASSUME NEW i \in DOMAIN sent, NEW j \in DOMAIN sent, i < j PROVE sent[i] # sent[j]
    <3>1. sent[i] \in Orders
      BY DEF TypeOK, OrdersOK
    <3>2. sent[i].tick \in Int
      BY <3>1, EngineAssumption DEF Orders
    <3>3. ~(sent[i].tick < sent[i].tick)
      BY <3>2
    <3>4. <<sent[i], sent[j]>> \in OrderOrder
      BY <2>6 DEF FlowInv, Along
    <3> QED BY <3>3, <3>4 DEF OrderOrder
  <2>7. DOMAIN sent \subseteq Nat
    BY DEF TypeOK, OrdersOK
  <2> QED BY <2>3, <2>4, <2>5, <2>6, <2>7 DEF OrderInv
<1> QED BY <1>1, <1>2, CountStep, TypeCorrect, ThreadInvariant, FlowInvariant, PTL DEF Spec

-----------------------------------------------------------------------------
(* A tick is in one place at a time on its way through its thread.         *)

(* The strategy adds the tick to those it has done.                        *)
LEMMA Done ==
  ASSUME TypeOK, NEW w \in Threads, NEW t \in Ticks, NoOrder(w, t) \/ EmitOrder(w, t)
  PROVE  /\ Elems(done'[w]) = Elems(done[w]) \cup {t}
         /\ \A v \in Threads : v # w => done'[v] = done[v]
<1>1. done \in [Threads -> Seq(Ticks)] /\ done[w] \in Seq(Ticks)
  BY DEF TypeOK, TicksOK
<1>2. done' = [done EXCEPT ![w] = Append(done[w], t)]
  BY DEF NoOrder, EmitOrder
<1>3. done'[w] = Append(done[w], t) /\ \A v \in Threads : v # w => done'[v] = done[v]
  BY <1>1, <1>2
<1>4. Elems(Append(done[w], t)) = Elems(done[w]) \cup {t}
  BY <1>1, AtEnd
<1> QED BY <1>3, <1>4

(* A tick that a thread was given is one more, because its place in the    *)
(* stream is.                                                              *)
LEMMA OneMore ==
  ASSUME TypeOK, HeldInv, NEW w \in Threads, NEW t \in Ticks, t.n = ticks_seen + 1,
         ticks_seen' = ticks_seen + 1, ticks_dropped' = ticks_dropped, lost' = lost,
         (Share(w))' = Share(w) \cup {t},
         \A v \in Threads : v # w => (Share(v))' = Share(v)
  PROVE  HeldInv'
<1>1. PICK n \in Nat, d \in Nat, l \in Nat, c \in Nat :
        n = ticks_seen /\ d = ticks_dropped /\ l = lost /\ c = Cardinality(Held)
  <2>1. Cardinality(Held) \in Nat
    BY FS_CardinalityType DEF HeldInv
  <2>2. ticks_seen \in Nat /\ ticks_dropped \in Nat /\ lost \in Nat
    BY EngineAssumption DEF TypeOK, DispatcherOK
  <2> QED BY <2>1, <2>2
<1>2. Held' = Held \cup {t}
  BY DEF Held
<1>3. t \notin Held
  <2>1. ~(n + 1 <= n)
    OBVIOUS
  <2> QED BY <1>1, <2>1 DEF HeldInv
<1>4. IsFiniteSet(Held') /\ Cardinality(Held') = c + 1
  BY <1>1, <1>2, <1>3, FS_AddElement DEF HeldInv
<1>5. c + d + l = n
  BY <1>1 DEF HeldInv
<1>6. c + 1 + d + l = n + 1
  BY <1>5
<1>7. ASSUME NEW u \in Held' PROVE u.n <= n + 1
  <2>1. CASE u = t
    <3>1. n + 1 <= n + 1
      OBVIOUS
    <3> QED BY <1>1, <2>1, <3>1
  <2>2. CASE u \in Held
    <3>1. u \in Ticks
      BY <2>2 DEF Held, Share, Elems, TypeOK, TicksOK
    <3>2. u.n \in Nat /\ u.n <= n
      BY <1>1, <2>2, <3>1, EngineAssumption DEF Ticks, HeldInv
    <3> QED BY <3>2
  <2> QED BY <1>2, <2>1, <2>2
<1> QED BY <1>1, <1>4, <1>6, <1>7 DEF HeldInv

(* A step moves a tick, or takes one more off the ring and accounts for it.*)
LEMMA HeldStep == TypeOK /\ ThreadInv /\ HeldInv /\ [Next]_vars => HeldInv'
<1> SUFFICES ASSUME TypeOK, ThreadInv, HeldInv, [Next]_vars PROVE HeldInv'
  OBVIOUS
<1>1. ASSUME \A w \in Threads : (Share(w))' = Share(w), UNCHANGED <<ticks_seen, ticks_dropped, lost>>
      PROVE  HeldInv'
  <2>1. Held' = Held
    BY <1>1 DEF Held
  <2> QED BY <1>1, <2>1 DEF HeldInv
<1>2. CASE Quiet \/ \E o \in Orders : Drains(o) \/ \E w \in Threads : Sends(w, o)
  <2>1. UNCHANGED <<tickq, done, ticks_seen, ticks_dropped, lost>>
    BY <1>2 DEF Quiet, Drains, Sends, counters
  <2> QED BY <1>1, <2>1 DEF Share
<1>3. CASE Skip
  <2>1. /\ UNCHANGED <<tickq, done>> /\ ticks_seen' = ticks_seen + 1
        /\ \/ ticks_dropped' = ticks_dropped + 1 /\ lost' = lost
           \/ ticks_dropped' = ticks_dropped /\ lost' = lost + 1
    BY <1>3 DEF Skip
  <2>2. Held' = Held
    BY <2>1 DEF Held, Share
  <2>3. PICK n \in Nat, d \in Nat, l \in Nat, c \in Nat :
          n = ticks_seen /\ d = ticks_dropped /\ l = lost /\ c = Cardinality(Held)
    <3>1. Cardinality(Held) \in Nat
      BY FS_CardinalityType DEF HeldInv
    <3>2. ticks_seen \in Nat /\ ticks_dropped \in Nat /\ lost \in Nat
      BY EngineAssumption DEF TypeOK, DispatcherOK
    <3> QED BY <3>1, <3>2
  <2>4. c + (d + 1) + l = n + 1 /\ c + d + (l + 1) = n + 1
    BY <2>3 DEF HeldInv
  <2>5. ASSUME NEW u \in Held PROVE u.n <= n + 1
    <3>1. u \in Ticks
      BY DEF Held, Share, Elems, TypeOK, TicksOK
    <3>2. u.n \in Nat /\ u.n <= n
      BY <2>3, <3>1, EngineAssumption DEF Ticks, HeldInv
    <3> QED BY <3>2
  <2> QED BY <2>1, <2>2, <2>3, <2>4, <2>5 DEF HeldInv
<1>4. ASSUME NEW w \in Threads, NEW t \in Ticks, TakesQuietly(w, t) \/ TakesAndEmits(w, t) PROVE HeldInv'
  <2>1. Takes(w, t) /\ (NoOrder(w, t) \/ EmitOrder(w, t))
    BY <1>4 DEF TakesQuietly, TakesAndEmits
  <2>2. /\ Elems(done'[w]) = Elems(done[w]) \cup {t}
        /\ \A v \in Threads : v # w => done'[v] = done[v]
    BY <2>1, Done
  <2>3. /\ Elems(tickq[w]) = Elems(tickq'[w]) \cup {t}
        /\ \A v \in Threads : v # w => tickq'[v] = tickq[v]
        /\ UNCHANGED <<ticks_seen, ticks_dropped, lost>>
    BY <2>1 DEF Takes, counters
  <2>4. (Share(w))' = Share(w)
    BY <2>2, <2>3 DEF Share
  <2>5. \A v \in Threads : v # w => (Share(v))' = Share(v)
    BY <2>2, <2>3 DEF Share
  <2> QED BY <1>1, <2>3, <2>4, <2>5
<1>5. ASSUME NEW w \in Threads, NEW t \in Ticks, Routes(w, t) PROVE HeldInv'
  <2>1. /\ t.n = ticks_seen + 1 /\ ticks_seen' = ticks_seen + 1
        /\ UNCHANGED <<done, ticks_dropped, lost>>
        /\ tickq[w] \in Seq(Ticks) /\ tickq'[w] = Append(tickq[w], t)
        /\ \A v \in Threads : v # w => tickq'[v] = tickq[v]
    BY <1>5 DEF Routes
  <2>2. Elems(Append(tickq[w], t)) = Elems(tickq[w]) \cup {t}
    BY <2>1, AtEnd
  <2>3. (Share(w))' = Share(w) \cup {t} /\ \A v \in Threads : v # w => (Share(v))' = Share(v)
    BY <2>1, <2>2 DEF Share
  <2> QED BY <2>1, <2>3, OneMore
<1>6. ASSUME NEW t \in Ticks, InlineQuietly(t) \/ InlineEmits(t) PROVE HeldInv'
  <2>1. /\ Inline(t) /\ 0 \in Threads /\ (NoOrder(0, t) \/ EmitOrder(0, t))
    BY <1>6, EngineAssumption DEF InlineQuietly, InlineEmits, Threads
  <2>2. /\ t.n = ticks_seen + 1 /\ ticks_seen' = ticks_seen + 1
        /\ UNCHANGED <<tickq, ticks_dropped, lost>>
    BY <2>1 DEF Inline
  <2>3. /\ Elems(done'[0]) = Elems(done[0]) \cup {t}
        /\ \A v \in Threads : v # 0 => done'[v] = done[v]
    BY <2>1, Done
  <2>4. (Share(0))' = Share(0) \cup {t} /\ \A v \in Threads : v # 0 => (Share(v))' = Share(v)
    BY <2>2, <2>3 DEF Share
  <2> QED BY <2>1, <2>2, <2>4, OneMore
<1> QED BY <1>2, <1>3, <1>4, <1>5, <1>6, StepKinds

(* A run its deadline ends leaves no tick behind: main drops the senders   *)
(* and joins, and a worker only ends when it has read its channel to the   *)
(* end (main.rs:410, 486).  KeptInv says which queues are empty, HeldInv   *)
(* then counts the rest.                                                   *)
THEOREM NoTickIsLost == Spec => []DeadlineLosesNoTick
<1>1. Init => HeldInv
  <2> SUFFICES ASSUME Init PROVE HeldInv
    OBVIOUS
  <2>1. \A w \in Threads : tickq[w] = <<>> /\ done[w] = <<>>
    BY DEF Init
  <2>2. \A w \in Threads : Share(w) = {}
    BY <2>1, EmptyOrOne DEF Share
  <2>3. Held = {}
    BY <2>2 DEF Held
  <2>4. ticks_seen = 0 /\ ticks_dropped = 0 /\ lost = 0
    BY DEF Init
  <2> QED BY <2>3, <2>4, FS_EmptySet DEF HeldInv
<1>2. TypeOK /\ ThreadInv /\ KeptInv /\ HeldInv => DeadlineLosesNoTick
  <2> SUFFICES ASSUME TypeOK, ThreadInv, KeptInv, HeldInv, dpc = "finished", ~stop
               PROVE  /\ lost = 0
                      /\ Cardinality(UNION {Elems(done[w]) : w \in Threads}) = ticks_seen - ticks_dropped
    BY DEF DeadlineLosesNoTick
  <2>1. lost = 0 /\ \A w \in Threads : tickq[w] = <<>>
    BY DEF KeptInv, ThreadInv
  <2>2. \A w \in Threads : Share(w) = Elems(done[w])
    BY <2>1, EmptyOrOne DEF Share
  <2>3. UNION {Elems(done[w]) : w \in Threads} = Held
    BY <2>2 DEF Held
  <2>4. PICK n \in Nat, d \in Nat, c \in Nat :
          n = ticks_seen /\ d = ticks_dropped /\ c = Cardinality(Held)
    <3>1. Cardinality(Held) \in Nat
      BY FS_CardinalityType DEF HeldInv
    <3>2. ticks_seen \in Nat /\ ticks_dropped \in Nat
      BY EngineAssumption DEF TypeOK, DispatcherOK
    <3> QED BY <3>1, <3>2
  <2>5. c + d + 0 = n
    BY <2>1, <2>4 DEF HeldInv
  <2>6. c = n - d
    BY <2>5
  <2> QED BY <2>1, <2>3, <2>4, <2>6
<1> QED BY <1>1, <1>2, HeldStep, TypeCorrect, ThreadInvariant, PTL DEF Spec
=============================================================================
