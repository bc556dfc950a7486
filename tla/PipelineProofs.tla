--------------------------- MODULE PipelineProofs ---------------------------
(***************************************************************************)
(* For every size of the rings and of the socket and any number of ticks:  *)
(* whatever process fails, hangs or is killed, nothing of an earlier bench *)
(* is measured, the reports of a scenario can be set against each other,   *)
(* the comparison shows the reports of this bench, each ring is a bounded  *)
(* FIFO, and the orders of a symbol come back in the order of its ticks.   *)
(* For any number of symbols and of workers, and any assignment of them.   *)
(***************************************************************************)
EXTENDS Pipeline, FiniteSetTheorems, TLAPS

AllOff == \A p \in Procs : proc[p] = "off"

Closing == step \in {"compare", "ended", "failed"}

(* No process runs while a bus file of an earlier bench may be there, nor  *)
(* when the last scenario is over.                                         *)
WipedFirst ==
  /\ step = "wipe" => AllOff
  /\ step # "wipe" => bus # "left"
  /\ Closing => AllOff /\ scenario = "noisy"

(* Every message on its way or delivered is of this bench.                 *)
AllNow(q) == \A n \in DOMAIN q : q[n].bench = "now"

FreshInv ==
  /\ AllNow(socket)
  /\ AllNow(ticks_sent) /\ AllNow(ticks_got)
  /\ AllNow(work) /\ AllNow(emitted)
  /\ AllNow(orders_sent) /\ AllNow(orders_got)

(* The ticks the engine took that are accounted for, and those that may    *)
(* still become orders.                                                    *)
Spent == te.ticks_dropped_dispatch + te.orders_emitted + te.orders_dropped_ring_full
Held == Len(work) + Len(emitted)

(* Each tick is dropped, held, or made into at most one order, and the     *)
(* first that a worker handles is made into none.                          *)
OrdersInv ==
  /\ Spent + Held <= te.ticks_consumed
  /\ seen # {} => Spent + Held < te.ticks_consumed
  /\ seen = {} => /\ te.orders_emitted = 0 /\ te.orders_dropped_ring_full = 0
                  /\ emitted = <<>>
                  /\ te.ticks_consumed > 0 => work # <<>>

CountInv ==
  /\ fh.ticks_published = te.ticks_consumed + Unread(ticks_sent, ticks_got)
  /\ te.orders_emitted = fh.orders_received + Unread(orders_sent, orders_got)
  /\ fh.ticks_published + fh.publish_drops + Len(socket) <= seq
  /\ OrdersInv

(* Scenario s is over.                                                     *)
Past(s) == Closing \/ (s = "iso" /\ scenario = "noisy")

(* A process that is gone from a scenario without a failure wrote its      *)
(* report, which nobody overwrites, and the comparison is made of these.   *)
ReportInv ==
  /\ \A p \in Reporters : proc[p] = "gone" /\ scenario \notin short => report[scenario][p] = "now"
  /\ \A s \in Scenarios \ short : Past(s) => \A p \in Reporters : report[s][p] = "now"
  /\ step # "ended" => shown = <<>>
  /\ step = "ended" => shown = [s \in Rows |-> report[s]]
  /\ step = "failed" => Rows = {} \/ Unreadable

-----------------------------------------------------------------------------
(* Rings and counters.                                                     *)

(* A publish adds one to the unread messages of a ring that has room.      *)
LEMMA AfterPublish ==
  ASSUME NEW S, NEW sent \in Seq(S), NEW got \in Seq(S), NEW m \in S,
         Unread(sent, got) \in 0 .. RingCap, Len(sent) - Len(got) < RingCap
  PROVE  /\ Append(sent, m) \in Seq(S)
         /\ Unread(Append(sent, m), got) \in 0 .. RingCap
         /\ Unread(Append(sent, m), got) = Unread(sent, got) + 1
BY PipelineAssumption DEF Unread

(* A consume takes one from them.                                          *)
LEMMA AfterConsume ==
  ASSUME NEW S, NEW sent \in Seq(S), NEW got \in Seq(S),
         Unread(sent, got) \in 0 .. RingCap, Len(got) < Len(sent)
  PROVE  /\ sent[Len(got) + 1] \in S
         /\ Append(got, sent[Len(got) + 1]) \in Seq(S)
         /\ Unread(sent, Append(got, sent[Len(got) + 1])) \in 0 .. RingCap
         /\ Unread(sent, Append(got, sent[Len(got) + 1])) = Unread(sent, got) - 1
<1>1. Len(got) + 1 \in 1 .. Len(sent)
  OBVIOUS
<1>2. sent[Len(got) + 1] \in S
  BY <1>1
<1> QED BY <1>2, PipelineAssumption DEF Unread

(* The metrics are made of counters, and each increment is of one or two   *)
(* of them.                                                                *)
LEMMA FeedCounts ==
  ASSUME NEW f \in FeedMetrics
  PROVE  /\ f.ticks_published \in Nat /\ f.publish_drops \in Nat /\ f.orders_received \in Nat
         /\ [f EXCEPT !.ticks_published = @ + 1] =
              [ticks_published |-> f.ticks_published + 1,
               publish_drops |-> f.publish_drops, orders_received |-> f.orders_received]
         /\ [f EXCEPT !.publish_drops = @ + 1] =
              [ticks_published |-> f.ticks_published,
               publish_drops |-> f.publish_drops + 1, orders_received |-> f.orders_received]
         /\ [f EXCEPT !.orders_received = @ + 1] =
              [ticks_published |-> f.ticks_published,
               publish_drops |-> f.publish_drops, orders_received |-> f.orders_received + 1]
BY DEF FeedMetrics

(* The same of the engine's, ...                                           *)
LEMMA EngineCounts ==
  ASSUME NEW e \in EngineMetrics
  PROVE  /\ e.ticks_consumed \in Nat /\ e.ticks_dropped_dispatch \in Nat
         /\ e.orders_emitted \in Nat /\ e.orders_dropped_ring_full \in Nat
         /\ [e EXCEPT !.ticks_consumed = @ + 1] =
              [ticks_consumed |-> e.ticks_consumed + 1,
               ticks_dropped_dispatch |-> e.ticks_dropped_dispatch,
               orders_emitted |-> e.orders_emitted,
               orders_dropped_ring_full |-> e.orders_dropped_ring_full]
         /\ [e EXCEPT !.ticks_dropped_dispatch = @ + 1] =
              [ticks_consumed |-> e.ticks_consumed,
               ticks_dropped_dispatch |-> e.ticks_dropped_dispatch + 1,
               orders_emitted |-> e.orders_emitted,
               orders_dropped_ring_full |-> e.orders_dropped_ring_full]
         /\ [e EXCEPT !.orders_emitted = @ + 1] =
              [ticks_consumed |-> e.ticks_consumed,
               ticks_dropped_dispatch |-> e.ticks_dropped_dispatch,
               orders_emitted |-> e.orders_emitted + 1,
               orders_dropped_ring_full |-> e.orders_dropped_ring_full]
         /\ [e EXCEPT !.orders_dropped_ring_full = @ + 1] =
              [ticks_consumed |-> e.ticks_consumed,
               ticks_dropped_dispatch |-> e.ticks_dropped_dispatch,
               orders_emitted |-> e.orders_emitted,
               orders_dropped_ring_full |-> e.orders_dropped_ring_full + 1]
         /\ [e EXCEPT !.ticks_consumed = @ + 1] \in EngineMetrics
         /\ [e EXCEPT !.ticks_dropped_dispatch = @ + 1] \in EngineMetrics
         /\ [e EXCEPT !.orders_emitted = @ + 1] \in EngineMetrics
         /\ [e EXCEPT !.orders_dropped_ring_full = @ + 1] \in EngineMetrics
BY DEF EngineMetrics

LEMMA EngineFields ==
  ASSUME NEW e \in EngineMetrics
  PROVE  /\ e.ticks_consumed \in Nat /\ e.ticks_dropped_dispatch \in Nat
         /\ e.orders_emitted \in Nat /\ e.orders_dropped_ring_full \in Nat
BY DEF EngineMetrics

(* An increment of one counter leaves the others.                          *)
LEMMA Consumed ==
  ASSUME NEW e \in EngineMetrics, NEW d, d = [e EXCEPT !.ticks_consumed = @ + 1]
  PROVE  /\ d.ticks_consumed = e.ticks_consumed + 1
         /\ d.ticks_dropped_dispatch = e.ticks_dropped_dispatch
         /\ d.orders_emitted = e.orders_emitted
         /\ d.orders_dropped_ring_full = e.orders_dropped_ring_full
BY DEF EngineMetrics

LEMMA Emitted ==
  ASSUME NEW e \in EngineMetrics, NEW d, d = [e EXCEPT !.orders_emitted = @ + 1]
  PROVE  /\ d.ticks_consumed = e.ticks_consumed
         /\ d.ticks_dropped_dispatch = e.ticks_dropped_dispatch
         /\ d.orders_emitted = e.orders_emitted + 1
         /\ d.orders_dropped_ring_full = e.orders_dropped_ring_full
BY DEF EngineMetrics

LEMMA DroppedFull ==
  ASSUME NEW e \in EngineMetrics, NEW d, d = [e EXCEPT !.orders_dropped_ring_full = @ + 1]
  PROVE  /\ d.ticks_consumed = e.ticks_consumed
         /\ d.ticks_dropped_dispatch = e.ticks_dropped_dispatch
         /\ d.orders_emitted = e.orders_emitted
         /\ d.orders_dropped_ring_full = e.orders_dropped_ring_full + 1
BY DEF EngineMetrics

(* ... and of a tick that is consumed and dropped.                         *)
LEMMA DropCounts ==
  ASSUME NEW e \in EngineMetrics,
         NEW d, d = [e EXCEPT !.ticks_consumed = @ + 1, !.ticks_dropped_dispatch = @ + 1]
  PROVE  /\ d \in EngineMetrics
         /\ d.ticks_consumed = e.ticks_consumed + 1
         /\ d.ticks_dropped_dispatch = e.ticks_dropped_dispatch + 1
         /\ d.orders_emitted = e.orders_emitted
         /\ d.orders_dropped_ring_full = e.orders_dropped_ring_full
<1> DEFINE taken == [e EXCEPT !.ticks_consumed = @ + 1]
<1>1. d = [taken EXCEPT !.ticks_dropped_dispatch = @ + 1]
  OBVIOUS
<1>0. taken = [ticks_consumed |-> e.ticks_consumed + 1,
               ticks_dropped_dispatch |-> e.ticks_dropped_dispatch,
               orders_emitted |-> e.orders_emitted,
               orders_dropped_ring_full |-> e.orders_dropped_ring_full]
  BY EngineCounts
<1>2. /\ taken \in EngineMetrics /\ taken.ticks_consumed = e.ticks_consumed + 1
      /\ taken.ticks_dropped_dispatch = e.ticks_dropped_dispatch
      /\ taken.orders_emitted = e.orders_emitted
      /\ taken.orders_dropped_ring_full = e.orders_dropped_ring_full
  BY <1>0, EngineCounts
<1> HIDE DEF taken
<1>3. d = [ticks_consumed |-> taken.ticks_consumed,
           ticks_dropped_dispatch |-> taken.ticks_dropped_dispatch + 1,
           orders_emitted |-> taken.orders_emitted,
           orders_dropped_ring_full |-> taken.orders_dropped_ring_full]
  BY <1>1, <1>2, EngineCounts
<1>4. d \in EngineMetrics
  BY <1>1, <1>2, EngineCounts
<1> QED BY <1>2, <1>3, <1>4

(* A queue is what is left of another when it has only messages of it.     *)
Within(q, r) == \A n \in DOMAIN q : \E m \in DOMAIN r : q[n] = r[m]

(* What is left of a queue of which one message was taken, ...             *)
Left(r, q, n) ==
  /\ Len(r) = Len(q) - 1
  /\ \A m \in DOMAIN r : \/ m < n /\ m \in DOMAIN q /\ r[m] = q[m]
                         \/ m >= n /\ m + 1 \in DOMAIN q /\ r[m] = q[m + 1]

(* ... the first or any.                                                   *)
LEMMA LeftByTail ==
  ASSUME NEW q \in Seq(MarketTick), q # <<>>
  PROVE  /\ 1 \in DOMAIN q /\ Head(q) = q[1] /\ Head(q) \in MarketTick
         /\ Tail(q) \in Seq(MarketTick) /\ Left(Tail(q), q, 1)
BY DEF Left

LEMMA LeftByRemoveAt ==
  ASSUME NEW q \in Seq(MarketTick), NEW n \in DOMAIN q
  PROVE  RemoveAt(q, n) \in Seq(MarketTick) /\ Left(RemoveAt(q, n), q, n)
<1> DEFINE a == SubSeq(q, 1, n - 1)
           b == SubSeq(q, n + 1, Len(q))
<1>1. n \in Nat /\ 1 <= n /\ n <= Len(q) /\ Len(q) \in Nat
  OBVIOUS
<1>2. /\ a \in Seq(MarketTick) /\ Len(a) = n - 1
      /\ \A m \in 1 .. n - 1 : a[m] = q[m]
  BY <1>1
<1>3. /\ b \in Seq(MarketTick) /\ Len(b) = Len(q) - n
      /\ \A m \in 1 .. Len(q) - n : b[m] = q[n + m]
  BY <1>1
<1> HIDE DEF a, b
<1>4. /\ a \o b \in Seq(MarketTick) /\ Len(a \o b) = Len(q) - 1
      /\ \A m \in 1 .. n - 1 : (a \o b)[m] = a[m]
      /\ \A m \in n .. Len(q) - 1 : (a \o b)[m] = b[m - (n - 1)]
  BY <1>1, <1>2, <1>3, SMTT(30)
<1>5. ASSUME NEW m \in 1 .. Len(q) - 1
      PROVE  \/ m < n /\ m \in DOMAIN q /\ (a \o b)[m] = q[m]
             \/ m >= n /\ m + 1 \in DOMAIN q /\ (a \o b)[m] = q[m + 1]
  <2>1. CASE m < n
    BY <1>1, <1>2, <1>4, <2>1
  <2>2. CASE m >= n
    <3>1. m - (n - 1) \in 1 .. Len(q) - n /\ n + (m - (n - 1)) = m + 1 /\ m \in n .. Len(q) - 1
      BY <1>1, <2>2
    <3>2. (a \o b)[m] = q[m + 1]
      BY <1>3, <1>4, <3>1
    <3> QED BY <1>1, <2>2, <3>2
  <2>3. m < n \/ m >= n
    BY <1>1
  <2> QED BY <2>1, <2>2, <2>3, Zenon
<1>6. RemoveAt(q, n) = a \o b
  BY DEF RemoveAt, a, b
<1>7. DOMAIN (a \o b) = 1 .. Len(q) - 1
  BY <1>4
<1> QED BY <1>4, <1>5, <1>6, <1>7 DEF Left

LEMMA LeftIsWithin ==
  ASSUME NEW r, NEW q, NEW n, Left(r, q, n)
  PROVE  Within(r, q)
BY DEF Left, Within

(* What a queue is within may grow.                                        *)
LEMMA WithinWithin ==
  ASSUME NEW p, NEW q, NEW r, Within(p, q), Within(q, r)
  PROVE  Within(p, r)
BY DEF Within

(* What holds of the elements of a queue and of another message holds of   *)
(* those of the queue to which it is added.                                *)
LEMMA AppendElements ==
  ASSUME NEW S, NEW q \in Seq(S), NEW m \in S, NEW n \in DOMAIN Append(q, m)
  PROVE  (n \in DOMAIN q /\ Append(q, m)[n] = q[n]) \/ (n = Len(q) + 1 /\ Append(q, m)[n] = m)
OBVIOUS

LEMMA AppendType ==
  ASSUME NEW S, NEW q \in Seq(S), NEW m \in S
  PROVE  Append(q, m) \in Seq(S)
OBVIOUS

LEMMA WithinAppend ==
  ASSUME NEW q \in Seq(MarketTick), NEW m \in MarketTick
  PROVE  Within(q, Append(q, m)) /\ \E n \in DOMAIN Append(q, m) : Append(q, m)[n] = m
<1>1. \A n \in DOMAIN q : n \in DOMAIN Append(q, m) /\ Append(q, m)[n] = q[n]
  OBVIOUS
<1>2. Len(q) + 1 \in DOMAIN Append(q, m) /\ Append(q, m)[Len(q) + 1] = m
  OBVIOUS
<1> QED BY <1>1, <1>2 DEF Within

LEMMA AppendWithin ==
  ASSUME NEW q \in Seq(MarketTick), NEW m \in MarketTick, NEW r,
         Within(q, r), \E k \in DOMAIN r : r[k] = m
  PROVE  Within(Append(q, m), r)
<1> SUFFICES ASSUME NEW n \in DOMAIN Append(q, m)
             PROVE  \E k \in DOMAIN r : Append(q, m)[n] = r[k]
  BY DEF Within
<1>1. (n \in DOMAIN q /\ Append(q, m)[n] = q[n]) \/ Append(q, m)[n] = m
  BY AppendElements
<1> QED BY <1>1 DEF Within

(* A tick the engine takes goes to a worker, or is dropped because that    *)
(* worker has some already.                                                *)
Takes(tick) ==
  /\ Len(ticks_got) < Len(ticks_sent) /\ tick = ticks_sent[Len(ticks_got) + 1]
  /\ ticks_sent' = ticks_sent /\ ticks_got' = Append(ticks_got, tick)
  /\ \/ /\ work' = Append(work, tick)
        /\ te' = [te EXCEPT !.ticks_consumed = @ + 1]
     \/ /\ work # <<>> /\ work' = work
        /\ te' = [te EXCEPT !.ticks_consumed = @ + 1, !.ticks_dropped_dispatch = @ + 1]
  /\ UNCHANGED <<orders_sent, orders_got, socket, seq, emitted, seen, fh>>

LEMMA TakesTick ==
  ASSUME DataOK, ChannelsOK, TakeTick
  PROVE  \E tick \in MarketTick : Takes(tick)
<1> DEFINE tick == ticks_sent[Len(ticks_got) + 1]
<1>1. /\ Len(ticks_got) < Len(ticks_sent) /\ ticks_sent' = ticks_sent
      /\ ticks_got' = Append(ticks_got, tick) /\ tick \in MarketTick
      /\ UNCHANGED <<orders_sent, orders_got, socket, seq, emitted, seen, fh>>
  BY AfterConsume DEF TakeTick, Ticks!Consume, DataOK, RingOK
<1>2. Pending(Worker(tick)) >= ChanCap => work # <<>>
  <2> SUFFICES ASSUME work = <<>> PROVE Pending(Worker(tick)) = 0
    BY PipelineAssumption
  <2>1. {n \in DOMAIN work : Worker(work[n]) = Worker(tick)} = {}
    OBVIOUS
  <2> QED BY <2>1, FS_EmptySet DEF Pending
<1>3. \/ work' = Append(work, tick) /\ te' = [te EXCEPT !.ticks_consumed = @ + 1]
      \/ /\ Pending(Worker(tick)) >= ChanCap /\ work' = work
         /\ te' = [te EXCEPT !.ticks_consumed = @ + 1, !.ticks_dropped_dispatch = @ + 1]
  BY DEF TakeTick
<1> QED BY <1>1, <1>2, <1>3 DEF Takes

(* A worker takes a tick out of its channel, and hands on an order of it   *)
(* or none.                                                                *)
Handles(n) ==
  /\ n \in DOMAIN work /\ work[n] \in MarketTick
  /\ \A m \in DOMAIN work : m < n => Worker(work[m]) # Worker(work[n])
  /\ work' \in Seq(MarketTick) /\ Left(work', work, n)
  /\ seen' = seen \cup {Symbol(work[n])}
  /\ \/ emitted' = emitted
     \/ seen # {} /\ emitted' = Append(emitted, work[n])
  /\ UNCHANGED <<rings, socket, seq, metrics>>

LEMMA HandlesTick ==
  ASSUME ChannelsOK, NEW n \in DOMAIN work, HandleTick(n)
  PROVE  Handles(n)
<1>1. work \in Seq(MarketTick) /\ work' = RemoveAt(work, n)
  BY DEF ChannelsOK, HandleTick
<1>2. work[n] \in MarketTick /\ work' \in Seq(MarketTick) /\ Left(work', work, n)
  BY <1>1, LeftByRemoveAt
<1>3. \A m \in DOMAIN work : m < n => m \in 1 .. n - 1
  BY <1>1
<1> QED BY <1>2, <1>3 DEF HandleTick, Handles

(* The dispatcher takes the first order, and publishes or drops it.        *)
Publishes(order) ==
  /\ emitted # <<>> /\ order = emitted[1] /\ 1 \in DOMAIN emitted
  /\ emitted' \in Seq(MarketTick) /\ Left(emitted', emitted, 1)
  /\ \/ /\ Len(orders_sent) - Len(orders_got) < RingCap
        /\ orders_sent' = Append(orders_sent, order)
        /\ te' = [te EXCEPT !.orders_emitted = @ + 1]
     \/ /\ orders_sent' = orders_sent
        /\ te' = [te EXCEPT !.orders_dropped_ring_full = @ + 1]
  /\ UNCHANGED <<ticks_sent, ticks_got, orders_got, socket, seq, work, seen, fh>>

LEMMA PublishesOrder ==
  ASSUME DataOK, ChannelsOK, PublishOrder
  PROVE  \E order \in MarketTick : Publishes(order)
<1>1. emitted \in Seq(MarketTick) /\ emitted # <<>> /\ emitted' = Tail(emitted)
  BY DEF ChannelsOK, PublishOrder
<1>2. /\ 1 \in DOMAIN emitted /\ Head(emitted) = emitted[1] /\ Head(emitted) \in MarketTick
      /\ emitted' \in Seq(MarketTick) /\ Left(emitted', emitted, 1)
  BY <1>1, LeftByTail
<1>3. \/ /\ Len(orders_sent) - Len(orders_got) < RingCap
         /\ orders_sent' = Append(orders_sent, Head(emitted)) /\ orders_got' = orders_got
         /\ te' = [te EXCEPT !.orders_emitted = @ + 1]
      \/ /\ UNCHANGED <<orders_sent, orders_got>>
         /\ te' = [te EXCEPT !.orders_dropped_ring_full = @ + 1]
  BY DEF PublishOrder, Orders!Publish
<1> QED BY <1>1, <1>2, <1>3 DEF PublishOrder, Publishes

(* What the engine's steps leave alone.                                    *)
LEMMA EngineLeaves ==
  ASSUME EnginePath
  PROVE  /\ UNCHANGED <<scenario, step, bus, report, shown, short, oldbus>>
         /\ \/ proc' = proc
            \/ proc["engine"] = "run" /\ proc' = [proc EXCEPT !["engine"] = "join"]
            \/ proc["engine"] = "join" /\ proc' = [proc EXCEPT !["engine"] = "drain"]
BY DEF EnginePath, TakeTick, HandleTick, PublishOrder, StopDispatch, JoinWorkers, script, files

LEMMA EngineIdles ==
  ASSUME StopDispatch \/ JoinWorkers
  PROVE  UNCHANGED <<rings, socket, seq, work, emitted, seen, metrics>>
BY DEF StopDispatch, JoinWorkers, engine

-----------------------------------------------------------------------------
(* The bus file is wiped before any process of a scenario is launched      *)
(* (run-bench.sh:220), and all are gone before the next scenario.          *)
LEMMA WipeStep ==
  ASSUME TypeOK, WipedFirst, [Next]_vars
  PROVE  WipedFirst'
<1> USE DEF WipedFirst, AllOff, Closing, script
<1>0. proc \in [Procs -> {"off", "starting", "run", "join", "drain", "write", "gone"}]
  BY DEF TypeOK, ScriptOK
<1>1. CASE Wipe
  BY <1>1 DEF Wipe, Wiped
<1>2. CASE Launch
  <2>1. step \in {"feedhandler", "engine", "exchange"} /\ step' \in {"engine", "exchange", "wait"}
    BY <1>2 DEF Launch, After
  <2> QED BY <1>2, <2>1 DEF Launch
<1>3. CASE EndScenario
  <2>1. \A p \in Procs : proc'[p] = "off"
    BY <1>3 DEF EndScenario
  <2>2. /\ scenario' = "noisy" /\ step' \in {"wipe", "compare"}
        /\ step' # "wipe" => bus' # "left"
    BY <1>3 DEF EndScenario, TypeOK, ScriptOK, Scenarios
  <2> QED BY <2>1, <2>2
<1>4. CASE Compare
  BY <1>4 DEF Compare
<1>5. ASSUME NEW p \in Procs, OpenBus(p) \/ Fail(p) \/ BeginReport(p) \/ WriteReport(p)
      PROVE  WipedFirst'
  BY <1>0, <1>5 DEF OpenBus, Fail, BeginReport, WriteReport
<1>6. CASE ConnectSocket
  BY <1>0, <1>6 DEF ConnectSocket, Procs
<1>7. CASE DataPath \/ UNCHANGED vars
  <2>1. UNCHANGED <<scenario, step, bus, proc>>
    BY <1>7 DEF DataPath, SendTick, PublishTick, DropTick, ConsumeOrder, vars
  <2> QED BY <2>1
<1>8. CASE EnginePath
  BY <1>0, <1>8, EngineLeaves DEF Procs, Reporters
<1> QED BY <1>1, <1>2, <1>3, <1>4, <1>5, <1>6, <1>7, <1>8 DEF Next, Script

(* The types of the script's variables and of the processes.               *)
LEMMA ScriptTypes ==
  ASSUME ScriptOK, [Next]_vars
  PROVE  ScriptOK'
<1> USE DEF ScriptOK, script
<1>1. CASE Wipe
  BY <1>1 DEF Wipe, Wiped
<1>2. CASE Launch
  <2>1. step \in {"feedhandler", "engine", "exchange"} /\ step' \in {"engine", "exchange", "wait"}
    BY <1>2 DEF Launch, After
  <2> QED BY <1>2, <2>1 DEF Launch
<1>3. CASE EndScenario
  <2>1. proc' \in [Procs -> {"off", "starting", "run", "join", "drain", "write", "gone"}]
    BY <1>3 DEF EndScenario
  <2>2. /\ scenario' \in Scenarios /\ step' \in {"wipe", "compare"}
        /\ bus' \in {"absent", "left", "open"}
    BY <1>3 DEF EndScenario, Scenarios
  <2> QED BY <2>1, <2>2
<1>4. CASE Compare
  BY <1>4 DEF Compare
<1>5. ASSUME NEW p \in Procs, OpenBus(p) \/ Fail(p) \/ BeginReport(p) \/ WriteReport(p)
      PROVE  ScriptOK'
  BY <1>5 DEF OpenBus, Fail, BeginReport, WriteReport
<1>6. CASE ConnectSocket
  BY <1>6 DEF ConnectSocket
<1>7. CASE DataPath \/ UNCHANGED vars
  <2>1. UNCHANGED <<scenario, step, bus, proc>>
    BY <1>7 DEF DataPath, SendTick, PublishTick, DropTick, ConsumeOrder, vars
  <2> QED BY <2>1
<1>8. CASE EnginePath
  BY <1>8, EngineLeaves
<1> QED BY <1>1, <1>2, <1>3, <1>4, <1>5, <1>6, <1>7, <1>8 DEF Next, Script

(* The types of the report files, and of what the comparison shows.        *)
LEMMA FileTypes ==
  ASSUME ScriptOK, FilesOK, [Next]_vars
  PROVE  FilesOK'
<1> USE DEF FilesOK, files
<1>1. CASE EndScenario
  <2>1. short' \subseteq Scenarios /\ UNCHANGED <<report, shown, oldbus>>
    BY <1>1 DEF EndScenario, ScriptOK
  <2> QED BY <2>1
<1>2. CASE Compare
  <2>1. shown' \in UNION {[S -> [Reporters -> Reports]] : S \in SUBSET Scenarios}
    <3>1. CASE shown' = shown
      BY <3>1
    <3>2. CASE shown' = [s \in Rows |-> report[s]]
      <4>1. Rows \in SUBSET Scenarios /\ shown' \in [Rows -> [Reporters -> Reports]]
        BY <3>2 DEF Rows
      <4> QED BY <4>1
    <3> QED BY <1>2, <3>1, <3>2 DEF Compare
  <2> QED BY <1>2, <2>1 DEF Compare
<1>3. ASSUME NEW p \in Procs, Fail(p) PROVE FilesOK'
  <2>1. short' \subseteq Scenarios /\ UNCHANGED <<report, shown, oldbus>>
    BY <1>3 DEF Fail, ScriptOK
  <2> QED BY <2>1
<1>4. ASSUME NEW p \in Procs, BeginReport(p) \/ WriteReport(p) PROVE FilesOK'
  <2>1. report' \in [Scenarios -> [Reporters -> Reports]]
    BY <1>4, SMTT(30) DEF BeginReport, WriteReport, OutDir, Reports, ScriptOK
  <2> QED BY <1>4, <2>1 DEF BeginReport, WriteReport
<1>5. CASE \/ Wipe \/ Launch \/ ConnectSocket \/ DataPath \/ UNCHANGED vars
           \/ \E p \in Procs : OpenBus(p)
  <2>1. UNCHANGED <<report, shown, short, oldbus>>
    BY <1>5 DEF Wipe, Launch, OpenBus, ConnectSocket, DataPath, SendTick, PublishTick, DropTick,
                ConsumeOrder, vars
  <2> QED BY <2>1
<1>6. CASE EnginePath
  BY <1>6, EngineLeaves
<1> QED BY <1>1, <1>2, <1>3, <1>4, <1>5, <1>6 DEF Next, Script

(* The types of rings, socket and counters.                                *)
LEMMA DataTypes ==
  ASSUME DataOK, ChannelsOK, WipedFirst, [Next]_vars
  PROVE  DataOK'
<1> USE PipelineAssumption
<1> USE DEF DataOK, rings, metrics
<1>1. CASE EndScenario
  <2>1. RingOK(ticks_sent, ticks_got)' /\ RingOK(orders_sent, orders_got)'
    BY <1>1 DEF EndScenario, RingOK, Unread
  <2>2. fh' \in FeedMetrics /\ te' \in EngineMetrics
    BY <1>1 DEF EndScenario, NoFeed, NoEngine, FeedMetrics, EngineMetrics
  <2> QED BY <1>1, <2>1, <2>2 DEF EndScenario
<1>2. ASSUME NEW p \in Procs, Fail(p) \/ BeginReport(p) PROVE DataOK'
  <2>1. UNCHANGED <<rings, seq, metrics>> /\ (socket' = <<>> \/ socket' = socket)
    BY <1>2 DEF Fail, BeginReport
  <2>2. <<>> \in Seq(MarketTick) /\ socket \in Seq(MarketTick)
    OBVIOUS
  <2>3. socket' \in Seq(MarketTick)
    BY <2>1, <2>2, Zenon
  <2> QED BY <2>1, <2>3 DEF RingOK
<1>3. CASE SendTick
  <2>1. [bench |-> "now", seq_num |-> seq + 1] \in MarketTick
    BY <1>3 DEF SendTick, MarketTick
  <2>2. socket' \in Seq(MarketTick) /\ seq' \in 0 .. MaxTicks
    BY <1>3, <2>1, SMTT(30) DEF SendTick
  <2> QED BY <1>3, <2>2 DEF SendTick, RingOK
<1>4. CASE PublishTick
  <2>1. Head(socket) \in MarketTick /\ socket' \in Seq(MarketTick)
    BY <1>4 DEF PublishTick, Read
  <2>2. RingOK(ticks_sent, ticks_got)'
    BY <1>4, <2>1, AfterPublish DEF PublishTick, Ticks!Publish, RingOK
  <2>3. fh' \in FeedMetrics
    BY <1>4, FeedCounts, SMTT(30) DEF PublishTick, FeedMetrics
  <2> QED BY <1>4, <2>1, <2>2, <2>3 DEF PublishTick, RingOK
<1>5. CASE DropTick
  <2>1. socket' \in Seq(MarketTick)
    BY <1>5 DEF DropTick, Read
  <2>2. fh' \in FeedMetrics
    BY <1>5, FeedCounts, SMTT(30) DEF DropTick, Dropped, FeedMetrics
  <2> QED BY <1>5, <2>1, <2>2 DEF DropTick, RingOK
<1>6. CASE ConsumeOrder
  <2>1. RingOK(orders_sent, orders_got)'
    BY <1>6, AfterConsume DEF ConsumeOrder, Orders!Consume, RingOK
  <2>2. fh' \in FeedMetrics
    BY <1>6, FeedCounts, SMTT(30) DEF ConsumeOrder, FeedMetrics
  <2> QED BY <1>6, <2>1, <2>2 DEF ConsumeOrder, RingOK
<1>7. CASE TakeTick
  <2>1. PICK tick \in MarketTick : Takes(tick)
    BY <1>7, TakesTick
  <2>2. RingOK(ticks_sent, ticks_got)'
    BY <2>1, AfterConsume DEF Takes, RingOK
  <2>3. te' \in EngineMetrics
    BY <2>1, EngineCounts, DropCounts, ZenonT(30) DEF Takes
  <2> QED BY <2>1, <2>2, <2>3 DEF Takes, RingOK
<1>a. ASSUME NEW n \in DOMAIN work, HandleTick(n) PROVE DataOK'
  BY <1>a, HandlesTick DEF Handles, RingOK
<1>b. CASE PublishOrder
  <2>1. PICK order \in MarketTick : Publishes(order)
    BY <1>b, PublishesOrder
  <2>2. RingOK(orders_sent, orders_got)'
    <3>1. CASE orders_sent' = orders_sent
      BY <2>1, <3>1 DEF Publishes, RingOK
    <3>2. CASE orders_sent' = Append(orders_sent, order) /\ Len(orders_sent) - Len(orders_got) < RingCap
      BY <2>1, <3>2, AfterPublish DEF Publishes, RingOK
    <3> QED BY <2>1, <3>1, <3>2 DEF Publishes
  <2>3. te' \in EngineMetrics
    BY <2>1, EngineCounts DEF Publishes
  <2> QED BY <2>1, <2>2, <2>3 DEF Publishes, RingOK
<1>c. CASE StopDispatch \/ JoinWorkers
  BY <1>c, EngineIdles DEF RingOK
<1>8. ASSUME NEW p \in Procs, OpenBus(p) PROVE DataOK'
  <2>1. bus # "left"
    BY <1>8 DEF OpenBus, WipedFirst, AllOff
  <2> QED BY <1>8, <2>1 DEF OpenBus, RingOK
<1>9. CASE \/ Wipe \/ Launch \/ Compare \/ ConnectSocket \/ UNCHANGED vars
           \/ \E p \in Procs : WriteReport(p)
  <2>1. UNCHANGED <<rings, socket, seq, metrics>>
    BY <1>9 DEF Wipe, Launch, Compare, ConnectSocket, WriteReport, vars
  <2> QED BY <2>1 DEF RingOK
<1> QED BY <1>1, <1>2, <1>3, <1>4, <1>5, <1>6, <1>7, <1>8, <1>9, <1>a, <1>b, <1>c
        DEF Next, Script, DataPath, EnginePath

(* The types of the channels.                                              *)
LEMMA ChannelTypes ==
  ASSUME DataOK, ChannelsOK, [Next]_vars
  PROVE  ChannelsOK'
<1>1. CASE EndScenario
  BY <1>1 DEF EndScenario, ChannelsOK
<1>2. CASE TakeTick
  <2>1. PICK tick \in MarketTick : Takes(tick)
    BY <1>2, TakesTick
  <2>2. work' \in Seq(MarketTick) /\ emitted' = emitted
    BY <2>1, AppendType, Zenon DEF Takes, ChannelsOK
  <2> QED BY <2>2 DEF ChannelsOK
<1>3. ASSUME NEW n \in DOMAIN work, HandleTick(n) PROVE ChannelsOK'
  <2>1. Handles(n)
    BY <1>3, HandlesTick
  <2>2. emitted' \in Seq(MarketTick)
    BY <2>1, AppendType, Zenon DEF Handles, ChannelsOK
  <2> QED BY <2>1, <2>2 DEF Handles, ChannelsOK
<1>4. CASE PublishOrder
  <2>1. PICK order \in MarketTick : Publishes(order)
    BY <1>4, PublishesOrder
  <2> QED BY <2>1 DEF Publishes, ChannelsOK
<1>5. CASE StopDispatch \/ JoinWorkers
  BY <1>5, EngineIdles DEF ChannelsOK
<1>6. CASE \/ Wipe \/ Launch \/ Compare \/ ConnectSocket \/ DataPath \/ UNCHANGED vars
           \/ \E p \in Procs : OpenBus(p) \/ Fail(p) \/ BeginReport(p) \/ WriteReport(p)
  <2>1. UNCHANGED engine
    BY <1>6 DEF Wipe, Launch, Compare, ConnectSocket, DataPath, SendTick, PublishTick, DropTick,
                ConsumeOrder, OpenBus, Fail, BeginReport, WriteReport, vars
  <2> QED BY <2>1 DEF engine, ChannelsOK
<1> QED BY <1>1, <1>2, <1>3, <1>4, <1>5, <1>6 DEF Next, Script, EnginePath

(* Type correctness, and the order of the script: no process runs while a  *)
(* bus file of an earlier bench may be there (run-bench.sh:220).           *)
THEOREM TypeCorrect == Spec => [](TypeOK /\ WipedFirst)
<1> USE PipelineAssumption
<1>1. Init => TypeOK /\ WipedFirst
  <2> SUFFICES ASSUME Init PROVE TypeOK /\ WipedFirst
    OBVIOUS
  <2>1. ScriptOK /\ WipedFirst
    <3>1. /\ proc \in [Procs -> {"off", "starting", "run", "join", "drain", "write", "gone"}]
          /\ \A p \in Procs : proc[p] = "off"
      BY DEF Init
    <3>2. scenario = "iso" /\ step = "wipe" /\ bus \in {"absent", "left"}
      BY DEF Init
    <3> QED BY <3>1, <3>2 DEF ScriptOK, WipedFirst, AllOff, Closing, Scenarios
  <2>2. DataOK /\ ChannelsOK
    <3>1. RingOK(ticks_sent, ticks_got) /\ RingOK(orders_sent, orders_got)
      BY DEF Init, Ticks!Init, Orders!Init, RingOK, Unread
    <3>2. fh \in FeedMetrics /\ te \in EngineMetrics
      BY DEF Init, NoFeed, NoEngine, FeedMetrics, EngineMetrics
    <3> QED BY <3>1, <3>2 DEF Init, DataOK, ChannelsOK
  <2>3. FilesOK
    <3>1. report \in [Scenarios -> [Reporters -> Reports]]
      BY DEF Init, Reports
    <3>2. shown \in UNION {[S -> [Reporters -> Reports]] : S \in SUBSET Scenarios}
      <4>1. shown \in [{} -> [Reporters -> Reports]]
        BY DEF Init
      <4> QED BY <4>1
    <3> QED BY <3>1, <3>2 DEF Init, FilesOK
  <2> QED BY <2>1, <2>2, <2>3 DEF TypeOK
<1>2. TypeOK /\ WipedFirst /\ [Next]_vars => (TypeOK /\ WipedFirst)'
  BY WipeStep, ScriptTypes, FileTypes, DataTypes, ChannelTypes DEF TypeOK
<1> QED BY <1>1, <1>2, PTL DEF Spec

-----------------------------------------------------------------------------
(* Messages of this bench stay so when one is added to a queue ...         *)
LEMMA AllNowAppend ==
  ASSUME NEW q \in Seq(MarketTick), AllNow(q), NEW m \in MarketTick, m.bench = "now"
  PROVE  AllNow(Append(q, m))
<1> SUFFICES ASSUME NEW n \in 1 .. Len(q) + 1 PROVE Append(q, m)[n].bench = "now"
  BY DEF AllNow
<1>1. CASE n = Len(q) + 1
  BY <1>1
<1>2. CASE n # Len(q) + 1
  <2>1. n \in 1 .. Len(q) /\ Append(q, m)[n] = q[n]
    BY <1>2
  <2> QED BY <2>1 DEF AllNow
<1> QED BY <1>1, <1>2

(* ... and those of a queue within it are.                                 *)
LEMMA AllNowWithin ==
  ASSUME NEW q, NEW r, Within(q, r), AllNow(r)
  PROVE  AllNow(q)
BY DEF Within, AllNow

(* Taking the first leaves only such messages.                             *)
LEMMA AllNowTail ==
  ASSUME NEW q \in Seq(MarketTick), AllNow(q), q # <<>>
  PROVE  AllNow(Tail(q)) /\ Head(q).bench = "now"
<1>1. Head(q).bench = "now"
  BY LeftByTail DEF AllNow
<1>2. Within(Tail(q), q)
  BY LeftByTail, LeftIsWithin
<1> QED BY <1>1, <1>2, AllNowWithin

(* "The bus file is wiped first so producers/consumers start clean"        *)
(* (run-demo.sh:7; run-bench.sh:220): whatever an earlier bench left in    *)
(* the bus file, no tick of it is measured and no order of it counted.     *)
THEOREM StartsClean == Spec => []NothingStale
<1> USE PipelineAssumption
<1>1. Init => FreshInv
  BY DEF Init, Ticks!Init, Orders!Init, FreshInv, AllNow
<1>2. TypeOK /\ WipedFirst /\ FreshInv /\ [Next]_vars => FreshInv'
  <2> SUFFICES ASSUME TypeOK, WipedFirst, FreshInv, [Next]_vars PROVE FreshInv'
    OBVIOUS
  <2> USE DEF FreshInv, rings, engine
  <2>0. /\ socket \in Seq(MarketTick)
        /\ RingOK(ticks_sent, ticks_got) /\ RingOK(orders_sent, orders_got)
        /\ work \in Seq(MarketTick) /\ emitted \in Seq(MarketTick)
        /\ DataOK /\ ChannelsOK /\ AllNow(<<>>)
    BY DEF TypeOK, ChannelsOK, DataOK, AllNow
  <2>1. CASE EndScenario
    BY <2>0, <2>1 DEF EndScenario
  <2>2. ASSUME NEW p \in Procs, Fail(p) \/ BeginReport(p) PROVE FreshInv'
    <3>1. UNCHANGED <<rings, engine>> /\ (socket' = <<>> \/ socket' = socket)
      BY <2>2 DEF Fail, BeginReport
    <3> QED BY <2>0, <3>1
  <2>3. CASE SendTick
    <3> DEFINE tick == [bench |-> "now", seq_num |-> seq + 1]
    <3>1. tick \in MarketTick /\ tick.bench = "now"
      BY <2>3 DEF SendTick, MarketTick, TypeOK, DataOK
    <3>2. AllNow(socket')
      BY <2>0, <2>3, <3>1, AllNowAppend DEF SendTick
    <3> QED BY <2>3, <3>2 DEF SendTick
  <2>4. CASE PublishTick
    <3>1. /\ socket # <<>> /\ socket' = Tail(socket) /\ UNCHANGED <<ticks_got, orders_sent, orders_got, engine>>
          /\ ticks_sent' = Append(ticks_sent, Head(socket))
      BY <2>4 DEF PublishTick, Read, Ticks!Publish
    <3>2. AllNow(socket') /\ Head(socket).bench = "now" /\ Head(socket) \in MarketTick
      BY <2>0, <3>1, AllNowTail
    <3>3. AllNow(ticks_sent')
      BY <2>0, <3>1, <3>2, AllNowAppend DEF RingOK
    <3> QED BY <3>1, <3>2, <3>3
  <2>5. CASE DropTick
    <3>1. socket # <<>> /\ socket' = Tail(socket) /\ UNCHANGED <<rings, engine>>
      BY <2>5 DEF DropTick, Read
    <3>2. AllNow(socket')
      BY <2>0, <3>1, AllNowTail
    <3> QED BY <3>1, <3>2
  <2>6. CASE ConsumeOrder
    <3>1. /\ Len(orders_got) < Len(orders_sent)
          /\ orders_got' = Append(orders_got, orders_sent[Len(orders_got) + 1])
          /\ UNCHANGED <<orders_sent, ticks_sent, ticks_got, socket, engine>>
      BY <2>6 DEF ConsumeOrder, Orders!Consume
    <3>2. orders_sent[Len(orders_got) + 1] \in MarketTick
      BY <2>0, <3>1, AfterConsume DEF RingOK
    <3>3. orders_sent[Len(orders_got) + 1].bench = "now"
      BY <2>0, <3>1 DEF RingOK, AllNow
    <3>4. AllNow(orders_got')
      BY <2>0, <3>1, <3>2, <3>3, AllNowAppend DEF RingOK
    <3> QED BY <3>1, <3>4
  <2>7. CASE TakeTick
    <3>1. PICK tick \in MarketTick : Takes(tick)
      BY <2>0, <2>7, TakesTick
    <3>2. tick.bench = "now"
      BY <2>0, <3>1 DEF RingOK, AllNow, Takes
    <3>3. AllNow(ticks_got') /\ AllNow(work')
      BY <2>0, <3>1, <3>2, AllNowAppend DEF RingOK, Takes
    <3> QED BY <3>1, <3>3 DEF Takes
  <2>a. ASSUME NEW n \in DOMAIN work, HandleTick(n) PROVE FreshInv'
    <3>1. Handles(n)
      BY <2>0, <2>a, HandlesTick
    <3>2. AllNow(work') /\ work[n].bench = "now"
      BY <3>1, LeftIsWithin, AllNowWithin DEF Handles, AllNow
    <3>3. AllNow(emitted')
      BY <2>0, <3>1, <3>2, AllNowAppend DEF Handles
    <3> QED BY <3>1, <3>2, <3>3 DEF Handles
  <2>b. CASE PublishOrder
    <3>1. PICK order \in MarketTick : Publishes(order)
      BY <2>0, <2>b, PublishesOrder
    <3>2. AllNow(emitted') /\ order.bench = "now"
      BY <3>1, LeftIsWithin, AllNowWithin DEF Publishes, AllNow
    <3>3. AllNow(orders_sent')
      BY <2>0, <3>1, <3>2, AllNowAppend DEF RingOK, Publishes
    <3> QED BY <3>1, <3>2, <3>3 DEF Publishes
  <2>c. CASE StopDispatch \/ JoinWorkers
    BY <2>c, EngineIdles
  <2>8. ASSUME NEW p \in Procs, OpenBus(p) PROVE FreshInv'
    <3>1. bus # "left"
      BY <2>8 DEF OpenBus, WipedFirst, AllOff
    <3> QED BY <2>8, <3>1 DEF OpenBus
  <2>9. CASE \/ Wipe \/ Launch \/ Compare \/ ConnectSocket \/ UNCHANGED vars
             \/ \E p \in Procs : WriteReport(p)
    <3>1. UNCHANGED <<rings, socket, engine>>
      BY <2>9 DEF Wipe, Launch, Compare, ConnectSocket, WriteReport, vars
    <3> QED BY <3>1
  <2> QED BY <2>1, <2>2, <2>3, <2>4, <2>5, <2>6, <2>7, <2>8, <2>9, <2>a, <2>b, <2>c
          DEF Next, Script, DataPath, EnginePath
<1>3. FreshInv => NothingStale
  BY DEF FreshInv, AllNow, NothingStale
<1> QED BY <1>1, <1>2, <1>3, TypeCorrect, PTL DEF Spec

-----------------------------------------------------------------------------
LEMMA OrdersKept ==
  ASSUME OrdersInv, UNCHANGED <<te, work, emitted, seen>>
  PROVE  OrdersInv'
BY DEF OrdersInv, Spent, Held

LEMMA SizesAreNat ==
  ASSUME te \in EngineMetrics, ChannelsOK
  PROVE  /\ Spent \in Nat /\ Held \in Nat /\ te.ticks_consumed \in Nat
         /\ Len(work) \in Nat /\ Len(emitted) \in Nat
<1>1. Len(work) \in Nat /\ Len(emitted) \in Nat
  BY DEF ChannelsOK
<1>2. Spent \in Nat /\ te.ticks_consumed \in Nat
  BY EngineFields DEF Spent
<1> QED BY <1>1, <1>2 DEF Held

(* The tick that is taken is held or dropped, ...                          *)
LEMMA OrdersTake ==
  ASSUME te \in EngineMetrics, ChannelsOK, OrdersInv, NEW tick \in MarketTick, Takes(tick)
  PROVE  OrdersInv'
<1>0. /\ Spent \in Nat /\ Held \in Nat /\ te.ticks_consumed \in Nat
      /\ Len(work) \in Nat /\ Len(emitted) \in Nat
  BY SizesAreNat
<1>1. /\ te'.ticks_consumed = te.ticks_consumed + 1
      /\ te'.orders_emitted = te.orders_emitted
      /\ te'.orders_dropped_ring_full = te.orders_dropped_ring_full
      /\ emitted' = emitted /\ seen' = seen /\ work' # <<>>
  <2>1. UNCHANGED <<emitted, seen>> /\ work' # <<>>
    BY DEF Takes, ChannelsOK
  <2>2. CASE te' = [te EXCEPT !.ticks_consumed = @ + 1]
    BY <2>1, <2>2, Consumed
  <2>3. CASE te' = [te EXCEPT !.ticks_consumed = @ + 1, !.ticks_dropped_dispatch = @ + 1]
    BY <2>1, <2>3, DropCounts
  <2> QED BY <2>2, <2>3 DEF Takes
<1>2. Spent' + Held' = (Spent + Held) + 1
  <2>1. CASE work' = Append(work, tick) /\ te' = [te EXCEPT !.ticks_consumed = @ + 1]
    <3>1. Len(work') = Len(work) + 1
      BY <2>1 DEF ChannelsOK
    <3>2. Spent' = Spent
      BY <2>1, Consumed DEF Spent
    <3>3. Held' = Held + 1
      BY <1>0, <1>1, <3>1 DEF Held
    <3> QED BY <1>0, <3>2, <3>3
  <2>2. CASE /\ work' = work
             /\ te' = [te EXCEPT !.ticks_consumed = @ + 1, !.ticks_dropped_dispatch = @ + 1]
    <3>1. /\ te'.ticks_dropped_dispatch = te.ticks_dropped_dispatch + 1
          /\ te.ticks_dropped_dispatch \in Nat /\ te.orders_emitted \in Nat
          /\ te.orders_dropped_ring_full \in Nat
      BY <2>2, EngineFields, DropCounts
    <3>2. Spent' = Spent + 1
      BY <1>1, <3>1 DEF Spent
    <3>3. Held' = Held
      BY <1>1, <2>2 DEF Held
    <3> QED BY <1>0, <3>2, <3>3
  <2> QED BY <2>1, <2>2 DEF Takes
<1>3. Spent' + Held' <= te'.ticks_consumed /\ (seen # {} => Spent' + Held' < te'.ticks_consumed)
  BY <1>0, <1>1, <1>2 DEF OrdersInv
<1> QED BY <1>1, <1>3 DEF OrdersInv

(* ... one that a worker handles becomes an order or is gone, ...          *)
LEMMA OrdersHandle ==
  ASSUME te \in EngineMetrics, ChannelsOK, OrdersInv, NEW n \in DOMAIN work, Handles(n)
  PROVE  OrdersInv'
<1>0. /\ Spent \in Nat /\ Held \in Nat /\ te.ticks_consumed \in Nat
      /\ Len(work) \in Nat /\ Len(emitted) \in Nat
  BY SizesAreNat
<1>1. te' = te /\ Spent' = Spent
  BY DEF Handles, Spent, metrics
<1>2. Len(work') = Len(work) - 1 /\ seen' # {}
  BY DEF Handles, Left
<1>3. CASE emitted' = emitted
  <2>1. Held' = Held - 1
    BY <1>0, <1>2, <1>3 DEF Held
  <2> QED BY <1>0, <1>1, <1>2, <2>1 DEF OrdersInv
<1>4. CASE seen # {} /\ emitted' = Append(emitted, work[n])
  <2>1. Len(emitted') = Len(emitted) + 1
    BY <1>4 DEF ChannelsOK, Handles
  <2>2. Held' = Held
    BY <1>0, <1>2, <2>1 DEF Held
  <2> QED BY <1>0, <1>1, <1>2, <1>4, <2>2 DEF OrdersInv
<1> QED BY <1>3, <1>4 DEF Handles

(* ... and an order is published or dropped.                               *)
LEMMA OrdersPublish ==
  ASSUME te \in EngineMetrics, ChannelsOK, OrdersInv, NEW order \in MarketTick, Publishes(order)
  PROVE  OrdersInv'
<1>0. /\ te.ticks_dropped_dispatch \in Nat /\ te.orders_emitted \in Nat
      /\ te.orders_dropped_ring_full \in Nat /\ te.ticks_consumed \in Nat
      /\ Len(work) \in Nat /\ Len(emitted) \in Nat
  BY EngineFields, SizesAreNat
<1>1. seen # {} /\ seen' = seen /\ Held' = Held - 1
  <2>1. Len(emitted') = Len(emitted) - 1 /\ work' = work
    BY DEF Publishes, Left
  <2> QED BY <1>0, <2>1 DEF Publishes, OrdersInv, Held
<1>2. Spent' = Spent + 1 /\ te'.ticks_consumed = te.ticks_consumed
  <2>1. CASE te' = [te EXCEPT !.orders_emitted = @ + 1]
    <3>1. /\ te'.ticks_dropped_dispatch = te.ticks_dropped_dispatch
          /\ te'.orders_emitted = te.orders_emitted + 1
          /\ te'.orders_dropped_ring_full = te.orders_dropped_ring_full
          /\ te'.ticks_consumed = te.ticks_consumed
      BY <2>1, Emitted
    <3> QED BY <1>0, <3>1, SMTT(30) DEF Spent
  <2>2. CASE te' = [te EXCEPT !.orders_dropped_ring_full = @ + 1]
    <3>1. /\ te'.ticks_dropped_dispatch = te.ticks_dropped_dispatch
          /\ te'.orders_emitted = te.orders_emitted
          /\ te'.orders_dropped_ring_full = te.orders_dropped_ring_full + 1
          /\ te'.ticks_consumed = te.ticks_consumed
      BY <2>2, DroppedFull
    <3> QED BY <1>0, <3>1 DEF Spent
  <2> QED BY <2>1, <2>2 DEF Publishes
<1>3. Spent \in Nat /\ Held \in Nat
  BY <1>0 DEF Spent, Held
<1> QED BY <1>1, <1>2, <1>3 DEF OrdersInv

(* The reports of a scenario reconcile, whichever process ends, fails or   *)
(* is killed first: what one end of a ring counts, the other end counts or *)
(* the ring still holds (feedhandler main.rs:262-277, trading-engine       *)
(* main.rs:370-426).                                                       *)
THEOREM CountersReconcile == Spec => []ReportsReconcile
<1> USE PipelineAssumption
<1>1. Init => CountInv
  BY DEF Init, Ticks!Init, Orders!Init, CountInv, OrdersInv, Spent, Held, NoFeed, NoEngine, Unread
<1>2. TypeOK /\ WipedFirst /\ CountInv /\ [Next]_vars => CountInv'
  <2> SUFFICES ASSUME TypeOK, WipedFirst, CountInv, [Next]_vars PROVE CountInv'
    OBVIOUS
  <2> USE DEF rings, engine, metrics
  <2> DEFINE T == Unread(ticks_sent, ticks_got)
             O == Unread(orders_sent, orders_got)
  <2>0. /\ fh \in FeedMetrics /\ te \in EngineMetrics /\ socket \in Seq(MarketTick)
        /\ work \in Seq(MarketTick) /\ emitted \in Seq(MarketTick)
        /\ RingOK(ticks_sent, ticks_got) /\ RingOK(orders_sent, orders_got)
        /\ T \in Nat /\ O \in Nat /\ seq \in Nat /\ Len(socket) \in Nat
        /\ Len(work) \in Nat /\ Len(emitted) \in Nat /\ DataOK /\ ChannelsOK
    BY DEF TypeOK, DataOK, ChannelsOK, RingOK
  <2>a. /\ fh.ticks_published \in Nat /\ fh.publish_drops \in Nat /\ fh.orders_received \in Nat
        /\ te.ticks_consumed \in Nat /\ te.ticks_dropped_dispatch \in Nat
        /\ te.orders_emitted \in Nat /\ te.orders_dropped_ring_full \in Nat
    BY <2>0, FeedCounts, EngineCounts
  <2>c. PICK pub \in Nat, drops \in Nat, rcvd \in Nat, con \in Nat, emit \in Nat, full \in Nat,
             t \in Nat, o \in Nat, l \in Nat, sent \in Nat :
          /\ pub = fh.ticks_published /\ drops = fh.publish_drops /\ rcvd = fh.orders_received
          /\ con = te.ticks_consumed /\ emit = te.orders_emitted
          /\ full = te.orders_dropped_ring_full
          /\ t = T /\ o = O /\ l = Len(socket) /\ sent = seq
    BY <2>0, <2>a, Zenon
  <2>b. /\ fh.ticks_published = te.ticks_consumed + T
        /\ te.orders_emitted = fh.orders_received + O
        /\ fh.ticks_published + fh.publish_drops + Len(socket) <= seq
    BY DEF CountInv
  <2>e. OrdersInv
    BY DEF CountInv, OrdersInv
  <2> HIDE DEF T, O
  <2>d. pub = con + t /\ emit = rcvd + o /\ pub + drops + l <= sent
    BY <2>b, <2>c, Zenon
  <2>1. CASE EndScenario
    BY <2>1 DEF EndScenario, CountInv, OrdersInv, Spent, Held, NoFeed, NoEngine, Unread
  <2>2. ASSUME NEW p \in Procs, Fail(p) \/ BeginReport(p) PROVE CountInv'
    <3>1. UNCHANGED <<rings, engine, metrics, seq>> /\ (socket' = <<>> \/ socket' = socket)
      BY <2>2 DEF Fail, BeginReport
    <3>2. Len(socket') \in Nat /\ Len(socket') <= Len(socket)
      BY <2>0, <3>1
    <3>3. ASSUME NEW k \in Nat, k <= l PROVE pub + drops + k <= sent
      BY <2>d, <3>3
    <3>4. fh.ticks_published + fh.publish_drops + Len(socket') <= seq
      BY <2>c, <3>2, <3>3, Zenon
    <3> QED BY <2>b, <2>e, <3>1, <3>4, OrdersKept DEF CountInv, Unread, T, O
  <2>3. CASE SendTick
    <3>1. /\ UNCHANGED <<rings, engine, metrics>> /\ seq' = seq + 1
          /\ Len(socket') \in Nat /\ Len(socket') <= Len(socket) + 1
      BY <2>0, <2>3 DEF SendTick
    <3>2. ASSUME NEW k \in Nat, k <= l + 1 PROVE pub + drops + k <= sent + 1
      BY <2>d, <3>2
    <3>3. fh.ticks_published + fh.publish_drops + Len(socket') <= seq + 1
      BY <2>c, <3>1, <3>2, Zenon
    <3> QED BY <2>b, <2>e, <3>1, <3>3, OrdersKept DEF CountInv, Unread, T, O
  <2>4. CASE PublishTick
    <3>1. /\ socket # <<>> /\ socket' = Tail(socket) /\ UNCHANGED <<orders_sent, orders_got, seq, engine, te>>
          /\ ticks_sent' = Append(ticks_sent, Head(socket)) /\ ticks_got' = ticks_got
          /\ Len(ticks_sent) - Len(ticks_got) < RingCap
          /\ fh' = [ticks_published |-> fh.ticks_published + 1,
                    publish_drops |-> fh.publish_drops, orders_received |-> fh.orders_received]
      BY <2>0, <2>4, FeedCounts DEF PublishTick, Read, Ticks!Publish
    <3>2. Len(socket') = Len(socket) - 1 /\ Head(socket) \in MarketTick
      BY <2>0, <3>1
    <3>3. T' = T + 1 /\ O' = O
      BY <2>0, <3>1, <3>2, AfterPublish DEF RingOK, T, O
    <3>4. /\ fh'.ticks_published = fh.ticks_published + 1
          /\ fh'.publish_drops = fh.publish_drops /\ fh'.orders_received = fh.orders_received
      BY <3>1
    <3>5. pub + 1 = con + (t + 1) /\ (pub + 1) + drops + (l - 1) <= sent
      BY <2>d
    <3>6. /\ fh.ticks_published + 1 = te.ticks_consumed + (T + 1)
          /\ (fh.ticks_published + 1) + fh.publish_drops + (Len(socket) - 1) <= seq
      BY <2>c, <3>5, Zenon
    <3> QED BY <2>b, <2>e, <3>1, <3>2, <3>3, <3>4, <3>6, OrdersKept DEF CountInv, T, O
  <2>5. CASE DropTick
    <3>1. /\ socket # <<>> /\ socket' = Tail(socket) /\ UNCHANGED <<rings, seq, engine, te>>
          /\ fh' = [ticks_published |-> fh.ticks_published,
                    publish_drops |-> fh.publish_drops + 1, orders_received |-> fh.orders_received]
      BY <2>0, <2>5, FeedCounts DEF DropTick, Dropped, Read
    <3>2. Len(socket') = Len(socket) - 1
      BY <2>0, <3>1
    <3>3. T' = T /\ O' = O
      BY <3>1 DEF T, O
    <3>4. /\ fh'.ticks_published = fh.ticks_published
          /\ fh'.publish_drops = fh.publish_drops + 1 /\ fh'.orders_received = fh.orders_received
      BY <3>1
    <3>5. pub + (drops + 1) + (l - 1) <= sent
      BY <2>d
    <3>6. fh.ticks_published + (fh.publish_drops + 1) + (Len(socket) - 1) <= seq
      BY <2>c, <3>5, Zenon
    <3> QED BY <2>b, <2>e, <3>1, <3>2, <3>3, <3>4, <3>6, OrdersKept DEF CountInv, T, O
  <2>6. CASE ConsumeOrder
    <3>1. /\ Len(orders_got) < Len(orders_sent) /\ orders_sent' = orders_sent
          /\ orders_got' = Append(orders_got, orders_sent[Len(orders_got) + 1])
          /\ UNCHANGED <<ticks_sent, ticks_got, socket, seq, engine, te>>
          /\ fh' = [ticks_published |-> fh.ticks_published,
                    publish_drops |-> fh.publish_drops, orders_received |-> fh.orders_received + 1]
      BY <2>0, <2>6, FeedCounts DEF ConsumeOrder, Orders!Consume
    <3>2. O' = O - 1 /\ T' = T
      BY <2>0, <3>1, AfterConsume DEF RingOK, T, O
    <3>3. /\ fh'.ticks_published = fh.ticks_published
          /\ fh'.publish_drops = fh.publish_drops /\ fh'.orders_received = fh.orders_received + 1
      BY <3>1
    <3>4. emit = (rcvd + 1) + (o - 1)
      BY <2>d
    <3>5. te.orders_emitted = (fh.orders_received + 1) + (O - 1)
      BY <2>c, <3>4, Zenon
    <3> QED BY <2>b, <2>e, <3>1, <3>2, <3>3, <3>5, OrdersKept DEF CountInv, T, O
  <2>7. CASE TakeTick
    <3>1. PICK tick \in MarketTick : Takes(tick)
      BY <2>0, <2>7, TakesTick
    <3>2. T' = T - 1 /\ O' = O
      BY <2>0, <3>1, AfterConsume DEF Takes, RingOK, T, O
    <3>3. /\ te'.ticks_consumed = te.ticks_consumed + 1 /\ te'.orders_emitted = te.orders_emitted
          /\ UNCHANGED <<fh, socket, seq>>
      <4>1. UNCHANGED <<fh, socket, seq>>
        BY <3>1 DEF Takes
      <4>2. CASE te' = [te EXCEPT !.ticks_consumed = @ + 1]
        BY <2>0, <4>1, <4>2, Consumed
      <4>3. CASE te' = [te EXCEPT !.ticks_consumed = @ + 1, !.ticks_dropped_dispatch = @ + 1]
        BY <2>0, <4>1, <4>3, DropCounts
      <4> QED BY <3>1, <4>2, <4>3 DEF Takes
    <3>4. pub = (con + 1) + (t - 1)
      BY <2>d
    <3>5. fh.ticks_published = (te.ticks_consumed + 1) + (T - 1)
      BY <2>c, <3>4, Zenon
    <3>6. OrdersInv'
      BY <2>0, <2>e, <3>1, OrdersTake
    <3> QED BY <2>b, <3>2, <3>3, <3>5, <3>6 DEF CountInv, T, O
  <2>g. ASSUME NEW n \in DOMAIN work, HandleTick(n) PROVE CountInv'
    <3>1. Handles(n)
      BY <2>0, <2>g, HandlesTick
    <3>2. OrdersInv'
      BY <2>0, <2>e, <3>1, OrdersHandle
    <3>3. T' = T /\ O' = O /\ UNCHANGED <<fh, te, socket, seq>>
      BY <3>1 DEF Handles, T, O
    <3> QED BY <2>b, <3>2, <3>3 DEF CountInv, T, O
  <2>h. CASE PublishOrder
    <3>1. PICK order \in MarketTick : Publishes(order)
      BY <2>0, <2>h, PublishesOrder
    <3>2. OrdersInv'
      BY <2>0, <2>e, <3>1, OrdersPublish
    <3>3. /\ UNCHANGED <<fh, socket, seq>> /\ T' = T /\ te'.ticks_consumed = te.ticks_consumed
          /\ \/ O' = O + 1 /\ te'.orders_emitted = te.orders_emitted + 1
             \/ O' = O /\ te'.orders_emitted = te.orders_emitted
      <4>1. UNCHANGED <<fh, socket, seq>> /\ T' = T
        BY <3>1 DEF Publishes, T
      <4>2. CASE /\ Len(orders_sent) - Len(orders_got) < RingCap
                 /\ orders_sent' = Append(orders_sent, order)
                 /\ te' = [te EXCEPT !.orders_emitted = @ + 1]
        <5>1. O' = O + 1
          <6>1. orders_got' = orders_got /\ orders_sent' = Append(orders_sent, order)
            BY <3>1, <4>2 DEF Publishes
          <6>2. orders_sent \in Seq(MarketTick) /\ orders_got \in Seq(MarketTick)
            BY <2>0 DEF RingOK
          <6>3. Unread(Append(orders_sent, order), orders_got) = Unread(orders_sent, orders_got) + 1
            BY <6>2 DEF Unread
          <6> QED BY <6>1, <6>3 DEF O
        <5>2. /\ te'.orders_emitted = te.orders_emitted + 1
              /\ te'.ticks_consumed = te.ticks_consumed
          BY <2>0, <4>2, Emitted
        <5> QED BY <4>1, <5>1, <5>2
      <4>3. CASE orders_sent' = orders_sent /\ te' = [te EXCEPT !.orders_dropped_ring_full = @ + 1]
        <5>1. O' = O
          BY <3>1, <4>3 DEF Publishes, O
        <5>2. te'.orders_emitted = te.orders_emitted /\ te'.ticks_consumed = te.ticks_consumed
          BY <2>0, <4>3, DroppedFull
        <5> QED BY <4>1, <5>1, <5>2
      <4> QED BY <3>1, <4>2, <4>3 DEF Publishes
    <3>4. emit + 1 = rcvd + (o + 1)
      BY <2>d
    <3>5. te.orders_emitted + 1 = fh.orders_received + (O + 1)
      BY <2>c, <3>4, Zenon
    <3> QED BY <2>b, <3>2, <3>3, <3>5 DEF CountInv, T, O
  <2>i. CASE StopDispatch \/ JoinWorkers
    <3>1. UNCHANGED <<rings, socket, seq, work, emitted, seen, metrics>>
      BY <2>i, EngineIdles
    <3> QED BY <2>b, <2>e, <3>1, OrdersKept DEF CountInv, Unread, T, O
  <2>8. ASSUME NEW p \in Procs, OpenBus(p) PROVE CountInv'
    <3>1. bus # "left"
      BY <2>8 DEF OpenBus, WipedFirst, AllOff
    <3>2. UNCHANGED <<rings, socket, seq, engine, metrics>>
      BY <2>8, <3>1 DEF OpenBus
    <3> QED BY <2>e, <3>2, OrdersKept DEF CountInv
  <2>9. CASE \/ Wipe \/ Launch \/ Compare \/ ConnectSocket \/ UNCHANGED vars
             \/ \E p \in Procs : WriteReport(p)
    <3>1. UNCHANGED <<rings, socket, seq, engine, metrics>>
      BY <2>9 DEF Wipe, Launch, Compare, ConnectSocket, WriteReport, vars
    <3> QED BY <2>e, <3>1, OrdersKept DEF CountInv
  <2> QED BY <2>1, <2>2, <2>3, <2>4, <2>5, <2>6, <2>7, <2>8, <2>9, <2>g, <2>h, <2>i
          DEF Next, Script, DataPath, EnginePath
<1>3. TypeOK /\ CountInv => ReportsReconcile
  <2> SUFFICES ASSUME TypeOK, CountInv PROVE ReportsReconcile
    OBVIOUS
  <2>1. /\ te.ticks_consumed \in Nat /\ te.ticks_dropped_dispatch \in Nat
        /\ te.orders_emitted \in Nat /\ te.orders_dropped_ring_full \in Nat
        /\ Len(work) \in Nat /\ Len(emitted) \in Nat
        /\ work # <<>> => Len(work) > 0
    <3>1. te \in EngineMetrics /\ ChannelsOK
      BY DEF TypeOK, DataOK
    <3>2. work # <<>> => Len(work) > 0
      BY <3>1 DEF ChannelsOK
    <3> QED BY <3>1, <3>2, EngineFields, SizesAreNat
  <2>2. te.ticks_consumed > 0 => Spent < te.ticks_consumed
    BY <2>1, SMTT(30) DEF CountInv, OrdersInv, Spent, Held
  <2> QED BY <2>1, <2>2 DEF CountInv, ReportsReconcile, Spent
<1> QED BY <1>1, <1>2, <1>3, TypeCorrect, PTL DEF Spec

-----------------------------------------------------------------------------
(* The comparison reads report files by their names, and an earlier bench  *)
(* may have left some (run-bench.sh:327-333): a scenario in which no       *)
(* process ended without its report is shown by the two of this bench, and *)
(* is not missing.                                                         *)
THEOREM RowsAreShown == Spec => []RowsAreOfThisBench
<1>1. Init => ReportInv
  BY DEF Init, ReportInv, Past, Closing, Procs, Reporters, Scenarios
<1>2. TypeOK /\ WipedFirst /\ ReportInv /\ [Next]_vars => ReportInv'
  <2> SUFFICES ASSUME TypeOK, WipedFirst, ReportInv, [Next]_vars PROVE ReportInv'
    OBVIOUS
  <2>0. /\ report \in [Scenarios -> [Reporters -> Reports]] /\ short \subseteq Scenarios
        /\ proc \in [Procs -> {"off", "starting", "run", "join", "drain", "write", "gone"}]
        /\ scenario \in Scenarios /\ Reporters \subseteq Procs
    BY DEF TypeOK, ScriptOK, FilesOK, Procs
  <2>1. CASE EndScenario
    <3>1. /\ step = "wait" /\ report' = report /\ shown' = shown
          /\ proc' = [p \in Procs |-> "off"] /\ step' \in {"wipe", "compare"}
          /\ short' = IF \E p \in Reporters : proc[p] # "gone" THEN short \cup {scenario} ELSE short
          /\ scenario = "iso" => step' = "wipe"
      BY <2>1 DEF EndScenario
    <3>2. ASSUME NEW s \in Scenarios \ short', Past(s)' PROVE \A p \in Reporters : report[s][p] = "now"
      <4>1. s \notin short
        BY <3>1, <3>2
      <4>2. CASE s = scenario
        BY <3>1, <3>2, <4>1, <4>2 DEF ReportInv
      <4>3. CASE s # scenario
        <5>1. s = "iso" /\ scenario = "noisy"
          BY <2>0, <3>1, <3>2, <4>3 DEF Past, Closing, Scenarios
        <5> QED BY <4>1, <5>1 DEF ReportInv, Past
      <4> QED BY <4>2, <4>3
    <3> QED BY <2>0, <3>1, <3>2 DEF ReportInv
  <2>2. CASE Compare
    <3>1. step = "compare" /\ UNCHANGED <<scenario, proc, report, short>>
      BY <2>2 DEF Compare
    <3>2. \A s \in Scenarios \ short' : \A p \in Reporters : report'[s][p] = "now"
      BY <3>1 DEF ReportInv, Past, Closing
    <3>3. \A p \in Reporters : proc'[p] # "gone"
      BY <2>0, <3>1 DEF WipedFirst, Closing, AllOff
    <3>4. /\ step' # "ended" => shown' = <<>>
          /\ step' = "ended" => shown' = [s \in Rows' |-> report'[s]]
          /\ step' = "failed" => Rows' = {} \/ Unreadable'
      BY <2>2, <3>1 DEF Compare, ReportInv, Rows, Unreadable
    <3> QED BY <3>2, <3>3, <3>4 DEF ReportInv
  <2>3. ASSUME NEW p \in Procs, Fail(p) PROVE ReportInv'
    <3>1. /\ proc[p] # "off" /\ proc' = [proc EXCEPT ![p] = "gone"]
          /\ UNCHANGED <<scenario, step, report, shown>>
          /\ short' = IF p \in Reporters THEN short \cup {scenario} ELSE short
      BY <2>3 DEF Fail, script
    <3>2. ASSUME NEW q \in Reporters, proc'[q] = "gone", scenario' \notin short'
          PROVE  report'[scenario'][q] = "now"
      BY <2>0, <3>1, <3>2 DEF ReportInv
    <3>3. \A s \in Scenarios : s \notin short' => s \notin short
      BY <3>1
    <3> QED BY <3>1, <3>2, <3>3 DEF ReportInv, Past, Closing, Rows, Unreadable
  <2>4. ASSUME NEW p \in Procs, BeginReport(p) \/ WriteReport(p) PROVE ReportInv'
    <3>1. /\ p \in Reporters /\ proc[p] \in {"run", "drain", "write"}
          /\ UNCHANGED <<scenario, step, shown, short>>
      BY <2>4 DEF BeginReport, WriteReport, Reporters, script
    <3>2. ~Closing
      BY <2>4, <3>1 DEF WipedFirst, AllOff
    <3>3. PICK st \in {"write", "gone"}, r \in Reports :
            /\ proc' = [proc EXCEPT ![p] = st] /\ report' = [report EXCEPT ![scenario][p] = r]
            /\ st = "gone" => r = "now"
      BY <2>4 DEF BeginReport, WriteReport, OutDir, Reports
    <3>4. /\ report'[scenario][p] = r
          /\ \A q \in Reporters : q # p => report'[scenario][q] = report[scenario][q]
          /\ \A s \in Scenarios : s # scenario => report'[s] = report[s]
      BY <2>0, <3>1, <3>3
    <3>5. ASSUME NEW q \in Reporters, proc'[q] = "gone", scenario' \notin short'
          PROVE  report'[scenario'][q] = "now"
      <4>1. CASE q = p
        BY <2>0, <3>1, <3>3, <3>4, <3>5, <4>1
      <4>2. CASE q # p
        BY <2>0, <3>1, <3>3, <3>4, <3>5, <4>2 DEF ReportInv
      <4> QED BY <4>1, <4>2
    <3>6. ASSUME NEW s \in Scenarios \ short', Past(s)' PROVE \A q \in Reporters : report'[s][q] = "now"
      <4>1. s = "iso" /\ scenario = "noisy"
        BY <3>1, <3>2, <3>6 DEF Past, Closing
      <4> QED BY <3>1, <3>4, <3>6, <4>1 DEF ReportInv, Past
    <3>7. step' \notin {"ended", "failed"} /\ shown' = <<>>
      BY <3>1, <3>2 DEF Closing, ReportInv
    <3> QED BY <3>5, <3>6, <3>7 DEF ReportInv
  <2>5. CASE Wipe \/ Launch
    <3>1. /\ UNCHANGED <<scenario, report, shown, short>> /\ ~Closing /\ ~Closing'
          /\ \A q \in Reporters : proc'[q] = "gone" => proc[q] = "gone"
      BY <2>0, <2>5 DEF Wipe, Launch, After, files, Closing
    <3> QED BY <3>1 DEF ReportInv, Past, Closing
  <2>6. CASE ConnectSocket \/ DataPath \/ (\E p \in Procs : OpenBus(p)) \/ UNCHANGED vars
    <3>1. /\ UNCHANGED <<scenario, step, report, shown, short>>
          /\ \A q \in Reporters : proc'[q] = "gone" => proc[q] = "gone"
      BY <2>0, <2>6 DEF ConnectSocket, DataPath, SendTick, PublishTick, DropTick, ConsumeOrder,
                        OpenBus, vars, script, files
    <3> QED BY <3>1 DEF ReportInv, Past, Closing, Rows, Unreadable
  <2>7. CASE EnginePath
    <3>1. /\ UNCHANGED <<scenario, step, report, shown, short>>
          /\ \A q \in Reporters : proc'[q] = "gone" => proc[q] = "gone"
      BY <2>0, <2>7, EngineLeaves
    <3> QED BY <3>1 DEF ReportInv, Past, Closing, Rows, Unreadable
  <2> QED BY <2>1, <2>2, <2>3, <2>4, <2>5, <2>6, <2>7 DEF Next, Script
<1>3. ReportInv /\ TypeOK => RowsAreOfThisBench
  <2> SUFFICES ASSUME ReportInv, TypeOK PROVE RowsAreOfThisBench
    OBVIOUS
  <2>1. CASE step = "ended"
    <3>1. shown = [s \in Rows |-> report[s]] /\ Rows \subseteq Scenarios
      BY <2>1 DEF ReportInv, Rows
    <3>2. \A s \in Scenarios \ short : \A p \in Reporters : report[s][p] = "now"
      BY <2>1 DEF ReportInv, Past, Closing
    <3> QED BY <3>1, <3>2 DEF RowsAreOfThisBench, Rows
  <2>2. CASE step # "ended"
    <3>1. DOMAIN shown = {}
      BY <2>2 DEF ReportInv
    <3>2. step = "failed" => short # {}
      BY DEF ReportInv, Past, Closing, Rows, Unreadable, Scenarios
    <3> QED BY <2>2, <3>1, <3>2 DEF RowsAreOfThisBench
  <2> QED BY <2>1, <2>2
<1> QED BY <1>1, <1>2, <1>3, TypeCorrect, PTL DEF Spec

-----------------------------------------------------------------------------
(* Within a scenario each ring is the bounded FIFO of module BoundedFifo:  *)
(* only the script, between two scenarios, begins it anew.                 *)
THEOREM RingsAreFifos ==
  Spec => /\ Ticks!Init /\ Orders!Init
          /\ [][\/ /\ [Ticks!Next]_<<ticks_sent, ticks_got>>
                   /\ [Orders!Next]_<<orders_sent, orders_got>>
                \/ EndScenario /\ Ticks!Init' /\ Orders!Init']_vars
<1> DEFINE Step == \/ /\ [Ticks!Next]_<<ticks_sent, ticks_got>>
                      /\ [Orders!Next]_<<orders_sent, orders_got>>
                   \/ EndScenario /\ Ticks!Init' /\ Orders!Init'
<1>1. Init => Ticks!Init /\ Orders!Init
  BY DEF Init
<1>2. TypeOK /\ WipedFirst /\ [Next]_vars => Step
  <2> SUFFICES ASSUME TypeOK, WipedFirst, [Next]_vars PROVE Step
    OBVIOUS
  <2> USE DEF rings
  <2>1. CASE EndScenario
    BY <2>1 DEF EndScenario, Ticks!Init, Orders!Init
  <2>2. CASE PublishTick
    <3>1. Head(socket) \in MarketTick
      BY <2>2 DEF PublishTick, Read, TypeOK, DataOK
    <3> QED BY <2>2, <3>1 DEF PublishTick, Ticks!Next
  <2>3. CASE ConsumeOrder
    BY <2>3 DEF ConsumeOrder, Orders!Next
  <2>0. DataOK /\ ChannelsOK
    BY DEF TypeOK
  <2>4. CASE TakeTick
    <3>1. PICK tick \in MarketTick : Takes(tick)
      BY <2>0, <2>4, TakesTick
    <3>2. Ticks!Next /\ UNCHANGED <<orders_sent, orders_got>>
      BY <2>4, <3>1 DEF TakeTick, Ticks!Next, Takes
    <3> QED BY <3>2
  <2>8. ASSUME NEW n \in DOMAIN work, HandleTick(n) PROVE UNCHANGED rings
    BY <2>8 DEF HandleTick
  <2>9. CASE PublishOrder
    <3>1. emitted # <<>> /\ emitted \in Seq(MarketTick)
      BY <2>0, <2>9 DEF PublishOrder, ChannelsOK
    <3>2. Head(emitted) \in MarketTick
      BY <3>1, LeftByTail
    <3>3. [Orders!Next]_<<orders_sent, orders_got>> /\ UNCHANGED <<ticks_sent, ticks_got>>
      BY <2>9, <3>2 DEF PublishOrder, Orders!Next, OrderMsg
    <3> QED BY <3>3
  <2>10. CASE StopDispatch \/ JoinWorkers
    BY <2>10, EngineIdles
  <2>5. ASSUME NEW p \in Procs, OpenBus(p) PROVE UNCHANGED rings
    <3>1. bus # "left"
      BY <2>5 DEF OpenBus, WipedFirst, AllOff
    <3> QED BY <2>5, <3>1 DEF OpenBus
  <2>6. ASSUME NEW p \in Procs, Fail(p) \/ BeginReport(p) \/ WriteReport(p)
        PROVE  UNCHANGED rings
    BY <2>6 DEF Fail, BeginReport, WriteReport
  <2>7. CASE \/ Wipe \/ Launch \/ Compare \/ ConnectSocket \/ SendTick \/ DropTick
             \/ UNCHANGED vars
    BY <2>7 DEF Wipe, Launch, Compare, ConnectSocket, SendTick, DropTick, vars
  <2> QED BY <2>1, <2>2, <2>3, <2>4, <2>5, <2>6, <2>7, <2>8, <2>9, <2>10
          DEF Next, Script, DataPath, EnginePath
<1> QED BY <1>1, <1>2, TypeCorrect, PTL DEF Spec

-----------------------------------------------------------------------------
(* The order of the stream, from the socket to the orders received.        *)

(* The ticks of a queue are ascending, and those of one queue are before   *)
(* those of another.                                                       *)
InOrder(q) == \A a, b \in DOMAIN q : a < b => q[a].seq_num < q[b].seq_num
Before(q, r) == \A a \in DOMAIN q, b \in DOMAIN r : q[a].seq_num < r[b].seq_num

(* The same, only for those of one worker, ...                             *)
WorkerOrder(q) ==
  \A a, b \in DOMAIN q :
     a < b /\ Worker(q[a]) = Worker(q[b]) => q[a].seq_num < q[b].seq_num
WorkerBefore(q, r) ==
  \A a \in DOMAIN q, b \in DOMAIN r :
     Worker(q[a]) = Worker(r[b]) => q[a].seq_num < r[b].seq_num

(* ... and for those of one symbol.                                        *)
SymbolOrder(q) ==
  \A a, b \in DOMAIN q :
     a < b /\ Symbol(q[a]) = Symbol(q[b]) => q[a].seq_num < q[b].seq_num

(* What was got is the beginning of what was sent.                         *)
Beginning(got, sent) ==
  Len(got) <= Len(sent) /\ \A n \in DOMAIN got : got[n] = sent[n]

(* The inductive invariant: what is further along is earlier, on the way   *)
(* of the ticks, and of each worker's on the way of the orders.            *)
TickInv ==
  /\ InOrder(socket) /\ \A n \in DOMAIN socket : socket[n].seq_num <= seq
  /\ InOrder(ticks_sent) /\ Before(ticks_sent, socket)
  /\ \A n \in DOMAIN ticks_sent : ticks_sent[n].seq_num <= seq
  /\ Beginning(ticks_got, ticks_sent)

OrderInv ==
  /\ WorkerOrder(work) /\ WorkerOrder(emitted) /\ WorkerOrder(orders_sent)
  /\ WorkerBefore(emitted, work)
  /\ WorkerBefore(orders_sent, work) /\ WorkerBefore(orders_sent, emitted)
  /\ Within(work, ticks_got) /\ Within(emitted, ticks_got) /\ Within(orders_sent, ticks_got)
  /\ Beginning(orders_got, orders_sent)

(***************************************************************************)
(* Ticks reach the engine in the order of their seq_num.  Of each symbol,  *)
(* orders reach the feedhandler in that of the ticks that caused them, at  *)
(* most one of each; and none without a tick that the engine took.  The    *)
(* orders of different symbols may overtake each other in the workers.     *)
(***************************************************************************)
EndToEnd ==
  /\ InOrder(ticks_got) /\ SymbolOrder(orders_got)
  /\ Within(orders_got, ticks_got)

(* A queue to which a later tick is added stays in order.                  *)
LEMMA OrderAppend ==
  ASSUME NEW q \in Seq(MarketTick), NEW m \in MarketTick, InOrder(q),
         \A n \in DOMAIN q : q[n].seq_num < m.seq_num
  PROVE  InOrder(Append(q, m))
<1>1. PICK l \in Nat : l = Len(q) /\ DOMAIN q = 1 .. l
  OBVIOUS
<1>2. /\ DOMAIN Append(q, m) = 1 .. l + 1 /\ Append(q, m)[l + 1] = m
      /\ \A n \in 1 .. l : Append(q, m)[n] = q[n]
  BY <1>1
<1>3. ASSUME NEW a \in 1 .. l + 1, NEW b \in 1 .. l + 1, a < b
      PROVE  Append(q, m)[a].seq_num < Append(q, m)[b].seq_num
  <2>1. a \in 1 .. l /\ (b = l + 1 \/ b \in 1 .. l)
    BY <1>3
  <2> QED BY <1>1, <1>2, <1>3, <2>1 DEF InOrder
<1> QED BY <1>2, <1>3 DEF InOrder

(* What is left of a queue in order is in order, and behind the first.     *)
LEMMA LeftOrder ==
  ASSUME NEW q \in Seq(MarketTick), q # <<>>, InOrder(q)
  PROVE  /\ InOrder(Tail(q)) /\ \A n \in DOMAIN Tail(q) : Head(q).seq_num < Tail(q)[n].seq_num
         /\ \A n \in DOMAIN Tail(q) : n + 1 \in DOMAIN q /\ Tail(q)[n] = q[n + 1]
<1>1. /\ 1 \in DOMAIN q /\ Head(q) = q[1]
      /\ \A n \in DOMAIN Tail(q) : n \in Nat /\ n > 0 /\ n + 1 \in DOMAIN q /\ Tail(q)[n] = q[n + 1]
  OBVIOUS
<1>2. ASSUME NEW n \in DOMAIN Tail(q) PROVE Head(q).seq_num < Tail(q)[n].seq_num
  <2>1. n \in Nat /\ 1 < n + 1 /\ n + 1 \in DOMAIN q /\ Tail(q)[n] = q[n + 1]
    BY <1>1
  <2> QED BY <1>1, <2>1 DEF InOrder
<1>3. ASSUME NEW a \in DOMAIN Tail(q), NEW b \in DOMAIN Tail(q), a < b
      PROVE  Tail(q)[a].seq_num < Tail(q)[b].seq_num
  <2>1. /\ a + 1 \in DOMAIN q /\ Tail(q)[a] = q[a + 1] /\ b + 1 \in DOMAIN q
        /\ Tail(q)[b] = q[b + 1] /\ a \in Nat /\ b \in Nat
    BY <1>1
  <2>2. a + 1 < b + 1
    BY <1>3, <2>1
  <2> QED BY <2>1, <2>2 DEF InOrder
<1> QED BY <1>1, <1>2, <1>3 DEF InOrder

(* What was got stays the beginning when one more message is sent ...      *)
LEMMA BeginningSent ==
  ASSUME NEW S, NEW sent \in Seq(S), NEW got \in Seq(S), NEW m \in S, Beginning(got, sent)
  PROVE  Beginning(got, Append(sent, m))
BY DEF Beginning

(* ... and when one more is got.                                           *)
LEMMA BeginningGot ==
  ASSUME NEW S, NEW sent \in Seq(S), NEW got \in Seq(S), Beginning(got, sent),
         Len(got) < Len(sent)
  PROVE  Beginning(Append(got, sent[Len(got) + 1]), sent)
<1> DEFINE m == sent[Len(got) + 1]
<1>1. m \in S
  OBVIOUS
<1>2. Len(Append(got, m)) <= Len(sent)
  OBVIOUS
<1>3. ASSUME NEW n \in DOMAIN Append(got, m) PROVE Append(got, m)[n] = sent[n]
  BY <1>1, AppendElements DEF Beginning
<1> QED BY <1>2, <1>3 DEF Beginning

(* A queue to which a later tick of its worker is added stays in order, ...*)
LEMMA WorkerOrderAppend ==
  ASSUME NEW q \in Seq(MarketTick), NEW m \in MarketTick, WorkerOrder(q),
         \A n \in DOMAIN q : Worker(q[n]) = Worker(m) => q[n].seq_num < m.seq_num
  PROVE  WorkerOrder(Append(q, m))
<1> SUFFICES ASSUME NEW a \in DOMAIN Append(q, m), NEW b \in DOMAIN Append(q, m), a < b,
                    Worker(Append(q, m)[a]) = Worker(Append(q, m)[b])
             PROVE  Append(q, m)[a].seq_num < Append(q, m)[b].seq_num
  BY DEF WorkerOrder
<1>1. a \in DOMAIN q /\ Append(q, m)[a] = q[a]
  OBVIOUS
<1>2. (b \in DOMAIN q /\ Append(q, m)[b] = q[b]) \/ Append(q, m)[b] = m
  BY AppendElements
<1> QED BY <1>1, <1>2 DEF WorkerOrder

(* ... and so does one of which a tick is taken.                           *)
LEMMA WorkerOrderLeft ==
  ASSUME NEW q \in Seq(MarketTick), NEW n \in DOMAIN q, NEW r \in Seq(MarketTick),
         Left(r, q, n), WorkerOrder(q)
  PROVE  WorkerOrder(r)
<1> SUFFICES ASSUME NEW a \in DOMAIN r, NEW b \in DOMAIN r, a < b, Worker(r[a]) = Worker(r[b])
             PROVE  r[a].seq_num < r[b].seq_num
  BY DEF WorkerOrder
<1>0. a \in Nat /\ b \in Nat /\ n \in Nat
  OBVIOUS
<1>1. PICK c \in DOMAIN q : r[a] = q[c] /\ (c = a \/ (c = a + 1 /\ a >= n))
  BY DEF Left
<1>2. PICK d \in DOMAIN q : r[b] = q[d] /\ (d = b \/ d = b + 1) /\ (b >= n => d = b + 1)
  BY DEF Left
<1>3. c < d
  BY <1>0, <1>1, <1>2
<1> QED BY <1>1, <1>2, <1>3 DEF WorkerOrder

(* What is before a queue is before what is left of it, and the reverse.   *)
LEMMA WorkerBeforeWithin ==
  ASSUME NEW p, NEW q, NEW r, Within(p, q)
  PROVE  /\ WorkerBefore(q, r) => WorkerBefore(p, r)
         /\ WorkerBefore(r, q) => WorkerBefore(r, p)
<1>1. ASSUME WorkerBefore(q, r) PROVE WorkerBefore(p, r)
  <2> SUFFICES ASSUME NEW a \in DOMAIN p, NEW b \in DOMAIN r, Worker(p[a]) = Worker(r[b])
               PROVE  p[a].seq_num < r[b].seq_num
    BY DEF WorkerBefore
  <2>1. PICK c \in DOMAIN q : p[a] = q[c]
    BY DEF Within
  <2> QED BY <1>1, <2>1 DEF WorkerBefore
<1>2. ASSUME WorkerBefore(r, q) PROVE WorkerBefore(r, p)
  <2> SUFFICES ASSUME NEW a \in DOMAIN r, NEW b \in DOMAIN p, Worker(r[a]) = Worker(p[b])
               PROVE  r[a].seq_num < p[b].seq_num
    BY DEF WorkerBefore
  <2>1. PICK c \in DOMAIN q : p[b] = q[c]
    BY DEF Within
  <2> QED BY <1>2, <2>1 DEF WorkerBefore
<1> QED BY <1>1, <1>2

(* A message may be added on either side when it is itself in place.       *)
LEMMA WorkerBeforeAppend ==
  ASSUME NEW q \in Seq(MarketTick), NEW m \in MarketTick, NEW r
  PROVE  /\ /\ WorkerBefore(q, r)
            /\ \A b \in DOMAIN r : Worker(m) = Worker(r[b]) => m.seq_num < r[b].seq_num
            => WorkerBefore(Append(q, m), r)
         /\ /\ WorkerBefore(r, q)
            /\ \A b \in DOMAIN r : Worker(r[b]) = Worker(m) => r[b].seq_num < m.seq_num
            => WorkerBefore(r, Append(q, m))
<1>1. \A a \in DOMAIN Append(q, m) :
         (a \in DOMAIN q /\ Append(q, m)[a] = q[a]) \/ Append(q, m)[a] = m
  BY AppendElements
<1> QED BY <1>1 DEF WorkerBefore

(* From the exchange to the feedhandler's second ring (trading-engine      *)
(* main.rs:370-426 and 477-498, feedhandler main.rs:262-277): in every     *)
(* scenario the engine takes ticks in the order of their seq_num, of each  *)
(* symbol the orders the feedhandler receives are in the order of the      *)
(* ticks that caused them, at most one of each, and each is of a tick the  *)
(* engine took, for any number of workers.                                 *)
THEOREM StreamKeepsOrder == Spec => []EndToEnd
<1> USE PipelineAssumption
<1> DEFINE StreamInv == TickInv /\ OrderInv
<1>1. Init => StreamInv
  BY DEF Init, Ticks!Init, Orders!Init, TickInv, OrderInv, InOrder, Before, Within, Beginning,
         WorkerOrder, WorkerBefore
<1>2. TypeOK /\ WipedFirst /\ StreamInv /\ [Next]_vars => StreamInv'
  <2> SUFFICES ASSUME TypeOK, WipedFirst, StreamInv, [Next]_vars PROVE StreamInv'
    OBVIOUS
  <2>0. /\ socket \in Seq(MarketTick) /\ seq \in Nat
        /\ ticks_sent \in Seq(MarketTick) /\ ticks_got \in Seq(MarketTick)
        /\ orders_sent \in Seq(MarketTick) /\ orders_got \in Seq(MarketTick)
        /\ work \in Seq(MarketTick) /\ emitted \in Seq(MarketTick) /\ DataOK /\ ChannelsOK
        /\ \A t \in MarketTick : t.seq_num \in Nat
    BY DEF TypeOK, DataOK, ChannelsOK, RingOK, MarketTick
  <2> USE DEF rings, engine
  <2> USE DEF TickInv
  <2>1. CASE EndScenario
    BY <2>1 DEF EndScenario, OrderInv, InOrder, Before, Within, Beginning, WorkerOrder, WorkerBefore
  <2>2. ASSUME NEW p \in Procs, Fail(p) \/ BeginReport(p) PROVE TickInv'
    <3>1. UNCHANGED <<rings, seq>> /\ (socket' = <<>> \/ socket' = socket)
      BY <2>2 DEF Fail, BeginReport
    <3>2. CASE socket' = <<>>
      BY <3>1, <3>2 DEF InOrder, Before
    <3>3. CASE socket' = socket
      BY <3>1, <3>3
    <3> QED BY <3>1, <3>2, <3>3
  <2>3. ASSUME SendTick PROVE TickInv'
    <3> DEFINE tick == [bench |-> "now", seq_num |-> seq + 1]
    <3>1. tick \in MarketTick /\ tick.seq_num = seq + 1 /\ seq' = seq + 1 /\ UNCHANGED rings
      BY <2>0, <2>3 DEF SendTick, MarketTick, TypeOK, DataOK
    <3>2. \A n \in DOMAIN ticks_sent : ticks_sent[n].seq_num < seq + 1
      BY <2>0
    <3>3. \A n \in DOMAIN socket : socket[n].seq_num < seq + 1
      BY <2>0
    <3>4. CASE socket' = Append(socket, tick)
      <4> HIDE DEF tick
      <4>1. InOrder(socket')
        BY <2>0, <3>1, <3>3, <3>4, OrderAppend
      <4>2. ASSUME NEW n \in DOMAIN socket'
            PROVE  \/ n \in DOMAIN socket /\ socket'[n] = socket[n]
                   \/ socket'[n].seq_num = seq + 1
        BY <2>0, <3>1, <3>4, <4>2, AppendElements
      <4>3. \A n \in DOMAIN socket' : socket'[n].seq_num <= seq'
        <5>1. ASSUME NEW n \in DOMAIN socket' PROVE socket'[n].seq_num <= seq'
          <6>1. seq \in Nat /\ seq' = seq + 1
            BY <2>0, <3>1
          <6>2. CASE n \in DOMAIN socket /\ socket'[n] = socket[n]
            BY <2>0, <3>3, <6>1, <6>2
          <6>3. CASE socket'[n].seq_num = seq + 1
            BY <6>1, <6>3
          <6> QED BY <4>2, <6>2, <6>3
        <5> QED BY <5>1
      <4>4. Before(ticks_sent, socket')
        BY <3>2, <4>2 DEF Before
      <4>5. \A n \in DOMAIN ticks_sent : ticks_sent[n].seq_num <= seq'
        BY <2>0, <3>1, <3>2
      <4> QED BY <3>1, <4>1, <4>3, <4>4, <4>5
    <3>5. CASE socket' = socket
      <4>1. /\ \A n \in DOMAIN ticks_sent : ticks_sent[n].seq_num <= seq'
            /\ \A n \in DOMAIN socket : socket[n].seq_num <= seq'
        BY <2>0, <3>1, <3>2, <3>3
      <4> QED BY <3>1, <3>5, <4>1
    <3> QED BY <2>3, <3>4, <3>5 DEF SendTick
  <2>4. ASSUME PublishTick PROVE TickInv'
    <3> DEFINE tick == Head(socket)
    <3>1. /\ socket # <<>> /\ socket' = Tail(socket)
          /\ UNCHANGED <<ticks_got, orders_sent, orders_got, seq>>
          /\ ticks_sent' = Append(ticks_sent, tick)
      BY <2>4 DEF PublishTick, Read, Ticks!Publish
    <3>2. /\ tick \in MarketTick /\ 1 \in DOMAIN socket /\ tick = socket[1]
          /\ \A n \in DOMAIN socket' : n + 1 \in DOMAIN socket /\ socket'[n] = socket[n + 1]
          /\ InOrder(socket') /\ \A n \in DOMAIN socket' : tick.seq_num < socket'[n].seq_num
      BY <2>0, <3>1, LeftByTail, LeftOrder
    <3> HIDE DEF tick
    <3>3. \A n \in DOMAIN ticks_sent : ticks_sent[n].seq_num < tick.seq_num
      BY <3>2 DEF Before
    <3>4. InOrder(ticks_sent')
      BY <2>0, <3>1, <3>2, <3>3, OrderAppend
    <3>5. ASSUME NEW n \in DOMAIN ticks_sent'
          PROVE  \/ n \in DOMAIN ticks_sent /\ ticks_sent'[n] = ticks_sent[n]
                 \/ ticks_sent'[n] = tick
      BY <2>0, <3>1, <3>2, <3>5, AppendElements
    <3>6. Before(ticks_sent', socket')
      BY <3>2, <3>5 DEF Before
    <3>7. /\ \A n \in DOMAIN socket' : socket'[n].seq_num <= seq'
          /\ \A n \in DOMAIN ticks_sent' : ticks_sent'[n].seq_num <= seq'
      BY <3>1, <3>2, <3>5
    <3>8. Beginning(ticks_got', ticks_sent')
      BY <2>0, <3>1, <3>2, BeginningSent
    <3> QED BY <3>1, <3>2, <3>4, <3>6, <3>7, <3>8
  <2>5. ASSUME DropTick PROVE TickInv'
    <3>1. socket # <<>> /\ socket' = Tail(socket) /\ UNCHANGED <<rings, seq>>
      BY <2>5 DEF DropTick, Read
    <3>2. /\ \A n \in DOMAIN socket' : n + 1 \in DOMAIN socket /\ socket'[n] = socket[n + 1]
          /\ InOrder(socket')
      BY <2>0, <3>1, LeftByTail, LeftOrder
    <3>3. Before(ticks_sent, socket') /\ \A n \in DOMAIN socket' : socket'[n].seq_num <= seq
      BY <3>2 DEF Before
    <3> QED BY <3>1, <3>2, <3>3
  <2>6. ASSUME \/ SendTick \/ PublishTick \/ DropTick
               \/ \E p \in Procs : Fail(p) \/ BeginReport(p)
        PROVE  OrderInv'
    <3>1. UNCHANGED <<ticks_got, work, emitted, orders_sent, orders_got>>
      BY <2>6 DEF SendTick, PublishTick, DropTick, Fail, BeginReport, Ticks!Publish
    <3> QED BY <3>1 DEF OrderInv
  <2>7. CASE ConsumeOrder
    <3>1. /\ Len(orders_got) < Len(orders_sent)
          /\ orders_got' = Append(orders_got, orders_sent[Len(orders_got) + 1])
          /\ UNCHANGED <<orders_sent, ticks_sent, ticks_got, socket, seq, work, emitted>>
      BY <2>7 DEF ConsumeOrder, Orders!Consume
    <3>2. Beginning(orders_got', orders_sent)
      BY <2>0, <3>1, BeginningGot DEF OrderInv
    <3> QED BY <3>1, <3>2 DEF OrderInv
  <2>8. CASE TakeTick
    <3>1. PICK tick \in MarketTick : Takes(tick)
      BY <2>0, <2>8, TakesTick
    <3>2. /\ Len(ticks_got) < Len(ticks_sent) /\ tick = ticks_sent[Len(ticks_got) + 1]
          /\ ticks_got' = Append(ticks_got, tick)
          /\ work' = work \/ work' = Append(work, tick)
          /\ UNCHANGED <<ticks_sent, socket, seq, emitted, orders_sent, orders_got>>
      BY <3>1 DEF Takes
    <3>3. /\ Len(ticks_got) + 1 \in DOMAIN ticks_sent
          /\ \A n \in DOMAIN ticks_got : n < Len(ticks_got) + 1 /\ n \in DOMAIN ticks_sent
      BY <2>0, <3>2
    <3>4. Beginning(ticks_got', ticks_sent)
      BY <2>0, <3>2, BeginningGot
    <3>5. ASSUME NEW n \in DOMAIN ticks_got PROVE ticks_got[n].seq_num < tick.seq_num
      BY <3>2, <3>3, <3>5 DEF InOrder, Beginning
    <3>6. Within(ticks_got, ticks_got') /\ \E k \in DOMAIN ticks_got' : ticks_got'[k] = tick
      <4>1. /\ ticks_got \in Seq(MarketTick) /\ tick \in MarketTick
            /\ ticks_got' = Append(ticks_got, tick)
        BY <2>0, <3>2
      <4>2. /\ Within(ticks_got, Append(ticks_got, tick))
            /\ \E k \in DOMAIN Append(ticks_got, tick) : Append(ticks_got, tick)[k] = tick
        BY <4>1, WithinAppend
      <4> QED BY ONLY <4>1, <4>2
    <3>7. ASSUME NEW q, Within(q, ticks_got)
          PROVE  Within(q, ticks_got') /\ \A n \in DOMAIN q : q[n].seq_num < tick.seq_num
      BY <3>5, <3>6, <3>7 DEF Within
    <3>8. OrderInv'
      <4>1. CASE work' = work
        BY <3>2, <3>7, <4>1 DEF OrderInv
      <4>2. CASE work' = Append(work, tick)
        <5>1. WorkerOrder(work') /\ Within(work', ticks_got')
          BY <2>0, <3>6, <3>7, <4>2, WorkerOrderAppend, AppendWithin DEF OrderInv
        <5>2. WorkerBefore(emitted, work') /\ WorkerBefore(orders_sent, work')
          BY <2>0, <3>7, <4>2, WorkerBeforeAppend DEF OrderInv
        <5> QED BY <3>2, <3>7, <5>1, <5>2 DEF OrderInv
      <4> QED BY <3>2, <4>1, <4>2
    <3> QED BY <3>2, <3>4, <3>8
  <2>9. ASSUME NEW n \in DOMAIN work, HandleTick(n) PROVE StreamInv'
    <3>1. Handles(n)
      BY <2>0, <2>9, HandlesTick
    <3> DEFINE m == work[n]
    <3>2. /\ m \in MarketTick /\ Left(work', work, n) /\ work' \in Seq(MarketTick)
          /\ emitted' = emitted \/ emitted' = Append(emitted, m)
          /\ UNCHANGED <<ticks_sent, ticks_got, socket, seq, orders_sent, orders_got>>
      BY <3>1 DEF Handles
    <3>3. WorkerOrder(work') /\ Within(work', work)
      BY <2>0, <3>2, WorkerOrderLeft, LeftIsWithin DEF OrderInv
    <3>4. /\ WorkerBefore(emitted, work') /\ WorkerBefore(orders_sent, work')
          /\ Within(work', ticks_got)
      BY <3>3, WorkerBeforeWithin, WithinWithin DEF OrderInv
    <3>5. CASE emitted' = emitted
      BY <3>2, <3>3, <3>4, <3>5 DEF OrderInv
    <3>6. CASE emitted' = Append(emitted, m)
      <4>1. ASSUME NEW k \in DOMAIN work', Worker(m) = Worker(work'[k])
            PROVE  m.seq_num < work'[k].seq_num
        <5>1. k \in Nat /\ n \in Nat
          BY <2>0, <3>2
        <5>2. ~(k < n /\ k \in DOMAIN work /\ work'[k] = work[k])
          BY <3>1, <4>1 DEF Handles
        <5>3. n < k + 1 /\ k + 1 \in DOMAIN work /\ work'[k] = work[k + 1]
          BY <3>2, <5>1, <5>2 DEF Left
        <5> QED BY <4>1, <5>3 DEF OrderInv, WorkerOrder
      <4>2. /\ \A k \in DOMAIN emitted : Worker(emitted[k]) = Worker(m) => emitted[k].seq_num < m.seq_num
            /\ \A k \in DOMAIN orders_sent :
                  Worker(orders_sent[k]) = Worker(m) => orders_sent[k].seq_num < m.seq_num
            /\ \E k \in DOMAIN ticks_got : ticks_got[k] = m
        BY DEF OrderInv, WorkerBefore, Within
      <4> HIDE DEF m
      <4>3. WorkerOrder(emitted') /\ Within(emitted', ticks_got)
        BY <2>0, <3>2, <3>6, <4>2, WorkerOrderAppend, AppendWithin DEF OrderInv
      <4>4. WorkerBefore(emitted', work')
        BY <2>0, <3>2, <3>4, <3>6, <4>1, WorkerBeforeAppend
      <4>5. WorkerBefore(orders_sent, emitted')
        BY <2>0, <3>2, <3>6, <4>2, WorkerBeforeAppend DEF OrderInv
      <4> QED BY <3>2, <3>3, <3>4, <4>3, <4>4, <4>5 DEF OrderInv
    <3> QED BY <3>2, <3>5, <3>6
  <2>10. CASE PublishOrder
    <3>1. PICK order \in MarketTick : Publishes(order)
      BY <2>0, <2>10, PublishesOrder
    <3>2. /\ 1 \in DOMAIN emitted /\ order = emitted[1]
          /\ emitted' \in Seq(MarketTick) /\ Left(emitted', emitted, 1)
          /\ orders_sent' = orders_sent \/ orders_sent' = Append(orders_sent, order)
          /\ UNCHANGED <<ticks_sent, ticks_got, socket, seq, work, orders_got>>
      BY <3>1 DEF Publishes
    <3>3. WorkerOrder(emitted') /\ Within(emitted', emitted)
      BY <2>0, <3>2, WorkerOrderLeft, LeftIsWithin DEF OrderInv
    <3>4. /\ WorkerBefore(emitted', work) /\ WorkerBefore(orders_sent, emitted')
          /\ Within(emitted', ticks_got)
      BY <3>3, WorkerBeforeWithin, WithinWithin DEF OrderInv
    <3>5. CASE orders_sent' = orders_sent
      BY <3>2, <3>3, <3>4, <3>5 DEF OrderInv
    <3>6. CASE orders_sent' = Append(orders_sent, order)
      <4>1. ASSUME NEW k \in DOMAIN emitted', Worker(order) = Worker(emitted'[k])
            PROVE  order.seq_num < emitted'[k].seq_num
        <5>1. k \in Nat /\ k > 0
          BY <2>0, <3>2
        <5>2. 1 < k + 1 /\ k + 1 \in DOMAIN emitted /\ emitted'[k] = emitted[k + 1]
          BY <3>2, <5>1 DEF Left
        <5> QED BY <3>2, <4>1, <5>2 DEF OrderInv, WorkerOrder
      <4>2. /\ \A k \in DOMAIN work : Worker(order) = Worker(work[k]) => order.seq_num < work[k].seq_num
            /\ \A k \in DOMAIN orders_sent :
                  Worker(orders_sent[k]) = Worker(order) => orders_sent[k].seq_num < order.seq_num
            /\ \E k \in DOMAIN ticks_got : ticks_got[k] = order
        BY <3>2 DEF OrderInv, WorkerBefore, Within
      <4>3. WorkerOrder(orders_sent') /\ Within(orders_sent', ticks_got)
        BY <2>0, <3>6, <4>2, WorkerOrderAppend, AppendWithin DEF OrderInv
      <4>4. WorkerBefore(orders_sent', work) /\ WorkerBefore(orders_sent', emitted')
        BY <2>0, <3>4, <3>6, <4>1, <4>2, WorkerBeforeAppend DEF OrderInv
      <4>5. Beginning(orders_got, orders_sent')
        BY <2>0, <3>6, BeginningSent DEF OrderInv
      <4> QED BY <3>2, <3>3, <3>4, <4>3, <4>4, <4>5 DEF OrderInv
    <3> QED BY <3>2, <3>5, <3>6
  <2>11. CASE StopDispatch \/ JoinWorkers
    <3>1. UNCHANGED <<rings, socket, seq, engine>>
      BY <2>11, EngineIdles
    <3> QED BY <3>1 DEF OrderInv
  <2>12. ASSUME NEW p \in Procs, OpenBus(p) PROVE StreamInv'
    <3>1. bus # "left"
      BY <2>12 DEF OpenBus, WipedFirst, AllOff
    <3> QED BY <2>12, <3>1 DEF OpenBus, OrderInv
  <2>13. CASE \/ Wipe \/ Launch \/ Compare \/ ConnectSocket \/ UNCHANGED vars
              \/ \E p \in Procs : WriteReport(p)
    <3>1. UNCHANGED <<rings, socket, seq, engine>>
      BY <2>13 DEF Wipe, Launch, Compare, ConnectSocket, WriteReport, vars
    <3> QED BY <3>1 DEF OrderInv
  <2> QED BY <2>1, <2>2, <2>3, <2>4, <2>5, <2>6, <2>7, <2>8, <2>9, <2>10, <2>11, <2>12, <2>13
          DEF Next, Script, DataPath, EnginePath
<1>3. TypeOK /\ StreamInv => EndToEnd
  <2> SUFFICES ASSUME TypeOK, StreamInv PROVE EndToEnd
    OBVIOUS
  <2>1. /\ \A n \in DOMAIN ticks_got : n \in DOMAIN ticks_sent /\ ticks_got[n] = ticks_sent[n]
        /\ \A n \in DOMAIN orders_got : n \in DOMAIN orders_sent /\ orders_got[n] = orders_sent[n]
    BY DEF TypeOK, DataOK, RingOK, TickInv, OrderInv, Beginning
  <2>2. InOrder(ticks_got)
    BY <2>1 DEF TickInv, InOrder
  <2>3. \A a, b : Symbol(a) = Symbol(b) => Worker(a) = Worker(b)
    BY DEF Worker
  <2>4. SymbolOrder(orders_got)
    BY <2>1, <2>3 DEF OrderInv, WorkerOrder, SymbolOrder
  <2>5. Within(orders_got, ticks_got)
    BY <2>1 DEF OrderInv, Within
  <2> QED BY <2>2, <2>4, <2>5 DEF EndToEnd
<1> QED BY <1>1, <1>2, <1>3, TypeCorrect, PTL DEF Spec
=============================================================================
