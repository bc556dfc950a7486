----------------------------- MODULE Feedhandler -----------------------------
(***************************************************************************)
(* The feedhandler's main loop (crates/feedhandler/src/main.rs) over       *)
(* io_uring: RECV_BATCH receive buffers that pass from the process to the  *)
(* kernel and back, a timeout that bounds every wait, and the two rings of *)
(* the bus.                                                                *)
(*                                                                         *)
(* A datagram is its place in the order of arrival and whether it is long  *)
(* enough to be a tick.  The kernel, the peer processes and the clock are  *)
(* the environment, modelled from how the loop uses them.                  *)
(***************************************************************************)
EXTENDS Integers, Sequences, FiniteSets

CONSTANTS
  Buffers,        \* the receive buffers, 0 .. RECV_BATCH - 1 in the code
  RingDepth,      \* --ring-depth: entries of the submission queue
  TickRingCap,    \* RING_CAPACITY of the ticks ring
  Short,          \* the datagrams shorter than a MarketTick
  MaxDatagrams,   \* bound on the datagrams that arrive
  MaxErrors,      \* bound on the receives that complete with an error
  MaxOrders,      \* bound on the orders the engine publishes
  MaxTimers       \* bound on the timeouts pending at once

NoBuffer == "timeout"    \* TIMEOUT_UD, the index of no buffer

ASSUME FeedAssumption ==
  /\ IsFiniteSet(Buffers) /\ Buffers # {} /\ NoBuffer \notin Buffers
  /\ RingDepth \in Nat \ {0} /\ TickRingCap \in Nat \ {0} /\ MaxTimers \in Nat \ {0}
  /\ MaxDatagrams \in Nat /\ MaxErrors \in Nat /\ MaxOrders \in Nat
  /\ Short \subseteq 1 .. MaxDatagrams

VARIABLES
  \* the process
  pc,
  stop, late,        \* the ctrl-c flag; the bench deadline has passed
  queued,            \* timeouts pushed on the submission queue, not submitted
  synced,            \* the completions sync() found, not yet looked at
  done,              \* those of receives, not yet handled
  item,              \* the one being handled
  recv_count, publish_drops, bad_packets, order_count,
  errors,            \* receives reported as "recv error"
  \* the kernel
  owner,             \* owner[b]: who may touch buffer b
  content,           \* content[b]: the datagram in buffer b, 0 if none
  timers,            \* timeouts armed
  cq,                \* the completion queue
  arrived,           \* datagrams that reached the socket
  taken,             \* datagrams copied into a buffer
  \* the rings
  published,         \* ticks published on the bus, in order
  unread,            \* of these, those the engine has not consumed
  orders             \* orders the engine published, not yet consumed

batch == <<synced, done, item>>
counters == <<recv_count, publish_drops, bad_packets, order_count, errors>>
kernel == <<owner, content, timers, cq, arrived, taken>>
rings == <<published, unread, orders>>
vars == <<pc, stop, late, queued, batch, counters, kernel, rings>>

Completion(b, r) == [buf |-> b, res |-> r]
NoItem == Completion(NoBuffer, "timeout")

Init ==
  /\ pc = "arm" /\ stop = FALSE /\ late = FALSE
  /\ queued = 0 /\ synced = <<>> /\ done = <<>> /\ item = NoItem
  /\ recv_count = 0 /\ publish_drops = 0 /\ bad_packets = 0 /\ order_count = 0 /\ errors = 0
  /\ owner = [b \in Buffers |-> "app"]
  /\ content = [b \in Buffers |-> 0]
  /\ timers = 0 /\ cq = <<>> /\ arrived = 0 /\ taken = 0
  /\ published = <<>> /\ unread = 0 /\ orders = 0

-----------------------------------------------------------------------------
(* submit_recv: the push succeeds at once or after a submit made room, and *)
(* the submit hands everything queued to the kernel.                       *)
SubmitRecv(b) ==
  /\ owner' = [owner EXCEPT ![b] = "kernel"]
  /\ timers' = timers + queued
  /\ queued' = 0
  /\ UNCHANGED <<content, cq, arrived, taken>>

(* The buffers are armed one by one before the loop.                       *)
Arm(b) ==
  /\ pc = "arm"
  /\ owner[b] = "app"
  /\ SubmitRecv(b)
  /\ pc' = IF \A c \in Buffers \ {b} : owner[c] # "app" THEN "top" ELSE "arm"
  /\ UNCHANGED <<stop, late, batch, counters, rings>>

(* Not the code: no timeout is pushed.                                     *)
Pushed_None == queued

(* A full submission queue takes no timeout, which is ignored.             *)
Pushed == IF queued < RingDepth THEN queued + 1 ELSE queued

(* while !stop, the deadline test, and the push of a timeout.              *)
Loop ==
  /\ pc = "top" /\ ~stop /\ ~late
  /\ timers + queued < MaxTimers
  /\ queued' = Pushed
  /\ pc' = "submit"
  /\ UNCHANGED <<stop, late, batch, counters, kernel, rings>>

Break ==
  /\ pc = "top" /\ (stop \/ late)
  /\ pc' = "finished"
  /\ UNCHANGED <<stop, late, queued, batch, counters, kernel, rings>>

(* submit_and_wait(1): what is queued is submitted, then the process       *)
(* sleeps until there is a completion or a signal; a signal that comes     *)
(* before anything was submitted is EINTR.                                 *)
Submit ==
  /\ pc = "submit"
  /\ timers' = timers + queued /\ queued' = 0
  /\ pc' = "wait"
  /\ UNCHANGED <<stop, late, batch, counters, owner, content, cq, arrived, taken, rings>>

SubmitInterrupted ==
  /\ pc = "submit"
  /\ pc' = "top"
  /\ UNCHANGED <<stop, late, queued, batch, counters, kernel, rings>>

Wake ==
  /\ pc = "wait" /\ cq # <<>>
  /\ pc' = "reap"
  /\ UNCHANGED <<stop, late, queued, batch, counters, kernel, rings>>

WaitInterrupted ==
  /\ pc = "wait" /\ cq = <<>>
  /\ pc' = "reap"
  /\ UNCHANGED <<stop, late, queued, batch, counters, kernel, rings>>

(* Any other error of submit_and_wait, or an error of a submit, ends main. *)
SubmitFails ==
  /\ pc \in {"arm", "submit", "rearm"}
  /\ pc' = "failed"
  /\ UNCHANGED <<stop, late, queued, batch, counters, kernel, rings>>

(* cq.sync(): the completions there are now, and no later one.             *)
Sync ==
  /\ pc = "reap"
  /\ synced' = cq /\ cq' = <<>>
  /\ pc' = "collect"
  /\ UNCHANGED <<stop, late, queued, done, item, counters, owner, content, timers, arrived, taken, rings>>

(* Not the code: buffers are re-armed before they are read.                *)
Reaped_Rearmed == "kernel"

Reaped == "app"

(* The completions of receives are kept, in order; timeouts are skipped.   *)
Collect ==
  /\ pc = "collect" /\ synced # <<>>
  /\ synced' = Tail(synced)
  /\ LET c == Head(synced) IN
     IF c.buf = NoBuffer THEN UNCHANGED <<done, owner>>
     ELSE done' = Append(done, c) /\ owner' = [owner EXCEPT ![c.buf] = Reaped]
  /\ UNCHANGED <<pc, stop, late, queued, item, counters, content, timers, cq, arrived, taken, rings>>

CollectEnd ==
  /\ pc = "collect" /\ synced = <<>>
  /\ pc' = "process"
  /\ UNCHANGED <<stop, late, queued, batch, counters, kernel, rings>>

(* Not the code: bad ones are not counted.                                 *)
OneMoreBad_Not == bad_packets

OneMoreBad == bad_packets + 1

(* One completion: an error, a short datagram, or a tick that is parsed    *)
(* from the buffer and published if the ring has room.                     *)
Handle(c) ==
  \/ /\ c.res = "error"
     /\ errors' = errors + 1
     /\ UNCHANGED <<recv_count, publish_drops, bad_packets, published, unread>>
  \/ /\ c.res = "data" /\ content[c.buf] \in Short
     /\ bad_packets' = OneMoreBad
     /\ UNCHANGED <<recv_count, publish_drops, errors, published, unread>>
  \/ /\ c.res = "data" /\ content[c.buf] \notin Short /\ unread < TickRingCap
     /\ published' = Append(published, content[c.buf])
     /\ unread' = unread + 1
     /\ recv_count' = recv_count + 1
     /\ UNCHANGED <<publish_drops, bad_packets, errors>>
  \/ /\ c.res = "data" /\ content[c.buf] \notin Short /\ unread = TickRingCap
     /\ publish_drops' = publish_drops + 1
     /\ UNCHANGED <<recv_count, bad_packets, errors, published, unread>>

(* Not the code: the batch is popped from its end.                         *)
Process_Popped ==
  /\ pc = "process" /\ done # <<>>
  /\ LET last == done[Len(done)] IN Handle(last) /\ item' = last
  /\ done' = SubSeq(done, 1, Len(done) - 1)
  /\ pc' = "rearm"
  /\ UNCHANGED <<stop, late, queued, synced, order_count, kernel, orders>>

Process ==
  /\ pc = "process" /\ done # <<>>
  /\ Handle(Head(done))
  /\ item' = Head(done) /\ done' = Tail(done)
  /\ pc' = "rearm"
  /\ UNCHANGED <<stop, late, queued, synced, order_count, kernel, orders>>

(* Not the code: a receive that failed is not submitted again.             *)
Rearm_OnlyData ==
  /\ pc = "rearm"
  /\ IF item.res = "data" THEN SubmitRecv(item.buf) ELSE UNCHANGED <<queued, kernel>>
  /\ item' = NoItem
  /\ pc' = "process"
  /\ UNCHANGED <<stop, late, synced, done, counters, rings>>

(* The buffer goes back to the kernel, whatever its completion said.       *)
Rearm ==
  /\ pc = "rearm"
  /\ SubmitRecv(item.buf)
  /\ item' = NoItem
  /\ pc' = "process"
  /\ UNCHANGED <<stop, late, synced, done, counters, rings>>

ProcessEnd ==
  /\ pc = "process" /\ done = <<>>
  /\ pc' = "orders"
  /\ UNCHANGED <<stop, late, queued, batch, counters, kernel, rings>>

(* The orders ring is drained, then the loop starts again.                 *)
TakeOrder ==
  /\ pc = "orders" /\ orders > 0
  /\ orders' = orders - 1
  /\ order_count' = order_count + 1
  /\ UNCHANGED <<pc, stop, late, queued, batch, recv_count, publish_drops, bad_packets, errors,
                 kernel, published, unread>>

OrdersEnd ==
  /\ pc = "orders" /\ orders = 0
  /\ pc' = "top"
  /\ UNCHANGED <<stop, late, queued, batch, counters, kernel, rings>>

-----------------------------------------------------------------------------
(* The kernel.                                                             *)

(* The next datagram goes into some armed buffer.                          *)
RecvCompletes(b) ==
  /\ owner[b] = "kernel"
  /\ taken < arrived
  /\ taken' = taken + 1
  /\ content' = [content EXCEPT ![b] = taken + 1]
  /\ owner' = [owner EXCEPT ![b] = "cq"]
  /\ cq' = Append(cq, Completion(b, "data"))
  /\ UNCHANGED <<pc, stop, late, queued, batch, counters, timers, arrived, rings>>

(* Errors so far, those on their way included.                             *)
Failed ==
  LET pending == cq \o synced \o done IN
  Cardinality({i \in DOMAIN pending : pending[i].res = "error"}) + errors

RecvFails(b) ==
  /\ owner[b] = "kernel"
  /\ Failed < MaxErrors
  /\ owner' = [owner EXCEPT ![b] = "cq"]
  /\ cq' = Append(cq, Completion(b, "error"))
  /\ UNCHANGED <<pc, stop, late, queued, batch, counters, content, timers, arrived, taken, rings>>

TimerFires ==
  /\ timers > 0
  /\ timers' = timers - 1
  /\ cq' = Append(cq, Completion(NoBuffer, "timeout"))
  /\ UNCHANGED <<pc, stop, late, queued, batch, counters, owner, content, arrived, taken, rings>>

DatagramArrives ==
  /\ arrived < MaxDatagrams
  /\ arrived' = arrived + 1
  /\ UNCHANGED <<pc, stop, late, queued, batch, counters, owner, content, timers, cq, taken, rings>>

(* The engine, ctrl-c, and the deadline.                                   *)
EngineConsumes ==
  /\ unread > 0 /\ unread' = unread - 1
  /\ UNCHANGED <<pc, stop, late, queued, batch, counters, kernel, published, orders>>

EnginePublishes ==
  /\ orders + order_count < MaxOrders /\ orders' = orders + 1
  /\ UNCHANGED <<pc, stop, late, queued, batch, counters, kernel, published, unread>>

EndRequested ==
  /\ \/ ~stop /\ stop' = TRUE /\ UNCHANGED late
     \/ ~late /\ late' = TRUE /\ UNCHANGED stop
  /\ UNCHANGED <<pc, queued, batch, counters, kernel, rings>>

-----------------------------------------------------------------------------
App == \/ \E b \in Buffers : Arm(b)
       \/ Loop \/ Break \/ Submit \/ SubmitInterrupted \/ Wake \/ SubmitFails
       \/ Sync \/ Collect \/ CollectEnd \/ Process \/ Rearm \/ ProcessEnd \/ TakeOrder \/ OrdersEnd

Environment == \/ \E b \in Buffers : RecvCompletes(b) \/ RecvFails(b)
               \/ TimerFires \/ DatagramArrives
               \/ EngineConsumes \/ EnginePublishes \/ EndRequested

Next == App \/ WaitInterrupted \/ Environment

Spec == Init /\ [][Next]_vars

(* The process is scheduled when it is not asleep in submit_and_wait, is   *)
(* woken by a completion (no signal is owed to it), and timers expire.     *)
FairSpec ==
  /\ Spec
  /\ WF_vars(App)
  /\ WF_vars(TimerFires)

-----------------------------------------------------------------------------
Receives == [buf : Buffers, res : {"data", "error"}]
Completions == Receives \cup {NoItem}

LoopOK ==
  /\ pc \in {"arm", "top", "submit", "wait", "reap", "collect", "process", "rearm", "orders",
             "finished", "failed"}
  /\ stop \in BOOLEAN /\ late \in BOOLEAN
  /\ queued \in 0 .. RingDepth

BatchOK == synced \in Seq(Completions) /\ done \in Seq(Receives) /\ item \in Completions

CountersOK ==
  /\ recv_count \in Nat /\ publish_drops \in Nat /\ bad_packets \in Nat
  /\ order_count \in Nat /\ errors \in Nat

KernelOK ==
  /\ cq \in Seq(Completions)
  /\ owner \in [Buffers -> {"app", "kernel", "cq"}]
  /\ content \in [Buffers -> 0 .. MaxDatagrams]
  /\ timers \in Nat /\ arrived \in 0 .. MaxDatagrams /\ taken \in 0 .. arrived

RingsOK ==
  published \in Seq(1 .. MaxDatagrams) /\ unread \in 0 .. TickRingCap /\ orders \in 0 .. MaxOrders

TypeOK == LoopOK /\ BatchOK /\ CountersOK /\ KernelOK /\ RingsOK

(***************************************************************************)
(* A buffer is the process's from its completion until it is re-armed: the *)
(* ticks published are datagrams that arrived, each at most once and in    *)
(* the order of arrival.                                                   *)
(***************************************************************************)
PublishedInOrder ==
  \A i, j \in DOMAIN published : i < j => published[i] < published[j]

(* Completions with data that no counter shows yet.                        *)
Uncounted(q) == {i \in DOMAIN q : q[i].res = "data"}
InFlight == Cardinality(Uncounted(cq)) + Cardinality(Uncounted(synced)) + Cardinality(Uncounted(done))

(***************************************************************************)
(* The report accounts for every datagram the kernel handed over: it was   *)
(* published, dropped because the ring was full, or bad.                   *)
(***************************************************************************)
DatagramsAccounted ==
  taken = recv_count + publish_drops + bad_packets + InFlight

(***************************************************************************)
(* No path through the loop leaks a buffer: whenever the process is about  *)
(* to wait, every buffer is armed or already completed.                    *)
(***************************************************************************)
EveryBufferArmed ==
  pc \in {"top", "submit", "wait"} => \A b \in Buffers : owner[b] \in {"kernel", "cq"}

(* Datagrams that a counter of the report shows.                           *)
Reported == recv_count + publish_drops + bad_packets

(***************************************************************************)
(* The loop implements a relay of one datagram at a time (module Relay):   *)
(* whatever the batches, the buffers and the errors between them, the next *)
(* datagram to be counted is the next the kernel handed over, and a tick   *)
(* is dropped only when the ring is full at that moment.                   *)
(***************************************************************************)
Datagrams == INSTANCE Relay WITH
  Capacity <- TickRingCap, handled <- Reported, bad <- bad_packets, dropped <- publish_drops
ImplementsRelay == Datagrams!Spec

(***************************************************************************)
(* "Run for N seconds then exit cleanly" (README.md:57): the feedhandler   *)
(* ends after ctrl-c or the deadline, however quiet the socket is.         *)
(***************************************************************************)
FeedhandlerExits == (stop \/ late) ~> pc \in {"finished", "failed"}
=============================================================================
