------------------------- MODULE FeedhandlerProofs -------------------------
(***************************************************************************)
(* For any number of receive buffers, any depth of the rings and every     *)
(* interleaving of the loop with the kernel, the engine, ctrl-c and the    *)
(* deadline: no buffer is leaked, ticks are published in the order of      *)
(* arrival and at most once, and the report accounts for every datagram.   *)
(***************************************************************************)
EXTENDS Feedhandler, FiniteSetTheorems, TLAPS

Elems(q) == {q[i] : i \in DOMAIN q}

(* A sequence in which every earlier element is R-related to every later.  *)
Chain(R, q) == \A i, j \in DOMAIN q : i < j => <<q[i], q[j]>> \in R

(* The completions of the kernel that the loop has not handled.            *)
Pending == Elems(cq) \cup Elems(synced) \cup Elems(done)

(* A buffer with data holds a datagram.                                    *)
Filled == \A c \in Pending : c.res = "data" => content[c.buf] >= 1

(* Where the loop keeps completions.                                       *)
LoopInv ==
  /\ synced # <<>> => pc = "collect"
  /\ done # <<>> => pc \in {"collect", "process", "rearm", "failed"}
  /\ item # NoItem => pc \in {"rearm", "failed"}
  /\ pc = "rearm" => item \in Receives

(* Whose a buffer is: the kernel's until its completion is collected, the  *)
(* loop's until it is submitted again.                                     *)
OwnerInv ==
  /\ \A c \in Elems(cq) \cup Elems(synced) : c # NoItem => owner[c.buf] = "cq"
  /\ \A c \in Elems(done) \cup {item} : c # NoItem => owner[c.buf] = "app"
  /\ \A b \in Buffers : owner[b] = "app" =>
        pc \in {"arm", "failed"} \/ \E c \in Elems(done) \cup {item} : c.buf = b

(* Two receives that are pending are of two buffers, and the first has the *)
(* earlier datagram.                                                       *)
Later ==
  {p \in Completions \X Completions :
     p[1] # NoItem /\ p[2] # NoItem =>
        /\ p[1].buf # p[2].buf
        /\ p[1].res = "data" /\ p[2].res = "data" => content[p[1].buf] < content[p[2].buf]}
Ahead(A, B) == \A a \in A, b \in B : <<a, b>> \in Later

QueueInv ==
  /\ Chain(Later, cq) /\ Chain(Later, synced) /\ Chain(Later, done)
  /\ Ahead(Elems(synced), Elems(cq)) /\ Ahead(Elems(done), Elems(cq))
  /\ Ahead(Elems(done), Elems(synced))
  /\ item # NoItem => \A c \in Elems(done) : c.buf # item.buf
  /\ \A b \in Buffers : content[b] <= taken

(* What is published came before what is pending.                          *)
Less == {p \in Nat \X Nat : p[1] < p[2]}
PublishInv ==
  /\ Chain(Less, published)
  /\ \A n \in Elems(published) : n <= taken
  /\ \A n \in Elems(published), c \in Pending : c.res = "data" => n < content[c.buf]

-----------------------------------------------------------------------------
(* Sequences.                                                              *)

(* What is added at the end of a queue.                                    *)
LEMMA AtEnd ==
  ASSUME NEW S, NEW q \in Seq(S), NEW x \in S
  PROVE  /\ Append(q, x) \in Seq(S)
         /\ Elems(Append(q, x)) = Elems(q) \cup {x}
         /\ \A R : Chain(R, q) /\ (\A y \in Elems(q) : <<y, x>> \in R) => Chain(R, Append(q, x))
<1> DEFINE n == Len(q)
           a == Append(q, x)
<1>1. /\ a \in Seq(S) /\ n \in Nat /\ DOMAIN q = 1 .. n /\ DOMAIN a = 1 .. n + 1
      /\ a[n + 1] = x /\ \A i \in 1 .. n : a[i] = q[i]
  OBVIOUS
<1> HIDE DEF a, n
<1>2. \A i \in DOMAIN a : i \in DOMAIN q \/ i = n + 1
  BY <1>1
<1>3. n + 1 \in DOMAIN a /\ \A i \in DOMAIN q : i \in DOMAIN a /\ i # n + 1
  BY <1>1
<1>4. Elems(a) = Elems(q) \cup {x}
  <2>1. \A y \in Elems(a) : y \in Elems(q) \cup {x}
    BY <1>1, <1>2 DEF Elems
  <2>2. x \in Elems(a) /\ \A y \in Elems(q) : y \in Elems(a)
    BY <1>1, <1>3 DEF Elems
  <2> QED BY <2>1, <2>2
<1>5. ASSUME NEW R, Chain(R, q), \A y \in Elems(q) : <<y, x>> \in R PROVE Chain(R, a)
  <2> SUFFICES ASSUME NEW i \in DOMAIN a, NEW j \in DOMAIN a, i < j PROVE <<a[i], a[j]>> \in R
    BY DEF Chain
  <2>1. i \in DOMAIN q
    BY <1>1
  <2>2. CASE j = n + 1
    BY <1>1, <1>5, <2>1, <2>2 DEF Elems
  <2>3. CASE j \in DOMAIN q
    BY <1>1, <1>5, <2>1, <2>3 DEF Chain
  <2> QED BY <1>2, <2>2, <2>3
<1> QED BY <1>1, <1>4, <1>5 DEF a

(* What is taken from its head.                                            *)
LEMMA AtHead ==
  ASSUME NEW S, NEW q \in Seq(S), q # <<>>
  PROVE  /\ Head(q) \in S /\ Tail(q) \in Seq(S)
         /\ Elems(q) = Elems(Tail(q)) \cup {Head(q)}
         /\ \A R : Chain(R, q) =>
              Chain(R, Tail(q)) /\ (\A y \in Elems(Tail(q)) : <<Head(q), y>> \in R)
<1> DEFINE n == Len(q)
           t == Tail(q)
<1>1. /\ t \in Seq(S) /\ n \in Nat /\ n >= 1 /\ DOMAIN q = 1 .. n /\ DOMAIN t = 1 .. n - 1
      /\ Head(q) = q[1] /\ Head(q) \in S /\ \A i \in 1 .. n - 1 : t[i] = q[i + 1]
  OBVIOUS
<1> HIDE DEF t, n
<1>2. \A i \in DOMAIN t : i + 1 \in DOMAIN q /\ 1 < i + 1 /\ t[i] = q[i + 1]
  BY <1>1
<1>3. 1 \in DOMAIN q /\ \A i \in DOMAIN q : i # 1 => i - 1 \in DOMAIN t /\ t[i - 1] = q[i]
  BY <1>1
<1>4. Elems(q) = Elems(t) \cup {Head(q)}
  <2>1. \A y \in Elems(q) : y \in Elems(t) \cup {Head(q)}
    BY <1>1, <1>3 DEF Elems
  <2>2. Head(q) \in Elems(q) /\ \A y \in Elems(t) : y \in Elems(q)
    BY <1>1, <1>2, <1>3, SMTT(30) DEF Elems
  <2> QED BY <2>1, <2>2
<1>5. ASSUME NEW R, Chain(R, q) PROVE Chain(R, t) /\ \A y \in Elems(t) : <<Head(q), y>> \in R
  <2>1. ASSUME NEW i \in DOMAIN t, NEW j \in DOMAIN t, i < j PROVE <<t[i], t[j]>> \in R
    <3>1. i + 1 < j + 1
      BY <1>1, <2>1
    <3> QED BY <1>2, <1>5, <3>1 DEF Chain
  <2>2. ASSUME NEW i \in DOMAIN t PROVE <<Head(q), t[i]>> \in R
    BY <1>1, <1>2, <1>3, <1>5 DEF Chain
  <2> QED BY <2>1, <2>2 DEF Chain, Elems
<1> QED BY <1>1, <1>4, <1>5 DEF t

(* An empty queue.                                                         *)
LEMMA Empty == Elems(<<>>) = {} /\ (\A R : Chain(R, <<>>)) /\ \A S : <<>> \in Seq(S)
<1>1. DOMAIN <<>> = {}
  OBVIOUS
<1> QED BY <1>1 DEF Elems, Chain

(* The elements of a queue are of its type.                                *)
LEMMA ElemsIn == \A S : \A q \in Seq(S) : Elems(q) \subseteq S
BY DEF Elems

-----------------------------------------------------------------------------
(* Types.                                                                  *)

(* Completions: a timeout is of no buffer.                                 *)
LEMMA Kinds ==
  /\ NoItem \in Completions /\ NoItem \notin Receives /\ NoItem.buf = NoBuffer /\ NoItem.res = "timeout"
  /\ \A c \in Completions : c.buf # NoBuffer => c \in Receives
  /\ \A c \in Completions : c.res = "data" => c \in Receives
  /\ \A c \in Receives : /\ c.buf \in Buffers /\ c.buf # NoBuffer /\ c.res \in {"data", "error"}
                          /\ c \in Completions /\ c # NoItem
  /\ \A b \in Buffers : /\ Completion(b, "data") \in Receives /\ Completion(b, "error") \in Receives
                         /\ Completion(b, "data").buf = b /\ Completion(b, "data").res = "data"
                         /\ Completion(b, "error").buf = b /\ Completion(b, "error").res = "error"
BY FeedAssumption DEF NoItem, Completion, Completions, Receives, NoBuffer

(* The loop's control.                                                     *)
LEMMA LoopTypes == TypeOK /\ [Next]_vars => LoopOK'
<1> SUFFICES ASSUME TypeOK, [Next]_vars PROVE LoopOK'
  OBVIOUS
<1> USE FeedAssumption
<1>0. /\ pc \in {"arm", "top", "submit", "wait", "reap", "collect", "process", "rearm", "orders",
                  "finished", "failed"}
      /\ stop \in BOOLEAN /\ late \in BOOLEAN /\ queued \in 0 .. RingDepth
  BY DEF TypeOK, LoopOK
<1>1. CASE App \/ WaitInterrupted
  <2>1. UNCHANGED <<stop, late>>
    BY <1>1 DEF App, Arm, Loop, Break, Submit, SubmitInterrupted, Wake, WaitInterrupted, SubmitFails, Sync,
                Collect, CollectEnd, Process, Rearm, ProcessEnd, TakeOrder, OrdersEnd
  <2>2. pc' \in {"arm", "top", "submit", "wait", "reap", "collect", "process", "rearm", "orders",
                 "finished", "failed"}
    BY <1>0, <1>1 DEF App, Arm, Loop, Break, Submit, SubmitInterrupted, Wake, WaitInterrupted, SubmitFails,
                Sync, Collect, CollectEnd, Process, Rearm, ProcessEnd, TakeOrder, OrdersEnd
  <2>3. queued' \in 0 .. RingDepth
    BY <1>0, <1>1 DEF App, Arm, SubmitRecv, Loop, Pushed, Break, Submit, SubmitInterrupted, Wake,
                WaitInterrupted, SubmitFails, Sync, Collect, CollectEnd, Process, Rearm, ProcessEnd, TakeOrder,
                OrdersEnd
  <2>4. stop' \in BOOLEAN /\ late' \in BOOLEAN
    BY <1>0, <2>1, Zenon
  <2> QED BY <2>2, <2>3, <2>4 DEF LoopOK
<1>2. CASE Environment \/ UNCHANGED vars
  <2>1. UNCHANGED <<pc, queued>>
    BY <1>2 DEF Environment, RecvCompletes, RecvFails, TimerFires, DatagramArrives, EngineConsumes,
                EnginePublishes, EndRequested, vars
  <2>2. \/ UNCHANGED <<stop, late>>
        \/ stop' = TRUE /\ late' = late
        \/ late' = TRUE /\ stop' = stop
    BY <1>2 DEF Environment, RecvCompletes, RecvFails, TimerFires, DatagramArrives, EngineConsumes,
                EnginePublishes, EndRequested, vars
  <2>3. stop' \in BOOLEAN /\ late' \in BOOLEAN
    BY <1>0, <2>2, Zenon
  <2> QED BY <1>0, <2>1, <2>3 DEF LoopOK
<1> QED BY <1>1, <1>2 DEF Next

(* The completions and the buffers.                                        *)
LEMMA BufferTypes == TypeOK /\ LoopInv /\ [Next]_vars => BatchOK' /\ KernelOK'
<1> SUFFICES ASSUME TypeOK, LoopInv, [Next]_vars PROVE BatchOK' /\ KernelOK'
  OBVIOUS
<1>0. /\ synced \in Seq(Completions) /\ done \in Seq(Receives) /\ item \in Completions
      /\ cq \in Seq(Completions) /\ owner \in [Buffers -> {"app", "kernel", "cq"}]
      /\ content \in [Buffers -> 0 .. MaxDatagrams]
      /\ timers \in Nat /\ arrived \in 0 .. MaxDatagrams /\ taken \in 0 .. arrived
      /\ queued \in Nat /\ MaxDatagrams \in Nat
  BY FeedAssumption DEF TypeOK, BatchOK, KernelOK, LoopOK
<1>1. CASE \/ Loop \/ Break \/ SubmitInterrupted \/ Wake \/ WaitInterrupted \/ SubmitFails \/ CollectEnd
           \/ ProcessEnd \/ TakeOrder \/ OrdersEnd \/ EngineConsumes \/ EnginePublishes \/ EndRequested
           \/ UNCHANGED vars
  <2>1. UNCHANGED <<synced, done, item, cq, owner, content, timers, arrived, taken>>
    BY <1>1 DEF Loop, Break, SubmitInterrupted, Wake, WaitInterrupted, SubmitFails, CollectEnd, ProcessEnd,
                TakeOrder, OrdersEnd, EngineConsumes, EnginePublishes, EndRequested, vars, batch, kernel
  <2> QED BY <1>0, <2>1 DEF BatchOK, KernelOK
<1>2. CASE Submit
  <2>1. timers' \in Nat /\ UNCHANGED <<synced, done, item, cq, owner, content, arrived, taken>>
    BY <1>0, <1>2 DEF Submit, batch
  <2> QED BY <1>0, <2>1 DEF BatchOK, KernelOK
<1>3. ASSUME NEW b \in Buffers, SubmitRecv(b) PROVE KernelOK'
  <2>1. timers' \in Nat /\ UNCHANGED <<content, cq, arrived, taken>>
    BY <1>0, <1>3 DEF SubmitRecv
  <2>2. owner' \in [Buffers -> {"app", "kernel", "cq"}]
    BY <1>0, <1>3 DEF SubmitRecv
  <2> QED BY <1>0, <2>1, <2>2 DEF KernelOK
<1>4. ASSUME NEW b \in Buffers, Arm(b) PROVE BatchOK' /\ KernelOK'
  <2>1. SubmitRecv(b) /\ UNCHANGED <<synced, done, item>>
    BY <1>4 DEF Arm, batch
  <2> QED BY <1>0, <1>3, <2>1 DEF BatchOK
<1>5. CASE Rearm
  <2>1. item \in Receives /\ SubmitRecv(item.buf) /\ item' = NoItem /\ UNCHANGED <<synced, done>>
    BY <1>5 DEF Rearm, LoopInv
  <2> QED BY <1>0, <1>3, <2>1, Kinds DEF BatchOK
<1>6. CASE Sync
  <2>1. /\ synced' = cq /\ cq' = <<>>
        /\ UNCHANGED <<done, item, owner, content, timers, arrived, taken>>
    BY <1>6 DEF Sync
  <2> QED BY <1>0, <2>1 DEF BatchOK, KernelOK
<1>7. CASE Collect
  <2> DEFINE c == Head(synced)
  <2>1. /\ synced # <<>> /\ synced' = Tail(synced)
        /\ UNCHANGED <<item, content, timers, cq, arrived, taken>>
        /\ \/ c.buf = NoBuffer /\ done' = done /\ owner' = owner
           \/ c.buf # NoBuffer /\ done' = Append(done, c) /\ owner' = [owner EXCEPT ![c.buf] = "app"]
    BY <1>7 DEF Collect, Reaped
  <2>2. c \in Completions /\ Tail(synced) \in Seq(Completions)
    BY <1>0, <2>1, AtHead
  <2> HIDE DEF c
  <2>3. done' \in Seq(Receives)
    <3>1. CASE c.buf = NoBuffer
      BY <1>0, <2>1, <3>1
    <3>2. CASE c.buf # NoBuffer
      <4>1. c \in Receives
        BY <2>2, <3>2, Kinds
      <4>2. Append(done, c) \in Seq(Receives)
        BY <1>0, <4>1, AtEnd
      <4> QED BY <2>1, <3>2, <4>2
    <3> QED BY <3>1, <3>2
  <2>4. owner' \in [Buffers -> {"app", "kernel", "cq"}]
    BY <1>0, <2>1
  <2> QED BY <1>0, <2>1, <2>2, <2>3, <2>4 DEF BatchOK, KernelOK
<1>8. CASE Process
  <2>1. /\ done # <<>> /\ item' = Head(done) /\ done' = Tail(done)
        /\ UNCHANGED <<synced, cq, owner, content, timers, arrived, taken>>
    BY <1>8 DEF Process, kernel
  <2>2. Head(done) \in Receives /\ Tail(done) \in Seq(Receives)
    BY <1>0, <2>1, AtHead
  <2> QED BY <1>0, <2>1, <2>2, Kinds DEF BatchOK, KernelOK
<1>9. ASSUME NEW b \in Buffers, RecvCompletes(b) PROVE BatchOK' /\ KernelOK'
  <2>1. /\ taken < arrived /\ taken' = taken + 1
        /\ content' = [content EXCEPT ![b] = taken + 1] /\ owner' = [owner EXCEPT ![b] = "cq"]
        /\ cq' = Append(cq, Completion(b, "data")) /\ UNCHANGED <<synced, done, item, timers, arrived>>
    BY <1>9 DEF RecvCompletes, batch
  <2>2. taken' \in 0 .. arrived' /\ taken + 1 \in 0 .. MaxDatagrams
    BY <1>0, <2>1
  <2>3. Completion(b, "data") \in Completions
    BY Kinds
  <2>4. cq' \in Seq(Completions)
    BY <1>0, <2>1, <2>3
  <2>5. /\ owner' \in [Buffers -> {"app", "kernel", "cq"}] /\ content' \in [Buffers -> 0 .. MaxDatagrams]
    BY <1>0, <2>1, <2>2
  <2> QED BY <1>0, <2>1, <2>2, <2>4, <2>5 DEF BatchOK, KernelOK
<1>10. ASSUME NEW b \in Buffers, RecvFails(b) PROVE BatchOK' /\ KernelOK'
  <2>1. /\ owner' = [owner EXCEPT ![b] = "cq"] /\ cq' = Append(cq, Completion(b, "error"))
        /\ UNCHANGED <<synced, done, item, content, timers, arrived, taken>>
    BY <1>10 DEF RecvFails, batch
  <2>2. Completion(b, "error") \in Completions
    BY Kinds
  <2>3. cq' \in Seq(Completions)
    BY <1>0, <2>1, <2>2
  <2>4. owner' \in [Buffers -> {"app", "kernel", "cq"}]
    BY <1>0, <2>1
  <2> QED BY <1>0, <2>1, <2>3, <2>4 DEF BatchOK, KernelOK
<1>11. CASE TimerFires
  <2>1. /\ timers > 0 /\ timers' = timers - 1 /\ cq' = Append(cq, NoItem)
        /\ UNCHANGED <<synced, done, item, owner, content, arrived, taken>>
    BY <1>11 DEF TimerFires, batch, NoItem
  <2>2. cq' \in Seq(Completions)
    BY <1>0, <2>1, Kinds
  <2>3. timers' \in Nat
    BY <1>0, <2>1
  <2> QED BY <1>0, <2>1, <2>2, <2>3 DEF BatchOK, KernelOK
<1>12. CASE DatagramArrives
  <2>1. /\ arrived' \in 0 .. MaxDatagrams /\ taken' \in 0 .. arrived'
        /\ UNCHANGED <<synced, done, item, cq, owner, content, timers>>
    BY <1>0, <1>12 DEF DatagramArrives, batch
  <2> QED BY <1>0, <2>1 DEF BatchOK, KernelOK
<1> QED BY <1>1, <1>2, <1>4, <1>5, <1>6, <1>7, <1>8, <1>9, <1>10, <1>11, <1>12 DEF Next, App, Environment

(* The counters and the rings.                                             *)
LEMMA CounterTypes == TypeOK /\ Filled /\ [Next]_vars => CountersOK' /\ RingsOK'
<1> SUFFICES ASSUME TypeOK, Filled, [Next]_vars PROVE CountersOK' /\ RingsOK'
  OBVIOUS
<1>0. /\ recv_count \in Nat /\ publish_drops \in Nat /\ bad_packets \in Nat
      /\ order_count \in Nat /\ errors \in Nat
      /\ published \in Seq(1 .. MaxDatagrams) /\ unread \in 0 .. TickRingCap /\ orders \in 0 .. MaxOrders
      /\ MaxOrders \in Nat /\ TickRingCap \in Nat /\ MaxDatagrams \in Nat
  BY FeedAssumption DEF TypeOK, CountersOK, RingsOK
<1>1. CASE \/ Loop \/ Break \/ Submit \/ SubmitInterrupted \/ Wake \/ WaitInterrupted \/ SubmitFails \/ Sync
           \/ Collect \/ CollectEnd \/ Rearm \/ ProcessEnd \/ OrdersEnd \/ TimerFires \/ DatagramArrives
           \/ EndRequested \/ UNCHANGED vars \/ \E b \in Buffers : Arm(b) \/ RecvCompletes(b) \/ RecvFails(b)
  <2>1. UNCHANGED <<recv_count, publish_drops, bad_packets, order_count, errors, published, unread, orders>>
    BY <1>1 DEF Loop, Break, Submit, SubmitInterrupted, Wake, WaitInterrupted, SubmitFails, Sync, Collect,
                CollectEnd, Rearm, ProcessEnd, OrdersEnd, TimerFires, DatagramArrives, EndRequested, vars, Arm,
                RecvCompletes, RecvFails, counters, rings
  <2> QED BY <1>0, <2>1 DEF CountersOK, RingsOK
<1>2. CASE TakeOrder
  <2>1. /\ orders' \in 0 .. MaxOrders /\ order_count' \in Nat
        /\ UNCHANGED <<recv_count, publish_drops, bad_packets, errors, published, unread>>
    BY <1>0, <1>2 DEF TakeOrder
  <2> QED BY <1>0, <2>1 DEF CountersOK, RingsOK
<1>3. CASE EngineConsumes \/ EnginePublishes
  <2>1. /\ orders' \in 0 .. MaxOrders /\ unread' \in 0 .. TickRingCap
        /\ UNCHANGED <<recv_count, publish_drops, bad_packets, order_count, errors, published>>
    BY <1>0, <1>3, SMTT(30) DEF EngineConsumes, EnginePublishes, counters
  <2> QED BY <1>0, <2>1 DEF CountersOK, RingsOK
<1>4. CASE Process
  <2> DEFINE c == Head(done)
  <2>1. done # <<>> /\ Handle(c) /\ UNCHANGED <<order_count, orders>>
    BY <1>4 DEF Process
  <2>2. done \in Seq(Receives) /\ c \in Receives /\ c \in Elems(done)
    BY <2>1, AtHead DEF TypeOK, BatchOK
  <2> HIDE DEF c
  <2>3. recv_count' \in Nat /\ publish_drops' \in Nat /\ bad_packets' \in Nat /\ errors' \in Nat
        /\ unread' \in 0 .. TickRingCap
    BY <1>0, <2>1, SMTT(30) DEF Handle, OneMoreBad
  <2>4. published' = published \/ (c.res = "data" /\ published' = Append(published, content[c.buf]))
    BY <2>1 DEF Handle
  <2>5. c.res = "data" => content[c.buf] \in 1 .. MaxDatagrams
    <3>1. content[c.buf] \in 0 .. MaxDatagrams
      BY <2>2, Kinds DEF TypeOK, KernelOK
    <3> QED BY <2>2, <3>1, <1>0 DEF Filled, Pending
  <2>6. published' \in Seq(1 .. MaxDatagrams)
    BY <1>0, <2>4, <2>5
  <2> QED BY <1>0, <2>1, <2>3, <2>6 DEF CountersOK, RingsOK
<1> QED BY <1>1, <1>2, <1>3, <1>4 DEF Next, App, Environment

-----------------------------------------------------------------------------
(* The loop's control.                                                     *)

(* Completions are kept only between sync() and the last submit_recv.      *)
LEMMA LoopStep == TypeOK /\ LoopInv /\ [Next]_vars => LoopInv'
<1> SUFFICES ASSUME TypeOK, LoopInv, [Next]_vars PROVE LoopInv'
  OBVIOUS
<1>1. CASE \/ Loop \/ Break \/ Submit \/ SubmitInterrupted \/ Wake \/ WaitInterrupted \/ SubmitFails
           \/ CollectEnd \/ ProcessEnd \/ TakeOrder \/ OrdersEnd \/ Environment \/ UNCHANGED vars
           \/ \E b \in Buffers : Arm(b)
  <2>1. UNCHANGED <<synced, done, item>>
    BY <1>1 DEF Loop, Break, Submit, SubmitInterrupted, Wake, WaitInterrupted, SubmitFails, CollectEnd,
                ProcessEnd, TakeOrder, OrdersEnd, Environment, RecvCompletes, RecvFails, TimerFires,
                DatagramArrives, EngineConsumes, EnginePublishes, EndRequested, Arm, vars, batch
  <2>2. \/ pc' = pc
        \/ pc \in {"arm", "submit", "rearm"} /\ pc' = "failed"
        \/ synced = <<>> /\ pc = "collect" /\ pc' = "process"
        \/ done = <<>> /\ pc = "process" /\ pc' = "orders"
        \/ pc \in {"arm", "top", "submit", "wait", "orders"} /\ pc' \in {"top", "submit", "wait", "reap", "finished"}
    BY <1>1 DEF Loop, Break, Submit, SubmitInterrupted, Wake, WaitInterrupted, SubmitFails, CollectEnd,
                ProcessEnd, TakeOrder, OrdersEnd, Environment, RecvCompletes, RecvFails, TimerFires,
                DatagramArrives, EngineConsumes, EnginePublishes, EndRequested, Arm, vars
  <2> QED BY <2>1, <2>2 DEF LoopInv
<1>2. CASE Sync \/ Collect
  <2>1. pc \in {"reap", "collect"} /\ pc' = "collect" /\ item' = item
    BY <1>2 DEF Sync, Collect
  <2> QED BY <2>1 DEF LoopInv
<1>3. CASE Process
  <2>1. /\ done # <<>> /\ item' = Head(done) /\ pc = "process" /\ pc' = "rearm" /\ synced' = synced
    BY <1>3 DEF Process
  <2>2. Head(done) \in Receives
    BY <2>1, AtHead DEF TypeOK, BatchOK
  <2> QED BY <2>1, <2>2 DEF LoopInv
<1>4. CASE Rearm
  <2>1. /\ pc = "rearm" /\ pc' = "process" /\ item' = NoItem /\ UNCHANGED <<synced, done>>
    BY <1>4 DEF Rearm
  <2> QED BY <2>1 DEF LoopInv
<1> QED BY <1>1, <1>2, <1>3, <1>4 DEF Next, App

(* The steps that leave the completions, the buffers and what the report   *)
(* will say alone.  None of them leaves the loop that arms the buffers.    *)
Idle ==
  /\ pc \in {"arm", "failed"} => pc' \in {"arm", "failed"}
  /\ UNCHANGED <<synced, done, item, cq, owner, content, taken>>
  /\ UNCHANGED <<published, recv_count, publish_drops, bad_packets>>

(* Every other step is one of seven.                                       *)
LEMMA IdleSteps ==
  [Next]_vars => \/ Idle
                 \/ Sync \/ Collect \/ Process \/ Rearm \/ TimerFires
                 \/ \E b \in Buffers : Arm(b) \/ RecvCompletes(b) \/ RecvFails(b)
<1>1. ASSUME \/ Loop \/ Break \/ Submit \/ SubmitInterrupted \/ Wake \/ WaitInterrupted \/ SubmitFails
             \/ CollectEnd \/ ProcessEnd \/ TakeOrder \/ OrdersEnd \/ DatagramArrives \/ EngineConsumes
             \/ EnginePublishes \/ EndRequested \/ UNCHANGED vars
      PROVE  Idle
  BY <1>1 DEF Loop, Break, Submit, SubmitInterrupted, Wake, WaitInterrupted, SubmitFails, CollectEnd,
              ProcessEnd, TakeOrder, OrdersEnd, DatagramArrives, EngineConsumes, EnginePublishes, EndRequested,
              vars, batch, kernel, counters, rings, Idle
<1> QED BY <1>1 DEF Next, App, Environment

(* What a step does to the completions that are pending.                   *)
LEMMA PendingStep ==
  TypeOK /\ LoopInv /\ [Next]_vars =>
    \/ Pending' \subseteq Pending /\ UNCHANGED <<content, taken>>
    \/ \E c \in Completions :
         c.res # "data" /\ Pending' = Pending \cup {c} /\ UNCHANGED <<content, taken>>
    \/ \E b \in Buffers : RecvCompletes(b) /\ Pending' = Pending \cup {Completion(b, "data")}
<1> SUFFICES ASSUME TypeOK, LoopInv, [Next]_vars
             PROVE  \/ Pending' \subseteq Pending /\ UNCHANGED <<content, taken>>
                    \/ \E c \in Completions :
                         c.res # "data" /\ Pending' = Pending \cup {c} /\ UNCHANGED <<content, taken>>
                    \/ \E b \in Buffers : RecvCompletes(b) /\ Pending' = Pending \cup {Completion(b, "data")}
  OBVIOUS
<1>0. synced \in Seq(Completions) /\ done \in Seq(Receives) /\ cq \in Seq(Completions)
  BY DEF TypeOK, BatchOK, KernelOK
<1>1. CASE Idle \/ Rearm \/ \E b \in Buffers : Arm(b)
  <2>1. UNCHANGED <<synced, done, cq, content, taken>>
    BY <1>1 DEF Idle, Rearm, Arm, SubmitRecv, batch
  <2> QED BY <2>1 DEF Pending
<1>2. CASE Sync
  <2>1. synced' = cq /\ cq' = <<>> /\ UNCHANGED <<done, content, taken>>
    BY <1>2 DEF Sync
  <2> QED BY <2>1, Empty DEF Pending
<1>3. CASE Collect
  <2> DEFINE c == Head(synced)
  <2>1. /\ synced # <<>> /\ synced' = Tail(synced) /\ UNCHANGED <<content, cq, taken>>
        /\ done' = done \/ (c.buf # NoBuffer /\ done' = Append(done, c))
    BY <1>3 DEF Collect
  <2>2. c \in Completions /\ Elems(synced) = Elems(synced') \cup {c}
    BY <1>0, <2>1, AtHead
  <2> HIDE DEF c
  <2>3. Elems(done') \subseteq Elems(done) \cup {c}
    <3>1. c.buf # NoBuffer => Elems(Append(done, c)) = Elems(done) \cup {c}
      BY <1>0, <2>2, AtEnd, Kinds
    <3> QED BY <2>1, <3>1
  <2> QED BY <2>1, <2>2, <2>3 DEF Pending
<1>4. CASE Process
  <2>1. done # <<>> /\ done' = Tail(done) /\ UNCHANGED <<synced, cq, content, taken>>
    BY <1>4 DEF Process, kernel
  <2>2. Elems(done) = Elems(done') \cup {Head(done)}
    BY <1>0, <2>1, AtHead
  <2> QED BY <2>1, <2>2 DEF Pending
<1>5. ASSUME NEW c \in Completions, cq' = Append(cq, c), UNCHANGED <<synced, done>>
      PROVE  Pending' = Pending \cup {c}
  <2>1. Elems(Append(cq, c)) = Elems(cq) \cup {c}
    BY <1>0, AtEnd
  <2> QED BY <1>5, <2>1 DEF Pending
<1>6. ASSUME NEW b \in Buffers, RecvCompletes(b) PROVE Pending' = Pending \cup {Completion(b, "data")}
  BY <1>5, <1>6, Kinds DEF RecvCompletes, batch
<1>7. ASSUME NEW b \in Buffers, RecvFails(b)
      PROVE  Pending' = Pending \cup {Completion(b, "error")} /\ UNCHANGED <<content, taken>>
  BY <1>5, <1>7, Kinds DEF RecvFails, batch
<1>8. CASE TimerFires
  <2>1. cq' = Append(cq, NoItem) /\ UNCHANGED <<synced, done, content, taken>>
    BY <1>8 DEF TimerFires, batch, NoItem
  <2>2. Pending' = Pending \cup {NoItem}
    BY <1>5, <2>1, Kinds
  <2> QED BY <2>1, <2>2, Kinds
<1> QED BY <1>1, <1>2, <1>3, <1>4, <1>6, <1>7, <1>8, IdleSteps, Kinds

(* A completion with data was given a datagram.                            *)
LEMMA FilledStep == TypeOK /\ LoopInv /\ Filled /\ [Next]_vars => Filled'
<1> SUFFICES ASSUME TypeOK, LoopInv, Filled, [Next]_vars PROVE Filled'
  OBVIOUS
<1>1. CASE Pending' \subseteq Pending /\ UNCHANGED <<content, taken>>
  BY <1>1 DEF Filled
<1>2. ASSUME NEW c \in Completions, c.res # "data", Pending' = Pending \cup {c}, UNCHANGED <<content, taken>>
      PROVE  Filled'
  BY <1>2 DEF Filled
<1>3. ASSUME NEW b \in Buffers, RecvCompletes(b), Pending' = Pending \cup {Completion(b, "data")}
      PROVE  Filled'
  <2>1. content \in [Buffers -> 0 .. MaxDatagrams] /\ taken \in Nat /\ MaxDatagrams \in Nat
    BY FeedAssumption DEF TypeOK, KernelOK
  <2>2. content' = [content EXCEPT ![b] = taken + 1]
    BY <1>3 DEF RecvCompletes
  <2>3. \A a \in Buffers : content[a] >= 1 \/ a = b => content'[a] >= 1
    BY <2>1, <2>2
  <2>4. Pending \subseteq Completions
    BY ElemsIn, Kinds DEF Pending, TypeOK, BatchOK, KernelOK
  <2> SUFFICES ASSUME NEW c \in Pending \cup {Completion(b, "data")}, c.res = "data" PROVE content'[c.buf] >= 1
    BY <1>3 DEF Filled
  <2>5. c.buf \in Buffers
    BY <2>4, Kinds
  <2> QED BY <2>3, <2>5, Kinds DEF Filled
<1> QED BY <1>1, <1>2, <1>3, PendingStep

(* Every variable keeps its type; the buffers that are parsed are filled.  *)
THEOREM TypeCorrect == Spec => [](TypeOK /\ LoopInv /\ Filled)
<1>1. Init => TypeOK /\ LoopInv /\ Filled
  <2> SUFFICES ASSUME Init PROVE TypeOK /\ LoopInv /\ Filled
    OBVIOUS
  <2>0. stop \in BOOLEAN /\ late \in BOOLEAN
    BY Zenon DEF Init
  <2>1. LoopOK /\ CountersOK
    <3>1. pc = "arm" /\ queued \in 0 .. RingDepth /\ CountersOK
      BY FeedAssumption DEF Init, CountersOK
    <3> QED BY <2>0, <3>1 DEF LoopOK
  <2>2. BatchOK /\ KernelOK /\ RingsOK
    BY FeedAssumption, Kinds, Empty DEF Init, BatchOK, KernelOK, RingsOK
  <2>3. Pending = {}
    BY Empty DEF Init, Pending
  <2> QED BY <2>1, <2>2, <2>3, Kinds DEF Init, TypeOK, LoopInv, Filled
<1>2. TypeOK /\ LoopInv /\ Filled /\ [Next]_vars => (TypeOK /\ LoopInv /\ Filled)'
  BY LoopTypes, BufferTypes, CounterTypes, LoopStep, FilledStep DEF TypeOK
<1> QED BY <1>1, <1>2, PTL DEF Spec

-----------------------------------------------------------------------------
(* Buffers.                                                                *)

(* A buffer whose completion is pending is not the kernel's, and the item  *)
(* in hand is of none of them.                                             *)
LEMMA NotArmed ==
  ASSUME TypeOK, OwnerInv, NEW b \in Buffers, owner[b] = "kernel"
  PROVE  \A c \in Pending \cup {item} : c # NoItem => c.buf # b
BY DEF Pending, OwnerInv

(* A buffer changes hands when its receive completes, when the completion  *)
(* is collected and when it is submitted again.                            *)
LEMMA OwnerStep == TypeOK /\ LoopInv /\ OwnerInv /\ QueueInv /\ [Next]_vars => OwnerInv'
<1> SUFFICES ASSUME TypeOK, LoopInv, OwnerInv, QueueInv, [Next]_vars PROVE OwnerInv'
  OBVIOUS
<1>0. /\ synced \in Seq(Completions) /\ done \in Seq(Receives) /\ cq \in Seq(Completions)
      /\ item \in Completions /\ owner \in [Buffers -> {"app", "kernel", "cq"}]
  BY DEF TypeOK, BatchOK, KernelOK
<1>a. /\ Elems(cq) \subseteq Completions /\ Elems(synced) \subseteq Completions
      /\ Elems(done) \subseteq Receives
  BY <1>0, ElemsIn
<1>b. \A c \in Completions : c # NoItem => c.buf \in Buffers
  BY Kinds DEF Completions
<1>1. CASE Idle
  <2>1. UNCHANGED <<synced, done, item, cq, owner>> /\ (pc \in {"arm", "failed"} => pc' \in {"arm", "failed"})
    BY <1>1 DEF Idle
  <2> QED BY <2>1 DEF OwnerInv
<1>2. ASSUME NEW b \in Buffers, Arm(b) PROVE OwnerInv'
  <2>1. /\ pc = "arm" /\ owner[b] = "app" /\ owner' = [owner EXCEPT ![b] = "kernel"]
        /\ pc' = IF \A c \in Buffers \ {b} : owner[c] # "app" THEN "top" ELSE "arm"
        /\ UNCHANGED <<synced, done, item, cq>>
    BY <1>2 DEF Arm, SubmitRecv, batch
  <2>2. owner'[b] = "kernel" /\ \A a \in Buffers : a # b => owner'[a] = owner[a]
    BY <1>0, <2>1
  <2>3. done = <<>> /\ item = NoItem
    BY <2>1 DEF LoopInv
  <2>4. ASSUME NEW c \in Elems(cq) \cup Elems(synced), c # NoItem PROVE owner'[c.buf] = "cq"
    <3>1. owner[c.buf] = "cq" /\ c.buf \in Buffers
      BY <1>a, <1>b, <2>4 DEF OwnerInv
    <3> QED BY <2>1, <2>2, <3>1
  <2>5. ASSUME NEW a \in Buffers, owner'[a] = "app" PROVE pc' = "arm"
    BY <2>1, <2>2, <2>5
  <2> QED BY <2>1, <2>3, <2>4, <2>5, Empty DEF OwnerInv
<1>3. CASE Rearm
  <2> DEFINE b == item.buf
  <2>1. /\ pc = "rearm" /\ owner' = [owner EXCEPT ![b] = "kernel"]
        /\ item' = NoItem /\ UNCHANGED <<synced, done, cq>>
    BY <1>3 DEF Rearm, SubmitRecv
  <2>2. item \in Receives /\ item # NoItem /\ b \in Buffers
    BY <2>1, Kinds DEF LoopInv
  <2>3. owner[b] = "app" /\ \A c \in Elems(done) : c.buf # b
    BY <2>2 DEF OwnerInv, QueueInv
  <2> HIDE DEF b
  <2>4. owner'[b] = "kernel" /\ \A a \in Buffers : a # b => owner'[a] = owner[a]
    BY <1>0, <2>1, <2>2
  <2>5. ASSUME NEW c \in Elems(cq) \cup Elems(synced), c # NoItem PROVE owner'[c.buf] = "cq"
    <3>1. owner[c.buf] = "cq" /\ c.buf \in Buffers
      BY <1>a, <1>b, <2>5 DEF OwnerInv
    <3> QED BY <2>3, <2>4, <3>1
  <2>6. ASSUME NEW c \in Elems(done) PROVE owner'[c.buf] = "app"
    <3>1. owner[c.buf] = "app" /\ c.buf \in Buffers
      BY <1>a, Kinds DEF OwnerInv
    <3> QED BY <2>3, <2>4, <3>1
  <2>7. ASSUME NEW a \in Buffers, owner'[a] = "app" PROVE \E c \in Elems(done) : c.buf = a
    <3>1. a # b /\ owner[a] = "app"
      BY <2>4, <2>7
    <3>2. PICK c \in Elems(done) \cup {item} : c.buf = a
      BY <2>1, <3>1 DEF OwnerInv
    <3> QED BY <3>1, <3>2 DEF b
  <2> QED BY <2>1, <2>5, <2>6, <2>7 DEF OwnerInv
<1>4. CASE Sync
  <2>1. /\ synced' = cq /\ cq' = <<>> /\ pc = "reap" /\ UNCHANGED <<done, item, owner>>
    BY <1>4 DEF Sync
  <2>2. Elems(cq') = {}
    BY <2>1, Empty
  <2> QED BY <2>1, <2>2 DEF OwnerInv
<1>5. CASE Collect
  <2> DEFINE c == Head(synced)
  <2>1. /\ pc = "collect" /\ pc' = pc /\ synced # <<>> /\ synced' = Tail(synced) /\ UNCHANGED <<item, cq>>
        /\ \/ c.buf = NoBuffer /\ done' = done /\ owner' = owner
           \/ c.buf # NoBuffer /\ done' = Append(done, c) /\ owner' = [owner EXCEPT ![c.buf] = "app"]
    BY <1>5 DEF Collect, Reaped
  <2>2. /\ c \in Completions /\ Elems(synced) = Elems(synced') \cup {c}
        /\ \A y \in Elems(synced') : <<c, y>> \in Later
    BY <1>0, <2>1, AtHead DEF QueueInv
  <2>3. item = NoItem
    BY <2>1 DEF LoopInv
  <2>4. \A y \in Elems(cq) : <<c, y>> \in Later
    BY <2>2 DEF QueueInv, Ahead
  <2> HIDE DEF c
  <2>5. CASE c.buf = NoBuffer
    BY <2>1, <2>2, <2>5 DEF OwnerInv
  <2>6. CASE c.buf # NoBuffer
    <3>1. c \in Receives /\ c # NoItem /\ c.buf \in Buffers
      BY <2>2, <2>6, Kinds
    <3>2. owner'[c.buf] = "app" /\ \A a \in Buffers : a # c.buf => owner'[a] = owner[a]
      BY <1>0, <2>1, <2>6, <3>1
    <3>3. Elems(done') = Elems(done) \cup {c}
      <4>1. Elems(Append(done, c)) = Elems(done) \cup {c}
        BY <1>0, <3>1, AtEnd
      <4> QED BY <2>1, <2>6, <4>1
    <3>4. ASSUME NEW y \in Elems(cq) \cup Elems(synced'), y # NoItem PROVE owner'[y.buf] = "cq"
      <4>1. y.buf # c.buf
        BY <2>2, <2>4, <3>1, <3>4 DEF Later
      <4>2. owner[y.buf] = "cq" /\ y.buf \in Buffers
        BY <1>a, <1>b, <2>2, <3>4 DEF OwnerInv
      <4> QED BY <3>2, <4>1, <4>2
    <3>5. ASSUME NEW y \in Elems(done) \cup {c} PROVE owner'[y.buf] = "app"
      BY <1>a, <3>1, <3>2, Kinds DEF OwnerInv
    <3>6. ASSUME NEW a \in Buffers, owner'[a] = "app"
          PROVE  \E y \in Elems(done) \cup {c} : y.buf = a
      <4>1. a = c.buf \/ owner[a] = "app"
        BY <3>2, <3>6
      <4>2. NoItem.buf # a
        BY Kinds, FeedAssumption
      <4> QED BY <2>1, <2>3, <4>1, <4>2 DEF OwnerInv
    <3> QED BY <2>1, <2>3, <3>3, <3>4, <3>5, <3>6 DEF OwnerInv
  <2> QED BY <2>5, <2>6
<1>6. CASE Process
  <2>1. /\ pc = "process" /\ done # <<>> /\ item' = Head(done) /\ done' = Tail(done)
        /\ UNCHANGED <<synced, cq, owner>>
    BY <1>6 DEF Process, kernel
  <2>2. Elems(done) = Elems(done') \cup {item'}
    BY <1>0, <2>1, AtHead
  <2>3. item = NoItem
    BY <2>1 DEF LoopInv
  <2>4. \A a \in Buffers : NoItem.buf # a
    BY Kinds, FeedAssumption
  <2> QED BY <2>1, <2>2, <2>3, <2>4 DEF OwnerInv
<1>7. ASSUME NEW b \in Buffers, NEW x \in Receives, x.buf = b, owner[b] = "kernel",
             owner' = [owner EXCEPT ![b] = "cq"], cq' = Append(cq, x), UNCHANGED <<pc, synced, done, item>>
      PROVE  OwnerInv'
  <2>1. Elems(cq') = Elems(cq) \cup {x}
    BY <1>0, <1>7, AtEnd, Kinds
  <2>2. owner'[b] = "cq" /\ \A a \in Buffers : a # b => owner'[a] = owner[a]
    BY <1>0, <1>7
  <2>3. ASSUME NEW c \in Elems(cq) \cup {x} \cup Elems(synced), c # NoItem PROVE owner'[c.buf] = "cq"
    BY <1>7, <1>a, <1>b, <2>2, <2>3 DEF OwnerInv
  <2>4. ASSUME NEW c \in Elems(done) \cup {item}, c # NoItem PROVE owner'[c.buf] = "app"
    <3>1. owner[c.buf] = "app" /\ c.buf \in Buffers
      BY <1>0, <1>a, <1>b, <2>4, Kinds DEF OwnerInv
    <3> QED BY <1>7, <2>2, <3>1
  <2>5. ASSUME NEW a \in Buffers, owner'[a] = "app" PROVE owner[a] = "app"
    BY <2>2, <2>5
  <2> QED BY <1>7, <2>1, <2>3, <2>4, <2>5 DEF OwnerInv
<1>8. ASSUME NEW b \in Buffers, RecvCompletes(b) \/ RecvFails(b) PROVE OwnerInv'
  BY <1>7, <1>8, Kinds DEF RecvCompletes, RecvFails, batch
<1>9. CASE TimerFires
  <2>1. cq' = Append(cq, NoItem) /\ UNCHANGED <<pc, synced, done, item, owner>>
    BY <1>9 DEF TimerFires, batch, NoItem
  <2>2. Elems(cq') = Elems(cq) \cup {NoItem}
    BY <1>0, <2>1, AtEnd, Kinds
  <2> QED BY <2>1, <2>2 DEF OwnerInv
<1> QED BY <1>1, <1>2, <1>3, <1>4, <1>5, <1>6, <1>8, <1>9, IdleSteps

(* Receives complete in the order of arrival, and the queues keep it.      *)
LEMMA QueueStep == TypeOK /\ LoopInv /\ OwnerInv /\ QueueInv /\ [Next]_vars => QueueInv'
<1> SUFFICES ASSUME TypeOK, LoopInv, OwnerInv, QueueInv, [Next]_vars PROVE QueueInv'
  OBVIOUS
<1>0. /\ synced \in Seq(Completions) /\ done \in Seq(Receives) /\ cq \in Seq(Completions)
      /\ item \in Completions
      /\ content \in [Buffers -> 0 .. MaxDatagrams] /\ taken \in Nat /\ MaxDatagrams \in Nat
  BY FeedAssumption DEF TypeOK, BatchOK, KernelOK
<1>a. Pending \subseteq Completions
  BY <1>0, ElemsIn, Kinds DEF Pending
<1>b. \A c \in Completions : c # NoItem => c.buf \in Buffers
  BY Kinds DEF Completions
<1>1. CASE Idle \/ Rearm \/ \E b \in Buffers : Arm(b)
  <2>1. UNCHANGED <<synced, done, cq, content, taken>> /\ (item' = item \/ item' = NoItem)
    BY <1>1 DEF Idle, Rearm, Arm, SubmitRecv, batch
  <2>2. Later' = Later
    BY <2>1 DEF Later
  <2> QED BY <2>1, <2>2 DEF QueueInv, Ahead
<1>2. CASE Sync
  <2>1. pc = "reap" /\ synced' = cq /\ cq' = <<>> /\ UNCHANGED <<done, item, content, taken>>
    BY <1>2 DEF Sync
  <2>2. Later' = Later
    BY <2>1 DEF Later
  <2>3. done = <<>> /\ item = NoItem
    BY <2>1 DEF LoopInv
  <2> QED BY <2>1, <2>2, <2>3, Empty DEF QueueInv, Ahead
<1>3. CASE Collect
  <2> DEFINE c == Head(synced)
  <2>1. /\ pc = "collect" /\ synced # <<>> /\ synced' = Tail(synced) /\ UNCHANGED <<item, content, cq, taken>>
        /\ done' = done \/ (c.buf # NoBuffer /\ done' = Append(done, c))
    BY <1>3 DEF Collect
  <2>2. /\ c \in Completions /\ Elems(synced) = Elems(synced') \cup {c} /\ Chain(Later, synced')
        /\ \A y \in Elems(synced') : <<c, y>> \in Later
    BY <1>0, <2>1, AtHead DEF QueueInv
  <2>3. item = NoItem
    BY <2>1 DEF LoopInv
  <2>4. Later' = Later
    BY <2>1 DEF Later
  <2> HIDE DEF c
  <2>5. CASE done' = done
    BY <2>1, <2>2, <2>3, <2>4, <2>5 DEF QueueInv, Ahead
  <2>6. CASE c.buf # NoBuffer /\ done' = Append(done, c)
    <3>1. c \in Receives
      BY <2>2, <2>6, Kinds
    <3>2. \A y \in Elems(done) : <<y, c>> \in Later
      BY <2>2 DEF QueueInv, Ahead
    <3>3. Elems(Append(done, c)) = Elems(done) \cup {c} /\ Chain(Later, Append(done, c))
      BY <1>0, <3>1, <3>2, AtEnd DEF QueueInv
    <3>4. Chain(Later, done') /\ Ahead(Elems(done'), Elems(cq)) /\ Ahead(Elems(done'), Elems(synced'))
      BY <2>2, <2>6, <3>3 DEF QueueInv, Ahead
    <3>5. Ahead(Elems(synced'), Elems(cq))
      BY <2>2 DEF QueueInv, Ahead
    <3> QED BY <2>1, <2>2, <2>3, <2>4, <3>4, <3>5 DEF QueueInv, Ahead
  <2> QED BY <2>1, <2>5, <2>6
<1>4. CASE Process
  <2>1. done # <<>> /\ item' = Head(done) /\ done' = Tail(done) /\ UNCHANGED <<synced, cq, content, taken>>
    BY <1>4 DEF Process, kernel
  <2>2. /\ item' \in Receives /\ Elems(done) = Elems(done') \cup {item'} /\ Chain(Later, done')
        /\ \A y \in Elems(done') : <<item', y>> \in Later
    BY <1>0, <2>1, AtHead DEF QueueInv
  <2>3. \A y \in Elems(done') : y.buf # item'.buf
    <3>1. \A y \in Elems(done') : y \in Receives
      BY <1>0, <2>2, ElemsIn
    <3> QED BY <2>2, <3>1, Kinds DEF Later
  <2>4. Later' = Later
    BY <2>1 DEF Later
  <2> QED BY <2>1, <2>2, <2>3, <2>4 DEF QueueInv, Ahead
<1>5. ASSUME NEW x \in Completions, cq' = Append(cq, x), UNCHANGED <<synced, done, item>>,
             \A a, c \in Pending : <<a, c>> \in Later => <<a, c>> \in Later',
             \A a \in Pending : <<a, x>> \in Later',
             \A b \in Buffers : content'[b] <= taken'
      PROVE  QueueInv'
  <2>1. ASSUME NEW q, Elems(q) \subseteq Pending, Chain(Later, q) PROVE Chain(Later', q)
    BY <1>5, <2>1 DEF Chain, Elems
  <2>2. Chain(Later', cq) /\ Chain(Later', synced) /\ Chain(Later', done)
    BY <2>1 DEF Pending, QueueInv
  <2>3. \A a \in Elems(cq) : <<a, x>> \in Later'
    BY <1>5 DEF Pending
  <2>4. Elems(Append(cq, x)) = Elems(cq) \cup {x} /\ Chain(Later', Append(cq, x))
    BY <1>0, <2>2, <2>3, AtEnd
  <2>5. \A a \in Elems(synced) \cup Elems(done), c \in Elems(cq) \cup {x} : <<a, c>> \in Later'
    BY <1>5 DEF Pending, QueueInv, Ahead
  <2>6. \A a \in Elems(done), c \in Elems(synced) : <<a, c>> \in Later'
    BY <1>5 DEF Pending, QueueInv, Ahead
  <2> QED BY <1>5, <2>2, <2>4, <2>5, <2>6 DEF QueueInv, Ahead
<1>6. ASSUME NEW b \in Buffers, RecvCompletes(b) PROVE QueueInv'
  <2> DEFINE x == Completion(b, "data")
  <2>1. /\ owner[b] = "kernel" /\ taken' = taken + 1 /\ content' = [content EXCEPT ![b] = taken + 1]
        /\ cq' = Append(cq, x) /\ UNCHANGED <<synced, done, item>>
    BY <1>6 DEF RecvCompletes, batch
  <2>2. x \in Receives /\ x.buf = b
    BY Kinds
  <2> HIDE DEF x
  <2>3. /\ content'[b] = taken + 1 /\ \A a \in Buffers : a # b => content'[a] = content[a]
        /\ \A a \in Buffers : content[a] \in Nat /\ content[a] <= taken
    BY <1>0, <2>1 DEF QueueInv
  <2>4. \A c \in Pending : c # NoItem => c.buf # b /\ c.buf \in Buffers
    BY <1>a, <1>b, <2>1, NotArmed
  <2>5. ASSUME NEW a \in Pending, NEW c \in Pending, <<a, c>> \in Later PROVE <<a, c>> \in Later'
    BY <2>3, <2>4, <2>5 DEF Later
  <2>6. ASSUME NEW a \in Pending PROVE <<a, x>> \in Later'
    <3>1. a \in Completions /\ x \in Completions
      BY <1>a, <2>2, Kinds
    <3>2. a # NoItem => a.buf # x.buf /\ content'[a.buf] < content'[x.buf]
      <4>1. ASSUME NEW n \in Nat, n <= taken PROVE n < taken + 1
        BY <1>0, <4>1
      <4> QED BY <2>2, <2>3, <2>4, <4>1
    <3> QED BY <3>1, <3>2 DEF Later
  <2>7. \A a \in Buffers : content'[a] <= taken'
    BY <1>0, <2>1, <2>3
  <2> QED BY <1>5, <2>1, <2>2, <2>5, <2>6, <2>7, Kinds
<1>7. ASSUME NEW b \in Buffers, RecvFails(b) PROVE QueueInv'
  <2> DEFINE x == Completion(b, "error")
  <2>1. /\ owner[b] = "kernel" /\ UNCHANGED <<content, taken>>
        /\ cq' = Append(cq, x) /\ UNCHANGED <<synced, done, item>>
    BY <1>7 DEF RecvFails, batch
  <2>2. x \in Receives /\ x.buf = b /\ x.res = "error"
    BY Kinds
  <2> HIDE DEF x
  <2>3. Later' = Later
    BY <2>1 DEF Later
  <2>4. ASSUME NEW a \in Pending PROVE <<a, x>> \in Later
    <3>1. a \in Completions /\ x \in Completions /\ (a # NoItem => a.buf # x.buf)
      BY <1>a, <2>1, <2>2, NotArmed, Kinds
    <3> QED BY <2>2, <3>1 DEF Later
  <2> QED BY <1>5, <2>1, <2>2, <2>3, <2>4, Kinds DEF QueueInv
<1>8. CASE TimerFires
  <2>1. cq' = Append(cq, NoItem) /\ UNCHANGED <<synced, done, item, content, taken>>
    BY <1>8 DEF TimerFires, batch, NoItem
  <2>2. Later' = Later
    BY <2>1 DEF Later
  <2>3. \A a \in Pending : <<a, NoItem>> \in Later
    BY <1>a, Kinds DEF Later
  <2> QED BY <1>5, <2>1, <2>2, <2>3, Kinds DEF QueueInv
<1> QED BY <1>1, <1>2, <1>3, <1>4, <1>6, <1>7, <1>8, IdleSteps

(* The loop, the kernel and the queues agree on every buffer.              *)
THEOREM BufferInvariant == Spec => [](OwnerInv /\ QueueInv)
<1>1. Init => OwnerInv /\ QueueInv
  <2> SUFFICES ASSUME Init PROVE OwnerInv /\ QueueInv
    OBVIOUS
  <2>1. /\ cq = <<>> /\ synced = <<>> /\ done = <<>> /\ item = NoItem /\ pc = "arm"
        /\ \A b \in Buffers : content[b] <= taken
    BY DEF Init
  <2> QED BY <2>1, Empty DEF OwnerInv, QueueInv, Ahead
<1> QED BY <1>1, OwnerStep, QueueStep, TypeCorrect, PTL DEF Spec

(* No path through the loop leaks a buffer (main.rs:239, 262): whenever    *)
(* the loop is about to wait, all of them are armed or completed.          *)
THEOREM NoBufferIsLeaked == Spec => []EveryBufferArmed
<1>1. TypeOK /\ LoopInv /\ OwnerInv => EveryBufferArmed
  <2> SUFFICES ASSUME TypeOK, LoopInv, OwnerInv, pc \in {"top", "submit", "wait"}, NEW b \in Buffers
               PROVE  owner[b] \in {"kernel", "cq"}
    BY DEF EveryBufferArmed
  <2>1. done = <<>> /\ item = NoItem
    BY DEF LoopInv
  <2>2. owner[b] # "app"
    <3>1. NoItem.buf # b
      BY Kinds, FeedAssumption
    <3> QED BY <2>1, <3>1, Empty DEF OwnerInv
  <2> QED BY <2>2 DEF TypeOK, KernelOK
<1> QED BY <1>1, TypeCorrect, BufferInvariant, PTL

-----------------------------------------------------------------------------
(* Publishing.                                                             *)

(* What handling a completion does to the ticks ring and to the report.    *)
LEMMA Handled ==
  ASSUME TypeOK, Process
  PROVE  /\ done # <<>> /\ done \in Seq(Receives) /\ done' = Tail(done)
         /\ Head(done) \in Receives /\ Head(done) \in Elems(done)
         /\ Elems(done) = Elems(done') \cup {Head(done)}
         /\ UNCHANGED <<synced, cq, content, taken>>
         /\ \/ published' = published
            \/ Head(done).res = "data" /\ published' = Append(published, content[Head(done).buf])
         /\ \/ /\ Head(done).res = "error"
               /\ UNCHANGED <<recv_count, publish_drops, bad_packets>>
            \/ /\ Head(done).res = "data"
               /\ \/ bad_packets' = bad_packets + 1 /\ UNCHANGED <<recv_count, publish_drops>>
                  \/ recv_count' = recv_count + 1 /\ UNCHANGED <<publish_drops, bad_packets>>
                  \/ publish_drops' = publish_drops + 1 /\ UNCHANGED <<recv_count, bad_packets>>
<1>1. /\ done # <<>> /\ done \in Seq(Receives) /\ done' = Tail(done) /\ Handle(Head(done))
      /\ UNCHANGED <<synced, cq, content, taken>>
  BY DEF Process, kernel, TypeOK, BatchOK
<1>2. Head(done) \in Receives /\ Elems(done) = Elems(done') \cup {Head(done)}
  BY <1>1, AtHead
<1>3. /\ \/ published' = published
         \/ Head(done).res = "data" /\ published' = Append(published, content[Head(done).buf])
      /\ \/ /\ Head(done).res = "error"
            /\ UNCHANGED <<recv_count, publish_drops, bad_packets>>
         \/ /\ Head(done).res = "data"
            /\ \/ bad_packets' = bad_packets + 1 /\ UNCHANGED <<recv_count, publish_drops>>
               \/ recv_count' = recv_count + 1 /\ UNCHANGED <<publish_drops, bad_packets>>
               \/ publish_drops' = publish_drops + 1 /\ UNCHANGED <<recv_count, bad_packets>>
  BY <1>1 DEF Handle, OneMoreBad
<1> QED BY <1>1, <1>2, <1>3

(* No other step publishes or counts.                                      *)
LEMMA OnlyProcessPublishes ==
  [Next]_vars => Process \/ UNCHANGED <<published, recv_count, publish_drops, bad_packets>>
<1>1. ASSUME \/ Sync \/ Collect \/ Rearm \/ TimerFires
             \/ \E b \in Buffers : Arm(b) \/ RecvCompletes(b) \/ RecvFails(b)
      PROVE  UNCHANGED <<published, recv_count, publish_drops, bad_packets>>
  BY <1>1 DEF Sync, Collect, Rearm, TimerFires, Arm, RecvCompletes, RecvFails, counters, rings
<1> QED BY <1>1, IdleSteps DEF Idle

(* What is published came before what is pending.                          *)
LEMMA PublishStep ==
  TypeOK /\ LoopInv /\ QueueInv /\ OwnerInv /\ PublishInv /\ [Next]_vars => PublishInv'
<1> SUFFICES ASSUME TypeOK, LoopInv, QueueInv, OwnerInv, PublishInv, [Next]_vars PROVE PublishInv'
  OBVIOUS
<1>0. /\ content \in [Buffers -> 0 .. MaxDatagrams] /\ taken \in Nat /\ MaxDatagrams \in Nat
      /\ published \in Seq(1 .. MaxDatagrams)
  BY FeedAssumption DEF TypeOK, KernelOK, RingsOK
<1>a. Pending \subseteq Completions
  BY ElemsIn, Kinds DEF Pending, TypeOK, BatchOK, KernelOK
<1>b. \A n \in Elems(published) : n \in Nat
  BY <1>0, ElemsIn
<1>1. ASSUME Process, published' # published PROVE PublishInv'
  <2> DEFINE h == Head(done)
             n == content[h.buf]
  <2>1. /\ h \in Receives /\ h \in Elems(done) /\ Elems(done) = Elems(done') \cup {h} /\ h.res = "data"
        /\ published' = Append(published, n) /\ UNCHANGED <<synced, cq, content, taken>>
        /\ done # <<>> /\ done \in Seq(Receives) /\ done' = Tail(done)
    BY <1>1, Handled
  <2>2. \A y \in Elems(done') : <<h, y>> \in Later
    BY <2>1, AtHead DEF QueueInv
  <2>3. \A y \in Elems(cq) \cup Elems(synced) : <<h, y>> \in Later
    BY <2>1 DEF QueueInv, Ahead
  <2> HIDE DEF h
  <2>4. n \in Nat /\ n <= taken
    BY <1>0, <2>1, Kinds DEF QueueInv
  <2>5. \A m \in Elems(published) : m < n
    BY <2>1 DEF PublishInv, Pending
  <2> HIDE DEF n
  <2>6. Elems(Append(published, n)) = Elems(published) \cup {n}
        /\ (Chain(Less, published) /\ (\A y \in Elems(published) : <<y, n>> \in Less)
            => Chain(Less, Append(published, n)))
    <3>1. published \in Seq(Nat)
      BY <1>0
    <3> QED BY <2>4, <3>1, AtEnd
  <2>7. \A y \in Elems(published) : <<y, n>> \in Less
    BY <1>b, <2>4, <2>5 DEF Less
  <2>8. ASSUME NEW c \in Pending', c.res = "data" PROVE n < content[c.buf]
    <3>1. <<h, c>> \in Later
      BY <2>1, <2>2, <2>3 DEF Pending
    <3>2. c # NoItem /\ h # NoItem
      BY <2>1, <2>8, Kinds
    <3> QED BY <2>1, <2>8, <3>1, <3>2 DEF Later, n
  <2>9. Pending' \subseteq Pending
    BY <2>1 DEF Pending
  <2> QED BY <2>1, <2>4, <2>6, <2>7, <2>8, <2>9 DEF PublishInv
<1>2. ASSUME published' = published PROVE PublishInv'
  <2>1. CASE Pending' \subseteq Pending /\ UNCHANGED <<content, taken>>
    BY <1>2, <2>1 DEF PublishInv
  <2>2. ASSUME NEW c \in Completions, c.res # "data", Pending' = Pending \cup {c}, UNCHANGED <<content, taken>>
        PROVE  PublishInv'
    BY <1>2, <2>2 DEF PublishInv
  <2>3. ASSUME NEW b \in Buffers, RecvCompletes(b), Pending' = Pending \cup {Completion(b, "data")}
        PROVE  PublishInv'
    <3>1. /\ owner[b] = "kernel" /\ taken' = taken + 1 /\ content' = [content EXCEPT ![b] = taken + 1]
      BY <2>3 DEF RecvCompletes
    <3>2. /\ content'[b] = taken + 1 /\ \A a \in Buffers : a # b => content'[a] = content[a]
      BY <1>0, <3>1
    <3>3. \A n \in Nat : n <= taken => n <= taken + 1 /\ n < taken + 1
      BY <1>0
    <3>4. ASSUME NEW n \in Elems(published), NEW c \in Pending \cup {Completion(b, "data")}, c.res = "data"
          PROVE  n < content'[c.buf]
      <4>1. CASE c.buf = b
        BY <1>b, <3>2, <3>3, <4>1 DEF PublishInv
      <4>2. CASE c.buf # b
        <5>1. c \in Pending /\ c.buf \in Buffers
          BY <1>a, <3>4, <4>2, Kinds
        <5> QED BY <3>2, <3>4, <4>2, <5>1 DEF PublishInv
      <4> QED BY <4>1, <4>2
    <3> QED BY <1>2, <1>b, <2>3, <3>1, <3>3, <3>4 DEF PublishInv
  <2> QED BY <2>1, <2>2, <2>3, PendingStep
<1> QED BY <1>1, <1>2, OnlyProcessPublishes

(* A buffer is the loop's from its completion until it is submitted again, *)
(* so what is parsed from it (main.rs:244) is what completed: ticks go to  *)
(* the bus in the order of arrival, and each at most once.                 *)
THEOREM ArrivalOrderKept == Spec => []PublishedInOrder
<1>1. Init => PublishInv
  <2> SUFFICES ASSUME Init PROVE PublishInv
    OBVIOUS
  <2>1. published = <<>>
    BY DEF Init
  <2> QED BY <2>1, Empty DEF PublishInv
<1>2. PublishInv => PublishedInOrder
  BY DEF PublishInv, PublishedInOrder, Chain, Less
<1> QED BY <1>1, <1>2, PublishStep, TypeCorrect, BufferInvariant, PTL DEF Spec

-----------------------------------------------------------------------------
(* Counting.                                                               *)

(* How many of the completions of a queue have data.                       *)
WithData(q) == Cardinality(Uncounted(q))
One(c) == IF c.res = "data" THEN 1 ELSE 0

(* A queue has finitely many.                                              *)
LEMMA CountIsNat ==
  ASSUME NEW S, NEW q \in Seq(S)
  PROVE  IsFiniteSet(Uncounted(q)) /\ WithData(q) \in Nat
<1>1. 1 \in Int /\ Len(q) \in Int /\ Uncounted(q) \in SUBSET (1 .. Len(q))
  BY DEF Uncounted
<1>2. IsFiniteSet(1 .. Len(q))
  BY <1>1, FS_Interval
<1>3. IsFiniteSet(Uncounted(q))
  BY <1>1, <1>2, FS_Subset
<1> QED BY <1>3, FS_CardinalityType DEF WithData

(* One more at the end.                                                    *)
LEMMA CountAtEnd ==
  ASSUME NEW S, NEW q \in Seq(S), NEW x \in S
  PROVE  WithData(Append(q, x)) = WithData(q) + One(x)
<1> DEFINE n == Len(q)
           a == Append(q, x)
<1>1. /\ n \in Nat /\ DOMAIN q = 1 .. n /\ DOMAIN a = 1 .. n + 1
      /\ a[n + 1] = x /\ \A i \in 1 .. n : a[i] = q[i]
  OBVIOUS
<1> HIDE DEF a, n
<1>2. n + 1 \notin Uncounted(q)
  BY <1>1 DEF Uncounted
<1>3. IsFiniteSet(Uncounted(q)) /\ WithData(q) \in Nat
  BY CountIsNat
<1>4. CASE x.res = "data"
  <2>1. Uncounted(a) = Uncounted(q) \cup {n + 1}
    BY <1>1, <1>4 DEF Uncounted
  <2> QED BY <1>2, <1>3, <1>4, <2>1, FS_AddElement DEF WithData, One, a
<1>5. CASE x.res # "data"
  <2>1. Uncounted(a) = Uncounted(q)
    BY <1>1, <1>5 DEF Uncounted
  <2> QED BY <1>3, <1>5, <2>1 DEF WithData, One, a
<1> QED BY <1>4, <1>5

(* One less at the head: the rest moves up by one place.                   *)
LEMMA CountAtHead ==
  ASSUME NEW S, NEW q \in Seq(S), q # <<>>
  PROVE  WithData(q) = WithData(Tail(q)) + One(Head(q))
<1> DEFINE n == Len(q)
           t == Tail(q)
<1>1. /\ t \in Seq(S) /\ n \in Nat /\ n >= 1 /\ DOMAIN q = 1 .. n /\ DOMAIN t = 1 .. n - 1
      /\ Head(q) = q[1] /\ \A i \in 1 .. n - 1 : t[i] = q[i + 1]
  OBVIOUS
<1> HIDE DEF t, n
<1>2. IsFiniteSet(Uncounted(t)) /\ WithData(t) \in Nat
  BY <1>1, CountIsNat
<1> DEFINE R == Uncounted(q) \ {1}
           f == [i \in Uncounted(t) |-> i + 1]
<1>3. \A i \in Uncounted(t) : i \in Nat /\ i + 1 \in R
  BY <1>1 DEF Uncounted
<1>4. ASSUME NEW j \in R PROVE j - 1 \in Uncounted(t) /\ (j - 1) + 1 = j
  BY <1>1 DEF Uncounted
<1>5. f \in Bijection(Uncounted(t), R)
  <2>1. f \in [Uncounted(t) -> R]
    BY <1>3
  <2>2. IsInjective(f)
    BY <1>3 DEF IsInjective
  <2>3. \A j \in R : \E i \in Uncounted(t) : f[i] = j
    BY <1>4
  <2> QED BY <2>1, <2>2, <2>3 DEF Bijection, Injection, Surjection
<1>6. IsFiniteSet(R) /\ Cardinality(R) = WithData(t)
  BY <1>2, <1>5, FS_Bijection DEF ExistsBijection, WithData
<1> HIDE DEF R
<1>7. CASE Head(q).res = "data"
  <2>1. Uncounted(q) = R \cup {1} /\ 1 \notin R
    BY <1>1, <1>7 DEF Uncounted, R
  <2> QED BY <1>2, <1>6, <1>7, <2>1, FS_AddElement DEF WithData, One, t
<1>8. CASE Head(q).res # "data"
  <2>1. Uncounted(q) = R
    BY <1>1, <1>8 DEF Uncounted, R
  <2> QED BY <1>2, <1>6, <1>8, <2>1 DEF WithData, One, t
<1> QED BY <1>7, <1>8

(* Every datagram taken is counted once, when its completion is handled.   *)
LEMMA CountStep == TypeOK /\ LoopInv /\ DatagramsAccounted /\ [Next]_vars => DatagramsAccounted'
<1> SUFFICES ASSUME TypeOK, LoopInv, DatagramsAccounted, [Next]_vars PROVE DatagramsAccounted'
  OBVIOUS
<1>0. /\ synced \in Seq(Completions) /\ done \in Seq(Receives) /\ cq \in Seq(Completions)
      /\ taken \in Nat /\ recv_count \in Nat /\ publish_drops \in Nat /\ bad_packets \in Nat
  BY FeedAssumption DEF TypeOK, BatchOK, KernelOK, CountersOK
<1>1. PICK t \in Nat, r \in Nat, p \in Nat, g \in Nat, k \in Nat, s \in Nat, d \in Nat :
        /\ t = taken /\ r = recv_count /\ p = publish_drops /\ g = bad_packets
        /\ k = WithData(cq) /\ s = WithData(synced) /\ d = WithData(done)
  <2>1. WithData(cq) \in Nat /\ WithData(synced) \in Nat /\ WithData(done) \in Nat
    BY <1>0, CountIsNat
  <2> QED BY <1>0, <2>1
<1>2. t = r + p + g + (k + s + d)
  BY <1>1 DEF DatagramsAccounted, InFlight, WithData
<1>3. DatagramsAccounted' <=> taken' = recv_count' + publish_drops' + bad_packets'
                                        + (WithData(cq') + WithData(synced') + WithData(done'))
  BY DEF DatagramsAccounted, InFlight, WithData
<1>4. CASE Process
  <2>1. WithData(done) = WithData(done') + One(Head(done))
    BY <1>4, Handled, CountAtHead
  <2>2. done' \in Seq(Receives)
    BY <1>4, Handled, AtHead
  <2>3. PICK e \in Nat : e = WithData(done')
    BY <2>2, CountIsNat
  <2>4. UNCHANGED <<cq, synced, taken>>
    BY <1>4, Handled
  <2>5. CASE Head(done).res = "error"
    <3>1. UNCHANGED <<recv_count, publish_drops, bad_packets>> /\ d = e + 0
      BY <1>1, <1>4, <2>1, <2>3, <2>5, Handled DEF One
    <3>2. t = r + p + g + (k + s + e)
      BY <1>2, <3>1
    <3> QED BY <1>1, <1>3, <2>3, <2>4, <3>1, <3>2
  <2>6. CASE Head(done).res = "data"
    <3>1. d = e + 1
      BY <1>1, <2>1, <2>3, <2>6 DEF One
    <3>2. /\ t = (r + 1) + p + g + (k + s + e) /\ t = r + (p + 1) + g + (k + s + e)
          /\ t = r + p + (g + 1) + (k + s + e)
      BY <1>2, <3>1
    <3>3. \/ bad_packets' = g + 1 /\ recv_count' = r /\ publish_drops' = p
          \/ recv_count' = r + 1 /\ publish_drops' = p /\ bad_packets' = g
          \/ publish_drops' = p + 1 /\ recv_count' = r /\ bad_packets' = g
      BY <1>1, <1>4, <2>6, Handled
    <3> QED BY <1>1, <1>3, <2>3, <2>4, <3>2, <3>3
  <2> QED BY <1>4, <2>5, <2>6, Handled
<1>5. CASE Idle \/ Rearm \/ \E b \in Buffers : Arm(b)
  <2>1. UNCHANGED <<synced, done, cq, taken, recv_count, publish_drops, bad_packets>>
    BY <1>5 DEF Idle, Rearm, Arm, SubmitRecv, batch, counters
  <2> QED BY <2>1 DEF DatagramsAccounted, InFlight
<1>6. CASE Sync
  <2>1. /\ pc = "reap" /\ synced' = cq /\ cq' = <<>>
        /\ UNCHANGED <<done, taken, recv_count, publish_drops, bad_packets>>
    BY <1>6 DEF Sync, counters
  <2>2. WithData(cq') = s /\ WithData(synced') = k
    BY <1>1, <2>1 DEF LoopInv
  <2>3. k + s + d = s + k + d
    OBVIOUS
  <2> QED BY <1>1, <1>2, <1>3, <2>1, <2>2, <2>3
<1>7. CASE Collect
  <2> DEFINE c == Head(synced)
  <2>1. /\ synced # <<>> /\ synced' = Tail(synced)
        /\ UNCHANGED <<cq, taken, recv_count, publish_drops, bad_packets>>
        /\ \/ c.buf = NoBuffer /\ done' = done
           \/ c.buf # NoBuffer /\ done' = Append(done, c)
    BY <1>7 DEF Collect, counters
  <2>2. c \in Completions /\ Tail(synced) \in Seq(Completions)
    BY <1>0, <2>1, AtHead
  <2>3. WithData(synced) = WithData(synced') + One(c)
    BY <1>0, <2>1, CountAtHead
  <2> HIDE DEF c
  <2>4. PICK z \in Nat : z = WithData(synced')
    BY <2>1, <2>2, CountIsNat
  <2>5. WithData(done') = d + One(c) /\ One(c) \in Nat
    <3>1. CASE c.buf = NoBuffer
      <4>1. One(c) = 0
        BY <2>2, <3>1, Kinds DEF One
      <4> QED BY <1>1, <2>1, <3>1, <4>1
    <3>2. CASE c.buf # NoBuffer
      <4>1. c \in Receives
        BY <2>2, <3>2, Kinds
      <4>2. WithData(Append(done, c)) = WithData(done) + One(c)
        BY <1>0, <4>1, CountAtEnd
      <4> QED BY <1>1, <2>1, <3>2, <4>2 DEF One
    <3> QED BY <3>1, <3>2
  <2>6. PICK o \in Nat : o = One(c)
    BY <2>5
  <2>7. t = r + p + g + (k + z + (d + o))
    <3>1. s = z + o
      BY <1>1, <2>3, <2>4, <2>6
    <3> QED BY <1>2, <3>1
  <2> QED BY <1>1, <1>3, <2>1, <2>4, <2>5, <2>6, <2>7
<1>8. ASSUME NEW x \in Completions, cq' = Append(cq, x),
             UNCHANGED <<synced, done, recv_count, publish_drops, bad_packets>>, taken' = t + One(x)
      PROVE  DatagramsAccounted'
  <2>1. WithData(cq') = k + One(x) /\ One(x) \in Nat
    BY <1>0, <1>1, <1>8, CountAtEnd DEF One
  <2>2. PICK o \in Nat : o = One(x)
    BY <2>1
  <2>3. t + o = r + p + g + ((k + o) + s + d)
    BY <1>2
  <2> QED BY <1>1, <1>3, <1>8, <2>1, <2>2, <2>3
<1>9. ASSUME NEW b \in Buffers, RecvCompletes(b) PROVE DatagramsAccounted'
  <2>1. /\ cq' = Append(cq, Completion(b, "data"))
        /\ UNCHANGED <<synced, done, recv_count, publish_drops, bad_packets>> /\ taken' = t + 1
    BY <1>1, <1>9 DEF RecvCompletes, batch, counters
  <2>2. One(Completion(b, "data")) = 1 /\ Completion(b, "data") \in Completions
    BY Kinds DEF One
  <2> QED BY <1>8, <2>1, <2>2
<1>10. ASSUME NEW x \in Completions, x.res # "data", cq' = Append(cq, x),
              UNCHANGED <<synced, done, taken, recv_count, publish_drops, bad_packets>>
       PROVE  DatagramsAccounted'
  <2>1. One(x) = 0 /\ taken' = t + 0
    BY <1>1, <1>10 DEF One
  <2> QED BY <1>8, <1>10, <2>1
<1>11. ASSUME NEW b \in Buffers, RecvFails(b) PROVE DatagramsAccounted'
  BY <1>10, <1>11, Kinds DEF RecvFails, batch, counters
<1>12. CASE TimerFires
  BY <1>10, <1>12, Kinds DEF TimerFires, batch, counters, NoItem
<1> QED BY <1>4, <1>5, <1>6, <1>7, <1>9, <1>11, <1>12, IdleSteps

(* The report accounts for every datagram the kernel handed over           *)
(* (main.rs:240-261): published, dropped because the ring was full, or     *)
(* bad, wherever the loop is.                                              *)
THEOREM NoDatagramIsLost == Spec => []DatagramsAccounted
<1>1. Init => DatagramsAccounted
  <2> SUFFICES ASSUME Init PROVE DatagramsAccounted
    OBVIOUS
  <2>1. Uncounted(<<>>) = {}
    BY DEF Uncounted
  <2>2. Cardinality(Uncounted(<<>>)) = 0
    BY <2>1, FS_EmptySet
  <2> QED BY <2>2 DEF Init, DatagramsAccounted, InFlight
<1> QED BY <1>1, CountStep, TypeCorrect, PTL DEF Spec

-----------------------------------------------------------------------------
(* The relay.                                                              *)

(* The receives with a datagram that the loop has not handled; their       *)
(* datagrams are the next after those reported, up to the last taken.      *)
Unhandled == {c \in Pending : c.res = "data"}
RelayInv ==
  /\ Reported <= taken
  /\ {content[c.buf] : c \in Unhandled} = Reported + 1 .. taken

(* Only by being handled does a datagram stop being pending.               *)
LEMMA DataStays ==
  TypeOK /\ LoopInv /\ [Next]_vars => Process \/ \A c \in Unhandled : c \in Pending'
<1> SUFFICES ASSUME TypeOK, LoopInv, [Next]_vars, ~Process, NEW c \in Unhandled PROVE c \in Pending'
  OBVIOUS
<1>0. /\ synced \in Seq(Completions) /\ done \in Seq(Receives) /\ cq \in Seq(Completions)
      /\ c \in Pending /\ c.res = "data"
  BY DEF TypeOK, BatchOK, KernelOK, Unhandled
<1>1. CASE Idle \/ Rearm \/ \E b \in Buffers : Arm(b)
  <2>1. UNCHANGED <<synced, done, cq>>
    BY <1>1 DEF Idle, Rearm, Arm, SubmitRecv, batch
  <2> QED BY <1>0, <2>1 DEF Pending
<1>2. CASE Sync
  <2>1. synced' = cq /\ UNCHANGED done /\ synced = <<>>
    BY <1>2 DEF Sync, LoopInv
  <2> QED BY <1>0, <2>1, Empty DEF Pending
<1>3. CASE Collect
  <2> DEFINE d == Head(synced)
  <2>1. /\ synced # <<>> /\ synced' = Tail(synced) /\ UNCHANGED cq
        /\ \/ d.buf = NoBuffer /\ done' = done
           \/ d.buf # NoBuffer /\ done' = Append(done, d)
    BY <1>3 DEF Collect
  <2>2. d \in Completions /\ Elems(synced) = Elems(synced') \cup {d}
    BY <1>0, <2>1, AtHead
  <2> HIDE DEF d
  <2>3. CASE d.buf = NoBuffer /\ done' = done
    <3>1. c # d
      BY <1>0, <2>2, <2>3, Kinds
    <3> QED BY <1>0, <2>1, <2>2, <2>3, <3>1 DEF Pending
  <2>4. CASE d.buf # NoBuffer /\ done' = Append(done, d)
    <3>1. Elems(done') = Elems(done) \cup {d}
      BY <1>0, <2>2, <2>4, AtEnd, Kinds
    <3> QED BY <1>0, <2>1, <2>2, <3>1 DEF Pending
  <2> QED BY <2>1, <2>3, <2>4
<1>4. ASSUME NEW d \in Completions, cq' = Append(cq, d), UNCHANGED <<synced, done>> PROVE c \in Pending'
  <2>1. Elems(Append(cq, d)) = Elems(cq) \cup {d}
    BY <1>0, AtEnd
  <2> QED BY <1>0, <1>4, <2>1 DEF Pending
<1>5. ASSUME NEW b \in Buffers, RecvCompletes(b) \/ RecvFails(b) PROVE c \in Pending'
  BY <1>4, <1>5, Kinds DEF RecvCompletes, RecvFails, batch
<1>6. CASE TimerFires
  <2>1. cq' = Append(cq, NoItem) /\ UNCHANGED <<synced, done>>
    BY <1>6 DEF TimerFires, batch, NoItem
  <2> QED BY <1>4, <2>1, Kinds
<1> QED BY <1>1, <1>2, <1>3, <1>5, <1>6, IdleSteps

(* The counters, as numbers.                                               *)
LEMMA ReportedIs ==
  ASSUME TypeOK
  PROVE  /\ Reported \in Nat /\ taken \in Nat
         /\ [Next]_vars =>
              \/ Process
              \/ Reported' = Reported /\ UNCHANGED <<published, publish_drops, bad_packets>>
<1>1. /\ recv_count \in Nat /\ publish_drops \in Nat /\ bad_packets \in Nat
      /\ arrived \in Nat /\ taken \in 0 .. arrived
  BY FeedAssumption DEF TypeOK, CountersOK, KernelOK
<1>2. UNCHANGED <<recv_count, publish_drops, bad_packets>> => Reported' = Reported
  BY DEF Reported
<1> QED BY <1>1, <1>2, OnlyProcessPublishes DEF Reported

(* What Process handles is the datagram after those reported.              *)
LEMMA HandlesNext ==
  ASSUME TypeOK, OwnerInv, QueueInv, RelayInv, Process, Head(done).res = "data"
  PROVE  /\ content[Head(done).buf] = Reported + 1 /\ Reported < taken
         /\ Unhandled = Unhandled' \cup {Head(done)}
         /\ \A c \in Unhandled' : content[c.buf] > Reported + 1
<1> DEFINE h == Head(done)
           n == content[h.buf]
<1>0. content \in [Buffers -> 0 .. MaxDatagrams] /\ MaxDatagrams \in Nat
  BY FeedAssumption DEF TypeOK, KernelOK
<1>1. /\ h \in Receives /\ h \in Elems(done) /\ Elems(done) = Elems(done') \cup {h} /\ h.res = "data"
      /\ UNCHANGED <<synced, cq, content, taken>>
      /\ done # <<>> /\ done \in Seq(Receives) /\ done' = Tail(done)
  BY Handled
<1>2. \A y \in Elems(done') \cup Elems(cq) \cup Elems(synced) : <<h, y>> \in Later
  <2>1. \A y \in Elems(done') : <<h, y>> \in Later
    BY <1>1, AtHead DEF QueueInv
  <2> QED BY <1>1, <2>1 DEF QueueInv, Ahead
<1> HIDE DEF h
<1>3. n \in Nat
  BY <1>0, <1>1, Kinds
<1>4. ASSUME NEW c \in Unhandled' PROVE n < content[c.buf]
  <2>1. c \in Pending' /\ c.res = "data"
    BY DEF Unhandled
  <2>2. <<h, c>> \in Later /\ c \in Completions
    BY <1>1, <1>2, <2>1 DEF Pending, Later
  <2>3. c # NoItem /\ h # NoItem
    BY <1>1, <2>1, Kinds
  <2> QED BY <1>1, <2>1, <2>2, <2>3 DEF Later
<1>5. Unhandled = Unhandled' \cup {h} /\ h \in Unhandled
  BY <1>1 DEF Unhandled, Pending
<1> HIDE DEF n
<1>6. Reported \in Nat /\ taken \in Nat
  BY ReportedIs
<1>7. n \in Reported + 1 .. taken
  BY <1>5 DEF RelayInv, n
<1>8. Reported + 1 \in Reported + 1 .. taken
  BY <1>6, <1>7
<1>9. PICK c \in Unhandled : content[c.buf] = Reported + 1
  BY <1>8 DEF RelayInv
<1>10. n = Reported + 1
  <2>1. CASE c = h
    BY <1>9, <2>1 DEF n
  <2>2. CASE c # h
    <3>1. n < Reported + 1
      BY <1>4, <1>5, <1>9, <2>2
    <3> QED BY <1>3, <1>6, <1>7, <3>1
  <2> QED BY <2>1, <2>2
<1>11. \A d \in Unhandled' : content[d.buf] > Reported + 1
  BY <1>4, <1>10
<1> QED BY <1>5, <1>6, <1>7, <1>10, <1>11 DEF h, n

(* The datagrams that are pending stay the next ones.                      *)
LEMMA RelayInvStep ==
  TypeOK /\ LoopInv /\ OwnerInv /\ QueueInv /\ RelayInv /\ [Next]_vars => RelayInv'
<1> SUFFICES ASSUME TypeOK, LoopInv, OwnerInv, QueueInv, RelayInv, [Next]_vars PROVE RelayInv'
  OBVIOUS
<1>0. /\ content \in [Buffers -> 0 .. MaxDatagrams] /\ MaxDatagrams \in Nat
      /\ Reported \in Nat /\ taken \in Nat
  BY ReportedIs, FeedAssumption DEF TypeOK, KernelOK
<1>a. Pending \subseteq Completions
  BY ElemsIn, Kinds DEF Pending, TypeOK, BatchOK, KernelOK
<1>1. ASSUME Unhandled' = Unhandled, UNCHANGED <<content, taken>>, Reported' = Reported PROVE RelayInv'
  BY <1>1 DEF RelayInv
<1>2. CASE Process
  <2>1. UNCHANGED <<synced, cq, content, taken>> /\ Elems(done) = Elems(done') \cup {Head(done)}
    BY <1>2, Handled
  <2>2. CASE Head(done).res # "data"
    <3>1. Unhandled' = Unhandled
      BY <2>1, <2>2 DEF Unhandled, Pending
    <3>2. Reported' = Reported
      BY <1>2, <2>2, Handled DEF Reported
    <3> QED BY <1>1, <2>1, <3>1, <3>2
  <2>3. CASE Head(done).res = "data"
    <3>1. /\ content[Head(done).buf] = Reported + 1 /\ Reported < taken
          /\ Unhandled = Unhandled' \cup {Head(done)}
          /\ \A c \in Unhandled' : content[c.buf] > Reported + 1
      BY <1>2, <2>3, HandlesNext
    <3>2. Reported' = Reported + 1
      <4>1. recv_count \in Nat /\ publish_drops \in Nat /\ bad_packets \in Nat
        BY DEF TypeOK, CountersOK
      <4> QED BY <1>2, <2>3, <4>1, Handled DEF Reported
    <3>3. ASSUME NEW c \in Unhandled' PROVE content[c.buf] \in Reported + 2 .. taken
      <4>1. content[c.buf] \in Reported + 1 .. taken /\ content[c.buf] > Reported + 1
        BY <3>1 DEF RelayInv
      <4> QED BY <1>0, <4>1
    <3>4. ASSUME NEW x \in Reported + 2 .. taken PROVE \E c \in Unhandled' : content[c.buf] = x
      <4>1. x \in Reported + 1 .. taken /\ x # Reported + 1
        BY <1>0
      <4>2. PICK c \in Unhandled : content[c.buf] = x
        BY <4>1 DEF RelayInv
      <4> QED BY <3>1, <4>1, <4>2
    <3>5. {content[c.buf] : c \in Unhandled'} = Reported + 2 .. taken
      BY <3>3, <3>4
    <3>6. Reported + 1 <= taken /\ (Reported + 1) + 1 = Reported + 2
      BY <1>0, <3>1
    <3> QED BY <2>1, <3>2, <3>5, <3>6 DEF RelayInv
  <2> QED BY <2>2, <2>3
<1>3. CASE ~Process
  <2>1. Reported' = Reported /\ \A c \in Unhandled : c \in Pending'
    BY <1>3, ReportedIs, DataStays
  <2>2. CASE Pending' \subseteq Pending /\ UNCHANGED <<content, taken>>
    <3>1. Unhandled' = Unhandled
      BY <2>1, <2>2 DEF Unhandled
    <3> QED BY <1>1, <2>1, <2>2, <3>1
  <2>3. ASSUME NEW c \in Completions, c.res # "data", Pending' = Pending \cup {c}, UNCHANGED <<content, taken>>
        PROVE  RelayInv'
    <3>1. Unhandled' = Unhandled
      BY <2>3 DEF Unhandled
    <3> QED BY <1>1, <2>1, <2>3, <3>1
  <2>4. ASSUME NEW b \in Buffers, RecvCompletes(b), Pending' = Pending \cup {Completion(b, "data")}
        PROVE  RelayInv'
    <3> DEFINE new == Completion(b, "data")
    <3>1. /\ owner[b] = "kernel" /\ taken' = taken + 1 /\ content' = [content EXCEPT ![b] = taken + 1]
      BY <2>4 DEF RecvCompletes
    <3>2. new.buf = b /\ new.res = "data"
      BY Kinds
    <3> HIDE DEF new
    <3>3. /\ content'[b] = taken + 1 /\ \A a \in Buffers : a # b => content'[a] = content[a]
      BY <1>0, <3>1
    <3>4. Unhandled' = Unhandled \cup {new}
      BY <2>4, <3>2 DEF Unhandled, new
    <3>5. ASSUME NEW c \in Unhandled PROVE content'[c.buf] = content[c.buf]
      <4>1. c \in Pending /\ c \in Receives
        BY <1>a, Kinds DEF Unhandled
      <4>2. c.buf # b
        BY <3>1, <4>1, Kinds DEF OwnerInv, Pending
      <4> QED BY <3>3, <4>1, <4>2, Kinds
    <3>6. {content'[c.buf] : c \in Unhandled'} = {content[c.buf] : c \in Unhandled} \cup {taken + 1}
      BY <3>2, <3>3, <3>4, <3>5
    <3>7. (Reported + 1 .. taken) \cup {taken + 1} = Reported + 1 .. taken + 1 /\ Reported <= taken + 1
      BY <1>0 DEF RelayInv
    <3> QED BY <2>1, <3>1, <3>6, <3>7 DEF RelayInv
  <2> QED BY <2>2, <2>3, <2>4, PendingStep
<1> QED BY <1>2, <1>3

(* The feedhandler implements the relay (module Relay): handling one       *)
(* completion with data is the step of the next datagram, a receive that   *)
(* completes hands one over, a consume of the engine is one of the ring,   *)
(* every other step of loop and kernel is a stutter.                       *)
THEOREM FeedhandlerIsRelay == Spec => ImplementsRelay
<1> DEFINE relayed == <<taken, Reported, bad_packets, publish_drops, published, unread>>
<1>1. Init => RelayInv /\ Datagrams!Init
  <2> SUFFICES ASSUME Init PROVE RelayInv /\ Datagrams!Init
    OBVIOUS
  <2>1. Reported = 0 /\ taken = 0
    BY DEF Init, Reported
  <2>2. Unhandled = {}
    BY Empty DEF Init, Unhandled, Pending
  <2>3. RelayInv
    BY <2>1, <2>2 DEF RelayInv
  <2> QED BY <2>1, <2>3 DEF Init, Datagrams!Init
<1>2. TypeOK /\ LoopInv /\ OwnerInv /\ QueueInv /\ RelayInv /\ [Next]_vars
      => [Datagrams!Next]_relayed
  <2> SUFFICES ASSUME TypeOK, LoopInv, OwnerInv, QueueInv, RelayInv, [Next]_vars
               PROVE  [Datagrams!Next]_relayed
    OBVIOUS
  <2>0. /\ Reported \in Nat /\ taken \in Nat
        /\ recv_count \in Nat /\ publish_drops \in Nat /\ bad_packets \in Nat
    BY ReportedIs DEF TypeOK, CountersOK
  <2>1. CASE Process
    <3> DEFINE h == Head(done)
    <3>1. Handle(h) /\ UNCHANGED taken
      BY <2>1 DEF Process, kernel
    <3>2. CASE h.res = "data"
      <4>1. content[h.buf] = Reported + 1 /\ Reported < taken
        BY <2>1, <3>2, HandlesNext
      <4> HIDE DEF h
      <4>2. CASE /\ content[h.buf] \in Short /\ bad_packets' = bad_packets + 1
                 /\ UNCHANGED <<recv_count, publish_drops, published, unread>>
        <5>1. Reported' = Reported + 1
          BY <2>0, <4>2 DEF Reported
        <5>2. Datagrams!Refuse
          BY <3>1, <4>1, <4>2, <5>1 DEF Datagrams!Refuse, Datagrams!HandleNext
        <5> QED BY <5>2 DEF Datagrams!Next
      <4>3. CASE /\ content[h.buf] \notin Short /\ unread < TickRingCap
                 /\ published' = Append(published, content[h.buf]) /\ unread' = unread + 1
                 /\ recv_count' = recv_count + 1 /\ UNCHANGED <<publish_drops, bad_packets>>
        <5>1. Reported' = Reported + 1
          BY <2>0, <4>3 DEF Reported
        <5>2. Datagrams!Publish
          BY <3>1, <4>1, <4>3, <5>1 DEF Datagrams!Publish, Datagrams!HandleNext
        <5> QED BY <5>2 DEF Datagrams!Next
      <4>4. CASE /\ content[h.buf] \notin Short /\ unread = TickRingCap
                 /\ publish_drops' = publish_drops + 1
                 /\ UNCHANGED <<recv_count, bad_packets, published, unread>>
        <5>1. Reported' = Reported + 1
          BY <2>0, <4>4 DEF Reported
        <5>2. Datagrams!Drop
          BY <3>1, <4>1, <4>4, <5>1 DEF Datagrams!Drop, Datagrams!HandleNext
        <5> QED BY <5>2 DEF Datagrams!Next
      <4> QED BY <3>1, <3>2, <4>2, <4>3, <4>4 DEF Handle, OneMoreBad
    <3>3. CASE h.res # "data"
      <4>1. UNCHANGED <<recv_count, publish_drops, bad_packets, published, unread>>
        BY <3>1, <3>3 DEF Handle
      <4> QED BY <3>1, <4>1 DEF Reported
    <3> QED BY <3>2, <3>3
  <2>2. ASSUME NEW b \in Buffers, RecvCompletes(b) PROVE Datagrams!Next
    <3>1. taken' = taken + 1 /\ UNCHANGED <<recv_count, bad_packets, publish_drops, published, unread>>
      BY <2>2 DEF RecvCompletes, counters, rings
    <3> QED BY <3>1 DEF Datagrams!Next, Datagrams!Receive, Reported
  <2>3. CASE EngineConsumes
    <3>1. /\ unread > 0 /\ unread' = unread - 1
          /\ UNCHANGED <<taken, recv_count, bad_packets, publish_drops, published>>
      BY <2>3 DEF EngineConsumes, counters, kernel
    <3> QED BY <3>1 DEF Datagrams!Next, Datagrams!Consume, Reported
  <2>4. ASSUME \/ Loop \/ Break \/ Submit \/ SubmitInterrupted \/ Wake \/ WaitInterrupted \/ SubmitFails
               \/ CollectEnd \/ ProcessEnd \/ TakeOrder \/ OrdersEnd \/ DatagramArrives
               \/ EnginePublishes \/ EndRequested \/ UNCHANGED vars
        PROVE  UNCHANGED <<taken, recv_count, bad_packets, publish_drops, published, unread>>
    BY <2>4 DEF Loop, Break, Submit, SubmitInterrupted, Wake, WaitInterrupted, SubmitFails, CollectEnd,
                ProcessEnd, TakeOrder, OrdersEnd, DatagramArrives, EnginePublishes, EndRequested,
                vars, kernel, counters, rings
  <2>5. ASSUME \/ Sync \/ Collect \/ Rearm \/ TimerFires
               \/ \E b \in Buffers : Arm(b) \/ RecvFails(b)
        PROVE  UNCHANGED <<taken, recv_count, bad_packets, publish_drops, published, unread>>
    BY <2>5 DEF Sync, Collect, Rearm, TimerFires, Arm, RecvFails, SubmitRecv, counters, rings
  <2>6. UNCHANGED <<taken, recv_count, bad_packets, publish_drops, published, unread>>
        => UNCHANGED relayed
    BY DEF Reported
  <2> QED BY <2>1, <2>2, <2>3, <2>4, <2>5, <2>6 DEF Next, App, Environment
<1> QED BY <1>1, <1>2, RelayInvStep, TypeCorrect, BufferInvariant, PTL
        DEF Spec, ImplementsRelay, Datagrams!Spec
=============================================================================
