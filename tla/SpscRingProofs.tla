--------------------------- MODULE SpscRingProofs ---------------------------
(***************************************************************************)
(* For every capacity, word width, payload size and set of messages: the   *)
(* ring of module SpscRing is a bounded FIFO, even when its consumer is    *)
(* killed and restarted anywhere and its producer anywhere but between its *)
(* two stores.                                                             *)
(***************************************************************************)
EXTENDS SpscRing, TLAPS

-----------------------------------------------------------------------------
(* Arithmetic of slot indices.                                             *)

(* Two message numbers less than a capacity apart select different slots   *)
(* (head & RING_MASK, ring.rs:100 and 144).                                *)
LEMMA SlotsDistinct ==
  ASSUME NEW a \in Nat, NEW b \in Nat, a < b, b - a < Capacity
  PROVE  Slot(a) # Slot(b)
<1> USE CapacityAssumption
<1> SUFFICES ASSUME a % Capacity = b % Capacity PROVE FALSE
  BY DEF Slot
<1> DEFINE p == a \div Capacity
<1> DEFINE q == b \div Capacity
<1>1. /\ p \in Int /\ q \in Int
      /\ a = Capacity * p + (a % Capacity)
      /\ b = Capacity * q + (b % Capacity)
  OBVIOUS
<1>2. b - a = Capacity * (q - p)
  BY <1>1
<1>3. CASE q - p >= 1
  <2>1. Capacity * (q - p) >= Capacity * 1
    BY <1>1, <1>3
  <2> QED BY <1>2, <2>1
<1>4. CASE q - p <= 0
  <2>1. Capacity * (q - p) <= 0
    BY <1>1, <1>4
  <2> QED BY <1>2, <2>1
<1> QED BY <1>1, <1>3, <1>4

(* A message number selects a slot that exists.                            *)
LEMMA SlotInRange ==
  ASSUME NEW n \in Nat
  PROVE  Slot(n) \in Slots
BY CapacityAssumption DEF Slot, Slots

-----------------------------------------------------------------------------
(* Type correctness: every step of either process keeps cursors, slots,    *)
(* buffers and histories in their types.                                   *)
THEOREM TypeCorrect == Spec => []TypeOK
<1>1. Init => TypeOK
  BY DEF Init, TypeOK, Slots, Zeroed
<1>2. TypeOK /\ [Next]_vars => TypeOK'
  <2> SUFFICES ASSUME TypeOK, [Next]_vars PROVE TypeOK'
    OBVIOUS
  <2> USE DEF TypeOK
  <2>1. CASE PublishRefused
    BY <2>1 DEF PublishRefused, shared, cons, hist
  <2>2. ASSUME NEW m \in Msgs, PublishBegin(m) PROVE TypeOK'
    BY <2>2 DEF PublishBegin, shared, cons, hist
  <2>3. ASSUME NEW w \in Words, PublishCopy(w) PROVE TypeOK'
    BY <2>3, SlotInRange DEF PublishCopy, cons, hist
  <2>4. CASE PublishSeq
    <3>1. seq' \in [Slots -> Nat]
      BY <2>4, SlotInRange DEF PublishSeq
    <3>2. Bytes(pmsg) \in Published
      BY <2>4 DEF PublishSeq, Published
    <3> QED BY <2>4, <3>1, <3>2 DEF PublishSeq, cons
  <2>5. CASE PublishHead
    BY <2>5 DEF PublishHead, cons, hist
  <2>6. CASE ProducerAttach
    BY <2>6 DEF ProducerAttach, shared, cons, hist
  <2>7. CASE ConsumeNone
    BY <2>7 DEF ConsumeNone, shared, prod, hist
  <2>8. CASE ConsumeBegin
    BY <2>8 DEF ConsumeBegin, shared, prod, hist
  <2>9. ASSUME NEW w \in Words, ConsumeCopy(w) PROVE TypeOK'
    BY <2>9, SlotInRange, SMTT(30) DEF ConsumeCopy, shared, prod, hist
  <2>10. CASE ConsumeTail
    BY <2>10 DEF ConsumeTail, prod, Zeroed
  <2>11. CASE ConsumerAttach
    BY <2>11 DEF ConsumerAttach, shared, prod, hist
  <2>12. CASE ProducerKilled
    BY <2>12 DEF ProducerKilled, ProducerDown, shared, cons, hist
  <2>13. CASE ConsumerKilled
    BY <2>13 DEF ConsumerKilled, shared, prod, hist, Zeroed
  <2>14. CASE UNCHANGED vars
    BY <2>14 DEF vars, shared, prod, cons, hist
  <2> QED
    BY <2>1, <2>2, <2>3, <2>4, <2>5, <2>6, <2>7, <2>8, <2>9, <2>10, <2>11, <2>12, <2>13, <2>14
       DEF Next, Producer, Consumer, Consume
<1> QED BY <1>1, <1>2, PTL DEF Spec

-----------------------------------------------------------------------------
(* The ring's inductive invariant (SpscRing!RingInv) holds of every        *)
(* reachable state: cursors count the history, unread slots are intact,    *)
(* and each process in the middle of a copy has its slot to itself.        *)
THEOREM RingInvariant == Spec => []RingInv
<1> USE CapacityAssumption, U64Assumption
<1>1. Init => RingInv
  BY DEF Init, RingInv, CursorsCountHistory, UnreadSlotsIntact, CopyingIn, CopyingOut, Slots
<1>2. TypeOK /\ TypeOK' /\ RingInv /\ [Next]_vars => RingInv'
  <2> SUFFICES ASSUME TypeOK, TypeOK', RingInv, [Next]_vars PROVE RingInv'
    OBVIOUS
  <2> USE DEF RingInv, CursorsCountHistory, UnreadSlotsIntact, CopyingIn, CopyingOut
  <2>0. /\ head \in Nat /\ tail \in Nat /\ Len(sent) \in Nat /\ Len(got) \in Nat
        /\ pnext \in Nat /\ cnext \in Nat
    BY DEF TypeOK
  <2>1. CASE PublishRefused
    BY <2>1 DEF PublishRefused, shared, cons, hist
  <2>2. ASSUME NEW m \in Msgs, PublishBegin(m) PROVE RingInv'
    <3>1. head < tail + Capacity
      BY <2>0, <2>2 DEF PublishBegin, Full, WrappingSub
    <3> QED BY <2>2, <2>0, <3>1 DEF PublishBegin, shared, cons, hist
  <2>3. ASSUME NEW w \in Words, PublishCopy(w) PROVE RingInv'
    <3>1. pnext = head /\ Len(sent) = head /\ head < tail + Capacity
      BY <2>3 DEF PublishCopy
    <3>2. \A n \in tail .. Len(sent) - 1 : payload'[Slot(n)] = payload[Slot(n)]
      BY <2>0, <2>3, <3>1, SlotsDistinct, SlotInRange DEF PublishCopy, TypeOK
    <3>3. \A v \in pdone' : payload'[Slot(head)][v] = pmsg
      BY <2>0, <2>3, <3>1, SlotInRange DEF PublishCopy, TypeOK
    <3> QED BY <2>0, <2>3, <3>1, <3>2, <3>3 DEF PublishCopy, cons, hist
  <2>4. CASE PublishSeq
    <3>1. /\ pnext = head /\ Len(sent) = head /\ head < tail + Capacity
          /\ sent' = Append(sent, Bytes(pmsg)) /\ payload' = payload
          /\ pdone = Words
      BY <2>4 DEF PublishSeq
    <3>2. /\ Len(sent') = head + 1
          /\ sent'[head + 1] = Bytes(pmsg)
          /\ \A n \in 1 .. head : sent'[n] = sent[n]
      BY <2>0, <3>1 DEF TypeOK
    <3>3. /\ seq'[Slot(head)] = head + 1
          /\ \A i \in Slots : i # Slot(head) => seq'[i] = seq[i]
      BY <2>4, <2>0, <3>1, SlotInRange DEF PublishSeq, TypeOK
    <3>4. ASSUME NEW i \in Slots PROVE seq'[i] <= head + 1
      <4>1. CASE i = Slot(head)
        BY <2>0, <3>3, <4>1
      <4>2. CASE i # Slot(head)
        <5>1. seq'[i] = seq[i] /\ seq[i] <= head /\ seq[i] \in Nat
          BY <3>1, <3>3, <4>2 DEF TypeOK
        <5> QED BY <2>0, <5>1
      <4> QED BY <4>1, <4>2
    <3>5. payload[Slot(head)] = Bytes(pmsg)
      BY <2>0, <2>4, <3>1, SlotInRange DEF PublishSeq, TypeOK, Bytes
    <3>6. \A n \in tail .. head - 1 : Slot(n) # Slot(head) /\ Slot(n) \in Slots
      BY <2>0, <3>1, SlotsDistinct, SlotInRange
    <3>7. \A n \in tail .. head :
             seq'[Slot(n)] = n + 1 /\ payload'[Slot(n)] = sent'[n + 1]
      BY <2>0, <3>1, <3>2, <3>3, <3>5, <3>6
    <3>8. CopyingOut'
      BY <2>0, <2>4, <3>1, <3>2 DEF PublishSeq, cons
    <3>9. CursorsCountHistory'
      BY <2>0, <2>4, <3>1, <3>2 DEF PublishSeq, cons
    <3>10. UnreadSlotsIntact'
      <4>1. tail' = tail /\ Len(sent') - 1 = head /\ Len(sent') = head + 1
        BY <2>0, <2>4, <3>2 DEF PublishSeq
      <4>2. \A i \in Slots : seq'[i] <= Len(sent')
        BY <3>4, <4>1
      <4>3. \A n \in tail' .. Len(sent') - 1 :
               seq'[Slot(n)] = n + 1 /\ payload'[Slot(n)] = sent'[n + 1]
        BY <3>7, <4>1
      <4> QED BY <4>2, <4>3
    <3> QED BY <2>4, <3>8, <3>9, <3>10 DEF PublishSeq
  <2>5. CASE PublishHead
    BY <2>5, <2>0 DEF PublishHead, cons, hist
  <2>6. CASE ProducerAttach
    BY <2>6, <2>0 DEF ProducerAttach, shared, cons, hist
  <2>7. CASE ConsumeNone
    BY <2>7 DEF ConsumeNone, shared, prod, hist
  <2>8. CASE ConsumeBegin
    <3>1. tail < Len(sent)
      BY <2>0, <2>8, SlotInRange DEF ConsumeBegin, Ready
    <3> QED BY <2>8, <3>1 DEF ConsumeBegin, shared, prod, hist
  <2>9. ASSUME NEW w \in Words, ConsumeCopy(w) PROVE RingInv'
    <3>1. cnext = tail /\ tail < Len(sent) /\ payload[Slot(tail)] = sent[tail + 1]
      BY <2>0, <2>9 DEF ConsumeCopy
    <3> QED BY <2>9, <3>1 DEF ConsumeCopy, shared, prod, hist, TypeOK
  <2>10. CASE ConsumeTail
    <3>1. /\ cnext = tail /\ tail < Len(sent) /\ tail' = tail + 1
          /\ Len(got') = tail + 1
      BY <2>0, <2>10 DEF ConsumeTail, TypeOK
    <3>2. CursorsCountHistory'
      BY <2>0, <2>10, <3>1 DEF ConsumeTail, prod
    <3>3. UnreadSlotsIntact'
      <4>1. /\ seq' = seq /\ payload' = payload /\ sent' = sent
            /\ \A n \in tail' .. Len(sent) - 1 : n \in tail .. Len(sent) - 1
        BY <2>0, <2>10, <3>1 DEF ConsumeTail
      <4> QED BY <4>1
    <3>4. CopyingIn'
      BY <2>0, <2>10, <3>1 DEF ConsumeTail, prod
    <3>5. CopyingOut'
      BY <2>10 DEF ConsumeTail
    <3> QED BY <3>2, <3>3, <3>4, <3>5
  <2>11. CASE ConsumerAttach
    BY <2>11 DEF ConsumerAttach, shared, prod, hist
  <2>12. CASE ProducerKilled
    BY <2>12 DEF ProducerKilled, ProducerDown, shared, cons, hist
  <2>13. CASE ConsumerKilled
    BY <2>13 DEF ConsumerKilled, shared, prod, hist
  <2>14. CASE UNCHANGED vars
    BY <2>14 DEF vars, shared, prod, cons, hist
  <2> QED
    BY <2>1, <2>2, <2>3, <2>4, <2>5, <2>6, <2>7, <2>8, <2>9, <2>10, <2>11, <2>12, <2>13, <2>14
       DEF Next, Producer, Consumer, Consume
<1> QED BY <1>1, <1>2, TypeCorrect, PTL DEF Spec

(* Both together: at every word the two processes write or read, and after *)
(* every kill and attach that Spec allows, the ring is well formed.        *)
THEOREM RingStaysWellFormed == Spec => []RingWellFormed
BY TypeCorrect, RingInvariant, PTL DEF RingWellFormed

-----------------------------------------------------------------------------
(* The consequences of the invariant for the callers.                      *)

(* "We own this slot until we bump seq" (ring.rs:103): the slot a live     *)
(* producer copies into is neither being read nor ready to be read.        *)
THEOREM SlotOwnership == Spec => []ProducerOwnsSlot
<1>1. TypeOK /\ RingInv => ProducerOwnsSlot
  <2> SUFFICES ASSUME TypeOK, RingInv, ppc = "copy", cpc # "down",
                      Slot(cnext) = Slot(pnext)
               PROVE  cpc = "idle" /\ ~Ready
    BY DEF ProducerOwnsSlot
  <2> USE DEF RingInv, CursorsCountHistory, CopyingIn, CopyingOut
  <2>1. /\ head \in Nat /\ tail \in Nat
        /\ pnext = head /\ cnext = tail /\ Len(sent) = head
        /\ tail <= head /\ head < tail + Capacity
    BY DEF TypeOK
  <2>2. tail = head
    BY <2>1, SlotsDistinct, CapacityAssumption
  <2>3. cpc = "idle"
    BY <2>1, <2>2 DEF TypeOK
  <2>4. Slot(head) \in Slots /\ seq[Slot(head)] <= head
    BY <2>1, SlotInRange DEF UnreadSlotsIntact
  <2>5. ~Ready
    BY <2>1, <2>2, <2>4 DEF Ready, TypeOK
  <2> QED BY <2>3, <2>5
<1> QED BY <1>1, TypeCorrect, RingInvariant, PTL

(* RingConsumer::pending (ring.rs:163-167) is the number of unread         *)
(* messages, one short while the producer is between its two stores.       *)
THEOREM PendingCount == Spec => []PendingIsClose
<1>1. TypeOK /\ RingInv => PendingIsClose
  BY DEF TypeOK, RingInv, CursorsCountHistory, PendingIsClose, Pending
<1> QED BY <1>1, TypeCorrect, RingInvariant, PTL

(* "Returns false if the ring is full" (ring.rs:89): try_publish answers   *)
(* false only when Capacity messages are unread.                           *)
THEOREM RefusalMeansFull == Spec => RefusedOnlyWhenFull
<1>1. TypeOK /\ RingInv /\ [Next]_vars
        => [(pres' = "full" /\ pres # "full") => Len(sent) - Len(got) = Capacity]_vars
  <2> SUFFICES ASSUME TypeOK, RingInv, Next, pres' = "full", pres # "full"
               PROVE  Len(sent) - Len(got) = Capacity
    OBVIOUS
  <2>1. PublishRefused
    BY DEF Next, Producer, Consumer, Consume, PublishBegin, PublishCopy, PublishSeq,
           PublishHead, ProducerAttach, ConsumeNone, ConsumeBegin, ConsumeCopy,
           ConsumeTail, ConsumerAttach, ProducerKilled, ProducerDown,
           ConsumerKilled, prod
  <2>2. /\ head \in Nat /\ tail \in Nat /\ pnext = head /\ Len(sent) = head
        /\ Len(got) = tail /\ tail <= head /\ head <= tail + Capacity
    BY <2>1 DEF PublishRefused, TypeOK, RingInv, CursorsCountHistory
  <2> QED BY <2>1, <2>2, CapacityAssumption DEF PublishRefused, Full, WrappingSub
<1> QED BY <1>1, TypeCorrect, RingInvariant, PTL DEF Spec, RefusedOnlyWhenFull

(* try_consume (ring.rs:139-160) answers None only when every message      *)
(* published before it looked was delivered.                               *)
THEOREM NoneMeansEmpty == Spec => NoneOnlyWhenEmpty
<1>1. TypeOK /\ RingInv /\ [Next]_vars
        => [(cres' = "empty" /\ cres # "empty") => Len(sent) = Len(got)]_vars
  <2> SUFFICES ASSUME TypeOK, RingInv, Next, cres' = "empty", cres # "empty"
               PROVE  Len(sent) = Len(got)
    OBVIOUS
  <2>1. ConsumeNone
    BY DEF Next, Producer, Consumer, Consume, PublishRefused, PublishBegin, PublishCopy,
           PublishSeq, PublishHead, ProducerAttach, ConsumeBegin, ConsumeCopy,
           ConsumeTail, ConsumerAttach, ProducerKilled, ProducerDown,
           ConsumerKilled, cons
  <2>2. /\ tail \in Nat /\ Len(sent) \in Nat /\ cnext = tail
        /\ Len(got) = tail /\ tail <= Len(sent)
    BY <2>1 DEF ConsumeNone, TypeOK, RingInv, CursorsCountHistory
  <2>3. tail < Len(sent) => Ready
    BY <2>2 DEF RingInv, UnreadSlotsIntact, Ready
  <2> QED BY <2>1, <2>2, <2>3 DEF ConsumeNone
<1> QED BY <1>1, TypeCorrect, RingInvariant, PTL DEF Spec, NoneOnlyWhenEmpty

(* The ring implements a bounded FIFO (module BoundedFifo): the store of   *)
(* seq is the publish, the store of tail the consume, and every other step *)
(* of either process, a kill or a re-attachment included, is a stutter.    *)
THEOREM RingImplementsFifo == Spec => RefinesFifo
<1>1. Init => Fifo!Init
  BY DEF Init, Fifo!Init
<1>2. TypeOK /\ RingInv /\ [Next]_vars => [Fifo!Next]_<<sent, got>>
  <2> SUFFICES ASSUME TypeOK, RingInv, [Next]_vars
               PROVE  Fifo!Next \/ UNCHANGED <<sent, got>>
    OBVIOUS
  <2>1. CASE PublishSeq
    <3>1. Len(sent) - Len(got) < Capacity
      BY <2>1, CapacityAssumption
         DEF PublishSeq, TypeOK, RingInv, CursorsCountHistory, CopyingIn
    <3>2. Bytes(pmsg) \in Published
      BY <2>1 DEF PublishSeq, TypeOK, Published
    <3>3. Fifo!Publish(Bytes(pmsg))
      BY <2>1, <3>1 DEF PublishSeq, Fifo!Publish
    <3> QED BY <3>2, <3>3 DEF Fifo!Next
  <2>2. CASE ConsumeTail
    <3>1. /\ Len(got) = tail /\ tail \in Nat /\ tail < Len(sent)
          /\ Len(sent) \in Nat
      BY <2>2 DEF ConsumeTail, TypeOK, RingInv, CursorsCountHistory, CopyingOut
    <3>2. sent[tail + 1] \in Published
      BY <3>1 DEF TypeOK
    <3>3. PICK m \in Msgs : sent[tail + 1] = Bytes(m)
      BY <3>2 DEF Published
    <3>4. \A w \in Words : out[w] = sent[tail + 1][w]
      BY <2>2 DEF ConsumeTail, RingInv, CopyingOut
    <3>5. out = sent[tail + 1]
      BY <3>3, <3>4 DEF Bytes, TypeOK
    <3> QED BY <2>2, <3>1, <3>5 DEF ConsumeTail, Fifo!Next, Fifo!Consume
  <2>3. CASE ~PublishSeq /\ ~ConsumeTail
    BY <2>3 DEF Next, Producer, Consumer, Consume, PublishRefused, PublishBegin,
           PublishCopy, PublishHead, ProducerAttach, ConsumeNone, ConsumeBegin,
           ConsumeCopy, ConsumerAttach, ProducerKilled, ProducerDown,
           ConsumerKilled, hist, vars
  <2> QED BY <2>1, <2>2, <2>3
<1> QED BY <1>1, <1>2, TypeCorrect, RingInvariant, PTL DEF Spec, RefinesFifo, Fifo!Spec
=============================================================================
