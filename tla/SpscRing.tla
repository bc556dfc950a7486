------------------------------ MODULE SpscRing ------------------------------
(***************************************************************************)
(* The single-producer / single-consumer ring of crates/shmbus/src/ring.rs *)
(* as one producer process and one consumer process see it: try_publish,   *)
(* try_consume, pending, and the re-attachment of a handle (new) after its *)
(* process was killed.                                                     *)
(*                                                                         *)
(* A step is one access to shared memory: an atomic load or store, or the  *)
(* copy of one word of a payload.  Every store another process reads is a  *)
(* Release store read by an Acquire load, and it comes after the writes it *)
(* publishes in program order, so interleaving the accesses in program     *)
(* order shows the consumer what the hardware may show it.                 *)
(*                                                                         *)
(* A message stands for its bytes: a payload word holds the message it was *)
(* copied from, so a payload whose words differ is a torn one.             *)
(***************************************************************************)
EXTENDS Integers, Sequences

CONSTANTS Capacity,   \* RING_CAPACITY
          U64,        \* number of values of a cursor: 2^64 in the code
          Words,      \* the words of a payload, copied one by one
          Msgs,       \* what may be published
          NoMsg       \* the zero bytes of a word nothing was copied to

ASSUME CapacityAssumption == Capacity \in Nat \ {0}
ASSUME U64Assumption == U64 \in Nat /\ Capacity < U64
ASSUME NoMsgAssumption == NoMsg \notin Msgs

VARIABLES
  \* shared memory
  head,      \* producer cursor
  tail,      \* consumer cursor
  seq,       \* seq[i]: the sequence word of slot i
  payload,   \* payload[i][w]: word w of slot i
  \* the producer's process
  ppc,       \* where it is in try_publish
  pnext,     \* RingProducer.next_seq
  pmsg,      \* the bytes being published
  pdone,     \* the words already copied into the slot
  pres,      \* what its last try_publish returned
  \* the consumer's process
  cpc,       \* where it is in try_consume
  cnext,     \* RingConsumer.next_seq
  out,       \* the caller's buffer
  cdone,     \* the words already copied out of the slot
  cres,      \* what its last try_consume returned
  \* history
  sent,      \* the bytes of every message whose seq was stored, in order
  got        \* every buffer a successful try_consume filled, in order

shared == <<head, tail, seq, payload>>
prod == <<ppc, pnext, pmsg, pdone, pres>>
cons == <<cpc, cnext, out, cdone, cres>>
hist == <<sent, got>>
vars == <<shared, prod, cons, hist>>

Slots == 0 .. Capacity - 1
Slot(n) == n % Capacity

(* u64::wrapping_sub. *)
WrappingSub(a, b) == IF a >= b THEN a - b ELSE (a - b) + U64

(* The bytes of message m, word by word, and a zeroed buffer.              *)
Bytes(m) == [w \in Words |-> m]
Zeroed == [w \in Words |-> NoMsg]
Published == {Bytes(m) : m \in Msgs}

-----------------------------------------------------------------------------
(* SpscRing::init_in_place on zeroed memory, then both handles created.    *)
Init == /\ head = 0 /\ tail = 0
        /\ seq = [i \in Slots |-> 0]
        /\ payload = [i \in Slots |-> Zeroed]
        /\ ppc = "idle" /\ pnext = 0 /\ pmsg = NoMsg /\ pdone = {} /\ pres = "none"
        /\ cpc = "idle" /\ cnext = 0 /\ out = Zeroed /\ cdone = {} /\ cres = "none"
        /\ sent = <<>> /\ got = <<>>

-----------------------------------------------------------------------------
(* try_publish.                                                            *)

(* Not the code: one slot too many, and one too few.                       *)
Full_OneTooMany == WrappingSub(pnext, tail) > Capacity
Full_OneTooFew == WrappingSub(pnext, tail) >= Capacity - 1

(* The test made after loading tail.                                       *)
Full == WrappingSub(pnext, tail) >= Capacity

PublishRefused ==
  /\ ppc = "idle"
  /\ Full
  /\ pres' = "full"
  /\ UNCHANGED <<shared, ppc, pnext, pmsg, pdone, cons, hist>>

(* There is room.  next_seq + 1 stays below 2^64: the only bound.          *)
PublishBegin(m) ==
  /\ ppc = "idle"
  /\ ~Full
  /\ pnext + 1 < U64
  /\ ppc' = "copy" /\ pmsg' = m /\ pdone' = {} /\ pres' = "none"
  /\ UNCHANGED <<shared, pnext, cons, hist>>

(* copy_nonoverlapping and write_bytes, which fix no order between words.  *)
PublishCopy(w) ==
  /\ ppc = "copy"
  /\ w \notin pdone
  /\ payload' = [payload EXCEPT ![Slot(pnext)][w] = pmsg]
  /\ pdone' = pdone \cup {w}
  /\ UNCHANGED <<head, tail, seq, ppc, pnext, pmsg, pres, cons, hist>>

(* Not the code: seq stored while words are still to be copied.            *)
PublishSeq_BeforeCopy ==
  /\ ppc = "copy"
  /\ seq' = [seq EXCEPT ![Slot(pnext)] = pnext + 1]
  /\ sent' = Append(sent, Bytes(pmsg))
  /\ ppc' = "head"
  /\ UNCHANGED <<head, tail, payload, pnext, pmsg, pdone, pres, cons, got>>

(* slot.seq.store(head + 1, Release): the message becomes visible.         *)
PublishSeq ==
  /\ ppc = "copy"
  /\ pdone = Words
  /\ seq' = [seq EXCEPT ![Slot(pnext)] = pnext + 1]
  /\ sent' = Append(sent, Bytes(pmsg))
  /\ ppc' = "head"
  /\ UNCHANGED <<head, tail, payload, pnext, pmsg, pdone, pres, cons, got>>

(* next_seq and head move on, and the call returns true.                   *)
PublishHead ==
  /\ ppc = "head"
  /\ pnext' = pnext + 1
  /\ head' = pnext + 1
  /\ ppc' = "idle" /\ pmsg' = NoMsg /\ pdone' = {} /\ pres' = "ok"
  /\ UNCHANGED <<tail, seq, payload, cons, hist>>

-----------------------------------------------------------------------------
(* try_consume.                                                            *)

(* The slot the consumer expects carries the sequence it expects.          *)
Ready == seq[Slot(cnext)] = cnext + 1

ConsumeNone ==
  /\ cpc = "idle"
  /\ ~Ready
  /\ cres' = "empty"
  /\ UNCHANGED <<shared, prod, cpc, cnext, out, cdone, hist>>

ConsumeBegin ==
  /\ cpc = "idle"
  /\ Ready
  /\ cpc' = "copy" /\ cdone' = {} /\ cres' = "none"
  /\ UNCHANGED <<shared, prod, cnext, out, hist>>

ConsumeCopy(w) ==
  /\ cpc = "copy"
  /\ w \notin cdone
  /\ out' = [out EXCEPT ![w] = payload[Slot(cnext)][w]]
  /\ cdone' = cdone \cup {w}
  /\ UNCHANGED <<shared, prod, cpc, cnext, cres, hist>>

(* Not the code: tail stored while words are still to be copied.           *)
ConsumeTail_BeforeCopy ==
  /\ cpc = "copy"
  /\ cnext' = cnext + 1
  /\ tail' = cnext + 1
  /\ got' = Append(got, out)
  /\ cpc' = "idle" /\ cdone' = {} /\ out' = Zeroed /\ cres' = "msg"
  /\ UNCHANGED <<head, seq, payload, prod, sent>>

(* next_seq and tail move on, and the call returns: the slot is released   *)
(* and the buffer is the caller's.                                         *)
ConsumeTail ==
  /\ cpc = "copy"
  /\ cdone = Words
  /\ cnext' = cnext + 1
  /\ tail' = cnext + 1
  /\ got' = Append(got, out)
  /\ cpc' = "idle" /\ cdone' = {} /\ out' = Zeroed /\ cres' = "msg"
  /\ UNCHANGED <<head, seq, payload, prod, sent>>

(* Not the code: the subtraction wraps instead of saturating.              *)
Pending_Wraps == WrappingSub(head, cnext)

(* RingConsumer::pending: a snapshot of head, saturating.                  *)
Pending == IF head >= cnext THEN head - cnext ELSE 0

-----------------------------------------------------------------------------
(* A process may be killed anywhere (the binaries install no handler for   *)
(* SIGTERM, which is what the scripts send) and started again; its handle  *)
(* then resumes from the cursor it finds in shared memory.  Of the         *)
(* producer, Next kills every state but the one between its two stores:    *)
(* that one is PublishKilledBetweenStores.                                 *)

ProducerDown == /\ ppc' = "down" /\ pmsg' = NoMsg /\ pdone' = {} /\ pres' = "none"
                /\ UNCHANGED <<shared, pnext, cons, hist>>

ProducerKilled == ppc \in {"idle", "copy"} /\ ProducerDown

PublishKilledBetweenStores == ppc = "head" /\ ProducerDown

(* RingProducer::new on a ring that is already initialised.                *)
ProducerAttach ==
  /\ ppc = "down"
  /\ pnext' = head
  /\ ppc' = "idle"
  /\ UNCHANGED <<shared, pmsg, pdone, pres, cons, hist>>

ConsumerKilled ==
  /\ cpc # "down"
  /\ cpc' = "down" /\ out' = Zeroed /\ cdone' = {} /\ cres' = "none"
  /\ UNCHANGED <<shared, cnext, prod, hist>>

(* Not the code: the consumer resumes from the producer's cursor.          *)
ConsumerAttach_AtHead ==
  /\ cpc = "down"
  /\ cnext' = head
  /\ cpc' = "idle"
  /\ UNCHANGED <<shared, out, cdone, cres, prod, hist>>

(* RingConsumer::new on a ring that is already initialised.                *)
ConsumerAttach ==
  /\ cpc = "down"
  /\ cnext' = tail
  /\ cpc' = "idle"
  /\ UNCHANGED <<shared, out, cdone, cres, prod, hist>>

-----------------------------------------------------------------------------
Producer == \/ PublishRefused
            \/ \E m \in Msgs : PublishBegin(m)
            \/ \E w \in Words : PublishCopy(w)
            \/ PublishSeq
            \/ PublishHead
            \/ ProducerAttach

Consume == \/ ConsumeBegin
           \/ \E w \in Words : ConsumeCopy(w)
           \/ ConsumeTail

Consumer == ConsumeNone \/ Consume \/ ConsumerAttach

Next == Producer \/ Consumer \/ ProducerKilled \/ ConsumerKilled

Spec == Init /\ [][Next]_vars

(* Both processes poll in a loop for as long as they live; a killed        *)
(* consumer is started again.                                              *)
FairSpec == Spec /\ WF_vars(Consume) /\ WF_vars(ConsumerAttach)

(* The same ring when a producer may also die between its two stores.      *)
KillSpec == Init /\ [][Next \/ PublishKilledBetweenStores]_vars

-----------------------------------------------------------------------------
TypeOK ==
  /\ head \in Nat /\ tail \in Nat
  /\ seq \in [Slots -> Nat]
  /\ payload \in [Slots -> [Words -> Msgs \cup {NoMsg}]]
  /\ ppc \in {"idle", "copy", "head", "down"}
  /\ pnext \in Nat /\ pmsg \in Msgs \cup {NoMsg} /\ pdone \in SUBSET Words
  /\ ppc = "copy" => pmsg \in Msgs
  /\ pres \in {"none", "ok", "full"}
  /\ cpc \in {"idle", "copy", "down"}
  /\ cnext \in Nat /\ out \in [Words -> Msgs \cup {NoMsg}] /\ cdone \in SUBSET Words
  /\ cres \in {"none", "msg", "empty"}
  /\ sent \in Seq(Published)
  /\ got \in Seq([Words -> Msgs \cup {NoMsg}])

(***************************************************************************)
(* The ring is a bounded FIFO: what a successful try_consume hands out is, *)
(* whole, the oldest message not handed out before, and no more than       *)
(* Capacity messages are ever unread (ring.rs:19-22, lib.rs:7-8).  A torn  *)
(* buffer is the bytes of no message and matches no step of the FIFO.      *)
(***************************************************************************)
Fifo == INSTANCE BoundedFifo WITH Msgs <- Published
RefinesFifo == Fifo!Spec

(***************************************************************************)
(* Why it is a FIFO: the inductive invariant behind the properties below.  *)
(***************************************************************************)

(* Each cursor counts its history, except between the producer's stores;   *)
(* a live handle agrees with its cursor; the consumer is never ahead.      *)
CursorsCountHistory ==
  /\ Len(sent) = IF ppc = "head" THEN head + 1 ELSE head
  /\ ppc # "down" => pnext = head
  /\ Len(got) = tail
  /\ cpc # "down" => cnext = tail
  /\ tail <= Len(sent)
  /\ Len(sent) <= tail + Capacity
  /\ Len(sent) < U64

(* Every unread message sits, whole, in the slot its number selects, and   *)
(* no slot carries a sequence that was not published yet.                  *)
UnreadSlotsIntact ==
  /\ \A i \in Slots : seq[i] <= Len(sent)
  /\ \A n \in tail .. Len(sent) - 1 :
        seq[Slot(n)] = n + 1 /\ payload[Slot(n)] = sent[n + 1]

(* A producer in the middle of a copy has a slot no unread message uses.   *)
CopyingIn ==
  ppc = "copy" => /\ head < tail + Capacity
                  /\ head + 1 < U64
                  /\ \A w \in pdone : payload[Slot(head)][w] = pmsg

(* A consumer in the middle of a copy copies the oldest unread message.    *)
CopyingOut ==
  cpc = "copy" => /\ tail < Len(sent)
                  /\ \A w \in cdone : out[w] = sent[tail + 1][w]

RingInv == CursorsCountHistory /\ UnreadSlotsIntact /\ CopyingIn /\ CopyingOut

(* Whoever is killed and attached again: the cursors in shared memory count*)
(* what was published and consumed, every unread message is whole in the   *)
(* slot its number selects, with its seq word (try_publish, try_consume),  *)
(* and a copy under way touches no other message.  With the types, this is *)
(* the inductive invariant of the ring.                                    *)
RingWellFormed == TypeOK /\ RingInv

(***************************************************************************)
(* "We own this slot until we bump seq" (ring.rs:103): while the producer  *)
(* copies into a slot, the consumer neither copies out of it nor would     *)
(* find it ready.                                                          *)
(***************************************************************************)
ProducerOwnsSlot ==
  (ppc = "copy" /\ cpc # "down" /\ Slot(cnext) = Slot(pnext)) => cpc = "idle" /\ ~Ready

(***************************************************************************)
(* "Returns false if the ring is full" (ring.rs:89): try_publish refuses a *)
(* message only when Capacity published messages have not been consumed.   *)
(***************************************************************************)
RefusedOnlyWhenFull ==
  [][(pres' = "full" /\ pres # "full") => Len(sent) - Len(got) = Capacity]_vars

(***************************************************************************)
(* try_consume answers None only if every message published before its     *)
(* load of seq was delivered: nothing is skipped, even for a consumer that *)
(* re-attached.                                                            *)
(***************************************************************************)
NoneOnlyWhenEmpty ==
  [][(cres' = "empty" /\ cres # "empty") => Len(sent) = Len(got)]_vars

(***************************************************************************)
(* pending (ring.rs:162) counts the unread messages, short of the one      *)
(* whose head store is still to come.                                      *)
(***************************************************************************)
PendingIsClose ==
  cpc # "down" => Pending = Len(sent) - Len(got) - (IF ppc = "head" /\ Len(sent) > Len(got) THEN 1 ELSE 0)

(***************************************************************************)
(* Unless the consumer is killed again and again for ever, every published *)
(* message is delivered, whatever happens to the producer.                 *)
(***************************************************************************)
EventuallyDelivered ==
  (<>[][~ConsumerKilled]_vars) =>
     \A n \in 1 .. U64 : (Len(sent) >= n) ~> (Len(got) >= n)
=============================================================================
