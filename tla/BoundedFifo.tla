----------------------------- MODULE BoundedFifo -----------------------------
(***************************************************************************)
(* What one shared-memory ring promises to the two processes attached to   *)
(* it: an ordered, lossless, duplicate-free channel of at most Capacity    *)
(* unread messages.  It is stated over the whole history of the ring:      *)
(* sent is every message published, got every message delivered.           *)
(***************************************************************************)
EXTENDS Naturals, Sequences

CONSTANTS Msgs,       \* the messages that may be published
          Capacity    \* RING_CAPACITY

VARIABLES sent, got

Init == sent = <<>> /\ got = <<>>

(* A publish that succeeds appends one message, and only if there is room. *)
Publish(m) == /\ Len(sent) - Len(got) < Capacity
              /\ sent' = Append(sent, m)
              /\ got' = got

(* A consume that succeeds delivers exactly the oldest undelivered one.    *)
Consume == /\ Len(got) < Len(sent)
           /\ got' = Append(got, sent[Len(got) + 1])
           /\ sent' = sent

Next == Consume \/ \E m \in Msgs : Publish(m)

Spec == Init /\ [][Next]_<<sent, got>>
=============================================================================
