------------------------------- MODULE Relay -------------------------------
(***************************************************************************)
(* What the feedhandler promises between the socket and the ticks ring:    *)
(* datagrams are handled one at a time, in the order in which the kernel   *)
(* handed them over, none twice and none left out.  A short one is bad,    *)
(* any other is published, or dropped if the ring is full at that moment.  *)
(***************************************************************************)
EXTENDS Naturals, Sequences

CONSTANTS Short,       \* the datagrams shorter than a MarketTick
          Capacity     \* RING_CAPACITY of the ticks ring

VARIABLES taken,       \* datagrams the kernel handed over
          handled,     \* of these, handled
          bad, dropped,
          published,   \* ticks published, in order
          unread       \* of these, not consumed yet

Init == /\ taken = 0 /\ handled = 0 /\ bad = 0 /\ dropped = 0
        /\ published = <<>> /\ unread = 0

Receive == /\ taken' = taken + 1
           /\ UNCHANGED <<handled, bad, dropped, published, unread>>

(* The next datagram.                                                      *)
HandleNext == /\ handled < taken
              /\ handled' = handled + 1
              /\ UNCHANGED taken

Refuse == /\ HandleNext /\ handled + 1 \in Short
          /\ bad' = bad + 1
          /\ UNCHANGED <<dropped, published, unread>>

Publish == /\ HandleNext /\ handled + 1 \notin Short /\ unread < Capacity
           /\ published' = Append(published, handled + 1)
           /\ unread' = unread + 1
           /\ UNCHANGED <<bad, dropped>>

Drop == /\ HandleNext /\ handled + 1 \notin Short /\ unread = Capacity
        /\ dropped' = dropped + 1
        /\ UNCHANGED <<bad, published, unread>>

(* The other end of the ring.                                              *)
Consume == /\ unread > 0 /\ unread' = unread - 1
           /\ UNCHANGED <<taken, handled, bad, dropped, published>>

Next == Receive \/ Refuse \/ Publish \/ Drop \/ Consume

Spec == Init /\ [][Next]_<<taken, handled, bad, dropped, published, unread>>
=============================================================================
