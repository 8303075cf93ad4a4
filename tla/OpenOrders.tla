----------------------------- MODULE OpenOrders -----------------------------
(***************************************************************************)
(* What a matching engine promises whoever submits orders to it, whatever  *)
(* its queues, latencies and order slots look like inside: an order opens  *)
(* once under a fresh id with shares to trade, its open shares only        *)
(* shrink, and once it is over it never comes back.                        *)
(***************************************************************************)
EXTENDS Integers

VARIABLES
  left,  \* the open orders: from order ids to shares still to trade
  last   \* the last id given out

Init ==
  /\ left = [oid \in {} |-> 0]
  /\ last = 0

\* A new order, under the next id.
Place ==
  /\ last' = last + 1
  /\ DOMAIN left' = DOMAIN left \cup {last + 1}
  /\ left'[last + 1] \in Nat \ {0}
  /\ \A oid \in DOMAIN left : left'[oid] = left[oid]

\* Fills and cancels: any number of open orders shrink or end in one event.
Work ==
  /\ last' = last
  /\ DOMAIN left' \subseteq DOMAIN left
  /\ \A oid \in DOMAIN left' : left'[oid] \in 1 .. left[oid]

Next == Place \/ Work

Spec == Init /\ [][Next]_<<left, last>>

=============================================================================
