-------------------------------- MODULE Ring --------------------------------
(***************************************************************************)
(* The lock-free ring buffer of util/pt_ring.c: one thread pushes, another *)
(* pops, and they share two indices.  A call is split where the other      *)
(* thread can see it: it loads the indices, copies the slot, and stores    *)
(* its own index.  The stores release and the loads acquire, so the steps  *)
(* interleave as written.                                                  *)
(***************************************************************************)
EXTENDS Naturals, Sequences

CONSTANTS
  Values,     \* what is pushed
  NoValue,    \* an unwritten slot, a pop not yet made
  Capacity,   \* slots of the ring: 2^capacity_pow2
  MaxDropped  \* bound: pushes refused

ASSUME RingAssumption ==
  /\ Capacity \in Nat /\ Capacity > 1
  /\ NoValue \notin Values
  /\ MaxDropped \in Nat

VARIABLES
  slots,     \* r->buf
  head,      \* r->head, written by the producer only
  tail,      \* r->tail, written by the consumer only
  dropped,   \* r->dropped
  pushing,   \* the producer: "idle", or how far its push is, and the value
  popping,   \* the consumer: "idle", or how far its pop is, and the value copied
  popped     \* the value the last pop returned

ring_vars == <<slots, head, tail, dropped, pushing, popping, popped>>

Indices == 0 .. Capacity - 1

RingTypeOK ==
  /\ slots \in [Indices -> Values \cup {NoValue}]
  /\ head \in Indices /\ tail \in Indices
  /\ dropped \in Nat
  /\ pushing \in [at : {"idle", "copy", "store"}, value : Values \cup {NoValue}]
  /\ popping \in [at : {"idle", "copy", "store"}, value : Values \cup {NoValue}]
  /\ popped \in Values \cup {NoValue}

Idle == [at |-> "idle", value |-> NoValue]

RingInit ==
  /\ slots = [i \in Indices |-> NoValue]
  /\ head = 0 /\ tail = 0 /\ dropped = 0
  /\ pushing = Idle /\ popping = Idle
  /\ popped = NoValue

\* ring_next_: the mask wraps an index of the ring to 0.
ring_next(i) == IF i + 1 = Capacity THEN 0 ELSE i + 1

\* pt_ring_len.
ring_len == IF head >= tail THEN head - tail ELSE head - tail + Capacity

\* Seeded fault: all the slots are used, so that a full ring looks empty.
FullNever(h, t) == FALSE

\* One slot stays free: it tells a full ring from an empty one.
Full(h, t) == ring_next(h) = t

PushLoad(v) ==
  /\ pushing.at = "idle"
  /\ ~Full(head, tail)
  /\ pushing' = [at |-> "copy", value |-> v]
  /\ UNCHANGED <<slots, head, tail, dropped, popping, popped>>

PushFull ==
  /\ pushing.at = "idle"
  /\ Full(head, tail)
  /\ dropped < MaxDropped
  /\ dropped' = dropped + 1
  /\ UNCHANGED <<slots, head, tail, pushing, popping, popped>>

PushCopy ==
  /\ pushing.at = "copy"
  /\ slots' = [slots EXCEPT ![head] = pushing.value]
  /\ pushing' = [pushing EXCEPT !.at = "store"]
  /\ UNCHANGED <<head, tail, dropped, popping, popped>>

PushStore ==
  /\ pushing.at = "store"
  /\ head' = ring_next(head)
  /\ pushing' = Idle
  /\ UNCHANGED <<slots, tail, dropped, popping, popped>>

\* An empty ring makes pt_ring_pop return at once and changes nothing.
PopLoad ==
  /\ popping.at = "idle"
  /\ tail # head
  /\ popping' = [at |-> "copy", value |-> NoValue]
  /\ UNCHANGED <<slots, head, tail, dropped, pushing, popped>>

\* pt_ring_peek makes the same copy and stores nothing.
PopCopy ==
  /\ popping.at = "copy"
  /\ popping' = [at |-> "store", value |-> slots[tail]]
  /\ UNCHANGED <<slots, head, tail, dropped, pushing, popped>>

PopStore ==
  /\ popping.at = "store"
  /\ tail' = ring_next(tail)
  /\ popped' = popping.value
  /\ popping' = Idle
  /\ UNCHANGED <<slots, head, dropped, pushing>>

RingNext ==
  \/ \E v \in Values : PushLoad(v)
  \/ PushFull \/ PushCopy \/ PushStore
  \/ PopLoad \/ PopCopy \/ PopStore

RingSpec == RingInit /\ [][RingNext]_ring_vars

-----------------------------------------------------------------------------
(***************************************************************************)
(* The ring implements a bounded queue.                                    *)
(***************************************************************************)

\* The slot of the n-th value from the tail.
SlotOf(n) == IF tail + n < Capacity THEN tail + n ELSE tail + n - Capacity

Contents == [n \in 1 .. ring_len |-> slots[SlotOf(n - 1)]]

Fifo == INSTANCE BoundedQueue
          WITH Data <- Values, Bound <- Capacity - 1, NoDatum <- NoValue,
               queue <- Contents, taken <- popped, refused <- dropped

\* However the two threads interleave, the values pushed are popped in order, each once and
\* whole, and a push is refused only while Capacity - 1 values wait.
RingIsFifo == Fifo!Spec

=============================================================================
