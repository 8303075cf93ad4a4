--------------------------- MODULE SimQueueProofs ---------------------------
(***************************************************************************)
(* Proofs about SimQueue, for any number of slots, markets, prices, books, *)
(* latencies and queue models.                                             *)
(*                                                                         *)
(* The safety invariants speak of one order at a time, so the inductive    *)
(* invariant says that every slot holds a sound order, and that the loop's *)
(* time t0 is not ahead of the clock (a tick at t0 is never early).        *)
(***************************************************************************)
EXTENDS SimQueue, Sums, TLAPS

\* SharesConserved, of one order.
Conserved(o) ==
  /\ o.filled_size + o.remaining_size = o.original_size
  /\ o.state # "CREATED" => (o.state = "FILLED" <=> o.remaining_size = 0)

\* QueueAccounted, of one order.
Accounted(o) ==
  o.queue_ahead + o.consumed_volume + o.cancel_volume = o.queue_ahead_at_submit

\* NothingBeforeArrival, of one order at time now.
Touched(o) ==
  \/ o.filled_size > 0
  \/ o.queue_ahead # o.queue_ahead_at_submit
  \/ o.state \in {"LIVE", "PARTIAL", "FILLED"}

Sound(o, now) ==
  /\ o \in Order
  /\ Conserved(o)
  /\ Accounted(o)
  /\ Touched(o) => now >= o.arrival_t

IInv ==
  /\ TypeOK
  /\ t0 <= clock
  /\ \A s \in Slots : Sound(orders[s], clock)

-----------------------------------------------------------------------------
(***************************************************************************)
(* What each step does to one order keeps it sound.                        *)
(***************************************************************************)

\* A slot that never held an order is sound.
LEMMA EmptyOrderSound ==
  ASSUME NEW now \in Nat
  PROVE  Sound(EmptyOrder, now)
BY ConstantsAssumption DEF Sound, EmptyOrder, Order, Conserved, Accounted, Touched, OrderStates, OrderTypes, Sides

\* A request accepted by submit makes a sound order that has not arrived.
LEMMA NewOrderSound ==
  ASSUME NEW oid \in Nat, NEW request \in Requests, NEW queue \in Nat, t0 \in Nat, NEW now \in Nat
  PROVE  Sound(NewOrder(oid, request, queue), now)
<1>1. /\ request.market \in Markets /\ request.is_yes \in BOOLEAN
      /\ request.side \in Sides /\ request.type \in OrderTypes
      /\ request.price \in Nat /\ request.size \in 1 .. MaxSize
  BY ConstantsAssumption DEF Request
<1>2. NewOrder(oid, request, queue) \in Order
  BY <1>1, ConstantsAssumption DEF NewOrder, Order, OrderStates
<1>3. /\ Conserved(NewOrder(oid, request, queue))
      /\ Accounted(NewOrder(oid, request, queue))
      /\ ~Touched(NewOrder(oid, request, queue))
  BY <1>1, ConstantsAssumption DEF NewOrder, Conserved, Accounted, Touched
<1>. QED
  BY <1>2, <1>3 DEF Sound

\* Arriving keeps an order sound.
LEMMA ArriveSound ==
  ASSUME NEW o, NEW now \in Nat, NEW later \in Nat, now <= later, Sound(o, later)
  PROVE  Sound(Arrive(o, now), later)
BY DEF Sound, Arrive, Order, Conserved, Accounted, Touched, OrderStates

\* A fill of no more than what remains.
LEMMA FillSound ==
  ASSUME NEW o, NEW now \in Nat, Sound(o, now), o.arrival_t <= now, o.remaining_size > 0,
         NEW qty \in 0 .. o.remaining_size, NEW price \in Nat
  PROVE  /\ Sound(Fill(o, qty, price), now)
         /\ Fill(o, qty, price).remaining_size = o.remaining_size - qty
         /\ Fill(o, qty, price).arrival_t = o.arrival_t
<1>. DEFINE n == Fill(o, qty, price)
<1>1. o \in Order
  BY DEF Sound
<1>2. /\ o.filled_size \in Nat /\ o.cum_cost \in Nat
      /\ o.original_size \in 0 .. MaxSize /\ o.remaining_size \in 0 .. MaxSize
  BY <1>1 DEF Order
<1>3. o.filled_size + qty \in Nat /\ o.remaining_size - qty \in 0 .. MaxSize
  BY <1>2, ConstantsAssumption
<1>4. o.cum_cost + qty * price \in Nat
  <2>1. \A a, b \in Nat : a * b \in Nat
    OBVIOUS
  <2>. QED
    BY <1>2, <2>1, qty \in Nat
<1>5. n \in Order
  BY <1>1, <1>3, <1>4 DEF Fill, Order, OrderStates
<1>6. /\ n.filled_size = o.filled_size + qty
      /\ n.remaining_size = o.remaining_size - qty
      /\ n.original_size = o.original_size
      /\ n.state = IF o.remaining_size = qty THEN "FILLED" ELSE "PARTIAL"
      /\ n.queue_ahead = o.queue_ahead
      /\ n.queue_ahead_at_submit = o.queue_ahead_at_submit
      /\ n.consumed_volume = o.consumed_volume
      /\ n.cancel_volume = o.cancel_volume
      /\ n.arrival_t = o.arrival_t
  BY <1>1 DEF Fill, Order
<1>7. Conserved(n)
  BY <1>2, <1>6 DEF Sound, Conserved
<1>8. Accounted(n)
  BY <1>6 DEF Sound, Accounted
<1>. QED
  BY <1>5, <1>6, <1>7, <1>8 DEF Sound

\* An order in matching is not over, so something of it remains.
LEMMA MatchingRemains ==
  ASSUME NEW o, NEW now \in Nat, Sound(o, now), Matching(o)
  PROVE  o.remaining_size \in 1 .. MaxSize
<1>1. o.remaining_size \in 0 .. MaxSize
  BY DEF Sound, Order
<1>2. o.remaining_size # 0
  BY DEF Sound, Conserved, Matching
<1>. QED
  BY <1>1, <1>2, ConstantsAssumption

\* A trade against an order in matching leaves it sound.
LEMMA TradeAgainstSound ==
  ASSUME NEW o, NEW now \in Nat, Sound(o, now), InMatching(o, now),
         NEW size \in TradeSizes
  PROVE  Sound(TradeAgainst(o, size), now)
<1>1. /\ o \in Order /\ o.queue_ahead \in Nat /\ o.consumed_volume \in Nat
      /\ o.cancel_volume \in Nat /\ o.arrival_t <= now
  BY DEF Sound, Order, InMatching
<1>2. size \in Nat \ {0}
  BY ConstantsAssumption
<1>3. CASE o.queue_ahead >= size
  <2>. DEFINE n == [o EXCEPT !.queue_ahead = @ - size, !.consumed_volume = @ + size]
  <2>1. o.queue_ahead - size \in Nat /\ o.consumed_volume + size \in Nat
    BY <1>1, <1>2, <1>3
  <2>2. n \in Order
    BY <1>1, <2>1 DEF Order
  <2>3. /\ n.queue_ahead = o.queue_ahead - size
        /\ n.consumed_volume = o.consumed_volume + size
        /\ n.cancel_volume = o.cancel_volume
        /\ n.queue_ahead_at_submit = o.queue_ahead_at_submit
        /\ n.filled_size = o.filled_size /\ n.remaining_size = o.remaining_size
        /\ n.original_size = o.original_size /\ n.state = o.state
        /\ n.arrival_t = o.arrival_t
    BY <1>1 DEF Order
  <2>4. Conserved(n) /\ Accounted(n)
    BY <1>1, <1>2, <2>3 DEF Sound, Conserved, Accounted
  <2>. QED
    BY <1>1, <1>3, <2>2, <2>3, <2>4 DEF Sound, TradeAgainst
<1>4. CASE o.queue_ahead < size
  <2>. DEFINE m == [o EXCEPT !.queue_ahead = 0, !.consumed_volume = @ + o.queue_ahead]
              qty == Lesser(size - o.queue_ahead, o.remaining_size)
  <2>1. m \in Order
    <3>1. o.consumed_volume + o.queue_ahead \in Nat /\ 0 \in Nat
      BY <1>1
    <3>. QED
      BY <1>1, <3>1 DEF Order
  <2>2. /\ m.queue_ahead = 0
        /\ m.consumed_volume = o.consumed_volume + o.queue_ahead
        /\ m.cancel_volume = o.cancel_volume
        /\ m.queue_ahead_at_submit = o.queue_ahead_at_submit
        /\ m.filled_size = o.filled_size /\ m.remaining_size = o.remaining_size
        /\ m.original_size = o.original_size /\ m.state = o.state
        /\ m.arrival_t = o.arrival_t
    BY <1>1 DEF Order
  <2>3. Sound(m, now)
    <3>1. Conserved(m) /\ Accounted(m)
      BY <1>1, <2>2 DEF Sound, Conserved, Accounted
    <3>. QED
      BY <1>1, <2>1, <2>2, <3>1 DEF Sound
  <2>4. o.remaining_size \in Nat \ {0}
    BY MatchingRemains, ConstantsAssumption DEF InMatching
  <2>5. qty \in 0 .. o.remaining_size
    BY <1>1, <1>2, <1>4, <2>4 DEF Lesser
  <2>6. o.price \in Nat
    BY <1>1 DEF Order
  <2>7. Sound(Fill(m, qty, o.price), now)
    <3>1. /\ m.arrival_t <= now /\ m.remaining_size > 0 /\ qty \in 0 .. m.remaining_size
      BY <1>1, <2>2, <2>4, <2>5
    <3>. HIDE DEF m, qty
    <3>. QED
      BY <2>3, <2>6, <3>1, FillSound
  <2>8. ~(o.queue_ahead >= size)
    BY <1>1, <1>2, <1>4
  <2>9. TradeAgainst(o, size) = Fill(m, qty, o.price)
    BY <2>8, Zenon DEF TradeAgainst
  <2>. HIDE DEF m, qty
  <2>. QED
    BY <2>7, <2>9
<1>. QED
  BY <1>1, <1>2, <1>3, <1>4

\* Moving an order up by no more than the queue ahead leaves it sound.
LEMMA MoveUpSound ==
  ASSUME NEW o, NEW now \in Nat, Sound(o, now), InMatching(o, now),
         NEW n \in 0 .. o.queue_ahead
  PROVE  Sound(MoveUp(o, n), now)
<1>1. /\ o \in Order /\ o.queue_ahead \in Nat /\ o.cancel_volume \in Nat
      /\ o.consumed_volume \in Nat /\ o.arrival_t <= now
  BY DEF Sound, Order, InMatching
<1>2. o.queue_ahead - n \in Nat /\ o.cancel_volume + n \in Nat
  BY <1>1
<1>3. MoveUp(o, n) \in Order
  BY <1>1, <1>2 DEF MoveUp, Order
<1>4. Conserved(MoveUp(o, n)) /\ Accounted(MoveUp(o, n)) /\ MoveUp(o, n).arrival_t = o.arrival_t
  BY <1>1 DEF Sound, MoveUp, Conserved, Accounted, Order
<1>. QED
  BY <1>1, <1>3, <1>4 DEF Sound

\* No queue model moves an order up by more than the queue ahead of it.
LEMMA QueueReductionBounded ==
  ASSUME NEW o \in Order, NEW old \in Nat, NEW new \in Nat, new < old,
         queue_model \in {"CONSERVATIVE", "REALISTIC", "AGGRESSIVE"}
  PROVE  QueueReduction(o, old, new) \in 0 .. o.queue_ahead
<1>1. o.queue_ahead \in Nat
  BY DEF Order
<1>. DEFINE num == 2 * (old - new) * o.queue_ahead + old
<1>2. num \in Nat
  <2>1. \A a, b \in Nat : a * b \in Nat
    OBVIOUS
  <2>2. 2 * (old - new) \in Nat
    OBVIOUS
  <2>3. 2 * (old - new) * o.queue_ahead \in Nat
    BY <1>1, <2>1, <2>2
  <2>. QED
    BY <2>3
<1>3. num \div (2 * old) \in Nat
  <2>1. 2 * old \in Nat \ {0}
    OBVIOUS
  <2>2. \A a \in Nat, b \in Nat \ {0} : a \div b \in Nat
    OBVIOUS
  <2>. QED
    BY <1>2, <2>1, <2>2
<1>. HIDE DEF num
<1>4. CASE queue_model = "CONSERVATIVE"
  BY <1>1, <1>4 DEF QueueReduction
<1>5. CASE queue_model = "AGGRESSIVE"
  BY <1>1, <1>5 DEF QueueReduction, Lesser
<1>6. CASE queue_model = "REALISTIC"
  BY <1>1, <1>3, <1>6 DEF QueueReduction, Lesser, num
<1>. QED
  BY <1>4, <1>5, <1>6

\* A side of a book is a finite table of naturals, so the sums that a walk computes are
\* naturals, and a side with a level has some depth.
LEMMA BookSums ==
  ASSUME NEW book \in Books, NEW side \in Sides, NEW want \in Nat
  PROVE  /\ Depth(book, side) \in Nat
         /\ Levels(book, side) # {} => Depth(book, side) > 0
         /\ WalkCost(book, side, want) \in Nat
<1>. DEFINE f == SideOf(book, side)
            taken == Taken(book, side, want)
            paid == [p \in Prices |-> p * taken[p]]
<1>1. f \in [Prices -> Nat]
  BY ConstantsAssumption DEF SideOf, BookSide
<1>2. IsFiniteSet(Prices) /\ Prices \subseteq Nat
  BY ConstantsAssumption
<1>. HIDE DEF f
<1>3. \A s \in SUBSET Prices : IsFiniteSet(s) /\ SumFunctionOnSet(f, s) \in Nat
  <2>1. ASSUME NEW s \in SUBSET Prices
        PROVE  IsFiniteSet(s) /\ SumFunctionOnSet(f, s) \in Nat
    <3>1. IsFiniteSet(s)
      BY <1>2, FS_Subset
    <3>2. \A p \in s : f[p] \in Nat
      BY <1>1
    <3>. QED
      BY <3>1, <3>2, SumType
  <2>. QED
    BY <2>1
<1>4. Depth(book, side) = SumFunctionOnSet(f, Prices)
  BY <1>1, Zenon DEF Depth, SumFunction, f
<1>5. ASSUME Levels(book, side) # {}
      PROVE  Depth(book, side) > 0
  <2>1. PICK e \in Prices : f[e] > 0
    BY <1>5 DEF Levels, f
  <2>2. SumFunctionOnSet(f, Prices) = f[e] + SumFunctionOnSet(f, Prices \ {e})
    <3>1. \A p \in Prices : f[p] \in Int
      BY <1>1
    <3>. QED
      BY <1>2, <3>1, SumRemove
  <2>3. f[e] \in Nat /\ SumFunctionOnSet(f, Prices \ {e}) \in Nat
    BY <1>1, <1>3
  <2>. QED
    BY <1>4, <2>1, <2>2, <2>3
<1>6. \A p \in Prices : taken[p] \in Nat
  <2>1. ASSUME NEW p \in Prices
        PROVE  taken[p] \in Nat
    <3>. DEFINE better == SumFunctionOnSet(f, {q \in Prices : Ahead(side, q, p)})
    <3>1. better \in Nat /\ f[p] \in Nat
      BY <1>1, <1>3
    <3>2. taken[p] = IF better >= want THEN 0 ELSE Lesser(f[p], want - better)
      BY Zenon DEF Taken, f
    <3>. HIDE DEF better, taken
    <3>. QED
      BY <3>1, <3>2 DEF Lesser
  <2>. QED
    BY <2>1
<1>7. WalkCost(book, side, want) \in Nat
  <2>. HIDE DEF taken
  <2>1. \A p \in Prices : paid[p] \in Nat
    <3>1. \A m, n \in Nat : m * n \in Nat
      OBVIOUS
    <3>. QED
      BY <1>2, <1>6, <3>1
  <2>2. WalkCost(book, side, want) = SumFunctionOnSet(paid, Prices)
    BY Zenon DEF WalkCost, SumFunction, taken
  <2>. HIDE DEF paid
  <2>. QED
    BY <1>2, <2>1, <2>2, SumType
<1>8. Depth(book, side) \in Nat
  BY <1>3, <1>4
<1>. QED
  BY <1>5, <1>7, <1>8

\* What a walk of a book finds for an order in matching: at most what remains of the
\* order, at a natural price when it finds anything.
LEMMA WalkBounded ==
  ASSUME NEW book \in Books, NEW side \in Sides, NEW want \in 1 .. MaxSize
  PROVE  /\ WalkFill(book, side, want) \in 0 .. want
         /\ WalkFill(book, side, want) > 0 => WalkPrice(book, side, want) \in Nat
         /\ Levels(book, side) # {} => WalkFill(book, side, want) > 0
<1>1. /\ Depth(book, side) \in Nat
      /\ Levels(book, side) # {} => Depth(book, side) > 0
      /\ WalkCost(book, side, want) \in Nat
      /\ want \in Nat \ {0}
  BY BookSums, ConstantsAssumption
<1>2. /\ WalkFill(book, side, want) \in 0 .. want
      /\ Levels(book, side) # {} => WalkFill(book, side, want) > 0
  BY <1>1 DEF WalkFill, Lesser
<1>3. ASSUME WalkFill(book, side, want) > 0
      PROVE  WalkPrice(book, side, want) \in Nat
  <2>1. WalkFill(book, side, want) \in Nat \ {0}
    BY <1>1, <1>2, <1>3
  <2>2. \A a \in Nat, b \in Nat \ {0} : a \div b \in Nat
    OBVIOUS
  <2>. QED
    BY <1>1, <2>1, <2>2 DEF WalkPrice
<1>. QED
  BY <1>2, <1>3

\* Ending an order that still has shares to trade.
LEMMA CancelledSound ==
  ASSUME NEW o, NEW now \in Nat, Sound(o, now), o.remaining_size # 0
  PROVE  Sound([o EXCEPT !.state = "CANCELLED"], now)
BY DEF Sound, Order, Conserved, Accounted, Touched, OrderStates

\* Marking a filled order as filled.
LEMMA FilledSound ==
  ASSUME NEW o, NEW now \in Nat, Sound(o, now), o.remaining_size = 0, o.state = "FILLED"
  PROVE  Sound([o EXCEPT !.state = "FILLED"], now)
BY DEF Sound, Order, Conserved, Accounted, Touched, OrderStates

\* The other side of a side is a side.
LEMMA OppositeSide ==
  ASSUME NEW o, NEW now \in Nat, Sound(o, now)
  PROVE  Opposite(o.side) \in Sides
BY DEF Sound, Order, Opposite, Sides

\* An immediate order is sound after its only walk of the book.
LEMMA TakeNowSound ==
  ASSUME NEW o, NEW now \in Nat, Sound(o, now), InMatching(o, now), NEW book \in Books
  PROVE  Sound(TakeNow(o, book), now)
<1>. DEFINE opp == Opposite(o.side)
            qty == WalkFill(book, opp, o.remaining_size)
            hit == Fill(o, qty, WalkPrice(book, opp, o.remaining_size))
            end == [hit EXCEPT !.state = IF hit.remaining_size = 0 THEN "FILLED" ELSE "CANCELLED"]
<1>1. /\ o \in Order /\ opp \in Sides /\ o.arrival_t <= now
      /\ o.remaining_size \in 1 .. MaxSize
  BY OppositeSide, MatchingRemains DEF Sound, InMatching
<1>2. CASE qty = 0
  <2>1. Sound([o EXCEPT !.state = "CANCELLED"], now)
    BY <1>1, CancelledSound
  <2>. QED
    BY <1>2, <2>1, Zenon DEF TakeNow
<1>3. CASE qty # 0
  <2>1. qty \in 0 .. o.remaining_size /\ WalkPrice(book, opp, o.remaining_size) \in Nat
    <3>. HIDE DEF opp
    <3>. QED
      BY <1>1, <1>3, WalkBounded, ConstantsAssumption
  <2>2. Sound(hit, now) /\ hit.remaining_size = o.remaining_size - qty
    <3>1. o.remaining_size > 0
      BY <1>1, ConstantsAssumption
    <3>. HIDE DEF qty, opp
    <3>. QED
      BY <1>1, <2>1, <3>1, FillSound
  <2>3. hit.state = IF o.remaining_size = qty THEN "FILLED" ELSE "PARTIAL"
    BY <1>1 DEF Fill, Order
  <2>4. TakeNow(o, book) = end
    BY <1>3, Zenon DEF TakeNow
  <2>5. Sound(end, now)
    <3>. HIDE DEF hit, qty, opp
    <3>1. CASE hit.remaining_size = 0
      <4>1. hit.state = "FILLED"
        BY <1>1, <2>1, <2>2, <2>3, <3>1, ConstantsAssumption
      <4>2. Sound([hit EXCEPT !.state = "FILLED"], now)
        BY <2>2, <3>1, <4>1, FilledSound
      <4>. QED
        BY <3>1, <4>2
    <3>2. CASE hit.remaining_size # 0
      BY <2>2, <3>2, CancelledSound
    <3>. QED
      BY <3>1, <3>2
  <2>. QED
    BY <2>4, <2>5, Zenon
<1>. QED
  BY <1>2, <1>3

\* A swept order is sound after its walk of the book.
LEMMA SweepSound ==
  ASSUME NEW o, NEW now \in Nat, Sound(o, now), InMatching(o, now), NEW book \in Books,
         Swept(o, book)
  PROVE  Sound(Sweep(o, book), now)
<1>. DEFINE opp == Opposite(o.side)
            qty == WalkFill(book, opp, o.remaining_size)
            price == WalkPrice(book, opp, o.remaining_size)
<1>1. /\ o \in Order /\ opp \in Sides /\ o.arrival_t <= now
      /\ o.remaining_size \in 1 .. MaxSize /\ o.remaining_size > 0
  BY OppositeSide, MatchingRemains, ConstantsAssumption DEF Sound, InMatching
<1>2. Levels(book, opp) # {}
  BY DEF Swept
<1>3. qty \in 0 .. o.remaining_size /\ price \in Nat
  <2>. HIDE DEF opp
  <2>. QED
    BY <1>1, <1>2, WalkBounded
<1>4. Sound(Fill(o, qty, price), now)
  <2>. HIDE DEF opp, qty, price
  <2>. QED
    BY <1>1, <1>3, FillSound
<1>. QED
  BY <1>4, Zenon DEF Sweep

\* One slot's part of a tick leaves a sound order.
LEMMA TickOrderSound ==
  ASSUME NEW o, NEW now \in Nat, NEW later \in Nat, now <= later, Sound(o, later),
         NEW book \in Books
  PROVE  Sound(TickOrder(o, book, now), later)
<1>. DEFINE a == Arrive(o, now)
<1>1. Sound(a, later)
  BY ArriveSound
<1>. HIDE DEF a
<1>2. CASE a.state = "PENDING_CANCEL" /\ now >= a.cancel_ack_t
  <2>1. a.remaining_size # 0
    BY <1>1, <1>2 DEF Sound, Conserved
  <2>2. Sound([a EXCEPT !.state = "CANCELLED"], later)
    BY <1>1, <2>1, CancelledSound
  <2>. QED
    BY <1>2, <2>2, Zenon DEF TickOrder, a
<1>3. CASE ~(a.state = "PENDING_CANCEL" /\ now >= a.cancel_ack_t) /\ ~InMatching(a, now)
  BY <1>1, <1>3, Zenon DEF TickOrder, a
<1>4. CASE ~(a.state = "PENDING_CANCEL" /\ now >= a.cancel_ack_t) /\ InMatching(a, now)
  <2>1. InMatching(a, later)
    BY <1>1, <1>4 DEF InMatching, Sound, Order
  <2>2. CASE a.type \in {"MARKET", "IOC"}
    <3>1. Sound(TakeNow(a, book), later)
      BY <1>1, <2>1, TakeNowSound
    <3>. QED
      BY <1>4, <2>2, <3>1, Zenon DEF TickOrder, a
  <2>3. CASE a.type \notin {"MARKET", "IOC"} /\ Swept(a, book)
    <3>1. Sound(Sweep(a, book), later)
      BY <1>1, <2>1, <2>3, SweepSound
    <3>. QED
      BY <1>4, <2>3, <3>1, Zenon DEF TickOrder, a
  <2>4. CASE a.type \notin {"MARKET", "IOC"} /\ ~Swept(a, book)
    BY <1>1, <1>4, <2>4, Zenon DEF TickOrder, a
  <2>. QED
    BY <2>2, <2>3, <2>4
<1>. QED
  BY <1>2, <1>3, <1>4

-----------------------------------------------------------------------------
(***************************************************************************)
(* The invariant, one lemma for the initial states and one per action.     *)
(***************************************************************************)

\* Time passing does no harm to a sound order.
LEMMA SoundLater ==
  ASSUME NEW o, NEW now \in Nat, NEW later \in Nat, now <= later, Sound(o, now)
  PROVE  Sound(o, later)
BY DEF Sound, Order

\* The invariant holds of the empty pool.
LEMMA InitIInv ==
  ASSUME Init
  PROVE  IInv
<1>1. \A s \in Slots : Sound(orders[s], clock)
  BY EmptyOrderSound DEF Init
<1>2. \A s \in Slots : orders[s] \in Order
  BY <1>1 DEF Sound
<1>3. orders \in [Slots -> Order]
  BY <1>2 DEF Init
<1>4. TypeOK
  <2>1. next_oid \in Nat \ {0} /\ clock \in Nat /\ t0 \in Nat
    BY DEF Init
  <2>2. queue_model \in QueueModels /\ ticked \in BOOLEAN
    BY Zenon DEF Init
  <2>. QED
    BY <1>3, <2>1, <2>2 DEF TypeOK
<1>5. t0 <= clock
  BY DEF Init
<1>. QED
  BY <1>1, <1>4, <1>5 DEF IInv

\* What is left to show of a step that leaves the clocks alone: every new order is sound.
LEMMA OrdersStep ==
  ASSUME IInv, UNCHANGED <<queue_model, clock, t0>>,
         ticked' \in BOOLEAN, next_oid' \in Nat \ {0},
         \E f : orders' = [s \in Slots |-> f[s]],
         \A s \in Slots : Sound(orders'[s], clock)
  PROVE  IInv'
<1>1. \A s \in Slots : orders'[s] \in Order
  BY DEF Sound
<1>2. orders' \in [Slots -> Order]
  BY <1>1
<1>3. TypeOK'
  BY <1>2 DEF IInv, TypeOK
<1>. QED
  BY <1>3 DEF IInv

\* pt_sim_queue_submit keeps the invariant.
LEMMA SubmitIInv ==
  ASSUME IInv, NEW request \in Requests, NEW book \in Books, Submit(request, book)
  PROVE  IInv'
<1>1. /\ orders \in [Slots -> Order] /\ next_oid \in Nat \ {0}
      /\ clock \in Nat /\ t0 \in Nat /\ ticked \in BOOLEAN
  BY DEF IInv, TypeOK
<1>. DEFINE queue == QueueAtSubmit(book, request.side, request.price)
            new == NewOrder(next_oid, request, queue)
<1>2. queue \in Nat
  BY ConstantsAssumption DEF QueueAtSubmit, SideOf, Request, BookSide, Sides
<1>3. Sound(new, clock)
  <2>. HIDE DEF queue
  <2>. QED
    BY <1>1, <1>2, NewOrderSound
<1>4. PICK s \in Slots : orders' = [orders EXCEPT ![s] = new]
  BY DEF Submit
<1>. HIDE DEF new
<1>5. \A r \in Slots : Sound(orders'[r], clock)
  BY <1>1, <1>3, <1>4 DEF IInv
<1>6. next_oid' \in Nat \ {0} /\ UNCHANGED <<queue_model, clock, t0>> /\ ticked' \in BOOLEAN
  BY <1>1 DEF Submit
<1>7. orders' = [r \in Slots |-> orders'[r]]
  BY <1>1, <1>4
<1>. QED
  BY <1>5, <1>6, <1>7, OrdersStep

\* pt_sim_queue_cancel keeps the invariant.
LEMMA CancelIInv ==
  ASSUME IInv, NEW s \in Slots, Cancel(s)
  PROVE  IInv'
<1>1. /\ orders \in [Slots -> Order] /\ next_oid \in Nat \ {0}
      /\ clock \in Nat /\ t0 \in Nat /\ ticked \in BOOLEAN
  BY DEF IInv, TypeOK
<1>. DEFINE o == orders[s]
            n == [o EXCEPT !.state = "PENDING_CANCEL", !.cancel_ack_t = t0 + CancelTransit]
<1>2. orders' = [orders EXCEPT ![s] = n]
  BY <1>1 DEF Cancel, Order
<1>3. Sound(n, clock)
  <2>1. Sound(o, clock) /\ o \in Order /\ o.state \in {"PENDING_SUBMIT", "LIVE", "PARTIAL"}
    BY <1>1 DEF IInv, Cancel
  <2>2. t0 + CancelTransit \in Nat
    BY <1>1, ConstantsAssumption
  <2>. HIDE DEF o
  <2>. QED
    BY <2>1, <2>2 DEF Sound, Order, Conserved, Accounted, Touched, OrderStates
<1>. HIDE DEF n
<1>4. \A r \in Slots : Sound(orders'[r], clock)
  BY <1>1, <1>2, <1>3 DEF IInv
<1>5. orders' = [r \in Slots |-> orders'[r]]
  BY <1>1, <1>2
<1>6. next_oid' \in Nat \ {0} /\ UNCHANGED <<queue_model, clock, t0>> /\ ticked' \in BOOLEAN
  BY <1>1 DEF Cancel
<1>. QED
  BY <1>4, <1>5, <1>6, OrdersStep

\* pt_sim_queue_on_trade keeps the invariant.
LEMMA OnTradeIInv ==
  ASSUME IInv, NEW market, NEW is_yes, NEW price, NEW size \in TradeSizes, NEW side,
         OnTrade(market, is_yes, price, size, side)
  PROVE  IInv'
<1>1. /\ clock \in Nat /\ ticked \in BOOLEAN /\ next_oid \in Nat \ {0}
  BY DEF IInv, TypeOK
<1>2. ASSUME NEW s \in Slots
      PROVE  Sound(orders'[s], clock)
  <2>. DEFINE a == Arrive(orders[s], clock)
  <2>1. Sound(orders[s], clock) /\ Sound(a, clock)
    BY <1>1, ArriveSound DEF IInv
  <2>2. \/ orders'[s] \in {orders[s], a}
        \/ InMatching(a, clock) /\ orders'[s] = TradeAgainst(a, size)
    BY DEF OnTrade
  <2>. HIDE DEF a
  <2>. QED
    BY <1>1, <2>1, <2>2, TradeAgainstSound
<1>. QED
  BY <1>1, <1>2, OrdersStep DEF OnTrade

\* pt_sim_queue_on_level_change keeps the invariant.
LEMMA OnLevelChangeIInv ==
  ASSUME IInv, NEW market, NEW is_yes, NEW side, NEW price,
         NEW old \in LevelSizes, NEW new \in LevelSizes,
         OnLevelChange(market, is_yes, side, price, old, new)
  PROVE  IInv'
<1>1. /\ clock \in Nat /\ ticked \in BOOLEAN /\ next_oid \in Nat \ {0}
      /\ queue_model \in {"CONSERVATIVE", "REALISTIC", "AGGRESSIVE"}
      /\ old \in Nat /\ new \in Nat /\ new < old
  BY ConstantsAssumption DEF IInv, TypeOK, OnLevelChange
<1>2. ASSUME NEW s \in Slots
      PROVE  Sound(orders'[s], clock)
  <2>. DEFINE a == Arrive(orders[s], clock)
              n == QueueReduction(a, old, new)
  <2>1. Sound(orders[s], clock) /\ Sound(a, clock) /\ a \in Order
    BY <1>1, ArriveSound DEF IInv, Sound
  <2>2. \/ orders'[s] \in {orders[s], a}
        \/ InMatching(a, clock) /\ orders'[s] = MoveUp(a, n)
    BY DEF OnLevelChange
  <2>3. n \in 0 .. a.queue_ahead
    <3>. HIDE DEF a
    <3>. QED
      BY <1>1, <2>1, QueueReductionBounded
  <2>. HIDE DEF a, n
  <2>. QED
    BY <1>1, <2>1, <2>2, <2>3, MoveUpSound
<1>. QED
  BY <1>1, <1>2, OrdersStep DEF OnLevelChange

\* pt_sim_queue_tick keeps the invariant.
LEMMA TickIInv ==
  ASSUME IInv, NEW market, NEW yes_book \in Books, NEW no_book \in Books,
         Tick(market, yes_book, no_book)
  PROVE  IInv'
<1>1. /\ clock \in Nat /\ t0 \in Nat /\ t0 <= clock /\ next_oid \in Nat \ {0}
  BY DEF IInv, TypeOK
<1>2. ASSUME NEW s \in Slots
      PROVE  Sound(orders'[s], clock)
  <2>1. Sound(orders[s], clock)
    BY DEF IInv
  <2>2. \/ orders'[s] = orders[s]
        \/ \E book \in Books : orders'[s] = TickOrder(orders[s], book, t0)
    BY DEF Tick
  <2>. QED
    BY <1>1, <2>1, <2>2, TickOrderSound
<1>. QED
  BY <1>1, <1>2, OrdersStep DEF Tick

\* Time and the turn of the loop keep the invariant.
LEMMA ClocksIInv ==
  ASSUME IInv, NewLoop \/ Advance
  PROVE  IInv'
<1>1. clock \in Nat /\ t0 \in Nat /\ t0 <= clock
  BY DEF IInv, TypeOK
<1>2. clock' \in Nat /\ t0' \in Nat /\ t0' <= clock' /\ clock <= clock' /\ orders' = orders
  BY <1>1 DEF NewLoop, Advance
<1>3. \A s \in Slots : Sound(orders'[s], clock')
  BY <1>1, <1>2, SoundLater DEF IInv
<1>4. TypeOK'
  BY <1>2 DEF IInv, TypeOK, NewLoop, Advance
<1>. QED
  BY <1>2, <1>3, <1>4 DEF IInv

\* Every step keeps the invariant.
LEMMA NextIInv ==
  ASSUME IInv, [Next]_vars
  PROVE  IInv'
<1>1. CASE UNCHANGED vars
  BY <1>1 DEF IInv, TypeOK, vars
<1>2. CASE Next
  BY <1>2, SubmitIInv, CancelIInv, OnTradeIInv, OnLevelChangeIInv, TickIInv, ClocksIInv
     DEF Next, TickMarket
<1>. QED
  BY <1>1, <1>2

\* Every reachable state satisfies the inductive invariant.
THEOREM Invariant == Spec => []IInv
<1>. QED
  BY InitIInv, NextIInv, PTL DEF Spec

-----------------------------------------------------------------------------
(***************************************************************************)
(* The safety properties.                                                  *)
(***************************************************************************)

\* The slots always hold well-formed orders.
THEOREM TypeCorrect == Spec => []TypeOK
<1>1. IInv => TypeOK
  BY DEF IInv
<1>. QED
  BY <1>1, Invariant, PTL

\* Filled and remaining shares always make up the order, whatever trades, sweeps,
\* immediate fills, cancels and slot reuse it went through.
THEOREM SharesAlwaysConserved == Spec => []SharesConserved
<1>1. IInv => SharesConserved
  BY DEF IInv, Sound, Conserved, SharesConserved
<1>. QED
  BY <1>1, Invariant, PTL

\* The queue an order joined stays accounted for under each of the three queue models.
THEOREM QueueAlwaysAccounted == Spec => []QueueAccounted
<1>1. IInv => QueueAccounted
  BY DEF IInv, Sound, Accounted, QueueAccounted
<1>. QED
  BY <1>1, Invariant, PTL

\* No order is matched before it arrives, for any latency and although ticks run on an
\* older clock than the feed.
THEOREM NothingEverBeforeArrival == Spec => []NothingBeforeArrival
<1>1. IInv => NothingBeforeArrival
  BY DEF IInv, Sound, Touched, NothingBeforeArrival
<1>. QED
  BY <1>1, Invariant, PTL

\* A trade at an order that fills it leaves no queue ahead of it, and gives it at most
\* the trade's size less the queue served first.
LEMMA TradeServes ==
  ASSUME NEW o, NEW now \in Nat, Sound(o, now), InMatching(o, now), NEW size \in TradeSizes,
         TradeAgainst(o, size).filled_size > o.filled_size
  PROVE  /\ TradeAgainst(o, size).queue_ahead = 0
         /\ (TradeAgainst(o, size).filled_size - o.filled_size) + o.queue_ahead <= size
<1>. DEFINE m == [o EXCEPT !.queue_ahead = 0, !.consumed_volume = @ + o.queue_ahead]
            qty == Lesser(size - o.queue_ahead, o.remaining_size)
<1>1. /\ o \in Order /\ o.queue_ahead \in Nat /\ o.filled_size \in Nat
      /\ size \in Nat /\ o.remaining_size \in Nat
  BY MatchingRemains, ConstantsAssumption DEF Sound, Order, InMatching
<1>2. ~(o.queue_ahead >= size)
  <2>1. ASSUME o.queue_ahead >= size
        PROVE  TradeAgainst(o, size).filled_size = o.filled_size
    BY <1>1, <2>1 DEF TradeAgainst, Order
  <2>. QED
    BY <1>1, <2>1
<1>3. TradeAgainst(o, size) = Fill(m, qty, o.price)
  BY <1>2, Zenon DEF TradeAgainst
<1>4. /\ Fill(m, qty, o.price).filled_size = o.filled_size + qty
      /\ Fill(m, qty, o.price).queue_ahead = 0
  <2>1. m.filled_size = o.filled_size /\ m.queue_ahead = 0
    BY <1>1 DEF Order
  <2>2. /\ Fill(m, qty, o.price).filled_size = m.filled_size + qty
        /\ Fill(m, qty, o.price).queue_ahead = m.queue_ahead
    BY <1>1 DEF Fill, Order
  <2>. QED
    BY <2>1, <2>2
<1>5. qty \in Int /\ qty <= size - o.queue_ahead
  BY <1>1 DEF Lesser
<1>. HIDE DEF m, qty
<1>. QED
  BY <1>1, <1>3, <1>4, <1>5

\* Every trade serves the queue in front of an order before it fills the order.
THEOREM TradesAlwaysServeTheQueue == Spec => TradesServeTheQueue
<1>. DEFINE Serves ==
       \A s \in Slots :
         LET o == orders[s]
             n == orders'[s]
         IN  n.filled_size > o.filled_size =>
               \A price \in Prices, size \in TradeSizes :
                 OnTrade(o.market, o.is_yes, price, size, Opposite(o.side)) =>
                   /\ n.queue_ahead = 0
                   /\ (n.filled_size - o.filled_size) + o.queue_ahead <= size
<1>1. ASSUME IInv
      PROVE  Serves
  <2>1. SUFFICES ASSUME NEW s \in Slots, NEW price \in Prices, NEW size \in TradeSizes,
                        orders'[s].filled_size > orders[s].filled_size,
                        OnTrade(orders[s].market, orders[s].is_yes, price, size, Opposite(orders[s].side))
                 PROVE  /\ orders'[s].queue_ahead = 0
                        /\ (orders'[s].filled_size - orders[s].filled_size) + orders[s].queue_ahead <= size
    OBVIOUS
  <2>. DEFINE a == Arrive(orders[s], clock)
  <2>2. clock \in Nat /\ Sound(orders[s], clock) /\ Sound(a, clock)
    BY <1>1, ArriveSound DEF IInv, TypeOK
  <2>3. a.filled_size = orders[s].filled_size /\ a.queue_ahead = orders[s].queue_ahead
    BY <2>2 DEF Arrive, Sound, Order
  <2>4. \/ orders'[s] \in {orders[s], a}
        \/ InMatching(a, clock) /\ orders'[s] = TradeAgainst(a, size)
    BY <2>1 DEF OnTrade
  <2>5. ~(orders'[s].filled_size = orders[s].filled_size)
    <3>1. orders[s].filled_size \in Nat
      BY <2>2 DEF Sound, Order
    <3>. QED
      BY <2>1, <3>1
  <2>. HIDE DEF a
  <2>6. InMatching(a, clock) /\ orders'[s] = TradeAgainst(a, size)
    BY <2>3, <2>4, <2>5
  <2>. QED
    BY <2>1, <2>2, <2>3, <2>6, TradeServes
<1>2. IInv => [Serves]_vars
  BY <1>1
<1>. HIDE DEF Serves
<1>3. Spec => [][Serves]_vars
  BY <1>2, Invariant, PTL
<1>. QED
  BY <1>3 DEF TradesServeTheQueue, Serves

-----------------------------------------------------------------------------
(***************************************************************************)
(* The refinement.  Open orders are told apart by their ids, so a slot is  *)
(* found by the id it holds; every event but a submission leaves each      *)
(* order its id and works it down.                                         *)
(***************************************************************************)

\* No two open orders of a pool share an id.
IdsApart(pool) ==
  \A r, s \in Slots : Open(pool[r]) /\ Open(pool[s]) /\ pool[r].id = pool[s].id => r = s

\* Ids are fresh, and no two open orders share one.
IdInv ==
  /\ \A s \in Slots : orders[s].id < next_oid
  /\ IdsApart(orders)

\* An event turned order o into order n: it kept its id, and it was worked, not opened.
Worked(o, n) ==
  /\ n.id = o.id
  /\ n.remaining_size <= o.remaining_size
  /\ Open(n) => Open(o)

\* To its owner an arriving order stays as it was.
LEMMA ArriveWorked ==
  ASSUME NEW o \in Order, NEW now \in Nat
  PROVE  Worked(o, Arrive(o, now))
BY ConstantsAssumption DEF Worked, Arrive, Open, Reusable, Order

\* To its owner a fill only shrinks an order.
LEMMA FillWorked ==
  ASSUME NEW o \in Order, Open(o), NEW qty \in Nat, NEW price
  PROVE  Worked(o, Fill(o, qty, price))
<1>1. /\ Fill(o, qty, price).id = o.id
      /\ Fill(o, qty, price).remaining_size = o.remaining_size - qty
  BY DEF Fill, Order
<1>2. o.remaining_size \in Nat
  BY ConstantsAssumption DEF Order
<1>. QED
  BY <1>1, <1>2 DEF Worked

\* Two pieces of work on an order make one.
LEMMA WorkedTwice ==
  ASSUME NEW a, NEW b, NEW c, Worked(a, b), Worked(b, c),
         a.remaining_size \in Int, b.remaining_size \in Int, c.remaining_size \in Int
  PROVE  Worked(a, c)
BY DEF Worked

\* To its owner a trade only shrinks an order.
LEMMA TradeAgainstWorked ==
  ASSUME NEW o, NEW now \in Nat, Sound(o, now), InMatching(o, now), NEW size \in TradeSizes
  PROVE  Worked(o, TradeAgainst(o, size))
<1>1. /\ o \in Order /\ o.queue_ahead \in Nat /\ o.consumed_volume \in Nat
      /\ o.remaining_size \in Nat /\ size \in Nat
  BY ConstantsAssumption DEF Sound, Order
<1>2. Open(o)
  BY DEF InMatching, Matching, Open, Reusable
<1>3. CASE o.queue_ahead >= size
  <2>. DEFINE n == [o EXCEPT !.queue_ahead = @ - size, !.consumed_volume = @ + size]
  <2>1. n.id = o.id /\ n.remaining_size = o.remaining_size
    BY <1>1 DEF Order
  <2>2. TradeAgainst(o, size) = n
    BY <1>3, Zenon DEF TradeAgainst
  <2>. QED
    BY <1>1, <1>2, <2>1, <2>2 DEF Worked
<1>4. CASE ~(o.queue_ahead >= size)
  <2>. DEFINE m == [o EXCEPT !.queue_ahead = 0, !.consumed_volume = @ + o.queue_ahead]
              qty == Lesser(size - o.queue_ahead, o.remaining_size)
  <2>1. m \in Order /\ m.id = o.id /\ m.remaining_size = o.remaining_size /\ Open(m)
    <3>1. o.consumed_volume + o.queue_ahead \in Nat /\ 0 \in Nat
      BY <1>1
    <3>. QED
      BY <1>1, <1>2, <3>1 DEF Order, Open, Reusable
  <2>2. qty \in Nat
    BY <1>1, <1>4 DEF Lesser
  <2>3. TradeAgainst(o, size) = Fill(m, qty, o.price)
    BY <1>4, Zenon DEF TradeAgainst
  <2>. HIDE DEF m, qty
  <2>4. Worked(m, Fill(m, qty, o.price))
    BY <2>1, <2>2, FillWorked
  <2>. QED
    BY <1>2, <2>1, <2>3, <2>4 DEF Worked
<1>. QED
  BY <1>3, <1>4

\* To its owner the queue does not show.
LEMMA MoveUpWorked ==
  ASSUME NEW o \in Order, NEW n
  PROVE  Worked(o, MoveUp(o, n))
<1>1. o.remaining_size \in Nat
  BY ConstantsAssumption DEF Order
<1>. QED
  BY <1>1 DEF MoveUp, Worked, Open, Reusable, Order

\* To its owner a tick only shrinks or ends an order.
LEMMA TickOrderWorked ==
  ASSUME NEW o, NEW now \in Nat, NEW later \in Nat, now <= later, Sound(o, later),
         NEW book \in Books
  PROVE  Worked(o, TickOrder(o, book, now))
<1>. DEFINE a == Arrive(o, now)
            b == TickOrder(o, book, now)
            qty == WalkFill(book, Opposite(a.side), a.remaining_size)
            price == WalkPrice(book, Opposite(a.side), a.remaining_size)
<1>1. Sound(a, later) /\ a \in Order /\ o \in Order /\ Worked(o, a)
  BY ArriveSound, ArriveWorked DEF Sound
<1>2. Sound(b, later) /\ b \in Order
  BY TickOrderSound DEF Sound
<1>3. a.remaining_size \in Int /\ o.remaining_size \in Int /\ b.remaining_size \in Int
  <2>1. \A x \in Order : x.remaining_size \in Int
    BY ConstantsAssumption DEF Order
  <2>. HIDE DEF a, b
  <2>. QED
    BY <1>1, <1>2, <2>1
<1>4. Worked(a, b)
  <2>1. CASE b = a
    BY <1>3, <2>1 DEF Worked
  <2>2. CASE b = [a EXCEPT !.state = "CANCELLED"]
    <3>1. /\ [a EXCEPT !.state = "CANCELLED"].id = a.id
          /\ [a EXCEPT !.state = "CANCELLED"].remaining_size = a.remaining_size
          /\ [a EXCEPT !.state = "CANCELLED"].state = "CANCELLED"
      <4>. HIDE DEF a
      <4>. QED
        BY <1>1 DEF Order
    <3>. HIDE DEF a, b
    <3>. QED
      BY <1>3, <2>2, <3>1 DEF Worked, Open, Reusable
  <2>3. CASE /\ InMatching(a, now)
             /\ b.id = Fill(a, qty, price).id
             /\ b.remaining_size = Fill(a, qty, price).remaining_size
    <3>1. Open(a) /\ InMatching(a, later)
      <4>. HIDE DEF a
      <4>. QED
        BY <1>1, <2>3 DEF InMatching, Matching, Open, Reusable, Sound, Order
    <3>2. a.remaining_size \in 1 .. MaxSize /\ Opposite(a.side) \in Sides
      <4>. HIDE DEF a
      <4>. QED
        BY <1>1, <3>1, MatchingRemains, OppositeSide DEF InMatching
    <3>3. qty \in Nat
      <4>1. qty \in 0 .. a.remaining_size
        <5>. HIDE DEF a
        <5>. QED
          BY <3>2, WalkBounded
      <4>. QED
        BY <3>2, <4>1, ConstantsAssumption
    <3>. HIDE DEF a, b, qty, price
    <3>4. Worked(a, Fill(a, qty, price))
      BY <1>1, <3>1, <3>3, FillWorked
    <3>. QED
      BY <2>3, <3>1, <3>4 DEF Worked
  <2>4. \/ b = a
        \/ b = [a EXCEPT !.state = "CANCELLED"]
        \/ InMatching(a, now) /\ b \in {TakeNow(a, book), Sweep(a, book)}
    BY Zenon DEF TickOrder
  <2>5. CASE InMatching(a, now) /\ b = Sweep(a, book)
    <3>1. b = Fill(a, qty, price)
      BY <2>5, Zenon DEF Sweep
    <3>. HIDE DEF a, b, qty, price
    <3>. QED
      BY <2>3, <2>5, <3>1
  <2>6. CASE InMatching(a, now) /\ b = TakeNow(a, book)
    <3>1. CASE qty = 0
      <4>1. b = [a EXCEPT !.state = "CANCELLED"]
        BY <2>6, <3>1, Zenon DEF TakeNow
      <4>. QED
        BY <2>2, <4>1
    <3>2. CASE qty # 0
      <4>. DEFINE hit == Fill(a, qty, price)
      <4>1. b = [hit EXCEPT !.state = IF hit.remaining_size = 0 THEN "FILLED" ELSE "CANCELLED"]
        BY <2>6, <3>2, Zenon DEF TakeNow
      <4>. HIDE DEF a, b, qty, price
      <4>2. b.id = hit.id /\ b.remaining_size = hit.remaining_size
        BY <4>1 DEF Fill
      <4>. QED
        BY <2>3, <2>6, <4>2
    <3>. QED
      BY <3>1, <3>2
  <2>. HIDE DEF a, b
  <2>. QED
    BY <2>1, <2>2, <2>4, <2>5, <2>6
<1>. HIDE DEF a, b
<1>5. Worked(o, b)
  BY <1>1, <1>3, <1>4, WorkedTwice
<1>. QED
  BY <1>5 DEF b

\* Every slot holds an order, and its open orders have shares left.
IsPool(pool) ==
  /\ pool \in [Slots -> Order]
  /\ \A s \in Slots : Open(pool[s]) => pool[s].remaining_size > 0

\* The orders of a state with the invariant form a pool.
LEMMA SoundIsPool ==
  ASSUME NEW pool \in [Slots -> Order], NEW now \in Nat, \A s \in Slots : Sound(pool[s], now)
  PROVE  IsPool(pool)
<1>1. ASSUME NEW o \in Order, Conserved(o), Open(o)
      PROVE  o.remaining_size > 0
  BY <1>1, ConstantsAssumption DEF Conserved, Open, Reusable, Order
<1>. QED
  BY <1>1 DEF IsPool, Sound

\* An open order's id leads back to its slot.
LEMMA SharesLeftOpen ==
  ASSUME NEW pool, IdsApart(pool), NEW s \in Slots, Open(pool[s])
  PROVE  /\ pool[s].id \in OpenIds(pool)
         /\ SharesLeft(pool)[pool[s].id] = pool[s].remaining_size
<1>1. pool[s].id \in OpenIds(pool)
  BY DEF OpenIds
<1>. DEFINE r == SlotOf(pool, pool[s].id)
<1>2. r \in Slots /\ Open(pool[r]) /\ pool[r].id = pool[s].id
  BY DEF SlotOf
<1>3. r = s
  BY <1>2 DEF IdsApart
<1>. QED
  BY <1>1, <1>3 DEF SharesLeft

\* Working the orders of a pool only shrinks what its callers see.
LEMMA WorkedPool ==
  ASSUME NEW f, NEW g, IsPool(f), IsPool(g), IdsApart(f),
         \A s \in Slots : Worked(f[s], g[s])
  PROVE  /\ IdsApart(g)
         /\ OpenIds(g) \subseteq OpenIds(f)
         /\ \A oid \in OpenIds(g) : SharesLeft(g)[oid] \in 1 .. SharesLeft(f)[oid]
<1>1. IdsApart(g)
  BY DEF IdsApart, Worked
<1>2. ASSUME NEW oid \in OpenIds(g)
      PROVE  oid \in OpenIds(f) /\ SharesLeft(g)[oid] \in 1 .. SharesLeft(f)[oid]
  <2>1. PICK s \in Slots : Open(g[s]) /\ oid = g[s].id
    BY DEF OpenIds
  <2>2. Open(f[s]) /\ f[s].id = oid /\ g[s].remaining_size <= f[s].remaining_size
    BY <2>1 DEF Worked
  <2>3. SharesLeft(g)[oid] = g[s].remaining_size
    BY <1>1, <2>1, SharesLeftOpen
  <2>4. SharesLeft(f)[oid] = f[s].remaining_size /\ oid \in OpenIds(f)
    BY <2>2, SharesLeftOpen
  <2>5. /\ g[s].remaining_size > 0
        /\ g[s].remaining_size \in Int /\ f[s].remaining_size \in Int
    <3>1. \A x \in Order : x.remaining_size \in Int
      BY ConstantsAssumption DEF Order
    <3>. QED
      BY <2>1, <3>1 DEF IsPool
  <2>. QED
    BY <2>2, <2>3, <2>4, <2>5
<1>. QED
  BY <1>1, <1>2

\* A step that only works orders is a Work step of the promise.
LEMMA WorkedStep ==
  ASSUME IInv, IInv', IdInv, next_oid' = next_oid,
         \A s \in Slots : Worked(orders[s], orders'[s])
  PROVE  IdInv' /\ Promise!Work
<1>1. IsPool(orders) /\ IsPool(orders')
  BY SoundIsPool DEF IInv, TypeOK
<1>2. IdsApart(orders) /\ \A s \in Slots : orders[s].id < next_oid
  BY DEF IdInv
<1>3. /\ IdsApart(orders')
      /\ OpenIds(orders') \subseteq OpenIds(orders)
      /\ \A oid \in OpenIds(orders') : SharesLeft(orders')[oid] \in 1 .. SharesLeft(orders)[oid]
  BY <1>1, <1>2, WorkedPool
<1>4. IdInv'
  BY <1>2, <1>3 DEF IdInv, Worked
<1>5. /\ DOMAIN SharesLeft(orders) = OpenIds(orders)
      /\ DOMAIN SharesLeft(orders') = OpenIds(orders')
  BY DEF SharesLeft
<1>. QED
  BY <1>3, <1>4, <1>5 DEF Promise!Work

\* A submission is a Place step of the promise.
LEMMA SubmitPlaces ==
  ASSUME IInv, IInv', IdInv, NEW request \in Requests, NEW book \in Books, Submit(request, book)
  PROVE  IdInv' /\ Promise!Place
<1>. DEFINE new == NewOrder(next_oid, request, QueueAtSubmit(book, request.side, request.price))
<1>1. PICK s \in Slots : IsFreeSlot(s) /\ orders' = [orders EXCEPT ![s] = new]
  BY DEF Submit
<1>2. /\ orders \in [Slots -> Order] /\ orders' \in [Slots -> Order]
      /\ next_oid \in Nat \ {0} /\ next_oid' = next_oid + 1
  BY DEF IInv, TypeOK, Submit
<1>3. new.id = next_oid /\ Open(new) /\ new.remaining_size \in Nat \ {0}
  <2>1. request.size \in Nat \ {0}
    BY ConstantsAssumption DEF Request
  <2>. QED
    BY <2>1 DEF NewOrder, Open, Reusable
<1>. HIDE DEF new
<1>4. ~Open(orders[s]) /\ orders'[s] = new /\ \A r \in Slots \ {s} : orders'[r] = orders[r]
  BY <1>1, <1>2 DEF IsFreeSlot, Open
<1>5. \A r \in Slots : orders[r].id \in Nat /\ orders[r].id < next_oid
  BY <1>2 DEF IdInv, Order
<1>6. IdsApart(orders) /\ IdsApart(orders')
  <2>1. IdsApart(orders)
    BY DEF IdInv
  <2>2. ASSUME NEW r \in Slots, NEW q \in Slots,
               Open(orders'[r]), Open(orders'[q]), orders'[r].id = orders'[q].id
        PROVE  r = q
    <3>1. \A p \in Slots \ {s} : orders'[p].id # next_oid
      BY <1>2, <1>4, <1>5
    <3>. QED
      BY <1>3, <1>4, <2>1, <2>2, <3>1 DEF IdsApart
  <2>. QED
    BY <2>1, <2>2 DEF IdsApart
<1>7. IdInv'
  <2>1. \A r \in Slots : orders'[r].id < next_oid'
    BY <1>2, <1>3, <1>4, <1>5
  <2>. QED
    BY <1>6, <2>1 DEF IdInv
<1>8. OpenIds(orders') = OpenIds(orders) \cup {next_oid}
  BY <1>3, <1>4 DEF OpenIds
<1>9. SharesLeft(orders')[next_oid] = new.remaining_size
  BY <1>3, <1>4, <1>6, SharesLeftOpen
<1>10. ASSUME NEW oid \in OpenIds(orders)
       PROVE  SharesLeft(orders')[oid] = SharesLeft(orders)[oid]
  <2>1. PICK r \in Slots : Open(orders[r]) /\ oid = orders[r].id
    BY DEF OpenIds
  <2>2. orders'[r] = orders[r]
    BY <1>4, <2>1
  <2>3. SharesLeft(orders)[oid] = orders[r].remaining_size
    BY <1>6, <2>1, SharesLeftOpen
  <2>4. SharesLeft(orders')[oid] = orders'[r].remaining_size
    BY <1>6, <2>1, <2>2, SharesLeftOpen
  <2>. QED
    BY <2>2, <2>3, <2>4
<1>11. /\ DOMAIN SharesLeft(orders) = OpenIds(orders)
       /\ DOMAIN SharesLeft(orders') = OpenIds(orders')
  BY DEF SharesLeft
<1>12. next_oid' - 1 = next_oid - 1 + 1 /\ next_oid - 1 + 1 = next_oid
  BY <1>2
<1>. QED
  BY <1>3, <1>7, <1>8, <1>9, <1>10, <1>11, <1>12 DEF Promise!Place

\* Every other step is a Work step of the promise.
LEMMA EventWorks ==
  ASSUME IInv, NEW s \in Slots,
         \/ Cancel(s)
         \/ \E r \in Slots : r # s /\ Cancel(r)
         \/ \E market, is_yes, price, side : \E size \in TradeSizes :
               OnTrade(market, is_yes, price, size, side)
         \/ \E market, is_yes, side, price : \E old, new \in LevelSizes :
               OnLevelChange(market, is_yes, side, price, old, new)
         \/ \E market : TickMarket(market)
         \/ NewLoop
         \/ Advance
  PROVE  Worked(orders[s], orders'[s])
<1>1. /\ orders \in [Slots -> Order] /\ orders[s] \in Order /\ Sound(orders[s], clock)
      /\ clock \in Nat /\ t0 \in Nat /\ t0 <= clock
      /\ orders[s].remaining_size \in Int
  BY ConstantsAssumption DEF IInv, TypeOK, Order
<1>. DEFINE a == Arrive(orders[s], clock)
<1>2. Sound(a, clock) /\ a \in Order /\ Worked(orders[s], a) /\ a.remaining_size \in Int
  <2>1. Sound(a, clock) /\ a \in Order /\ Worked(orders[s], a)
    BY <1>1, ArriveSound, ArriveWorked DEF Sound
  <2>. HIDE DEF a
  <2>. QED
    BY <2>1, ConstantsAssumption DEF Order
<1>3. Worked(orders[s], orders[s])
  BY <1>1 DEF Worked
<1>4. CASE Cancel(s)
  <2>. DEFINE n == [orders[s] EXCEPT !.state = "PENDING_CANCEL", !.cancel_ack_t = t0 + CancelTransit]
  <2>1. orders'[s] = n
    BY <1>1, <1>4 DEF Cancel
  <2>2. n.id = orders[s].id /\ n.remaining_size = orders[s].remaining_size /\ Open(orders[s])
    BY <1>1, <1>4 DEF Cancel, Open, Reusable, Order
  <2>. QED
    BY <1>1, <2>1, <2>2 DEF Worked
<1>5. CASE \E r \in Slots : r # s /\ Cancel(r)
  <2>1. orders'[s] = orders[s]
    BY <1>1, <1>5 DEF Cancel
  <2>. QED
    BY <1>3, <2>1
<1>6. CASE \E market, is_yes, price, side : \E size \in TradeSizes :
             OnTrade(market, is_yes, price, size, side)
  <2>1. PICK size \in TradeSizes :
          \/ orders'[s] \in {orders[s], a}
          \/ InMatching(a, clock) /\ orders'[s] = TradeAgainst(a, size)
    BY <1>6 DEF OnTrade
  <2>. HIDE DEF a
  <2>2. CASE InMatching(a, clock) /\ orders'[s] = TradeAgainst(a, size)
    <3>1. Sound(orders'[s], clock) /\ Worked(a, orders'[s])
      BY <1>1, <1>2, <2>2, TradeAgainstSound, TradeAgainstWorked
    <3>2. orders'[s].remaining_size \in Int
      BY <3>1, ConstantsAssumption DEF Sound, Order
    <3>. QED
      BY <1>1, <1>2, <3>1, <3>2, WorkedTwice
  <2>. QED
    BY <1>2, <1>3, <2>1, <2>2
<1>7. CASE \E market, is_yes, side, price : \E old, new \in LevelSizes :
             OnLevelChange(market, is_yes, side, price, old, new)
  <2>1. \/ orders'[s] \in {orders[s], a}
        \/ \E n : orders'[s] = MoveUp(a, n)
    BY <1>7 DEF OnLevelChange
  <2>. HIDE DEF a
  <2>2. ASSUME NEW n, orders'[s] = MoveUp(a, n)
        PROVE  Worked(orders[s], orders'[s])
    <3>1. Worked(a, orders'[s])
      BY <1>2, <2>2, MoveUpWorked
    <3>2. orders'[s].remaining_size = a.remaining_size
      BY <1>2, <2>2 DEF MoveUp, Order
    <3>. QED
      BY <1>1, <1>2, <3>1, <3>2, WorkedTwice
  <2>. QED
    BY <1>2, <1>3, <2>1, <2>2
<1>8. CASE \E market : TickMarket(market)
  <2>1. \/ orders'[s] = orders[s]
        \/ \E book \in Books : orders'[s] = TickOrder(orders[s], book, t0)
    BY <1>8 DEF TickMarket, Tick
  <2>. QED
    BY <1>1, <1>3, <2>1, TickOrderWorked
<1>9. CASE NewLoop \/ Advance
  BY <1>3, <1>9 DEF NewLoop, Advance
<1>. QED
  BY <1>4, <1>5, <1>6, <1>7, <1>8, <1>9

\* The pool of order slots implements the abstract promise: callers see fresh ids,
\* orders that only shrink, and none that comes back.
THEOREM PoolImplementsOpenOrders == Spec => ImplementsOpenOrders
<1>1. ASSUME Init
      PROVE  IdInv /\ Promise!Init
  <2>1. \A s \in Slots : orders[s] = EmptyOrder
    BY <1>1 DEF Init
  <2>2. ~Open(EmptyOrder) /\ EmptyOrder.id = 0
    BY DEF EmptyOrder, Open, Reusable
  <2>3. next_oid = 1
    BY <1>1 DEF Init
  <2>4. IdInv
    BY <2>1, <2>2, <2>3 DEF IdInv, IdsApart
  <2>5. OpenIds(orders) = {}
    BY <2>1, <2>2 DEF OpenIds
  <2>6. SharesLeft(orders) = [oid \in {} |-> 0]
    BY <2>5 DEF SharesLeft
  <2>. QED
    BY <2>3, <2>4, <2>6 DEF Promise!Init
<1>2. ASSUME IInv, IInv', IdInv, [Next]_vars
      PROVE  IdInv' /\ [Promise!Next]_<<SharesLeft(orders), next_oid - 1>>
  <2>1. CASE UNCHANGED vars
    BY <1>2, <2>1 DEF vars, IdInv
  <2>2. CASE \E request \in Requests, book \in Books : Submit(request, book)
    BY <1>2, <2>2, SubmitPlaces DEF Promise!Next
  <2>3. CASE /\ Next
             /\ ~\E request \in Requests, book \in Books : Submit(request, book)
    <3>1. next_oid' = next_oid
      BY <2>3 DEF Next, Cancel, OnTrade, OnLevelChange, TickMarket, Tick, NewLoop, Advance
    <3>2. ASSUME NEW s \in Slots
          PROVE  Worked(orders[s], orders'[s])
      BY <1>2, <2>3, EventWorks DEF Next
    <3>. QED
      BY <1>2, <3>1, <3>2, WorkedStep DEF Promise!Next
  <2>. QED
    BY <1>2, <2>1, <2>2, <2>3
<1>. QED
  BY <1>1, <1>2, Invariant, PTL DEF Spec, ImplementsOpenOrders, Promise!Spec

=============================================================================
