------------------------------ MODULE SimQueue ------------------------------
(***************************************************************************)
(* The simulated matching engine of the paper broker:                      *)
(* execution/pt_sim_queue.c, called through execution/pt_broker.c.         *)
(*                                                                         *)
(* A fixed pool of order slots is driven by the main loop (submit, cancel, *)
(* tick) and by the feed (trades, book level changes).  Two clocks matter: *)
(* `clock` is what pt_clock_mono_ns() returns now and stamps feed events;  *)
(* `t0` is the value the loop read before it polled the feed, and stamps   *)
(* submissions, cancels and ticks.  A tick may therefore run with a time   *)
(* older than that of a trade already handled.                             *)
(*                                                                         *)
(* One side of a book is a function from prices to resting size (0: no     *)
(* level), so a book is a pair of such functions.                          *)
(***************************************************************************)
EXTENDS Integers, FiniteSets, Functions

CONSTANTS
  NumSlots,       \* order pool size (PT_SIM_MAX_ORDERS, 256 in the code)
  Markets,        \* market ids
  NoMarket,       \* the market of a slot never used
  ActiveMarket,   \* the market main() keeps ticking; fairness asks nothing of the others
  Prices,         \* prices of orders, trades and book levels
  Requests,       \* the orders the callers of the broker may submit
  TradeSizes,     \* sizes of trades printed by the feed
  LevelSizes,     \* sizes of a book level before and after a change
  Books,          \* the books a submit or a tick may find
  Transit,        \* net_latency + exchange_process
  CancelTransit,  \* cancel_latency + net_latency
  QueueModels,    \* the pt_queue_model_t values to start with
  MaxSize,        \* bound: size of an order
  MaxOid,         \* bound: number of orders submitted in a behaviour
  MaxTime         \* bound: last clock value

BookSide == [Prices -> Nat]

Sides == {"BID", "ASK"}

OrderTypes == {"LIMIT", "MARKET", "IOC", "FOK"}

\* The arguments of pt_sim_queue_submit that it does not reject.
Request ==
  [market : Markets, is_yes : BOOLEAN, side : Sides, type : OrderTypes,
   price : Prices, size : 1 .. MaxSize]

ASSUME ConstantsAssumption ==
  /\ NumSlots \in Nat \ {0}
  /\ ActiveMarket \in Markets
  /\ NoMarket \notin Markets
  /\ Prices \subseteq Nat \ {0}
  /\ IsFiniteSet(Prices)
  /\ Requests \subseteq Request
  /\ TradeSizes \subseteq Nat \ {0}
  /\ LevelSizes \subseteq Nat
  /\ Books \subseteq [bids : BookSide, asks : BookSide]
  /\ Transit \in Nat
  /\ CancelTransit \in Nat \ {0}
  /\ QueueModels \subseteq {"CONSERVATIVE", "REALISTIC", "AGGRESSIVE"}
  /\ MaxSize \in Nat
  /\ MaxOid \in Nat
  /\ MaxTime \in Nat

VARIABLES
  orders,       \* sq->orders
  next_oid,     \* sq->next_oid (counted from 1; the code starts at 100000)
  queue_model,  \* sq->cfg.queue_model
  clock,        \* pt_clock_mono_ns() now
  t0,           \* main()'s t0: clock when this iteration of the loop began
  ticked        \* this iteration has called pt_broker_tick

vars == <<orders, next_oid, queue_model, clock, t0, ticked>>

Slots == 1 .. NumSlots

OrderStates ==
  {"CREATED", "PENDING_SUBMIT", "LIVE", "PARTIAL", "FILLED", "PENDING_CANCEL", "CANCELLED"}

Order ==
  [id : Nat, market : Markets \cup {NoMarket}, is_yes : BOOLEAN, side : Sides,
   type : OrderTypes, price : Nat, original_size : 0 .. MaxSize, remaining_size : 0 .. MaxSize,
   filled_size : Nat, cum_cost : Nat, state : OrderStates, queue_ahead : Nat,
   queue_ahead_at_submit : Nat, consumed_volume : Nat, cancel_volume : Nat,
   arrival_t : Nat, cancel_ack_t : Nat]

\* The states in which pt_sim_queue_submit may take the slot over.
Reusable(o) == o.state \in {"CREATED", "FILLED", "CANCELLED"}

\* An order the engine still holds.
Open(o) == ~Reusable(o)

\* The states in which an order takes part in matching.
Matching(o) == o.state \in {"LIVE", "PARTIAL", "PENDING_CANCEL"}

\* memset(0) of a slot.
EmptyOrder ==
  [id |-> 0, market |-> NoMarket, is_yes |-> FALSE, side |-> "BID",
   type |-> "LIMIT", price |-> 0, original_size |-> 0,
   remaining_size |-> 0, filled_size |-> 0, cum_cost |-> 0, state |-> "CREATED",
   queue_ahead |-> 0, queue_ahead_at_submit |-> 0, consumed_volume |-> 0,
   cancel_volume |-> 0, arrival_t |-> 0, cancel_ack_t |-> 0]

Lesser(a, b) == IF a <= b THEN a ELSE b

-----------------------------------------------------------------------------
(***************************************************************************)
(* Walking one side of a book from its best price, as pt_book_walk does.   *)
(***************************************************************************)

Opposite(side) == IF side = "BID" THEN "ASK" ELSE "BID"

SideOf(book, side) == IF side = "BID" THEN book.bids ELSE book.asks

\* The walk takes from price q before it takes from price p.
Ahead(side, q, p) == IF side = "ASK" THEN q < p ELSE q > p

Levels(book, side) == {p \in Prices : SideOf(book, side)[p] > 0}

Depth(book, side) == SumFunction(SideOf(book, side))

\* What a walk for `want` shares takes at each price.
Taken(book, side, want) ==
  [p \in Prices |->
     LET better == SumFunctionOnSet(SideOf(book, side), {q \in Prices : Ahead(side, q, p)})
     IN  IF better >= want THEN 0 ELSE Lesser(SideOf(book, side)[p], want - better)]

WalkCost(book, side, want) ==
  LET taken == Taken(book, side, want)
  IN  SumFunction([p \in Prices |-> p * taken[p]])

WalkFill(book, side, want) == Lesser(want, Depth(book, side))

\* cost / filled, an integer division.
WalkPrice(book, side, want) == WalkCost(book, side, want) \div WalkFill(book, side, want)

-----------------------------------------------------------------------------
(***************************************************************************)
(* What one event does to one order.                                       *)
(***************************************************************************)

\* The size resting at the order's own price when it is submitted.
QueueAtSubmit(book, side, price) == SideOf(book, side)[price]

NewOrder(oid, request, queue) ==
  [id |-> oid, market |-> request.market, is_yes |-> request.is_yes, side |-> request.side,
   type |-> request.type, price |-> request.price, original_size |-> request.size,
   remaining_size |-> request.size, filled_size |-> 0, cum_cost |-> 0, state |-> "PENDING_SUBMIT", queue_ahead |-> queue,
   queue_ahead_at_submit |-> queue, consumed_volume |-> 0, cancel_volume |-> 0,
   arrival_t |-> t0 + Transit, cancel_ack_t |-> 0]

\* The order has reached the matching engine.
Arrive(o, now) ==
  IF o.state = "PENDING_SUBMIT" /\ now >= o.arrival_t THEN [o EXCEPT !.state = "LIVE"] ELSE o

\* Seeded fault: the feed handlers do not look at the arrival time.
InMatchingEarly(o, now) == Matching(o)

InMatching(o, now) == Matching(o) /\ now >= o.arrival_t

\* A fill of `qty` shares at `price`, and the state it leaves the order in.
Fill(o, qty, price) ==
  [o EXCEPT !.filled_size = @ + qty,
            !.remaining_size = @ - qty,
            !.cum_cost = @ + qty * price,
            !.state = IF o.remaining_size = qty THEN "FILLED" ELSE "PARTIAL"]

\* A trade printed by the other side at the order's price or through it.
TradeReaches(o, price, trade_side) ==
  /\ trade_side # o.side
  /\ IF o.side = "BID" THEN price <= o.price ELSE price >= o.price

\* Seeded fault: a trade that outlasts the queue fills the order with its whole size.
TradeIgnoresQueue(o, size) ==
  IF o.queue_ahead >= size
  THEN [o EXCEPT !.queue_ahead = @ - size, !.consumed_volume = @ + size]
  ELSE Fill([o EXCEPT !.queue_ahead = 0, !.consumed_volume = @ + o.queue_ahead],
            Lesser(size, o.remaining_size), o.price)

\* Seeded fault: the last of the queue is served without being counted as consumed.
TradeForgetsConsumed(o, size) ==
  IF o.queue_ahead >= size
  THEN [o EXCEPT !.queue_ahead = @ - size, !.consumed_volume = @ + size]
  ELSE Fill([o EXCEPT !.queue_ahead = 0], Lesser(size - o.queue_ahead, o.remaining_size), o.price)

\* The trade serves the queue ahead first; what is left of it fills the order.
TradeAgainst(o, size) ==
  IF o.queue_ahead >= size
  THEN [o EXCEPT !.queue_ahead = @ - size, !.consumed_volume = @ + size]
  ELSE Fill([o EXCEPT !.queue_ahead = 0, !.consumed_volume = @ + o.queue_ahead],
            Lesser(size - o.queue_ahead, o.remaining_size), o.price)

\* Seeded fault: the reduction is not capped by the queue that is left.
QueueReductionUncapped(o, old, new) ==
  IF queue_model = "CONSERVATIVE" THEN 0 ELSE old - new

\* How far a cancellation of `old - new` shares at the order's level moves it up.
QueueReduction(o, old, new) ==
  CASE queue_model = "CONSERVATIVE" -> 0
    [] queue_model = "AGGRESSIVE"   -> Lesser(old - new, o.queue_ahead)
    [] queue_model = "REALISTIC"    ->  \* round(delta * queue_ahead / old)
         Lesser((2 * (old - new) * o.queue_ahead + old) \div (2 * old), o.queue_ahead)

MoveUp(o, n) == [o EXCEPT !.queue_ahead = @ - n, !.cancel_volume = @ + n]

\* Seeded fault: an immediate order that filled in part is marked FILLED.
TakeNowAlwaysFilled(o, book) ==
  LET opp == Opposite(o.side)
      qty == WalkFill(book, opp, o.remaining_size)
      hit == Fill(o, qty, WalkPrice(book, opp, o.remaining_size))
  IN  IF qty = 0 THEN [o EXCEPT !.state = "CANCELLED"] ELSE [hit EXCEPT !.state = "FILLED"]

\* Seeded fault: what an immediate order could not take stays open.
TakeNowRests(o, book) ==
  LET opp == Opposite(o.side)
      qty == WalkFill(book, opp, o.remaining_size)
  IN  IF qty = 0 THEN o ELSE Fill(o, qty, WalkPrice(book, opp, o.remaining_size))

\* MARKET and IOC: take what the other side shows, whatever the price; the rest is cancelled.
TakeNow(o, book) ==
  LET opp == Opposite(o.side)
      qty == WalkFill(book, opp, o.remaining_size)
      hit == Fill(o, qty, WalkPrice(book, opp, o.remaining_size))
  IN  IF qty = 0 THEN [o EXCEPT !.state = "CANCELLED"]
      ELSE [hit EXCEPT !.state = IF hit.remaining_size = 0 THEN "FILLED" ELSE "CANCELLED"]

\* The best opposite price is strictly better than the order's.
Swept(o, book) ==
  \E p \in Levels(book, Opposite(o.side)) : Ahead(Opposite(o.side), p, o.price)

\* A swept resting order walks the other side with no price limit.
Sweep(o, book) ==
  LET opp == Opposite(o.side)
  IN  Fill(o, WalkFill(book, opp, o.remaining_size), WalkPrice(book, opp, o.remaining_size))

\* Seeded fault: a cancel is confirmed only in the very instant its time is reached.
TickOrderExactAck(o, book, now) ==
  LET a == Arrive(o, now)
  IN  IF a.state = "PENDING_CANCEL" /\ now = a.cancel_ack_t
        THEN [a EXCEPT !.state = "CANCELLED"]
      ELSE IF ~InMatching(a, now) THEN a
      ELSE IF a.type \in {"MARKET", "IOC"} THEN TakeNow(a, book)
      ELSE IF Swept(a, book) THEN Sweep(a, book)
      ELSE a

\* One slot of pt_sim_queue_tick.
TickOrder(o, book, now) ==
  LET a == Arrive(o, now)
  IN  IF a.state = "PENDING_CANCEL" /\ now >= a.cancel_ack_t
        THEN [a EXCEPT !.state = "CANCELLED"]
      ELSE IF ~InMatching(a, now) THEN a
      ELSE IF a.type \in {"MARKET", "IOC"} THEN TakeNow(a, book)
      ELSE IF Swept(a, book) THEN Sweep(a, book)
      ELSE a

-----------------------------------------------------------------------------
(***************************************************************************)
(* The operations.                                                         *)
(***************************************************************************)

Init ==
  /\ orders = [s \in Slots |-> EmptyOrder]
  /\ next_oid = 1
  /\ queue_model \in QueueModels
  /\ clock = 0
  /\ t0 = 0
  /\ ticked = FALSE

\* Seeded fault: the scan also takes a slot whose cancel is not confirmed yet.
IsFreeSlotTooEarly(s) ==
  /\ orders[s].state \notin {"PENDING_SUBMIT", "LIVE", "PARTIAL"}
  /\ \A r \in Slots : r < s => orders[r].state \in {"PENDING_SUBMIT", "LIVE", "PARTIAL"}

\* The first slot whose order is over, as the scan finds it.
IsFreeSlot(s) ==
  /\ Reusable(orders[s])
  /\ \A r \in Slots : r < s => ~Reusable(orders[r])

\* pt_sim_queue_submit, called by the strategies and the hedger at t0.
\* With no free slot it returns 0 and changes nothing.
Submit(request, book) ==
  /\ next_oid <= MaxOid
  /\ t0 + Transit <= MaxTime
  /\ \E s \in Slots :
       /\ IsFreeSlot(s)
       /\ orders' = [orders EXCEPT ![s] =
                       NewOrder(next_oid, request,
                                QueueAtSubmit(book, request.side, request.price))]
  /\ next_oid' = next_oid + 1
  /\ UNCHANGED <<queue_model, clock, t0, ticked>>

\* pt_sim_queue_cancel of the order in slot s.
Cancel(s) ==
  /\ t0 + CancelTransit <= MaxTime
  /\ orders[s].state \in {"PENDING_SUBMIT", "LIVE", "PARTIAL"}
  /\ orders' = [orders EXCEPT ![s] =
                  [@ EXCEPT !.state = "PENDING_CANCEL", !.cancel_ack_t = t0 + CancelTransit]]
  /\ UNCHANGED <<next_oid, queue_model, clock, t0, ticked>>

OnToken(o, market, is_yes) == o.market = market /\ o.is_yes = is_yes

\* pt_sim_queue_on_trade: every order on the token sees the whole trade.
OnTrade(market, is_yes, price, size, trade_side) ==
  /\ orders' = [s \in Slots |->
       LET a == Arrive(orders[s], clock)
       IN  IF ~OnToken(orders[s], market, is_yes) THEN orders[s]
           ELSE IF InMatching(a, clock) /\ TradeReaches(a, price, trade_side)
             THEN TradeAgainst(a, size)
           ELSE a]
  /\ UNCHANGED <<next_oid, queue_model, clock, t0, ticked>>

\* pt_sim_queue_on_level_change: only a level that shrinks matters.
OnLevelChange(market, is_yes, side, price, old, new) ==
  /\ old > new
  /\ orders' = [s \in Slots |->
       LET a == Arrive(orders[s], clock)
       IN  IF ~(OnToken(orders[s], market, is_yes) /\ orders[s].side = side /\ orders[s].price = price)
             THEN orders[s]
           ELSE IF InMatching(a, clock) THEN MoveUp(a, QueueReduction(a, old, new))
           ELSE a]
  /\ UNCHANGED <<next_oid, queue_model, clock, t0, ticked>>

\* pt_sim_queue_tick: one market, against the two books of this moment; at most one
\* tick in each iteration of the loop.
Tick(market, yes_book, no_book) ==
  /\ ~ticked
  /\ ticked' = TRUE
  /\ orders' = [s \in Slots |->
       IF orders[s].market = market
       THEN TickOrder(orders[s], IF orders[s].is_yes THEN yes_book ELSE no_book, t0)
       ELSE orders[s]]
  /\ UNCHANGED <<next_oid, queue_model, clock, t0>>

\* The next iteration of main()'s loop reads the clock.
NewLoop ==
  /\ t0' = clock
  /\ ticked' = FALSE
  /\ UNCHANGED <<orders, next_oid, queue_model, clock>>

Advance ==
  /\ clock < MaxTime
  /\ clock' = clock + 1
  /\ UNCHANGED <<orders, next_oid, queue_model, t0, ticked>>

TickMarket(market) == \E yes_book, no_book \in Books : Tick(market, yes_book, no_book)

Next ==
  \/ \E request \in Requests, book \in Books : Submit(request, book)
  \/ \E s \in Slots : Cancel(s)
  \/ \E market \in Markets, is_yes \in BOOLEAN, price \in Prices, size \in TradeSizes, side \in Sides :
       OnTrade(market, is_yes, price, size, side)
  \/ \E market \in Markets, is_yes \in BOOLEAN, side \in Sides, price \in Prices, old, new \in LevelSizes :
       OnLevelChange(market, is_yes, side, price, old, new)
  \/ \E market \in Markets : TickMarket(market)
  \/ NewLoop
  \/ Advance

Spec == Init /\ [][Next]_vars

\* Time passes, the loop keeps turning, and it ticks the active market in infinitely
\* many iterations, against whatever the books then are.
Fairness ==
  /\ WF_vars(Advance)
  /\ WF_vars(NewLoop)
  /\ SF_vars(TickMarket(ActiveMarket))

FairSpec == Spec /\ Fairness

-----------------------------------------------------------------------------
(***************************************************************************)
(* Properties.                                                             *)
(***************************************************************************)

\* Type invariant: every slot of the pool holds a well-formed order.
TypeOK ==
  /\ orders \in [Slots -> Order]
  /\ next_oid \in Nat \ {0}
  /\ queue_model \in QueueModels
  /\ clock \in Nat
  /\ t0 \in Nat
  /\ ticked \in BOOLEAN

\* Shares are neither created nor lost over any mix of trades, sweeps, cancels and
\* slot reuse: what is filled and what remains make up the order, and an order is
\* FILLED exactly when nothing remains.
SharesConserved ==
  \A s \in Slots :
    /\ orders[s].filled_size + orders[s].remaining_size = orders[s].original_size
    /\ orders[s].state # "CREATED" => (orders[s].state = "FILLED" <=> orders[s].remaining_size = 0)

\* The queue an order joined is accounted for: what is still ahead, what trades
\* consumed and what cancellations removed add up to what it saw at submission.
QueueAccounted ==
  \A s \in Slots :
    orders[s].queue_ahead + orders[s].consumed_volume + orders[s].cancel_volume
      = orders[s].queue_ahead_at_submit

\* Nothing happens to an order in the matching engine before it has arrived there,
\* although ticks use the loop's older time and the feed the current one.
NothingBeforeArrival ==
  \A s \in Slots :
    \/ orders[s].filled_size > 0
    \/ orders[s].queue_ahead # orders[s].queue_ahead_at_submit
    \/ orders[s].state \in {"LIVE", "PARTIAL", "FILLED"}
    => clock >= orders[s].arrival_t

\* A trade gives an order no more than the trade's own size less the queue it had to
\* serve, and it fills an order only when nobody is left ahead of it.
TradesServeTheQueue ==
  [][\A s \in Slots :
       LET o == orders[s]
           n == orders'[s]
       IN  n.filled_size > o.filled_size =>
             \A price \in Prices, size \in TradeSizes :
               OnTrade(o.market, o.is_yes, price, size, Opposite(o.side)) =>
                 /\ n.queue_ahead = 0
                 /\ (n.filled_size - o.filled_size) + o.queue_ahead <= size]_vars

\* A resting order is never filled at an average price worse than its limit
\* (pt_order.h, "limit price").
LimitRespected ==
  \A s \in Slots :
    orders[s].type \in {"LIMIT", "FOK"} =>
      IF orders[s].side = "BID"
      THEN orders[s].cum_cost <= orders[s].filled_size * orders[s].price
      ELSE orders[s].cum_cost >= orders[s].filled_size * orders[s].price

\* Some slot holds order oid, of the active market, in one of the states.
InState(oid, states) ==
  \E s \in Slots :
    orders[s].id = oid /\ orders[s].market = ActiveMarket /\ orders[s].state \in states

\* An order of the active market waiting for its cancel to be confirmed does not wait
\* for ever, whatever trades reach it and however often its slot was used before.
CancelWaitEnds ==
  \A oid \in 1 .. MaxOid : InState(oid, {"PENDING_CANCEL"}) ~> ~InState(oid, {"PENDING_CANCEL"})

CancelRequested(oid) ==
  \E s \in Slots :
    orders[s].id = oid /\ orders[s].market = ActiveMarket /\ orders[s].cancel_ack_t > 0

\* An order of the active market whose cancel was accepted is eventually over
\* (pt_sim_queue.h: the tick handles "cancel acks"; pt_order.h: "cancel confirmed").
AcceptedCancelEndsOrder ==
  \A oid \in 1 .. MaxOid :
    CancelRequested(oid) ~> ~InState(oid, {"PENDING_SUBMIT", "LIVE", "PARTIAL", "PENDING_CANCEL"})

\* An immediate order (MARKET, IOC) never rests: on the active market it is eventually
\* over, whether it was filled, found nothing to take, or had its cancel requested.
ImmediateOrdersEnd ==
  \A oid \in 1 .. MaxOid :
    (\E s \in Slots :
       /\ orders[s].id = oid /\ orders[s].market = ActiveMarket
       /\ Open(orders[s]) /\ orders[s].type \in {"MARKET", "IOC"})
      ~> ~(\E s \in Slots : orders[s].id = oid /\ Open(orders[s]))

-----------------------------------------------------------------------------
(***************************************************************************)
(* What the engine promises its callers: OpenOrders.                       *)
(***************************************************************************)

OpenIds(pool) == {pool[s].id : s \in {r \in Slots : Open(pool[r])}}

SlotOf(pool, oid) == CHOOSE s \in Slots : Open(pool[s]) /\ pool[s].id = oid

\* The shares each open order of the pool has left to trade.
SharesLeft(pool) == [oid \in OpenIds(pool) |-> pool[SlotOf(pool, oid)].remaining_size]

Promise == INSTANCE OpenOrders WITH left <- SharesLeft(orders), last <- next_oid - 1

\* The pool of slots keeps the promise of OpenOrders: fresh ids, shrinking orders, and
\* no order that comes back, whoever reuses its slot.
ImplementsOpenOrders == Promise!Spec

=============================================================================
