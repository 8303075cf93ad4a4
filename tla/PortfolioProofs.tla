--------------------------- MODULE PortfolioProofs ---------------------------
(***************************************************************************)
(* Proofs about the positions of Portfolio, for any pool, prices, sizes    *)
(* and signals: how fills are attributed, and the ledger, whose totals are *)
(* sums over the positions.                                                *)
(***************************************************************************)
EXTENDS Portfolio, Sums, TLAPS

\* Slots hold positions; one without shares has no cost left; a settled one has no shares.
Sane(p) ==
  /\ p \in Position
  /\ p.shares = 0 => p.cost_basis = 0
  /\ p.is_settled => p.shares = 0

\* Two open positions of one outcome and strategy both have a signal, and not the same.
Apart(p, q) ==
  (p.market = q.market /\ p.is_yes = q.is_yes /\ p.strategy = q.strategy
     /\ ~p.is_settled /\ ~q.is_settled)
  => p.signal # 0 /\ q.signal # 0 /\ p.signal # q.signal

PoolInv ==
  /\ position_count \in 0 .. MaxPositions
  /\ positions \in [Slots -> Position]
  /\ \A i \in Slots : Sane(positions[i])
  /\ \A i \in Slots \ InUse : ~positions[i].is_settled
  /\ \A i, j \in InUse : i # j => Apart(positions[i], positions[j])

-----------------------------------------------------------------------------
(***************************************************************************)
(* Arithmetic of the cost basis.                                           *)
(***************************************************************************)

\* Integer division of a part of a whole stays within the whole.
LEMMA DivBounds ==
  ASSUME NEW b \in Nat, NEW s \in Nat \ {0}, NEW n \in 0 .. s
  PROVE  (b * n) \div s \in 0 .. b
<1>1. b * n \in Nat /\ b * n <= b * s
  BY SMT
<1>2. \A x \in Nat : x \div s \in Nat
  BY SMT
<1>3. \A x \in Nat : s * (x \div s) <= x
  BY SMT
<1>4. ASSUME NEW q \in Nat, s * q <= b * s
      PROVE  q <= b
  BY <1>4, SMT
<1>. QED
  BY <1>1, <1>2, <1>3, <1>4

\* Dividing a product by one of its factors gives the other.
LEMMA DivAll ==
  ASSUME NEW b \in Nat, NEW s \in Nat \ {0}
  PROVE  (b * s) \div s = b
BY SMT

-----------------------------------------------------------------------------
(***************************************************************************)
(* What each event does to one position.                                   *)
(***************************************************************************)

\* A position just taken is sane.
LEMMA NewSane ==
  ASSUME NEW market \in Markets \cup {NoMarket}, NEW is_yes \in BOOLEAN,
         NEW strategy \in Strategies \cup {NoStrategy}, NEW signal \in Signals
  PROVE  Sane(NewPosition(market, is_yes, strategy, signal))
BY DEF Sane, NewPosition, Position

\* Attributing a signal to an open position.
Attributed(p, signal) == [p EXCEPT !.signal = IF @ = 0 THEN signal ELSE @]

\* Attributing a signal to a position keeps it sane.
LEMMA AttributedSane ==
  ASSUME NEW p, Sane(p), NEW signal \in Signals
  PROVE  Sane(Attributed(p, signal))
BY DEF Sane, Attributed, Position

\* A buy keeps a position sane.
LEMMA BoughtSane ==
  ASSUME NEW p, Sane(p), ~p.is_settled, NEW shares \in Nat \ {0}, NEW price \in Nat
  PROVE  Sane(Bought(p, shares, price))
<1>1. p \in Position /\ p.shares \in Nat /\ p.cost_basis \in Nat
  BY DEF Sane, Position
<1>2. p.shares + shares \in Nat \ {0} /\ p.cost_basis + shares * price \in Nat
  <2>1. \A a, b \in Nat : a * b \in Nat
    OBVIOUS
  <2>. QED
    BY <1>1, <2>1
<1>3. Bought(p, shares, price) \in Position
  BY <1>1, <1>2 DEF Bought, Position
<1>4. /\ Bought(p, shares, price).shares = p.shares + shares
      /\ Bought(p, shares, price).is_settled = p.is_settled
  BY <1>1 DEF Bought, Position
<1>. QED
  BY <1>2, <1>3, <1>4 DEF Sane

\* A sale of shares held keeps a position sane: the cost left is natural, and none when no share is left.
LEMMA ClosedSane ==
  ASSUME NEW p, Sane(p), p.shares > 0, ~p.is_settled, NEW n \in 0 .. p.shares, NEW pnl \in Int
  PROVE  Sane(Closed(p, n, pnl))
<1>1. /\ p \in Position /\ p.shares \in Nat \ {0} /\ p.cost_basis \in Nat /\ p.realized \in Int
  BY DEF Sane, Position
<1>2. (p.cost_basis * n) \div p.shares \in 0 .. p.cost_basis
  BY <1>1, DivBounds
<1>3. BasisAfterClosing(p, n) \in Nat
  BY <1>1, <1>2 DEF BasisAfterClosing
<1>4. n = p.shares => BasisAfterClosing(p, n) = 0
  BY <1>1, DivAll DEF BasisAfterClosing
<1>5. Closed(p, n, pnl) \in Position
  <2>1. p.shares - n \in Nat /\ p.realized + pnl \in Int
    BY <1>1
  <2>. HIDE DEF BasisAfterClosing
  <2>. QED
    BY <1>1, <1>3, <2>1 DEF Closed, Position
<1>6. /\ Closed(p, n, pnl).shares = p.shares - n
      /\ Closed(p, n, pnl).cost_basis = BasisAfterClosing(p, n)
      /\ Closed(p, n, pnl).is_settled = p.is_settled
  BY <1>1 DEF Closed, Position
<1>. QED
  BY <1>1, <1>4, <1>5, <1>6 DEF Sane

\* A mark keeps a position sane.
LEMMA MarkedSane ==
  ASSUME NEW p, Sane(p), NEW market, NEW is_yes, NEW bid \in Nat
  PROVE  Sane(Marked(p, market, is_yes, bid))
<1>. DEFINE b == IF p.market = market /\ p.is_yes = is_yes THEN bid ELSE p.bid
            u == IF p.shares > 0 THEN Grain * b * p.shares - Grain * p.cost_basis ELSE 0
<1>1. p \in Position /\ b \in Nat /\ p.shares \in Nat /\ p.cost_basis \in Nat
  BY DEF Sane, Position
<1>. HIDE DEF b
<1>2. u \in Int
  <2>1. \A x, y \in Int : x * y \in Int
    OBVIOUS
  <2>2. Grain \in Int
    BY PortfolioAssumption
  <2>3. Grain * b \in Int /\ Grain * p.cost_basis \in Int
    BY <1>1, <2>1, <2>2
  <2>4. Grain * b * p.shares \in Int
    BY <1>1, <2>1, <2>3
  <2>. QED
    BY <2>3, <2>4
<1>3. Marked(p, market, is_yes, bid) = [p EXCEPT !.bid = b, !.unrealized = u]
  BY Zenon DEF Marked, b
<1>. HIDE DEF u
<1>4. [p EXCEPT !.bid = b, !.unrealized = u] \in Position
  BY <1>1, <1>2 DEF Position
<1>5. /\ [p EXCEPT !.bid = b, !.unrealized = u].shares = p.shares
      /\ [p EXCEPT !.bid = b, !.unrealized = u].cost_basis = p.cost_basis
      /\ [p EXCEPT !.bid = b, !.unrealized = u].is_settled = p.is_settled
  BY <1>1 DEF Position
<1>. QED
  BY <1>3, <1>4, <1>5 DEF Sane

\* A settled position is sane.
LEMMA SettledSane ==
  ASSUME NEW p, Sane(p), NEW winner
  PROVE  Sane(Settled(p, winner))
<1>1. p \in Position /\ p.shares \in Nat /\ p.cost_basis \in Nat /\ p.realized \in Int
  BY DEF Sane, Position
<1>2. Payoff(p, winner) \in Int /\ Basis(p) \in Int
  <2>1. \A x, y \in Int : x * y \in Int
    OBVIOUS
  <2>2. Grain \in Int /\ Dollar \in Int /\ p.shares \in Int /\ p.cost_basis \in Int
    BY <1>1, PortfolioAssumption
  <2>3. Grain * Dollar \in Int /\ Grain * p.cost_basis \in Int
    BY <2>1, <2>2
  <2>4. Grain * Dollar * p.shares \in Int
    BY <2>1, <2>2, <2>3
  <2>. QED
    BY <2>3, <2>4 DEF Payoff, Basis
<1>. DEFINE r == p.realized + Payoff(p, winner) - Basis(p)
<1>3. r \in Int
  BY <1>1, <1>2
<1>. HIDE DEF r
<1>4. Settled(p, winner) =
        [p EXCEPT !.shares = 0, !.cost_basis = 0, !.unrealized = 0, !.realized = r, !.is_settled = TRUE]
  BY Zenon DEF Settled, r
<1>. DEFINE q == [p EXCEPT !.shares = 0, !.cost_basis = 0, !.unrealized = 0, !.realized = r,
                          !.is_settled = TRUE]
<1>5. q \in Position
  <2>1. ASSUME NEW x \in Position, NEW n \in Nat, NEW m \in Nat, NEW u \in Int, NEW b \in BOOLEAN
        PROVE  [x EXCEPT !.shares = n, !.cost_basis = m, !.unrealized = u, !.realized = r,
                         !.is_settled = b] \in Position
    BY <1>3 DEF Position
  <2>2. 0 \in Nat /\ 0 \in Int /\ TRUE \in BOOLEAN
    OBVIOUS
  <2>. QED
    BY <1>1, <2>1, <2>2, Zenon
<1>6. q.shares = 0 /\ q.cost_basis = 0
  BY <1>1 DEF Position
<1>. HIDE DEF q
<1>7. Sane(q)
  BY <1>5, <1>6 DEF Sane
<1>. QED
  BY <1>4, <1>7 DEF q

-----------------------------------------------------------------------------
(***************************************************************************)
(* The invariant.                                                          *)
(***************************************************************************)

\* A fill puts an attributed position, worked on, where it found it.
LEMMA FillPoolInv ==
  ASSUME PoolInv,
         NEW market \in Markets, NEW is_yes \in BOOLEAN, NEW strategy \in Strategies,
         NEW signal \in Signals, NEW i \in Slots,
         FindPos(i, market, is_yes, strategy, signal),
         NEW q, Sane(q),
         LET p == Found(i, market, is_yes, strategy, signal)
         IN  /\ q.market = p.market /\ q.is_yes = p.is_yes /\ q.strategy = p.strategy
             /\ q.signal = p.signal,
         positions' = [positions EXCEPT ![i] = q],
         position_count' = Greater(position_count, i)
  PROVE  PoolInv'
<1>. DEFINE p == Found(i, market, is_yes, strategy, signal)
            old == IF i \in InUse THEN positions[i] ELSE NewPosition(market, is_yes, strategy, signal)
<1>1. /\ position_count \in Nat /\ MaxPositions \in Nat /\ position_count <= MaxPositions
      /\ positions \in [Slots -> Position] /\ i \in Nat /\ i <= MaxPositions
      /\ Signals \subseteq Nat
  BY PortfolioAssumption DEF PoolInv, Slots
<1>2. /\ old.market = market /\ old.is_yes = is_yes /\ old.strategy = strategy
      /\ ~old.is_settled /\ old.signal \in Signals
      /\ i \in InUse => Fits(positions[i], market, is_yes, strategy, signal)
      /\ i \notin InUse => /\ i = position_count + 1 /\ old.signal = signal
                          /\ \A j \in InUse : ~Fits(positions[j], market, is_yes, strategy, signal)
  <2>1. CASE i \in InUse
    <3>1. i \in Fitting(market, is_yes, strategy, signal)
      BY <1>1, <2>1 DEF FindPos, InUse
    <3>2. positions[i] \in Position
      BY <1>1
    <3>. QED
      BY <2>1, <3>1, <3>2 DEF Fitting, Fits, Position
  <2>2. CASE i \notin InUse
    <3>1. Fitting(market, is_yes, strategy, signal) = {} /\ i = position_count + 1
      BY <2>2 DEF FindPos, Fitting
    <3>2. /\ old.market = market /\ old.is_yes = is_yes /\ old.strategy = strategy
          /\ old.is_settled = FALSE /\ old.signal = signal
      BY <2>2 DEF NewPosition
    <3>. QED
      BY <2>2, <3>1, <3>2 DEF Fitting
  <2>. QED
    BY <2>1, <2>2
<1>3. old \in Position
  <2>1. NewPosition(market, is_yes, strategy, signal) \in Position
    BY NewSane DEF Sane
  <2>. QED
    BY <1>1, <2>1
<1>. HIDE DEF old
<1>4. p = Attributed(old, signal)
  BY Zenon DEF Found, old, Attributed
<1>5. /\ p.market = market /\ p.is_yes = is_yes /\ p.strategy = strategy
      /\ p.signal = IF old.signal = 0 THEN signal ELSE old.signal
  BY <1>2, <1>3, <1>4 DEF Attributed, Position
<1>. HIDE DEF p
<1>6. q.market = market /\ q.is_yes = is_yes /\ q.strategy = strategy /\ q.signal = p.signal
  BY <1>5 DEF p
<1>7. /\ position_count' \in 0 .. MaxPositions
      /\ InUse' = InUse \cup {i}
  <2>1. CASE i \in InUse
    BY <1>1, <2>1 DEF InUse, Greater
  <2>2. CASE i \notin InUse
    BY <1>1, <1>2, <2>2 DEF InUse, Greater
  <2>. QED
    BY <2>1, <2>2
<1>8. /\ positions' \in [Slots -> Position] /\ positions'[i] = q
      /\ \A j \in Slots \ {i} : positions'[j] = positions[j]
  BY <1>1 DEF Sane
<1>9. \A j \in Slots : Sane(positions'[j])
  BY <1>8 DEF PoolInv
<1>10. ASSUME NEW j \in InUse, j # i
       PROVE  Apart(q, positions[j]) /\ Apart(positions[j], q)
  <2>1. j \in Slots /\ positions[j] \in Position
    BY <1>1, PortfolioAssumption DEF InUse, Slots
  <2>2. SUFFICES ASSUME positions[j].market = market, positions[j].is_yes = is_yes,
                        positions[j].strategy = strategy, ~positions[j].is_settled
                 PROVE  q.signal # 0 /\ positions[j].signal # 0 /\ q.signal # positions[j].signal
    BY <1>6 DEF Apart
  <2>3. CASE i \in InUse
    <3>1. Apart(positions[i], positions[j])
      BY <1>10, <2>3 DEF PoolInv
    <3>2. old = positions[i]
      BY <2>3 DEF old
    <3>3. old.signal # 0 /\ positions[j].signal # 0 /\ old.signal # positions[j].signal
      BY <1>2, <2>2, <3>1, <3>2 DEF Apart
    <3>. QED
      BY <1>5, <1>6, <3>3
  <2>4. CASE i \notin InUse
    <3>1. ~Fits(positions[j], market, is_yes, strategy, signal)
      BY <1>2, <2>4
    <3>2. signal # 0 /\ positions[j].signal # 0 /\ positions[j].signal # signal
      BY <2>2, <3>1 DEF Fits
    <3>. QED
      BY <1>2, <1>5, <1>6, <2>4, <3>2
  <2>. QED
    BY <2>3, <2>4
<1>11. ASSUME NEW j \in InUse', NEW k \in InUse', j # k
       PROVE  Apart(positions'[j], positions'[k])
  <2>1. j \in Slots /\ k \in Slots
    BY <1>7, PortfolioAssumption DEF InUse, Slots, PoolInv
  <2>2. CASE j = i
    BY <1>7, <1>8, <1>10, <1>11, <2>1, <2>2
  <2>3. CASE k = i
    BY <1>7, <1>8, <1>10, <1>11, <2>1, <2>3
  <2>4. CASE j # i /\ k # i
    BY <1>7, <1>8, <1>11, <2>1, <2>4 DEF PoolInv
  <2>. QED
    BY <2>2, <2>3, <2>4
<1>12. \A j \in Slots \ InUse' : ~positions'[j].is_settled
  BY <1>7, <1>8 DEF PoolInv
<1>. QED
  BY <1>7, <1>8, <1>9, <1>11, <1>12 DEF PoolInv

\* What a fill finds is an open, sane position.
LEMMA FoundSane ==
  ASSUME PoolInv,
         NEW market \in Markets, NEW is_yes \in BOOLEAN, NEW strategy \in Strategies,
         NEW signal \in Signals, NEW i \in Slots,
         FindPos(i, market, is_yes, strategy, signal)
  PROVE  /\ Sane(Found(i, market, is_yes, strategy, signal))
         /\ ~Found(i, market, is_yes, strategy, signal).is_settled
<1>. DEFINE old == IF i \in InUse THEN positions[i] ELSE NewPosition(market, is_yes, strategy, signal)
<1>1. Sane(old)
  BY NewSane DEF PoolInv
<1>2. ~old.is_settled
  <2>1. CASE i \in InUse
    <3>1. i \in Fitting(market, is_yes, strategy, signal)
      BY <2>1 DEF FindPos, InUse, PoolInv
    <3>. QED
      BY <2>1, <3>1 DEF Fitting, Fits
  <2>2. CASE i \notin InUse
    BY <2>2 DEF NewPosition
  <2>. QED
    BY <2>1, <2>2
<1>. HIDE DEF old
<1>3. Found(i, market, is_yes, strategy, signal) = Attributed(old, signal)
  BY Zenon DEF Found, old, Attributed
<1>4. Attributed(old, signal).is_settled = old.is_settled
  BY <1>1 DEF Attributed, Sane, Position
<1>. QED
  BY <1>1, <1>2, <1>3, <1>4, AttributedSane

\* The step of a buy.
LEMMA BuyPoolInv ==
  ASSUME PoolInv,
         NEW market \in Markets, NEW is_yes \in BOOLEAN, NEW strategy \in Strategies,
         NEW signal \in Signals, NEW shares \in Sizes, NEW price \in Prices,
         Buy(market, is_yes, strategy, signal, shares, price)
  PROVE  PoolInv'
<1>1. shares \in Nat \ {0} /\ price \in Nat
  BY PortfolioAssumption
<1>2. PICK i \in Slots :
        /\ FindPos(i, market, is_yes, strategy, signal)
        /\ positions' = [positions EXCEPT ![i] =
                           Bought(Found(i, market, is_yes, strategy, signal), shares, price)]
        /\ position_count' = Greater(position_count, i)
  BY Zenon DEF Buy
<1>. DEFINE p == Found(i, market, is_yes, strategy, signal)
            q == Bought(p, shares, price)
<1>3. Sane(p) /\ ~p.is_settled
  BY <1>2, FoundSane
<1>. HIDE DEF p
<1>4. Sane(q)
  BY <1>1, <1>3, BoughtSane
<1>5. /\ q.market = p.market /\ q.is_yes = p.is_yes /\ q.strategy = p.strategy
      /\ q.signal = p.signal
  BY <1>3 DEF Bought, Sane, Position
<1>6. positions' = [positions EXCEPT ![i] = q]
  BY <1>2 DEF p
<1>. HIDE DEF q
<1>. QED
  BY <1>2, <1>4, <1>5, <1>6, FillPoolInv, Zenon DEF p

\* The step of a sale, which closes some of the position or leaves it as it was found.
LEMMA SellPoolInv ==
  ASSUME PoolInv,
         NEW market \in Markets, NEW is_yes \in BOOLEAN, NEW strategy \in Strategies,
         NEW signal \in Signals, NEW shares \in Sizes, NEW price \in Prices,
         Sell(market, is_yes, strategy, signal, shares, price)
  PROVE  PoolInv'
<1>1. shares \in Nat \ {0} /\ price \in Nat /\ Grain \in Nat
  BY PortfolioAssumption
<1>2. PICK i \in Slots :
        /\ FindPos(i, market, is_yes, strategy, signal)
        /\ position_count' = Greater(position_count, i)
        /\ LET p      == Found(i, market, is_yes, strategy, signal)
               closed == SharesClosed(p, shares)
               pnl    == Grain * closed * price - AverageCost(p, closed)
           IN  positions' = [positions EXCEPT ![i] =
                               IF p.shares > 0 THEN Closed(p, closed, pnl) ELSE p]
  BY Zenon DEF Sell
<1>. DEFINE p      == Found(i, market, is_yes, strategy, signal)
            closed == SharesClosed(p, shares)
            pnl    == Grain * closed * price - AverageCost(p, closed)
            q      == IF p.shares > 0 THEN Closed(p, closed, pnl) ELSE p
<1>3. Sane(p) /\ ~p.is_settled
  BY <1>2, FoundSane
<1>4. positions' = [positions EXCEPT ![i] = q]
  BY <1>2
<1>. HIDE DEF p
<1>5. p \in Position /\ p.shares \in Nat /\ p.cost_basis \in Nat
  BY <1>3 DEF Sane, Position
<1>6. closed \in 0 .. p.shares
  BY <1>1, <1>5 DEF SharesClosed, Lesser
<1>. HIDE DEF closed
<1>7. p.shares > 0 => pnl \in Int
  <2>1. \A a, b \in Nat : a * b \in Nat
    OBVIOUS
  <2>2. \A a \in Nat, b \in Nat \ {0} : a \div b \in Nat
    OBVIOUS
  <2>3. closed \in Nat
    BY <1>5, <1>6
  <2>4. /\ Grain * closed \in Nat /\ Grain * p.cost_basis \in Nat
    BY <1>1, <1>5, <2>1, <2>3
  <2>5. Grain * closed * price \in Nat /\ Grain * p.cost_basis * closed \in Nat
    BY <1>1, <2>1, <2>3, <2>4
  <2>6. p.shares > 0 => AverageCost(p, closed) \in Nat
    BY <1>5, <2>2, <2>5 DEF AverageCost
  <2>. QED
    BY <2>5, <2>6
<1>. HIDE DEF pnl
<1>8. p.shares > 0 => Sane(Closed(p, closed, pnl))
  BY <1>3, <1>6, <1>7, ClosedSane
<1>9. Sane(q)
  BY <1>3, <1>8
<1>10. /\ Closed(p, closed, pnl).market = p.market /\ Closed(p, closed, pnl).is_yes = p.is_yes
       /\ Closed(p, closed, pnl).strategy = p.strategy /\ Closed(p, closed, pnl).signal = p.signal
  BY <1>5 DEF Closed, Position
<1>11. /\ q.market = p.market /\ q.is_yes = p.is_yes /\ q.strategy = p.strategy
       /\ q.signal = p.signal
  BY <1>10
<1>. HIDE DEF q
<1>. QED
  BY <1>2, <1>4, <1>9, <1>11, FillPoolInv, Zenon DEF p

\* The step of a mark, which touches no position's identity.
LEMMA MarkPoolInv ==
  ASSUME PoolInv, NEW market \in Markets, NEW is_yes \in BOOLEAN, NEW bid \in Bids,
         Mark(market, is_yes, bid)
  PROVE  PoolInv'
<1>1. bid \in Nat
  BY PortfolioAssumption
<1>2. /\ position_count' = position_count
      /\ positions' = [i \in Slots |->
           IF i \in InUse THEN Marked(positions[i], market, is_yes, bid) ELSE positions[i]]
  BY DEF Mark
<1>3. ASSUME NEW i \in Slots
      PROVE  /\ Sane(positions'[i])
             /\ positions'[i].market = positions[i].market
             /\ positions'[i].is_yes = positions[i].is_yes
             /\ positions'[i].strategy = positions[i].strategy
             /\ positions'[i].signal = positions[i].signal
             /\ positions'[i].is_settled = positions[i].is_settled
  <2>1. Sane(positions[i]) /\ positions[i] \in Position
    BY DEF PoolInv
  <2>2. CASE i \in InUse
    <3>1. positions'[i] = Marked(positions[i], market, is_yes, bid)
      BY <1>2, <2>2
    <3>2. Sane(Marked(positions[i], market, is_yes, bid))
      BY <1>1, <2>1, MarkedSane
    <3>. QED
      BY <2>1, <3>1, <3>2 DEF Marked, Position
  <2>3. CASE i \notin InUse
    BY <1>2, <2>1, <2>3
  <2>. QED
    BY <2>2, <2>3
<1>4. positions' \in [Slots -> Position]
  BY <1>2, <1>3 DEF Sane
<1>5. InUse' = InUse /\ InUse \subseteq Slots
  BY <1>2, PortfolioAssumption DEF InUse, Slots, PoolInv
<1>6. ASSUME NEW i \in InUse', NEW j \in InUse', i # j
      PROVE  Apart(positions'[i], positions'[j])
  <2>1. i \in InUse /\ j \in InUse /\ i \in Slots /\ j \in Slots
    BY <1>5
  <2>2. Apart(positions[i], positions[j])
    BY <1>6, <2>1 DEF PoolInv
  <2>. QED
    BY <1>3, <2>1, <2>2 DEF Apart
<1>7. \A i \in Slots \ InUse' : ~positions'[i].is_settled
  BY <1>3, <1>5 DEF PoolInv
<1>. QED
  BY <1>2, <1>3, <1>4, <1>6, <1>7 DEF PoolInv

\* The step of a settlement: a position is left as it was or is settled.
LEMMA SettlePoolInv ==
  ASSUME PoolInv, NEW market \in Markets, NEW winner \in BOOLEAN, SettleMarket(market, winner)
  PROVE  PoolInv'
<1>1. /\ position_count' = position_count
      /\ positions' = [i \in Slots |->
           IF i \in Unsettled(market) THEN Settled(positions[i], winner) ELSE positions[i]]
  BY DEF SettleMarket
<1>2. ASSUME NEW i \in Slots
      PROVE  /\ Sane(positions'[i])
             /\ positions'[i] = positions[i] \/ positions'[i].is_settled
  <2>1. Sane(positions[i]) /\ positions[i] \in Position
    BY DEF PoolInv
  <2>2. CASE i \in Unsettled(market)
    <3>1. positions'[i] = Settled(positions[i], winner)
      BY <1>1, <2>2
    <3>2. Sane(Settled(positions[i], winner))
      BY <2>1, SettledSane
    <3>3. Settled(positions[i], winner).is_settled
      BY <2>1 DEF Settled, Position
    <3>. QED
      BY <3>1, <3>2, <3>3
  <2>3. CASE i \notin Unsettled(market)
    BY <1>1, <2>1, <2>3
  <2>. QED
    BY <2>2, <2>3
<1>3. positions' \in [Slots -> Position]
  BY <1>1, <1>2 DEF Sane
<1>4. InUse' = InUse /\ InUse \subseteq Slots
  BY <1>1, PortfolioAssumption DEF InUse, Slots, PoolInv
<1>5. ASSUME NEW i \in InUse', NEW j \in InUse', i # j
      PROVE  Apart(positions'[i], positions'[j])
  <2>1. i \in InUse /\ j \in InUse /\ i \in Slots /\ j \in Slots
    BY <1>4
  <2>2. Apart(positions[i], positions[j])
    BY <1>5, <2>1 DEF PoolInv
  <2>. QED
    BY <1>2, <2>1, <2>2 DEF Apart
<1>6. \A i \in Slots \ InUse' : ~positions'[i].is_settled
  BY <1>1, <1>4 DEF PoolInv, Unsettled
<1>. QED
  BY <1>1, <1>2, <1>3, <1>5, <1>6 DEF PoolInv

\* The invariant holds of the empty pool of positions.
LEMMA InitPoolInv == Init => PoolInv
<1>. SUFFICES ASSUME Init PROVE PoolInv
  OBVIOUS
<1>. DEFINE empty == NewPosition(NoMarket, FALSE, NoStrategy, 0)
<1>1. Sane(empty)
  BY NewSane, PortfolioAssumption
<1>. HIDE DEF empty
<1>2. positions = [i \in Slots |-> empty] /\ position_count = 0
  BY DEF Init, empty
<1>3. positions \in [Slots -> Position] /\ \A i \in Slots : Sane(positions[i])
  BY <1>1, <1>2 DEF Sane
<1>4. InUse = {} /\ position_count \in 0 .. MaxPositions
  BY <1>2, PortfolioAssumption DEF InUse
<1>5. \A i \in Slots : ~positions[i].is_settled
  BY <1>2 DEF empty, NewPosition
<1>. QED
  BY <1>3, <1>4, <1>5 DEF PoolInv

\* Every step keeps the invariant of the pool.
LEMMA NextPoolInv == PoolInv /\ [Next]_vars => PoolInv'
<1>. SUFFICES ASSUME PoolInv, [Next]_vars PROVE PoolInv'
  OBVIOUS
<1>1. ASSUME NEW market \in Markets, NEW is_yes \in BOOLEAN, NEW strategy \in Strategies,
             NEW signal \in Signals, NEW shares \in Sizes, NEW price \in Prices,
             Buy(market, is_yes, strategy, signal, shares, price)
      PROVE  PoolInv'
  BY <1>1, BuyPoolInv
<1>2. ASSUME NEW market \in Markets, NEW is_yes \in BOOLEAN, NEW strategy \in Strategies,
             NEW signal \in Signals, NEW shares \in Sizes, NEW price \in Prices,
             Sell(market, is_yes, strategy, signal, shares, price)
      PROVE  PoolInv'
  BY <1>2, SellPoolInv
<1>3. ASSUME NEW market \in Markets, NEW is_yes \in BOOLEAN, NEW strategy \in Strategies,
             NEW signal \in Signals, DropFill(market, is_yes, strategy, signal)
      PROVE  PoolInv'
  BY <1>3 DEF DropFill, PoolInv, InUse
<1>4. ASSUME NEW market \in Markets, NEW is_yes \in BOOLEAN, NEW bid \in Bids,
             Mark(market, is_yes, bid)
      PROVE  PoolInv'
  BY <1>4, MarkPoolInv
<1>5. ASSUME NEW market \in Markets, NEW winner \in BOOLEAN, SettleMarket(market, winner)
      PROVE  PoolInv'
  BY <1>5, SettlePoolInv
<1>6. CASE UNCHANGED vars
  BY <1>6 DEF vars, PoolInv, InUse
<1>. QED
  BY <1>1, <1>2, <1>3, <1>4, <1>5, <1>6, Zenon DEF Next

\* PoolInv is inductive.
THEOREM PoolInvariant == Spec => []PoolInv
BY InitPoolInv, NextPoolInv, PTL DEF Spec

-----------------------------------------------------------------------------
(***************************************************************************)
(* What it gives.                                                          *)
(***************************************************************************)

\* find_pos_ has at most one open position to choose from for a fill with a signal,
\* however signals and unsigned fills came before: attribution is unambiguous.
THEOREM AttributionAlwaysUnique == Spec => []AttributionUnique
<1>1. PoolInv => AttributionUnique
  <2>. SUFFICES ASSUME PoolInv,
                       NEW market \in Markets, NEW is_yes \in BOOLEAN,
                       NEW strategy \in Strategies, NEW signal \in Signals \ {0},
                       NEW i \in Fitting(market, is_yes, strategy, signal),
                       NEW j \in Fitting(market, is_yes, strategy, signal), i # j
                PROVE  FALSE
    BY DEF AttributionUnique
  <2>1. /\ i \in InUse /\ Fits(positions[i], market, is_yes, strategy, signal)
        /\ j \in InUse /\ Fits(positions[j], market, is_yes, strategy, signal)
    BY DEF Fitting
  <2>2. Apart(positions[i], positions[j])
    BY <2>1 DEF PoolInv
  <2>. QED
    BY <2>1, <2>2 DEF Fits, Apart
<1>. QED
  BY <1>1, PoolInvariant, PTL

\* No sequence of truncated partial sales leaves cost in a position without shares.
THEOREM NothingHeldNeverCosts == Spec => []NothingHeldCostsNothing
<1>1. PoolInv => NothingHeldCostsNothing
  BY DEF PoolInv, Sane, NothingHeldCostsNothing
<1>. QED
  BY <1>1, PoolInvariant, PTL

\* A position that a resolution settled keeps its realized profit and attribution and
\* stays empty, whatever fills, marks and settlements follow.
THEOREM SettledStaySettled == Spec => SettledForGood
<1>1. ASSUME PoolInv, PoolInv', [Next]_vars, NEW i \in Slots, positions[i].is_settled
      PROVE  /\ positions'[i].is_settled /\ positions'[i].shares = 0
             /\ positions'[i].cost_basis = 0
             /\ positions'[i].realized = positions[i].realized
             /\ positions'[i].signal = positions[i].signal
  <2>1. Sane(positions[i]) /\ Sane(positions'[i]) /\ positions[i] \in Position
    BY <1>1 DEF PoolInv
  <2>2. positions[i].shares = 0 /\ positions[i].cost_basis = 0
    BY <1>1, <2>1 DEF Sane
  <2>. SUFFICES \/ positions'[i] = positions[i]
                \/ \E market \in Markets, is_yes \in BOOLEAN, bid \in Bids :
                     positions'[i] = Marked(positions[i], market, is_yes, bid)
    <3>1. ASSUME NEW market \in Markets, NEW is_yes \in BOOLEAN, NEW bid \in Bids,
                 positions'[i] = Marked(positions[i], market, is_yes, bid)
          PROVE  /\ positions'[i].is_settled /\ positions'[i].shares = 0
                 /\ positions'[i].cost_basis = 0
                 /\ positions'[i].realized = positions[i].realized
                 /\ positions'[i].signal = positions[i].signal
      BY <1>1, <2>1, <2>2, <3>1 DEF Marked, Position
    <3>. QED
      BY <1>1, <2>2, <3>1
  <2>3. ASSUME NEW market \in Markets, NEW is_yes \in BOOLEAN, NEW strategy \in Strategies,
               NEW signal \in Signals, FindPos(i, market, is_yes, strategy, signal)
        PROVE  FALSE
    <3>1. CASE i \in InUse
      BY <1>1, <2>3, <3>1 DEF FindPos, Fitting, Fits, InUse, PoolInv
    <3>2. CASE i \notin InUse
      <4>1. i \in Slots \ InUse
        BY <3>2
      <4>2. ~positions[i].is_settled
        BY <1>1, <4>1, Zenon DEF PoolInv
      <4>. QED
        BY <1>1, <4>2
    <3>. QED
      BY <3>1, <3>2
  <2>4. ASSUME NEW market \in Markets, NEW is_yes \in BOOLEAN, NEW strategy \in Strategies,
               NEW signal \in Signals, NEW q, NEW k \in Slots,
               FindPos(k, market, is_yes, strategy, signal),
               positions' = [positions EXCEPT ![k] = q]
        PROVE  positions'[i] = positions[i]
    <3>1. k # i
      BY <2>3, <2>4
    <3>. QED
      BY <1>1, <2>4, <3>1 DEF PoolInv
  <2>5. ASSUME NEW market \in Markets, NEW is_yes \in BOOLEAN, NEW strategy \in Strategies,
               NEW signal \in Signals, NEW shares \in Sizes, NEW price \in Prices,
               Buy(market, is_yes, strategy, signal, shares, price)
        PROVE  positions'[i] = positions[i]
    BY <2>4, <2>5, Zenon DEF Buy
  <2>6. ASSUME NEW market \in Markets, NEW is_yes \in BOOLEAN, NEW strategy \in Strategies,
               NEW signal \in Signals, NEW shares \in Sizes, NEW price \in Prices,
               Sell(market, is_yes, strategy, signal, shares, price)
        PROVE  positions'[i] = positions[i]
    BY <2>4, <2>6, Zenon DEF Sell
  <2>7. ASSUME NEW market \in Markets, NEW is_yes \in BOOLEAN, NEW strategy \in Strategies,
               NEW signal \in Signals, DropFill(market, is_yes, strategy, signal)
        PROVE  positions'[i] = positions[i]
    BY <2>7 DEF DropFill
  <2>8. ASSUME NEW market \in Markets, NEW is_yes \in BOOLEAN, NEW bid \in Bids,
               Mark(market, is_yes, bid)
        PROVE  \/ positions'[i] = positions[i]
               \/ positions'[i] = Marked(positions[i], market, is_yes, bid)
    BY <2>8 DEF Mark
  <2>9. ASSUME NEW market \in Markets, NEW winner \in BOOLEAN, SettleMarket(market, winner)
        PROVE  positions'[i] = positions[i]
    <3>1. i \notin Unsettled(market)
      BY <1>1 DEF Unsettled
    <3>. QED
      BY <2>9, <3>1 DEF SettleMarket
  <2>10. CASE UNCHANGED vars
    BY <2>10 DEF vars
  <2>. QED
    BY <1>1, <2>5, <2>6, <2>7, <2>8, <2>9, <2>10, Zenon DEF Next
<1>2. PoolInv /\ PoolInv' /\ [Next]_vars =>
        [\A i \in Slots :
           positions[i].is_settled =>
             /\ positions'[i].is_settled /\ positions'[i].shares = 0 /\ positions'[i].cost_basis = 0
             /\ positions'[i].realized = positions[i].realized
             /\ positions'[i].signal = positions[i].signal]_vars
  BY <1>1
<1>. QED
  BY <1>2, PoolInvariant, PTL DEF Spec, SettledForGood

-----------------------------------------------------------------------------
(***************************************************************************)
(* The ledger: what the positions add up to.                               *)
(***************************************************************************)

\* The cost that truncation leaves behind when shares are sold: their exact average cost
\* is at most one scaled dollar more than what leaves the position's basis.
LEMMA TruncatedCost ==
  ASSUME NEW g \in Nat \ {0}, NEW b \in Nat, NEW s \in Nat \ {0}, NEW n \in Nat
  PROVE  /\ (g * b * n) \div s \in Nat /\ (b * n) \div s \in Nat
         /\ (g * b * n) \div s - g * ((b * n) \div s) \in 0 .. g
<1>. DEFINE x == b * n
            q == x \div s
            c == (g * x) \div s
<1>1. x \in Nat /\ g * x \in Nat /\ g * b * n = g * x
  <2>1. \A i, j \in Nat : i * j \in Nat
    OBVIOUS
  <2>2. \A i, j, k \in Nat : i * j * k = i * (j * k)
    OBVIOUS
  <2>. QED
    BY <2>1, <2>2
<1>. HIDE DEF x
<1>2. \A y \in Nat : y \div s \in Nat /\ s * (y \div s) <= y /\ y < s * (y \div s) + s
  BY SMT
<1>3. /\ q \in Nat /\ s * q <= x /\ x < s * q + s
      /\ c \in Nat /\ s * c <= g * x /\ g * x < s * c + s
  BY <1>1, <1>2
<1>. HIDE DEF q, c
<1>4. \A i, j \in Int : s * i < s * j => i < j
  BY SMT
<1>5. \A i, j \in Nat : i <= j => g * i <= g * j
  BY SMT
<1>6. g * q \in Nat /\ s * (g * q) = g * (s * q) /\ s * q \in Nat
      /\ s * (g * q + g) = g * (s * q + s) /\ s * (c + 1) = s * c + s
  BY <1>3, SMT
<1>7. g * q <= c
  <2>1. s * (g * q) < s * (c + 1)
    BY <1>1, <1>3, <1>5, <1>6
  <2>. QED
    BY <1>3, <1>4, <1>6, <2>1
<1>8. c <= g * q + g
  <2>1. g * x <= g * (s * q + s)
    BY <1>1, <1>3, <1>5, <1>6
  <2>2. s * c < s * (g * q + g + 1)
    <3>1. s * (g * q + g + 1) = s * (g * q + g) + s
      BY <1>6, SMT
    <3>. QED
      BY <1>1, <1>3, <1>6, <2>1, <3>1
  <2>. QED
    BY <1>3, <1>4, <1>6, <2>2
<1>. QED
  BY <1>1, <1>3, <1>6, <1>7, <1>8 DEF q, c, x

CostOf == [i \in Slots |-> Basis(positions[i])]
RealizedOf == [i \in Slots |-> positions[i].realized]

\* Over the whole pool: what the positions cost and what they realized.
AllCost == SumFunctionOnSet(CostOf, Slots)
AllRealized == SumFunctionOnSet(RealizedOf, Slots)

\* Slots not in use have cost and realized nothing.
UnusedBlank == \A i \in Slots \ InUse : positions[i].cost_basis = 0 /\ positions[i].realized = 0

\* A pool of positions costs a natural number of grains and realized a whole one.
LEMMA Valued ==
  ASSUME positions \in [Slots -> Position]
  PROVE  /\ IsFiniteSet(Slots)
         /\ \A i \in Slots : CostOf[i] = Grain * positions[i].cost_basis /\ CostOf[i] \in Nat
         /\ \A i \in Slots : RealizedOf[i] = positions[i].realized /\ RealizedOf[i] \in Int
         /\ AllCost \in Nat /\ AllRealized \in Int
<1>1. IsFiniteSet(Slots)
  BY FS_Interval, PortfolioAssumption DEF Slots
<1>2. \A i \in Slots : positions[i].cost_basis \in Nat /\ positions[i].realized \in Int
  BY DEF Position
<1>3. \A x, y \in Nat : x * y \in Nat
  OBVIOUS
<1>4. \A i \in Slots : CostOf[i] = Grain * positions[i].cost_basis /\ CostOf[i] \in Nat
  BY <1>2, <1>3, PortfolioAssumption DEF CostOf, Basis
<1>5. \A i \in Slots : RealizedOf[i] = positions[i].realized /\ RealizedOf[i] \in Int
  BY <1>2 DEF RealizedOf
<1>. QED
  BY <1>1, <1>4, <1>5, SumType DEF AllCost, AllRealized

\* The positions in use are all that counts.
LEMMA InUseIsAll ==
  ASSUME positions \in [Slots -> Position], UnusedBlank, position_count \in 0 .. MaxPositions
  PROVE  /\ Total(Basis, InUse) = AllCost
         /\ Total(LAMBDA p : p.realized, InUse) = AllRealized
<1>1. InUse \in SUBSET Slots
  BY PortfolioAssumption DEF InUse, Slots
<1>2. \A i \in Slots \ InUse : CostOf[i] = 0 /\ RealizedOf[i] = 0
  BY Valued, PortfolioAssumption DEF UnusedBlank
<1>3. /\ SumFunctionOnSet(CostOf, Slots) = SumFunctionOnSet(CostOf, InUse)
      /\ SumFunctionOnSet(RealizedOf, Slots) = SumFunctionOnSet(RealizedOf, InUse)
  <2>1. \A i \in Slots : CostOf[i] \in Int /\ RealizedOf[i] \in Int
    BY Valued
  <2>. QED
    BY <1>1, <1>2, <2>1, Valued, SumSupport
<1>4. Total(Basis, InUse) = SumFunctionOnSet(CostOf, InUse)
  BY DEF Total, CostOf
<1>5. Total(LAMBDA p : p.realized, InUse) = SumFunctionOnSet(RealizedOf, InUse)
  BY DEF Total, RealizedOf
<1>. QED
  BY <1>3, <1>4, <1>5 DEF AllCost, AllRealized

\* A position replaced.
LEMMA OneReplaced ==
  ASSUME positions \in [Slots -> Position], NEW i \in Slots, NEW q \in Position,
         positions' = [positions EXCEPT ![i] = q]
  PROVE  /\ AllCost' = AllCost + Basis(q) - Basis(positions[i])
         /\ AllRealized' = AllRealized + q.realized - positions[i].realized
<1>1. /\ positions' \in [Slots -> Position] /\ positions'[i] = q
      /\ \A j \in Slots \ {i} : positions'[j] = positions[j]
  OBVIOUS
<1>2. /\ \A j \in Slots : CostOf[j] \in Int /\ CostOf'[j] \in Int
      /\ \A j \in Slots : RealizedOf[j] \in Int /\ RealizedOf'[j] \in Int
  <2>1. \A j \in Slots : positions'[j].cost_basis \in Nat /\ positions'[j].realized \in Int
    BY <1>1 DEF Position
  <2>2. \A x, y \in Nat : x * y \in Int
    OBVIOUS
  <2>3. \A j \in Slots : CostOf'[j] \in Int /\ RealizedOf'[j] \in Int
    BY <2>1, <2>2, PortfolioAssumption DEF CostOf, RealizedOf, Basis
  <2>. QED
    BY <2>3, Valued
<1>3. /\ \A j \in Slots \ {i} : CostOf'[j] = CostOf[j] /\ RealizedOf'[j] = RealizedOf[j]
      /\ CostOf'[i] = Basis(q) /\ CostOf[i] = Basis(positions[i])
      /\ RealizedOf'[i] = q.realized /\ RealizedOf[i] = positions[i].realized
  BY <1>1 DEF CostOf, RealizedOf
<1>4. IsFiniteSet(Slots)
  BY Valued
<1>5. AllCost' = AllCost + CostOf'[i] - CostOf[i]
  <2>. DEFINE f == CostOf
              g == CostOf'
  <2>1. /\ \A x \in Slots : f[x] \in Int /\ g[x] \in Int
        /\ \A x \in Slots \ {i} : g[x] = f[x]
    BY <1>2, <1>3
  <2>. HIDE DEF f, g
  <2>2. SumFunctionOnSet(g, Slots) = SumFunctionOnSet(f, Slots) + g[i] - f[i]
    BY <1>4, <2>1, SumChange
  <2>. QED
    BY <2>2 DEF f, g, AllCost
<1>6. AllRealized' = AllRealized + RealizedOf'[i] - RealizedOf[i]
  <2>. DEFINE f == RealizedOf
              g == RealizedOf'
  <2>1. /\ \A x \in Slots : f[x] \in Int /\ g[x] \in Int
        /\ \A x \in Slots \ {i} : g[x] = f[x]
    BY <1>2, <1>3
  <2>. HIDE DEF f, g
  <2>2. SumFunctionOnSet(g, Slots) = SumFunctionOnSet(f, Slots) + g[i] - f[i]
    BY <1>4, <2>1, SumChange
  <2>. QED
    BY <2>2 DEF f, g, AllRealized
<1>. QED
  BY <1>3, <1>5, <1>6

LedgerInv ==
  /\ PoolInv
  /\ UnusedBlank
  /\ cash \in Int /\ realized_pnl \in Int /\ unrealized_pnl \in Int /\ total_exposure \in Nat
  /\ trades_count \in Nat /\ oversold \in Nat /\ fills \in Nat
  /\ cash + AllCost - realized_pnl - oversold \in 0 .. Truncation
  /\ AllCost - total_exposure \in -Truncation .. Truncation
  /\ realized_pnl = AllRealized

\* What a fill finds has the cost and the profit of its slot.
LEMMA FoundCost ==
  ASSUME PoolInv, UnusedBlank,
         NEW market, NEW is_yes, NEW strategy, NEW signal, NEW i \in Slots
  PROVE  /\ Found(i, market, is_yes, strategy, signal).cost_basis = positions[i].cost_basis
         /\ Found(i, market, is_yes, strategy, signal).realized = positions[i].realized
<1>. DEFINE old == IF i \in InUse THEN positions[i] ELSE NewPosition(market, is_yes, strategy, signal)
<1>1. /\ positions \in [Slots -> Position]
      /\ \A j \in Slots \ InUse : positions[j].cost_basis = 0 /\ positions[j].realized = 0
  BY DEF PoolInv, UnusedBlank
<1>2. old.cost_basis = positions[i].cost_basis /\ old.realized = positions[i].realized
  <2>1. CASE i \in InUse
    BY <2>1
  <2>2. CASE i \notin InUse
    <3>1. positions[i].cost_basis = 0 /\ positions[i].realized = 0
      BY <1>1, <2>2
    <3>. QED
      BY <2>2, <3>1 DEF NewPosition
  <2>. QED
    BY <2>1, <2>2
<1>3. Attributed(old, signal).cost_basis = old.cost_basis
      /\ Attributed(old, signal).realized = old.realized
  <2>1. CASE i \in InUse
    <3>1. old \in Position
      BY <1>1, <2>1
    <3>. QED
      BY <3>1 DEF Attributed, Position
  <2>2. CASE i \notin InUse
    BY <2>2 DEF Attributed, NewPosition
  <2>. QED
    BY <2>1, <2>2
<1>4. Found(i, market, is_yes, strategy, signal) = Attributed(old, signal)
  BY Zenon DEF Found, Attributed
<1>. HIDE DEF old
<1>. QED
  BY <1>2, <1>3, <1>4

\* A fill takes a slot into use at most.
LEMMA StillBlank ==
  ASSUME PoolInv, UnusedBlank, NEW i \in Slots,
         \A j \in Slots \ {i} : positions'[j] = positions[j],
         position_count' = Greater(position_count, i)
  PROVE  UnusedBlank'
<1>1. position_count \in Nat /\ i \in Nat \ {0}
  BY PortfolioAssumption DEF PoolInv, Slots
<1>2. InUse \cup {i} \subseteq InUse'
  BY <1>1 DEF InUse, Greater
<1>. QED
  BY <1>2 DEF UnusedBlank

\* The accounts after a step that leaves the cost and the profit of every position.
LEMMA LedgerKept ==
  ASSUME LedgerInv, PoolInv', UnusedBlank', AllCost' = AllCost, AllRealized' = AllRealized,
         UNCHANGED <<cash, realized_pnl, total_exposure, trades_count, oversold>>,
         unrealized_pnl' \in Int, fills' \in Nat
  PROVE  LedgerInv'
BY DEF LedgerInv, Truncation

\* The step of a buy: the cash that goes out is the cost that comes in.
LEMMA BuyLedger ==
  ASSUME LedgerInv,
         NEW market \in Markets, NEW is_yes \in BOOLEAN, NEW strategy \in Strategies,
         NEW signal \in Signals, NEW shares \in Sizes, NEW price \in Prices,
         Buy(market, is_yes, strategy, signal, shares, price)
  PROVE  LedgerInv'
<1>1. PoolInv /\ UnusedBlank /\ PoolInv'
  BY BuyPoolInv DEF LedgerInv
<1>2. shares \in Nat /\ price \in Nat /\ Grain \in Nat
  BY PortfolioAssumption
<1>3. PICK i \in Slots :
        /\ FindPos(i, market, is_yes, strategy, signal)
        /\ positions' = [positions EXCEPT ![i] =
                           Bought(Found(i, market, is_yes, strategy, signal), shares, price)]
        /\ position_count' = Greater(position_count, i)
  BY Zenon DEF Buy
<1>. DEFINE p == Found(i, market, is_yes, strategy, signal)
            q == Bought(p, shares, price)
            paid == Grain * shares * price
<1>4. Sane(p) /\ ~p.is_settled
  BY <1>1, <1>3, FoundSane
<1>5. /\ UnusedBlank'
      /\ p.cost_basis = positions[i].cost_basis /\ p.realized = positions[i].realized
  <2>1. \A j \in Slots \ {i} : positions'[j] = positions[j]
    BY <1>1, <1>3 DEF PoolInv
  <2>. QED
    BY <1>1, <1>3, <2>1, StillBlank, FoundCost
<1>. HIDE DEF p
<1>6. p \in Position /\ p.cost_basis \in Nat /\ p.realized \in Int
  BY <1>4 DEF Sane, Position
<1>7. q \in Position
  <2>1. shares \in Nat \ {0}
    BY PortfolioAssumption
  <2>. QED
    BY <1>2, <1>4, <2>1, BoughtSane DEF Sane
<1>8. q.cost_basis = p.cost_basis + shares * price /\ q.realized = p.realized
  BY <1>6 DEF Bought, Position
<1>9. positions \in [Slots -> Position] /\ positions' = [positions EXCEPT ![i] = q]
  BY <1>1, <1>3 DEF p, PoolInv
<1>. HIDE DEF q
<1>10. /\ AllCost' = AllCost + Basis(q) - Basis(positions[i])
       /\ AllRealized' = AllRealized + q.realized - positions[i].realized
  BY <1>7, <1>9, OneReplaced
<1>11. paid \in Nat /\ Grain * q.cost_basis = Grain * p.cost_basis + paid
       /\ Grain * p.cost_basis \in Nat
  <2>1. \A a, b \in Nat : a * b \in Nat
    OBVIOUS
  <2>2. \A a, b, c, d \in Nat : a * (b + c * d) = a * b + a * c * d
    BY SMT
  <2>. QED
    BY <1>2, <1>6, <1>8, <2>1, <2>2
<1>. HIDE DEF paid
<1>12. AllCost \in Nat /\ AllRealized \in Int
  BY <1>9, Valued
<1>13. AllCost' = AllCost + paid /\ AllRealized' = AllRealized
  BY <1>5, <1>6, <1>8, <1>10, <1>11, <1>12 DEF Basis
<1>14. /\ cash' = cash - paid /\ total_exposure' = total_exposure + paid
       /\ realized_pnl' = realized_pnl /\ unrealized_pnl' = unrealized_pnl
       /\ trades_count' = trades_count /\ oversold' = oversold /\ fills' = fills + 1
  BY DEF Buy, paid
<1>15. /\ cash' \in Int /\ realized_pnl' \in Int /\ unrealized_pnl' \in Int /\ total_exposure' \in Nat
       /\ trades_count' \in Nat /\ oversold' \in Nat /\ fills' \in Nat
  BY <1>11, <1>14 DEF LedgerInv
<1>16. cash' + AllCost' - realized_pnl' - oversold' = cash + AllCost - realized_pnl - oversold
       /\ AllCost' - total_exposure' = AllCost - total_exposure
  BY <1>11, <1>12, <1>13, <1>14 DEF LedgerInv
<1>17. Truncation' = Truncation
  BY <1>14 DEF Truncation
<1>. QED
  BY <1>1, <1>5, <1>13, <1>14, <1>15, <1>16, <1>17 DEF LedgerInv

\* The step of a sale: the cash that comes in is profit, cost that goes out and what was
\* sold without being held, but for the cost that truncation leaves behind.
LEMMA SellLedger ==
  ASSUME LedgerInv,
         NEW market \in Markets, NEW is_yes \in BOOLEAN, NEW strategy \in Strategies,
         NEW signal \in Signals, NEW shares \in Sizes, NEW price \in Prices,
         Sell(market, is_yes, strategy, signal, shares, price)
  PROVE  LedgerInv'
<1>1. PoolInv /\ UnusedBlank /\ PoolInv'
  BY SellPoolInv DEF LedgerInv
<1>2. shares \in Nat /\ price \in Nat /\ Grain \in Nat \ {0}
  BY PortfolioAssumption
<1>3. PICK i \in Slots :
        /\ FindPos(i, market, is_yes, strategy, signal)
        /\ position_count' = Greater(position_count, i)
        /\ LET p      == Found(i, market, is_yes, strategy, signal)
               closed == SharesClosed(p, shares)
               cost   == AverageCost(p, closed)
               pnl    == Grain * closed * price - cost
           IN  /\ oversold' = oversold + Grain * (shares - closed) * price
               /\ IF p.shares > 0
                  THEN /\ positions' = [positions EXCEPT ![i] = Closed(p, closed, pnl)]
                       /\ realized_pnl' = realized_pnl + pnl
                       /\ total_exposure' = Greater(0, total_exposure - cost)
                       /\ trades_count' = trades_count + 1
                  ELSE /\ positions' = [positions EXCEPT ![i] = p]
                       /\ UNCHANGED <<realized_pnl, total_exposure, trades_count>>
  BY Zenon DEF Sell
<1>. DEFINE p      == Found(i, market, is_yes, strategy, signal)
            closed == SharesClosed(p, shares)
            cost   == AverageCost(p, closed)
            income == Grain * closed * price
            over   == Grain * (shares - closed) * price
            paid   == Grain * shares * price
<1>4. Sane(p) /\ ~p.is_settled
  BY <1>1, <1>3, FoundSane
<1>5. /\ UnusedBlank'
      /\ p.cost_basis = positions[i].cost_basis /\ p.realized = positions[i].realized
  <2>1. \E q : positions' = [positions EXCEPT ![i] = q]
    BY <1>3, Zenon
  <2>2. \A j \in Slots \ {i} : positions'[j] = positions[j]
    BY <1>1, <2>1 DEF PoolInv
  <2>3. position_count' = Greater(position_count, i)
    BY <1>3
  <2>. QED
    BY <1>1, <2>2, <2>3, StillBlank, FoundCost
<1>6. /\ oversold' = oversold + over
      /\ p.shares > 0 => /\ positions' = [positions EXCEPT ![i] = Closed(p, closed, income - cost)]
                         /\ realized_pnl' = realized_pnl + (income - cost)
                         /\ total_exposure' = Greater(0, total_exposure - cost)
                         /\ trades_count' = trades_count + 1
      /\ ~(p.shares > 0) => /\ positions' = [positions EXCEPT ![i] = p]
                            /\ UNCHANGED <<realized_pnl, total_exposure, trades_count>>
  BY <1>3, Zenon
<1>7. /\ cash' = cash + paid /\ unrealized_pnl' = unrealized_pnl /\ fills' = fills + 1
  BY DEF Sell
<1>. HIDE DEF p
<1>8. /\ p \in Position /\ p.cost_basis \in Nat /\ p.realized \in Int /\ p.shares \in Nat
  BY <1>4 DEF Sane, Position
<1>9. closed \in 0 .. p.shares /\ closed <= shares /\ closed \in Nat
  BY <1>2, <1>8 DEF SharesClosed, Lesser
<1>. HIDE DEF closed
<1>10. /\ income \in Nat /\ over \in Nat /\ paid \in Nat /\ paid = income + over
       /\ closed = 0 => income = 0
  <2>1. \A a, b \in Nat : a * b \in Nat
    OBVIOUS
  <2>2. \A g, a, b, c \in Nat : a <= b => g * b * c = g * a * c + g * (b - a) * c
    BY SMT
  <2>3. shares - closed \in Nat
    BY <1>2, <1>9
  <2>4. /\ Grain * closed \in Nat /\ Grain * (shares - closed) \in Nat /\ Grain * shares \in Nat
    BY <1>2, <1>9, <2>1, <2>3
  <2>5. income \in Nat /\ over \in Nat /\ paid \in Nat
    BY <1>2, <2>1, <2>4
  <2>6. paid = income + over
    BY <1>2, <1>9, <2>2
  <2>7. closed = 0 => income = 0
    BY <1>2
  <2>. QED
    BY <2>5, <2>6, <2>7
<1>. HIDE DEF income, over, paid
<1>11. /\ positions \in [Slots -> Position]
       /\ AllCost \in Nat /\ AllRealized \in Int
       /\ cash \in Int /\ realized_pnl \in Int /\ unrealized_pnl \in Int /\ total_exposure \in Nat
       /\ trades_count \in Nat /\ oversold \in Nat /\ fills \in Nat
       /\ cash + AllCost - realized_pnl - oversold \in 0 .. Truncation
       /\ AllCost - total_exposure \in -Truncation .. Truncation
       /\ realized_pnl = AllRealized
  BY Valued DEF LedgerInv, PoolInv
<1>12. CASE ~(p.shares > 0)
  <2>1. closed = 0
    BY <1>8, <1>9, <1>12
  <2>2. /\ AllCost' = AllCost + Basis(p) - Basis(positions[i])
        /\ AllRealized' = AllRealized + p.realized - positions[i].realized
    BY <1>6, <1>8, <1>11, <1>12, OneReplaced
  <2>3. Basis(p) = Basis(positions[i]) /\ Basis(p) \in Nat
    <3>1. \A a, b \in Nat : a * b \in Nat
      OBVIOUS
    <3>. QED
      BY <1>2, <1>5, <1>8, <3>1 DEF Basis
  <2>4. AllCost' = AllCost /\ AllRealized' = AllRealized
    BY <1>5, <1>8, <1>11, <2>2, <2>3
  <2>5. paid = over
    BY <1>10, <2>1
  <2>6. Truncation' = Truncation
    BY <1>6, <1>12 DEF Truncation
  <2>7. cash' + AllCost' - realized_pnl' - oversold' = cash + AllCost - realized_pnl - oversold
    BY <1>6, <1>7, <1>10, <1>11, <1>12, <2>4, <2>5
  <2>8. /\ cash' \in Int /\ realized_pnl' \in Int /\ unrealized_pnl' \in Int /\ total_exposure' \in Nat
        /\ trades_count' \in Nat /\ oversold' \in Nat /\ fills' \in Nat
    BY <1>6, <1>7, <1>10, <1>11, <1>12
  <2>. QED
    BY <1>1, <1>5, <1>6, <1>11, <1>12, <2>4, <2>6, <2>7, <2>8 DEF LedgerInv
<1>13. CASE p.shares > 0
  <2>. DEFINE q    == Closed(p, closed, income - cost)
              gone == Grain * ((p.cost_basis * closed) \div p.shares)
  <2>1. /\ cost \in Nat /\ gone \in Nat /\ cost - gone \in 0 .. Grain
        /\ (p.cost_basis * closed) \div p.shares \in Nat
    <3>1. p.shares \in Nat \ {0} /\ Grain \in Nat \ {0}
      BY <1>2, <1>8, <1>13
    <3>2. /\ (Grain * p.cost_basis * closed) \div p.shares \in Nat
          /\ (p.cost_basis * closed) \div p.shares \in Nat
          /\ (Grain * p.cost_basis * closed) \div p.shares
               - Grain * ((p.cost_basis * closed) \div p.shares) \in 0 .. Grain
      BY <1>8, <1>9, <3>1, TruncatedCost
    <3>3. \A a, b \in Nat : a * b \in Nat
      OBVIOUS
    <3>. QED
      BY <1>2, <3>2, <3>3 DEF AverageCost
  <2>. HIDE DEF cost
  <2>2. income - cost \in Int
    BY <1>10, <2>1
  <2>3. q \in Position
    BY <1>4, <1>9, <1>13, <2>2, ClosedSane DEF Sane
  <2>4. /\ q.cost_basis = BasisAfterClosing(p, closed)
        /\ q.realized = p.realized + (income - cost)
    BY <1>8 DEF Closed, Position
  <2>5. positions' = [positions EXCEPT ![i] = q]
    BY <1>6, <1>13
  <2>. HIDE DEF q
  <2>6. /\ AllCost' = AllCost + Basis(q) - Basis(positions[i])
        /\ AllRealized' = AllRealized + q.realized - positions[i].realized
    BY <1>11, <2>3, <2>5, OneReplaced
  <2>7. Basis(q) = Basis(positions[i]) - gone /\ Basis(positions[i]) \in Nat
    <3>1. \A a, b \in Nat : a * b \in Nat
      OBVIOUS
    <3>2. \A g, a, b \in Nat : g * (a - b) = g * a - g * b
      BY SMT
    <3>3. Basis(q) = Grain * (p.cost_basis - (p.cost_basis * closed) \div p.shares)
      BY <2>4 DEF Basis, BasisAfterClosing
    <3>4. Basis(q) = Grain * p.cost_basis - gone
      BY <1>2, <1>8, <2>1, <3>2, <3>3
    <3>. QED
      BY <1>2, <1>5, <1>8, <3>1, <3>4 DEF Basis
  <2>. HIDE DEF gone
  <2>8. AllCost' = AllCost - gone /\ AllRealized' = AllRealized + (income - cost)
    BY <1>5, <1>8, <1>11, <2>1, <2>2, <2>4, <2>6, <2>7
  <2>9. AllCost' \in Nat
    <3>1. positions' \in [Slots -> Position]
      BY <1>1 DEF PoolInv
    <3>2. (positions \in [Slots -> Position] => AllCost \in Nat)'
      BY Valued, PTL
    <3>. QED
      BY <3>1, <3>2
  <2>10. /\ oversold' = oversold + over
         /\ realized_pnl' = realized_pnl + (income - cost)
         /\ total_exposure' = Greater(0, total_exposure - cost)
         /\ trades_count' = trades_count + 1
    BY <1>6, <1>13
  <2>11. Truncation' = Truncation + Grain /\ Truncation \in Nat
    <3>1. \A g, a \in Nat : g * (a + 1) = g * a + g /\ g * a \in Nat
      BY SMT
    <3>. QED
      BY <1>2, <1>11, <2>10, <3>1 DEF Truncation
  <2>. HIDE DEF Truncation
  <2>12. cash' + AllCost' - realized_pnl' - oversold' \in 0 .. Truncation'
    BY <1>2, <1>7, <1>10, <1>11, <2>1, <2>8, <2>10, <2>11
  <2>13. AllCost' - total_exposure' \in -Truncation' .. Truncation' /\ total_exposure' \in Nat
    <3>1. CASE total_exposure - cost >= 0
      <4>1. total_exposure' = total_exposure - cost
        BY <1>11, <2>1, <2>10, <3>1 DEF Greater
      <4>. QED
        BY <1>2, <1>11, <2>1, <2>8, <2>11, <3>1, <4>1
    <3>2. CASE ~(total_exposure - cost >= 0)
      <4>1. total_exposure' = 0
        BY <1>11, <2>1, <2>10, <3>2 DEF Greater
      <4>. QED
        BY <1>2, <1>11, <2>1, <2>8, <2>9, <2>11, <3>2, <4>1
    <3>. QED
      BY <3>1, <3>2
  <2>14. /\ cash' \in Int /\ realized_pnl' \in Int /\ unrealized_pnl' \in Int
         /\ trades_count' \in Nat /\ oversold' \in Nat /\ fills' \in Nat
         /\ realized_pnl' = AllRealized'
    BY <1>7, <1>10, <1>11, <2>2, <2>8, <2>10
  <2>. QED
    BY <1>1, <1>5, <2>12, <2>13, <2>14 DEF LedgerInv
<1>. QED
  BY <1>12, <1>13

\* Position by position nothing of the cost or the profit changes.
LEMMA SumsKept ==
  ASSUME positions \in [Slots -> Position], positions' \in [Slots -> Position],
         \A i \in Slots : /\ positions'[i].cost_basis = positions[i].cost_basis
                          /\ positions'[i].realized = positions[i].realized
  PROVE  AllCost' = AllCost /\ AllRealized' = AllRealized
<1>1. CostOf' = CostOf
  BY DEF CostOf, Basis
<1>2. RealizedOf' = RealizedOf
  BY DEF RealizedOf
<1>. QED
  BY <1>1, <1>2 DEF AllCost, AllRealized

\* The step of a mark.
LEMMA MarkLedger ==
  ASSUME LedgerInv, NEW market \in Markets, NEW is_yes \in BOOLEAN, NEW bid \in Bids,
         Mark(market, is_yes, bid)
  PROVE  LedgerInv'
<1>1. PoolInv /\ UnusedBlank /\ PoolInv' /\ bid \in Nat
  BY MarkPoolInv, PortfolioAssumption DEF LedgerInv
<1>2. /\ positions \in [Slots -> Position] /\ positions' \in [Slots -> Position]
      /\ \A i \in Slots : Sane(positions[i])
  BY <1>1 DEF PoolInv
<1>. DEFINE marked(i) == Marked(positions[i], market, is_yes, bid)
<1>3. ASSUME NEW i \in Slots
      PROVE  /\ marked(i).cost_basis = positions[i].cost_basis
             /\ marked(i).realized = positions[i].realized
             /\ marked(i).unrealized \in Int
  <2>1. marked(i) \in Position
    BY <1>1, <1>2, MarkedSane DEF Sane
  <2>2. marked(i).unrealized \in Int
    BY <2>1 DEF Position
  <2>3. positions[i] \in Position
    BY <1>2
  <2>. QED
    BY <2>2, <2>3 DEF Marked, Position
<1>4. /\ positions' = [i \in Slots |-> IF i \in InUse THEN marked(i) ELSE positions[i]]
      /\ unrealized_pnl' = SumFunctionOnSet([i \in Slots |-> marked(i).unrealized], InUse)
      /\ position_count' = position_count
      /\ UNCHANGED <<cash, realized_pnl, total_exposure, trades_count, oversold, fills>>
  BY DEF Mark
<1>. HIDE DEF marked
<1>5. \A i \in Slots : /\ positions'[i].cost_basis = positions[i].cost_basis
                       /\ positions'[i].realized = positions[i].realized
  BY <1>3, <1>4
<1>6. AllCost' = AllCost /\ AllRealized' = AllRealized
  BY <1>2, <1>5, SumsKept
<1>7. InUse' = InUse /\ InUse \in SUBSET Slots
  BY <1>1, <1>4, PortfolioAssumption DEF InUse, Slots, PoolInv
<1>8. UnusedBlank'
  BY <1>1, <1>5, <1>7 DEF UnusedBlank
<1>9. unrealized_pnl' \in Int
  <2>. DEFINE f == [i \in Slots |-> marked(i).unrealized]
  <2>1. \A i \in InUse : f[i] \in Int
    BY <1>3, <1>7
  <2>. HIDE DEF f
  <2>2. IsFiniteSet(InUse)
    BY <1>2, <1>7, Valued, FS_Subset
  <2>3. SumFunctionOnSet(f, InUse) \in Int
    BY <2>1, <2>2, SumType
  <2>. QED
    BY <1>4, <2>3 DEF f
<1>10. fills' \in Nat
  BY <1>4 DEF LedgerInv
<1>. QED
  BY <1>1, <1>4, <1>6, <1>8, <1>9, <1>10, LedgerKept

\* The step of a settlement: payoffs are cash and profit, costs go out of the positions, the
\* exposure and the profit.
LEMMA SettleLedger ==
  ASSUME LedgerInv, NEW market \in Markets, NEW winner \in BOOLEAN, SettleMarket(market, winner)
  PROVE  LedgerInv'
<1>. DEFINE due      == Unsettled(market)
            PayoffOf == [i \in Slots |-> Payoff(positions[i], winner)]
            payoff   == SumFunctionOnSet(PayoffOf, due)
            cost     == SumFunctionOnSet(CostOf, due)
<1>1. PoolInv /\ UnusedBlank /\ PoolInv'
  BY SettlePoolInv DEF LedgerInv
<1>2. /\ positions \in [Slots -> Position] /\ positions' \in [Slots -> Position]
      /\ \A i \in Slots : positions[i] \in Position
      /\ position_count \in 0 .. MaxPositions
  BY <1>1 DEF PoolInv
<1>3. /\ Total(LAMBDA p : Payoff(p, winner), due) = payoff
      /\ Total(Basis, due) = cost
  BY DEF Total, CostOf
<1>4. /\ positions' = [i \in Slots |-> IF i \in due THEN Settled(positions[i], winner) ELSE positions[i]]
      /\ cash' = cash + payoff
      /\ total_exposure' = Greater(0, total_exposure - cost)
      /\ realized_pnl' = realized_pnl + payoff - cost
      /\ trades_count' = trades_count + Cardinality(due)
      /\ UNCHANGED <<unrealized_pnl, position_count, oversold, fills>>
  BY <1>3, Zenon DEF SettleMarket
<1>5. due \in SUBSET Slots /\ IsFiniteSet(Slots) /\ IsFiniteSet(due) /\ Cardinality(due) \in Nat
  <2>1. due \in SUBSET Slots
    BY <1>2, PortfolioAssumption DEF Unsettled, InUse, Slots
  <2>. QED
    BY <1>2, <2>1, Valued, FS_Subset, FS_CardinalityType
<1>6. \A i \in Slots : PayoffOf[i] \in Int /\ PayoffOf[i] = Payoff(positions[i], winner)
  <2>1. \A a, b, c \in Nat : a * b * c \in Int
    BY SMT
  <2>2. \A i \in Slots : positions[i].shares \in Nat
    BY <1>2 DEF Position
  <2>. QED
    BY <2>1, <2>2, PortfolioAssumption DEF Payoff
<1>7. \A i \in Slots : /\ CostOf[i] \in Nat /\ CostOf[i] = Basis(positions[i])
                       /\ RealizedOf[i] \in Int /\ RealizedOf[i] = positions[i].realized
  BY <1>2, Valued DEF Basis
<1>8. /\ \A i \in due : CostOf'[i] = 0
      /\ \A i \in Slots \ due : CostOf'[i] = CostOf[i]
      /\ \A i \in due : RealizedOf'[i] = RealizedOf[i] + PayoffOf[i] - CostOf[i]
      /\ \A i \in Slots \ due : RealizedOf'[i] = RealizedOf[i]
  <2>1. ASSUME NEW i \in due
        PROVE  CostOf'[i] = 0 /\ RealizedOf'[i] = RealizedOf[i] + PayoffOf[i] - CostOf[i]
    <3>1. i \in Slots /\ positions'[i] = Settled(positions[i], winner)
      BY <1>4, <1>5, <2>1
    <3>2. positions[i] \in Position
      BY <1>2, <3>1
    <3>3. /\ positions'[i].cost_basis = 0
          /\ positions'[i].realized = positions[i].realized + Payoff(positions[i], winner)
                                        - Basis(positions[i])
      BY <3>1, <3>2 DEF Settled, Position
    <3>4. CostOf'[i] = Grain * positions'[i].cost_basis /\ RealizedOf'[i] = positions'[i].realized
      BY <3>1 DEF CostOf, RealizedOf, Basis
    <3>. QED
      BY <1>6, <1>7, <3>1, <3>3, <3>4, PortfolioAssumption
  <2>2. ASSUME NEW i \in Slots \ due
        PROVE  CostOf'[i] = CostOf[i] /\ RealizedOf'[i] = RealizedOf[i]
    <3>1. positions'[i] = positions[i]
      BY <1>4, <2>2
    <3>. QED
      BY <3>1 DEF CostOf, RealizedOf
  <2>. QED
    BY <2>1, <2>2
<1>. HIDE DEF due, PayoffOf
<1>9. cost \in Nat /\ payoff \in Int
  BY <1>5, <1>6, <1>7, SumType
<1>. DEFINE before == CostOf
            after  == CostOf'
<1>10. AllCost' = AllCost - cost /\ AllCost \in Nat
  <2>1. /\ \A i \in Slots : before[i] \in Int /\ after[i] \in Int
        /\ \A i \in due : after[i] = 0
        /\ \A i \in Slots \ due : before[i] \in Int /\ after[i] = before[i]
    BY <1>5, <1>7, <1>8
  <2>. HIDE DEF before, after
  <2>2. IsFiniteSet(Slots \ due)
    BY <1>5, FS_Subset
  <2>3. /\ SumFunctionOnSet(before, Slots) =
             SumFunctionOnSet(before, due) + SumFunctionOnSet(before, Slots \ due)
        /\ SumFunctionOnSet(after, Slots) =
             SumFunctionOnSet(after, due) + SumFunctionOnSet(after, Slots \ due)
    BY <1>5, <2>1, SumSplit
  <2>4. SumFunctionOnSet(after, due) = 0
    BY <1>5, <2>1, SumType
  <2>5. SumFunctionOnSet(after, Slots \ due) = SumFunctionOnSet(before, Slots \ due)
    BY <2>1, <2>2, SumCongruent
  <2>6. /\ SumFunctionOnSet(before, due) \in Int
        /\ SumFunctionOnSet(before, Slots \ due) \in Int
    BY <1>5, <2>1, <2>2, SumType
  <2>7. SumFunctionOnSet(after, Slots) = SumFunctionOnSet(before, Slots) - SumFunctionOnSet(before, due)
    BY <2>3, <2>4, <2>5, <2>6
  <2>. QED
    BY <1>2, <2>7, Valued DEF before, after, AllCost
<1>11. AllRealized' = AllRealized + payoff - cost /\ AllRealized \in Int
  <2>. DEFINE f == RealizedOf
              k == RealizedOf'
              g == Within(due, PayoffOf, Slots)
              h == Within(due, CostOf, Slots)
  <2>1. /\ \A i \in Slots : g[i] = (IF i \in due THEN PayoffOf[i] ELSE 0) /\ g[i] \in Int
        /\ SumFunctionOnSet(g, Slots) = payoff
    BY <1>5, <1>6, SumWithin
  <2>2. /\ \A i \in Slots : h[i] = (IF i \in due THEN CostOf[i] ELSE 0) /\ h[i] \in Int
        /\ SumFunctionOnSet(h, Slots) = cost
    <3>1. \A i \in due : CostOf[i] \in Int
      BY <1>5, <1>7
    <3>. QED
      BY <1>5, <3>1, SumWithin
  <2>. HIDE DEF g, h
  <2>3. \A i \in Slots : f[i] \in Int /\ g[i] \in Int /\ h[i] \in Int /\ k[i] = f[i] + g[i] - h[i]
    BY <1>5, <1>7, <1>8, <2>1, <2>2
  <2>. HIDE DEF f, k
  <2>4. SumFunctionOnSet(k, Slots) =
          SumFunctionOnSet(f, Slots) + SumFunctionOnSet(g, Slots) - SumFunctionOnSet(h, Slots)
    BY <1>5, <2>3, SumLinear
  <2>. QED
    BY <1>2, <2>1, <2>2, <2>4, Valued DEF f, k, AllRealized
<1>12. AllCost' \in Nat
  <2>1. (positions \in [Slots -> Position] => AllCost \in Nat)'
    BY Valued, PTL
  <2>. QED
    BY <1>2, <2>1
<1>. HIDE DEF payoff, cost
<1>13. Truncation \in Nat /\ Truncation' \in Nat /\ Truncation <= Truncation'
  <2>1. \A g, a, c \in Nat : g * (a + c) = g * a + g * c /\ g * a \in Nat /\ g * c \in Nat
    BY SMT
  <2>2. trades_count \in Nat /\ Grain \in Nat
    BY PortfolioAssumption DEF LedgerInv
  <2>. QED
    BY <1>4, <1>5, <2>1, <2>2 DEF Truncation
<1>14. /\ cash \in Int /\ realized_pnl \in Int /\ unrealized_pnl \in Int /\ total_exposure \in Nat
       /\ trades_count \in Nat /\ oversold \in Nat /\ fills \in Nat
       /\ cash + AllCost - realized_pnl - oversold \in 0 .. Truncation
       /\ AllCost - total_exposure \in -Truncation .. Truncation
       /\ realized_pnl = AllRealized
  BY DEF LedgerInv
<1>. HIDE DEF Truncation
<1>15. cash' + AllCost' - realized_pnl' - oversold' \in 0 .. Truncation'
  BY <1>4, <1>9, <1>10, <1>13, <1>14
<1>16. AllCost' - total_exposure' \in -Truncation' .. Truncation' /\ total_exposure' \in Nat
  <2>1. CASE total_exposure - cost >= 0
    <3>1. total_exposure' = total_exposure - cost
      BY <1>4, <1>9, <1>14, <2>1 DEF Greater
    <3>2. AllCost' - total_exposure' = AllCost - total_exposure /\ total_exposure' \in Nat
      BY <1>9, <1>10, <1>14, <2>1, <3>1
    <3>3. AllCost - total_exposure \in -Truncation .. Truncation
      BY <1>14
    <3>. QED
      BY <1>13, <3>2, <3>3
  <2>2. CASE ~(total_exposure - cost >= 0)
    <3>1. total_exposure' = 0
      BY <1>4, <1>9, <1>14, <2>2 DEF Greater
    <3>2. AllCost' - total_exposure' \in Nat /\ AllCost' - total_exposure' <= AllCost - total_exposure
      BY <1>9, <1>10, <1>12, <1>14, <2>2, <3>1
    <3>3. AllCost - total_exposure \in -Truncation .. Truncation
      BY <1>14
    <3>. QED
      BY <1>13, <3>1, <3>2, <3>3
  <2>. QED
    BY <2>1, <2>2
<1>17. UnusedBlank'
  <2>1. InUse' = InUse
    BY <1>4 DEF InUse
  <2>2. \A i \in Slots \ InUse : i \notin due
    BY DEF due, Unsettled
  <2>. QED
    BY <1>1, <1>4, <2>1, <2>2 DEF UnusedBlank
<1>18. /\ cash' \in Int /\ realized_pnl' \in Int /\ unrealized_pnl' \in Int
       /\ trades_count' \in Nat /\ oversold' \in Nat /\ fills' \in Nat
       /\ realized_pnl' = AllRealized'
  BY <1>4, <1>5, <1>9, <1>11, <1>14
<1>. QED
  BY <1>1, <1>15, <1>16, <1>17, <1>18 DEF LedgerInv

\* The accounts are in order at the start.
LEMMA InitLedger == Init => LedgerInv
<1>. SUFFICES ASSUME Init PROVE LedgerInv
  OBVIOUS
<1>1. PoolInv
  BY InitPoolInv
<1>2. positions \in [Slots -> Position]
  BY <1>1 DEF PoolInv
<1>3. \A i \in Slots : positions[i].cost_basis = 0 /\ positions[i].realized = 0
  BY DEF Init, NewPosition
<1>4. AllCost = 0 /\ AllRealized = 0
  <2>1. \A i \in Slots : CostOf[i] = 0 /\ RealizedOf[i] = 0
    BY <1>2, <1>3, Valued, PortfolioAssumption
  <2>. QED
    BY <1>2, <2>1, Valued, SumType DEF AllCost, AllRealized
<1>5. Truncation = 0
  BY PortfolioAssumption DEF Truncation, Init
<1>6. /\ cash = 0 /\ realized_pnl = 0 /\ unrealized_pnl = 0 /\ total_exposure = 0
      /\ trades_count = 0 /\ oversold = 0 /\ fills = 0
  BY DEF Init
<1>. HIDE DEF Truncation
<1>7. cash + AllCost - realized_pnl - oversold \in 0 .. Truncation
  BY <1>4, <1>5, <1>6
<1>8. AllCost - total_exposure \in -Truncation .. Truncation
  BY <1>4, <1>5, <1>6
<1>. QED
  BY <1>1, <1>3, <1>4, <1>6, <1>7, <1>8 DEF LedgerInv, UnusedBlank

\* Every step keeps the accounts in order.
LEMMA NextLedger == LedgerInv /\ [Next]_vars => LedgerInv'
<1>. SUFFICES ASSUME LedgerInv, [Next]_vars PROVE LedgerInv'
  OBVIOUS
<1>1. ASSUME NEW market \in Markets, NEW is_yes \in BOOLEAN, NEW strategy \in Strategies,
             NEW signal \in Signals, NEW shares \in Sizes, NEW price \in Prices,
             Buy(market, is_yes, strategy, signal, shares, price)
      PROVE  LedgerInv'
  BY <1>1, BuyLedger
<1>2. ASSUME NEW market \in Markets, NEW is_yes \in BOOLEAN, NEW strategy \in Strategies,
             NEW signal \in Signals, NEW shares \in Sizes, NEW price \in Prices,
             Sell(market, is_yes, strategy, signal, shares, price)
      PROVE  LedgerInv'
  BY <1>2, SellLedger
<1>3. ASSUME UNCHANGED <<cash, realized_pnl, unrealized_pnl, total_exposure, trades_count,
                         position_count, positions, oversold>>,
             fills' \in Nat
      PROVE  LedgerInv'
  <2>1. PoolInv' /\ UnusedBlank'
    BY <1>3 DEF LedgerInv, PoolInv, UnusedBlank, InUse
  <2>2. AllCost' = AllCost /\ AllRealized' = AllRealized
    BY <1>3 DEF AllCost, AllRealized, CostOf, RealizedOf
  <2>3. unrealized_pnl' \in Int
    BY <1>3 DEF LedgerInv
  <2>. QED
    BY <1>3, <2>1, <2>2, <2>3, LedgerKept
<1>4. ASSUME NEW market \in Markets, NEW is_yes \in BOOLEAN, NEW strategy \in Strategies,
             NEW signal \in Signals, DropFill(market, is_yes, strategy, signal)
      PROVE  LedgerInv'
  BY <1>3, <1>4 DEF DropFill, LedgerInv
<1>5. ASSUME NEW market \in Markets, NEW is_yes \in BOOLEAN, NEW bid \in Bids,
             Mark(market, is_yes, bid)
      PROVE  LedgerInv'
  BY <1>5, MarkLedger
<1>6. ASSUME NEW market \in Markets, NEW winner \in BOOLEAN, SettleMarket(market, winner)
      PROVE  LedgerInv'
  BY <1>6, SettleLedger
<1>7. CASE UNCHANGED vars
  BY <1>3, <1>7 DEF vars, LedgerInv
<1>. QED
  BY <1>1, <1>2, <1>4, <1>5, <1>6, <1>7, Zenon DEF Next

\* LedgerInv is inductive.
THEOREM LedgerInvariant == Spec => []LedgerInv
BY InitLedger, NextLedger, PTL DEF Spec

\* The pool holds well-formed positions and the totals are numbers, whatever is traded.
THEOREM TypeCorrect == Spec => []TypeOK
<1>1. LedgerInv => TypeOK
  BY DEF LedgerInv, PoolInv, TypeOK
<1>. QED
  BY <1>1, LedgerInvariant, PTL

\* No money is made or lost by the accounts: cash, what the positions cost, the realized
\* profit and what was sold without being held balance, up to a scaled dollar a trade.
THEOREM LedgerAlwaysBalances == Spec => []LedgerBalances
<1>1. LedgerInv => LedgerBalances
  <2>. SUFFICES ASSUME LedgerInv PROVE LedgerBalances
    OBVIOUS
  <2>1. Total(Basis, InUse) = AllCost
    BY InUseIsAll DEF LedgerInv, PoolInv
  <2>2. cash + AllCost - realized_pnl - oversold \in 0 .. Truncation
    BY DEF LedgerInv
  <2>. QED
    BY <2>1, <2>2, Zenon DEF LedgerBalances
<1>. QED
  BY <1>1, LedgerInvariant, PTL

\* The running exposure total never drifts from the cost the positions record by more than
\* a scaled dollar a trade.
THEOREM ExposureAlwaysFollows == Spec => []ExposureFollowsPositions
<1>1. LedgerInv => ExposureFollowsPositions
  <2>. SUFFICES ASSUME LedgerInv PROVE ExposureFollowsPositions
    OBVIOUS
  <2>1. Total(Basis, InUse) = AllCost
    BY InUseIsAll DEF LedgerInv, PoolInv
  <2>2. AllCost - total_exposure \in -Truncation .. Truncation
    BY DEF LedgerInv
  <2>. QED
    BY <2>1, <2>2, Zenon DEF ExposureFollowsPositions
<1>. QED
  BY <1>1, LedgerInvariant, PTL

\* The realized total is what the positions realized, whatever closes, reopens and settles them.
THEOREM RealizedAlwaysAttributed == Spec => []RealizedIsAttributed
<1>1. LedgerInv => RealizedIsAttributed
  <2>. SUFFICES ASSUME LedgerInv PROVE RealizedIsAttributed
    OBVIOUS
  <2>1. Total(LAMBDA p : p.realized, InUse) = AllRealized
    BY InUseIsAll DEF LedgerInv, PoolInv
  <2>. QED
    BY <2>1 DEF LedgerInv, RealizedIsAttributed
<1>. QED
  BY <1>1, LedgerInvariant, PTL

=============================================================================
