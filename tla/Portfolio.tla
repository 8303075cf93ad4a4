----------------------------- MODULE Portfolio -----------------------------
(***************************************************************************)
(* The ledger of the paper broker: portfolio/pt_portfolio.c.  Fills move   *)
(* cash into and out of a pool of positions that never gives a slot back;  *)
(* a resolved market pays its positions off.                               *)
(*                                                                         *)
(* A position counts its cost in whole scaled dollars and truncates; the   *)
(* totals are doubles.  Here an amount of money is a whole number of       *)
(* grains, 1/Grain of a scaled dollar, and Grain is divisible by every     *)
(* number of shares a position reaches, so the doubles are exact.          *)
(***************************************************************************)
EXTENDS Integers, FiniteSets, Functions

CONSTANTS
  Markets,       \* market ids
  Strategies,    \* PT_STRAT_PARITY5M, PT_STRAT_FLOW15M
  Signals,       \* signal ids; 0 is "no signal"
  Prices,        \* fill prices, scaled
  Dollar,        \* PT_PRICE_SCALE: what a share of the winning outcome pays
  Sizes,         \* shares of a fill
  Bids,          \* bids that positions are marked at
  MaxPositions,  \* PT_PORTFOLIO_MAX_POSITIONS (128 in the code)
  Grain,         \* grains in a scaled dollar
  MaxShares,     \* bound: shares of a position
  MaxFills,      \* bound: fills of a behaviour
  NoMarket, NoStrategy

Sides == {"BID", "ASK"}

ASSUME PortfolioAssumption ==
  /\ 0 \in Signals /\ Signals \subseteq Nat
  /\ Prices \subseteq Nat \ {0}
  /\ Dollar \in Nat \ {0}
  /\ Sizes \subseteq Nat \ {0}
  /\ Bids \subseteq Nat
  /\ MaxPositions \in Nat
  /\ Grain \in Nat \ {0}
  /\ MaxShares \in Nat
  /\ MaxFills \in Nat

\* The doubles are exact: Grain has no remainder for any number of shares.
ASSUME GrainAssumption == \A n \in 1 .. MaxShares : Grain % n = 0

VARIABLES
  cash,            \* p->cash less p->initial_cash, in grains
  realized_pnl,    \* p->realized_pnl, in grains
  unrealized_pnl,  \* p->unrealized_pnl, in grains
  total_exposure,  \* p->total_exposure, in grains
  trades_count,    \* p->trades_count
  position_count,  \* p->position_count
  positions,       \* p->positions
  oversold,        \* history: grains brought in by selling shares not held
  fills            \* history: fills so far

vars == <<cash, realized_pnl, unrealized_pnl, total_exposure, trades_count,
          position_count, positions, oversold, fills>>

Slots == 1 .. MaxPositions

Position ==
  [market : Markets \cup {NoMarket}, is_yes : BOOLEAN, strategy : Strategies \cup {NoStrategy},
   signal : Signals, shares : Nat, cost_basis : Nat, bid : Nat, unrealized : Int,
   realized : Int, is_settled : BOOLEAN]

NewPosition(market, is_yes, strategy, signal) ==
  [market |-> market, is_yes |-> is_yes, strategy |-> strategy, signal |-> signal,
   shares |-> 0, cost_basis |-> 0, bid |-> 0, unrealized |-> 0, realized |-> 0,
   is_settled |-> FALSE]

InUse == 1 .. position_count

Lesser(a, b)  == IF a <= b THEN a ELSE b
Greater(a, b) == IF a >= b THEN a ELSE b

-----------------------------------------------------------------------------
\* Seeded fault: the scan does not skip settled positions.
FitsSettledToo(p, market, is_yes, strategy, signal) ==
  /\ p.market = market /\ p.is_yes = is_yes /\ p.strategy = strategy
  /\ signal = 0 \/ p.signal = 0 \/ p.signal = signal

\* The position a fill belongs to; a position without a signal fits any signal.
Fits(p, market, is_yes, strategy, signal) ==
  /\ p.market = market /\ p.is_yes = is_yes /\ p.strategy = strategy
  /\ ~p.is_settled
  /\ signal = 0 \/ p.signal = 0 \/ p.signal = signal

Fitting(market, is_yes, strategy, signal) ==
  {i \in InUse : Fits(positions[i], market, is_yes, strategy, signal)}

\* Seeded fault: only a position of exactly that signal is reused.
FindPosExactSignal(i, market, is_yes, strategy, signal) ==
  LET fitting == {j \in Fitting(market, is_yes, strategy, signal) : positions[j].signal = signal}
  IN  IF fitting # {} THEN i \in fitting /\ \A j \in fitting : i <= j
      ELSE i = position_count + 1 /\ i <= MaxPositions

\* find_pos_: the first fitting position, or a new one; none when the pool is full.
FindPos(i, market, is_yes, strategy, signal) ==
  LET fitting == Fitting(market, is_yes, strategy, signal)
  IN  IF fitting # {} THEN i \in fitting /\ \A j \in fitting : i <= j
      ELSE i = position_count + 1 /\ i <= MaxPositions

\* The position a fill finds there, its signal attributed.
Found(i, market, is_yes, strategy, signal) ==
  LET p == IF i \in InUse THEN positions[i] ELSE NewPosition(market, is_yes, strategy, signal)
  IN  [p EXCEPT !.signal = IF @ = 0 THEN signal ELSE @]

\* Seeded fault: a sale may close more shares than the position holds.
AllShares(p, shares) == shares

\* How many of a position's shares a sale closes.
SharesClosed(p, shares) == Lesser(shares, p.shares)

\* Seeded fault: a partial sale takes the whole cost.
WholeCost(p, n) == Grain * p.cost_basis

\* What n of a position's shares cost on average, in grains.
AverageCost(p, n) == (Grain * p.cost_basis * n) \div p.shares

\* Seeded fault: the cost that stays is truncated, not the part that goes.
BasisTruncatedDown(p, n) == (p.cost_basis * (p.shares - n)) \div p.shares

\* Seeded fault: the average cost of a share is truncated before it is multiplied.
BasisLessWholeAverages(p, n) == p.cost_basis - (p.cost_basis \div p.shares) * n

\* cost_basis_scaled less the part that goes with n shares, truncated.
BasisAfterClosing(p, n) == p.cost_basis - (p.cost_basis * n) \div p.shares

Bought(p, shares, price) ==
  [p EXCEPT !.shares = @ + shares, !.cost_basis = @ + shares * price]

Closed(p, n, pnl) ==
  [p EXCEPT !.shares = @ - n, !.cost_basis = BasisAfterClosing(p, n), !.realized = @ + pnl]

\* The sum of f over the positions in s.
Total(f(_), s) == SumFunctionOnSet([i \in Slots |-> f(positions[i])], s)

Basis(p) == Grain * p.cost_basis

Payoff(p, winner) == IF p.is_yes = winner THEN Grain * Dollar * p.shares ELSE 0

-----------------------------------------------------------------------------
Init ==
  /\ cash = 0 /\ realized_pnl = 0 /\ unrealized_pnl = 0 /\ total_exposure = 0
  /\ trades_count = 0 /\ position_count = 0 /\ oversold = 0 /\ fills = 0
  /\ positions = [i \in Slots |-> NewPosition(NoMarket, FALSE, NoStrategy, 0)]

\* pt_portfolio_on_fill_ex of a buy.
Buy(market, is_yes, strategy, signal, shares, price) ==
  /\ fills < MaxFills
  /\ \E i \in Slots :
       /\ FindPos(i, market, is_yes, strategy, signal)
       /\ LET p == Found(i, market, is_yes, strategy, signal)
          IN  /\ p.shares + shares <= MaxShares
              /\ positions' = [positions EXCEPT ![i] = Bought(p, shares, price)]
       /\ position_count' = Greater(position_count, i)
  /\ cash' = cash - Grain * shares * price
  /\ total_exposure' = total_exposure + Grain * shares * price
  /\ fills' = fills + 1
  /\ UNCHANGED <<realized_pnl, unrealized_pnl, trades_count, oversold>>

\* pt_portfolio_on_fill_ex of a sale: all of it brings cash in, but it closes no more
\* shares than the position holds.
Sell(market, is_yes, strategy, signal, shares, price) ==
  /\ fills < MaxFills
  /\ \E i \in Slots :
       /\ FindPos(i, market, is_yes, strategy, signal)
       /\ position_count' = Greater(position_count, i)
       /\ LET p      == Found(i, market, is_yes, strategy, signal)
              closed == SharesClosed(p, shares)
              cost   == AverageCost(p, closed)
              pnl    == Grain * closed * price - cost
          IN  /\ oversold' = oversold + Grain * (shares - closed) * price
              /\ IF p.shares > 0
                 THEN /\ positions' = [positions EXCEPT ![i] = Closed(p, closed, pnl)]
                      /\ realized_pnl' = realized_pnl + pnl
                      /\ total_exposure' = Greater(0, total_exposure - cost)
                      /\ trades_count' = trades_count + 1
                 ELSE /\ positions' = [positions EXCEPT ![i] = p]
                      /\ UNCHANGED <<realized_pnl, total_exposure, trades_count>>
  /\ cash' = cash + Grain * shares * price
  /\ fills' = fills + 1
  /\ UNCHANGED unrealized_pnl

\* With the pool full a fill that fits no position is dropped.
DropFill(market, is_yes, strategy, signal) ==
  /\ fills < MaxFills
  /\ Fitting(market, is_yes, strategy, signal) = {} /\ position_count = MaxPositions
  /\ fills' = fills + 1
  /\ UNCHANGED <<cash, realized_pnl, unrealized_pnl, total_exposure, trades_count,
                 position_count, positions, oversold>>

Marked(p, market, is_yes, bid) ==
  LET b == IF p.market = market /\ p.is_yes = is_yes THEN bid ELSE p.bid
  IN  [p EXCEPT !.bid = b,
                !.unrealized = IF p.shares > 0 THEN Grain * b * p.shares - Grain * p.cost_basis ELSE 0]

\* pt_portfolio_mark: one outcome's bid, every position's unrealized profit.
Mark(market, is_yes, bid) ==
  /\ positions' = [i \in Slots |->
       IF i \in InUse THEN Marked(positions[i], market, is_yes, bid) ELSE positions[i]]
  /\ unrealized_pnl' =
       SumFunctionOnSet([i \in Slots |-> Marked(positions[i], market, is_yes, bid).unrealized], InUse)
  /\ UNCHANGED <<cash, realized_pnl, total_exposure, trades_count, position_count, oversold, fills>>

Unsettled(market) ==
  {i \in InUse :
     positions[i].market = market /\ positions[i].shares > 0 /\ ~positions[i].is_settled}

\* Seeded fault: the position books its payoff without its cost.
SettledWithoutCost(p, winner) ==
  [p EXCEPT !.shares = 0, !.cost_basis = 0, !.unrealized = 0,
            !.realized = @ + Payoff(p, winner), !.is_settled = TRUE]

\* What settling makes of a position; the total unrealized profit is left as it was.
Settled(p, winner) ==
  [p EXCEPT !.shares = 0, !.cost_basis = 0, !.unrealized = 0,
            !.realized = @ + Payoff(p, winner) - Basis(p), !.is_settled = TRUE]

\* pt_portfolio_settle_market.  Exposure is clamped at 0 after each position; costs are
\* not negative, so clamping the total once gives the same.
SettleMarket(market, winner) ==
  LET due    == Unsettled(market)
      payoff == Total(LAMBDA p : Payoff(p, winner), due)
      cost   == Total(Basis, due)
  IN  /\ due # {}
      /\ positions' = [i \in Slots |-> IF i \in due THEN Settled(positions[i], winner) ELSE positions[i]]
      /\ cash' = cash + payoff
      /\ total_exposure' = Greater(0, total_exposure - cost)
      /\ realized_pnl' = realized_pnl + payoff - cost
      /\ trades_count' = trades_count + Cardinality(due)
      /\ UNCHANGED <<unrealized_pnl, position_count, oversold, fills>>

Next ==
  \/ \E market \in Markets, is_yes \in BOOLEAN, strategy \in Strategies, signal \in Signals :
       \/ \E shares \in Sizes, price \in Prices :
            \/ Buy(market, is_yes, strategy, signal, shares, price)
            \/ Sell(market, is_yes, strategy, signal, shares, price)
       \/ DropFill(market, is_yes, strategy, signal)
  \/ \E market \in Markets, is_yes \in BOOLEAN, bid \in Bids : Mark(market, is_yes, bid)
  \/ \E market \in Markets, winner \in BOOLEAN : SettleMarket(market, winner)

Spec == Init /\ [][Next]_vars

-----------------------------------------------------------------------------
(***************************************************************************)
(* Properties.                                                             *)
(***************************************************************************)

\* Type invariant: the pool holds well-formed positions.
TypeOK ==
  /\ cash \in Int /\ realized_pnl \in Int /\ unrealized_pnl \in Int /\ total_exposure \in Nat
  /\ trades_count \in Nat /\ position_count \in 0 .. MaxPositions
  /\ positions \in [Slots -> Position]
  /\ oversold \in Nat /\ fills \in Nat

\* Truncated costs may leave up to one scaled dollar behind at each sale or settlement.
Truncation == Grain * trades_count

\* Money is conserved over any mix of buys, partial sales, marks and settlements: what
\* was spent is in the positions' cost, what came in beyond cost is realized profit, up
\* to the truncation, and oversold shares are the only money out of nothing.
LedgerBalances ==
  cash + Total(Basis, InUse) - realized_pnl - oversold \in 0 .. Truncation

\* The running exposure total, which is updated with exact average costs and clamped,
\* stays within the truncation of the cost the positions record.
ExposureFollowsPositions ==
  LET gap == Total(Basis, InUse) - total_exposure
  IN  gap \in -Truncation .. Truncation

\* The realized total is the sum of what the positions realized: none is booked twice or
\* lost when positions are closed, reopened and settled.
RealizedIsAttributed ==
  realized_pnl = Total(LAMBDA p : p.realized, InUse)

\* However fills with and without a signal arrived, a later fill of a signal fits at
\* most one open position, so its attribution does not depend on the scan's order.
AttributionUnique ==
  \A market \in Markets, is_yes \in BOOLEAN, strategy \in Strategies, signal \in Signals \ {0} :
    \A i, j \in Fitting(market, is_yes, strategy, signal) : i = j

\* A position without shares has no cost left, however it was sold off.
NothingHeldCostsNothing ==
  \A i \in Slots : positions[i].shares = 0 => positions[i].cost_basis = 0

\* Equity is cash plus positions at their marks (pt_portfolio.h, "Total portfolio equity
\* = cash + mark-to-market positions"): with no shares held it is the cash.
EquityIsCashPlusMarked ==
  (\A i \in Slots : positions[i].shares = 0) =>
    total_exposure + unrealized_pnl \in -Truncation .. Truncation

\* A settled position is never traded, settled or attributed again.
SettledForGood ==
  [][\A i \in Slots :
       positions[i].is_settled =>
         /\ positions'[i].is_settled /\ positions'[i].shares = 0 /\ positions'[i].cost_basis = 0
         /\ positions'[i].realized = positions[i].realized
         /\ positions'[i].signal = positions[i].signal]_vars

=============================================================================
