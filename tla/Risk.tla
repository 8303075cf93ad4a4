-------------------------------- MODULE Risk --------------------------------
(***************************************************************************)
(* The pre-trade risk engine, risk/pt_risk.c, as operators on its record.  *)
(* Amounts are whole units of money; a price is in ticks, PriceScale of    *)
(* which pay one unit.  The counters of evaluated and rejected signals are *)
(* left out.                                                               *)
(***************************************************************************)
EXTENDS Integers, FiniteSets

CONSTANTS
  RiskCfg,    \* pt_risk_cfg_t
  PriceScale, \* PT_PRICE_SCALE
  OneSecond   \* the rate window, in units of the clock

RiskLimits ==
  [max_position_per_market : Nat, max_total_exposure : Nat, max_order_size : Nat,
   max_daily_loss : Nat, max_drawdown : Nat, poly_stale : Nat, binance_stale : Nat,
   max_spread : Nat, max_consecutive_losses : Nat, min_confidence : Nat,
   max_orders_per_sec : Nat]

ASSUME RiskAssumption ==
  /\ RiskCfg \in RiskLimits
  /\ RiskCfg.max_orders_per_sec > 0   \* pt_risk_init replaces a zero by 50
  /\ RiskCfg.max_order_size > 0       \* and this one by 1000
  /\ PriceScale \in Nat \ {0} /\ OneSecond \in Nat \ {0}

RiskEngine ==
  [tripped : BOOLEAN, total_exposure : Nat, daily_pnl : Int, peak_pnl : Nat,
   consecutive_losses : Nat, poly_t : Nat, binance_t : Nat,
   window_start : Nat, orders_in_sec : Nat]

Signal == [price : Nat, max_size : Nat, spread : Nat, confidence : Nat]

pt_risk_init ==
  [tripped |-> FALSE, total_exposure |-> 0, daily_pnl |-> 0, peak_pnl |-> 0,
   consecutive_losses |-> 0, poly_t |-> 0, binance_t |-> 0,
   window_start |-> 0, orders_in_sec |-> 0]

feed_touch_poly(r, now) == [r EXCEPT !.poly_t = now]

feed_touch_binance(r, now) == [r EXCEPT !.binance_t = now]

trip_kill(r) == [r EXCEPT !.tripped = TRUE]

reset_kill(r) == [r EXCEPT !.tripped = FALSE]

\* Seeded fault: a new second clears the count but not the start of the window.
WindowNeverMoves(r, now) ==
  IF r.window_start = 0 THEN [r EXCEPT !.window_start = now]
  ELSE IF now >= r.window_start + OneSecond THEN [r EXCEPT !.orders_in_sec = 0]
  ELSE r

\* The rate window: a second that starts at the first signal after the last one ended.
\* A tripped engine does not get as far.
RateWindow(r, now) ==
  IF ~r.tripped /\ (r.window_start = 0 \/ now >= r.window_start + OneSecond)
  THEN [r EXCEPT !.window_start = now, !.orders_in_sec = 0]
  ELSE r

Stale(last, limit, now) == limit > 0 /\ last > 0 /\ now > last + limit

Floor(a, b) == IF a <= b THEN a ELSE b

Room(r, exposure) ==
  Floor(RiskCfg.max_position_per_market - exposure,
        RiskCfg.max_total_exposure - r.total_exposure)

\* Seeded fault: the room left is rounded up to whole shares.
RoundedUp(r, sig, exposure) ==
  Floor((Room(r, exposure) * PriceScale + sig.price - 1) \div sig.price, RiskCfg.max_order_size)

\* The shares that fit into the room left; they are cut to the largest order.
AllowedShares(r, sig, exposure) ==
  Floor((Room(r, exposure) * PriceScale) \div sig.price, RiskCfg.max_order_size)

\* The checks that trip the kill switch as well as reject.
Breakers(r) ==
  (IF r.daily_pnl <= -RiskCfg.max_daily_loss THEN {"daily_loss_exceeded"} ELSE {})
  \cup (IF r.peak_pnl - r.daily_pnl >= RiskCfg.max_drawdown THEN {"drawdown_exceeded"} ELSE {})
  \cup (IF /\ RiskCfg.max_consecutive_losses > 0
           /\ r.consecutive_losses >= RiskCfg.max_consecutive_losses
        THEN {"consecutive_losses_exceeded"} ELSE {})

RateExceeded(r) == r.orders_in_sec >= RiskCfg.max_orders_per_sec

FeedStale(r, now) ==
  \/ Stale(r.poly_t, RiskCfg.poly_stale, now)
  \/ Stale(r.binance_t, RiskCfg.binance_stale, now)

PoorSignal(sig) ==
  \/ sig.spread > RiskCfg.max_spread
  \/ sig.confidence < RiskCfg.min_confidence
  \/ sig.price * 1000 <= PriceScale

NoRoom(r, sig, exposure) ==
  \/ Room(r, exposure) <= 0
  \/ AllowedShares(r, sig, exposure) = 0

\* Seeded fault: the kill switch is not looked at.
KillIgnored(r, sig, exposure, now) ==
  IF RateExceeded(RateWindow(r, now)) THEN "rate_limit"
  ELSE IF NoRoom(r, sig, exposure) THEN "rejected" ELSE "approved"

\* pt_risk_evaluate_signal: what a signal leads to, checks in the code's order.
Verdict(r, sig, exposure, now) ==
  LET w == RateWindow(r, now)
  IN  CASE r.tripped                                    -> "kill_switch_active"
        [] ~r.tripped /\ RateExceeded(w)                -> "rate_limit"
        [] ~r.tripped /\ ~RateExceeded(w) /\ Breakers(r) # {} -> "breaker"
        [] OTHER -> IF FeedStale(r, now) \/ PoorSignal(sig) \/ NoRoom(r, sig, exposure)
                    THEN "rejected" ELSE "approved"

SizeApproved(r, sig, exposure) == Floor(sig.max_size, AllowedShares(r, sig, exposure))

\* The engine after pt_risk_evaluate_signal.
Evaluated(r, sig, exposure, now) ==
  LET w       == RateWindow(r, now)
      verdict == Verdict(r, sig, exposure, now)
  IN  [w EXCEPT !.tripped = @ \/ verdict = "breaker",
                !.orders_in_sec = IF verdict = "approved" THEN @ + 1 ELSE @]

pt_risk_on_fill(r, notional) == [r EXCEPT !.total_exposure = @ + notional]

pt_risk_on_trade_pnl(r, pnl) ==
  [r EXCEPT !.daily_pnl = @ + pnl,
            !.peak_pnl = IF r.daily_pnl + pnl > @ THEN r.daily_pnl + pnl ELSE @,
            !.consecutive_losses = IF pnl < 0 THEN @ + 1 ELSE IF pnl > 0 THEN 0 ELSE @]

=============================================================================
