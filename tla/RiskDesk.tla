------------------------------ MODULE RiskDesk ------------------------------
(***************************************************************************)
(* The risk engine driven as its header says, with fills and results       *)
(* reported to it.  main() asks it for approval, touches its feeds and     *)
(* sets its kill switch, but reports neither (see Trading).                *)
(***************************************************************************)
EXTENDS Risk, Sequences

CONSTANTS
  Offers,      \* the signals that arrive
  Exposures,   \* what the portfolio says the market's positions cost
  Results,     \* profits and losses reported
  Notionals,   \* fills reported
  RiskEnd,     \* bound: last value of the clock
  MaxReports,  \* bound: fills and results reported
  MaxApproved  \* bound: signals approved

ASSUME RiskDeskAssumption ==
  /\ Offers \subseteq Signal /\ \A s \in Offers : s.price > 0
  /\ Exposures \subseteq Nat /\ Results \subseteq Int /\ Notionals \subseteq Nat
  /\ RiskEnd \in Nat /\ MaxReports \in Nat /\ MaxApproved \in Nat

VARIABLES
  risk_engine,
  risk_now,     \* the clock
  approvals,    \* history: the times of the approvals
  approved,     \* history: the last approval, its size, price and the exposure it was judged by
  reports       \* how many fills and results were reported

risk_vars == <<risk_engine, risk_now, approvals, approved, reports>>

Nothing == [size |-> 0, price |-> 0, exposure |-> 0]

RiskTypeOK ==
  /\ risk_engine \in RiskEngine
  /\ risk_now \in Nat \ {0}
  /\ approvals \in Seq(Nat \ {0})
  /\ approved \in [size : Nat, price : Nat, exposure : Nat]
  /\ reports \in Nat

RiskInit ==
  /\ risk_engine = pt_risk_init
  /\ risk_now = 1
  /\ approvals = <<>> /\ approved = Nothing
  /\ reports = 0

SignalArrives(sig, exposure) ==
  /\ Len(approvals) < MaxApproved
  /\ risk_engine' = Evaluated(risk_engine, sig, exposure, risk_now)
  /\ IF Verdict(risk_engine, sig, exposure, risk_now) = "approved"
     THEN /\ approvals' = Append(approvals, risk_now)
          /\ approved' = [size |-> SizeApproved(risk_engine, sig, exposure),
                          price |-> sig.price, exposure |-> exposure]
     ELSE UNCHANGED <<approvals, approved>>
  /\ UNCHANGED <<risk_now, reports>>

Called(r) ==
  /\ risk_engine' = r
  /\ UNCHANGED <<risk_now, approvals, approved>>

PolyTouched == Called(feed_touch_poly(risk_engine, risk_now)) /\ UNCHANGED reports

BinanceTouched == Called(feed_touch_binance(risk_engine, risk_now)) /\ UNCHANGED reports

Killed == Called(trip_kill(risk_engine)) /\ UNCHANGED reports

Resumed == Called(reset_kill(risk_engine)) /\ UNCHANGED reports

Reported(r) ==
  /\ reports < MaxReports
  /\ Called(r)
  /\ reports' = reports + 1

FillReported(notional) == Reported(pt_risk_on_fill(risk_engine, notional))

ResultReported(pnl) == Reported(pt_risk_on_trade_pnl(risk_engine, pnl))

RiskAdvance ==
  /\ risk_now < RiskEnd
  /\ risk_now' = risk_now + 1
  /\ UNCHANGED <<risk_engine, approvals, approved, reports>>

RiskNext ==
  \/ \E sig \in Offers, exposure \in Exposures : SignalArrives(sig, exposure)
  \/ PolyTouched \/ BinanceTouched
  \/ Killed \/ Resumed
  \/ \E n \in Notionals : FillReported(n)
  \/ \E p \in Results : ResultReported(p)
  \/ RiskAdvance

RiskSpec == RiskInit /\ [][RiskNext]_risk_vars

-----------------------------------------------------------------------------

\* The window starts anew, it does not slide: at most twice max_orders_per_sec approvals fall
\* into any one second, whatever the times of the signals.
SlidingRate ==
  \A t \in 1 .. RiskEnd :
    Cardinality({i \in DOMAIN approvals : approvals[i] \in t .. t + OneSecond - 1})
      <= 2 * RiskCfg.max_orders_per_sec

\* While a breaker's condition stands (losses, drawdown, a run of losses) no signal is
\* approved, also after the operator resumes, and no approval is given while a feed that was
\* heard from is silent for longer than its limit.
BreakersHold ==
  [][approvals' # approvals =>
       /\ Breakers(risk_engine) = {}
       /\ ~FeedStale(risk_engine, risk_now)]_risk_vars

\* An approved order, if it fills at its price, keeps the market and the total within their
\* limits, as far as the fills and exposures reported go.
ApprovedFits ==
  [][approvals' # approvals =>
       /\ approved'.size <= RiskCfg.max_order_size
       /\ approved'.size * approved'.price
            <= PriceScale * (RiskCfg.max_position_per_market - approved'.exposure)
       /\ approved'.size * approved'.price
            <= PriceScale * (RiskCfg.max_total_exposure - risk_engine.total_exposure)]_risk_vars

=============================================================================
