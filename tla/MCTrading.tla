----------------------------- MODULE MCTrading -----------------------------
EXTENDS Trading

\* Room for three shares in a market, orders of at most two, one signal approved a second; one
\* loss would trip the breaker.  A limit of zero turns a staleness check off.
MCRiskCfg ==
  [max_position_per_market |-> 3, max_total_exposure |-> 5, max_order_size |-> 2,
   max_daily_loss |-> 1, max_drawdown |-> 1, poly_stale |-> 0, binance_stale |-> 0,
   max_spread |-> 1, max_consecutive_losses |-> 1, min_confidence |-> 0,
   max_orders_per_sec |-> 1]

=============================================================================
