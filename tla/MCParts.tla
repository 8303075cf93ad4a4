------------------------------ MODULE MCParts -------------------------------
(***************************************************************************)
(* Components that share no state, checked side by side: a behaviour is    *)
(* one of a single part, and the others stay in their initial states.      *)
(***************************************************************************)
EXTENDS Ring, ArbDesk, RiskDesk, Adverse, Recording, FeedLink

VARIABLE part

parts_vars == <<part, ring_vars, arb_vars, risk_vars, adv_vars, rec_vars, feed_vars>>

PartsInit ==
  /\ part \in {"ring", "arb", "risk", "adverse", "recording", "feed"}
  /\ RingInit /\ ArbInit /\ RiskInit /\ AdvInit /\ RecInit /\ FeedInit

\* The components of p change, and of no other part.
Only(p) ==
  /\ part = p
  /\ UNCHANGED part
  /\ p # "ring" => UNCHANGED ring_vars
  /\ p # "arb" => UNCHANGED arb_vars
  /\ p # "risk" => UNCHANGED risk_vars
  /\ p # "adverse" => UNCHANGED adv_vars
  /\ p # "recording" => UNCHANGED rec_vars
  /\ p # "feed" => UNCHANGED feed_vars

PartsNext ==
  \/ part = "ring" /\ RingNext /\ Only("ring")
  \/ part = "arb" /\ ArbNext /\ Only("arb")
  \/ part = "risk" /\ RiskNext /\ Only("risk")
  \/ part = "adverse" /\ AdvNext /\ Only("adverse")
  \/ part = "recording" /\ RecNext /\ Only("recording")
  \/ part = "feed" /\ FeedNext /\ Only("feed")

PartsFairness ==
  /\ WF_parts_vars(part = "feed" /\ ConnectToEngine /\ Only("feed"))
  /\ WF_parts_vars(part = "feed" /\ Forward("tick") /\ Only("feed"))
  /\ WF_parts_vars(part = "feed" /\ OnAccept /\ Only("feed"))
  /\ WF_parts_vars(part = "feed" /\ (\E n \in 1 .. ReadMax : OnClientData(n)) /\ Only("feed"))
  /\ WF_parts_vars(part = "feed" /\ EngineStart /\ Only("feed"))

PartsSpec == PartsInit /\ [][PartsNext]_parts_vars /\ PartsFairness

\* Every part keeps its types, and the limits that are part of them: the levels of a book, the
\* pieces in the engine's buffer, the records of the ring, a writer or a connect task.
PartsTypeOK ==
  /\ RingTypeOK /\ ArbTypeOK /\ RiskTypeOK /\ AdvTypeOK /\ RecTypeOK /\ FeedTypeOK

\* Room for two shares at half price in a market; one order a window of two; the collector's
\* feed is stale after one unit of time, the other after two.
MCRiskCfg ==
  [max_position_per_market |-> 2, max_total_exposure |-> 3, max_order_size |-> 3,
   max_daily_loss |-> 2, max_drawdown |-> 2, poly_stale |-> 1, binance_stale |-> 2,
   max_spread |-> 1, max_consecutive_losses |-> 2, min_confidence |-> 1,
   max_orders_per_sec |-> 1]

\* The second is rejected: its spread is too wide.
MCOffers ==
  {[price |-> 3, max_size |-> 3, spread |-> 0, confidence |-> 1],
   [price |-> 2, max_size |-> 2, spread |-> 2, confidence |-> 1]}

MCResults == {-1, 1}

MCSnapshots ==
  {{}, {[price |-> 2, size |-> 1], [price |-> 1, size |-> 0]},
   {[price |-> 3, size |-> 2], [price |-> 1, size |-> 1]}}

=============================================================================
