------------------------------ MODULE Trading -------------------------------
(***************************************************************************)
(* One engine: main() with the components its loop drives.  An iteration   *)
(* polls the reactor, lets strategy A and then strategy B look for a       *)
(* signal, and ticks the broker and the two-leg manager.                   *)
(*                                                                         *)
(* What SimQueue and Portfolio check is abstracted here: an order fills in *)
(* any steps at any time, and its position is what of it has filled.  A    *)
(* handler that fills several orders is one step for each.  Strategy A     *)
(* trades market "A" and strategy B market "B", each settled once in the   *)
(* life of a process.  The adverse selection tracker, which nothing here   *)
(* reads, and the feeds' times in the risk engine are checked by           *)
(* themselves.                                                             *)
(***************************************************************************)
EXTENDS Risk, ArbMgr, Lifecycle, StratStats, Functions

CONSTANTS
  Sizes,       \* what an opportunity may offer, in shares
  MaxTicks,    \* bound: iterations of the first process, one less for each later one
  MaxTime,     \* bound: last value of the clock
  MaxRestarts  \* bound: ends of a process

ASSUME TradingAssumption ==
  /\ Sizes \subseteq Nat \ {0}
  /\ MaxTicks \in Nat /\ MaxTime \in Nat /\ MaxRestarts \in Nat

VARIABLES
  pc,         \* where the loop is
  t0,         \* the time the iteration started at
  tick_count,
  risk,       \* risk_engine
  arb_mgr,
  orders,     \* the broker's orders
  next_oid,
  lc_tracker,
  strat_stats,
  file,       \* data/strategy_stats.json
  settled,    \* the markets resolved
  settling,   \* the resolution in progress: positions left, the winner
  results,    \* history: settlements recorded, by all processes
  losing_run, \* history: settlements at a loss since the last at a win, in this process
  cut,        \* history: a process ended while it wrote the file
  restarts    \* how many processes ended

market_vars == <<settled, settling, results, losing_run>>
process_vars == <<file, cut, restarts>>
trading_vars == <<pc, t0, tick_count, risk, arb_mgr, orders, next_oid, lc_tracker,
                  strat_stats, market_vars, process_vars>>

\* What the model keeps of an order: filled of size, and how much of it was paid at settlement.
DeskOrder ==
  [oid : Nat, signal : Nat, strategy : Strategies, is_yes : BOOLEAN,
   size : Nat, filled : Nat, paid : Nat]

\* The variables keep their types, and the tracker its limit.
TradingTypeOK ==
  /\ pc \in {"poll", "settle", "a", "b", "tick"}
  /\ t0 \in Nat \ {0} /\ tick_count \in Nat
  /\ risk \in RiskEngine
  /\ arb_mgr \in [ops : [OpSlots -> ArbOp], next_arb_id : Nat \ {0}]
  /\ orders \subseteq DeskOrder /\ next_oid \in Nat \ {0}
  /\ lc_tracker.records \in Seq(LcRecord) /\ lc_tracker.completed_count \in Nat
  /\ Len(lc_tracker.records) <= MaxRecords
  /\ strat_stats \in [Strategies -> StratCounters]
  /\ file \in [whole : BOOLEAN, stats : [Strategies -> StratCounters]]
  /\ settled \subseteq Strategies
  /\ settling.left \subseteq orders /\ settling.winner \in BOOLEAN
  /\ results \in Nat /\ losing_run \in Nat
  /\ cut \in BOOLEAN /\ restarts \in Nat

NoFile == [whole |-> FALSE, stats |-> ZeroStats]

NotSettling == [left |-> {}, winner |-> TRUE]

TradingInit ==
  /\ pc = "poll"
  /\ t0 = 1 /\ tick_count = 0
  /\ risk = pt_risk_init
  /\ arb_mgr = pt_arb_mgr_init
  /\ orders = {} /\ next_oid = 1
  /\ lc_tracker = pt_lifecycle_tracker_init
  /\ strat_stats = ZeroStats
  /\ file = NoFile
  /\ settled = {} /\ settling = NotSettling
  /\ results = 0 /\ losing_run = 0
  /\ cut = FALSE /\ restarts = 0

-----------------------------------------------------------------------------
(* The broker and its callback                                             *)

\* pt_portfolio_market_exposure: what the open positions of the market cost.
Exposure(m) ==
  SumFunctionOnSet([o \in orders |-> o.filled - o.paid], {o \in orders : o.strategy = m})

\* pt_broker_submit_ex for a leg of a signal.
Submitted(oid, signal, strategy, is_yes, size) ==
  [oid |-> oid, signal |-> signal, strategy |-> strategy, is_yes |-> is_yes,
   size |-> size, filled |-> 0, paid |-> 0]

\* on_sim_fill_ and on_engine_fill_, called while the reactor is polled (a trade) or on the tick.
Fill(o, n) ==
  /\ n <= o.size - o.filled
  /\ orders' = (orders \ {o}) \cup {[o EXCEPT !.filled = @ + n]}
  /\ strat_stats' = record_fill(strat_stats, o.strategy, o.filled + n < o.size)
  /\ lc_tracker' = lc_on_fill_ex(lc_tracker, o.signal, o.oid, o.is_yes, n)
  /\ UNCHANGED <<pc, t0, tick_count, risk, arb_mgr, next_oid, market_vars, process_vars>>

-----------------------------------------------------------------------------
(* Polling the reactor: feed messages and HTTP requests                    *)

\* A trade fills orders of any market, a resolved one too.
TradeFill(o, n) == pc = "poll" /\ Fill(o, n)

RiskCall(r) ==
  /\ pc = "poll"
  /\ risk' = r
  /\ UNCHANGED <<pc, t0, tick_count, arb_mgr, orders, next_oid, lc_tracker, strat_stats,
                 market_vars, process_vars>>

PostKill == RiskCall(trip_kill(risk))

PostResume == RiskCall(reset_kill(risk))

\* A resolution: pt_portfolio_settle_market goes over the open positions of the market.
Resolution(m, winner) ==
  /\ pc = "poll"
  /\ m \notin settled
  /\ settled' = settled \cup {m}
  /\ settling' = [left |-> {o \in orders : o.strategy = m /\ o.filled > 0}, winner |-> winner]
  /\ pc' = IF settling'.left = {} THEN "poll" ELSE "settle"
  /\ UNCHANGED <<t0, tick_count, risk, arb_mgr, orders, next_oid, lc_tracker, strat_stats,
                 results, losing_run, process_vars>>

\* One position; its result is saved before the next one is settled.
SettlePosition(o) ==
  LET is_win == o.is_yes = settling.winner
  IN  /\ pc = "settle"
      /\ o \in settling.left
      /\ orders' = (orders \ {o}) \cup {[o EXCEPT !.paid = o.filled]}
      /\ strat_stats' = record_settlement(strat_stats, o.strategy, is_win)
      /\ file' = [whole |-> TRUE, stats |-> strat_stats_save(strat_stats')]
      /\ lc_tracker' = lc_on_complete(lc_tracker, o.signal)
      /\ results' = results + 1
      /\ losing_run' = IF is_win THEN 0 ELSE losing_run + 1
      /\ settling' = [settling EXCEPT !.left = @ \ {o}]
      /\ pc' = IF settling.left = {o} THEN "poll" ELSE "settle"
      /\ UNCHANGED <<t0, tick_count, risk, arb_mgr, next_oid, settled, cut, restarts>>

PollDone ==
  /\ pc = "poll"
  /\ tick_count + restarts < MaxTicks
  /\ tick_count' = tick_count + 1
  /\ pc' = "a"
  /\ UNCHANGED <<t0, risk, arb_mgr, orders, next_oid, lc_tracker, strat_stats,
                 market_vars, process_vars>>

-----------------------------------------------------------------------------
(* The strategies                                                          *)

SignalId(s) == tick_count * 10 + (IF s = "A" THEN 1 ELSE 2)

Offer(size) == [price |-> PriceScale, max_size |-> size, spread |-> 0, confidence |-> 0]

Approved(s, size) == Verdict(risk, Offer(size), Exposure(s), t0) = "approved"

ApprovedSize(s, size) == SizeApproved(risk, Offer(size), Exposure(s))

NextPhase(s) == IF s = "A" THEN "b" ELSE "tick"

\* What both strategies do with a signal before they order.
Signalled(s, size) ==
  /\ s \notin settled
  /\ risk' = Evaluated(risk, Offer(size), Exposure(s), t0)
  /\ pc' = NextPhase(s)
  /\ UNCHANGED <<t0, tick_count, market_vars, process_vars>>

\* The market does not trade, or the strategy sees nothing in the books.
NoSignal(s) ==
  /\ pc' = NextPhase(s)
  /\ UNCHANGED <<t0, tick_count, risk, arb_mgr, orders, next_oid, lc_tracker, strat_stats,
                 market_vars, process_vars>>

\* A signal that leads to no order: rejected, or with no operation free for a pair.
SignalOnly(s, size) ==
  /\ Signalled(s, size)
  /\ Approved(s, size) => s = "A" /\ ~\E i \in OpSlots : FreeOp(arb_mgr, i)
  /\ strat_stats' = record_signal(strat_stats, s, Approved(s, size))
  /\ lc_tracker' = lc_on_signal(lc_tracker, SignalId(s), s, size)
  /\ UNCHANGED <<arb_mgr, orders, next_oid>>

\* Strategy A: an operation of the two-leg manager and an order for each leg.
OrderPair(size) ==
  LET n == ApprovedSize("A", size)
      signal == SignalId("A")
  IN  /\ Signalled("A", size)
      /\ Approved("A", size)
      /\ \E i \in OpSlots : FreeOp(arb_mgr, i) /\ arb_mgr' = Opened(arb_mgr, i, size)
      /\ orders' = orders \cup {Submitted(next_oid, signal, "A", TRUE, n),
                                Submitted(next_oid + 1, signal, "A", FALSE, n)}
      /\ next_oid' = next_oid + 2
      /\ lc_tracker' = lc_on_orders(lc_on_signal(lc_tracker, signal, "A", size), signal,
                         [leg \in BOOLEAN |-> IF leg THEN next_oid ELSE next_oid + 1])
      /\ strat_stats' = record_order(record_order(record_signal(strat_stats, "A", TRUE), "A"), "A")

\* Strategy B: one order, of the token the flow favours.
OrderToken(size, is_yes) ==
  LET signal == SignalId("B")
  IN  /\ Signalled("B", size)
      /\ Approved("B", size)
      /\ orders' = orders \cup
           {Submitted(next_oid, signal, "B", is_yes, ApprovedSize("B", size))}
      /\ next_oid' = next_oid + 1
      /\ lc_tracker' = lc_on_orders(lc_on_signal(lc_tracker, signal, "B", size), signal,
                                    [leg \in BOOLEAN |-> next_oid])
      /\ strat_stats' = record_order(record_signal(strat_stats, "B", TRUE), "B")
      /\ UNCHANGED arb_mgr

StrategyA ==
  /\ pc = "a"
  /\ \/ NoSignal("A")
     \/ \E size \in Sizes : SignalOnly("A", size) \/ OrderPair(size)

StrategyB ==
  /\ pc = "b"
  /\ \/ NoSignal("B")
     \/ \E size \in Sizes : SignalOnly("B", size) \/ \E is_yes \in BOOLEAN : OrderToken(size, is_yes)

-----------------------------------------------------------------------------
(* The broker's and the two-leg manager's tick                             *)

\* pt_broker_tick of one market, market A's whenever there is one.
TickFill(o, n) == pc = "tick" /\ Fill(o, n)

\* The manager asks for a hedge of what its tick sweeps; here that is never anything (see
\* ArbMgrUninformed), and the orders for it are left out.  Then the next iteration starts.
TickDone ==
  /\ pc = "tick"
  /\ arb_mgr' = Swept(arb_mgr, t0)
  /\ t0' \in {t0, t0 + 1} \cap 1 .. MaxTime
  /\ pc' = "poll"
  /\ UNCHANGED <<tick_count, risk, orders, next_oid, lc_tracker, strat_stats,
                 market_vars, process_vars>>

-----------------------------------------------------------------------------
(* The end of a process and the start of the next                          *)

\* Everything but the file is lost; main() loads the counters from it.
Started ==
  /\ restarts < MaxRestarts
  /\ restarts' = restarts + 1
  /\ pc' = "poll" /\ t0' = t0 /\ tick_count' = 0
  /\ risk' = pt_risk_init
  /\ arb_mgr' = pt_arb_mgr_init
  /\ orders' = {} /\ next_oid' = 1
  /\ lc_tracker' = pt_lifecycle_tracker_init
  /\ strat_stats' = strat_stats_load(file')
  /\ settled' = {} /\ settling' = NotSettling /\ losing_run' = 0

Crash ==
  /\ UNCHANGED <<file, cut, results>>
  /\ Started

\* SIGINT or SIGTERM: the loop ends and the counters are saved.
Shutdown ==
  /\ pc = "poll"
  /\ file' = [whole |-> TRUE, stats |-> strat_stats_save(strat_stats)]
  /\ UNCHANGED <<cut, results>>
  /\ Started

\* A crash after fopen emptied the file and before it was written.
CrashInSave ==
  /\ \/ pc = "poll" /\ results' = results
     \/ pc = "settle" /\ results' = results + 1
  /\ file' = NoFile
  /\ cut' = TRUE
  /\ Started

TradingNext ==
  \/ \E o \in orders :
       \/ \E n \in 1 .. o.size : TradeFill(o, n) \/ TickFill(o, n)
       \/ SettlePosition(o)
  \/ PostKill \/ PostResume
  \/ \E m \in Strategies, winner \in BOOLEAN : Resolution(m, winner)
  \/ PollDone \/ StrategyA \/ StrategyB \/ TickDone
  \/ Crash \/ Shutdown \/ CrashInSave

TradingSpec == TradingInit /\ [][TradingNext]_trading_vars

-----------------------------------------------------------------------------
(***************************************************************************)
(* Properties                                                              *)
(***************************************************************************)

\* The fills a signal's record shows are those of its orders, leg by leg, in whatever order
\* the two legs and several signals fill, and however the tracker looks the record up.
FillsTraced ==
  \A i \in DOMAIN lc_tracker.records : \A leg \in BOOLEAN :
    LET r == lc_tracker.records[i]
    IN  r.leg[leg].filled =
          SumFunctionOnSet([o \in orders |-> o.filled],
            {o \in orders : o.signal = r.signal_id /\ (r.strategy = "A" => o.is_yes = leg)
                            /\ (r.strategy = "B" => leg)})

\* A record is completed exactly when one of its signal's positions was settled, and counts
\* once: also when both legs settle, when fills arrive after the settlement and when there
\* are signals with no record.
CompletedOnSettlement ==
  LET done == {i \in DOMAIN lc_tracker.records : lc_tracker.records[i].completed}
  IN  /\ \A i \in DOMAIN lc_tracker.records :
           i \in done <=> \E o \in orders : o.signal = lc_tracker.records[i].signal_id /\ o.paid > 0
      /\ lc_tracker.completed_count = Cardinality(done)

\* No settlement is forgotten by a crash or a restart, unless the process ended between the
\* opening of the file, which empties it, and the end of its writing.
SettlementsKept ==
  /\ ~cut => Settlements(strat_stats) = results
  /\ ~cut /\ results > 0 => file.whole /\ Settlements(file.stats) = results

\* The counters nest, in memory and in the file, across every restart: an order belongs to an
\* approved signal, and is filled, and settled, at most once.
CountersNest ==
  \A s \in Strategies : \A c \in {strat_stats[s], file.stats[s]} :
    /\ c.fills <= c.orders_submitted
    /\ c.wins + c.losses <= c.orders_submitted
    /\ c.orders_submitted <= (IF s = "A" THEN 2 ELSE 1) * c.risk_approved
    /\ c.risk_approved <= c.signals

\* While the kill switch is tripped no strategy sends an order, and only a resume or a restart
\* clears it.
KillStopsStrategies ==
  [][risk.tripped /\ restarts' = restarts =>
       /\ next_oid' = next_oid
       /\ ~risk'.tripped => PostResume]_trading_vars

\* Nobody reports fills to the two-leg manager.  So its operations never finish, no hedge is
\* ever asked for, and strategy A sends at most MaxOps pairs in the life of a process.
ArbMgrUninformed ==
  /\ Cardinality({o \in orders : o.strategy = "A"}) <= 2 * MaxOps
  /\ TickActs(arb_mgr, t0) = {}

\* After max_consecutive_losses settlements at a loss in a row no strategy sends an order.
LossBreaker ==
  [][losing_run >= RiskCfg.max_consecutive_losses /\ restarts' = restarts
       => next_oid' = next_oid]_trading_vars

=============================================================================
