---------------------------- MODULE TradingProofs ----------------------------
(***************************************************************************)
(* Proofs about one engine, for any limits, sizes, ticks and restarts.     *)
(***************************************************************************)
EXTENDS Trading, Sums, SequenceTheorems, TLAPS

-----------------------------------------------------------------------------
(***************************************************************************)
(* The kill switch.                                                        *)
(***************************************************************************)

RiskInv == risk \in RiskEngine /\ t0 \in Nat \ {0} /\ restarts \in Nat

\* What the steps other than a signal's do to the risk engine and the orders' numbers.
Quiet == risk' = risk /\ next_oid' = next_oid

\* A signal is judged by the engine as it is; the engine stays one.
LEMMA Judged ==
  ASSUME NEW r \in RiskEngine, NEW sig, NEW exposure, NEW now \in Nat
  PROVE  /\ Evaluated(r, sig, exposure, now) \in RiskEngine
         /\ r.tripped => Evaluated(r, sig, exposure, now).tripped
         /\ r.tripped => Verdict(r, sig, exposure, now) # "approved"
<1>. DEFINE w == RateWindow(r, now)
            verdict == Verdict(r, sig, exposure, now)
<1>1. w \in RiskEngine /\ w.tripped = r.tripped
  BY DEF RateWindow, RiskEngine
<1>2. Evaluated(r, sig, exposure, now) =
        [w EXCEPT !.tripped = w.tripped \/ verdict = "breaker",
                  !.orders_in_sec = IF verdict = "approved" THEN w.orders_in_sec + 1
                                    ELSE w.orders_in_sec]
  BY DEF Evaluated
<1>3. r.tripped => verdict = "kill_switch_active"
  BY DEF Verdict
<1>. HIDE DEF w, verdict
<1>4. (w.tripped \/ verdict = "breaker") \in BOOLEAN
  OBVIOUS
<1>5. (IF verdict = "approved" THEN w.orders_in_sec + 1 ELSE w.orders_in_sec) \in Nat
  BY <1>1 DEF RiskEngine
<1>6. Evaluated(r, sig, exposure, now) \in RiskEngine
  BY <1>1, <1>2, <1>4, <1>5 DEF RiskEngine
<1>7. r.tripped => Evaluated(r, sig, exposure, now).tripped
  BY <1>1, <1>2 DEF RiskEngine
<1>8. r.tripped => verdict # "approved"
  BY <1>3
<1>. QED
  BY <1>6, <1>7, <1>8 DEF verdict

\* What a signal's steps do: the risk engine judges it, and orders need its approval.
LEMMA SignalSteps ==
  ASSUME RiskInv, NEW s \in Strategies, NEW size,
         Signalled(s, size), next_oid' = next_oid \/ Approved(s, size)
  PROVE  /\ RiskInv'
         /\ risk.tripped => risk'.tripped /\ next_oid' = next_oid
<1>1. /\ risk' = Evaluated(risk, Offer(size), Exposure(s), t0) /\ t0' = t0
      /\ Approved(s, size) <=> Verdict(risk, Offer(size), Exposure(s), t0) = "approved"
  BY DEF Signalled, Approved
<1>2. risk \in RiskEngine /\ t0 \in Nat
  BY DEF RiskInv
<1>3. /\ risk' \in RiskEngine
      /\ risk.tripped => risk'.tripped
      /\ risk.tripped => ~Approved(s, size)
  BY <1>1, <1>2, Judged
<1>. QED
  BY <1>1, <1>3 DEF RiskInv, Signalled, process_vars

\* Every step of the loop falls into one of these.
LEMMA Steps ==
  ASSUME TradingNext
  PROVE  \/ Quiet /\ t0' \in {t0, t0 + 1} /\ restarts' = restarts
         \/ PostKill \/ PostResume
         \/ \E s \in Strategies, size \in Sizes :
              Signalled(s, size) /\ (next_oid' = next_oid \/ Approved(s, size))
         \/ Started
<1>1. ASSUME NEW o \in orders, NEW n \in 1 .. o.size, TradeFill(o, n) \/ TickFill(o, n)
      PROVE  Quiet /\ t0' = t0 /\ restarts' = restarts
  BY <1>1 DEF TradeFill, TickFill, Fill, Quiet, process_vars
<1>2. ASSUME NEW o \in orders, SettlePosition(o)
      PROVE  Quiet /\ t0' = t0 /\ restarts' = restarts
  BY <1>2 DEF SettlePosition, Quiet
<1>3. ASSUME NEW m \in Strategies, NEW winner \in BOOLEAN, Resolution(m, winner)
      PROVE  Quiet /\ t0' = t0 /\ restarts' = restarts
  BY <1>3 DEF Resolution, Quiet, process_vars
<1>4. CASE PollDone
  BY <1>4 DEF PollDone, Quiet, process_vars
<1>5. CASE StrategyA
  <2>1. CASE NoSignal("A")
    BY <2>1 DEF NoSignal, Quiet, process_vars
  <2>2. ASSUME NEW size \in Sizes, SignalOnly("A", size) \/ OrderPair(size)
        PROVE  Signalled("A", size) /\ (next_oid' = next_oid \/ Approved("A", size))
    BY <2>2 DEF SignalOnly, OrderPair
  <2>. QED
    BY <1>5, <2>1, <2>2 DEF StrategyA, Strategies
<1>6. CASE StrategyB
  <2>1. CASE NoSignal("B")
    BY <2>1 DEF NoSignal, Quiet, process_vars
  <2>2. ASSUME NEW size \in Sizes, NEW is_yes \in BOOLEAN,
               SignalOnly("B", size) \/ OrderToken(size, is_yes)
        PROVE  Signalled("B", size) /\ (next_oid' = next_oid \/ Approved("B", size))
    BY <2>2 DEF SignalOnly, OrderToken
  <2>. QED
    BY <1>6, <2>1, <2>2 DEF StrategyB, Strategies
<1>7. CASE TickDone
  BY <1>7 DEF TickDone, Quiet, process_vars
<1>8. CASE Crash \/ Shutdown \/ CrashInSave
  BY <1>8 DEF Crash, Shutdown, CrashInSave
<1>. QED
  BY <1>1, <1>2, <1>3, <1>4, <1>5, <1>6, <1>7, <1>8 DEF TradingNext

\* A process starts with an engine that is not tripped.
LEMMA StartedRisk == ASSUME RiskInv, Started PROVE RiskInv' /\ restarts' = restarts + 1
BY DEF RiskInv, Started, pt_risk_init, RiskEngine

\* An operator's call leaves an engine.
LEMMA OperatorRisk ==
  ASSUME RiskInv, PostKill \/ PostResume
  PROVE  RiskInv' /\ next_oid' = next_oid /\ (PostKill => risk'.tripped)
BY DEF RiskInv, PostKill, PostResume, RiskCall, trip_kill, reset_kill, RiskEngine, process_vars

\* Every step keeps the engine and the clock.
LEMMA RiskNextInv == RiskInv /\ [TradingNext]_trading_vars => RiskInv'
<1>. SUFFICES ASSUME RiskInv, [TradingNext]_trading_vars PROVE RiskInv'
  OBVIOUS
<1>1. CASE TradingNext
  <2>1. ASSUME Quiet, t0' \in {t0, t0 + 1}, restarts' = restarts PROVE RiskInv'
    BY <2>1 DEF Quiet, RiskInv
  <2>. QED
    BY <1>1, <2>1, Steps, SignalSteps, StartedRisk, OperatorRisk
<1>2. CASE UNCHANGED trading_vars
  BY <1>2 DEF trading_vars, process_vars, RiskInv
<1>. QED
  BY <1>1, <1>2

\* The risk engine is one and the clock runs, in every state.
THEOREM RiskInvariant == TradingSpec => []RiskInv
<1>1. TradingInit => RiskInv
  BY DEF TradingInit, RiskInv, pt_risk_init, RiskEngine
<1>. QED
  BY <1>1, RiskNextInv, PTL DEF TradingSpec

\* Whatever the strategies see, a tripped switch stops their orders until someone resets it.
THEOREM KillStopsStrategiesAlways == TradingSpec => KillStopsStrategies
<1>1. ASSUME RiskInv, TradingNext, risk.tripped, restarts' = restarts
      PROVE  next_oid' = next_oid /\ (~risk'.tripped => PostResume)
  <2>1. CASE Quiet
    BY <1>1, <2>1 DEF Quiet
  <2>2. CASE PostKill \/ PostResume
    BY <1>1, <2>2, OperatorRisk
  <2>3. ASSUME NEW s \in Strategies, NEW size \in Sizes,
               Signalled(s, size), next_oid' = next_oid \/ Approved(s, size)
        PROVE  next_oid' = next_oid /\ risk'.tripped
    BY <1>1, <2>3, SignalSteps
  <2>4. ~Started
    BY <1>1, StartedRisk DEF RiskInv
  <2>. QED
    BY <1>1, <2>1, <2>2, <2>3, <2>4, Steps
<1>2. RiskInv /\ [TradingNext]_trading_vars =>
        [risk.tripped /\ restarts' = restarts =>
           /\ next_oid' = next_oid
           /\ ~risk'.tripped => PostResume]_trading_vars
  BY <1>1
<1>. QED
  BY <1>2, RiskInvariant, PTL DEF TradingSpec, KillStopsStrategies

-----------------------------------------------------------------------------
(***************************************************************************)
(* The orders.                                                             *)
(***************************************************************************)

\* A record with the fields of an order, of one of the strategies.  That its size is a number
\* takes more: PlainInv, below.
OrderShape(o) ==
  /\ o = [oid |-> o.oid, signal |-> o.signal, strategy |-> o.strategy, is_yes |-> o.is_yes,
          size |-> o.size, filled |-> o.filled, paid |-> o.paid]
  /\ o.strategy \in Strategies

OrdersInv == \A o \in orders : OrderShape(o)

\* A fill or a settlement leaves an order of the same strategy.
LEMMA SameShape ==
  ASSUME NEW o, OrderShape(o), NEW x
  PROVE  /\ OrderShape([o EXCEPT !.filled = x]) /\ [o EXCEPT !.filled = x].strategy = o.strategy
         /\ OrderShape([o EXCEPT !.paid = x]) /\ [o EXCEPT !.paid = x].strategy = o.strategy
<1>1. /\ [o EXCEPT !.filled = x] =
           [oid |-> o.oid, signal |-> o.signal, strategy |-> o.strategy, is_yes |-> o.is_yes,
            size |-> o.size, filled |-> x, paid |-> o.paid]
      /\ [o EXCEPT !.paid = x] =
           [oid |-> o.oid, signal |-> o.signal, strategy |-> o.strategy, is_yes |-> o.is_yes,
            size |-> o.size, filled |-> o.filled, paid |-> x]
  BY DEF OrderShape
<1>. QED
  BY <1>1 DEF OrderShape

\* So is an order just sent.
LEMMA NewShape ==
  ASSUME NEW oid, NEW signal, NEW s \in Strategies, NEW is_yes, NEW size
  PROVE  OrderShape(Submitted(oid, signal, s, is_yes, size))
         /\ Submitted(oid, signal, s, is_yes, size).strategy = s
BY DEF OrderShape, Submitted

\* What a step does to the orders: one is replaced, some are sent, or all are lost.
LEMMA OrderSteps ==
  ASSUME OrdersInv, TradingNext
  PROVE  \/ orders' = orders
         \/ \E o \in orders : \E r :
              /\ orders' = (orders \ {o}) \cup {r}
              /\ OrderShape(r) /\ r.strategy = o.strategy
              /\ arb_mgr' = arb_mgr
         \/ \E size \in Sizes : OrderPair(size)
         \/ \E r : /\ orders' = orders \cup {r} /\ OrderShape(r) /\ r.strategy = "B"
                   /\ arb_mgr' = arb_mgr
         \/ Started
<1>1. ASSUME NEW o \in orders, NEW n \in 1 .. o.size, TradeFill(o, n) \/ TickFill(o, n)
      PROVE  \E r : /\ orders' = (orders \ {o}) \cup {r} /\ OrderShape(r)
                    /\ r.strategy = o.strategy /\ arb_mgr' = arb_mgr
  <2>. DEFINE r == [o EXCEPT !.filled = @ + n]
  <2>1. OrderShape(r) /\ r.strategy = o.strategy
    BY <1>1, SameShape DEF OrdersInv
  <2>2. orders' = (orders \ {o}) \cup {r} /\ arb_mgr' = arb_mgr
    BY <1>1 DEF TradeFill, TickFill, Fill
  <2>. HIDE DEF r
  <2>. QED
    BY <2>1, <2>2
<1>2. ASSUME NEW o \in orders, SettlePosition(o)
      PROVE  \E r : /\ orders' = (orders \ {o}) \cup {r} /\ OrderShape(r)
                    /\ r.strategy = o.strategy /\ arb_mgr' = arb_mgr
  <2>. DEFINE r == [o EXCEPT !.paid = o.filled]
  <2>1. OrderShape(r) /\ r.strategy = o.strategy
    BY <1>2, SameShape DEF OrdersInv
  <2>2. orders' = (orders \ {o}) \cup {r} /\ arb_mgr' = arb_mgr
    BY <1>2 DEF SettlePosition
  <2>. HIDE DEF r
  <2>. QED
    BY <2>1, <2>2
<1>3. ASSUME NEW m \in Strategies, NEW winner \in BOOLEAN, Resolution(m, winner)
      PROVE  orders' = orders
  BY <1>3 DEF Resolution
<1>4. CASE PollDone \/ PostKill \/ PostResume \/ TickDone
  BY <1>4 DEF PollDone, PostKill, PostResume, RiskCall, TickDone
<1>5. ASSUME StrategyA, ~ \E size \in Sizes : OrderPair(size)
      PROVE  orders' = orders
  BY <1>5 DEF StrategyA, NoSignal, SignalOnly
<1>6. ASSUME StrategyB, orders' # orders
      PROVE  \E r : /\ orders' = orders \cup {r} /\ OrderShape(r) /\ r.strategy = "B"
                    /\ arb_mgr' = arb_mgr
  <2>1. PICK size \in Sizes, is_yes \in BOOLEAN : OrderToken(size, is_yes)
    BY <1>6 DEF StrategyB, NoSignal, SignalOnly
  <2>. DEFINE r == Submitted(next_oid, SignalId("B"), "B", is_yes, ApprovedSize("B", size))
  <2>2. OrderShape(r) /\ r.strategy = "B"
    BY NewShape DEF Strategies
  <2>3. orders' = orders \cup {r} /\ arb_mgr' = arb_mgr
    BY <2>1 DEF OrderToken
  <2>. HIDE DEF r
  <2>. QED
    BY <2>2, <2>3
<1>7. CASE Crash \/ Shutdown \/ CrashInSave
  BY <1>7 DEF Crash, Shutdown, CrashInSave
<1>. QED
  BY <1>1, <1>2, <1>3, <1>4, <1>5, <1>6, <1>7 DEF TradingNext

\* A pair is two orders of strategy A.
LEMMA PairShape ==
  ASSUME NEW size, OrderPair(size)
  PROVE  \E a, b : /\ orders' = orders \cup {a, b}
                   /\ OrderShape(a) /\ a.strategy = "A"
                   /\ OrderShape(b) /\ b.strategy = "A"
<1>. DEFINE n == ApprovedSize("A", size)
            a == Submitted(next_oid, SignalId("A"), "A", TRUE, n)
            b == Submitted(next_oid + 1, SignalId("A"), "A", FALSE, n)
<1>1. OrderShape(a) /\ a.strategy = "A" /\ OrderShape(b) /\ b.strategy = "A"
  BY NewShape DEF Strategies
<1>2. orders' = orders \cup {a, b}
  BY DEF OrderPair
<1>. HIDE DEF a, b
<1>. QED
  BY <1>1, <1>2

\* Every step keeps the shape of the orders.
LEMMA OrdersNext == OrdersInv /\ [TradingNext]_trading_vars => OrdersInv'
<1>. SUFFICES ASSUME OrdersInv, [TradingNext]_trading_vars PROVE OrdersInv'
  OBVIOUS
<1>1. CASE TradingNext
  <2>1. ASSUME Started PROVE orders' = {}
    BY <2>1 DEF Started
  <2>. QED
    BY <1>1, <2>1, OrderSteps, PairShape DEF OrdersInv
<1>2. CASE UNCHANGED trading_vars
  BY <1>2 DEF trading_vars, OrdersInv
<1>. QED
  BY <1>1, <1>2

-----------------------------------------------------------------------------
(***************************************************************************)
(* The counters and their file.                                            *)
(***************************************************************************)

Stats == [Strategies -> StratCounters]

\* Nothing recorded is missing in memory or in a file that is whole, and there is no whole
\* file only while nothing was recorded; until a process ends while it writes the file.
StatsInv ==
  /\ strat_stats \in Stats
  /\ file.whole \in BOOLEAN /\ file.stats \in Stats
  /\ results \in Nat /\ cut \in BOOLEAN
  /\ ~cut => /\ Settlements(strat_stats) = results
             /\ file.whole => Settlements(file.stats) = results
             /\ ~file.whole => results = 0

\* What another row of counters makes of the settlements.
LEMMA RowReplaced ==
  ASSUME NEW st \in Stats, NEW s \in Strategies, NEW c \in StratCounters
  PROVE  /\ [st EXCEPT ![s] = c] \in Stats
         /\ Settlements([st EXCEPT ![s] = c]) + st[s].wins + st[s].losses
              = Settlements(st) + c.wins + c.losses
<1>1. [st EXCEPT ![s] = c] \in Stats
  BY DEF Stats
<1>2. s \in {"A", "B"} /\ "A" \in Strategies /\ "B" \in Strategies
  BY DEF Strategies
<1>3. /\ st["A"] \in StratCounters /\ st["B"] \in StratCounters
      /\ [st EXCEPT ![s] = c][s] = c
      /\ \A r \in Strategies : r # s => [st EXCEPT ![s] = c][r] = st[r]
  BY <1>2 DEF Stats
<1>4. /\ c.wins \in Nat /\ c.losses \in Nat
      /\ st["A"].wins \in Nat /\ st["A"].losses \in Nat
      /\ st["B"].wins \in Nat /\ st["B"].losses \in Nat
  BY <1>3 DEF StratCounters
<1>. DEFINE new == [st EXCEPT ![s] = c]
<1>5. CASE s = "A"
  <2>1. new["A"] = c /\ new["B"] = st["B"]
    BY <1>2, <1>3, <1>5
  <2>. HIDE DEF new
  <2>2. Settlements(new) + st["A"].wins + st["A"].losses = Settlements(st) + c.wins + c.losses
    BY <1>4, <2>1 DEF Settlements
  <2>. QED
    BY <1>1, <1>5, <2>2, Zenon DEF new
<1>6. CASE s = "B"
  <2>1. new["B"] = c /\ new["A"] = st["A"]
    BY <1>2, <1>3, <1>6
  <2>. HIDE DEF new
  <2>2. Settlements(new) + st["B"].wins + st["B"].losses = Settlements(st) + c.wins + c.losses
    BY <1>4, <2>1 DEF Settlements
  <2>. QED
    BY <1>1, <1>6, <2>2, Zenon DEF new
<1>. QED
  BY <1>2, <1>5, <1>6

\* Signals, orders and fills count none of the settlements.
LEMMA OtherCounts ==
  ASSUME NEW st \in Stats, NEW s \in Strategies, NEW condition \in BOOLEAN
  PROVE  /\ record_signal(st, s, condition) \in Stats
         /\ Settlements(record_signal(st, s, condition)) = Settlements(st)
         /\ record_order(st, s) \in Stats
         /\ Settlements(record_order(st, s)) = Settlements(st)
         /\ record_fill(st, s, condition) \in Stats
         /\ Settlements(record_fill(st, s, condition)) = Settlements(st)
<1>1. One(condition) \in Nat /\ One(~condition) \in Nat
  BY DEF One
<1>2. st[s] \in StratCounters
  BY DEF Stats
<1>3. ASSUME NEW c \in StratCounters, c.wins = st[s].wins, c.losses = st[s].losses
      PROVE  [st EXCEPT ![s] = c] \in Stats /\ Settlements([st EXCEPT ![s] = c]) = Settlements(st)
  <2>1. Settlements(st) \in Int /\ st[s].wins \in Nat /\ st[s].losses \in Nat
        /\ Settlements([st EXCEPT ![s] = c]) \in Int
    BY <1>2, RowReplaced DEF Settlements, Stats, StratCounters, Strategies
  <2>. QED
    BY <1>3, <2>1, RowReplaced
<1>4. /\ record_signal(st, s, condition) \in Stats
      /\ Settlements(record_signal(st, s, condition)) = Settlements(st)
  <2>. DEFINE c == [st[s] EXCEPT !.signals = @ + 1, !.risk_approved = @ + One(condition)]
  <2>1. record_signal(st, s, condition) = [st EXCEPT ![s] = c]
    BY DEF record_signal, Stats
  <2>2. c \in StratCounters /\ c.wins = st[s].wins /\ c.losses = st[s].losses
    <3>. DEFINE n == st[s].signals + 1
                k == st[s].risk_approved + One(condition)
    <3>1. n \in Nat /\ k \in Nat /\ c = [st[s] EXCEPT !.signals = n, !.risk_approved = k]
      BY <1>1, <1>2 DEF StratCounters
    <3>. HIDE DEF c, n, k
    <3>. QED
      BY <1>2, <3>1 DEF StratCounters
  <2>. HIDE DEF c
  <2>3. [st EXCEPT ![s] = c] \in Stats /\ Settlements([st EXCEPT ![s] = c]) = Settlements(st)
    BY <1>3, <2>2
  <2>. QED
    BY <2>1, <2>3, Zenon
<1>5. /\ record_order(st, s) \in Stats
      /\ Settlements(record_order(st, s)) = Settlements(st)
  <2>. DEFINE c == [st[s] EXCEPT !.orders_submitted = @ + 1]
  <2>1. record_order(st, s) = [st EXCEPT ![s] = c]
    BY DEF record_order, Stats
  <2>2. c \in StratCounters /\ c.wins = st[s].wins /\ c.losses = st[s].losses
    BY <1>2 DEF StratCounters
  <2>. HIDE DEF c
  <2>3. [st EXCEPT ![s] = c] \in Stats /\ Settlements([st EXCEPT ![s] = c]) = Settlements(st)
    BY <1>3, <2>2
  <2>. QED
    BY <2>1, <2>3, Zenon
<1>6. /\ record_fill(st, s, condition) \in Stats
      /\ Settlements(record_fill(st, s, condition)) = Settlements(st)
  <2>. DEFINE c == [st[s] EXCEPT !.fills = @ + One(~condition)]
  <2>1. record_fill(st, s, condition) = [st EXCEPT ![s] = c]
    BY DEF record_fill, Stats
  <2>2. c \in StratCounters /\ c.wins = st[s].wins /\ c.losses = st[s].losses
    BY <1>1, <1>2 DEF StratCounters
  <2>. HIDE DEF c
  <2>3. [st EXCEPT ![s] = c] \in Stats /\ Settlements([st EXCEPT ![s] = c]) = Settlements(st)
    BY <1>3, <2>2
  <2>. QED
    BY <2>1, <2>3, Zenon
<1>. QED
  BY <1>4, <1>5, <1>6

\* A settlement counts once.
LEMMA SettlementCounts ==
  ASSUME NEW st \in Stats, NEW s \in Strategies, NEW is_win \in BOOLEAN
  PROVE  /\ record_settlement(st, s, is_win) \in Stats
         /\ Settlements(record_settlement(st, s, is_win)) = Settlements(st) + 1
<1>. DEFINE c == [st[s] EXCEPT !.wins = @ + One(is_win), !.losses = @ + One(~is_win)]
<1>1. One(is_win) \in Nat /\ One(~is_win) \in Nat /\ One(is_win) + One(~is_win) = 1
  BY DEF One
<1>2. st[s] \in StratCounters
  BY DEF Stats
<1>3. record_settlement(st, s, is_win) = [st EXCEPT ![s] = c]
  BY DEF record_settlement, Stats
<1>4. /\ c \in StratCounters
      /\ c.wins = st[s].wins + One(is_win) /\ c.losses = st[s].losses + One(~is_win)
  <2>. DEFINE n == st[s].wins + One(is_win)
              k == st[s].losses + One(~is_win)
  <2>1. n \in Nat /\ k \in Nat /\ c = [st[s] EXCEPT !.wins = n, !.losses = k]
    BY <1>1, <1>2 DEF StratCounters
  <2>2. [st[s] EXCEPT !.wins = n, !.losses = k] \in StratCounters
    <3>. HIDE DEF n, k
    <3>. QED
      BY <1>2, <2>1 DEF StratCounters
  <2>3. c.wins = n /\ c.losses = k
    <3>. HIDE DEF c, n, k
    <3>. QED
      BY <1>2, <2>1 DEF StratCounters
  <2>. QED
    BY <2>1, <2>2, <2>3, Zenon
<1>. HIDE DEF c
<1>5. /\ Settlements(st) \in Int /\ st[s].wins \in Nat /\ st[s].losses \in Nat
      /\ Settlements([st EXCEPT ![s] = c]) \in Int
  BY <1>2, <1>4, RowReplaced DEF Settlements, Stats, StratCounters, Strategies
<1>6. Settlements([st EXCEPT ![s] = c]) + st[s].wins + st[s].losses
        = Settlements(st) + c.wins + c.losses
  BY <1>4, RowReplaced, Zenon
<1>7. [st EXCEPT ![s] = c] \in Stats
  BY <1>4, RowReplaced, Zenon
<1>. DEFINE new == [st EXCEPT ![s] = c]
<1>. HIDE DEF new
<1>8. Settlements(new) = Settlements(st) + 1
  BY <1>1, <1>4, <1>5, <1>6 DEF new
<1>. QED
  BY <1>3, <1>7, <1>8, Zenon DEF new

-----------------------------------------------------------------------------

\* What is loaded at the start is what the file has.
LEMMA StartedStats ==
  ASSUME StatsInv, Started, file'.whole \in BOOLEAN, file'.stats \in Stats,
         results' \in Nat, cut' \in BOOLEAN,
         ~cut' => /\ file'.whole => Settlements(file'.stats) = results'
                  /\ ~file'.whole => results' = 0
  PROVE  StatsInv'
<1>1. strat_stats' = IF file'.whole THEN file'.stats ELSE ZeroStats
  BY DEF Started, strat_stats_load
<1>2. ZeroStats \in Stats /\ Settlements(ZeroStats) = 0
  BY DEF ZeroStats, NoCounts, Stats, StratCounters, Settlements, Strategies
<1>3. strat_stats' \in Stats
  BY <1>1, <1>2
<1>4. ~cut' => Settlements(strat_stats') = results'
  BY <1>1, <1>2
<1>. QED
  BY <1>3, <1>4 DEF StatsInv

\* A step that leaves the file and the results keeps the invariant if it counts no settlement.
LEMMA CountedStats ==
  ASSUME StatsInv, NEW st \in Stats, strat_stats' = st, Settlements(st) = Settlements(strat_stats),
         UNCHANGED <<file, results, cut>>
  PROVE  StatsInv'
<1>1. Settlements(strat_stats)' = Settlements(strat_stats)
  BY DEF Settlements
<1>. QED
  BY <1>1 DEF StatsInv

\* Every step keeps the invariant.
LEMMA StatsNext == OrdersInv /\ StatsInv /\ [TradingNext]_trading_vars => StatsInv'
<1>. SUFFICES ASSUME OrdersInv, StatsInv, [TradingNext]_trading_vars PROVE StatsInv'
  OBVIOUS
<1>. DEFINE Same == UNCHANGED <<file, results, cut>>
<1>0. strat_stats \in Stats /\ "A" \in Strategies /\ "B" \in Strategies
  BY DEF StatsInv, Strategies
<1>1. ASSUME NEW o \in orders, NEW n \in 1 .. o.size, TradeFill(o, n) \/ TickFill(o, n)
      PROVE  StatsInv'
  <2>. DEFINE partial == o.filled + n < o.size
  <2>1. strat_stats' = record_fill(strat_stats, o.strategy, partial) /\ Same
    BY <1>1 DEF TradeFill, TickFill, Fill, market_vars, process_vars
  <2>2. partial \in BOOLEAN /\ o.strategy \in Strategies
    BY DEF OrdersInv, OrderShape
  <2>. HIDE DEF partial
  <2>. QED
    BY <1>0, <2>1, <2>2, CountedStats, OtherCounts
<1>2. ASSUME NEW o \in orders, SettlePosition(o)
      PROVE  StatsInv'
  <2>. DEFINE is_win == o.is_yes = settling.winner
              st == record_settlement(strat_stats, o.strategy, is_win)
  <2>1. is_win \in BOOLEAN /\ o.strategy \in Strategies
    BY DEF OrdersInv, OrderShape
  <2>2. st \in Stats /\ Settlements(st) = Settlements(strat_stats) + 1
    <3>. HIDE DEF is_win
    <3>. QED
      BY <1>0, <2>1, SettlementCounts
  <2>3. /\ strat_stats' = st /\ file' = [whole |-> TRUE, stats |-> st]
        /\ results' = results + 1 /\ cut' = cut
    BY <1>2 DEF SettlePosition, strat_stats_save
  <2>. HIDE DEF st
  <2>4. file'.whole = TRUE /\ file'.stats = st
    BY <2>3
  <2>5. Settlements(strat_stats)' = Settlements(st) /\ Settlements(file.stats)' = Settlements(st)
    BY <2>3, <2>4 DEF Settlements
  <2>. QED
    BY <2>2, <2>3, <2>4, <2>5 DEF StatsInv
<1>3. ASSUME UNCHANGED <<strat_stats, file, results, cut>> PROVE StatsInv'
  BY <1>0, <1>3, CountedStats
<1>4. ASSUME NEW m \in Strategies, NEW winner \in BOOLEAN, Resolution(m, winner)
      PROVE  StatsInv'
  BY <1>3, <1>4 DEF Resolution, process_vars
<1>5. CASE PollDone \/ PostKill \/ PostResume \/ TickDone
  BY <1>3, <1>5 DEF PollDone, PostKill, PostResume, RiskCall, TickDone, market_vars, process_vars
<1>6. ASSUME NEW s \in Strategies, NoSignal(s)
      PROVE  StatsInv'
  BY <1>3, <1>6 DEF NoSignal, market_vars, process_vars
<1>7. ASSUME NEW s \in Strategies, NEW size \in Sizes, SignalOnly(s, size)
      PROVE  StatsInv'
  <2>1. strat_stats' = record_signal(strat_stats, s, Approved(s, size)) /\ Same
    BY <1>7 DEF SignalOnly, Signalled, market_vars, process_vars
  <2>2. Approved(s, size) \in BOOLEAN
    BY DEF Approved
  <2>. QED
    BY <1>0, <2>1, <2>2, CountedStats, OtherCounts
<1>8. ASSUME NEW size \in Sizes, OrderPair(size)
      PROVE  StatsInv'
  <2>. DEFINE a == record_signal(strat_stats, "A", TRUE)
              b == record_order(a, "A")
              c == record_order(b, "A")
  <2>1. strat_stats' = c /\ Same
    BY <1>8 DEF OrderPair, Signalled, market_vars, process_vars
  <2>2. a \in Stats /\ Settlements(a) = Settlements(strat_stats)
    BY <1>0, OtherCounts
  <2>. HIDE DEF a
  <2>3. b \in Stats /\ Settlements(b) = Settlements(a)
    BY <1>0, <2>2, OtherCounts
  <2>. HIDE DEF b
  <2>4. c \in Stats /\ Settlements(c) = Settlements(b)
    BY <1>0, <2>3, OtherCounts
  <2>. HIDE DEF c
  <2>. QED
    BY <2>1, <2>2, <2>3, <2>4, CountedStats
<1>9. ASSUME NEW size \in Sizes, NEW is_yes \in BOOLEAN, OrderToken(size, is_yes)
      PROVE  StatsInv'
  <2>. DEFINE a == record_signal(strat_stats, "B", TRUE)
              b == record_order(a, "B")
  <2>1. strat_stats' = b /\ Same
    BY <1>9 DEF OrderToken, Signalled, market_vars, process_vars
  <2>2. a \in Stats /\ Settlements(a) = Settlements(strat_stats)
    BY <1>0, OtherCounts
  <2>. HIDE DEF a
  <2>3. b \in Stats /\ Settlements(b) = Settlements(a)
    BY <1>0, <2>2, OtherCounts
  <2>. HIDE DEF b
  <2>. QED
    BY <2>1, <2>2, <2>3, CountedStats
<1>10. CASE Crash
  <2>1. Started /\ Same
    BY <1>10 DEF Crash
  <2>2. Settlements(file.stats)' = Settlements(file.stats)
    BY <2>1 DEF Settlements
  <2>. QED
    BY <2>1, <2>2, StartedStats DEF StatsInv
<1>11. CASE Shutdown
  <2>1. Started /\ file' = [whole |-> TRUE, stats |-> strat_stats] /\ UNCHANGED <<results, cut>>
    BY <1>11 DEF Shutdown, strat_stats_save
  <2>2. file'.whole = TRUE /\ file'.stats = strat_stats
    BY <2>1
  <2>. QED
    BY <1>0, <2>1, <2>2, StartedStats DEF StatsInv
<1>12. CASE CrashInSave
  <2>1. Started /\ file' = NoFile /\ cut' = TRUE /\ results' \in Nat
    BY <1>12 DEF CrashInSave, StatsInv
  <2>2. NoFile.whole \in BOOLEAN /\ NoFile.stats \in Stats
    BY DEF NoFile, ZeroStats, NoCounts, Stats, StratCounters
  <2>. QED
    BY <2>1, <2>2, StartedStats
<1>13. CASE UNCHANGED trading_vars
  BY <1>3, <1>13 DEF trading_vars, market_vars, process_vars
<1>. QED
  BY <1>0, <1>1, <1>2, <1>4, <1>5, <1>6, <1>7, <1>8, <1>9, <1>10, <1>11, <1>12, <1>13
     DEF TradingNext, StrategyA, StrategyB

\* The counters and their file are counters, and count the settlements, in every state.
THEOREM StatsInvariant == TradingSpec => [](OrdersInv /\ StatsInv)
<1>1. TradingInit => OrdersInv /\ StatsInv
  <2>. SUFFICES ASSUME TradingInit PROVE OrdersInv /\ StatsInv
    OBVIOUS
  <2>1. ZeroStats \in Stats /\ Settlements(ZeroStats) = 0
    BY DEF ZeroStats, NoCounts, Stats, StratCounters, Settlements, Strategies
  <2>2. strat_stats = ZeroStats /\ file.whole = FALSE /\ file.stats = ZeroStats
    BY DEF TradingInit, NoFile
  <2>. QED
    BY <2>1, <2>2 DEF TradingInit, OrdersInv, StatsInv
<1>. QED
  BY <1>1, OrdersNext, StatsNext, PTL DEF TradingSpec

\* No settlement is lost by a crash or a restart, short of one that cuts the file short.
THEOREM SettlementsKeptAlways == TradingSpec => []SettlementsKept
<1>1. StatsInv => SettlementsKept
  BY DEF StatsInv, SettlementsKept
<1>. QED
  BY <1>1, StatsInvariant, PTL

-----------------------------------------------------------------------------
(***************************************************************************)
(* The two-leg manager.                                                    *)
(***************************************************************************)

PairOrders == {o \in orders : o.strategy = "A"}

\* The operations opened are the first ones of the table and none of them ever gets further
\* than its first state; every pair of orders opened one.
ArbInv ==
  /\ arb_mgr \in [ops : [OpSlots -> ArbOp], next_arb_id : Nat \ {0}]
  /\ arb_mgr.next_arb_id <= MaxOps + 1
  /\ \A i \in OpSlots :
       /\ arb_mgr.ops[i].yes = 0 /\ arb_mgr.ops[i].no = 0
       /\ i < arb_mgr.next_arb_id =>
            arb_mgr.ops[i].arb_id # 0 /\ arb_mgr.ops[i].state = "LEG_A_PENDING"
       /\ i >= arb_mgr.next_arb_id => arb_mgr.ops[i].arb_id = 0

PairsInv ==
  IsFiniteSet(PairOrders) /\ Cardinality(PairOrders) <= 2 * (arb_mgr.next_arb_id - 1)

\* What a step does to the manager.
LEMMA ArbSteps ==
  ASSUME TradingNext
  PROVE  \/ arb_mgr' = arb_mgr
         \/ arb_mgr' = Swept(arb_mgr, t0) /\ orders' = orders
         \/ \E size \in Sizes : OrderPair(size)
         \/ Started
<1>1. ASSUME NEW o \in orders, NEW n \in 1 .. o.size, TradeFill(o, n) \/ TickFill(o, n)
      PROVE  arb_mgr' = arb_mgr
  BY <1>1 DEF TradeFill, TickFill, Fill
<1>2. ASSUME NEW o \in orders, SettlePosition(o) PROVE arb_mgr' = arb_mgr
  BY <1>2 DEF SettlePosition
<1>3. ASSUME NEW m \in Strategies, NEW winner \in BOOLEAN, Resolution(m, winner)
      PROVE  arb_mgr' = arb_mgr
  BY <1>3 DEF Resolution
<1>4. CASE PollDone \/ PostKill \/ PostResume
  BY <1>4 DEF PollDone, PostKill, PostResume, RiskCall
<1>5. ASSUME StrategyA, ~ \E size \in Sizes : OrderPair(size) PROVE arb_mgr' = arb_mgr
  BY <1>5 DEF StrategyA, NoSignal, SignalOnly
<1>6. CASE StrategyB
  BY <1>6 DEF StrategyB, NoSignal, SignalOnly, OrderToken
<1>7. CASE TickDone
  BY <1>7 DEF TickDone
<1>8. CASE Crash \/ Shutdown \/ CrashInSave
  BY <1>8 DEF Crash, Shutdown, CrashInSave
<1>. QED
  BY <1>1, <1>2, <1>3, <1>4, <1>5, <1>6, <1>7, <1>8 DEF TradingNext

\* An operation nothing was credited to is not swept.
LEMMA NothingSwept ==
  ASSUME ArbInv, NEW now
  PROVE  Swept(arb_mgr, now) = arb_mgr /\ TickActs(arb_mgr, now) = {}
<1>1. \A i \in OpSlots : ~Overdue(arb_mgr.ops[i], now)
  BY DEF ArbInv, Overdue, Unhedged
<1>2. [i \in OpSlots |-> IF Overdue(arb_mgr.ops[i], now)
                         THEN [arb_mgr.ops[i] EXCEPT !.state = "HEDGE_REQUIRED"]
                         ELSE arb_mgr.ops[i]] = arb_mgr.ops
  BY <1>1 DEF ArbInv
<1>3. Swept(arb_mgr, now) = arb_mgr
  BY <1>2 DEF Swept, ArbInv
<1>4. TickActs(arb_mgr, now) = {}
  BY <1>1 DEF TickActs
<1>. QED
  BY <1>3, <1>4

\* A pair opens the operation after the last one.
LEMMA PairOpens ==
  ASSUME ArbInv, NEW size \in Sizes, OrderPair(size)
  PROVE  ArbInv' /\ arb_mgr'.next_arb_id = arb_mgr.next_arb_id + 1
<1>. DEFINE k == arb_mgr.next_arb_id
<1>0. k \in Nat \ {0} /\ MaxOps \in Nat \ {0} /\ size \in Nat
  BY ArbAssumption, TradingAssumption DEF ArbInv
<1>1. PICK i \in OpSlots : FreeOp(arb_mgr, i) /\ arb_mgr' = Opened(arb_mgr, i, size)
  BY DEF OrderPair
<1>2. i \in Nat /\ 1 <= i /\ i <= MaxOps
  BY <1>0 DEF OpSlots
<1>3. ~ i < k
  BY <1>1 DEF FreeOp, Finished, ArbInv
<1>4. ~ k < i
  <2>. SUFFICES ASSUME k < i PROVE FALSE
    OBVIOUS
  <2>1. k \in 1 .. i - 1 /\ k \in OpSlots
    BY <1>0, <1>2 DEF OpSlots
  <2>2. arb_mgr.ops[k].arb_id = 0
    BY <1>0, <2>1 DEF ArbInv
  <2>. QED
    BY <1>1, <2>1, <2>2 DEF FreeOp
<1>5. i = k
  BY <1>0, <1>2, <1>3, <1>4
<1>. DEFINE op == [NoOp EXCEPT !.arb_id = k, !.state = "LEG_A_PENDING", !.target = size]
<1>6. /\ op \in ArbOp
      /\ op.arb_id = k /\ op.state = "LEG_A_PENDING" /\ op.yes = 0 /\ op.no = 0
  BY <1>0 DEF NoOp, ArbOp, ArbStates
<1>7. arb_mgr' = [ops |-> [arb_mgr.ops EXCEPT ![i] = op], next_arb_id |-> k + 1]
  BY <1>1 DEF Opened
<1>. HIDE DEF op
<1>. DEFINE ops2 == [arb_mgr.ops EXCEPT ![i] = op]
<1>8. /\ ops2 \in [OpSlots -> ArbOp] /\ ops2[i] = op
      /\ \A j \in OpSlots : j # i => ops2[j] = arb_mgr.ops[j]
  BY <1>6 DEF ArbInv
<1>9. arb_mgr'.ops = ops2 /\ arb_mgr'.next_arb_id = k + 1
      /\ arb_mgr' = [ops |-> ops2, next_arb_id |-> k + 1]
  BY <1>7
<1>10. \A j \in OpSlots : j \in Nat
  BY DEF OpSlots
<1>. HIDE DEF ops2
<1>11. arb_mgr' \in [ops : [OpSlots -> ArbOp], next_arb_id : Nat \ {0}]
  BY <1>0, <1>8, <1>9
<1>12. \A j \in OpSlots :
         /\ ops2[j].yes = 0 /\ ops2[j].no = 0
         /\ j < k + 1 => ops2[j].arb_id # 0 /\ ops2[j].state = "LEG_A_PENDING"
         /\ j >= k + 1 => ops2[j].arb_id = 0
  <2>. TAKE j \in OpSlots
  <2>1. CASE j = i
    BY <1>0, <1>5, <1>6, <1>8, <2>1
  <2>2. CASE j # i
    <3>1. (j < k + 1 => j < k) /\ (j >= k + 1 => j >= k)
      BY <1>0, <1>5, <1>10, <2>2
    <3>. QED
      BY <1>8, <2>2, <3>1 DEF ArbInv
  <2>. QED
    BY <2>1, <2>2
<1>13. k + 1 <= MaxOps + 1
  BY <1>0, <1>2, <1>5
<1>. HIDE DEF k
<1>. QED
  BY <1>9, <1>11, <1>12, <1>13 DEF ArbInv, k

\* A process starts with an empty table and no orders.
LEMMA StartedArb == ASSUME Started PROVE ArbInv' /\ PairsInv'
<1>1. MaxOps \in Nat \ {0}
  BY ArbAssumption
<1>2. arb_mgr' = [ops |-> [i \in OpSlots |-> NoOp], next_arb_id |-> 1] /\ orders' = {}
  BY DEF Started, pt_arb_mgr_init
<1>3. NoOp \in ArbOp /\ NoOp.yes = 0 /\ NoOp.no = 0 /\ NoOp.arb_id = 0
  BY DEF NoOp, ArbOp, ArbStates
<1>4. \A i \in OpSlots : i \in Nat /\ ~ i < 1
  BY <1>1 DEF OpSlots
<1>5. ArbInv'
  BY <1>1, <1>2, <1>3, <1>4 DEF ArbInv
<1>6. PairOrders' = {}
  BY <1>2 DEF PairOrders
<1>. QED
  BY <1>2, <1>5, <1>6, FS_EmptySet DEF PairsInv

\* Every step keeps the table, and the count of the pairs.
LEMMA ArbNextInv == OrdersInv /\ ArbInv /\ PairsInv /\ [TradingNext]_trading_vars => ArbInv' /\ PairsInv'
<1>. SUFFICES ASSUME OrdersInv, ArbInv, PairsInv, [TradingNext]_trading_vars
              PROVE  ArbInv' /\ PairsInv'
  OBVIOUS
<1>1. ASSUME arb_mgr' = arb_mgr PROVE ArbInv'
  BY <1>1 DEF ArbInv
<1>2. ASSUME arb_mgr' = arb_mgr, orders' = orders PROVE ArbInv' /\ PairsInv'
  BY <1>1, <1>2 DEF PairsInv, PairOrders
<1>. DEFINE k == arb_mgr.next_arb_id
<1>3. k \in Nat \ {0} /\ Cardinality(PairOrders) \in Nat
  BY FS_CardinalityType DEF ArbInv, PairsInv
<1>4. ASSUME NEW o \in orders, NEW r, orders' = (orders \ {o}) \cup {r},
             r.strategy = o.strategy, arb_mgr' = arb_mgr
      PROVE  ArbInv' /\ PairsInv'
  <2>1. CASE o.strategy = "A"
    <3>1. PairOrders' = (PairOrders \ {o}) \cup {r} /\ o \in PairOrders
      BY <1>4, <2>1 DEF PairOrders
    <3>2. /\ IsFiniteSet(PairOrders \ {o})
          /\ Cardinality(PairOrders \ {o}) = Cardinality(PairOrders) - 1
      BY <3>1, FS_RemoveElement DEF PairsInv
    <3>3. IsFiniteSet(PairOrders') /\ Cardinality(PairOrders') <= Cardinality(PairOrders)
      BY <1>3, <3>1, <3>2, FS_AddElement
    <3>4. Cardinality(PairOrders') \in Nat
      BY <3>3, FS_CardinalityType
    <3>. QED
      BY <1>1, <1>3, <1>4, <3>3, <3>4 DEF PairsInv
  <2>2. CASE o.strategy # "A"
    <3>1. PairOrders' = PairOrders
      BY <1>4, <2>2 DEF PairOrders
    <3>. QED
      BY <1>1, <1>4, <3>1 DEF PairsInv
  <2>. QED
    BY <2>1, <2>2
<1>5. ASSUME NEW r, orders' = orders \cup {r}, r.strategy = "B", arb_mgr' = arb_mgr
      PROVE  ArbInv' /\ PairsInv'
  <2>1. PairOrders' = PairOrders
    BY <1>5 DEF PairOrders
  <2>. QED
    BY <1>1, <1>5, <2>1 DEF PairsInv
<1>6. ASSUME NEW size \in Sizes, OrderPair(size)
      PROVE  ArbInv' /\ PairsInv'
  <2>1. ArbInv' /\ arb_mgr'.next_arb_id = k + 1
    BY <1>6, PairOpens
  <2>2. PICK a, b : /\ orders' = orders \cup {a, b}
                    /\ a.strategy = "A" /\ b.strategy = "A"
    BY <1>6, PairShape
  <2>3. PairOrders' = (PairOrders \cup {a}) \cup {b}
    BY <2>2 DEF PairOrders
  <2>4. /\ IsFiniteSet(PairOrders \cup {a})
        /\ Cardinality(PairOrders \cup {a}) \in Nat
        /\ Cardinality(PairOrders \cup {a}) <= Cardinality(PairOrders) + 1
    <3>1. IsFiniteSet(PairOrders)
      BY DEF PairsInv
    <3>2. /\ IsFiniteSet(PairOrders \cup {a})
          /\ Cardinality(PairOrders \cup {a}) =
               IF a \in PairOrders THEN Cardinality(PairOrders) ELSE Cardinality(PairOrders) + 1
      BY <3>1, FS_AddElement
    <3>. QED
      BY <1>3, <3>2
  <2>5. /\ IsFiniteSet(PairOrders') /\ Cardinality(PairOrders') \in Nat
        /\ Cardinality(PairOrders') <= Cardinality(PairOrders) + 2
    BY <1>3, <2>3, <2>4, FS_AddElement
  <2>6. Cardinality(PairOrders) <= 2 * (k - 1)
    BY DEF PairsInv
  <2>7. Cardinality(PairOrders') <= 2 * ((k + 1) - 1)
    BY <1>3, <2>5, <2>6
  <2>. QED
    BY <2>1, <2>5, <2>7 DEF PairsInv
<1>7. CASE TradingNext
  <2>1. ASSUME arb_mgr' = Swept(arb_mgr, t0), orders' = orders PROVE ArbInv' /\ PairsInv'
    BY <1>2, <2>1, NothingSwept
  <2>2. CASE \/ \E size \in Sizes : OrderPair(size)
             \/ Started
    BY <1>6, <2>2, StartedArb
  <2>3. CASE arb_mgr' = arb_mgr
    BY <1>2, <1>4, <1>5, <1>7, <2>2, <2>3, OrderSteps
  <2>. QED
    BY <1>7, <2>1, <2>2, <2>3, ArbSteps
<1>8. CASE UNCHANGED trading_vars
  BY <1>2, <1>8 DEF trading_vars
<1>. QED
  BY <1>7, <1>8

\* The table of operations fills from its start, one entry for each pair, in every state.
THEOREM ArbInvariant == TradingSpec => [](ArbInv /\ PairsInv)
<1>1. TradingInit => OrdersInv /\ ArbInv /\ PairsInv
  <2>. SUFFICES ASSUME TradingInit PROVE OrdersInv /\ ArbInv /\ PairsInv
    OBVIOUS
  <2>1. MaxOps \in Nat \ {0}
    BY ArbAssumption
  <2>2. arb_mgr = [ops |-> [i \in OpSlots |-> NoOp], next_arb_id |-> 1] /\ orders = {}
    BY DEF TradingInit, pt_arb_mgr_init
  <2>3. NoOp \in ArbOp /\ NoOp.yes = 0 /\ NoOp.no = 0 /\ NoOp.arb_id = 0
    BY DEF NoOp, ArbOp, ArbStates
  <2>4. \A i \in OpSlots : i \in Nat /\ ~ i < 1
    BY <2>1 DEF OpSlots
  <2>5. ArbInv
    BY <2>1, <2>2, <2>3, <2>4 DEF ArbInv
  <2>6. PairOrders = {}
    BY <2>2 DEF PairOrders
  <2>. QED
    BY <2>2, <2>5, <2>6, FS_EmptySet DEF PairsInv, OrdersInv
<1>. QED
  BY <1>1, OrdersNext, ArbNextInv, PTL DEF TradingSpec

\* For a table of any size: a process sends at most one pair for each of its entries, and
\* never a hedge.
THEOREM ArbMgrNeverInformed == TradingSpec => []ArbMgrUninformed
<1>1. ArbInv /\ PairsInv => ArbMgrUninformed
  <2>. SUFFICES ASSUME ArbInv, PairsInv PROVE ArbMgrUninformed
    OBVIOUS
  <2>1. /\ Cardinality(PairOrders) \in Nat /\ arb_mgr.next_arb_id \in Nat
        /\ MaxOps \in Nat /\ arb_mgr.next_arb_id <= MaxOps + 1
        /\ Cardinality(PairOrders) <= 2 * (arb_mgr.next_arb_id - 1)
    BY FS_CardinalityType, ArbAssumption DEF ArbInv, PairsInv
  <2>2. Cardinality(PairOrders) <= 2 * MaxOps
    BY <2>1
  <2>. QED
    BY <2>2, NothingSwept DEF ArbMgrUninformed, PairOrders
<1>. QED
  BY <1>1, ArbInvariant, PTL

=============================================================================
