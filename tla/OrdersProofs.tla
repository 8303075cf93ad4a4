---------------------------- MODULE OrdersProofs ----------------------------
(***************************************************************************)
(* The orders of the engine, the records kept of their signals and the     *)
(* counters of their strategies agree, for every size of order and of the  *)
(* table of records: what each of them says of a fill or a settlement      *)
(* follows from what the others say, through crashes and restarts.         *)
(***************************************************************************)
EXTENDS TradingProofs

-----------------------------------------------------------------------------
(***************************************************************************)
(* The invariant.                                                          *)
(***************************************************************************)

\* The signal ids given so far are at most this.
LastSignal == tick_count * 10 + (CASE pc = "a" -> 0 [] pc = "b" -> 1 [] OTHER -> 2)

\* The variables but the tracker, the counters, the risk engine and the manager.
PlainInv ==
  /\ pc \in {"poll", "settle", "a", "b", "tick"} /\ tick_count \in Nat
  /\ orders \subseteq DeskOrder /\ IsFiniteSet(orders) /\ next_oid \in Nat \ {0}
  /\ settled \subseteq Strategies /\ settling.winner \in BOOLEAN
  /\ losing_run \in Nat

\* An order fills up to its size and is paid for no more than that; what it is of was given
\* before; it is paid only when its market is resolved.
SoundOrder(o) ==
  /\ 0 < o.oid /\ o.oid < next_oid /\ o.signal <= LastSignal
  /\ o.filled <= o.size /\ o.paid <= o.filled
  /\ o.paid > 0 => o.strategy \in settled

\* No two orders have the same number.
OrdersSound ==
  /\ \A o \in orders : SoundOrder(o)
  /\ \A o, r \in orders : o.oid = r.oid => o = r

\* The positions left of a resolution are open, and there are some only while it lasts.
SettlingInv ==
  /\ settling.left \subseteq orders
  /\ pc # "settle" => settling.left = {}
  /\ \A o \in settling.left : o.filled > 0 /\ o.paid = 0 /\ o.strategy \in settled

\* The leg of its signal's record an order is.
LegOf(o) == o.strategy = "A" => o.is_yes

\* An order of the signal is that leg of the record, and no other's.
Linked(r, o) ==
  /\ o.signal = r.signal_id =>
       /\ o.strategy = r.strategy
       /\ r.leg[LegOf(o)].order_id = o.oid
       /\ o.strategy = "A" => r.leg[~o.is_yes].order_id # o.oid
  /\ \A leg \in BOOLEAN : r.leg[leg].order_id = o.oid => o.signal = r.signal_id

Records == lc_tracker.records

\* A record for each signal at most, linked to what was ordered for it.
RecordsInv ==
  /\ lc_tracker = [records |-> Records, completed_count |-> lc_tracker.completed_count]
  /\ Records \in Seq(LcRecord) /\ Len(Records) <= MaxRecords
  /\ \A i \in DOMAIN Records :
       /\ Records[i].signal_id <= LastSignal
       /\ \A leg \in BOOLEAN : Records[i].leg[leg].order_id < next_oid
       /\ \A o \in orders : Linked(Records[i], o)
  /\ \A i, j \in DOMAIN Records : Records[i].signal_id = Records[j].signal_id => i = j

\* The orders of s that can still be filled, or settled.
UnfilledIn(O, s) == {o \in O : o.strategy = s /\ o.filled < o.size}
UnpaidIn(O, s) == {o \in O : o.strategy = s /\ o.paid = 0}

\* The row c of s leaves room to count so many fills and settlements more.
LeavesRoom(s, c, fills, ends) ==
  /\ c.fills + fills <= c.orders_submitted
  /\ c.wins + c.losses + ends <= c.orders_submitted
  /\ c.orders_submitted <= (IF s = "A" THEN 2 ELSE 1) * c.risk_approved
  /\ c.risk_approved <= c.signals

\* The orders that can still be counted as filled or settled are counted as submitted.
CountsInv ==
  \A s \in Strategies :
    /\ LeavesRoom(s, strat_stats[s], Cardinality(UnfilledIn(orders, s)), Cardinality(UnpaidIn(orders, s)))
    /\ LeavesRoom(s, file.stats[s], 0, 0)

-----------------------------------------------------------------------------
(***************************************************************************)
(* The orders.                                                             *)
(***************************************************************************)

OrdersPart == PlainInv /\ OrdersSound /\ SettlingInv

-----------------------------------------------------------------------------

\* What an approved signal orders is a number of shares.
LEMMA ApprovedSizeType ==
  ASSUME RiskInv, PlainInv, NEW s \in Strategies, NEW size \in Sizes, Approved(s, size)
  PROVE  ApprovedSize(s, size) \in Nat
<1>. DEFINE f == [o \in orders |-> o.filled - o.paid]
            S == {o \in orders : o.strategy = s}
            e == Exposure(s)
            room == Room(risk, e)
            allowed == AllowedShares(risk, Offer(size), e)
<1>1. e \in Int
  <2>1. IsFiniteSet(S) /\ \A o \in S : f[o] \in Int
    BY FS_Subset DEF PlainInv, DeskOrder
  <2>2. e = SumFunctionOnSet(f, S)
    BY DEF Exposure
  <2>. HIDE DEF f, S
  <2>. QED
    BY <2>1, <2>2, SumType
<1>. HIDE DEF e
<1>2. room \in Int
  BY <1>1, RiskAssumption DEF Room, Floor, RiskInv, RiskEngine, RiskLimits
<1>3. ~NoRoom(risk, Offer(size), e)
  BY DEF Approved, Verdict, e
<1>4. room \in Nat /\ room > 0 /\ PriceScale \in Nat \ {0}
  BY <1>2, <1>3, RiskAssumption DEF NoRoom
<1>5. allowed = Floor((room * PriceScale) \div PriceScale, RiskCfg.max_order_size)
  BY DEF AllowedShares, Offer
<1>. HIDE DEF room
<1>6. room * PriceScale \in Nat
  BY <1>4
<1>. DEFINE x == room * PriceScale
<1>. HIDE DEF x
<1>7. x \div PriceScale \in Nat
  BY <1>4, <1>6 DEF x
<1>8. allowed \in Nat
  BY <1>5, <1>7, RiskAssumption DEF Floor, RiskLimits, x
<1>. HIDE DEF allowed
<1>9. ApprovedSize(s, size) = Floor(size, allowed)
  BY DEF ApprovedSize, SizeApproved, Offer, allowed, e
<1>. QED
  BY <1>8, <1>9, TradingAssumption DEF Floor

\* Where the loop is when strategy s looks for a signal.
Turn(s) == pc = IF s = "A" THEN "a" ELSE "b"

\* Signals are numbered in the order they are given.
LEMMA NextSignal ==
  ASSUME PlainInv
  PROVE  /\ LastSignal \in Nat
         /\ \A s \in Strategies : Turn(s) => SignalId(s) = LastSignal + 1
<1>1. LastSignal \in Nat
  BY DEF PlainInv, LastSignal
<1>2. ASSUME NEW s \in Strategies, Turn(s) PROVE SignalId(s) = LastSignal + 1
  BY <1>2 DEF PlainInv, LastSignal, SignalId, Turn, Strategies
<1>. QED
  BY <1>1, <1>2

\* Orders sent for a signal of s.
Sent(s, N) ==
  /\ IsFiniteSet(N) /\ N \subseteq DeskOrder
  /\ next_oid' \in Nat \ {0} /\ next_oid <= next_oid'
  /\ \A o \in N : /\ next_oid <= o.oid /\ o.oid < next_oid'
                  /\ o.signal = SignalId(s) /\ o.strategy = s
                  /\ o.filled = 0 /\ o.paid = 0
  /\ \A o, r \in N : o.oid = r.oid => o = r
  /\ orders' = orders \cup N

\* An order sent is one.
LEMMA SubmittedOrder ==
  ASSUME NEW oid \in Nat, NEW s \in Strategies, NEW is_yes \in BOOLEAN, NEW n \in Nat,
         NEW signal \in Nat
  PROVE  /\ Submitted(oid, signal, s, is_yes, n) \in DeskOrder
         /\ Submitted(oid, signal, s, is_yes, n).oid = oid
         /\ Submitted(oid, signal, s, is_yes, n).signal = signal
         /\ Submitted(oid, signal, s, is_yes, n).strategy = s
         /\ Submitted(oid, signal, s, is_yes, n).is_yes = is_yes
         /\ Submitted(oid, signal, s, is_yes, n).size = n
         /\ Submitted(oid, signal, s, is_yes, n).filled = 0
         /\ Submitted(oid, signal, s, is_yes, n).paid = 0
BY DEF Submitted, DeskOrder

\* The order sent for a leg, as Trading has it.
Leg(size, is_yes, oid, s) ==
  Submitted(oid, SignalId(s), s, is_yes, ApprovedSize(s, size))

IsLeg(o, oid, is_yes, s) ==
  /\ o \in DeskOrder /\ o.oid = oid /\ o.signal = SignalId(s) /\ o.strategy = s
  /\ o.is_yes = is_yes /\ o.filled = 0 /\ o.paid = 0

\* A leg sent is an order of the signal.
LEMMA LegSubmitted ==
  ASSUME RiskInv, PlainInv, NEW s \in Strategies, NEW size \in Sizes, Approved(s, size),
         NEW is_yes \in BOOLEAN, NEW oid \in Nat
  PROVE  IsLeg(Leg(size, is_yes, oid, s), oid, is_yes, s)
<1>1. ApprovedSize(s, size) \in Nat
  BY ApprovedSizeType
<1>2. SignalId(s) \in Nat
  BY DEF SignalId, PlainInv
<1>. QED
  BY <1>1, <1>2, SubmittedOrder DEF Leg, IsLeg

\* Strategy A sends both legs, strategy B one.
LEMMA PairSent ==
  ASSUME RiskInv, PlainInv, NEW size \in Sizes, OrderPair(size)
  PROVE  Sent("A", {Leg(size, TRUE, next_oid, "A"), Leg(size, FALSE, next_oid + 1, "A")})
<1>. DEFINE a == Leg(size, TRUE, next_oid, "A")
            b == Leg(size, FALSE, next_oid + 1, "A")
<1>1. "A" \in Strategies /\ Approved("A", size) /\ next_oid \in Nat \ {0} /\ next_oid + 1 \in Nat
  BY DEF OrderPair, Strategies, PlainInv
<1>2. next_oid \in Nat
  BY <1>1
<1>3. IsLeg(a, next_oid, TRUE, "A") /\ IsLeg(b, next_oid + 1, FALSE, "A")
  BY <1>1, <1>2, TRUE \in BOOLEAN, FALSE \in BOOLEAN, LegSubmitted, Zenon
<1>4. orders' = orders \cup {a, b} /\ next_oid' = next_oid + 2
  BY DEF OrderPair, Leg
<1>. HIDE DEF a, b
<1>5. IsFiniteSet({a, b})
  <2>1. IsFiniteSet({a} \cup {b}) /\ {a, b} = {a} \cup {b}
    BY FS_Singleton, FS_AddElement, Zenon
  <2>. QED
    BY <2>1
<1>6. Sent("A", {a, b})
  BY <1>1, <1>3, <1>4, <1>5 DEF Sent, IsLeg
<1>. QED
  BY <1>6 DEF a, b

\* Strategy B sends one order.
LEMMA TokenSent ==
  ASSUME RiskInv, PlainInv, NEW size \in Sizes, NEW is_yes \in BOOLEAN,
         OrderToken(size, is_yes)
  PROVE  Sent("B", {Leg(size, is_yes, next_oid, "B")})
<1>. DEFINE a == Leg(size, is_yes, next_oid, "B")
<1>1. "B" \in Strategies /\ Approved("B", size) /\ next_oid \in Nat \ {0}
  BY DEF OrderToken, Strategies, PlainInv
<1>2. IsLeg(a, next_oid, is_yes, "B")
  BY <1>1, LegSubmitted
<1>3. orders' = orders \cup {a} /\ next_oid' = next_oid + 1
  BY DEF OrderToken, Leg
<1>. HIDE DEF a
<1>4. IsFiniteSet({a})
  BY FS_Singleton
<1>5. Sent("B", {a})
  BY <1>1, <1>2, <1>3, <1>4 DEF Sent, IsLeg
<1>. QED
  BY <1>5 DEF a

\* A signal that is not approved, or finds no free operation, sends nothing.
LEMMA NothingSent ==
  ASSUME PlainInv, NEW s \in Strategies, NEW size \in Sizes, SignalOnly(s, size)
  PROVE  Sent(s, {})
BY FS_EmptySet DEF SignalOnly, Sent, PlainInv

\* The turn goes to the next phase.
Turned(s) ==
  /\ Turn(s) /\ pc' = NextPhase(s) /\ tick_count' = tick_count
  /\ UNCHANGED <<settled, settling, losing_run, results, file>>

\* Orders sent keep what is known of the orders.
LEMMA SentOrders ==
  ASSUME OrdersPart, NEW s \in Strategies, NEW N, Turned(s), Sent(s, N)
  PROVE  OrdersPart' /\ LastSignal' = LastSignal + 1
<1>0. PlainInv /\ OrdersSound /\ SettlingInv
  BY DEF OrdersPart
<1>1. LastSignal' = LastSignal + 1 /\ LastSignal \in Nat /\ SignalId(s) = LastSignal + 1
  BY <1>0, NextSignal DEF LastSignal, Turned, Turn, NextPhase, Strategies, PlainInv
<1>2. IsFiniteSet(orders')
  BY <1>0, FS_Union DEF Sent, PlainInv
<1>3. PlainInv'
  BY <1>0, <1>2 DEF PlainInv, Turned, Sent, NextPhase
<1>4. \A o \in orders : SoundOrder(o) /\ o \in DeskOrder
  BY <1>0 DEF OrdersSound, PlainInv
<1>5. next_oid \in Nat /\ next_oid' \in Nat
  BY <1>0 DEF PlainInv, Sent
<1>6. \A o \in orders' : SoundOrder(o)'
  <2>1. ASSUME NEW o \in orders PROVE SoundOrder(o)'
    BY <1>1, <1>4, <1>5 DEF SoundOrder, Sent, Turned, DeskOrder
  <2>2. ASSUME NEW o \in N PROVE SoundOrder(o)'
    BY <1>0, <1>1, <1>5 DEF SoundOrder, Sent, Turned, DeskOrder, PlainInv
  <2>. QED
    BY <2>1, <2>2 DEF Sent
<1>7. \A o, r \in orders' : o.oid = r.oid => o = r
  <2>1. \A o \in orders, r \in N : o.oid \in Nat /\ r.oid \in Nat /\ o.oid < r.oid
    BY <1>4, <1>5 DEF SoundOrder, Sent, DeskOrder
  <2>2. \A o \in orders, r \in N : o.oid # r.oid
    BY <2>1
  <2>3. \A o, r \in orders : o.oid = r.oid => o = r
    BY <1>0 DEF OrdersSound
  <2>. QED
    BY <2>2, <2>3 DEF Sent
<1>8. SettlingInv'
  BY <1>0 DEF SettlingInv, Turned, Turn, Sent
<1>. QED
  BY <1>1, <1>3, <1>6, <1>7, <1>8 DEF OrdersPart, OrdersSound

\* Order o becomes r in every field but how much of it is filled and paid.
Becomes(o, r) ==
  /\ r \in DeskOrder
  /\ r.oid = o.oid /\ r.signal = o.signal /\ r.strategy = o.strategy /\ r.is_yes = o.is_yes
  /\ r.size = o.size

\* Order r takes the place of o.
Replaces(o, r) == orders' = (orders \ {o}) \cup {r} /\ next_oid' = next_oid

\* What a fill makes of an order.
LEMMA FillBecomes ==
  ASSUME NEW o \in DeskOrder, NEW n \in 1 .. o.size, n <= o.size - o.filled
  PROVE  /\ Becomes(o, [o EXCEPT !.filled = @ + n])
         /\ [o EXCEPT !.filled = @ + n].filled = o.filled + n
         /\ [o EXCEPT !.filled = @ + n].paid = o.paid
<1>. DEFINE x == o.filled + n
<1>1. x \in Nat /\ [o EXCEPT !.filled = @ + n] = [o EXCEPT !.filled = x]
  BY DEF DeskOrder
<1>. HIDE DEF x
<1>. QED
  BY <1>1 DEF DeskOrder, Becomes, x

\* What a settlement makes of an order.
LEMMA SettleBecomes ==
  ASSUME NEW o \in DeskOrder
  PROVE  /\ Becomes(o, [o EXCEPT !.paid = o.filled])
         /\ [o EXCEPT !.paid = o.filled].filled = o.filled
         /\ [o EXCEPT !.paid = o.filled].paid = o.filled
BY DEF DeskOrder, Becomes

\* Replacing an order keeps what is known of the others.
LEMMA ReplacedOrders ==
  ASSUME PlainInv, OrdersSound, NEW o \in orders, NEW r, Becomes(o, r), Replaces(o, r),
         r.filled <= r.size, r.paid <= r.filled, r.paid > 0 => r.strategy \in settled,
         settled' = settled, LastSignal' = LastSignal
  PROVE  OrdersSound' /\ IsFiniteSet(orders') /\ orders' \subseteq DeskOrder
<1>1. IsFiniteSet(orders')
  BY FS_RemoveElement, FS_AddElement DEF Replaces, PlainInv
<1>2. \A x \in orders : SoundOrder(x)'
  BY DEF OrdersSound, SoundOrder, Replaces
<1>3. SoundOrder(r)'
  BY <1>2 DEF SoundOrder, Becomes
<1>4. \A x, y \in orders' : x.oid = y.oid => x = y
  BY DEF OrdersSound, Replaces, Becomes
<1>5. orders' \subseteq DeskOrder
  BY DEF PlainInv, Replaces, Becomes
<1>. QED
  BY <1>1, <1>2, <1>3, <1>4, <1>5 DEF OrdersSound, Replaces

\* A step that leaves the orders, their records and their counters.
Idle ==
  /\ UNCHANGED <<orders, next_oid, lc_tracker, strat_stats, file, settled, settling, losing_run>>
  /\ pc' \in {"poll", "settle", "a", "b", "tick"} /\ (pc' = "settle" <=> pc = "settle")
  /\ tick_count' \in Nat /\ LastSignal <= LastSignal'

\* A signal of s, whatever it leads to.
Signals(s) ==
  /\ Turned(s)
  /\ \E size \in Sizes :
       \/ SignalOnly(s, size)
       \/ s = "A" /\ OrderPair(size)
       \/ s = "B" /\ \E is_yes \in BOOLEAN : OrderToken(size, is_yes)

\* Every step of the loop falls into one of these.
LEMMA DeskSteps ==
  ASSUME PlainInv, TradingNext
  PROVE  \/ \E o \in orders : \E n \in 1 .. o.size : Fill(o, n) /\ pc # "settle"
         \/ \E o \in orders : SettlePosition(o)
         \/ \E m \in Strategies, winner \in BOOLEAN : Resolution(m, winner)
         \/ \E s \in Strategies : Signals(s)
         \/ Idle
         \/ Crash \/ Shutdown \/ CrashInSave
<1>0. LastSignal \in Nat /\ "A" \in Strategies /\ "B" \in Strategies
  BY NextSignal DEF Strategies
<1>1. ASSUME NEW o \in orders, NEW n \in 1 .. o.size, TradeFill(o, n) \/ TickFill(o, n)
      PROVE  Fill(o, n) /\ pc # "settle"
  BY <1>1 DEF TradeFill, TickFill
<1>2. CASE PostKill \/ PostResume
  <2>1. UNCHANGED <<pc, tick_count, orders, next_oid, lc_tracker, strat_stats, file, settled,
                    settling, losing_run>>
    BY <1>2 DEF PostKill, PostResume, RiskCall, market_vars, process_vars
  <2>2. LastSignal' = LastSignal
    BY <2>1 DEF LastSignal
  <2>. QED
    BY <1>0, <2>1, <2>2 DEF Idle, PlainInv
<1>3. CASE PollDone
  <2>1. LastSignal <= LastSignal'
    BY <1>3 DEF PollDone, PlainInv, LastSignal
  <2>. QED
    BY <1>3, <2>1 DEF PollDone, Idle, PlainInv, market_vars, process_vars
<1>4. CASE TickDone
  <2>1. LastSignal <= LastSignal'
    BY <1>4 DEF TickDone, PlainInv, LastSignal
  <2>. QED
    BY <1>4, <2>1 DEF TickDone, Idle, PlainInv, market_vars, process_vars
<1>5. ASSUME NEW s \in Strategies, Turn(s), NoSignal(s) PROVE Idle
  <2>1. pc' \in {"b", "tick"} /\ (s = "A" => pc' = "b") /\ (s # "A" => pc' = "tick")
    BY <1>5 DEF NoSignal, NextPhase
  <2>2. LastSignal <= LastSignal'
    BY <1>5, <2>1 DEF Turn, NoSignal, PlainInv, LastSignal
  <2>. QED
    BY <1>5, <2>1, <2>2 DEF Turn, NoSignal, Idle, PlainInv, market_vars, process_vars
<1>6. ASSUME NEW s \in Strategies, Turn(s), NEW size \in Sizes, Signalled(s, size)
      PROVE  Turned(s)
  BY <1>6 DEF Signalled, Turned, market_vars, process_vars
<1>7. CASE StrategyA
  <2>1. Turn("A")
    BY <1>7 DEF StrategyA, Turn
  <2>2. ASSUME NEW size \in Sizes, SignalOnly("A", size) \/ OrderPair(size) PROVE Signals("A")
    <3>1. Signalled("A", size)
      BY <2>2 DEF SignalOnly, OrderPair
    <3>. QED
      BY <1>0, <1>6, <2>1, <2>2, <3>1 DEF Signals
  <2>. QED
    BY <1>0, <1>5, <1>7, <2>1, <2>2 DEF StrategyA
<1>8. CASE StrategyB
  <2>1. Turn("B")
    BY <1>8 DEF StrategyB, Turn
  <2>2. ASSUME NEW size \in Sizes, SignalOnly("B", size) \/ \E is_yes \in BOOLEAN : OrderToken(size, is_yes)
        PROVE  Signals("B")
    <3>1. Signalled("B", size)
      BY <2>2 DEF SignalOnly, OrderToken
    <3>. QED
      BY <1>0, <1>6, <2>1, <2>2, <3>1 DEF Signals
  <2>. QED
    BY <1>0, <1>5, <1>8, <2>1, <2>2 DEF StrategyB
<1>. QED
  BY <1>1, <1>2, <1>3, <1>4, <1>7, <1>8 DEF TradingNext

\* What a signal sends.
LEMMA SignalSends ==
  ASSUME RiskInv, PlainInv, NEW s \in Strategies, Signals(s)
  PROVE  \E N : Sent(s, N)
BY PairSent, TokenSent, NothingSent DEF Signals

\* A fill keeps what is known of the orders.
LEMMA FilledOrders ==
  ASSUME OrdersPart, NEW o \in orders, NEW n \in 1 .. o.size, Fill(o, n), pc # "settle"
  PROVE  OrdersPart' /\ LastSignal' = LastSignal
<1>0. PlainInv /\ OrdersSound /\ SettlingInv /\ o \in DeskOrder
  BY DEF OrdersPart, PlainInv
<1>. DEFINE r == [o EXCEPT !.filled = @ + n]
<1>1. /\ n <= o.size - o.filled
      /\ orders' = (orders \ {o}) \cup {r}
      /\ UNCHANGED <<pc, tick_count, next_oid, settled, settling, losing_run>>
  BY DEF Fill, market_vars
<1>2. Becomes(o, r) /\ r.filled = o.filled + n /\ r.paid = o.paid
  BY <1>0, <1>1, FillBecomes
<1>. HIDE DEF r
<1>3. LastSignal' = LastSignal
  BY <1>1 DEF LastSignal
<1>4. SoundOrder(o)
  BY <1>0 DEF OrdersSound
<1>5. r.filled <= r.size /\ r.paid <= r.filled /\ (r.paid > 0 => r.strategy \in settled)
  BY <1>0, <1>1, <1>2, <1>4 DEF SoundOrder, Becomes, DeskOrder
<1>6. OrdersSound' /\ IsFiniteSet(orders') /\ orders' \subseteq DeskOrder
  BY <1>0, <1>1, <1>2, <1>3, <1>5, ReplacedOrders DEF Replaces
<1>7. PlainInv'
  BY <1>0, <1>1, <1>6 DEF PlainInv
<1>8. SettlingInv'
  BY <1>0, <1>1 DEF SettlingInv
<1>. QED
  BY <1>3, <1>6, <1>7, <1>8 DEF OrdersPart

\* So does a settlement.
LEMMA SettledOrders ==
  ASSUME OrdersPart, NEW o \in orders, SettlePosition(o)
  PROVE  OrdersPart' /\ LastSignal' = LastSignal
<1>0. PlainInv /\ OrdersSound /\ SettlingInv /\ o \in DeskOrder
  BY DEF OrdersPart, PlainInv
<1>. DEFINE r == [o EXCEPT !.paid = o.filled]
<1>1. /\ pc = "settle" /\ o \in settling.left
      /\ orders' = (orders \ {o}) \cup {r}
      /\ settling' = [settling EXCEPT !.left = @ \ {o}]
      /\ pc' = IF settling.left = {o} THEN "poll" ELSE "settle"
      /\ losing_run' = IF o.is_yes = settling.winner THEN 0 ELSE losing_run + 1
      /\ UNCHANGED <<tick_count, next_oid, settled>>
  BY DEF SettlePosition
<1>2. Becomes(o, r) /\ r.filled = o.filled /\ r.paid = o.filled
  BY <1>0, SettleBecomes
<1>. HIDE DEF r
<1>3. LastSignal' = LastSignal
  BY <1>1 DEF LastSignal
<1>4. SoundOrder(o)
  BY <1>0 DEF OrdersSound
<1>5. r.filled <= r.size /\ r.paid <= r.filled /\ (r.paid > 0 => r.strategy \in settled)
  BY <1>0, <1>1, <1>2, <1>4 DEF SoundOrder, Becomes, DeskOrder, SettlingInv
<1>6. OrdersSound' /\ IsFiniteSet(orders') /\ orders' \subseteq DeskOrder
  BY <1>0, <1>1, <1>2, <1>3, <1>5, ReplacedOrders DEF Replaces
<1>7. settling'.left = settling.left \ {o} /\ settling'.winner = settling.winner
  BY <1>1
<1>8. PlainInv'
  BY <1>0, <1>1, <1>6, <1>7 DEF PlainInv
<1>9. SettlingInv'
  BY <1>0, <1>1, <1>7 DEF SettlingInv
<1>. QED
  BY <1>3, <1>6, <1>8, <1>9 DEF OrdersPart

\* The positions a resolution finds are open.
LEMMA ResolvedOrders ==
  ASSUME OrdersPart, NEW m \in Strategies, NEW winner \in BOOLEAN, Resolution(m, winner)
  PROVE  OrdersPart' /\ LastSignal' = LastSignal
<1>0. PlainInv /\ OrdersSound /\ SettlingInv
  BY DEF OrdersPart
<1>. DEFINE left == {o \in orders : o.strategy = m /\ o.filled > 0}
<1>1. /\ pc = "poll" /\ m \notin settled /\ settled' = settled \cup {m}
      /\ settling' = [left |-> left, winner |-> winner]
      /\ pc' = IF left = {} THEN "poll" ELSE "settle"
      /\ UNCHANGED <<tick_count, orders, next_oid, losing_run>>
  BY DEF Resolution
<1>2. settling'.left = left /\ settling'.winner = winner
  BY <1>1
<1>3. LastSignal' = LastSignal
  BY <1>1 DEF LastSignal
<1>4. PlainInv'
  BY <1>0, <1>1, <1>2 DEF PlainInv
<1>5. OrdersSound'
  BY <1>0, <1>1, <1>3 DEF OrdersSound, SoundOrder
<1>6. \A o \in left : o \in orders /\ o.filled > 0 /\ o.paid = 0 /\ o.strategy \in settled'
  BY <1>0, <1>1 DEF OrdersSound, SoundOrder, PlainInv, DeskOrder
<1>. HIDE DEF left
<1>7. SettlingInv'
  BY <1>1, <1>2, <1>6 DEF SettlingInv
<1>. QED
  BY <1>3, <1>4, <1>5, <1>7 DEF OrdersPart

\* Every step keeps what is known of the orders.
LEMMA OrdersPartNext == RiskInv /\ OrdersPart /\ [TradingNext]_trading_vars => OrdersPart'
<1>. SUFFICES ASSUME RiskInv, OrdersPart, [TradingNext]_trading_vars PROVE OrdersPart'
  OBVIOUS
<1>0. PlainInv /\ OrdersSound /\ SettlingInv
  BY DEF OrdersPart
<1>1. ASSUME NEW s \in Strategies, Signals(s) PROVE OrdersPart'
  BY <1>0, <1>1, SignalSends, SentOrders DEF Signals
<1>2. CASE Idle
  <2>1. PlainInv' /\ SettlingInv'
    BY <1>0, <1>2 DEF Idle, PlainInv, SettlingInv
  <2>2. \A o \in orders : o.signal \in Nat
    BY <1>0 DEF PlainInv, DeskOrder
  <2>3. LastSignal \in Nat /\ LastSignal' \in Nat
    BY <1>0, <2>1, NextSignal DEF PlainInv, LastSignal
  <2>4. OrdersSound'
    BY <1>0, <1>2, <2>2, <2>3 DEF Idle, OrdersSound, SoundOrder
  <2>. QED
    BY <2>1, <2>4 DEF OrdersPart
<1>3. CASE Crash \/ Shutdown \/ CrashInSave
  <2>1. Started
    BY <1>3 DEF Crash, Shutdown, CrashInSave
  <2>. QED
    BY <2>1, FS_EmptySet DEF Started, OrdersPart, PlainInv, OrdersSound, SettlingInv, NotSettling
<1>4. CASE UNCHANGED trading_vars
  BY <1>0, <1>4
     DEF trading_vars, market_vars, OrdersPart, PlainInv, OrdersSound, SoundOrder, SettlingInv, LastSignal
<1>. QED
  BY <1>0, <1>1, <1>2, <1>3, <1>4, DeskSteps, FilledOrders, SettledOrders, ResolvedOrders

-----------------------------------------------------------------------------
(***************************************************************************)
(* The records: what a signal and its orders append.                       *)
(***************************************************************************)

\* The record of a signal whose orders have these ids.
FreshLeg(s, size, leg, id) ==
  [order_id |-> IF leg \/ s = "A" THEN id ELSE 0,
   requested |-> IF leg \/ s = "A" THEN size ELSE 0, filled |-> 0]

\* The record of a signal just given, with the orders sent for its legs.
FreshRecord(signal, s, size, yes, no) ==
  [signal_id |-> signal, strategy |-> s, state |-> "PENDING",
   leg |-> [leg \in BOOLEAN |-> FreshLeg(s, size, leg, IF leg THEN yes ELSE no)],
   completed |-> FALSE]

\* A record tracked from now on, unless the table is full.
Tracks(t, u, r) ==
  /\ u = [records |-> u.records, completed_count |-> t.completed_count]
  /\ u.records = IF Len(t.records) >= MaxRecords THEN t.records ELSE Append(t.records, r)

\* What the tracker is.
Tracker == [records : Seq(LcRecord), completed_count : Nat]

\* A fresh record is a record.
LEMMA FreshRecordType ==
  ASSUME NEW signal \in Nat, NEW s \in Strategies, NEW size \in Nat, NEW yes \in Nat, NEW no \in Nat
  PROVE  FreshRecord(signal, s, size, yes, no) \in LcRecord
<1>1. ASSUME NEW leg \in BOOLEAN PROVE FreshLeg(s, size, leg, IF leg THEN yes ELSE no) \in LcLeg
  BY DEF FreshLeg, LcLeg
<1>2. [leg \in BOOLEAN |-> FreshLeg(s, size, leg, IF leg THEN yes ELSE no)] \in [BOOLEAN -> LcLeg]
  BY <1>1
<1>. QED
  BY <1>2 DEF FreshRecord, LcRecord, LcStates, Strategies

\* lc_on_signal tracks a signal without orders.
LEMMA SignalTracked ==
  ASSUME NEW t \in Tracker, NEW signal \in Nat, NEW s \in Strategies, NEW size \in Nat
  PROVE  Tracks(t, lc_on_signal(t, signal, s, size), FreshRecord(signal, s, size, 0, 0))
<1>. DEFINE r == [signal_id |-> signal, strategy |-> s, state |-> "PENDING",
                  leg |-> [leg \in BOOLEAN |-> NewLeg(IF leg \/ s = "A" THEN size ELSE 0)],
                  completed |-> FALSE]
<1>1. ASSUME NEW leg \in BOOLEAN
      PROVE  NewLeg(IF leg \/ s = "A" THEN size ELSE 0) = FreshLeg(s, size, leg, IF leg THEN 0 ELSE 0)
  BY DEF NewLeg, FreshLeg
<1>2. r = FreshRecord(signal, s, size, 0, 0)
  BY <1>1, Zenon DEF FreshRecord
<1>3. lc_on_signal(t, signal, s, size) =
        IF Len(t.records) >= MaxRecords THEN t ELSE [t EXCEPT !.records = Append(@, r)]
  BY DEF lc_on_signal
<1>. HIDE DEF r
<1>4. t = [records |-> t.records, completed_count |-> t.completed_count]
  BY DEF Tracker
<1>. QED
  BY <1>2, <1>3, <1>4 DEF Tracks, Tracker

\* The scans' first match is the only one.
LEMMA OnlyFirst ==
  ASSUME NEW k \in Nat, NEW S, S \subseteq {k}, NEW i PROVE First(S, i) <=> i \in S
<1>1. \A j \in S : j = k
  OBVIOUS
<1>2. ASSUME i \in S PROVE \A j \in S : i <= j
  <2>1. i = k
    BY <1>1, <1>2
  <2>2. k <= k
    OBVIOUS
  <2>. QED
    BY <1>1, <2>1, <2>2
<1>. QED
  BY <1>2 DEF First

\* The orders of a signal that was just given go to its record.
LEMMA OrdersTracked ==
  ASSUME NEW t \in Tracker, NEW signal \in Nat, NEW s \in Strategies, NEW size \in Nat,
         NEW oid \in [BOOLEAN -> Nat],
         \A i \in DOMAIN t.records : t.records[i].signal_id # signal
  PROVE  Tracks(t, lc_on_orders(lc_on_signal(t, signal, s, size), signal, oid),
                FreshRecord(signal, s, size, oid[TRUE], oid[FALSE]))
<1>. DEFINE u == lc_on_signal(t, signal, s, size)
            r == FreshRecord(signal, s, size, 0, 0)
            q == FreshRecord(signal, s, size, oid[TRUE], oid[FALSE])
            New(x) == [x EXCEPT !.leg = [leg \in BOOLEAN |->
              IF leg \/ x.strategy = "A" THEN [x.leg[leg] EXCEPT !.order_id = oid[leg]] ELSE x.leg[leg]]]
            v == lc_on_orders(u, signal, oid)
            S == OfSignal(u, signal)
            fn == [i \in DOMAIN u.records |-> IF First(S, i) THEN New(u.records[i]) ELSE u.records[i]]
<1>. SUFFICES Tracks(t, v, q)
  OBVIOUS
<1>1. Tracks(t, u, r) /\ r \in LcRecord
  BY SignalTracked, FreshRecordType
<1>2. v = [u EXCEPT !.records = fn]
  BY DEF lc_on_orders, Rewritten
<1>3. New(r) = q
  <2>. DEFINE fresh == [leg \in BOOLEAN |-> FreshLeg(s, size, leg, IF leg THEN 0 ELSE 0)]
              linked == [leg \in BOOLEAN |->
                IF leg \/ s = "A" THEN [fresh[leg] EXCEPT !.order_id = oid[leg]] ELSE fresh[leg]]
              wanted == [leg \in BOOLEAN |->
                FreshLeg(s, size, leg, IF leg THEN oid[TRUE] ELSE oid[FALSE])]
  <2>1. ASSUME NEW leg \in BOOLEAN
        PROVE  (IF leg \/ s = "A" THEN [fresh[leg] EXCEPT !.order_id = oid[leg]] ELSE fresh[leg])
                 = FreshLeg(s, size, leg, IF leg THEN oid[TRUE] ELSE oid[FALSE])
    <3>1. fresh[leg] = FreshLeg(s, size, leg, IF leg THEN 0 ELSE 0)
      OBVIOUS
    <3>2. oid[leg] = IF leg THEN oid[TRUE] ELSE oid[FALSE]
      OBVIOUS
    <3>3. CASE leg \/ s = "A"
      <4>. DEFINE x == oid[leg]
                  l == fresh[leg]
      <4>1. l = [order_id |-> 0, requested |-> size, filled |-> 0]
        BY <3>1, <3>3 DEF FreshLeg
      <4>2. FreshLeg(s, size, leg, x) = [order_id |-> x, requested |-> size, filled |-> 0]
        BY <3>3 DEF FreshLeg
      <4>. HIDE DEF x, l
      <4>3. [l EXCEPT !.order_id = x] = FreshLeg(s, size, leg, x)
        BY <4>1, <4>2
      <4>. QED
        BY <3>2, <3>3, <4>3, Zenon DEF x, l
    <3>4. CASE ~(leg \/ s = "A")
      <4>. HIDE DEF fresh
      <4>. QED
        BY <3>1, <3>4 DEF FreshLeg
    <3>. QED
      BY <3>3, <3>4
  <2>2. linked = wanted
    BY <2>1, Zenon
  <2>3. /\ r = [signal_id |-> signal, strategy |-> s, state |-> "PENDING", leg |-> fresh,
                completed |-> FALSE]
        /\ q = [signal_id |-> signal, strategy |-> s, state |-> "PENDING", leg |-> wanted,
                completed |-> FALSE]
    BY DEF FreshRecord
  <2>. HIDE DEF r, q, fresh, wanted
  <2>4. New(r) = [r EXCEPT !.leg = linked]
    <3>1. r.strategy = s /\ r.leg = fresh
      BY <2>3, Zenon
    <3>. QED
      BY <3>1, Zenon
  <2>. HIDE DEF linked, New
  <2>5. [r EXCEPT !.leg = wanted] = q
    <3>1. \A c : [[signal_id |-> signal, strategy |-> s, state |-> "PENDING", leg |-> fresh,
                   completed |-> c] EXCEPT !.leg = wanted]
                 = [signal_id |-> signal, strategy |-> s, state |-> "PENDING", leg |-> wanted,
                    completed |-> c]
      OBVIOUS
    <3>. QED
      BY <2>3, <3>1, Zenon
  <2>. QED
    BY <2>2, <2>4, <2>5, Zenon
<1>4. q \in LcRecord
  BY FreshRecordType
<1>5. t.records \in Seq(LcRecord) /\ t.completed_count \in Nat
  BY DEF Tracker
<1>6. /\ u = [records |-> u.records, completed_count |-> t.completed_count]
      /\ u.records = IF Len(t.records) >= MaxRecords THEN t.records ELSE Append(t.records, r)
  BY <1>1 DEF Tracks
<1>. DEFINE n == Len(t.records)
<1>7. v = [records |-> fn, completed_count |-> t.completed_count]
  <2>. HIDE DEF u, v, fn
  <2>. QED
    BY <1>2, <1>6
<1>8. n \in Nat /\ DOMAIN t.records = 1 .. n /\ t.records = [i \in 1 .. n |-> t.records[i]]
  BY <1>5, LenProperties
<1>. HIDE DEF u, v, New, q
<1>9. CASE n >= MaxRecords
  <2>1. S = {}
    BY <1>6, <1>9 DEF OfSignal
  <2>2. \A i : ~First(S, i)
    BY <2>1 DEF First
  <2>3. fn = t.records
    BY <1>6, <1>8, <1>9, <2>2
  <2>. HIDE DEF fn
  <2>. QED
    BY <1>7, <1>9, <2>3 DEF Tracks
<1>10. CASE ~ n >= MaxRecords
  <2>. DEFINE m == n + 1
  <2>1. /\ u.records = Append(t.records, r)
        /\ DOMAIN u.records = 1 .. m /\ u.records[m] = r
        /\ \A i \in 1 .. n : u.records[i] = t.records[i]
    BY <1>1, <1>5, <1>6, <1>8, <1>10, AppendProperties, LenProperties
  <2>2. r.signal_id = signal
    BY DEF FreshRecord
  <2>3. m \in Nat /\ \A i \in 1 .. m : i = m \/ i \in 1 .. n
    BY <1>8
  <2>4. S = {m}
    BY <1>8, <2>1, <2>2, <2>3 DEF OfSignal
  <2>5. \A i \in 1 .. m : First(S, i) <=> i = m
    BY <2>3, <2>4, OnlyFirst
  <2>6. /\ Append(t.records, q) \in Seq(LcRecord) /\ Len(Append(t.records, q)) = m
        /\ Append(t.records, q)[m] = q
        /\ \A i \in 1 .. n : Append(t.records, q)[i] = t.records[i]
    BY <1>4, <1>5, <1>8, AppendProperties
  <2>. DEFINE w == Append(t.records, q)
  <2>7. w = [i \in 1 .. m |-> w[i]]
    BY <2>6, LenProperties
  <2>. HIDE DEF m, S, w
  <2>8. \A i \in 1 .. m : w[i] = IF First(S, i) THEN New(u.records[i]) ELSE u.records[i]
    BY <1>3, <2>1, <2>3, <2>5, <2>6 DEF w
  <2>9. fn = w
    BY <2>1, <2>7, <2>8
  <2>. HIDE DEF fn
  <2>. QED
    BY <1>7, <1>10, <2>9 DEF Tracks, w
<1>. QED
  BY <1>9, <1>10

\* q is r after a fill or a settlement.
SameRecord(r, q) ==
  /\ q \in LcRecord /\ q.signal_id = r.signal_id /\ q.strategy = r.strategy
  /\ \A leg \in BOOLEAN : q.leg[leg].order_id = r.leg[leg].order_id

\* The state a fill leaves is one of the states.
LEMMA StateOfLegsType ==
  ASSUME NEW strategy, NEW a, NEW b PROVE StateOfLegs(strategy, a, b) \in LcStates
BY DEF StateOfLegs, LcStates

\* A fill is credited to the leg its order is.
LEMMA CreditedLeg ==
  ASSUME NEW r \in LcRecord, NEW o \in DeskOrder, o.signal = r.signal_id, o.oid > 0, Linked(r, o)
  PROVE  LegOfFill(r, o.oid, o.is_yes) = LegOf(o)
<1>1. r.strategy = o.strategy /\ o.is_yes \in BOOLEAN
  BY DEF Linked, DeskOrder
<1>2. CASE o.strategy # "A"
  BY <1>1, <1>2 DEF LegOf, LegOfFill
<1>3. CASE o.strategy = "A" /\ o.is_yes
  <2>1. o.is_yes = TRUE /\ (~o.is_yes) = FALSE
    BY <1>1, <1>3
  <2>2. r.leg[FALSE].order_id # o.oid
    BY <1>3, <2>1 DEF Linked
  <2>. QED
    BY <1>3, <2>1, <2>2 DEF LegOf, LegOfFill
<1>4. CASE o.strategy = "A" /\ ~o.is_yes
  <2>1. LegOf(o) = FALSE
    BY <1>1, <1>4 DEF LegOf
  <2>2. r.leg[FALSE].order_id = o.oid
    BY <2>1 DEF Linked
  <2>. QED
    BY <1>1, <1>4, <2>1, <2>2 DEF LegOfFill
<1>. QED
  BY <1>1, <1>2, <1>3, <1>4

\* What a fill makes of a record.
LEMMA CreditedRecord ==
  ASSUME NEW r \in LcRecord, NEW oid, NEW is_yes, NEW n \in Nat
  PROVE  /\ SameRecord(r, WithFill(r, oid, is_yes, n))
         /\ WithFill(r, oid, is_yes, n).completed = r.completed
         /\ \A leg \in BOOLEAN : WithFill(r, oid, is_yes, n).leg[leg].filled =
              IF leg = LegOfFill(r, oid, is_yes) THEN r.leg[leg].filled + n ELSE r.leg[leg].filled
<1>. DEFINE k == LegOfFill(r, oid, is_yes)
            l == [r.leg[k] EXCEPT !.filled = @ + n]
            legs == [r.leg EXCEPT ![k] = l]
            state == StateOfLegs(r.strategy, legs[TRUE], legs[FALSE])
            q == [r EXCEPT !.leg = legs, !.state = state]
<1>1. WithFill(r, oid, is_yes, n) = q
  <2>1. legs = [r.leg EXCEPT ![k].filled = @ + n]
    <3>. HIDE DEF k
    <3>. QED OBVIOUS
  <2>. DEFINE old == [r.leg EXCEPT ![k].filled = @ + n]
  <2>2. WithFill(r, oid, is_yes, n) =
          [r EXCEPT !.leg = old, !.state = StateOfLegs(r.strategy, old[TRUE], old[FALSE])]
    BY DEF WithFill
  <2>. HIDE DEF old
  <2>. QED
    BY <2>1, <2>2 DEF old
<1>2. k \in BOOLEAN
  BY DEF LegOfFill
<1>3. r.leg \in [BOOLEAN -> LcLeg] /\ state \in LcStates
  BY StateOfLegsType DEF LcRecord
<1>. HIDE DEF k
<1>4. r.leg[k] \in LcLeg
  BY <1>2, <1>3
<1>5. l \in LcLeg /\ l.order_id = r.leg[k].order_id /\ l.filled = r.leg[k].filled + n
  <2>. DEFINE x == r.leg[k].filled + n
  <2>1. x \in Nat /\ l = [r.leg[k] EXCEPT !.filled = x]
    BY <1>4 DEF LcLeg
  <2>. HIDE DEF x
  <2>2. [r.leg[k] EXCEPT !.filled = x] \in LcLeg
        /\ [r.leg[k] EXCEPT !.filled = x].order_id = r.leg[k].order_id
        /\ [r.leg[k] EXCEPT !.filled = x].filled = x
    BY <1>4, <2>1 DEF LcLeg
  <2>. QED
    BY <2>1, <2>2 DEF x
<1>. HIDE DEF l, state
<1>6. /\ legs \in [BOOLEAN -> LcLeg]
      /\ \A leg \in BOOLEAN : legs[leg] = IF leg = k THEN l ELSE r.leg[leg]
  BY <1>2, <1>3, <1>5
<1>. HIDE DEF legs
<1>7. /\ q \in LcRecord /\ q.leg = legs /\ q.signal_id = r.signal_id
      /\ q.strategy = r.strategy /\ q.completed = r.completed
  BY <1>3, <1>6 DEF LcRecord
<1>. HIDE DEF q
<1>8. \A leg \in BOOLEAN : /\ q.leg[leg].order_id = r.leg[leg].order_id
                           /\ q.leg[leg].filled =
                                IF leg = k THEN r.leg[leg].filled + n ELSE r.leg[leg].filled
  BY <1>5, <1>6, <1>7
<1>. QED
  BY <1>1, <1>7, <1>8 DEF SameRecord, k

\* The records a fill looks up are those of its order's signal, and there is at most one.
LEMMA CreditedRecords ==
  ASSUME PlainInv, OrdersSound, RecordsInv, NEW o \in orders, NEW n \in 1 .. o.size, Fill(o, n)
  PROVE  /\ lc_tracker' = [records |-> Records', completed_count |-> lc_tracker.completed_count]
         /\ Records' = [i \in DOMAIN Records |->
              IF Records[i].signal_id = o.signal THEN WithFill(Records[i], o.oid, o.is_yes, n)
              ELSE Records[i]]
<1>. DEFINE S == OfSignal(lc_tracker, o.signal)
            T == {i \in DOMAIN lc_tracker.records :
                    o.oid > 0 /\ \E leg \in BOOLEAN : lc_tracker.records[i].leg[leg].order_id = o.oid}
            fn == [i \in DOMAIN lc_tracker.records |->
                     IF First(S \cup T, i) THEN WithFill(lc_tracker.records[i], o.oid, o.is_yes, n)
                     ELSE lc_tracker.records[i]]
<1>1. lc_tracker' = [lc_tracker EXCEPT !.records = fn]
  BY DEF Fill, lc_on_fill_ex, Rewritten
<1>2. lc_tracker = [records |-> Records, completed_count |-> lc_tracker.completed_count]
  BY DEF RecordsInv
<1>3. T \subseteq S
  BY DEF RecordsInv, Linked, OfSignal, Records
<1>4. \A i \in DOMAIN Records : First(S \cup T, i) <=> Records[i].signal_id = o.signal
  <2>1. \A i \in DOMAIN Records : i \in S <=> Records[i].signal_id = o.signal
    BY DEF OfSignal, Records
  <2>2. \A i, j \in S : i = j
    BY <2>1 DEF RecordsInv, OfSignal, Records
  <2>3. S \subseteq Nat
    BY LenProperties DEF RecordsInv, OfSignal, Records
  <2>4. S \cup T = S
    BY <1>3
  <2>. HIDE DEF S, T
  <2>5. ASSUME NEW i, i \in S PROVE First(S, i)
    <3>1. S \subseteq {i} /\ i \in Nat
      BY <2>2, <2>3, <2>5
    <3>. QED
      BY <2>5, <3>1, OnlyFirst
  <2>6. ASSUME NEW i, First(S, i) PROVE i \in S
    BY <2>6 DEF First
  <2>. QED
    BY <2>1, <2>4, <2>5, <2>6
<1>5. fn = [i \in DOMAIN Records |->
              IF Records[i].signal_id = o.signal THEN WithFill(Records[i], o.oid, o.is_yes, n)
              ELSE Records[i]]
  <2>. HIDE DEF S, T
  <2>. QED
    BY <1>4 DEF Records
<1>. HIDE DEF fn
<1>6. lc_tracker' = [records |-> fn, completed_count |-> lc_tracker.completed_count]
  BY <1>1, <1>2
<1>7. Records' = fn
  BY <1>6 DEF Records
<1>. QED
  BY <1>5, <1>6, <1>7

\* A settlement completes the record of its order's signal.
LEMMA CompletedRecords ==
  ASSUME RecordsInv, NEW o \in orders, SettlePosition(o)
  PROVE  /\ lc_tracker' = [records |-> Records', completed_count |->
              lc_tracker.completed_count + (IF OpenOf(lc_tracker, o.signal) = {} THEN 0 ELSE 1)]
         /\ Records' = [i \in DOMAIN Records |->
              IF Records[i].signal_id = o.signal /\ ~Records[i].completed
              THEN [Records[i] EXCEPT !.completed = TRUE, !.state = "SETTLED"]
              ELSE Records[i]]
<1>. DEFINE S == OpenOf(lc_tracker, o.signal)
            fn == [i \in DOMAIN lc_tracker.records |->
                     IF First(S, i)
                     THEN [lc_tracker.records[i] EXCEPT !.completed = TRUE, !.state = "SETTLED"]
                     ELSE lc_tracker.records[i]]
<1>1. lc_tracker' = [records |-> fn, completed_count |->
                       lc_tracker.completed_count + (IF S = {} THEN 0 ELSE 1)]
  BY DEF SettlePosition, lc_on_complete, Rewritten
<1>2. \A i \in DOMAIN Records :
        i \in S <=> Records[i].signal_id = o.signal /\ ~Records[i].completed
  BY DEF OpenOf, OfSignal, Records
<1>3. \A i, j \in S : i = j
  BY DEF RecordsInv, OpenOf, OfSignal, Records
<1>4. S \subseteq Nat
  BY LenProperties DEF RecordsInv, OpenOf, OfSignal, Records
<1>5. \A i \in DOMAIN Records : First(S, i) <=> i \in S
  <2>. HIDE DEF S
  <2>1. ASSUME NEW i, i \in S PROVE First(S, i)
    <3>1. S \subseteq {i} /\ i \in Nat
      BY <1>3, <1>4, <2>1
    <3>. QED
      BY <2>1, <3>1, OnlyFirst
  <2>2. ASSUME NEW i, First(S, i) PROVE i \in S
    BY <2>2 DEF First
  <2>. QED
    BY <2>1, <2>2
<1>6. fn = [i \in DOMAIN Records |->
              IF Records[i].signal_id = o.signal /\ ~Records[i].completed
              THEN [Records[i] EXCEPT !.completed = TRUE, !.state = "SETTLED"]
              ELSE Records[i]]
  <2>. HIDE DEF S
  <2>. QED
    BY <1>2, <1>5, Zenon DEF Records
<1>. HIDE DEF fn
<1>7. Records' = fn
  BY <1>1 DEF Records
<1>. QED
  BY <1>1, <1>6, <1>7

\* A sequence whose elements are replaced is one of the same length.
LEMMA SameLength ==
  ASSUME NEW T, NEW s \in Seq(T), NEW t, t = [i \in DOMAIN s |-> t[i]], \A i \in DOMAIN s : t[i] \in T
  PROVE  t \in Seq(T) /\ Len(t) = Len(s) /\ DOMAIN t = DOMAIN s
<1>1. Len(s) \in Nat /\ DOMAIN s = 1 .. Len(s)
  BY LenProperties
<1>. DEFINE n == Len(s)
<1>2. t \in [1 .. n -> T]
  BY <1>1
<1>. HIDE DEF n
<1>3. t \in Seq(T) /\ Len(t) = n
  BY <1>1, <1>2 DEF n
<1>. QED
  BY <1>1, <1>3, LenProperties DEF n

\* A record stays linked to an order when neither changes who it is.
LEMMA LinkedKept ==
  ASSUME NEW r, NEW q, SameRecord(r, q), NEW o \in DeskOrder, NEW x, Becomes(o, x), Linked(r, o)
  PROVE  Linked(q, x)
<1>1. LegOf(x) = LegOf(o) /\ LegOf(o) \in BOOLEAN
  BY DEF LegOf, Becomes, DeskOrder
<1>2. /\ x.oid = o.oid /\ x.signal = o.signal /\ x.strategy = o.strategy /\ x.is_yes = o.is_yes
      /\ o.is_yes \in BOOLEAN /\ (~o.is_yes) \in BOOLEAN
  BY DEF Becomes, DeskOrder
<1>3. /\ q.signal_id = r.signal_id /\ q.strategy = r.strategy
      /\ \A leg \in BOOLEAN : q.leg[leg].order_id = r.leg[leg].order_id
  BY DEF SameRecord
<1>4. q.leg[LegOf(x)].order_id = r.leg[LegOf(o)].order_id
  BY <1>1, <1>3, Zenon
<1>5. q.leg[~x.is_yes].order_id = r.leg[~o.is_yes].order_id
  BY <1>2, <1>3, Zenon
<1>6. x.signal = q.signal_id =>
        /\ x.strategy = q.strategy
        /\ q.leg[LegOf(x)].order_id = x.oid
        /\ x.strategy = "A" => q.leg[~x.is_yes].order_id # x.oid
  BY <1>2, <1>3, <1>4, <1>5, Zenon DEF Linked
<1>7. \A leg \in BOOLEAN : q.leg[leg].order_id = x.oid => x.signal = q.signal_id
  BY <1>2, <1>3, Zenon DEF Linked
<1>. QED
  BY <1>6, <1>7, Zenon DEF Linked

\* An order left alone becomes itself.
LEMMA BecomesItself == ASSUME NEW o \in DeskOrder PROVE Becomes(o, o)
BY DEF Becomes

\* The orders are those there were, some of them filled or paid since.
SameOrders == \A x \in orders' : \E o \in orders : Becomes(o, x)

\* A step that changes no signal, order number or orders keeps what links them.
LEMMA KeptRecords ==
  ASSUME PlainInv, RecordsInv, PlainInv', LastSignal <= LastSignal', next_oid' = next_oid,
         lc_tracker' = [records |-> Records', completed_count |-> lc_tracker'.completed_count],
         Records' = [i \in DOMAIN Records |-> Records'[i]],
         \A i \in DOMAIN Records : SameRecord(Records[i], Records'[i]),
         SameOrders
  PROVE  RecordsInv'
<1>1. Records \in Seq(LcRecord) /\ Len(Records) <= MaxRecords
  BY DEF RecordsInv
<1>2. \A i \in DOMAIN Records : Records'[i] \in LcRecord
  BY DEF SameRecord
<1>. DEFINE t == Records'
<1>3. t \in Seq(LcRecord) /\ Len(t) = Len(Records) /\ DOMAIN t = DOMAIN Records
  <2>. HIDE DEF t
  <2>1. t = [i \in DOMAIN Records |-> t[i]] /\ \A i \in DOMAIN Records : t[i] \in LcRecord
    BY <1>2 DEF t
  <2>. QED
    BY <1>1, <2>1, SameLength
<1>4. LastSignal \in Nat /\ LastSignal' \in Nat /\ next_oid \in Nat
  BY NextSignal DEF PlainInv, LastSignal
<1>5. ASSUME NEW i \in DOMAIN Records
      PROVE  /\ Records'[i].signal_id <= LastSignal'
             /\ \A leg \in BOOLEAN : Records'[i].leg[leg].order_id < next_oid'
             /\ \A x \in orders' : Linked(Records'[i], x)
  <2>1. Records[i] \in LcRecord /\ SameRecord(Records[i], Records'[i])
    BY <1>1, LenProperties
  <2>2. /\ Records[i].signal_id <= LastSignal /\ Records[i].signal_id \in Nat
        /\ \A leg \in BOOLEAN : Records[i].leg[leg].order_id < next_oid
        /\ \A o \in orders : Linked(Records[i], o)
    BY <2>1 DEF RecordsInv, LcRecord
  <2>3. Records'[i].signal_id <= LastSignal'
    BY <1>4, <2>1, <2>2 DEF SameRecord
  <2>4. \A leg \in BOOLEAN : Records'[i].leg[leg].order_id < next_oid'
    BY <2>1, <2>2 DEF SameRecord
  <2>5. ASSUME NEW x \in orders' PROVE Linked(Records'[i], x)
    <3>1. PICK o \in orders : Becomes(o, x)
      BY <2>5 DEF SameOrders
    <3>2. o \in DeskOrder /\ Linked(Records[i], o)
      BY <2>2 DEF PlainInv
    <3>. QED
      BY <2>1, <3>1, <3>2, LinkedKept
  <2>. QED
    BY <2>3, <2>4, <2>5
<1>6. \A i, j \in DOMAIN Records : Records'[i].signal_id = Records'[j].signal_id => i = j
  BY DEF RecordsInv, SameRecord
<1>. QED
  BY <1>1, <1>3, <1>5, <1>6, Zenon DEF RecordsInv

\* So does a record left alone.
LEMMA RecordItself == ASSUME NEW r \in LcRecord PROVE SameRecord(r, r)
BY DEF SameRecord

\* A record appended for the orders of a new signal.
LEMMA AppendedRecords ==
  ASSUME OrdersPart, RecordsInv, PlainInv', NEW s \in Strategies, NEW N, Turned(s), Sent(s, N),
         LastSignal' = LastSignal + 1, NEW r \in LcRecord, r.signal_id = SignalId(s),
         \A leg \in BOOLEAN : /\ r.leg[leg].order_id < next_oid'
                              /\ r.leg[leg].order_id = 0 \/ next_oid <= r.leg[leg].order_id,
         \A o \in N : Linked(r, o),
         Tracks(lc_tracker, lc_tracker', r)
  PROVE  RecordsInv'
<1>0. PlainInv /\ OrdersSound
  BY DEF OrdersPart
<1>1. /\ Records \in Seq(LcRecord) /\ Len(Records) <= MaxRecords
      /\ lc_tracker = [records |-> Records, completed_count |-> lc_tracker.completed_count]
  BY DEF RecordsInv
<1>. DEFINE n == Len(Records)
<1>2. n \in Nat /\ DOMAIN Records = 1 .. n /\ \A i \in 1 .. n : Records[i] \in LcRecord
  BY <1>1, LenProperties
<1>3. lc_tracker' = [records |-> Records', completed_count |-> lc_tracker'.completed_count]
      /\ Records' = IF n >= MaxRecords THEN Records ELSE Append(Records, r)
  BY DEF Tracks, Records
<1>4. /\ LastSignal \in Nat /\ SignalId(s) = LastSignal + 1
      /\ next_oid \in Nat /\ next_oid' \in Nat /\ next_oid <= next_oid'
  BY <1>0, NextSignal DEF Sent, PlainInv, Turned
<1>5. ASSUME NEW i \in DOMAIN Records
      PROVE  /\ Records[i].signal_id <= LastSignal'
             /\ \A leg \in BOOLEAN : Records[i].leg[leg].order_id < next_oid'
             /\ \A x \in orders' : Linked(Records[i], x)
             /\ Records[i].signal_id # r.signal_id
  <2>1. /\ Records[i].signal_id <= LastSignal /\ Records[i].signal_id \in Nat
        /\ \A leg \in BOOLEAN : Records[i].leg[leg].order_id < next_oid
                                /\ Records[i].leg[leg].order_id \in Nat
        /\ \A o \in orders : Linked(Records[i], o)
    <3>1. Records[i] \in LcRecord
      BY <1>2
    <3>2. \A leg \in BOOLEAN : Records[i].leg[leg].order_id \in Nat
      BY <3>1 DEF LcRecord, LcLeg
    <3>3. Records[i].signal_id \in Nat
      BY <3>1 DEF LcRecord
    <3>. QED
      BY <3>2, <3>3 DEF RecordsInv
  <2>2. ASSUME NEW o \in N PROVE Linked(Records[i], o)
    <3>1. o.signal = LastSignal + 1 /\ next_oid <= o.oid /\ o.oid \in Nat
      BY <1>4 DEF Sent, DeskOrder
    <3>2. o.signal # Records[i].signal_id
      BY <1>4, <2>1, <3>1
    <3>3. \A leg \in BOOLEAN : Records[i].leg[leg].order_id # o.oid
      BY <1>4, <2>1, <3>1
    <3>. QED
      BY <3>2, <3>3, Zenon DEF Linked
  <2>3. \A leg \in BOOLEAN : Records[i].leg[leg].order_id < next_oid'
    BY <1>4, <2>1
  <2>4. Records[i].signal_id <= LastSignal' /\ Records[i].signal_id # r.signal_id
    BY <1>4, <2>1
  <2>. QED
    BY <2>1, <2>2, <2>3, <2>4 DEF Sent
<1>6. CASE n >= MaxRecords
  <2>1. Records' = Records
    BY <1>3, <1>6
  <2>. QED
    BY <1>1, <1>3, <1>5, <2>1, Zenon DEF RecordsInv
<1>7. CASE ~ n >= MaxRecords
  <2>. DEFINE t == Append(Records, r)
  <2>1. /\ t \in Seq(LcRecord) /\ Len(t) = n + 1
        /\ \A i \in 1 .. n : t[i] = Records[i]
        /\ t[n + 1] = r
    BY <1>1, AppendProperties
  <2>2. DOMAIN t = 1 .. n + 1
    BY <2>1, LenProperties
  <2>3. Records' = t
    BY <1>3, <1>7
  <2>4. \A i \in 1 .. n + 1 : i = n + 1 \/ i \in 1 .. n
    BY <1>2
  <2>5. n + 1 <= MaxRecords
    BY <1>2, <1>7, LifecycleAssumption
  <2>. HIDE DEF t
  <2>6. ASSUME NEW o \in orders PROVE Linked(r, o)
    <3>1. o.signal <= LastSignal /\ o.signal \in Nat /\ 0 < o.oid /\ o.oid < next_oid /\ o.oid \in Nat
      BY <1>0 DEF OrdersSound, SoundOrder, PlainInv, DeskOrder
    <3>2. o.signal # r.signal_id
      BY <1>4, <3>1
    <3>3. \A leg \in BOOLEAN : r.leg[leg].order_id \in Nat
      BY DEF LcRecord, LcLeg
    <3>4. \A leg \in BOOLEAN : r.leg[leg].order_id # o.oid
      BY <1>4, <3>1, <3>3
    <3>. QED
      BY <3>2, <3>4, Zenon DEF Linked
  <2>7. \A i \in DOMAIN t : /\ t[i].signal_id <= LastSignal'
                            /\ \A leg \in BOOLEAN : t[i].leg[leg].order_id < next_oid'
                            /\ \A x \in orders' : Linked(t[i], x)
    <3>1. r.signal_id <= LastSignal'
      BY <1>4
    <3>2. \A x \in orders' : Linked(r, x)
      BY <2>6 DEF Sent
    <3>. QED
      BY <1>2, <1>5, <2>1, <2>2, <2>4, <3>1, <3>2
  <2>8. \A i, j \in DOMAIN t : t[i].signal_id = t[j].signal_id => i = j
    <3>1. \A i, j \in 1 .. n : Records[i].signal_id = Records[j].signal_id => i = j
      BY <1>2 DEF RecordsInv
    <3>2. \A i \in 1 .. n : Records[i].signal_id # r.signal_id
      BY <1>2, <1>5
    <3>. QED
      BY <2>1, <2>2, <2>4, <3>1, <3>2
  <2>. QED
    BY <1>3, <2>1, <2>3, <2>5, <2>7, <2>8 DEF RecordsInv
<1>. QED
  BY <1>6, <1>7

\* r is tracked for the orders sent.
NewlyTracked(s, N, r) ==
  /\ r \in LcRecord /\ r.signal_id = SignalId(s) /\ r.strategy = s /\ ~r.completed
  /\ \A leg \in BOOLEAN : /\ r.leg[leg].filled = 0
                          /\ r.leg[leg].order_id < next_oid'
                          /\ r.leg[leg].order_id = 0 \/ next_oid <= r.leg[leg].order_id
  /\ \A o \in N : Linked(r, o)
  /\ Tracks(lc_tracker, lc_tracker', r)

\* The fields of a fresh record.
LEMMA FreshFields ==
  ASSUME NEW signal, NEW s, NEW size, NEW yes, NEW no
  PROVE  LET r == FreshRecord(signal, s, size, yes, no)
         IN  /\ r.signal_id = signal /\ r.strategy = s /\ ~r.completed
             /\ \A leg \in BOOLEAN : r.leg[leg] = FreshLeg(s, size, leg, IF leg THEN yes ELSE no)
BY DEF FreshRecord

\* The record of the orders sent, or of none, knows which leg each of them is.
LEMMA FreshTracked ==
  ASSUME PlainInv, RecordsInv, NEW s \in Strategies, NEW size \in Nat,
         NEW yes \in Nat, NEW no \in Nat, NEW N, next_oid' \in Nat,
         Tracks(lc_tracker, lc_tracker', FreshRecord(SignalId(s), s, size, yes, no)),
         yes = 0 \/ (next_oid <= yes /\ yes < next_oid'),
         no = 0 \/ (next_oid <= no /\ no < next_oid'), next_oid <= next_oid',
         \A o \in N : IsLeg(o, IF LegOf(o) THEN yes ELSE no, o.is_yes, s),
         s = "A" /\ N # {} => yes # no
  PROVE  NewlyTracked(s, N, FreshRecord(SignalId(s), s, size, yes, no))
<1>. DEFINE r == FreshRecord(SignalId(s), s, size, yes, no)
<1>1. SignalId(s) \in Nat /\ next_oid \in Nat \ {0}
  BY DEF SignalId, PlainInv
<1>2. r \in LcRecord
  BY <1>1, FreshRecordType
<1>3. r.signal_id = SignalId(s) /\ r.strategy = s /\ ~r.completed
  BY FreshFields
<1>4. /\ r.leg[TRUE].order_id = yes
      /\ r.leg[FALSE].order_id = IF s = "A" THEN no ELSE 0
      /\ \A leg \in BOOLEAN : r.leg[leg].filled = 0
  <2>1. r.leg[TRUE] = FreshLeg(s, size, TRUE, yes) /\ r.leg[FALSE] = FreshLeg(s, size, FALSE, no)
    BY DEF FreshRecord
  <2>2. \A leg \in BOOLEAN : r.leg[leg] = FreshLeg(s, size, leg, IF leg THEN yes ELSE no)
    BY DEF FreshRecord
  <2>. HIDE DEF r
  <2>3. r.leg[TRUE].order_id = yes
    BY <2>1 DEF FreshLeg
  <2>4. r.leg[FALSE].order_id = IF s = "A" THEN no ELSE 0
    BY <2>1 DEF FreshLeg
  <2>5. ASSUME NEW leg \in BOOLEAN PROVE r.leg[leg].filled = 0
    <3>. DEFINE id == IF leg THEN yes ELSE no
    <3>1. r.leg[leg] = FreshLeg(s, size, leg, id)
      BY <2>2
    <3>. HIDE DEF id
    <3>. QED
      BY <3>1 DEF FreshLeg
  <2>. QED
    BY <2>3, <2>4, <2>5
<1>5. Tracks(lc_tracker, lc_tracker', r)
  OBVIOUS
<1>. HIDE DEF r
<1>6. \A leg \in BOOLEAN : leg = TRUE \/ leg = FALSE
  OBVIOUS
<1>7. \A leg \in BOOLEAN : r.leg[leg].order_id = yes
                           \/ r.leg[leg].order_id = no \/ r.leg[leg].order_id = 0
  BY <1>4, <1>6, Zenon
<1>8. \A leg \in BOOLEAN : /\ r.leg[leg].order_id < next_oid'
                           /\ r.leg[leg].order_id = 0 \/ next_oid <= r.leg[leg].order_id
  BY <1>1, <1>7
<1>9. ASSUME NEW o \in N PROVE Linked(r, o)
  <2>1. /\ o.signal = r.signal_id /\ o.strategy = s /\ o.is_yes \in BOOLEAN
        /\ o.oid = IF LegOf(o) THEN yes ELSE no
    BY <1>3, <1>9 DEF IsLeg, DeskOrder
  <2>2. CASE s # "A"
    <3>1. LegOf(o) = TRUE
      BY <2>1, <2>2 DEF LegOf
    <3>2. o.oid = yes
      BY <2>1, <3>1
    <3>3. r.leg[LegOf(o)].order_id = o.oid
      BY <1>4, <3>1, <3>2
    <3>. QED
      BY <1>3, <2>1, <2>2, <3>3 DEF Linked
  <2>3. CASE s = "A" /\ o.is_yes
    <3>1. LegOf(o) = TRUE /\ (~o.is_yes) = FALSE
      BY <2>1, <2>3 DEF LegOf
    <3>2. o.oid = yes /\ yes # no
      BY <2>1, <2>3, <3>1, <1>9
    <3>3. r.leg[LegOf(o)].order_id = o.oid
      BY <1>4, <3>1, <3>2
    <3>4. r.leg[~o.is_yes].order_id # o.oid
      BY <1>4, <2>3, <3>1, <3>2
    <3>. QED
      BY <1>3, <2>1, <3>3, <3>4 DEF Linked
  <2>4. CASE s = "A" /\ ~o.is_yes
    <3>1. LegOf(o) = FALSE /\ (~o.is_yes) = TRUE
      BY <2>1, <2>4 DEF LegOf
    <3>2. o.oid = no /\ yes # no
      BY <2>1, <2>4, <3>1, <1>9
    <3>3. r.leg[LegOf(o)].order_id = o.oid
      BY <1>4, <2>4, <3>1, <3>2
    <3>4. r.leg[~o.is_yes].order_id # o.oid
      BY <1>4, <3>1, <3>2
    <3>. QED
      BY <1>3, <2>1, <3>3, <3>4 DEF Linked
  <2>. QED
    BY <2>2, <2>3, <2>4
<1>10. NewlyTracked(s, N, r)
  BY <1>2, <1>3, <1>4, <1>5, <1>8, <1>9 DEF NewlyTracked
<1>. QED
  BY <1>10 DEF r

\* The tracker is one.
LEMMA TrackerType == ASSUME RecordsInv, lc_tracker.completed_count \in Nat PROVE lc_tracker \in Tracker
BY DEF RecordsInv, Tracker, Records

\* No record is of the signal about to be given.
LEMMA NoRecordYet ==
  ASSUME PlainInv, RecordsInv, NEW s \in Strategies, Turn(s)
  PROVE  \A i \in DOMAIN lc_tracker.records : lc_tracker.records[i].signal_id # SignalId(s)
<1>1. LastSignal \in Nat /\ SignalId(s) = LastSignal + 1
  BY NextSignal
<1>2. ASSUME NEW i \in DOMAIN Records PROVE Records[i].signal_id # SignalId(s)
  <2>0. Records[i] \in LcRecord
    BY LenProperties DEF RecordsInv
  <2>1. Records[i].signal_id \in Nat
    BY <2>0 DEF LcRecord
  <2>2. Records[i].signal_id <= LastSignal
    BY DEF RecordsInv
  <2>. QED
    BY <1>1, <2>1, <2>2
<1>. QED
  BY <1>2 DEF Records

\* Every signal is tracked, while there is room.
LEMMA SignalTracks ==
  ASSUME RiskInv, PlainInv, RecordsInv, lc_tracker.completed_count \in Nat,
         NEW s \in Strategies, Turn(s), NEW size \in Sizes
  PROVE  /\ SignalOnly(s, size) => \E r : NewlyTracked(s, {}, r)
         /\ s = "A" /\ OrderPair(size) => \E r : NewlyTracked(s,
              {Leg(size, TRUE, next_oid, "A"), Leg(size, FALSE, next_oid + 1, "A")}, r)
         /\ \A is_yes \in BOOLEAN : s = "B" /\ OrderToken(size, is_yes) =>
              \E r : NewlyTracked(s, {Leg(size, is_yes, next_oid, "B")}, r)
<1>1. lc_tracker \in Tracker /\ size \in Nat /\ SignalId(s) \in Nat /\ next_oid \in Nat
      /\ next_oid # 0
  BY TrackerType, TradingAssumption DEF SignalId, PlainInv
<1>2. \A i \in DOMAIN lc_tracker.records : lc_tracker.records[i].signal_id # SignalId(s)
  BY NoRecordYet
<1>3. ASSUME SignalOnly(s, size) PROVE \E r : NewlyTracked(s, {}, r)
  <2>1. Tracks(lc_tracker, lc_tracker', FreshRecord(SignalId(s), s, size, 0, 0)) /\ next_oid' = next_oid
    BY <1>1, <1>3, SignalTracked DEF SignalOnly
  <2>2. NewlyTracked(s, {}, FreshRecord(SignalId(s), s, size, 0, 0))
    BY <1>1, <2>1, FreshTracked
  <2>. QED
    BY <2>2, Zenon
<1>4. ASSUME s = "A", OrderPair(size)
      PROVE  \E r : NewlyTracked(s,
               {Leg(size, TRUE, next_oid, "A"), Leg(size, FALSE, next_oid + 1, "A")}, r)
  <2>. DEFINE oid == [leg \in BOOLEAN |-> IF leg THEN next_oid ELSE next_oid + 1]
              a == Leg(size, TRUE, next_oid, "A")
              b == Leg(size, FALSE, next_oid + 1, "A")
  <2>1. oid \in [BOOLEAN -> Nat] /\ oid[TRUE] = next_oid /\ oid[FALSE] = next_oid + 1
    BY <1>1
  <2>2. lc_tracker' = lc_on_orders(lc_on_signal(lc_tracker, SignalId(s), s, size), SignalId(s), oid)
        /\ next_oid' = next_oid + 2 /\ Approved("A", size)
    BY <1>4 DEF OrderPair
  <2>. HIDE DEF oid
  <2>3. Tracks(lc_tracker, lc_tracker', FreshRecord(SignalId(s), s, size, oid[TRUE], oid[FALSE]))
    BY <1>1, <1>2, <2>1, <2>2, OrdersTracked
  <2>4. next_oid + 1 \in Nat /\ "A" \in Strategies /\ TRUE \in BOOLEAN /\ FALSE \in BOOLEAN
    BY <1>1 DEF Strategies
  <2>5. IsLeg(a, next_oid, TRUE, "A") /\ IsLeg(b, next_oid + 1, FALSE, "A")
    BY <1>1, <2>2, <2>4, LegSubmitted, Zenon
  <2>. HIDE DEF a, b
  <2>6. a.is_yes = TRUE /\ b.is_yes = FALSE /\ LegOf(a) = TRUE /\ LegOf(b) = FALSE
    BY <2>5 DEF IsLeg, LegOf
  <2>7. /\ IsLeg(a, IF LegOf(a) THEN next_oid ELSE next_oid + 1, a.is_yes, s)
        /\ IsLeg(b, IF LegOf(b) THEN next_oid ELSE next_oid + 1, b.is_yes, s)
    BY <1>4, <2>5, <2>6, Zenon
  <2>8. \A o \in {a, b} : IsLeg(o, IF LegOf(o) THEN next_oid ELSE next_oid + 1, o.is_yes, s)
    BY <2>7, Zenon
  <2>9. /\ Tracks(lc_tracker, lc_tracker', FreshRecord(SignalId(s), s, size, next_oid, next_oid + 1))
        /\ next_oid + 1 \in Nat /\ next_oid' \in Nat /\ next_oid <= next_oid'
        /\ next_oid <= next_oid /\ next_oid < next_oid'
        /\ next_oid <= next_oid + 1 /\ next_oid + 1 < next_oid'
        /\ next_oid # next_oid + 1
    BY <1>1, <2>1, <2>2, <2>3
  <2>10. NewlyTracked(s, {a, b}, FreshRecord(SignalId(s), s, size, next_oid, next_oid + 1))
    BY <1>1, <2>8, <2>9, FreshTracked
  <2>. QED
    BY <2>10, Zenon DEF a, b
<1>5. ASSUME NEW is_yes \in BOOLEAN, s = "B", OrderToken(size, is_yes)
      PROVE  \E r : NewlyTracked(s, {Leg(size, is_yes, next_oid, "B")}, r)
  <2>. DEFINE oid == [leg \in BOOLEAN |-> next_oid]
              a == Leg(size, is_yes, next_oid, "B")
  <2>1. oid \in [BOOLEAN -> Nat] /\ oid[TRUE] = next_oid /\ oid[FALSE] = next_oid
    BY <1>1
  <2>2. lc_tracker' = lc_on_orders(lc_on_signal(lc_tracker, SignalId(s), s, size), SignalId(s), oid)
        /\ next_oid' = next_oid + 1 /\ Approved("B", size)
    BY <1>5 DEF OrderToken
  <2>. HIDE DEF oid
  <2>3. Tracks(lc_tracker, lc_tracker', FreshRecord(SignalId(s), s, size, oid[TRUE], oid[FALSE]))
    BY <1>1, <1>2, <2>1, <2>2, OrdersTracked
  <2>4. IsLeg(a, next_oid, is_yes, s)
    BY <1>1, <1>5, <2>2, LegSubmitted
  <2>. HIDE DEF a
  <2>5. a.is_yes = is_yes /\ (IF LegOf(a) THEN next_oid ELSE next_oid) = next_oid
    BY <2>4 DEF IsLeg
  <2>6. \A o \in {a} : IsLeg(o, IF LegOf(o) THEN next_oid ELSE next_oid, o.is_yes, s)
    BY <2>4, <2>5, Zenon
  <2>7. /\ Tracks(lc_tracker, lc_tracker', FreshRecord(SignalId(s), s, size, next_oid, next_oid))
        /\ next_oid' \in Nat /\ next_oid <= next_oid'
        /\ next_oid <= next_oid /\ next_oid < next_oid' /\ s # "A"
    BY <1>1, <1>5, <2>1, <2>2, <2>3
  <2>8. NewlyTracked(s, {a}, FreshRecord(SignalId(s), s, size, next_oid, next_oid))
    BY <1>1, <2>6, <2>7, FreshTracked
  <2>. QED
    BY <2>8, Zenon DEF a
<1>. QED
  BY <1>3, <1>4, <1>5

-----------------------------------------------------------------------------
(***************************************************************************)
(* The records: what has been filled and settled.                          *)
(***************************************************************************)

\* The orders a leg of a record stands for, and what each has filled.
LegOrders(O, r, leg) ==
  {o \in O : o.signal = r.signal_id /\ (r.strategy = "A" => o.is_yes = leg)
                  /\ (r.strategy = "B" => leg)}

\* What is filled of each order.
FilledBy(O) == [o \in O |-> o.filled]

\* A record has filled in each leg what its orders have.
TracedIn(O, r) ==
  \A leg \in BOOLEAN : r.leg[leg].filled = SumFunctionOnSet(FilledBy(O), LegOrders(O, r, leg))

\* That is what FillsTraced says of all records, before and after a step.
LEMMA TracedMeans ==
  /\ FillsTraced <=> \A i \in DOMAIN Records : TracedIn(orders, Records[i])
  /\ FillsTraced' <=> \A i \in DOMAIN Records' : TracedIn(orders', Records'[i])
BY DEF FillsTraced, TracedIn, Records, LegOrders, FilledBy

\* A record is completed once an order of its signal is paid.
PaidIn(O, signal) == \E o \in O : o.signal = signal /\ o.paid > 0

\* The records completed.
Done == {i \in DOMAIN Records : Records[i].completed}

\* The records completed are those with an order paid, and they are counted.
DoneInv ==
  /\ \A i \in DOMAIN Records : Records[i].completed <=> PaidIn(orders, Records[i].signal_id)
  /\ lc_tracker.completed_count \in Nat
  /\ lc_tracker.completed_count = Cardinality(Done)

\* That is what CompletedOnSettlement says.
LEMMA DoneMeans == DoneInv => CompletedOnSettlement
BY DEF DoneInv, CompletedOnSettlement, Done, Records, PaidIn

\* They are finitely many.
LEMMA DoneFinite == ASSUME RecordsInv PROVE IsFiniteSet(Done) /\ IsFiniteSet(DOMAIN Records)
<1>1. Len(Records) \in Nat /\ DOMAIN Records = 1 .. Len(Records)
  BY LenProperties DEF RecordsInv
<1>2. IsFiniteSet(1 .. Len(Records))
  BY <1>1, FS_Interval
<1>. QED
  BY <1>1, <1>2, FS_Subset DEF Done

\* The orders of a leg are finitely many, each filled by a number.
LEMMA LegOrdersFinite ==
  ASSUME PlainInv, NEW r, NEW leg
  PROVE  /\ IsFiniteSet(LegOrders(orders, r, leg)) /\ LegOrders(orders, r, leg) \subseteq orders
         /\ \A o \in orders : FilledBy(orders)[o] = o.filled /\ FilledBy(orders)[o] \in Nat
BY FS_Subset DEF LegOrders, FilledBy, PlainInv, DeskOrder

\* Which leg's orders an order is among.
LEMMA AmongLeg ==
  ASSUME NEW r \in LcRecord, NEW o \in DeskOrder, o.signal = r.signal_id, o.strategy = r.strategy,
         NEW leg \in BOOLEAN
  PROVE  (r.strategy = "A" => o.is_yes = leg) /\ (r.strategy = "B" => leg) <=> leg = LegOf(o)
<1>1. o.is_yes \in BOOLEAN /\ r.strategy \in {"A", "B"}
  BY DEF DeskOrder, LcRecord
<1>2. CASE r.strategy = "A"
  BY <1>1, <1>2 DEF LegOf
<1>3. CASE r.strategy = "B"
  <2>1. LegOf(o) = TRUE
    BY <1>3 DEF LegOf
  <2>. QED
    BY <1>1, <1>3, <2>1
<1>. QED
  BY <1>1, <1>2, <1>3

\* An order replaced changes the sum of its leg only.
LEMMA ReplacedLeg ==
  ASSUME PlainInv, PlainInv', OrdersSound, NEW o \in orders, NEW x, Becomes(o, x), Replaces(o, x),
         NEW r \in LcRecord, Linked(r, o), NEW leg \in BOOLEAN
  PROVE  SumFunctionOnSet(FilledBy(orders'), LegOrders(orders', r, leg)) =
           SumFunctionOnSet(FilledBy(orders), LegOrders(orders, r, leg))
             + (IF o.signal = r.signal_id /\ leg = LegOf(o) THEN x.filled - o.filled ELSE 0)
<1>. DEFINE S == LegOrders(orders, r, leg)
            T == LegOrders(orders', r, leg)
            f == FilledBy(orders)
            g == FilledBy(orders')
            In(y) == y.signal = r.signal_id /\ (r.strategy = "A" => y.is_yes = leg)
                     /\ (r.strategy = "B" => leg)
<1>2. /\ S = {y \in orders : In(y)} /\ T = {y \in orders' : In(y)}
      /\ orders' = (orders \ {o}) \cup {x}
  BY DEF LegOrders, Replaces
<1>3. /\ IsFiniteSet(S) /\ \A y \in S : f[y] \in Int
      /\ \A y \in orders : f[y] = y.filled
      /\ \A y \in orders' : g[y] = y.filled /\ g[y] \in Int
  BY LegOrdersFinite DEF FilledBy, PlainInv, DeskOrder
<1>4. In(x) <=> In(o)
  BY DEF Becomes
<1>5. o \in DeskOrder /\ x \in DeskOrder /\ x.filled \in Int /\ o.filled \in Int
  BY DEF PlainInv, Becomes, DeskOrder
<1>6. In(o) <=> o.signal = r.signal_id /\ leg = LegOf(o)
  BY <1>5, AmongLeg DEF Linked
<1>. HIDE DEF S, T, f, g, In
<1>7. CASE ~In(o)
  <2>1. T = S
    BY <1>2, <1>4, <1>7
  <2>2. \A y \in S : f[y] \in Int /\ g[y] = f[y]
    BY <1>2, <1>3, <1>7
  <2>3. SumFunctionOnSet(g, S) = SumFunctionOnSet(f, S) /\ SumFunctionOnSet(f, S) \in Int
    BY <1>3, <2>2, SumCongruent, SumType
  <2>4. SumFunctionOnSet(g, T) = SumFunctionOnSet(f, S) + 0
    BY <2>1, <2>3
  <2>. QED
    BY <1>6, <1>7, <2>4 DEF f, g, S, T
<1>8. CASE In(o)
  <2>1. o \in S /\ T = (S \ {o}) \cup {x}
    BY <1>2, <1>4, <1>8
  <2>2. x \notin S \ {o}
    BY <1>2 DEF OrdersSound, Becomes
  <2>3. \A y \in S \ {o} : g[y] = f[y]
    BY <1>2, <1>3
  <2>4. g[x] = x.filled /\ g[x] \in Int /\ f[o] = o.filled
    BY <1>2, <1>3
  <2>5. SumFunctionOnSet(g, (S \ {o}) \cup {x}) = SumFunctionOnSet(f, S) - f[o] + g[x]
    <3>. DEFINE R == S \ {o}
    <3>1. /\ S = R \cup {o} /\ o \notin R /\ x \notin R /\ IsFiniteSet(R)
          /\ (\A y \in R : f[y] \in Int) /\ (\A y \in R : g[y] = f[y])
          /\ f[o] \in Int /\ g[x] \in Int
      BY <1>3, <2>1, <2>2, <2>3, <2>4, FS_RemoveElement
    <3>. HIDE DEF R
    <3>2. SumFunctionOnSet(f, R \cup {o}) = f[o] + SumFunctionOnSet(f, R)
      BY <3>1, SumAdd
    <3>3. SumFunctionOnSet(g, R) = SumFunctionOnSet(f, R)
      BY <3>1, SumCongruent
    <3>4. SumFunctionOnSet(g, R \cup {x}) = g[x] + SumFunctionOnSet(g, R)
      BY <3>1, SumAdd
    <3>5. SumFunctionOnSet(f, R) \in Int
      BY <3>1, SumType
    <3>6. SumFunctionOnSet(g, R \cup {x}) = SumFunctionOnSet(f, R \cup {o}) - f[o] + g[x]
      BY <3>1, <3>2, <3>3, <3>4, <3>5
    <3>. QED
      BY <3>1, <3>6, Zenon DEF R
  <2>6. SumFunctionOnSet(f, S) \in Int
    BY <1>3, SumType
  <2>7. SumFunctionOnSet(g, T) = SumFunctionOnSet(f, S) + (x.filled - o.filled)
    BY <1>5, <2>1, <2>4, <2>5, <2>6
  <2>. QED
    BY <1>6, <1>8, <2>7 DEF f, g, S, T
<1>. QED
  BY <1>7, <1>8

\* All that is known of the records.
RecordsPart == RecordsInv /\ FillsTraced /\ DoneInv

\* The done records after a step that completes none.
LEMMA SameDone ==
  ASSUME DoneInv, Records' = [i \in DOMAIN Records |-> Records'[i]],
         \A i \in DOMAIN Records : /\ Records'[i].signal_id = Records[i].signal_id
                                   /\ Records'[i].completed = Records[i].completed,
         \A i \in DOMAIN Records :
           PaidIn(orders', Records[i].signal_id) <=> PaidIn(orders, Records[i].signal_id),
         lc_tracker'.completed_count = lc_tracker.completed_count
  PROVE  DoneInv'
<1>1. DOMAIN Records' = DOMAIN Records
  BY DEF DoneInv
<1>2. Done' = Done
  BY <1>1 DEF Done
<1>3. ASSUME NEW i \in DOMAIN Records
      PROVE  Records'[i].completed <=> PaidIn(orders', Records'[i].signal_id)
  BY <1>3 DEF DoneInv
<1>. QED
  BY <1>1, <1>2, <1>3 DEF DoneInv

\* A fill is traced to the leg of its order.
LEMMA FilledRecords ==
  ASSUME OrdersPart, RecordsPart, NEW o \in orders, NEW n \in 1 .. o.size, Fill(o, n), pc # "settle"
  PROVE  RecordsPart'
<1>0. /\ PlainInv /\ OrdersSound /\ RecordsInv /\ DoneInv /\ o \in DeskOrder /\ n \in Nat
      /\ \A i \in DOMAIN Records : TracedIn(orders, Records[i])
  BY TracedMeans DEF OrdersPart, RecordsPart, PlainInv
<1>. DEFINE x == [o EXCEPT !.filled = @ + n]
<1>1. PlainInv' /\ OrdersSound' /\ LastSignal' = LastSignal
  BY FilledOrders DEF OrdersPart
<1>2. n <= o.size - o.filled /\ orders' = (orders \ {o}) \cup {x} /\ next_oid' = next_oid
  BY DEF Fill
<1>3. Becomes(o, x) /\ x.filled = o.filled + n /\ x.paid = o.paid
  BY <1>0, <1>2, FillBecomes
<1>4. Replaces(o, x)
  BY <1>2 DEF Replaces
<1>. HIDE DEF x
<1>. DEFINE New(i) == WithFill(Records[i], o.oid, o.is_yes, n)
<1>5. /\ lc_tracker' = [records |-> Records', completed_count |-> lc_tracker.completed_count]
      /\ Records' = [i \in DOMAIN Records |->
           IF Records[i].signal_id = o.signal THEN New(i) ELSE Records[i]]
  BY <1>0, CreditedRecords
<1>6. ASSUME NEW i \in DOMAIN Records
      PROVE  /\ Records[i] \in LcRecord /\ Linked(Records[i], o)
             /\ Records'[i] = IF Records[i].signal_id = o.signal THEN New(i) ELSE Records[i]
  BY <1>0, <1>5, LenProperties DEF RecordsInv
<1>7. ASSUME NEW i \in DOMAIN Records
      PROVE  /\ SameRecord(Records[i], Records'[i])
             /\ Records'[i].completed = Records[i].completed
             /\ \A leg \in BOOLEAN : Records'[i].leg[leg].filled = Records[i].leg[leg].filled
                  + (IF o.signal = Records[i].signal_id /\ leg = LegOf(o) THEN x.filled - o.filled ELSE 0)
  <2>1. \A leg \in BOOLEAN : Records[i].leg[leg].filled \in Nat
    BY <1>6 DEF LcRecord, LcLeg
  <2>2. o.filled \in Nat
    BY <1>0 DEF DeskOrder
  <2>3. CASE Records[i].signal_id = o.signal
    <3>1. /\ SameRecord(Records[i], New(i)) /\ New(i).completed = Records[i].completed
          /\ \A leg \in BOOLEAN : New(i).leg[leg].filled =
               IF leg = LegOfFill(Records[i], o.oid, o.is_yes) THEN Records[i].leg[leg].filled + n
               ELSE Records[i].leg[leg].filled
      BY <1>0, <1>6, CreditedRecord
    <3>2. o.oid > 0
      BY <1>0 DEF OrdersSound, SoundOrder, DeskOrder
    <3>3. LegOfFill(Records[i], o.oid, o.is_yes) = LegOf(o)
      BY <1>0, <1>6, <2>3, <3>2, CreditedLeg
    <3>4. Records'[i] = New(i)
      BY <1>6, <2>3
    <3>. HIDE DEF New
    <3>. QED
      BY <1>0, <1>3, <2>1, <2>2, <2>3, <3>1, <3>3, <3>4
  <2>4. CASE Records[i].signal_id # o.signal
    <3>1. Records'[i] = Records[i]
      BY <1>6, <2>4
    <3>. QED
      BY <1>6, <2>1, <2>4, <3>1, RecordItself
  <2>. QED
    BY <2>3, <2>4
<1>8. Records' = [i \in DOMAIN Records |-> Records'[i]]
  BY <1>5
<1>9. SameOrders
  BY <1>0, <1>2, <1>3, BecomesItself DEF SameOrders, PlainInv
<1>10. LastSignal <= LastSignal'
  BY <1>0, <1>1, NextSignal
<1>11. lc_tracker' = [records |-> Records', completed_count |-> lc_tracker'.completed_count]
       /\ lc_tracker'.completed_count = lc_tracker.completed_count
  BY <1>5
<1>12. RecordsInv'
  BY <1>0, <1>1, <1>2, <1>7, <1>8, <1>9, <1>10, <1>11, KeptRecords
<1>13. ASSUME NEW i \in DOMAIN Records PROVE TracedIn(orders', Records'[i])
  <2>. DEFINE r == Records[i]
              q == Records'[i]
  <2>1. r \in LcRecord /\ Linked(r, o) /\ q.signal_id = r.signal_id /\ q.strategy = r.strategy
    BY <1>6, <1>7 DEF SameRecord
  <2>2. \A leg \in BOOLEAN : q.leg[leg].filled = r.leg[leg].filled
          + (IF o.signal = r.signal_id /\ leg = LegOf(o) THEN x.filled - o.filled ELSE 0)
    BY <1>7
  <2>3. \A leg \in BOOLEAN : r.leg[leg].filled = SumFunctionOnSet(FilledBy(orders), LegOrders(orders, r, leg))
    BY <1>0 DEF TracedIn
  <2>. HIDE DEF r, q
  <2>4. ASSUME NEW leg \in BOOLEAN
        PROVE  q.leg[leg].filled = SumFunctionOnSet(FilledBy(orders'), LegOrders(orders', q, leg))
    <3>1. SumFunctionOnSet(FilledBy(orders'), LegOrders(orders', r, leg)) =
            SumFunctionOnSet(FilledBy(orders), LegOrders(orders, r, leg))
              + (IF o.signal = r.signal_id /\ leg = LegOf(o) THEN x.filled - o.filled ELSE 0)
      BY <1>0, <1>1, <1>3, <1>4, <2>1, ReplacedLeg
    <3>2. LegOrders(orders', q, leg) = LegOrders(orders', r, leg)
      BY <2>1 DEF LegOrders
    <3>. QED
      BY <2>2, <2>3, <3>1, <3>2
  <2>. QED
    BY <2>4 DEF TracedIn, q
<1>14. FillsTraced'
  <2>1. DOMAIN Records' = DOMAIN Records
    BY <1>8
  <2>. QED
    BY <1>13, <2>1, TracedMeans
<1>15. DoneInv'
  <2>1. \A signal : PaidIn(orders', signal) <=> PaidIn(orders, signal)
    BY <1>2, <1>3 DEF PaidIn, Becomes
  <2>. QED
    BY <1>0, <1>7, <1>8, <1>11, <2>1, SameDone DEF SameRecord
<1>. QED
  BY <1>12, <1>14, <1>15 DEF RecordsPart

\* A settlement completes the record of its order, once.
LEMMA SettledRecords ==
  ASSUME OrdersPart, RecordsPart, NEW o \in orders, SettlePosition(o)
  PROVE  RecordsPart'
<1>0. /\ PlainInv /\ OrdersSound /\ RecordsInv /\ DoneInv /\ o \in DeskOrder
      /\ \A i \in DOMAIN Records : TracedIn(orders, Records[i])
  BY TracedMeans DEF OrdersPart, RecordsPart, PlainInv
<1>. DEFINE x == [o EXCEPT !.paid = o.filled]
            Open == OpenOf(lc_tracker, o.signal)
            New(r) == [r EXCEPT !.completed = TRUE, !.state = "SETTLED"]
<1>1. PlainInv' /\ OrdersSound' /\ LastSignal' = LastSignal
  BY SettledOrders DEF OrdersPart
<1>2. orders' = (orders \ {o}) \cup {x} /\ next_oid' = next_oid /\ o \in settling.left
  BY DEF SettlePosition
<1>3. Becomes(o, x) /\ x.filled = o.filled /\ x.paid = o.filled
  BY <1>0, SettleBecomes
<1>4. Replaces(o, x) /\ x.paid > 0 /\ o.paid = 0
  BY <1>2, <1>3 DEF Replaces, OrdersPart, SettlingInv
<1>. HIDE DEF x
<1>5. /\ lc_tracker' = [records |-> Records', completed_count |->
           lc_tracker.completed_count + (IF Open = {} THEN 0 ELSE 1)]
      /\ Records' = [i \in DOMAIN Records |->
           IF Records[i].signal_id = o.signal /\ ~Records[i].completed THEN New(Records[i])
           ELSE Records[i]]
  BY <1>0, CompletedRecords
<1>6. ASSUME NEW i \in DOMAIN Records
      PROVE  /\ Records[i] \in LcRecord /\ Linked(Records[i], o)
             /\ Records'[i] = IF Records[i].signal_id = o.signal /\ ~Records[i].completed
                              THEN New(Records[i]) ELSE Records[i]
  BY <1>0, <1>5, LenProperties DEF RecordsInv
<1>7. ASSUME NEW r \in LcRecord
      PROVE  SameRecord(r, New(r)) /\ New(r).leg = r.leg /\ New(r).completed = TRUE
  BY DEF SameRecord, LcRecord, LcStates
<1>. HIDE DEF New
<1>8. ASSUME NEW i \in DOMAIN Records
      PROVE  /\ SameRecord(Records[i], Records'[i]) /\ Records'[i].leg = Records[i].leg
             /\ Records'[i].completed <=> Records[i].completed \/ Records[i].signal_id = o.signal
  <2>1. CASE Records[i].signal_id = o.signal /\ ~Records[i].completed
    BY <1>6, <1>7, <2>1
  <2>2. CASE ~(Records[i].signal_id = o.signal /\ ~Records[i].completed)
    <3>1. Records'[i] = Records[i]
      BY <1>6, <2>2
    <3>. QED
      BY <1>6, <2>2, <3>1, RecordItself
  <2>. QED
    BY <2>1, <2>2
<1>9. Records' = [i \in DOMAIN Records |-> Records'[i]] /\ DOMAIN Records' = DOMAIN Records
  BY <1>5
<1>10. SameOrders
  BY <1>0, <1>2, <1>3, BecomesItself DEF SameOrders, PlainInv
<1>11. LastSignal <= LastSignal'
  BY <1>0, <1>1, NextSignal
<1>12. /\ lc_tracker' = [records |-> Records', completed_count |-> lc_tracker'.completed_count]
       /\ lc_tracker'.completed_count = lc_tracker.completed_count + (IF Open = {} THEN 0 ELSE 1)
  BY <1>5
<1>13. RecordsInv'
  BY <1>0, <1>1, <1>2, <1>8, <1>9, <1>10, <1>11, <1>12, KeptRecords
<1>14. ASSUME NEW i \in DOMAIN Records PROVE TracedIn(orders', Records'[i])
  <2>. DEFINE r == Records[i]
              q == Records'[i]
  <2>1. /\ r \in LcRecord /\ Linked(r, o) /\ q.signal_id = r.signal_id
        /\ q.strategy = r.strategy /\ q.leg = r.leg
    BY <1>6, <1>8 DEF SameRecord
  <2>2. \A leg \in BOOLEAN : r.leg[leg].filled = SumFunctionOnSet(FilledBy(orders), LegOrders(orders, r, leg))
    BY <1>0 DEF TracedIn
  <2>3. \A leg \in BOOLEAN : r.leg[leg].filled \in Nat
    BY <2>1 DEF LcRecord, LcLeg
  <2>. HIDE DEF r, q
  <2>4. ASSUME NEW leg \in BOOLEAN
        PROVE  q.leg[leg].filled = SumFunctionOnSet(FilledBy(orders'), LegOrders(orders', q, leg))
    <3>1. SumFunctionOnSet(FilledBy(orders'), LegOrders(orders', r, leg)) =
            SumFunctionOnSet(FilledBy(orders), LegOrders(orders, r, leg))
              + (IF o.signal = r.signal_id /\ leg = LegOf(o) THEN x.filled - o.filled ELSE 0)
      BY <1>0, <1>1, <1>3, <1>4, <2>1, ReplacedLeg
    <3>2. LegOrders(orders', q, leg) = LegOrders(orders', r, leg)
      BY <2>1 DEF LegOrders
    <3>3. x.filled - o.filled = 0
      BY <1>0, <1>3 DEF DeskOrder
    <3>. QED
      BY <2>1, <2>2, <2>3, <3>1, <3>2, <3>3
  <2>. QED
    BY <2>4 DEF TracedIn, q
<1>15. FillsTraced'
  BY <1>9, <1>14, TracedMeans
<1>16. \A signal : PaidIn(orders', signal) <=> PaidIn(orders, signal) \/ signal = o.signal
  <2>1. \A signal : PaidIn(orders', signal) => PaidIn(orders, signal) \/ signal = o.signal
    BY <1>2, <1>3 DEF PaidIn, Becomes
  <2>2. \A signal : PaidIn(orders, signal) => PaidIn(orders', signal)
    BY <1>2, <1>4 DEF PaidIn
  <2>3. PaidIn(orders', o.signal)
    BY <1>2, <1>3, <1>4 DEF PaidIn, Becomes
  <2>. QED
    BY <2>1, <2>2, <2>3
<1>17. \A i \in DOMAIN Records' : Records'[i].completed <=> PaidIn(orders', Records'[i].signal_id)
  <2>. TAKE i \in DOMAIN Records'
  <2>1. i \in DOMAIN Records /\ Records'[i].signal_id = Records[i].signal_id
    BY <1>8, <1>9 DEF SameRecord
  <2>2. Records[i].completed <=> PaidIn(orders, Records[i].signal_id)
    BY <1>0, <2>1 DEF DoneInv
  <2>. QED
    BY <1>8, <1>16, <2>1, <2>2
<1>18. /\ lc_tracker'.completed_count \in Nat
       /\ lc_tracker'.completed_count = Cardinality(Done')
  <2>1. /\ \A i : i \in Open <=> /\ i \in DOMAIN Records /\ Records[i].signal_id = o.signal
                                 /\ ~Records[i].completed
        /\ \A i : i \in Done <=> i \in DOMAIN Records /\ Records[i].completed
        /\ \A i : i \in Done' <=> i \in DOMAIN Records' /\ Records'[i].completed
    BY DEF OpenOf, OfSignal, Done, Records
  <2>2. \A i : i \in Done' <=> i \in Done \/ i \in Open
    BY <1>8, <1>9, <2>1
  <2>3. \A i, j \in Open : i = j
    BY <1>0, <2>1 DEF RecordsInv
  <2>4. IsFiniteSet(Done)
    BY <1>0, DoneFinite
  <2>5. lc_tracker.completed_count \in Nat /\ lc_tracker.completed_count = Cardinality(Done)
    BY <1>0 DEF DoneInv
  <2>6. CASE Open = {}
    <3>1. Done' = Done
      BY <2>2, <2>6
    <3>. QED
      BY <1>12, <2>5, <2>6, <3>1
  <2>7. CASE Open # {}
    <3>1. PICK k \in Open : TRUE
      BY <2>7
    <3>2. k \notin Done
      BY <2>1, <3>1
    <3>. HIDE DEF Open
    <3>3. Done' = Done \cup {k}
      BY <2>2, <2>3, <3>1
    <3>4. Cardinality(Done') = Cardinality(Done) + 1
      BY <2>4, <3>2, <3>3, FS_AddElement
    <3>. QED
      BY <1>12, <2>5, <2>7, <3>4
  <2>. QED
    BY <2>6, <2>7
<1>19. DoneInv'
  BY <1>17, <1>18 DEF DoneInv
<1>. QED
  BY <1>13, <1>15, <1>19 DEF RecordsPart

\* Steps that leave the orders and the tracker.
LEMMA UntouchedRecords ==
  ASSUME OrdersPart, RecordsPart, PlainInv', LastSignal <= LastSignal',
         UNCHANGED <<orders, next_oid, lc_tracker>>
  PROVE  RecordsPart'
<1>0. PlainInv /\ RecordsInv /\ FillsTraced /\ DoneInv
  BY DEF OrdersPart, RecordsPart
<1>1. /\ Records' = Records /\ Records \in Seq(LcRecord)
      /\ lc_tracker = [records |-> Records, completed_count |-> lc_tracker.completed_count]
  BY <1>0 DEF Records, RecordsInv
<1>2. Records' = [i \in DOMAIN Records |-> Records'[i]]
  BY <1>1, LenProperties
<1>3. \A i \in DOMAIN Records : SameRecord(Records[i], Records'[i])
  BY <1>1, LenProperties, RecordItself
<1>4. SameOrders
  BY <1>0, BecomesItself DEF SameOrders, PlainInv
<1>5. lc_tracker' = [records |-> Records', completed_count |-> lc_tracker'.completed_count]
  BY <1>1
<1>6. RecordsInv'
  BY <1>0, <1>2, <1>3, <1>4, <1>5, KeptRecords
<1>7. FillsTraced' /\ DoneInv'
  BY <1>0, <1>1, TracedMeans DEF DoneInv, Done
<1>. QED
  BY <1>6, <1>7 DEF RecordsPart

\* The orders of a new signal and its record, if it gets one, start with nothing filled.
LEMMA SentRecords ==
  ASSUME OrdersPart, RecordsPart, PlainInv', LastSignal' = LastSignal + 1,
         NEW s \in Strategies, Turned(s), NEW N, Sent(s, N), NEW r, NewlyTracked(s, N, r)
  PROVE  RecordsPart'
<1>0. /\ PlainInv /\ OrdersSound /\ RecordsInv /\ DoneInv
      /\ \A i \in DOMAIN Records : TracedIn(orders, Records[i])
  BY TracedMeans DEF OrdersPart, RecordsPart
<1>1. /\ r \in LcRecord /\ r.signal_id = SignalId(s) /\ r.strategy = s /\ ~r.completed
      /\ \A leg \in BOOLEAN : r.leg[leg].filled = 0
      /\ Tracks(lc_tracker, lc_tracker', r)
  BY DEF NewlyTracked
<1>2. RecordsInv'
  BY <1>0, AppendedRecords DEF NewlyTracked
<1>3. /\ LastSignal \in Nat /\ SignalId(s) = LastSignal + 1
      /\ Records \in Seq(LcRecord) /\ Records' \in Seq(LcRecord)
  BY <1>0, <1>2, NextSignal DEF Turned, RecordsInv
<1>. DEFINE n == Len(Records)
<1>4. n \in Nat /\ DOMAIN Records = 1 .. n /\ \A i \in 1 .. n : Records[i] \in LcRecord
  BY <1>3, LenProperties
<1>5. /\ orders' = orders \cup N
      /\ \A o \in N : o.signal = LastSignal + 1 /\ o.filled = 0 /\ o.paid = 0
      /\ \A o \in orders : o.signal <= LastSignal /\ o.signal \in Nat /\ o.filled \in Nat
  BY <1>0, <1>3 DEF Sent, OrdersSound, SoundOrder, PlainInv, DeskOrder
<1>6. ASSUME NEW q \in LcRecord, NEW leg, q.signal_id <= LastSignal
      PROVE  SumFunctionOnSet(FilledBy(orders'), LegOrders(orders', q, leg))
               = SumFunctionOnSet(FilledBy(orders), LegOrders(orders, q, leg))
  <2>. DEFINE f == FilledBy(orders)
              g == FilledBy(orders')
              S == LegOrders(orders, q, leg)
              T == LegOrders(orders', q, leg)
  <2>1. q.signal_id # LastSignal + 1
    BY <1>3, <1>6 DEF LcRecord
  <2>2. T = S
    BY <1>5, <2>1 DEF LegOrders
  <2>3. IsFiniteSet(S) /\ \A y \in S : f[y] \in Int /\ g[y] = f[y]
    BY <1>0, <1>5, LegOrdersFinite DEF FilledBy
  <2>. HIDE DEF f, g, S, T
  <2>4. SumFunctionOnSet(g, S) = SumFunctionOnSet(f, S)
    BY <2>3, SumCongruent
  <2>. QED
    BY <2>2, <2>4 DEF f, g, S, T
<1>7. ASSUME NEW i \in DOMAIN Records
      PROVE  /\ TracedIn(orders', Records[i])
             /\ Records[i].completed <=> PaidIn(orders', Records[i].signal_id)
  <2>1. Records[i] \in LcRecord /\ Records[i].signal_id <= LastSignal
        /\ Records[i].signal_id \in Nat
    BY <1>0, <1>4 DEF RecordsInv, LcRecord
  <2>2. TracedIn(orders, Records[i])
    BY <1>0
  <2>3. TracedIn(orders', Records[i])
    BY <1>6, <2>1, <2>2 DEF TracedIn
  <2>4. PaidIn(orders', Records[i].signal_id) <=> PaidIn(orders, Records[i].signal_id)
    BY <1>5 DEF PaidIn
  <2>. QED
    BY <1>0, <2>3, <2>4 DEF DoneInv
<1>8. TracedIn(orders', r) /\ ~PaidIn(orders', r.signal_id)
  <2>1. \A o \in orders' : o.signal = r.signal_id => o \in N
    BY <1>1, <1>3, <1>5
  <2>2. ~PaidIn(orders', r.signal_id)
    BY <1>5, <2>1 DEF PaidIn
  <2>3. ASSUME NEW leg \in BOOLEAN
        PROVE  r.leg[leg].filled = SumFunctionOnSet(FilledBy(orders'), LegOrders(orders', r, leg))
    <3>. DEFINE g == FilledBy(orders')
                T == LegOrders(orders', r, leg)
    <3>1. IsFiniteSet(T)
      BY FS_Subset DEF LegOrders, PlainInv
    <3>2. \A y \in T : g[y] = 0
      BY <1>5, <2>1 DEF LegOrders, FilledBy
    <3>. HIDE DEF g, T
    <3>3. SumFunctionOnSet(g, T) = 0
      BY <3>1, <3>2, SumType
    <3>. QED
      BY <1>1, <3>3 DEF g, T
  <2>. QED
    BY <2>2, <2>3 DEF TracedIn
<1>9. /\ lc_tracker'.completed_count = lc_tracker.completed_count
      /\ Records' = IF n >= MaxRecords THEN Records ELSE Append(Records, r)
  BY <1>1 DEF Tracks, Records
<1>10. CASE n >= MaxRecords
  <2>1. Records' = Records
    BY <1>9, <1>10
  <2>2. Done' = Done
    BY <2>1 DEF Done
  <2>3. FillsTraced'
    BY <1>7, <2>1, TracedMeans
  <2>4. DoneInv'
    BY <1>0, <1>7, <1>9, <2>1, <2>2 DEF DoneInv
  <2>. QED
    BY <1>2, <2>3, <2>4 DEF RecordsPart
<1>11. CASE ~ n >= MaxRecords
  <2>1. Records' = Append(Records, r)
    BY <1>9, <1>11
  <2>2. /\ Len(Records') = n + 1 /\ Records'[n + 1] = r
        /\ \A i \in 1 .. n : Records'[i] = Records[i]
    BY <1>1, <1>3, <2>1, AppendProperties
  <2>3. DOMAIN Records' = 1 .. n + 1 /\ \A i \in 1 .. n + 1 : i = n + 1 \/ i \in 1 .. n
    BY <1>3, <1>4, <2>2, LenProperties
  <2>4. \A i \in DOMAIN Records' : i = n + 1 \/ (i \in DOMAIN Records /\ Records'[i] = Records[i])
    BY <1>4, <2>2, <2>3
  <2>5. FillsTraced'
    BY <1>7, <1>8, <2>2, <2>4, TracedMeans
  <2>6. \A i \in DOMAIN Records' : Records'[i].completed <=> PaidIn(orders', Records'[i].signal_id)
    BY <1>1, <1>7, <1>8, <2>2, <2>4
  <2>7. Done' = Done
    <3>1. Done' = {i \in DOMAIN Records' : Records'[i].completed}
      BY DEF Done
    <3>2. \A i \in DOMAIN Records : i \in DOMAIN Records' /\ Records'[i] = Records[i]
      BY <1>4, <2>2, <2>3
    <3>. QED
      BY <1>1, <2>2, <2>4, <3>1, <3>2 DEF Done
  <2>8. DoneInv'
    BY <1>0, <1>9, <2>6, <2>7 DEF DoneInv
  <2>. QED
    BY <1>2, <2>5, <2>8 DEF RecordsPart
<1>. QED
  BY <1>10, <1>11

-----------------------------------------------------------------------------
(***************************************************************************)
(* The counters.                                                           *)
(***************************************************************************)

\* What counting adds to the row of a strategy.
CountsMore(st, new, s, signals, approved, sent, fills, ends) ==
  /\ new \in Stats
  /\ new[s].signals = st[s].signals + signals
  /\ new[s].risk_approved = st[s].risk_approved + approved
  /\ new[s].orders_submitted = st[s].orders_submitted + sent
  /\ new[s].fills = st[s].fills + fills
  /\ new[s].wins + new[s].losses = st[s].wins + st[s].losses + ends
  /\ \A r \in Strategies : r # s => new[r] = st[r]

\* The counters of a row are numbers.
LEMMA RowNumbers ==
  ASSUME NEW st \in Stats, NEW s \in Strategies
  PROVE  /\ st[s] \in StratCounters
         /\ st[s].signals \in Nat /\ st[s].risk_approved \in Nat
         /\ st[s].orders_submitted \in Nat /\ st[s].fills \in Nat
         /\ st[s].wins \in Nat /\ st[s].losses \in Nat
BY DEF Stats, StratCounters

\* A row put in place of another.
LEMMA NewRow ==
  ASSUME NEW st \in Stats, NEW s \in Strategies, NEW c \in StratCounters
  PROVE  /\ [st EXCEPT ![s] = c] \in Stats /\ [st EXCEPT ![s] = c][s] = c
         /\ \A r \in Strategies : r # s => [st EXCEPT ![s] = c][r] = st[r]
BY DEF Stats

\* What record_signal counts.
LEMMA SignalAdds ==
  ASSUME NEW st \in Stats, NEW s \in Strategies, NEW is_approved \in BOOLEAN
  PROVE  CountsMore(st, record_signal(st, s, is_approved), s, 1, One(is_approved), 0, 0, 0)
<1>. DEFINE n == st[s].signals + 1
            k == st[s].risk_approved + One(is_approved)
            c == [st[s] EXCEPT !.signals = n, !.risk_approved = k]
<1>1. n \in Nat /\ k \in Nat /\ st[s] \in StratCounters
  BY RowNumbers DEF One
<1>2. record_signal(st, s, is_approved) = [st EXCEPT ![s] = c]
  BY DEF record_signal, Stats
<1>3. /\ c \in StratCounters /\ c.signals = n /\ c.risk_approved = k
      /\ c.orders_submitted = st[s].orders_submitted /\ c.fills = st[s].fills
      /\ c.wins = st[s].wins /\ c.losses = st[s].losses
  <2>. HIDE DEF n, k
  <2>. QED
    BY <1>1 DEF StratCounters
<1>. HIDE DEF c
<1>. DEFINE new == [st EXCEPT ![s] = c]
<1>4. new \in Stats /\ new[s] = c /\ \A r \in Strategies : r # s => new[r] = st[r]
  BY <1>3, NewRow
<1>. HIDE DEF new
<1>5. CountsMore(st, new, s, 1, One(is_approved), 0, 0, 0)
  BY <1>3, <1>4, RowNumbers DEF CountsMore
<1>. QED
  BY <1>2, <1>5 DEF new

\* What record_order counts.
LEMMA OrderAdds ==
  ASSUME NEW st \in Stats, NEW s \in Strategies
  PROVE  CountsMore(st, record_order(st, s), s, 0, 0, 1, 0, 0)
<1>. DEFINE n == st[s].orders_submitted + 1
            c == [st[s] EXCEPT !.orders_submitted = n]
<1>1. n \in Nat /\ st[s] \in StratCounters
  BY RowNumbers
<1>2. record_order(st, s) = [st EXCEPT ![s] = c]
  BY DEF record_order, Stats
<1>3. /\ c \in StratCounters /\ c.signals = st[s].signals /\ c.risk_approved = st[s].risk_approved
      /\ c.orders_submitted = n /\ c.fills = st[s].fills
      /\ c.wins = st[s].wins /\ c.losses = st[s].losses
  <2>. HIDE DEF n
  <2>. QED
    BY <1>1 DEF StratCounters
<1>. HIDE DEF c
<1>. DEFINE new == [st EXCEPT ![s] = c]
<1>4. new \in Stats /\ new[s] = c /\ \A r \in Strategies : r # s => new[r] = st[r]
  BY <1>3, NewRow
<1>. HIDE DEF new
<1>5. CountsMore(st, new, s, 0, 0, 1, 0, 0)
  BY <1>3, <1>4, RowNumbers DEF CountsMore
<1>. QED
  BY <1>2, <1>5 DEF new

\* What record_fill counts: the fill that completes an order.
LEMMA FillAdds ==
  ASSUME NEW st \in Stats, NEW s \in Strategies, NEW is_partial \in BOOLEAN
  PROVE  CountsMore(st, record_fill(st, s, is_partial), s, 0, 0, 0, One(~is_partial), 0)
<1>. DEFINE n == st[s].fills + One(~is_partial)
            c == [st[s] EXCEPT !.fills = n]
<1>1. n \in Nat /\ st[s] \in StratCounters
  BY RowNumbers DEF One
<1>2. record_fill(st, s, is_partial) = [st EXCEPT ![s] = c]
  BY DEF record_fill, Stats
<1>3. /\ c \in StratCounters /\ c.signals = st[s].signals /\ c.risk_approved = st[s].risk_approved
      /\ c.orders_submitted = st[s].orders_submitted /\ c.fills = n
      /\ c.wins = st[s].wins /\ c.losses = st[s].losses
  <2>. HIDE DEF n
  <2>. QED
    BY <1>1 DEF StratCounters
<1>. HIDE DEF c
<1>. DEFINE new == [st EXCEPT ![s] = c]
<1>4. new \in Stats /\ new[s] = c /\ \A r \in Strategies : r # s => new[r] = st[r]
  BY <1>3, NewRow
<1>. HIDE DEF new
<1>5. CountsMore(st, new, s, 0, 0, 0, One(~is_partial), 0)
  BY <1>3, <1>4, RowNumbers DEF CountsMore
<1>. QED
  BY <1>2, <1>5 DEF new

\* What record_settlement counts: a win or a loss.
LEMMA SettlementAdds ==
  ASSUME NEW st \in Stats, NEW s \in Strategies, NEW is_win \in BOOLEAN
  PROVE  CountsMore(st, record_settlement(st, s, is_win), s, 0, 0, 0, 0, 1)
<1>. DEFINE n == st[s].wins + One(is_win)
            k == st[s].losses + One(~is_win)
            c == [st[s] EXCEPT !.wins = n, !.losses = k]
<1>1. n \in Nat /\ k \in Nat /\ st[s] \in StratCounters /\ n + k = st[s].wins + st[s].losses + 1
  BY RowNumbers DEF One
<1>2. record_settlement(st, s, is_win) = [st EXCEPT ![s] = c]
  BY DEF record_settlement, Stats
<1>3. /\ c \in StratCounters /\ c.signals = st[s].signals /\ c.risk_approved = st[s].risk_approved
      /\ c.orders_submitted = st[s].orders_submitted /\ c.fills = st[s].fills
      /\ c.wins = n /\ c.losses = k
  <2>. HIDE DEF n, k
  <2>. QED
    BY <1>1 DEF StratCounters
<1>. HIDE DEF c
<1>. DEFINE new == [st EXCEPT ![s] = c]
<1>4. new \in Stats /\ new[s] = c /\ \A r \in Strategies : r # s => new[r] = st[r]
  BY <1>3, NewRow
<1>. HIDE DEF new
<1>5. CountsMore(st, new, s, 0, 0, 0, 0, 1)
  <2>. HIDE DEF n, k
  <2>. QED
    BY <1>1, <1>3, <1>4, RowNumbers DEF CountsMore
<1>. QED
  BY <1>2, <1>5 DEF new

\* An order counted after a signal and its earlier orders.
LEMMA OneMoreOrder ==
  ASSUME NEW x \in Stats, NEW y, NEW z, NEW s \in Strategies, NEW n \in Nat,
         CountsMore(x, y, s, 1, 1, n, 0, 0), CountsMore(y, z, s, 0, 0, 1, 0, 0)
  PROVE  CountsMore(x, z, s, 1, 1, n + 1, 0, 0)
<1>1. z \in Stats
  BY DEF CountsMore
<1>2. /\ y[s].signals = x[s].signals + 1 /\ z[s].signals = y[s].signals + 0
      /\ y[s].risk_approved = x[s].risk_approved + 1 /\ z[s].risk_approved = y[s].risk_approved + 0
      /\ y[s].orders_submitted = x[s].orders_submitted + n
      /\ z[s].orders_submitted = y[s].orders_submitted + 1
      /\ y[s].fills = x[s].fills + 0 /\ z[s].fills = y[s].fills + 0
      /\ y[s].wins + y[s].losses = x[s].wins + x[s].losses + 0
      /\ z[s].wins + z[s].losses = y[s].wins + y[s].losses + 0
  BY DEF CountsMore
<1>3. /\ x[s].signals \in Nat /\ x[s].risk_approved \in Nat
      /\ x[s].orders_submitted \in Nat /\ x[s].fills \in Nat
      /\ x[s].wins \in Nat /\ x[s].losses \in Nat
  BY RowNumbers
<1>4. \A r \in Strategies : r # s => z[r] = x[r]
  <2>1. \A r \in Strategies : r # s => y[r] = x[r]
    BY DEF CountsMore
  <2>2. \A r \in Strategies : r # s => z[r] = y[r]
    BY DEF CountsMore
  <2>. QED
    BY <2>1, <2>2
<1>5. /\ z[s].signals = x[s].signals + 1
      /\ z[s].risk_approved = x[s].risk_approved + 1
      /\ z[s].orders_submitted = x[s].orders_submitted + (n + 1)
      /\ z[s].fills = x[s].fills + 0
      /\ z[s].wins + z[s].losses = x[s].wins + x[s].losses + 0
  BY <1>2, <1>3
<1>. QED
  BY <1>1, <1>4, <1>5 DEF CountsMore

\* What is counted of a signal and of the orders sent for it.
Counted(s, N) ==
  \E approved \in {0, 1}, sent \in Nat :
    /\ CountsMore(strat_stats, strat_stats', s, 1, approved, sent, 0, 0)
    /\ Cardinality(N) <= sent /\ sent <= (IF s = "A" THEN 2 ELSE 1) * approved

\* What each kind of signal counts.
LEMMA SignalCounts ==
  ASSUME strat_stats \in Stats, NEW s \in Strategies, NEW size \in Sizes
  PROVE  /\ SignalOnly(s, size) => Counted(s, {})
         /\ s = "A" /\ OrderPair(size) => Counted(s,
              {Leg(size, TRUE, next_oid, "A"), Leg(size, FALSE, next_oid + 1, "A")})
         /\ \A is_yes \in BOOLEAN : s = "B" /\ OrderToken(size, is_yes) =>
              Counted(s, {Leg(size, is_yes, next_oid, "B")})
<1>0. /\ \A a \in BOOLEAN : One(a) \in {0, 1}
      /\ One(TRUE) = 1 /\ TRUE \in BOOLEAN /\ FALSE \in BOOLEAN
  BY DEF One
<1>1. ASSUME SignalOnly(s, size) PROVE Counted(s, {})
  <2>1. strat_stats' = record_signal(strat_stats, s, Approved(s, size)) /\ Approved(s, size) \in BOOLEAN
    BY <1>1 DEF SignalOnly, Approved
  <2>2. CountsMore(strat_stats, strat_stats', s, 1, One(Approved(s, size)), 0, 0, 0)
    BY <2>1, SignalAdds
  <2>3. One(Approved(s, size)) \in {0, 1}
    BY <2>1 DEF One
  <2>. DEFINE a == One(Approved(s, size))
  <2>. HIDE DEF a
  <2>4. Cardinality({}) <= 0 /\ 0 <= (IF s = "A" THEN 2 ELSE 1) * a /\ a \in {0, 1}
    BY <2>3, FS_EmptySet DEF a
  <2>. QED
    BY <2>2, <2>4 DEF Counted, a
<1>2. ASSUME s = "A", OrderPair(size)
      PROVE  Counted(s, {Leg(size, TRUE, next_oid, "A"), Leg(size, FALSE, next_oid + 1, "A")})
  <2>. DEFINE x == record_signal(strat_stats, "A", TRUE)
              y == record_order(x, "A")
              z == record_order(y, "A")
              a == Leg(size, TRUE, next_oid, "A")
              b == Leg(size, FALSE, next_oid + 1, "A")
  <2>1. strat_stats' = z
    BY <1>2 DEF OrderPair
  <2>2. "A" \in Strategies
    BY DEF Strategies
  <2>3. CountsMore(strat_stats, x, "A", 1, One(TRUE), 0, 0, 0)
    BY <1>0, <2>2, SignalAdds, Zenon
  <2>. HIDE DEF x
  <2>4. CountsMore(x, y, "A", 0, 0, 1, 0, 0)
    BY <2>2, <2>3, OrderAdds DEF CountsMore
  <2>. HIDE DEF y
  <2>5. CountsMore(y, z, "A", 0, 0, 1, 0, 0)
    BY <2>2, <2>4, OrderAdds DEF CountsMore
  <2>. HIDE DEF z, a, b
  <2>6. CountsMore(strat_stats, z, "A", 1, 1, 2, 0, 0)
    <3>1. CountsMore(strat_stats, x, "A", 1, 1, 0, 0, 0)
      BY <1>0, <2>3
    <3>2. CountsMore(strat_stats, y, "A", 1, 1, 0 + 1, 0, 0)
      BY <2>2, <2>4, <3>1, OneMoreOrder
    <3>3. CountsMore(strat_stats, z, "A", 1, 1, 0 + 1 + 1, 0, 0)
      BY <2>2, <2>5, <3>2, OneMoreOrder
    <3>. QED
      BY <3>3
  <2>7. Cardinality({a, b}) <= 2
    <3>1. {a, b} = {a} \cup {b} /\ IsFiniteSet({a}) /\ Cardinality({a}) = 1
      BY FS_Singleton
    <3>2. Cardinality({a} \cup {b}) = IF b \in {a} THEN Cardinality({a}) ELSE Cardinality({a}) + 1
      BY <3>1, FS_AddElement
    <3>. QED
      BY <3>1, <3>2
  <2>8. Counted(s, {a, b})
    BY <1>2, <2>1, <2>6, <2>7 DEF Counted
  <2>. QED
    BY <2>8 DEF a, b
<1>3. ASSUME NEW is_yes \in BOOLEAN, s = "B", OrderToken(size, is_yes)
      PROVE  Counted(s, {Leg(size, is_yes, next_oid, "B")})
  <2>. DEFINE x == record_signal(strat_stats, "B", TRUE)
              y == record_order(x, "B")
              a == Leg(size, is_yes, next_oid, "B")
  <2>1. strat_stats' = y
    BY <1>3 DEF OrderToken
  <2>2. "B" \in Strategies
    BY DEF Strategies
  <2>3. CountsMore(strat_stats, x, "B", 1, One(TRUE), 0, 0, 0)
    BY <1>0, <2>2, SignalAdds, Zenon
  <2>. HIDE DEF x
  <2>4. CountsMore(x, y, "B", 0, 0, 1, 0, 0)
    BY <2>2, <2>3, OrderAdds DEF CountsMore
  <2>. HIDE DEF y, a
  <2>5. CountsMore(strat_stats, y, "B", 1, 1, 1, 0, 0)
    <3>1. CountsMore(strat_stats, x, "B", 1, 1, 0, 0, 0)
      BY <1>0, <2>3
    <3>2. CountsMore(strat_stats, y, "B", 1, 1, 0 + 1, 0, 0)
      BY <2>2, <2>4, <3>1, OneMoreOrder
    <3>. QED
      BY <3>2
  <2>6. Cardinality({a}) = 1
    BY FS_Singleton
  <2>7. Counted(s, {a})
    BY <1>3, <2>1, <2>5, <2>6 DEF Counted
  <2>. QED
    BY <2>7 DEF a
<1>. QED
  BY <1>1, <1>2, <1>3

\* What is left of a set when o is replaced in it, perhaps, by r.
LEMMA ReplacedCount ==
  ASSUME NEW S, IsFiniteSet(S), NEW o, NEW r, NEW T, T \subseteq (S \ {o}) \cup {r},
         r \in T => o \in S
  PROVE  /\ IsFiniteSet(T) /\ Cardinality(T) \in Nat /\ Cardinality(S) \in Nat
         /\ Cardinality(T) <= Cardinality(S)
         /\ o \in S /\ r \notin T => Cardinality(T) + 1 <= Cardinality(S)
<1>0. Cardinality(S) \in Nat
  BY FS_CardinalityType
<1>1. CASE r \notin T
  <2>1. T \subseteq S \ {o} /\ IsFiniteSet(S \ {o})
    BY <1>1, FS_RemoveElement
  <2>2. IsFiniteSet(T) /\ Cardinality(T) \in Nat /\ Cardinality(T) <= Cardinality(S \ {o})
    BY <2>1, FS_Subset, FS_CardinalityType
  <2>3. Cardinality(S \ {o}) = IF o \in S THEN Cardinality(S) - 1 ELSE Cardinality(S)
    BY FS_RemoveElement
  <2>. QED
    BY <1>0, <1>1, <2>2, <2>3
<1>2. CASE r \in T
  <2>. DEFINE Q == S \ {o}
  <2>1. IsFiniteSet(Q) /\ Cardinality(Q) = Cardinality(S) - 1
    BY <1>2, FS_RemoveElement
  <2>. HIDE DEF Q
  <2>2. /\ IsFiniteSet(Q \cup {r})
        /\ Cardinality(Q \cup {r}) = IF r \in Q THEN Cardinality(Q) ELSE Cardinality(Q) + 1
    BY <2>1, FS_AddElement
  <2>3. T \subseteq Q \cup {r}
    BY DEF Q
  <2>4. IsFiniteSet(T) /\ Cardinality(T) \in Nat /\ Cardinality(T) <= Cardinality(Q \cup {r})
    BY <2>2, <2>3, FS_Subset, FS_CardinalityType
  <2>. QED
    BY <1>0, <1>2, <2>1, <2>2, <2>4
<1>. QED
  BY <1>0, <1>1, <1>2

\* What a set grows by.
LEMMA GrownCount ==
  ASSUME NEW S, NEW N, IsFiniteSet(S), IsFiniteSet(N), NEW T, T \subseteq S \cup N
  PROVE  /\ IsFiniteSet(T) /\ Cardinality(T) \in Nat /\ Cardinality(S) \in Nat
         /\ Cardinality(N) \in Nat
         /\ Cardinality(T) <= Cardinality(S) + Cardinality(N)
<1>1. /\ IsFiniteSet(S \cup N)
      /\ Cardinality(S \cup N) = Cardinality(S) + Cardinality(N) - Cardinality(S \cap N)
  BY FS_Union
<1>2. IsFiniteSet(S \cap N)
  BY FS_Intersection
<1>3. IsFiniteSet(T) /\ Cardinality(T) <= Cardinality(S \cup N)
  BY <1>1, FS_Subset
<1>. QED
  BY <1>1, <1>2, <1>3, FS_CardinalityType

\* The orders still to be filled or settled are finitely many.
LEMMA CountedSets ==
  ASSUME PlainInv, NEW s
  PROVE  /\ UnfilledIn(orders, s) \subseteq orders /\ IsFiniteSet(UnfilledIn(orders, s))
         /\ UnpaidIn(orders, s) \subseteq orders /\ IsFiniteSet(UnpaidIn(orders, s))
         /\ Cardinality(UnfilledIn(orders, s)) \in Nat /\ Cardinality(UnpaidIn(orders, s)) \in Nat
<1>1. UnfilledIn(orders, s) \subseteq orders /\ UnpaidIn(orders, s) \subseteq orders
  BY DEF UnfilledIn, UnpaidIn
<1>2. IsFiniteSet(UnfilledIn(orders, s)) /\ IsFiniteSet(UnpaidIn(orders, s))
  BY <1>1, FS_Subset DEF PlainInv
<1>. QED
  BY <1>1, <1>2, FS_CardinalityType

\* An order replaced leaves at most as many to be filled or settled.
LEMMA ReplacedCounts ==
  ASSUME PlainInv, NEW o \in orders, NEW r, Becomes(o, r), Replaces(o, r),
         r.filled < r.size => o.filled < o.size, r.paid = 0 => o.paid = 0, NEW s \in Strategies
  PROVE  /\ Cardinality(UnfilledIn(orders', s)) \in Nat
         /\ Cardinality(UnpaidIn(orders', s)) \in Nat
         /\ Cardinality(UnfilledIn(orders', s)) <= Cardinality(UnfilledIn(orders, s))
         /\ Cardinality(UnpaidIn(orders', s)) <= Cardinality(UnpaidIn(orders, s))
         /\ s = o.strategy /\ o.filled < o.size /\ ~(r.filled < r.size) =>
              Cardinality(UnfilledIn(orders', s)) + 1 <= Cardinality(UnfilledIn(orders, s))
         /\ s = o.strategy /\ o.paid = 0 /\ r.paid # 0 =>
              Cardinality(UnpaidIn(orders', s)) + 1 <= Cardinality(UnpaidIn(orders, s))
<1>. DEFINE S == UnfilledIn(orders, s)
            T == UnfilledIn(orders', s)
            P == UnpaidIn(orders, s)
            Q == UnpaidIn(orders', s)
<1>1. IsFiniteSet(S) /\ IsFiniteSet(P)
  BY CountedSets
<1>2. /\ T \subseteq (S \ {o}) \cup {r} /\ (r \in T => o \in S)
      /\ s = o.strategy /\ o.filled < o.size => o \in S
      /\ ~(r.filled < r.size) => r \notin T
  BY DEF UnfilledIn, Replaces, Becomes
<1>3. /\ Q \subseteq (P \ {o}) \cup {r} /\ (r \in Q => o \in P)
      /\ s = o.strategy /\ o.paid = 0 => o \in P
      /\ r.paid # 0 => r \notin Q
  BY DEF UnpaidIn, Replaces, Becomes
<1>4. /\ Cardinality(T) \in Nat /\ Cardinality(T) <= Cardinality(S)
      /\ o \in S /\ r \notin T => Cardinality(T) + 1 <= Cardinality(S)
  <2>. HIDE DEF S, T
  <2>. QED
    BY <1>1, <1>2, ReplacedCount
<1>5. /\ Cardinality(Q) \in Nat /\ Cardinality(Q) <= Cardinality(P)
      /\ o \in P /\ r \notin Q => Cardinality(Q) + 1 <= Cardinality(P)
  <2>. HIDE DEF P, Q
  <2>. QED
    BY <1>1, <1>3, ReplacedCount
<1>. QED
  BY <1>2, <1>3, <1>4, <1>5

\* Counting so much in the row of t takes no more room of s than there was and is given back.
Takes(s, t, signals, approved, sent, fills, ends, f, p, f1, p1) ==
  /\ sent <= (IF t = "A" THEN 2 ELSE 1) * approved /\ approved <= signals
  /\ s # t => f1 <= f /\ p1 <= p
  /\ s = t => f1 + fills <= f + sent /\ p1 + ends <= p + sent

\* A row that counts no more than the room there was leaves the rest of it.
LEMMA RoomLeft ==
  ASSUME NEW st \in Stats, NEW new, NEW t \in Strategies, NEW s \in Strategies,
         NEW signals \in Nat, NEW approved \in Nat, NEW sent \in Nat, NEW fills \in Nat, NEW ends \in Nat,
         CountsMore(st, new, t, signals, approved, sent, fills, ends),
         NEW f \in Nat, NEW p \in Nat, NEW f1 \in Nat, NEW p1 \in Nat,
         Takes(s, t, signals, approved, sent, fills, ends, f, p, f1, p1),
         LeavesRoom(s, st[s], f, p)
  PROVE  LeavesRoom(s, new[s], f1, p1)
<1>0. /\ new \in Stats /\ st[s] \in StratCounters /\ new[s] \in StratCounters
  BY DEF CountsMore, Stats
<1>1. /\ st[s].signals \in Nat /\ st[s].risk_approved \in Nat
      /\ st[s].orders_submitted \in Nat /\ st[s].fills \in Nat
      /\ st[s].wins \in Nat /\ st[s].losses \in Nat
      /\ new[s].wins \in Nat /\ new[s].losses \in Nat
  BY <1>0, RowNumbers
<1>2. CASE s # t
  <2>1. new[s] = st[s]
    BY <1>2 DEF CountsMore
  <2>. QED
    BY <1>1, <1>2, <2>1 DEF LeavesRoom, Takes
<1>3. CASE s = t
  <2>1. /\ new[s].signals = st[s].signals + signals
        /\ new[s].risk_approved = st[s].risk_approved + approved
        /\ new[s].orders_submitted = st[s].orders_submitted + sent
        /\ new[s].fills = st[s].fills + fills
        /\ new[s].wins + new[s].losses = st[s].wins + st[s].losses + ends
    BY <1>3 DEF CountsMore
  <2>2. /\ st[s].fills + f <= st[s].orders_submitted
        /\ st[s].wins + st[s].losses + p <= st[s].orders_submitted
        /\ st[s].orders_submitted <= (IF s = "A" THEN 2 ELSE 1) * st[s].risk_approved
        /\ st[s].risk_approved <= st[s].signals
        /\ sent <= (IF s = "A" THEN 2 ELSE 1) * approved /\ approved <= signals
        /\ f1 + fills <= f + sent /\ p1 + ends <= p + sent
    BY <1>3 DEF LeavesRoom, Takes
  <2>3. new[s].fills + f1 <= new[s].orders_submitted
    BY <1>1, <1>3, <2>1, <2>2
  <2>4. new[s].wins + new[s].losses + p1 <= new[s].orders_submitted
    BY <1>1, <1>3, <2>1, <2>2
  <2>5. new[s].orders_submitted <= (IF s = "A" THEN 2 ELSE 1) * new[s].risk_approved
    BY <1>1, <1>3, <2>1, <2>2
  <2>6. new[s].risk_approved <= new[s].signals
    BY <1>1, <1>3, <2>1, <2>2
  <2>. QED
    BY <2>3, <2>4, <2>5, <2>6 DEF LeavesRoom
<1>. QED
  BY <1>2, <1>3

\* A row saved: what is still to be counted is no longer held by anybody.
LEMMA RoomSaved ==
  ASSUME NEW st \in Stats, NEW s \in Strategies, NEW f \in Nat, NEW p \in Nat,
         LeavesRoom(s, st[s], f, p)
  PROVE  LeavesRoom(s, st[s], 0, 0)
BY RowNumbers DEF LeavesRoom

\* A fill is counted once, when the order is full.
LEMMA FilledCounts ==
  ASSUME OrdersPart, StatsInv, CountsInv, NEW o \in orders, NEW n \in 1 .. o.size, Fill(o, n)
  PROVE  CountsInv'
<1>0. PlainInv /\ o \in DeskOrder /\ o.strategy \in Strategies /\ strat_stats \in Stats
  BY DEF OrdersPart, PlainInv, DeskOrder, StatsInv
<1>. DEFINE r == [o EXCEPT !.filled = @ + n]
            is_partial == o.filled + n < o.size
<1>1. /\ n <= o.size - o.filled
      /\ orders' = (orders \ {o}) \cup {r} /\ next_oid' = next_oid
      /\ strat_stats' = record_fill(strat_stats, o.strategy, is_partial)
      /\ file' = file
  BY DEF Fill, process_vars
<1>2. Becomes(o, r) /\ r.filled = o.filled + n /\ r.paid = o.paid
  BY <1>0, <1>1, FillBecomes
<1>. HIDE DEF r
<1>3. /\ r.size = o.size /\ o.filled < o.size /\ (r.filled < r.size <=> is_partial)
      /\ is_partial \in BOOLEAN
  BY <1>0, <1>1, <1>2 DEF Becomes, DeskOrder
<1>. HIDE DEF is_partial
<1>4. CountsMore(strat_stats, strat_stats', o.strategy, 0, 0, 0, One(~is_partial), 0)
  BY <1>0, <1>1, <1>3, FillAdds
<1>. DEFINE k == One(~is_partial)
<1>5. k \in Nat /\ (is_partial => k = 0) /\ (~is_partial => k = 1)
  BY DEF One
<1>. HIDE DEF k
<1>6. ASSUME NEW s \in Strategies
      PROVE  LeavesRoom(s, strat_stats[s], Cardinality(UnfilledIn(orders, s)),
                        Cardinality(UnpaidIn(orders, s)))'
  <2>. DEFINE f == Cardinality(UnfilledIn(orders, s))
              p == Cardinality(UnpaidIn(orders, s))
              f1 == Cardinality(UnfilledIn(orders', s))
              p1 == Cardinality(UnpaidIn(orders', s))
  <2>1. f \in Nat /\ p \in Nat
    BY <1>0, CountedSets
  <2>2. /\ f1 \in Nat /\ p1 \in Nat /\ f1 <= f /\ p1 <= p
        /\ s = o.strategy /\ o.filled < o.size /\ ~(r.filled < r.size) => f1 + 1 <= f
    BY <1>0, <1>1, <1>2, <1>3, ReplacedCounts DEF Replaces
  <2>3. LeavesRoom(s, strat_stats[s], f, p)
    BY DEF CountsInv
  <2>. HIDE DEF f, p, f1, p1
  <2>4. Takes(s, o.strategy, 0, 0, 0, k, 0, f, p, f1, p1)
    BY <1>3, <1>5, <2>1, <2>2 DEF Takes
  <2>5. CountsMore(strat_stats, strat_stats', o.strategy, 0, 0, 0, k, 0)
    BY <1>4 DEF k
  <2>6. 0 \in Nat
    OBVIOUS
  <2>7. LeavesRoom(s, strat_stats'[s], f1, p1)
    BY <1>0, <1>5, <2>1, <2>2, <2>3, <2>4, <2>5, <2>6, RoomLeft, Zenon
  <2>. QED
    BY <2>7 DEF f1, p1, UnfilledIn, UnpaidIn
<1>7. \A s \in Strategies : LeavesRoom(s, file'.stats[s], 0, 0)
  BY <1>1 DEF CountsInv
<1>. QED
  BY <1>6, <1>7 DEF CountsInv

\* A settlement is counted once, when the order is paid.
LEMMA SettledCounts ==
  ASSUME OrdersPart, StatsInv, CountsInv, NEW o \in orders, SettlePosition(o)
  PROVE  CountsInv'
<1>0. PlainInv /\ o \in DeskOrder /\ o.strategy \in Strategies /\ strat_stats \in Stats
  BY DEF OrdersPart, PlainInv, DeskOrder, StatsInv
<1>. DEFINE r == [o EXCEPT !.paid = o.filled]
            is_win == o.is_yes = settling.winner
<1>1. /\ orders' = (orders \ {o}) \cup {r} /\ next_oid' = next_oid
      /\ strat_stats' = record_settlement(strat_stats, o.strategy, is_win)
      /\ file' = [whole |-> TRUE, stats |-> strat_stats']
      /\ o \in settling.left
  BY DEF SettlePosition, strat_stats_save
<1>2. Becomes(o, r) /\ r.filled = o.filled /\ r.paid = o.filled
  BY <1>0, SettleBecomes
<1>. HIDE DEF r
<1>3. r.size = o.size /\ o.paid = 0 /\ r.paid # 0
  BY <1>0, <1>1, <1>2 DEF Becomes, DeskOrder, OrdersPart, SettlingInv
<1>4. CountsMore(strat_stats, strat_stats', o.strategy, 0, 0, 0, 0, 1)
  <2>1. is_win \in BOOLEAN
    OBVIOUS
  <2>. HIDE DEF is_win
  <2>. QED
    BY <1>0, <1>1, <2>1, SettlementAdds
<1>. HIDE DEF is_win
<1>5. ASSUME NEW s \in Strategies
      PROVE  /\ LeavesRoom(s, strat_stats[s], Cardinality(UnfilledIn(orders, s)),
                           Cardinality(UnpaidIn(orders, s)))'
             /\ LeavesRoom(s, strat_stats'[s], 0, 0)
  <2>. DEFINE f == Cardinality(UnfilledIn(orders, s))
              p == Cardinality(UnpaidIn(orders, s))
              f1 == Cardinality(UnfilledIn(orders', s))
              p1 == Cardinality(UnpaidIn(orders', s))
  <2>1. f \in Nat /\ p \in Nat
    BY <1>0, CountedSets
  <2>2. /\ f1 \in Nat /\ p1 \in Nat /\ f1 <= f /\ p1 <= p
        /\ s = o.strategy /\ o.paid = 0 /\ r.paid # 0 => p1 + 1 <= p
    BY <1>0, <1>1, <1>2, <1>3, ReplacedCounts DEF Replaces
  <2>3. LeavesRoom(s, strat_stats[s], f, p)
    BY DEF CountsInv
  <2>. HIDE DEF f, p, f1, p1
  <2>4. Takes(s, o.strategy, 0, 0, 0, 0, 1, f, p, f1, p1)
    BY <1>3, <2>1, <2>2 DEF Takes
  <2>5. 0 \in Nat /\ 1 \in Nat
    OBVIOUS
  <2>6. LeavesRoom(s, strat_stats'[s], f1, p1)
    BY <1>0, <1>4, <2>1, <2>2, <2>3, <2>4, <2>5, RoomLeft, Zenon
  <2>7. LeavesRoom(s, strat_stats'[s], 0, 0)
    BY <1>4, <2>2, <2>6, RoomSaved DEF CountsMore
  <2>. QED
    BY <2>6, <2>7 DEF f1, p1, UnfilledIn, UnpaidIn
<1>6. file'.stats = strat_stats'
  BY <1>1
<1>. QED
  BY <1>5, <1>6 DEF CountsInv

\* An order is counted as it is sent.
LEMMA SentCounts ==
  ASSUME OrdersPart, StatsInv, CountsInv, NEW t \in Strategies, Turned(t), NEW N, Sent(t, N),
         Counted(t, N)
  PROVE  CountsInv'
<1>0. PlainInv /\ strat_stats \in Stats
  BY DEF OrdersPart, StatsInv
<1>1. orders' = orders \cup N /\ IsFiniteSet(N) /\ \A o \in N : o.strategy = t
  BY DEF Sent
<1>2. PICK approved \in {0, 1}, sent \in Nat :
        /\ CountsMore(strat_stats, strat_stats', t, 1, approved, sent, 0, 0)
        /\ Cardinality(N) <= sent /\ sent <= (IF t = "A" THEN 2 ELSE 1) * approved
  BY DEF Counted
<1>3. approved \in Nat /\ approved <= 1 /\ 0 \in Nat /\ 1 \in Nat
  BY <1>2
<1>4. ASSUME NEW s \in Strategies
      PROVE  LeavesRoom(s, strat_stats[s], Cardinality(UnfilledIn(orders, s)),
                        Cardinality(UnpaidIn(orders, s)))'
  <2>. DEFINE M == {o \in N : s = t}
              S == UnfilledIn(orders, s)
              T == UnfilledIn(orders', s)
              P == UnpaidIn(orders, s)
              Q == UnpaidIn(orders', s)
  <2>1. T \subseteq S \cup M /\ Q \subseteq P \cup M
    BY <1>1 DEF UnfilledIn, UnpaidIn
  <2>2. /\ IsFiniteSet(M) /\ (s = t => Cardinality(M) = Cardinality(N))
        /\ s # t => Cardinality(M) = 0
    BY <1>1, FS_EmptySet, FS_Subset
  <2>3. IsFiniteSet(S) /\ IsFiniteSet(P)
    BY <1>0, CountedSets
  <2>4. LeavesRoom(s, strat_stats[s], Cardinality(S), Cardinality(P))
    BY DEF CountsInv
  <2>. HIDE DEF M, S, T, P, Q
  <2>5. /\ Cardinality(T) \in Nat /\ Cardinality(S) \in Nat /\ Cardinality(M) \in Nat
        /\ Cardinality(T) <= Cardinality(S) + Cardinality(M)
    BY <2>1, <2>2, <2>3, GrownCount
  <2>6. /\ Cardinality(Q) \in Nat /\ Cardinality(P) \in Nat
        /\ Cardinality(Q) <= Cardinality(P) + Cardinality(M)
    BY <2>1, <2>2, <2>3, GrownCount
  <2>. DEFINE f == Cardinality(S)
              p == Cardinality(P)
              f1 == Cardinality(T)
              p1 == Cardinality(Q)
  <2>7. Takes(s, t, 1, approved, sent, 0, 0, f, p, f1, p1)
    BY <1>2, <1>3, <2>2, <2>5, <2>6 DEF Takes
  <2>8. f \in Nat /\ p \in Nat /\ f1 \in Nat /\ p1 \in Nat /\ LeavesRoom(s, strat_stats[s], f, p)
    BY <2>4, <2>5, <2>6
  <2>. HIDE DEF f, p, f1, p1
  <2>9. LeavesRoom(s, strat_stats'[s], f1, p1)
    BY <1>0, <1>2, <1>3, <2>7, <2>8, RoomLeft, Zenon
  <2>. QED
    BY <2>9 DEF f1, p1, T, Q, UnfilledIn, UnpaidIn
<1>5. file' = file
  BY DEF Turned
<1>. QED
  BY <1>4, <1>5 DEF CountsInv

\* What a process starts with is what the file has, and there are no orders yet.
LEMMA StartedCounts ==
  ASSUME PlainInv, StatsInv, CountsInv, Crash \/ Shutdown \/ CrashInSave
  PROVE  CountsInv'
<1>1. /\ orders' = {}
      /\ strat_stats' = IF file'.whole THEN file'.stats ELSE ZeroStats
  BY DEF Crash, Shutdown, CrashInSave, Started, strat_stats_load
<1>2. \A s \in Strategies : UnfilledIn(orders', s) = {} /\ UnpaidIn(orders', s) = {}
  BY <1>1 DEF UnfilledIn, UnpaidIn
<1>3. \A s \in Strategies : LeavesRoom(s, ZeroStats[s], 0, 0)
  BY DEF LeavesRoom, ZeroStats, NoCounts
<1>4. \A s \in Strategies : LeavesRoom(s, file'.stats[s], 0, 0)
  <2>1. CASE Crash
    BY <2>1 DEF Crash, CountsInv
  <2>2. CASE Shutdown
    <3>1. file'.stats = strat_stats
      BY <2>2 DEF Shutdown, strat_stats_save
    <3>2. ASSUME NEW s \in Strategies PROVE LeavesRoom(s, strat_stats[s], 0, 0)
      <4>. DEFINE f == Cardinality(UnfilledIn(orders, s))
                  p == Cardinality(UnpaidIn(orders, s))
      <4>1. f \in Nat /\ p \in Nat
        BY CountedSets
      <4>2. LeavesRoom(s, strat_stats[s], f, p) /\ strat_stats \in Stats
        BY DEF CountsInv, StatsInv
      <4>. HIDE DEF f, p
      <4>. QED
        BY <4>1, <4>2, RoomSaved
    <3>. QED
      BY <3>1, <3>2
  <2>3. CASE CrashInSave
    BY <1>3, <2>3 DEF CrashInSave, NoFile
  <2>. QED
    BY <2>1, <2>2, <2>3
<1>5. \A s \in Strategies : LeavesRoom(s, strat_stats'[s], 0, 0)
  BY <1>1, <1>3, <1>4
<1>6. Cardinality({}) = 0
  BY FS_EmptySet
<1>7. \A s \in Strategies : LeavesRoom(s, strat_stats'[s], Cardinality(UnfilledIn(orders', s)),
                                       Cardinality(UnpaidIn(orders', s)))
  BY <1>2, <1>5, <1>6
<1>. QED
  BY <1>4, <1>7 DEF CountsInv, UnfilledIn, UnpaidIn

-----------------------------------------------------------------------------
(***************************************************************************)
(* The whole invariant.                                                    *)
(***************************************************************************)

\* The file is a record of counters, whole or cut short.
FileShape == file = [whole |-> file.whole, stats |-> file.stats]

\* What holds of the orders, their records and their counters in every state.
DeskInv == OrdersPart /\ RecordsPart /\ CountsInv /\ FileShape

\* A signal, the orders it sends, its record and its counters, together.
LEMMA SentTogether ==
  ASSUME RiskInv, StatsInv, DeskInv, NEW s \in Strategies, Signals(s)
  PROVE  \E N, r : Sent(s, N) /\ NewlyTracked(s, N, r) /\ Counted(s, N)
<1>0. /\ PlainInv /\ RecordsInv /\ lc_tracker.completed_count \in Nat
      /\ strat_stats \in Stats /\ Turn(s)
  BY DEF DeskInv, OrdersPart, RecordsPart, DoneInv, StatsInv, Signals, Turned
<1>1. PICK size \in Sizes :
        \/ SignalOnly(s, size)
        \/ s = "A" /\ OrderPair(size)
        \/ s = "B" /\ \E is_yes \in BOOLEAN : OrderToken(size, is_yes)
  BY DEF Signals
<1>2. CASE SignalOnly(s, size)
  <2>1. Sent(s, {}) /\ Counted(s, {})
    BY <1>0, <1>2, NothingSent, SignalCounts
  <2>2. \E r : NewlyTracked(s, {}, r)
    BY <1>0, <1>2, SignalTracks
  <2>. QED
    BY <2>1, <2>2
<1>3. CASE s = "A" /\ OrderPair(size)
  <2>. DEFINE N == {Leg(size, TRUE, next_oid, "A"), Leg(size, FALSE, next_oid + 1, "A")}
  <2>1. Sent(s, N)
    BY <1>0, <1>3, PairSent
  <2>2. Counted(s, N)
    BY <1>0, <1>3, SignalCounts
  <2>3. \E r : NewlyTracked(s, N, r)
    BY <1>0, <1>3, SignalTracks
  <2>. HIDE DEF N
  <2>. QED
    BY <2>1, <2>2, <2>3
<1>4. ASSUME s = "B", NEW is_yes \in BOOLEAN, OrderToken(size, is_yes)
      PROVE  \E N, r : Sent(s, N) /\ NewlyTracked(s, N, r) /\ Counted(s, N)
  <2>. DEFINE N == {Leg(size, is_yes, next_oid, "B")}
  <2>1. Sent(s, N)
    BY <1>0, <1>4, TokenSent
  <2>2. Counted(s, N)
    BY <1>0, <1>4, SignalCounts
  <2>3. \E r : NewlyTracked(s, N, r)
    BY <1>0, <1>4, SignalTracks
  <2>. HIDE DEF N
  <2>. QED
    BY <2>1, <2>2, <2>3
<1>. QED
  BY <1>1, <1>2, <1>3, <1>4

\* Signals, whatever they lead to, keep the invariant.
LEMMA SignalsDesk ==
  ASSUME RiskInv, StatsInv, DeskInv, NEW s \in Strategies, Signals(s)
  PROVE  DeskInv'
<1>0. OrdersPart /\ RecordsPart /\ CountsInv /\ Turned(s) /\ file' = file /\ FileShape
  BY DEF DeskInv, Signals, Turned
<1>1. PICK N, r : Sent(s, N) /\ NewlyTracked(s, N, r) /\ Counted(s, N)
  BY SentTogether
<1>2. OrdersPart' /\ LastSignal' = LastSignal + 1
  BY <1>0, <1>1, SentOrders
<1>3. PlainInv'
  BY <1>2 DEF OrdersPart
<1>4. RecordsPart'
  BY <1>0, <1>1, <1>2, <1>3, SentRecords
<1>5. CountsInv'
  BY <1>0, <1>1, SentCounts
<1>. QED
  BY <1>0, <1>2, <1>4, <1>5 DEF DeskInv, FileShape

\* Nothing is known of a process before its first signal but what it loaded.
LEMMA StartedDesk ==
  ASSUME StatsInv, DeskInv, Crash \/ Shutdown \/ CrashInSave, OrdersPart'
  PROVE  DeskInv'
<1>1. /\ Started
      /\ file' = file \/ file' = NoFile \/ file' = [whole |-> TRUE, stats |-> strat_stats]
  BY DEF Crash, Shutdown, CrashInSave, strat_stats_save
<1>2. FileShape'
  BY <1>1 DEF DeskInv, FileShape, NoFile
<1>3. lc_tracker' = [records |-> <<>>, completed_count |-> 0] /\ orders' = {}
  BY <1>1 DEF Started, pt_lifecycle_tracker_init
<1>4. Records' = <<>> /\ DOMAIN Records' = {} /\ lc_tracker'.completed_count = 0
  BY <1>3 DEF Records
<1>5. RecordsInv'
  <2>1. <<>> \in Seq(LcRecord) /\ Len(<<>>) <= MaxRecords
    BY LifecycleAssumption
  <2>2. (Records \in Seq(LcRecord))' /\ (Len(Records) <= MaxRecords)'
    BY <1>4, <2>1
  <2>. QED
    BY <1>3, <1>4, <2>2 DEF RecordsInv
<1>6. FillsTraced'
  BY <1>4, TracedMeans
<1>7. DoneInv'
  <2>1. Done' = {}
    BY <1>4 DEF Done
  <2>. QED
    BY <1>4, <2>1, FS_EmptySet DEF DoneInv
<1>8. CountsInv'
  BY StartedCounts DEF DeskInv, OrdersPart
<1>. QED
  BY <1>2, <1>5, <1>6, <1>7, <1>8 DEF DeskInv, RecordsPart

\* A step that touches neither the orders nor what is kept of them.
LEMMA UntouchedDesk ==
  ASSUME DeskInv, OrdersPart', LastSignal <= LastSignal',
         UNCHANGED <<orders, next_oid, lc_tracker, strat_stats, file>>
  PROVE  DeskInv'
<1>1. PlainInv'
  BY DEF OrdersPart
<1>2. RecordsPart'
  BY <1>1, UntouchedRecords DEF DeskInv
<1>3. CountsInv'
  BY DEF DeskInv, CountsInv, UnfilledIn, UnpaidIn
<1>. QED
  BY <1>2, <1>3 DEF DeskInv, FileShape

\* Every step keeps the invariant.
LEMMA DeskNext == RiskInv /\ StatsInv /\ DeskInv /\ [TradingNext]_trading_vars => DeskInv'
<1>. SUFFICES ASSUME RiskInv, StatsInv, DeskInv, [TradingNext]_trading_vars PROVE DeskInv'
  OBVIOUS
<1>0. /\ OrdersPart /\ RecordsPart /\ CountsInv /\ FileShape /\ PlainInv
      /\ LastSignal \in Nat
  BY NextSignal DEF DeskInv, OrdersPart
<1>1. OrdersPart'
  BY <1>0, OrdersPartNext
<1>2. ASSUME NEW o \in orders, NEW n \in 1 .. o.size, Fill(o, n), pc # "settle" PROVE DeskInv'
  <2>1. file' = file
    BY <1>2 DEF Fill, process_vars
  <2>2. RecordsPart' /\ CountsInv'
    BY <1>0, <1>2, FilledRecords, FilledCounts
  <2>. QED
    BY <1>0, <1>1, <2>1, <2>2 DEF DeskInv, FileShape
<1>3. ASSUME NEW o \in orders, SettlePosition(o) PROVE DeskInv'
  <2>1. file' = [whole |-> TRUE, stats |-> strat_stats']
    BY <1>3 DEF SettlePosition, strat_stats_save
  <2>2. RecordsPart' /\ CountsInv'
    BY <1>0, <1>3, SettledRecords, SettledCounts
  <2>. QED
    BY <1>0, <1>1, <2>1, <2>2 DEF DeskInv, FileShape
<1>4. ASSUME NEW m \in Strategies, NEW winner \in BOOLEAN, Resolution(m, winner) PROVE DeskInv'
  <2>1. LastSignal' = LastSignal
    BY <1>0, <1>4, ResolvedOrders
  <2>2. UNCHANGED <<orders, next_oid, lc_tracker, strat_stats, file>>
    BY <1>4 DEF Resolution, process_vars
  <2>. QED
    BY <1>0, <1>1, <2>1, <2>2, UntouchedDesk
<1>5. CASE Idle
  BY <1>1, <1>5, UntouchedDesk DEF Idle
<1>6. CASE Crash \/ Shutdown \/ CrashInSave
  BY <1>1, <1>6, StartedDesk
<1>7. CASE UNCHANGED trading_vars
  <2>1. LastSignal' = LastSignal
    BY <1>7 DEF trading_vars, LastSignal
  <2>. QED
    BY <1>0, <1>1, <1>7, <2>1, UntouchedDesk DEF trading_vars, process_vars
<1>8. CASE TradingNext
  BY <1>0, <1>2, <1>3, <1>4, <1>5, <1>6, <1>8, SignalsDesk, DeskSteps
<1>. QED
  BY <1>7, <1>8

\* The orders, the records kept of their signals and the counters of their strategies agree in
\* every state the engine reaches, whatever it crashed in before.
THEOREM DeskInvariant == TradingSpec => []DeskInv
<1>1. TradingInit => DeskInv
  <2>. SUFFICES ASSUME TradingInit PROVE DeskInv
    OBVIOUS
  <2>2. strat_stats = ZeroStats /\ file = [whole |-> FALSE, stats |-> ZeroStats] /\ orders = {}
    BY DEF TradingInit, NoFile
  <2>3. FileShape
    BY <2>2 DEF FileShape
  <2>5. OrdersPart
    BY <2>2, FS_EmptySet DEF TradingInit, OrdersPart, PlainInv, OrdersSound, SettlingInv, NotSettling
  <2>6. lc_tracker = [records |-> <<>>, completed_count |-> 0] /\ Records = <<>> /\ DOMAIN Records = {}
    BY DEF TradingInit, pt_lifecycle_tracker_init, Records
  <2>7. RecordsPart
    <3>1. <<>> \in Seq(LcRecord) /\ Len(<<>>) <= MaxRecords
      BY LifecycleAssumption
    <3>2. RecordsInv /\ Done = {} /\ FillsTraced
      BY <2>6, <3>1, TracedMeans DEF RecordsInv, Done
    <3>. QED
      BY <2>6, <3>2, FS_EmptySet DEF RecordsPart, DoneInv
  <2>8. CountsInv
    <3>1. \A s \in Strategies : LeavesRoom(s, ZeroStats[s], 0, 0)
      BY DEF LeavesRoom, ZeroStats, NoCounts
    <3>2. \A s \in Strategies : UnfilledIn(orders, s) = {} /\ UnpaidIn(orders, s) = {}
      BY <2>2 DEF UnfilledIn, UnpaidIn
    <3>3. file.stats = ZeroStats /\ Cardinality({}) = 0
      BY <2>2, FS_EmptySet
    <3>. QED
      BY <2>2, <3>1, <3>2, <3>3 DEF CountsInv
  <2>. QED
    BY <2>3, <2>5, <2>7, <2>8 DEF DeskInv
<1>. QED
  BY <1>1, RiskInvariant, StatsInvariant, DeskNext, PTL DEF TradingSpec

\* For every size of order and of the table of records: each leg of a record has filled what its
\* order was filled, through both callbacks and whatever the order they come in.
THEOREM FillsTracedAlways == TradingSpec => []FillsTraced
<1>1. DeskInv => FillsTraced
  BY DEF DeskInv, RecordsPart
<1>. QED
  BY <1>1, DeskInvariant, PTL

\* A record is completed when an order of its signal is paid, once, and no other record is.
THEOREM CompletedOnSettlementAlways == TradingSpec => []CompletedOnSettlement
<1>1. DeskInv => CompletedOnSettlement
  BY DoneMeans DEF DeskInv, RecordsPart
<1>. QED
  BY <1>1, DeskInvariant, PTL

\* No strategy fills or settles more orders than it sent, sends more than its approved signals
\* allow or has more of them approved than judged, in memory and in the file, across restarts.
THEOREM CountersNestAlways == TradingSpec => []CountersNest
<1>1. PlainInv /\ StatsInv /\ CountsInv => CountersNest
  <2>. SUFFICES ASSUME PlainInv, StatsInv, CountsInv, NEW s \in Strategies
                PROVE  \A c \in {strat_stats[s], file.stats[s]} :
                         /\ c.fills <= c.orders_submitted
                         /\ c.wins + c.losses <= c.orders_submitted
                         /\ c.orders_submitted <= (IF s = "A" THEN 2 ELSE 1) * c.risk_approved
                         /\ c.risk_approved <= c.signals
    BY DEF CountersNest
  <2>1. strat_stats \in Stats /\ file.stats \in Stats
    BY DEF StatsInv
  <2>. DEFINE f == Cardinality(UnfilledIn(orders, s))
              p == Cardinality(UnpaidIn(orders, s))
  <2>2. f \in Nat /\ p \in Nat
    BY CountedSets
  <2>3. LeavesRoom(s, strat_stats[s], f, p) /\ LeavesRoom(s, file.stats[s], 0, 0)
    BY DEF CountsInv
  <2>. HIDE DEF f, p
  <2>4. LeavesRoom(s, strat_stats[s], 0, 0)
    BY <2>1, <2>2, <2>3, RoomSaved
  <2>5. /\ strat_stats[s].fills \in Nat /\ strat_stats[s].wins \in Nat /\ strat_stats[s].losses \in Nat
        /\ file.stats[s].fills \in Nat /\ file.stats[s].wins \in Nat /\ file.stats[s].losses \in Nat
    BY <2>1, RowNumbers
  <2>. QED
    BY <2>3, <2>4, <2>5 DEF LeavesRoom
<1>2. DeskInv => PlainInv /\ CountsInv
  BY DEF DeskInv, OrdersPart
<1>. QED
  BY <1>1, <1>2, StatsInvariant, DeskInvariant, PTL

\* Every variable of the engine keeps its type: what an order, a record, an operation or a row
\* of counters is, through signals, fills, settlements, crashes and restarts.
THEOREM TradingTypeCorrect == TradingSpec => []TradingTypeOK
<1>1. RiskInv /\ ArbInv /\ StatsInv /\ DeskInv => TradingTypeOK
  <2>. SUFFICES ASSUME RiskInv, ArbInv, StatsInv, DeskInv PROVE TradingTypeOK
    OBVIOUS
  <2>1. PlainInv /\ SettlingInv /\ RecordsInv /\ DoneInv /\ FileShape
    BY DEF DeskInv, OrdersPart, RecordsPart
  <2>2. file \in [whole : BOOLEAN, stats : [Strategies -> StratCounters]]
    BY <2>1 DEF FileShape, StatsInv, Stats
  <2>3. /\ lc_tracker.records \in Seq(LcRecord) /\ lc_tracker.completed_count \in Nat
        /\ Len(lc_tracker.records) <= MaxRecords
    BY <2>1 DEF RecordsInv, DoneInv, Records
  <2>4. /\ settling.left \subseteq orders /\ settling.winner \in BOOLEAN
        /\ orders \subseteq DeskOrder /\ next_oid \in Nat \ {0} /\ losing_run \in Nat
        /\ settled \subseteq Strategies /\ tick_count \in Nat
        /\ pc \in {"poll", "settle", "a", "b", "tick"}
    BY <2>1 DEF PlainInv, SettlingInv
  <2>. QED
    BY <2>2, <2>3, <2>4 DEF TradingTypeOK, RiskInv, ArbInv, StatsInv, Stats
<1>. QED
  BY <1>1, RiskInvariant, ArbInvariant, StatsInvariant, DeskInvariant, PTL

=============================================================================
