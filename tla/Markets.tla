------------------------------ MODULE Markets ------------------------------
(***************************************************************************)
(* From a market's discovery to its payoff: the registry                   *)
(* (core/pt_market_registry.c), the lines the feed bridge dispatches to it *)
(* (net/pt_feed_bridge.c) and what main() trades and ticks.  Lines are     *)
(* lost, repeated and reordered at will; the collector sends the lines of  *)
(* the markets in Announced only.                                          *)
(*                                                                         *)
(* What the engine may know of a market of the exchange is its condition   *)
(* id, which names its two tokens.  The contents of the books, the         *)
(* strategies' signals and the sizes of fills are data: an order may be    *)
(* placed whenever the market can trade, and filled, in part or in full,   *)
(* whenever a trade or a tick reaches its market.                          *)
(***************************************************************************)
EXTENDS Integers, FiniteSets

CONSTANTS
  Conds,         \* condition ids: the markets of the exchange
  Ids,           \* market ids
  Announced,     \* the pairs of ids the collector uses in its messages
  Five, Fifteen, \* the markets of a duration fit for strategy A, for strategy B
  Start, End,    \* the wall-clock window of each market
  Result,        \* whether YES wins
  NoCond,        \* the condition of a registry slot never used
  NoToken,       \* a resolution without a winning asset
  OtherToken,    \* a winning asset that is no token of the market
  Epoch,         \* wall clock less monotonic clock
  Cutoff,        \* can_trade stops this long before the end (5 s in the code)
  MaxMarkets,    \* PT_MAX_MARKETS (64 in the code)
  MaxOrders,     \* bound: orders and positions at a time
  MaxTime        \* bound: last value of the monotonic clock

ASSUME MarketsAssumption ==
  /\ Ids \subseteq Nat \ {0}
  /\ Announced \subseteq [id : Ids, cond : Conds]
  /\ Five \subseteq Conds /\ Fifteen \subseteq Conds
  /\ Start \in [Conds -> Nat \ {0}] /\ End \in [Conds -> Nat \ {0}]
  /\ Result \in [Conds -> BOOLEAN]
  /\ NoCond \notin Conds
  /\ NoToken # OtherToken
  /\ \A cond \in Conds, is_yes \in BOOLEAN :
       [cond |-> cond, is_yes |-> is_yes] \notin {NoToken, OtherToken}
  /\ Epoch \in Nat /\ Cutoff \in Nat
  /\ MaxMarkets \in Nat /\ MaxOrders \in Nat /\ MaxTime \in Nat

VARIABLES
  markets,     \* reg->markets
  count,       \* reg->count
  active_id,   \* reg->active_market_id
  active_5m,   \* reg->active_5m_id
  active_15m,  \* reg->active_15m_id
  open,        \* orders the broker holds
  held,        \* positions of the portfolio with shares
  paid,        \* history: whose positions were paid off, and as which winner
  t0           \* main()'s t0, the monotonic clock

vars == <<markets, count, active_id, active_5m, active_15m, open, held, paid, t0>>

Slots == 1 .. MaxMarkets

States == {"EMPTY", "SUBSCRIBING", "ACTIVE", "PENDING_RESOLUTION", "RESOLVED"}

\* `about` is the market whose tokens and times the entry holds.
Entry ==
  [id : Ids \cup {0}, cond : Conds \cup {NoCond}, about : Conds \cup {NoCond},
   state : States, winner : BOOLEAN]

EmptyEntry == [id |-> 0, cond |-> NoCond, about |-> NoCond, state |-> "EMPTY", winner |-> FALSE]

\* The broker and the portfolio know a market id and an outcome; `cond` is the market of
\* the exchange the order was meant for.
Stake == [market : Ids, is_yes : BOOLEAN, cond : Conds]

Token(cond, is_yes) == [cond |-> cond, is_yes |-> is_yes]

\* What the collector may report once a market is resolved: the winning token, or one the
\* engine does not know, with an outcome text that is NO unless it reads YES, UP or 1; or
\* the text alone.
Reports ==
  {[id |-> a.id, cond |-> a.cond, asset |-> OtherToken, outcome |-> outcome] :
     a \in Announced, outcome \in BOOLEAN}
  \cup {[id |-> a.id, cond |-> a.cond, asset |-> Token(a.cond, Result[a.cond]), outcome |-> outcome] :
     a \in Announced, outcome \in BOOLEAN}
  \cup {[id |-> a.id, cond |-> a.cond, asset |-> NoToken, outcome |-> Result[a.cond]] : a \in Announced}

-----------------------------------------------------------------------------
(***************************************************************************)
(* The registry.                                                           *)
(***************************************************************************)

\* Seeded fault: the scan stops one entry short.
KnownButLast == 1 .. count - 1

Known == 1 .. count

IsFirst(i, s) == i \in s /\ \A j \in s : i <= j

ById(id) == {i \in Known : markets[i].id = id}

ByCondition(cond) == {i \in Known : markets[i].cond = cond}

ByToken(cond) == {i \in Known : markets[i].about = cond}

\* A discovered market is one already there when either id agrees.
SameMarket(a) == ById(a.id) \cup ByCondition(a.cond)

Resolved(i) == markets[i].state = "RESOLVED"

\* Seeded fault: a market whose result came in stays the selected one.
SelectableForever(i) == markets[i].state # "EMPTY"

Selectable(i) == markets[i].state \in {"SUBSCRIBING", "ACTIVE"}

FitsA(i) == markets[i].about \in Five
FitsB(i) == markets[i].about \in Fifteen

\* The selection of pt_market_registry_get_active*: the market of `id` as long as it is in
\* `fit` and selectable, else the first one that is; the empty set for NULL.
Selection(id, fit) ==
  LET able  == {i \in fit : Selectable(i)}
      stays == {i \in able : IsFirst(i, ById(id))}
  IN  IF stays # {} THEN stays ELSE {i \in able : IsFirst(i, able)}

\* The id a selection leaves behind.
SelectedId(selection, id) ==
  IF selection = {} THEN {id} ELSE {markets[i].id : i \in selection}

\* pt_market_entry_can_trade at the monotonic time now.
CanTrade(i, now) ==
  /\ markets[i].state = "ACTIVE"
  /\ now >= Start[markets[i].about]
  /\ now + Cutoff < End[markets[i].about]

NewEntry(a) ==
  [id |-> a.id, cond |-> a.cond, about |-> a.cond, state |-> "SUBSCRIBING", winner |-> FALSE]

\* Seeded fault: an unknown winning asset falls back to the outcome text.
WinnersByText(about, report) ==
  IF report.asset \in {NoToken, OtherToken} THEN {report.outcome}
  ELSE {is_yes \in BOOLEAN : report.asset = Token(about, is_yes)}

\* The winner a report names: the asset decides when there is one; empty when unknown.
Winners(about, report) ==
  IF report.asset = NoToken THEN {report.outcome}
  ELSE {is_yes \in BOOLEAN : report.asset = Token(about, is_yes)}

-----------------------------------------------------------------------------
Init ==
  /\ markets = [i \in Slots |-> EmptyEntry]
  /\ count = 0
  /\ active_id = 0 /\ active_5m = 0 /\ active_15m = 0
  /\ open = {} /\ held = {} /\ paid = {}
  /\ t0 = 0

\* A discovery line of a market already in the registry: its tokens and times are
\* replaced, and it is subscribing again whatever it was.
Rediscover(a) ==
  /\ \E i \in Slots :
       /\ IsFirst(i, SameMarket(a))
       /\ markets' = [markets EXCEPT ![i] = [@ EXCEPT !.about = a.cond, !.state = "SUBSCRIBING"]]
  /\ UNCHANGED <<count, active_id, active_5m, active_15m, open, held, paid, t0>>

\* Seeded fault: nothing checks that the registry has room.
DiscoverUnbounded(a) ==
  /\ SameMarket(a) = {}
  /\ count' = count + 1
  /\ markets' = [markets EXCEPT ![count + 1] = NewEntry(a)]
  /\ UNCHANGED <<active_id, active_5m, active_15m, open, held, paid, t0>>

\* A discovery line of a new market; with the registry full it is dropped.
Discover(a) ==
  /\ SameMarket(a) = {}
  /\ count < MaxMarkets
  /\ count' = count + 1
  /\ markets' = [markets EXCEPT ![count + 1] = NewEntry(a)]
  /\ active_id'  = IF active_id = 0 THEN a.id ELSE active_id
  /\ active_5m'  = IF active_5m = 0 /\ a.cond \in Five THEN a.id ELSE active_5m
  /\ active_15m' = IF active_15m = 0 /\ a.cond \in Fifteen THEN a.id ELSE active_15m
  /\ UNCHANGED <<open, held, paid, t0>>

\* The entry a report resolves: by its condition, else by its id.
ResolvedEntry(report) ==
  IF ByCondition(report.cond) # {} THEN ByCondition(report.cond) ELSE ById(report.id)

\* Seeded fault: only the winning positions are paid off and closed.
DueWinning(market, winner) == {h \in held : h.market = market /\ h.is_yes = winner}

\* The positions pt_portfolio_settle_market closes.
Due(market, winner) == {h \in held : h.market = market}

\* A resolution line.  It settles the market id of the message, which need not be the
\* entry's.
Resolve(report) ==
  /\ \E i \in Slots :
       /\ IsFirst(i, ResolvedEntry(report))
       /\ ~Resolved(i)
       /\ \/ /\ Winners(markets[i].about, report) = {}
             /\ markets' = [markets EXCEPT ![i] = [@ EXCEPT !.state = "PENDING_RESOLUTION"]]
             /\ UNCHANGED <<held, paid>>
          \/ \E winner \in Winners(markets[i].about, report) :
               /\ markets' = [markets EXCEPT ![i] =
                                [@ EXCEPT !.state = "RESOLVED", !.winner = winner]]
               /\ held' = held \ Due(report.id, winner)
               /\ paid' = paid \cup {[cond |-> h.cond, winner |-> winner] : h \in Due(report.id, winner)}
  /\ UNCHANGED <<count, active_id, active_5m, active_15m, open, t0>>

\* A book snapshot, or a book message of the older form.
Snapshot(cond) ==
  /\ \E i \in Slots :
       /\ IsFirst(i, ByToken(cond))
       /\ markets[i].state = "SUBSCRIBING"
       /\ markets' = [markets EXCEPT ![i] = [@ EXCEPT !.state = "ACTIVE"]]
  /\ UNCHANGED <<count, active_id, active_5m, active_15m, open, held, paid, t0>>

\* Some of the orders of `reached` are filled, some of those completely.
Fills(pool, reached) ==
  \E filled \in SUBSET reached :
    \E complete \in SUBSET filled :
      /\ held' = held \cup filled
      /\ open' = pool \ complete

\* A trade line: whatever the state of its market, it may fill orders on its token.
Trade(cond, is_yes) ==
  /\ \E i \in Slots :
       /\ IsFirst(i, ByToken(cond))
       /\ Fills(open, {o \in open : o.market = markets[i].id /\ o.is_yes = is_yes})
  /\ UNCHANGED <<markets, count, active_id, active_5m, active_15m, paid, t0>>

\* An order for one outcome of the market in slot i.
Leg(i, is_yes) == [market |-> markets[i].id, is_yes |-> is_yes, cond |-> markets[i].about]

\* The orders a strategy may place in the slots of `at`.
Legs(at) == UNION {{Leg(i, TRUE), Leg(i, FALSE)} : i \in at}

\* The market main() selects for anything, and those it selects for the two durations.
MarketAny == Selection(active_id, Known)
Market5m  == Selection(active_5m, {i \in Known : FitsA(i)})
Market15m == Selection(active_15m, {i \in Known : FitsB(i)})

\* The markets given to strategies A and B.
MarketA == IF Market5m # {} THEN Market5m ELSE MarketAny
MarketB == IF Market15m # {} THEN Market15m ELSE MarketAny

\* Where a strategy may place orders now.
Trading ==
  {i \in MarketA : FitsA(i) /\ CanTrade(i, t0)} \cup {i \in MarketB : FitsB(i) /\ CanTrade(i, t0)}

\* The one market the broker is ticked for.
Ticked == IF MarketA # {} THEN MarketA ELSE MarketB

\* The rest of an iteration of main()'s loop after the poll: it selects the markets of both
\* strategies, lets each place orders, and ticks the broker for one market only.
Turn ==
  /\ active_id'  \in SelectedId(MarketAny, active_id)
  /\ active_5m'  \in SelectedId(Market5m, active_5m)
  /\ active_15m' \in SelectedId(Market15m, active_15m)
  /\ \E placed \in SUBSET Legs(Trading) :
       /\ placed # {} => Cardinality(open \cup placed) + Cardinality(held) <= MaxOrders
       /\ Fills(open \cup placed,
                {o \in open \cup placed : \E i \in Ticked : o.market = markets[i].id})
  /\ UNCHANGED <<markets, count, paid, t0>>

Advance ==
  /\ t0 < MaxTime
  /\ t0' = t0 + 1
  /\ UNCHANGED <<markets, count, active_id, active_5m, active_15m, open, held, paid>>

Next ==
  \/ \E a \in Announced : Rediscover(a) \/ Discover(a)
  \/ \E report \in Reports : Resolve(report)
  \/ \E cond \in Conds : Snapshot(cond) \/ \E is_yes \in BOOLEAN : Trade(cond, is_yes)
  \/ Turn
  \/ Advance

Spec == Init /\ [][Next]_vars

\* main() goes round until it is told to stop; nothing is asked of the feed.
FairSpec == Spec /\ WF_vars(Turn)

-----------------------------------------------------------------------------
(***************************************************************************)
(* Properties.                                                             *)
(***************************************************************************)

\* Type invariant.
TypeOK ==
  /\ markets \in [Slots -> Entry]
  /\ count \in 0 .. MaxMarkets
  /\ {active_id, active_5m, active_15m} \subseteq Ids \cup {0}
  /\ open \subseteq Stake /\ held \subseteq Stake
  /\ paid \subseteq [cond : Conds, winner : BOOLEAN]
  /\ t0 \in Nat

\* Discoveries, repeated in any order, never put a market into the registry twice: every
\* lookup by id or by condition is unambiguous.
RegistryKeys ==
  \A i, j \in 1 .. count :
    markets[i].id = markets[j].id \/ markets[i].cond = markets[j].cond => i = j

\* The collector derives a market id from the condition id, and no two markets collide.
OneIdPerCondition == \A a, b \in Announced : a.id = b.id <=> a.cond = b.cond

\* Whatever was announced, lost, repeated, reopened or reported with an unknown asset or a
\* wrong text, a position is paid off only as the result of the market it was taken in.
PaidByOwnResult == \A p \in paid : p.winner = Result[p.cond]

\* A market leaves for RESOLVED with none of its positions behind: the bridge reports it
\* "verified & settled", and duplicates of the report are refused from then on.
ResolutionSettles ==
  [][\A i \in Slots :
       ~Resolved(i) /\ Resolved(i)' => \A h \in held' : h.market # markets[i].id]_vars

\* A market that is active and inside its window, not yet in the cutoff before its end,
\* can be traded (pt_market_registry.h, "Check if market is tradeable").
WindowIsTradeable ==
  \A i \in Known :
    /\ markets[i].state = "ACTIVE"
    /\ t0 + Epoch >= Start[markets[i].about]
    /\ t0 + Epoch + Cutoff < End[markets[i].about]
    => CanTrade(i, t0)

\* Strategy A is stuck on a market it can no longer trade while it has another.
Stuck ==
  /\ \E i \in Known : FitsA(i) /\ markets[i].state \in {"SUBSCRIBING", "ACTIVE"}
  /\ \A i \in ById(active_5m) : markets[i].state \in {"PENDING_RESOLUTION", "RESOLVED"}

\* However markets are resolved and announced, main() does not stay with a finished
\* 5-minute market while another one is there.
RotationHappens == Stuck ~> ~Stuck

=============================================================================
