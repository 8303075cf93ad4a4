--------------------------- MODULE MarketsProofs ---------------------------
(***************************************************************************)
(* Theorems about Markets: its type invariant and the keys of the registry *)
(* for any announcements, and that positions are paid by their own         *)
(* market's result, completely, when no two markets share an id.           *)
(***************************************************************************)
EXTENDS Markets, TLAPS

\* Entries in use come from an announcement, and no two agree in an id.
Registered ==
  /\ \A i \in 1 .. count : [id |-> markets[i].id, cond |-> markets[i].cond] \in Announced
  /\ \A i \in 1 .. count : markets[i].about \in Conds
  /\ RegistryKeys

\* The invariant that holds for any announcements.
RegInv == TypeOK /\ Registered

\* An announcement is a pair of a market id and a condition.
LEMMA AnnouncedPair ==
  ASSUME NEW a \in Announced
  PROVE  /\ a.id \in Ids /\ a.cond \in Conds /\ a.id \in Nat \ {0}
         /\ a = [id |-> a.id, cond |-> a.cond]
BY MarketsAssumption

\* A report is about an announced market, and the winning asset it names, or its text
\* when it names none, is that market's result.
LEMMA ReportOfAnnounced ==
  ASSUME NEW report \in Reports
  PROVE  /\ [id |-> report.id, cond |-> report.cond] \in Announced
         /\ report.outcome \in BOOLEAN
         /\ report.asset \in {NoToken, OtherToken, Token(report.cond, Result[report.cond])}
         /\ report.asset = NoToken => report.outcome = Result[report.cond]
<1>1. PICK a \in Announced, outcome \in BOOLEAN,
           asset \in {NoToken, OtherToken} \cup {Token(c, Result[c]) : c \in Conds} :
        /\ report = [id |-> a.id, cond |-> a.cond, asset |-> asset, outcome |-> outcome]
        /\ \/ asset = OtherToken
           \/ asset = Token(a.cond, Result[a.cond])
           \/ asset = NoToken /\ outcome = Result[a.cond]
  BY MarketsAssumption, AnnouncedPair DEF Reports
<1>2. asset = Token(a.cond, Result[a.cond]) => asset # NoToken
  BY AnnouncedPair, MarketsAssumption DEF Token
<1>3. asset = OtherToken => asset # NoToken
  BY MarketsAssumption
<1>. QED
  BY <1>1, <1>2, <1>3, AnnouncedPair

\* The winners a report names are booleans.
LEMMA WinnersBoolean ==
  ASSUME NEW about, NEW report \in Reports
  PROVE  Winners(about, report) \subseteq BOOLEAN
BY ReportOfAnnounced DEF Winners

\* An order placed for a registered market is a well-formed stake.
LEMMA LegStake ==
  ASSUME RegInv, NEW i \in 1 .. count, NEW is_yes \in BOOLEAN
  PROVE  Leg(i, is_yes) \in Stake
<1>1. i \in Slots /\ markets[i].about \in Conds
  BY MarketsAssumption DEF RegInv, TypeOK, Registered, Slots
<1>2. markets[i].id \in Ids
  <2>1. [id |-> markets[i].id, cond |-> markets[i].cond] \in Announced
    BY DEF RegInv, Registered
  <2>. QED
    BY <2>1, AnnouncedPair
<1>. QED
  BY <1>1, <1>2 DEF Leg, Stake

\* An order of a strategy is for one outcome of one of the slots.
LEMMA LegOf ==
  ASSUME NEW at, NEW s \in Legs(at)
  PROVE  \E i \in at, is_yes \in BOOLEAN : s = Leg(i, is_yes)
BY DEF Legs

\* The invariant holds of the empty registry.
LEMMA InitRegInv == Init => RegInv
<1>. SUFFICES ASSUME Init PROVE RegInv
  OBVIOUS
<1>1. EmptyEntry \in Entry
  BY DEF EmptyEntry, Entry, States
<1>2. TypeOK
  BY <1>1, MarketsAssumption DEF Init, TypeOK
<1>3. Registered
  BY DEF Init, Registered, RegistryKeys
<1>. QED
  BY <1>2, <1>3 DEF RegInv

\* A new state, token set or winner of an entry in use leaves the registry in order.
LEMMA EntryUpdate ==
  ASSUME RegInv, NEW i \in 1 .. count, NEW e \in Entry,
         e.id = markets[i].id, e.cond = markets[i].cond, e.about \in Conds,
         markets' = [markets EXCEPT ![i] = e], count' = count
  PROVE  markets' \in [Slots -> Entry] /\ Registered'
<1>1. markets \in [Slots -> Entry] /\ count \in 0 .. MaxMarkets /\ i \in Slots
  BY MarketsAssumption DEF RegInv, TypeOK, Slots
<1>2. markets' \in [Slots -> Entry]
  BY <1>1
<1>3. \A j \in 1 .. count : /\ markets'[j].id = markets[j].id
                            /\ markets'[j].cond = markets[j].cond
                            /\ markets'[j].about \in Conds
  <2>1. \A j \in 1 .. count : j \in Slots
    BY <1>1, MarketsAssumption DEF Slots
  <2>. QED
    BY <1>1, <2>1 DEF RegInv, Registered
<1>. QED
  BY <1>2, <1>3 DEF RegInv, Registered, RegistryKeys

\* A repeated discovery keeps the invariant.
LEMMA RediscoverRegInv ==
  ASSUME RegInv, NEW a \in Announced, Rediscover(a)
  PROVE  RegInv'
<1>1. PICK i \in Slots :
        /\ IsFirst(i, SameMarket(a))
        /\ markets' = [markets EXCEPT ![i] = [@ EXCEPT !.about = a.cond, !.state = "SUBSCRIBING"]]
  BY DEF Rediscover
<1>. DEFINE e == [markets[i] EXCEPT !.about = a.cond, !.state = "SUBSCRIBING"]
<1>2. i \in 1 .. count /\ count' = count
  BY <1>1 DEF IsFirst, SameMarket, ById, ByCondition, Known, Rediscover
<1>3. /\ markets[i] \in Entry /\ e \in Entry /\ e.id = markets[i].id
      /\ e.cond = markets[i].cond /\ e.about \in Conds
  <2>1. markets[i] \in Entry
    BY DEF RegInv, TypeOK
  <2>2. a.cond \in Conds
    BY AnnouncedPair
  <2>3. "SUBSCRIBING" \in States
    BY DEF States
  <2>. QED
    BY <2>1, <2>2, <2>3 DEF Entry
<1>4. markets' = [markets EXCEPT ![i] = e]
  BY <1>1
<1>5. markets' \in [Slots -> Entry] /\ Registered'
  BY <1>2, <1>3, <1>4, EntryUpdate
<1>. QED
  BY <1>5 DEF RegInv, TypeOK, Rediscover

\* A new market takes the next slot, under ids no other entry has.
LEMMA DiscoverRegInv ==
  ASSUME RegInv, NEW a \in Announced, Discover(a)
  PROVE  RegInv'
<1>. DEFINE n == count + 1
<1>1. /\ a.id \in Ids /\ a.cond \in Conds
      /\ [id |-> a.id, cond |-> a.cond] \in Announced
  BY AnnouncedPair
<1>2. /\ count \in 0 .. MaxMarkets /\ count < MaxMarkets /\ count' = n /\ n \in Slots
      /\ markets \in [Slots -> Entry] /\ markets' = [markets EXCEPT ![n] = NewEntry(a)]
  BY MarketsAssumption DEF RegInv, TypeOK, Discover, Slots
<1>3. NewEntry(a) \in Entry
  BY <1>1 DEF NewEntry, Entry, States
<1>4. TypeOK'
  <2>1. markets' \in [Slots -> Entry] /\ count' \in 0 .. MaxMarkets
    BY <1>2, <1>3, MarketsAssumption DEF Slots
  <2>2. {active_id, active_5m, active_15m}' \subseteq Ids \cup {0}
    BY <1>1 DEF RegInv, TypeOK, Discover
  <2>. QED
    BY <2>1, <2>2 DEF RegInv, TypeOK, Discover
<1>5. markets'[n] = NewEntry(a) /\ \A j \in 1 .. count : markets'[j] = markets[j] /\ j \in Slots
  BY <1>2, MarketsAssumption DEF Slots
<1>6. \A j \in 1 .. count : markets[j].id # a.id /\ markets[j].cond # a.cond
  BY DEF Discover, SameMarket, ById, ByCondition, Known
<1>7. NewEntry(a).id = a.id /\ NewEntry(a).cond = a.cond /\ NewEntry(a).about = a.cond
  BY DEF NewEntry
<1>8. \A j \in 1 .. count' : j = n \/ j \in 1 .. count
  BY <1>2
<1>9. Registered'
  <2>1. \A j \in 1 .. count' : [id |-> markets'[j].id, cond |-> markets'[j].cond] \in Announced
    BY <1>1, <1>5, <1>7, <1>8 DEF RegInv, Registered
  <2>2. \A j \in 1 .. count' : markets'[j].about \in Conds
    BY <1>1, <1>5, <1>7, <1>8 DEF RegInv, Registered
  <2>3. RegistryKeys'
    BY <1>5, <1>6, <1>7, <1>8 DEF RegInv, Registered, RegistryKeys
  <2>. QED
    BY <2>1, <2>2, <2>3 DEF Registered
<1>. QED
  BY <1>4, <1>9 DEF RegInv

\* A resolution keeps the invariant.
LEMMA ResolveRegInv ==
  ASSUME RegInv, NEW report \in Reports, Resolve(report)
  PROVE  RegInv'
<1>1. PICK i \in Slots :
        /\ IsFirst(i, ResolvedEntry(report))
        /\ \/ /\ markets' = [markets EXCEPT ![i] = [@ EXCEPT !.state = "PENDING_RESOLUTION"]]
              /\ UNCHANGED <<held, paid>>
           \/ \E winner \in Winners(markets[i].about, report) :
                /\ markets' = [markets EXCEPT ![i] =
                                 [@ EXCEPT !.state = "RESOLVED", !.winner = winner]]
                /\ held' = held \ Due(report.id, winner)
                /\ paid' = paid \cup {[cond |-> h.cond, winner |-> winner] : h \in Due(report.id, winner)}
  BY DEF Resolve
<1>2. i \in 1 .. count /\ count' = count
  BY <1>1 DEF IsFirst, ResolvedEntry, ById, ByCondition, Known, Resolve
<1>3. markets[i] \in Entry /\ markets[i].about \in Conds
  BY <1>2 DEF RegInv, TypeOK, Registered
<1>4. markets' \in [Slots -> Entry] /\ Registered' /\ held' \subseteq Stake
      /\ paid' \subseteq [cond : Conds, winner : BOOLEAN]
  <2>1. CASE markets' = [markets EXCEPT ![i] = [@ EXCEPT !.state = "PENDING_RESOLUTION"]]
             /\ UNCHANGED <<held, paid>>
    <3>. DEFINE e == [markets[i] EXCEPT !.state = "PENDING_RESOLUTION"]
    <3>1. /\ e \in Entry /\ e.id = markets[i].id /\ e.cond = markets[i].cond
          /\ e.about = markets[i].about /\ markets' = [markets EXCEPT ![i] = e]
      BY <1>3, <2>1 DEF Entry, States
    <3>2. markets' \in [Slots -> Entry] /\ Registered'
      BY <1>2, <1>3, <3>1, EntryUpdate
    <3>. QED
      BY <2>1, <3>2 DEF RegInv, TypeOK
  <2>2. ASSUME NEW winner \in Winners(markets[i].about, report),
               markets' = [markets EXCEPT ![i] = [@ EXCEPT !.state = "RESOLVED", !.winner = winner]],
               held' = held \ Due(report.id, winner),
               paid' = paid \cup {[cond |-> h.cond, winner |-> winner] : h \in Due(report.id, winner)}
        PROVE  markets' \in [Slots -> Entry] /\ Registered' /\ held' \subseteq Stake
               /\ paid' \subseteq [cond : Conds, winner : BOOLEAN]
    <3>. DEFINE e == [markets[i] EXCEPT !.state = "RESOLVED", !.winner = winner]
    <3>1. winner \in BOOLEAN
      BY <2>2, WinnersBoolean
    <3>2. /\ e \in Entry /\ e.id = markets[i].id /\ e.cond = markets[i].cond
          /\ e.about = markets[i].about /\ markets' = [markets EXCEPT ![i] = e]
      BY <1>3, <2>2, <3>1 DEF Entry, States
    <3>3. markets' \in [Slots -> Entry] /\ Registered'
      BY <1>2, <1>3, <3>2, EntryUpdate
    <3>4. \A h \in Due(report.id, winner) : h \in held /\ h.cond \in Conds
      BY DEF Due, RegInv, TypeOK, Stake
    <3>5. held' \subseteq Stake /\ paid' \subseteq [cond : Conds, winner : BOOLEAN]
      BY <2>2, <3>1, <3>4 DEF RegInv, TypeOK
    <3>. QED
      BY <3>3, <3>5
  <2>. QED
    BY <1>1, <2>1, <2>2
<1>. QED
  BY <1>2, <1>4 DEF RegInv, TypeOK, Resolve

\* A snapshot keeps the invariant.
LEMMA SnapshotRegInv ==
  ASSUME RegInv, NEW cond \in Conds, Snapshot(cond)
  PROVE  RegInv'
<1>1. PICK i \in Slots :
        /\ IsFirst(i, ByToken(cond))
        /\ markets' = [markets EXCEPT ![i] = [@ EXCEPT !.state = "ACTIVE"]]
  BY DEF Snapshot
<1>. DEFINE e == [markets[i] EXCEPT !.state = "ACTIVE"]
<1>2. i \in 1 .. count /\ count' = count
  BY <1>1 DEF IsFirst, ByToken, Known, Snapshot
<1>3. markets[i] \in Entry /\ markets[i].about \in Conds
  BY <1>2 DEF RegInv, TypeOK, Registered
<1>4. /\ e \in Entry /\ e.id = markets[i].id /\ e.cond = markets[i].cond
      /\ e.about = markets[i].about /\ markets' = [markets EXCEPT ![i] = e]
  BY <1>1, <1>3 DEF Entry, States
<1>5. markets' \in [Slots -> Entry] /\ Registered'
  BY <1>2, <1>3, <1>4, EntryUpdate
<1>. QED
  BY <1>5 DEF RegInv, TypeOK, Snapshot

\* Fills of orders in a pool of stakes leave stakes.
LEMMA FillsStakes ==
  ASSUME NEW pool, NEW reached, pool \subseteq Stake, reached \subseteq pool,
         held \subseteq Stake, Fills(pool, reached)
  PROVE  open' \subseteq pool /\ held' \subseteq held \cup pool
BY DEF Fills

\* A trade keeps the invariant.
LEMMA TradeRegInv ==
  ASSUME RegInv, NEW cond \in Conds, NEW is_yes \in BOOLEAN, Trade(cond, is_yes)
  PROVE  RegInv'
<1>1. PICK i \in Slots : Fills(open, {o \in open : o.market = markets[i].id /\ o.is_yes = is_yes})
  BY DEF Trade
<1>2. open' \subseteq Stake /\ held' \subseteq Stake
  BY <1>1, FillsStakes DEF RegInv, TypeOK
<1>. QED
  BY <1>2 DEF RegInv, TypeOK, Registered, RegistryKeys, Trade

\* A selection leaves an id or 0 behind.
LEMMA SelectedIdOk ==
  ASSUME RegInv, NEW selection, selection \subseteq 1 .. count, NEW id \in Ids \cup {0}
  PROVE  SelectedId(selection, id) \subseteq Ids \cup {0}
<1>1. \A i \in 1 .. count : markets[i].id \in Ids
  <2>1. \A i \in 1 .. count : [id |-> markets[i].id, cond |-> markets[i].cond] \in Announced
    BY DEF RegInv, Registered
  <2>. QED
    BY <2>1, AnnouncedPair
<1>. QED
  BY <1>1 DEF SelectedId

\* What Turn does to the orders and the ids, without the selections' details: it may place
\* orders for registered markets, fill some, and leave ids of registered markets behind.
LEMMA TurnEffect ==
  ASSUME RegInv, Turn
  PROVE  /\ UNCHANGED <<markets, count, paid, t0>>
         /\ {active_id, active_5m, active_15m}' \subseteq Ids \cup {0}
         /\ \E placed \in SUBSET Legs(1 .. count) :
              /\ open' \subseteq open \cup placed
              /\ held' \subseteq held \cup open \cup placed
<1>1. MarketAny \subseteq 1 .. count /\ Market5m \subseteq 1 .. count /\ Market15m \subseteq 1 .. count
  BY DEF MarketAny, Market5m, Market15m, Selection, Known
<1>2. Trading \subseteq 1 .. count
  BY <1>1 DEF Trading, MarketA, MarketB
<1>3. {active_id, active_5m, active_15m}' \subseteq Ids \cup {0}
  <2>1. {active_id, active_5m, active_15m} \subseteq Ids \cup {0}
    BY DEF RegInv, TypeOK
  <2>2. /\ SelectedId(MarketAny, active_id) \subseteq Ids \cup {0}
        /\ SelectedId(Market5m, active_5m) \subseteq Ids \cup {0}
        /\ SelectedId(Market15m, active_15m) \subseteq Ids \cup {0}
    BY <1>1, <2>1, SelectedIdOk
  <2>. QED
    BY <2>2 DEF Turn
<1>4. PICK placed \in SUBSET Legs(Trading) :
        Fills(open \cup placed,
              {o \in open \cup placed : \E i \in Ticked : o.market = markets[i].id})
  BY DEF Turn
<1>5. placed \in SUBSET Legs(1 .. count)
  BY <1>2, <1>4 DEF Legs
<1>6. open' \subseteq open \cup placed /\ held' \subseteq held \cup open \cup placed
  BY <1>4 DEF Fills
<1>. QED
  BY <1>3, <1>5, <1>6 DEF Turn

\* A turn of the loop keeps the invariant.
LEMMA TurnRegInv ==
  ASSUME RegInv, Turn
  PROVE  RegInv'
<1>1. PICK placed \in SUBSET Legs(1 .. count) :
        /\ open' \subseteq open \cup placed
        /\ held' \subseteq held \cup open \cup placed
  BY TurnEffect
<1>2. placed \subseteq Stake
  <2>. SUFFICES ASSUME NEW s \in placed PROVE s \in Stake
    OBVIOUS
  <2>1. PICK i \in 1 .. count, is_yes \in BOOLEAN : s = Leg(i, is_yes)
    <3>1. s \in Legs(1 .. count)
      OBVIOUS
    <3>. QED
      BY <3>1, LegOf
  <2>. QED
    BY <2>1, LegStake
<1>3. open' \subseteq Stake /\ held' \subseteq Stake
  BY <1>1, <1>2 DEF RegInv, TypeOK
<1>4. /\ UNCHANGED <<markets, count, paid, t0>>
      /\ {active_id, active_5m, active_15m}' \subseteq Ids \cup {0}
  BY TurnEffect
<1>. QED
  BY <1>3, <1>4 DEF RegInv, TypeOK, Registered, RegistryKeys

\* Every step keeps the invariant.
LEMMA NextRegInv == RegInv /\ [Next]_vars => RegInv'
<1>. SUFFICES ASSUME RegInv, [Next]_vars PROVE RegInv'
  OBVIOUS
<1>1. ASSUME NEW a \in Announced, Rediscover(a) PROVE RegInv'
  BY <1>1, RediscoverRegInv
<1>2. ASSUME NEW a \in Announced, Discover(a) PROVE RegInv'
  BY <1>2, DiscoverRegInv
<1>3. ASSUME NEW report \in Reports, Resolve(report) PROVE RegInv'
  BY <1>3, ResolveRegInv
<1>4. ASSUME NEW cond \in Conds, Snapshot(cond) PROVE RegInv'
  BY <1>4, SnapshotRegInv
<1>5. ASSUME NEW cond \in Conds, NEW is_yes \in BOOLEAN, Trade(cond, is_yes) PROVE RegInv'
  BY <1>5, TradeRegInv
<1>6. CASE Turn
  BY <1>6, TurnRegInv
<1>7. CASE Advance
  BY <1>7, MarketsAssumption DEF Advance, RegInv, TypeOK, Registered, RegistryKeys
<1>8. CASE UNCHANGED vars
  BY <1>8 DEF vars, RegInv, TypeOK, Registered, RegistryKeys
<1>. QED
  BY <1>1, <1>2, <1>3, <1>4, <1>5, <1>6, <1>7, <1>8 DEF Next

\* The registry, the orders and the positions stay well formed for any announcements.
THEOREM RegistryInvariant == Spec => []RegInv
<1>1. Init => RegInv
  BY InitRegInv
<1>2. RegInv /\ [Next]_vars => RegInv'
  BY NextRegInv
<1>. QED
  BY <1>1, <1>2, PTL DEF Spec

\* The type invariant of the market lifecycle.
THEOREM MarketsTypeCorrect == Spec => []TypeOK
<1>1. RegInv => TypeOK
  BY DEF RegInv
<1>. QED
  BY <1>1, RegistryInvariant, PTL

\* No id and no condition is ever in the registry twice, for any number of markets and
\* any announcements, pinned ids included.
THEOREM RegistryAlwaysKeyed == Spec => []RegistryKeys
<1>1. RegInv => RegistryKeys
  BY DEF RegInv, Registered
<1>. QED
  BY <1>1, RegistryInvariant, PTL

-----------------------------------------------------------------------------
(***************************************************************************)
(* With one id for each condition an entry holds its own market's tokens,  *)
(* and an order or a position under its id is meant for that market.       *)
(***************************************************************************)

OwnTokens == \A i \in 1 .. count : markets[i].about = markets[i].cond

OwnStakes == \A s \in open \cup held : [id |-> s.market, cond |-> s.cond] \in Announced

PaidInv == RegInv /\ OwnTokens /\ OwnStakes /\ PaidByOwnResult

\* The entry a report finds is the reported market's own.
LEMMA ReportsOwnEntry ==
  ASSUME OneIdPerCondition, PaidInv, NEW report \in Reports, NEW i \in ResolvedEntry(report)
  PROVE  /\ i \in 1 .. count
         /\ markets[i].cond = report.cond /\ markets[i].id = report.id
         /\ markets[i].about = report.cond
<1>1. i \in 1 .. count /\ (markets[i].cond = report.cond \/ markets[i].id = report.id)
  BY DEF ResolvedEntry, ByCondition, ById, Known
<1>2. /\ [id |-> markets[i].id, cond |-> markets[i].cond] \in Announced
      /\ [id |-> report.id, cond |-> report.cond] \in Announced
  BY <1>1, ReportOfAnnounced DEF PaidInv, RegInv, Registered
<1>3. markets[i].cond = report.cond /\ markets[i].id = report.id
  BY <1>1, <1>2 DEF OneIdPerCondition
<1>. QED
  BY <1>1, <1>3 DEF PaidInv, OwnTokens

\* The only winner a report can name for its own market is the market's result.
LEMMA WinnersAreResults ==
  ASSUME NEW report \in Reports, NEW winner \in Winners(report.cond, report)
  PROVE  winner = Result[report.cond]
<1>1. CASE report.asset = NoToken
  BY <1>1, ReportOfAnnounced DEF Winners
<1>2. CASE report.asset # NoToken
  <2>1. winner \in BOOLEAN /\ report.asset = Token(report.cond, winner)
    BY <1>2 DEF Winners
  <2>2. report.cond \in Conds
    BY ReportOfAnnounced, MarketsAssumption
  <2>3. report.asset # OtherToken
    BY <2>1, <2>2, MarketsAssumption DEF Token
  <2>4. Token(report.cond, winner) = Token(report.cond, Result[report.cond])
    BY <1>2, <2>1, <2>3, ReportOfAnnounced
  <2>5. Token(report.cond, winner).is_yes = Token(report.cond, Result[report.cond]).is_yes
    BY <2>4
  <2>. QED
    BY <2>5 DEF Token
<1>. QED
  BY <1>1, <1>2

\* The positions settled under a report's id were taken in the reported market.
LEMMA DueOwn ==
  ASSUME OneIdPerCondition, PaidInv, NEW report \in Reports, NEW winner,
         NEW h \in Due(report.id, winner)
  PROVE  h.cond = report.cond
<1>1. h \in held /\ h.market = report.id
  BY DEF Due
<1>2. /\ [id |-> h.market, cond |-> h.cond] \in Announced
      /\ [id |-> report.id, cond |-> report.cond] \in Announced
  BY <1>1, ReportOfAnnounced DEF PaidInv, OwnStakes
<1>. QED
  BY <1>1, <1>2 DEF OneIdPerCondition

\* A repeated discovery brings an entry the tokens it had.
LEMMA RediscoverOwn ==
  ASSUME OneIdPerCondition, PaidInv, NEW a \in Announced, Rediscover(a)
  PROVE  OwnTokens'
<1>1. PICK i \in Slots :
        /\ i \in SameMarket(a)
        /\ markets' = [markets EXCEPT ![i] = [@ EXCEPT !.about = a.cond, !.state = "SUBSCRIBING"]]
  BY DEF Rediscover, IsFirst
<1>2. i \in 1 .. count /\ (markets[i].id = a.id \/ markets[i].cond = a.cond)
  BY <1>1 DEF SameMarket, ById, ByCondition, Known
<1>3. [id |-> markets[i].id, cond |-> markets[i].cond] \in Announced
  BY <1>2 DEF PaidInv, RegInv, Registered
<1>4. markets[i].cond = a.cond
  BY <1>2, <1>3 DEF OneIdPerCondition
<1>5. /\ markets \in [Slots -> Entry] /\ count' = count
      /\ \A j \in 1 .. count : j \in Slots
  BY MarketsAssumption DEF PaidInv, RegInv, TypeOK, Rediscover, Slots
<1>6. \A j \in 1 .. count : markets'[j].about = markets'[j].cond
  <2>1. TAKE j \in 1 .. count
  <2>2. CASE j = i
    <3>1. markets'[i].about = a.cond /\ markets'[i].cond = markets[i].cond
      BY <1>1, <1>5 DEF Entry
    <3>. QED
      BY <1>4, <2>2, <3>1
  <2>3. CASE j # i
    BY <1>1, <1>5, <2>3 DEF PaidInv, OwnTokens
  <2>. QED
    BY <2>2, <2>3
<1>. QED
  BY <1>5, <1>6 DEF OwnTokens

\* A new market is registered with its own tokens.
LEMMA DiscoverOwn ==
  ASSUME PaidInv, NEW a \in Announced, Discover(a)
  PROVE  OwnTokens'
<1>1. /\ count \in 0 .. MaxMarkets /\ count < MaxMarkets /\ count' = count + 1
      /\ markets \in [Slots -> Entry]
      /\ markets' = [markets EXCEPT ![count + 1] = NewEntry(a)]
  BY DEF PaidInv, RegInv, TypeOK, Discover
<1>2. /\ markets'[count + 1] = NewEntry(a)
      /\ \A j \in 1 .. count : markets'[j] = markets[j]
      /\ \A j \in 1 .. count' : j = count + 1 \/ j \in 1 .. count
  BY <1>1, MarketsAssumption DEF Slots
<1>3. NewEntry(a).about = NewEntry(a).cond
  BY DEF NewEntry
<1>. QED
  BY <1>2, <1>3 DEF PaidInv, OwnTokens

\* A state or a winner leaves an entry's tokens alone.
LEMMA StateOwn ==
  ASSUME PaidInv, NEW i \in 1 .. count, NEW e, e.about = markets[i].about, e.cond = markets[i].cond,
         markets' = [markets EXCEPT ![i] = e], count' = count
  PROVE  OwnTokens'
<1>1. markets \in [Slots -> Entry] /\ \A j \in 1 .. count : j \in Slots
  BY MarketsAssumption DEF PaidInv, RegInv, TypeOK, Slots
<1>2. \A j \in 1 .. count : markets'[j].about = markets[j].about /\ markets'[j].cond = markets[j].cond
  BY <1>1
<1>. QED
  BY <1>2 DEF PaidInv, OwnTokens

\* A resolution pays positions of the reported market only, as its result.
LEMMA ResolveOwn ==
  ASSUME OneIdPerCondition, PaidInv, NEW report \in Reports, Resolve(report)
  PROVE  OwnTokens' /\ OwnStakes' /\ PaidByOwnResult'
<1>1. PICK i \in Slots :
        /\ i \in ResolvedEntry(report)
        /\ \/ /\ markets' = [markets EXCEPT ![i] = [@ EXCEPT !.state = "PENDING_RESOLUTION"]]
              /\ UNCHANGED <<held, paid>>
           \/ \E winner \in Winners(markets[i].about, report) :
                /\ markets' = [markets EXCEPT ![i] =
                                 [@ EXCEPT !.state = "RESOLVED", !.winner = winner]]
                /\ held' = held \ Due(report.id, winner)
                /\ paid' = paid \cup {[cond |-> h.cond, winner |-> winner] : h \in Due(report.id, winner)}
  BY DEF Resolve, IsFirst
<1>2. i \in 1 .. count /\ markets[i].about = report.cond
  BY <1>1, ReportsOwnEntry
<1>3. count' = count /\ open' = open /\ markets[i] \in Entry
  BY DEF Resolve, PaidInv, RegInv, TypeOK
<1>4. CASE markets' = [markets EXCEPT ![i] = [@ EXCEPT !.state = "PENDING_RESOLUTION"]]
           /\ UNCHANGED <<held, paid>>
  <2>. DEFINE e == [markets[i] EXCEPT !.state = "PENDING_RESOLUTION"]
  <2>1. /\ e.about = markets[i].about /\ e.cond = markets[i].cond
        /\ markets' = [markets EXCEPT ![i] = e]
    BY <1>3, <1>4 DEF Entry
  <2>2. OwnTokens'
    BY <1>2, <1>3, <2>1, StateOwn
  <2>. QED
    BY <1>3, <1>4, <2>2 DEF PaidInv, OwnStakes, PaidByOwnResult
<1>5. ASSUME NEW winner \in Winners(markets[i].about, report),
             markets' = [markets EXCEPT ![i] = [@ EXCEPT !.state = "RESOLVED", !.winner = winner]],
             held' = held \ Due(report.id, winner),
             paid' = paid \cup {[cond |-> h.cond, winner |-> winner] : h \in Due(report.id, winner)}
      PROVE  OwnTokens' /\ OwnStakes' /\ PaidByOwnResult'
  <2>. DEFINE e == [markets[i] EXCEPT !.state = "RESOLVED", !.winner = winner]
  <2>1. /\ e.about = markets[i].about /\ e.cond = markets[i].cond
        /\ markets' = [markets EXCEPT ![i] = e]
    BY <1>3, <1>5 DEF Entry
  <2>2. OwnTokens'
    BY <1>2, <1>3, <2>1, StateOwn
  <2>3. OwnStakes'
    BY <1>3, <1>5 DEF PaidInv, OwnStakes
  <2>4. winner = Result[report.cond]
    BY <1>2, <1>5, WinnersAreResults
  <2>5. \A h \in Due(report.id, winner) : h.cond = report.cond
    BY DueOwn
  <2>6. PaidByOwnResult'
    BY <1>5, <2>4, <2>5 DEF PaidInv, PaidByOwnResult
  <2>. QED
    BY <2>2, <2>3, <2>6
<1>. QED
  BY <1>1, <1>4, <1>5

\* Orders are placed under the id of the market they are meant for.
LEMMA TurnOwn ==
  ASSUME PaidInv, Turn
  PROVE  OwnStakes'
<1>1. PICK placed \in SUBSET Legs(1 .. count) :
        /\ open' \subseteq open \cup placed
        /\ held' \subseteq held \cup open \cup placed
  BY TurnEffect DEF PaidInv
<1>2. \A s \in placed : [id |-> s.market, cond |-> s.cond] \in Announced
  <2>1. \A i \in 1 .. count, is_yes \in BOOLEAN :
          [id |-> Leg(i, is_yes).market, cond |-> Leg(i, is_yes).cond] \in Announced
    BY DEF Leg, PaidInv, RegInv, Registered, OwnTokens
  <2>. SUFFICES ASSUME NEW s \in placed
                PROVE  [id |-> s.market, cond |-> s.cond] \in Announced
    OBVIOUS
  <2>2. PICK i \in 1 .. count, is_yes \in BOOLEAN : s = Leg(i, is_yes)
    <3>1. s \in Legs(1 .. count)
      OBVIOUS
    <3>. QED
      BY <3>1, LegOf
  <2>. QED
    BY <2>1, <2>2
<1>3. open' \cup held' \subseteq open \cup held \cup placed
  BY <1>1
<1>4. \A s \in open \cup held \cup placed : [id |-> s.market, cond |-> s.cond] \in Announced
  BY <1>2 DEF PaidInv, OwnStakes
<1>. HIDE <1>1
<1>. QED
  BY <1>3, <1>4 DEF OwnStakes

\* Every step keeps positions with their markets.
LEMMA NextPaidInv == ASSUME OneIdPerCondition PROVE PaidInv /\ [Next]_vars => PaidInv'
<1>. SUFFICES ASSUME PaidInv, [Next]_vars PROVE PaidInv'
  OBVIOUS
<1>. DEFINE Rest == OwnTokens' /\ OwnStakes' /\ PaidByOwnResult'
<1>1. RegInv'
  BY NextRegInv DEF PaidInv
<1>2. ASSUME NEW a \in Announced, Rediscover(a) PROVE Rest
  <2>1. UNCHANGED <<open, held, paid>>
    BY <1>2 DEF Rediscover
  <2>. QED
    BY <1>2, <2>1, RediscoverOwn DEF PaidInv, OwnStakes, PaidByOwnResult
<1>3. ASSUME NEW a \in Announced, Discover(a) PROVE Rest
  <2>1. UNCHANGED <<open, held, paid>>
    BY <1>3 DEF Discover
  <2>. QED
    BY <1>3, <2>1, DiscoverOwn DEF PaidInv, OwnStakes, PaidByOwnResult
<1>4. ASSUME NEW report \in Reports, Resolve(report) PROVE Rest
  BY <1>4, ResolveOwn
<1>5. ASSUME NEW cond \in Conds, Snapshot(cond) PROVE Rest
  <2>1. PICK i \in Slots :
          /\ i \in ByToken(cond)
          /\ markets' = [markets EXCEPT ![i] = [@ EXCEPT !.state = "ACTIVE"]]
    BY <1>5 DEF Snapshot, IsFirst
  <2>. DEFINE e == [markets[i] EXCEPT !.state = "ACTIVE"]
  <2>2. i \in 1 .. count /\ markets[i] \in Entry /\ count' = count /\ UNCHANGED <<open, held, paid>>
    BY <1>5, <2>1 DEF ByToken, Known, PaidInv, RegInv, TypeOK, Snapshot
  <2>3. e.about = markets[i].about /\ e.cond = markets[i].cond
    BY <2>2 DEF Entry
  <2>4. OwnTokens'
    BY <2>1, <2>2, <2>3, StateOwn
  <2>. QED
    BY <2>2, <2>4 DEF PaidInv, OwnStakes, PaidByOwnResult
<1>6. ASSUME NEW cond \in Conds, NEW is_yes \in BOOLEAN, Trade(cond, is_yes) PROVE Rest
  <2>1. open' \subseteq open /\ held' \subseteq held \cup open
    BY <1>6 DEF Trade, Fills
  <2>2. UNCHANGED <<markets, count, paid>>
    BY <1>6 DEF Trade
  <2>. QED
    BY <2>1, <2>2 DEF PaidInv, OwnTokens, OwnStakes, PaidByOwnResult
<1>7. ASSUME Turn PROVE Rest
  <2>1. UNCHANGED <<markets, count, paid>>
    BY <1>7 DEF Turn
  <2>2. OwnTokens' /\ PaidByOwnResult'
    BY <2>1 DEF PaidInv, OwnTokens, PaidByOwnResult
  <2>. QED
    BY <1>7, <2>2, TurnOwn
<1>8. ASSUME Advance PROVE Rest
  BY <1>8 DEF Advance, PaidInv, OwnTokens, OwnStakes, PaidByOwnResult
<1>9. ASSUME UNCHANGED vars PROVE Rest
  BY <1>9 DEF vars, PaidInv, OwnTokens, OwnStakes, PaidByOwnResult
<1>10. Rest
  BY <1>2, <1>3, <1>4, <1>5, <1>6, <1>7, <1>8, <1>9 DEF Next
<1>. QED
  BY <1>1, <1>10 DEF PaidInv

\* With one id for each condition, positions and tokens stay with their markets.
LEMMA PaidInvariant == ASSUME OneIdPerCondition PROVE Spec => []PaidInv
<1>1. Init => PaidInv
  <2>. SUFFICES ASSUME Init PROVE PaidInv
    OBVIOUS
  <2>1. RegInv
    BY InitRegInv
  <2>. QED
    BY <2>1 DEF Init, PaidInv, OwnTokens, OwnStakes, PaidByOwnResult
<1>2. PaidInv /\ [Next]_vars => PaidInv'
  BY NextPaidInv
<1>. QED
  BY <1>1, <1>2, PTL DEF Spec

\* With one id for each condition, no position is ever paid as the result of another market
\* or as the wrong outcome, whatever was lost, repeated, reopened or reported unknown.
THEOREM AlwaysPaidByOwnResult == ASSUME OneIdPerCondition PROVE Spec => []PaidByOwnResult
<1>1. PaidInv => PaidByOwnResult
  BY DEF PaidInv
<1>. QED
  BY <1>1, PaidInvariant, PTL

\* With one id for each condition, a market that becomes resolved has no position left.
THEOREM ResolutionAlwaysSettles == ASSUME OneIdPerCondition PROVE Spec => ResolutionSettles
<1>. DEFINE Settles ==
       \A i \in Slots : ~Resolved(i) /\ Resolved(i)' => \A h \in held' : h.market # markets[i].id
<1>1. PaidInv /\ [Next]_vars => [Settles]_vars
  <2>. SUFFICES ASSUME PaidInv, Next, NEW i \in Slots, ~Resolved(i), Resolved(i)'
                PROVE  \A h \in held' : h.market # markets[i].id
    OBVIOUS
  <2>1. markets \in [Slots -> Entry]
    BY DEF PaidInv, RegInv, TypeOK
  <2>2. PICK report \in Reports : Resolve(report)
    <3>1. ASSUME NEW a \in Announced, Rediscover(a) PROVE FALSE
      BY <2>1, <3>1 DEF Rediscover, Resolved, Entry
    <3>2. ASSUME NEW a \in Announced, Discover(a) PROVE FALSE
      BY <2>1, <3>2 DEF Discover, Resolved, NewEntry
    <3>3. ASSUME NEW cond \in Conds, Snapshot(cond) PROVE FALSE
      BY <2>1, <3>3 DEF Snapshot, Resolved, Entry
    <3>4. ASSUME UNCHANGED markets PROVE FALSE
      BY <3>4 DEF Resolved
    <3>. QED
      BY <3>1, <3>2, <3>3, <3>4 DEF Next, Trade, Turn, Advance
  <2>3. PICK j \in Slots :
          /\ j \in ResolvedEntry(report)
          /\ \/ markets' = [markets EXCEPT ![j] = [@ EXCEPT !.state = "PENDING_RESOLUTION"]]
             \/ \E winner \in Winners(markets[j].about, report) :
                  /\ markets' = [markets EXCEPT ![j] =
                                   [@ EXCEPT !.state = "RESOLVED", !.winner = winner]]
                  /\ held' = held \ Due(report.id, winner)
    BY <2>2 DEF Resolve, IsFirst
  <2>4. j = i
    BY <2>1, <2>3 DEF Resolved
  <2>5. markets' # [markets EXCEPT ![j] = [@ EXCEPT !.state = "PENDING_RESOLUTION"]]
    BY <2>1, <2>4 DEF Resolved, Entry
  <2>6. PICK winner \in Winners(markets[j].about, report) : held' = held \ Due(report.id, winner)
    BY <2>3, <2>5
  <2>7. markets[i].id = report.id
    BY <2>3, <2>4, ReportsOwnEntry
  <2>. QED
    BY <2>6, <2>7 DEF Due
<1>. QED
  BY <1>1, PaidInvariant, PTL DEF Spec, ResolutionSettles

=============================================================================
