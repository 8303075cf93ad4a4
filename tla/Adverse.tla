------------------------------ MODULE Adverse ------------------------------
(***************************************************************************)
(* The price movement after each fill, analytics/pt_adverse_selection.c: a *)
(* ring of fills, measured at a few horizons as prices arrive.  A movement *)
(* is data; what is kept is which fills are in the ring and which of their *)
(* horizons have been measured.                                            *)
(***************************************************************************)
EXTENDS Integers, FiniteSets, Sequences

CONSTANTS
  MaxAdverse, \* PT_ADV_MAX_RECORDS (512 in the code)
  Horizons,   \* g_horizons, how long after the fill to look (six of them in the code)
  Tokens, NoToken,
  AdvEnd,     \* bound: last value of the clock
  MaxFills    \* bound: fills recorded

ASSUME AdverseAssumption ==
  /\ MaxAdverse \in Nat \ {0}
  /\ Horizons \subseteq Nat \ {0}
  /\ NoToken \notin Tokens
  /\ AdvEnd \in Nat /\ MaxFills \in Nat

AdvSlots == 0 .. MaxAdverse - 1

\* pt_adverse_record_t; the token stands for the market and the leg.
AdvRecord ==
  [fill_id : Nat, t : Nat, token : Tokens \cup {NoToken}, measured : SUBSET Horizons]

NoFill == [fill_id |-> 0, t |-> 0, token |-> NoToken, measured |-> {}]

VARIABLES
  records, count, next_fill_id,  \* pt_adverse_tracker_t
  fills,                         \* history: time and token of every fill, by its id
  prices,                        \* history: the times of the prices of each token
  adv_now                        \* the clock

adv_vars == <<records, count, next_fill_id, fills, prices, adv_now>>

AdvTypeOK ==
  /\ records \in [AdvSlots -> AdvRecord]
  /\ count \in 0 .. MaxAdverse
  /\ next_fill_id \in Nat \ {0}
  /\ fills \in Seq([t : Nat, token : Tokens])
  /\ prices \in [Tokens -> SUBSET Nat]
  /\ adv_now \in Nat

\* pt_adverse_tracker_init
AdvInit ==
  /\ records = [i \in AdvSlots |-> NoFill]
  /\ count = 0 /\ next_fill_id = 1
  /\ fills = <<>> /\ prices = [k \in Tokens |-> {}]
  /\ adv_now = 0

\* Seeded fault: a full ring starts over from its first slot every time.
SlotZero == IF count < MaxAdverse THEN count ELSE 0

\* A ring not yet full takes the next slot, one below the fill's id; a full one the slot
\* of the id modulo its size.
AdvSlot == IF count < MaxAdverse THEN count ELSE next_fill_id % MaxAdverse

\* pt_adverse_record_fill
RecordFill(token) ==
  /\ next_fill_id <= MaxFills
  /\ records' = [records EXCEPT ![AdvSlot] =
                   [fill_id |-> next_fill_id, t |-> adv_now, token |-> token, measured |-> {}]]
  /\ count' = IF count < MaxAdverse THEN count + 1 ELSE count
  /\ next_fill_id' = next_fill_id + 1
  /\ fills' = Append(fills, [t |-> adv_now, token |-> token])
  /\ UNCHANGED <<prices, adv_now>>

DueHorizons(r) == {h \in Horizons : adv_now - r.t >= h}

\* pt_adverse_tracker_on_price: a price of the token measures every horizon that is due.
OnPrice(token) ==
  /\ records' = [i \in AdvSlots |->
       IF i < count /\ records[i].token = token
       THEN [records[i] EXCEPT !.measured = @ \cup DueHorizons(records[i])]
       ELSE records[i]]
  /\ prices' = [prices EXCEPT ![token] = @ \cup {adv_now}]
  /\ UNCHANGED <<count, next_fill_id, fills, adv_now>>

AdvAdvance ==
  /\ adv_now < AdvEnd
  /\ adv_now' = adv_now + 1
  /\ UNCHANGED <<records, count, next_fill_id, fills, prices>>

AdvNext ==
  \/ \E token \in Tokens : RecordFill(token) \/ OnPrice(token)
  \/ AdvAdvance

AdvSpec == AdvInit /\ [][AdvNext]_adv_vars

-----------------------------------------------------------------------------

\* Around the wrap of the ring, which moves from one numbering of the slots to another, the
\* last MaxAdverse - 1 fills keep a record each, of their own time and token, and what was
\* measured of them is every horizon that a later price of their token came after.
LastFillsKept ==
  \A id \in 1 .. Len(fills) :
    id > Len(fills) - MaxAdverse + 1 =>
      \E i \in AdvSlots :
        LET r == records[i]
        IN  /\ r.fill_id = id
            /\ r.t = fills[id].t /\ r.token = fills[id].token
            /\ r.measured = {h \in Horizons : \E t \in prices[r.token] : t - r.t >= h}

=============================================================================
