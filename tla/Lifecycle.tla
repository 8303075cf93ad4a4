----------------------------- MODULE Lifecycle -----------------------------
(***************************************************************************)
(* The record kept of every signal, analytics/pt_lifecycle_tracker.c: the  *)
(* fills of its orders and its settlement.  Edges, fees, profits and fill  *)
(* ids are data and left out; nothing in the engine reports a hedge to it, *)
(* and every position it settles carries a signal id.                      *)
(***************************************************************************)
EXTENDS Integers, Sequences

CONSTANT MaxRecords  \* PT_LIFECYCLE_MAX_RECORDS (2048 in the code)

ASSUME LifecycleAssumption == MaxRecords \in Nat

LcStates ==
  {"PENDING", "PARTIAL", "ONE_LEG_FILLED", "BOTH_LEGS_FILLED", "SETTLED"}

\* pt_lc_leg_t
LcLeg == [order_id : Nat, requested : Nat, filled : Nat]

\* pt_opportunity_record_t; leg TRUE is leg_a, leg FALSE leg_b.
LcRecord ==
  [signal_id : Nat, strategy : {"A", "B"}, state : LcStates,
   leg : [BOOLEAN -> LcLeg], completed : BOOLEAN]

pt_lifecycle_tracker_init == [records |-> <<>>, completed_count |-> 0]

NewLeg(requested) == [order_id |-> 0, requested |-> requested, filled |-> 0]

\* Seeded fault: the limit is off by one.
lc_on_signal_past_end(t, signal, strategy, size) ==
  IF Len(t.records) > MaxRecords THEN t
  ELSE [t EXCEPT !.records = Append(@,
         [signal_id |-> signal, strategy |-> strategy, state |-> "PENDING",
          leg |-> [leg \in BOOLEAN |-> NewLeg(size)], completed |-> FALSE])]

\* Only strategy A has a second leg.  Past the last record a signal is not tracked.
lc_on_signal(t, signal, strategy, size) ==
  IF Len(t.records) >= MaxRecords THEN t
  ELSE [t EXCEPT !.records = Append(@,
         [signal_id |-> signal, strategy |-> strategy, state |-> "PENDING",
          leg |-> [leg \in BOOLEAN |-> NewLeg(IF leg \/ strategy = "A" THEN size ELSE 0)],
          completed |-> FALSE])]

\* The scans stop at the first record that matches.
First(S, i) == i \in S /\ \A j \in S : i <= j

Rewritten(t, S, New(_)) ==
  [i \in DOMAIN t.records |-> IF First(S, i) THEN New(t.records[i]) ELSE t.records[i]]

OfSignal(t, signal) == {i \in DOMAIN t.records : t.records[i].signal_id = signal}

\* pt_lifecycle_on_arb_orders and, with one order, pt_lifecycle_on_order.
lc_on_orders(t, signal, oid) ==
  [t EXCEPT !.records = Rewritten(t, OfSignal(t, signal), LAMBDA r :
     [r EXCEPT !.leg = [leg \in BOOLEAN |->
        IF leg \/ r.strategy = "A" THEN [r.leg[leg] EXCEPT !.order_id = oid[leg]] ELSE r.leg[leg]]])]

\* Seeded fault: every fill of a record is its first leg's.
FirstLegAlways(r, oid, is_yes) == TRUE

\* Which leg a fill belongs to.
LegOfFill(r, oid, is_yes) ==
  IF /\ r.strategy = "A"
     /\ \/ oid > 0 /\ r.leg[FALSE].order_id = oid
        \/ ~is_yes /\ r.leg[FALSE].requested > 0 /\ (oid = 0 \/ r.leg[TRUE].order_id # oid)
  THEN FALSE ELSE TRUE

LegFull(l) == l.requested > 0 /\ l.filled >= l.requested

\* The state is worked out anew from the legs, that of a settled record too.
StateOfLegs(strategy, a, b) ==
  CASE strategy = "A" /\ LegFull(a) /\ LegFull(b) -> "BOTH_LEGS_FILLED"
    [] \/ strategy = "A" /\ \/ a.filled >= a.requested /\ b.filled = 0
                            \/ b.filled >= b.requested /\ a.filled = 0
       \/ strategy = "B" /\ LegFull(a) -> "ONE_LEG_FILLED"
    [] OTHER -> "PARTIAL"

WithFill(r, oid, is_yes, n) ==
  LET leg == [r.leg EXCEPT ![LegOfFill(r, oid, is_yes)].filled = @ + n]
  IN  [r EXCEPT !.leg = leg, !.state = StateOfLegs(r.strategy, leg[TRUE], leg[FALSE])]

\* pt_lifecycle_on_fill_ex: by signal, or else by the order of either leg.
lc_on_fill_ex(t, signal, oid, is_yes, n) ==
  [t EXCEPT !.records =
     Rewritten(t, OfSignal(t, signal) \cup
                  {i \in DOMAIN t.records : oid > 0 /\ \E leg \in BOOLEAN : t.records[i].leg[leg].order_id = oid},
               LAMBDA r : WithFill(r, oid, is_yes, n))]

\* Seeded fault: a record is completed by each of its positions.
OpenOrNot(t, signal) == OfSignal(t, signal)

OpenOf(t, signal) == {i \in OfSignal(t, signal) : ~t.records[i].completed}

\* pt_lifecycle_on_complete: the first position of the signal to settle completes the record.
lc_on_complete(t, signal) ==
  [records |-> Rewritten(t, OpenOf(t, signal), LAMBDA r :
                 [r EXCEPT !.completed = TRUE, !.state = "SETTLED"]),
   completed_count |-> t.completed_count + (IF OpenOf(t, signal) = {} THEN 0 ELSE 1)]

=============================================================================
