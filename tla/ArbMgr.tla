------------------------------- MODULE ArbMgr -------------------------------
(***************************************************************************)
(* The two-leg manager of strategy A, execution/pt_arb_mgr.c, as operators *)
(* on its table of operations.  Prices and profits are data: whether the   *)
(* loss projected for the excess is over the limit and whether the pair    *)
(* still has an edge are inputs of a fill.                                 *)
(***************************************************************************)
EXTENDS Integers

CONSTANTS
  MaxOps,      \* PT_ARBMGR_MAX_OPS (64 in the code)
  MaxUnhedged  \* cfg.max_unhedged_time_ms

ASSUME ArbAssumption == MaxOps \in Nat \ {0} /\ MaxUnhedged \in Nat

OpSlots == 1 .. MaxOps

\* The states the code assigns; HEDGED, EXPIRED and FAILED are only ever tested for.
ArbStates ==
  {"IDLE", "LEG_A_PENDING", "LEG_A_PARTIAL", "LEG_B_PENDING", "BOTH_FILLED",
   "HEDGE_REQUIRED", "CANCELLED"}

\* pt_arb_op_t; leg_a_fill_t is 0 until the first fill of the YES leg.
ArbOp ==
  [arb_id : Nat, state : ArbStates, target : Nat, yes : Nat, no : Nat, leg_a_fill_t : Nat]

NoOp == [arb_id |-> 0, state |-> "IDLE", target |-> 0, yes |-> 0, no |-> 0, leg_a_fill_t |-> 0]

ArbAction == [action : {"SUBMIT", "MARKET_HEDGE"}, op : OpSlots, is_yes : BOOLEAN, size : Nat]

pt_arb_mgr_init == [ops |-> [i \in OpSlots |-> NoOp], next_arb_id |-> 1]

\* Seeded fault: an operation nothing has filled is taken for free.
FinishedWhenPending(op) == op.state \in {"IDLE", "BOTH_FILLED", "CANCELLED", "LEG_A_PENDING"}

Finished(op) == op.state \in {"IDLE", "BOTH_FILLED", "CANCELLED"}

\* The slot pt_arb_mgr_open takes: the first that is finished or was never used.
FreeOp(m, i) ==
  /\ Finished(m.ops[i]) \/ m.ops[i].arb_id = 0
  /\ \A j \in 1 .. i - 1 : ~Finished(m.ops[j]) /\ m.ops[j].arb_id # 0

Opened(m, i, target) ==
  [ops |-> [m.ops EXCEPT ![i] = [NoOp EXCEPT !.arb_id = m.next_arb_id,
                                             !.state = "LEG_A_PENDING", !.target = target]],
   next_arb_id |-> m.next_arb_id + 1]

\* pt_arb_mgr_exposure: the shares of a leg the other does not match.
ExcessYes(op) == IF op.yes > op.no THEN op.yes - op.no ELSE 0

ExcessNo(op) == IF op.no > op.yes THEN op.no - op.yes ELSE 0

Unhedged(op) == op.yes # op.no

Hedge(i, op) ==
  [action |-> "MARKET_HEDGE", op |-> i, is_yes |-> op.yes > op.no,
   size |-> ExcessYes(op) + ExcessNo(op)]

\* A replacement for the leg behind; the order it replaces is not cancelled.
Requote(i, op) == [Hedge(i, op) EXCEPT !.action = "SUBMIT", !.is_yes = ~@]

Credited(op, is_yes, n, now) ==
  IF is_yes
  THEN [op EXCEPT !.yes = @ + n, !.leg_a_fill_t = IF @ = 0 THEN now ELSE @]
  ELSE [op EXCEPT !.no = @ + n]

BothFilled(op) == op.yes >= op.target /\ op.no >= op.target

\* Seeded fault: shares that match are taken for a finished operation.
StateWhenMatched(op, over_risk, edge) ==
  CASE op.yes = op.no                 -> "BOTH_FILLED"
    [] Unhedged(op) /\ edge           -> IF op.yes > op.no THEN "LEG_B_PENDING" ELSE "LEG_A_PENDING"
    [] OTHER                          -> "HEDGE_REQUIRED"

\* pt_arb_mgr_on_fill: what the fills of both legs make of the operation.
StateAfterFill(op, over_risk, edge) ==
  CASE BothFilled(op)                                        -> "BOTH_FILLED"
    [] ~BothFilled(op) /\ ~Unhedged(op)                      -> "LEG_A_PARTIAL"
    [] ~BothFilled(op) /\ Unhedged(op) /\ edge /\ ~over_risk ->
         IF op.yes > op.no THEN "LEG_B_PENDING" ELSE "LEG_A_PENDING"
    [] OTHER                                                 -> "HEDGE_REQUIRED"

Filled(op, is_yes, n, over_risk, edge, now) ==
  LET c == Credited(op, is_yes, n, now) IN [c EXCEPT !.state = StateAfterFill(c, over_risk, edge)]

ActsAfterFill(i, op) ==
  CASE op.state = "HEDGE_REQUIRED"                   -> {Hedge(i, op)}
    [] op.state \in {"LEG_A_PENDING", "LEG_B_PENDING"} -> {Requote(i, op)}
    [] OTHER                                         -> {}

\* pt_arb_mgr_on_cancel, of either leg; the other leg may still be working.
StateAfterCancel(op) == IF Unhedged(op) THEN "HEDGE_REQUIRED" ELSE "CANCELLED"

\* Seeded fault: an operation is swept only when its state is already HEDGE_REQUIRED.
OverdueWhenMarked(op, now) == op.state = "HEDGE_REQUIRED" /\ Unhedged(op)

\* pt_arb_mgr_tick: the operations swept.
Overdue(op, now) ==
  /\ ~Finished(op)
  /\ Unhedged(op)
  /\ op.leg_a_fill_t > 0
  /\ now - op.leg_a_fill_t >= MaxUnhedged

Swept(m, now) ==
  [m EXCEPT !.ops = [i \in OpSlots |-> IF Overdue(m.ops[i], now)
                                       THEN [m.ops[i] EXCEPT !.state = "HEDGE_REQUIRED"]
                                       ELSE m.ops[i]]]

TickActs(m, now) ==
  {Hedge(i, m.ops[i]) : i \in {j \in OpSlots : Overdue(m.ops[j], now)}}

=============================================================================
