------------------------------ MODULE ArbDesk -------------------------------
(***************************************************************************)
(* The two-leg manager driven as its header asks: every fill and cancel is *)
(* reported to it, and the orders it asks for are placed.  main() opens    *)
(* operations and ticks them but reports nothing (see Trading); the tests  *)
(* report fills.                                                           *)
(***************************************************************************)
EXTENDS ArbMgr

CONSTANTS
  Targets,   \* sizes of an opportunity
  MaxArbs,   \* bound: operations opened
  MaxWorking,\* bound: shares of a leg at work
  ArbEnd     \* bound: last value of the clock

ASSUME ArbDeskAssumption ==
  /\ Targets \subseteq Nat \ {0}
  /\ MaxArbs \in Nat /\ MaxWorking \in Nat /\ ArbEnd \in Nat

VARIABLES
  arb,       \* the manager: its table and next_arb_id
  working,   \* the shares still open of each leg's orders, by slot
  acts,      \* the actions the last call returned
  arb_now    \* the clock

arb_vars == <<arb, working, acts, arb_now>>

ArbTypeOK ==
  /\ arb \in [ops : [OpSlots -> ArbOp], next_arb_id : Nat \ {0}]
  /\ working \in [OpSlots -> [BOOLEAN -> Nat]]
  /\ acts \subseteq ArbAction
  /\ arb_now \in Nat \ {0}

ArbInit ==
  /\ arb = pt_arb_mgr_init
  /\ working = [i \in OpSlots |-> [leg \in BOOLEAN |-> 0]]
  /\ acts = {}
  /\ arb_now = 1

\* Both legs are ordered; orders of the operation that had the slot may still be working.
ArbOpen(target) ==
  /\ arb.next_arb_id <= MaxArbs
  /\ \E i \in OpSlots :
       /\ FreeOp(arb, i)
       /\ arb' = Opened(arb, i, target)
       /\ working' = [working EXCEPT ![i] = [leg \in BOOLEAN |-> @[leg] + target]]
       /\ \A leg \in BOOLEAN : working'[i][leg] <= MaxWorking
  /\ acts' = {}
  /\ UNCHANGED arb_now

\* pt_arb_mgr_on_fill for an order of the slot, and the replacement it asks for.
ArbFill(i, is_yes, n, over_risk, edge) ==
  LET op == Filled(arb.ops[i], is_yes, n, over_risk, edge, arb_now)
  IN  /\ arb.ops[i].arb_id # 0
      /\ n <= working[i][is_yes]
      /\ arb' = [arb EXCEPT !.ops[i] = op]
      /\ acts' = ActsAfterFill(i, op)
      /\ working' = [working EXCEPT ![i] = [leg \in BOOLEAN |->
           @[leg] - (IF leg = is_yes THEN n ELSE 0)
                  + (IF \E a \in acts' : a.action = "SUBMIT" /\ a.is_yes = leg
                     THEN ExcessYes(op) + ExcessNo(op) ELSE 0)]]
      /\ \A leg \in BOOLEAN : working'[i][leg] <= MaxWorking
      /\ UNCHANGED arb_now

\* pt_arb_mgr_on_cancel: the orders of one leg are gone.
ArbCancel(i, is_yes) ==
  /\ arb.ops[i].arb_id # 0
  /\ working[i][is_yes] > 0
  /\ working' = [working EXCEPT ![i][is_yes] = 0]
  /\ arb' = [arb EXCEPT !.ops[i].state = StateAfterCancel(arb.ops[i])]
  /\ acts' = IF Unhedged(arb.ops[i]) THEN {Hedge(i, arb.ops[i])} ELSE {}
  /\ UNCHANGED arb_now

ArbTick ==
  /\ arb' = Swept(arb, arb_now)
  /\ acts' = TickActs(arb, arb_now)
  /\ UNCHANGED <<working, arb_now>>

ArbAdvance ==
  /\ arb_now < ArbEnd
  /\ arb_now' = arb_now + 1
  /\ UNCHANGED <<arb, working, acts>>

ArbNext ==
  \/ \E target \in Targets : ArbOpen(target)
  \/ \E i \in OpSlots, is_yes \in BOOLEAN :
       \/ \E over_risk, edge \in BOOLEAN :
            \E n \in 1 .. working[i][is_yes] : ArbFill(i, is_yes, n, over_risk, edge)
       \/ ArbCancel(i, is_yes)
  \/ ArbTick
  \/ ArbAdvance

ArbSpec == ArbInit /\ [][ArbNext]_arb_vars

-----------------------------------------------------------------------------

\* Whatever the order of fills, cancels and ticks of the two legs, the state of an operation
\* agrees with its fills: one that waits for a hedge has an excess to hedge, and one whose
\* slot may be taken has none, unless both legs are past their target, which a replaced
\* order that filled after all leaves behind.
StateFollowsFills ==
  \A i \in OpSlots :
    LET op == arb.ops[i]
    IN  CASE op.state = "HEDGE_REQUIRED" -> Unhedged(op)
          [] op.state = "LEG_B_PENDING"  -> op.yes > op.no
          [] op.state = "LEG_A_PENDING"  -> op.no > op.yes \/ op.yes = 0
          [] op.state = "LEG_A_PARTIAL"  -> ~Unhedged(op) /\ op.yes > 0 /\ ~BothFilled(op)
          [] op.state = "BOTH_FILLED"    -> BothFilled(op)
          [] OTHER                       -> ~Unhedged(op)

\* A hedge or a replacement is asked for an operation with an excess, for exactly the excess,
\* and a slot with an excess is not given to another operation unless both legs were filled.
ExcessIsKept ==
  [][\A i \in OpSlots :
       /\ Unhedged(arb.ops[i]) /\ ~BothFilled(arb.ops[i])
            => arb'.ops[i].arb_id = arb.ops[i].arb_id
       /\ \A a \in acts' : a.op = i /\ a.action = "MARKET_HEDGE" =>
            /\ arb'.ops[i].state = "HEDGE_REQUIRED"
            /\ a.size = IF a.is_yes THEN arb'.ops[i].yes - arb'.ops[i].no
                                    ELSE arb'.ops[i].no - arb'.ops[i].yes]_arb_vars

\* After a tick no operation whose YES leg has a fill older than max_unhedged_time_ms is left
\* with an excess and no hedge asked for.  An operation with only its NO leg filled is not
\* covered: leg_a_fill_t is not set by that leg.
SweptInTime ==
  [][ArbTick =>
       \A i \in OpSlots :
         /\ Unhedged(arb.ops[i]) /\ ~BothFilled(arb.ops[i])
         /\ arb.ops[i].yes > 0
         /\ arb_now - arb.ops[i].leg_a_fill_t >= MaxUnhedged
         => \E a \in acts' : a.op = i /\ a.action = "MARKET_HEDGE"]_arb_vars

=============================================================================
