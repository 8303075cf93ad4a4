----------------------------- MODULE MCSimQueue -----------------------------
(***************************************************************************)
(* Small instances of SimQueue.  Orders are placed at price 2.  A book     *)
(* holds a queue at price 2; or an ask below 2 with a worse one behind it, *)
(* so that a sweep may run past the limit; or one share bid above 2, so    *)
(* that a sweep or an immediate order is filled in part only.              *)
(***************************************************************************)
EXTENDS SimQueue

CONSTANTS m1, m2

MCPrices == {1, 2, 5}

\* The sizes resting at the three prices.
Side(a, b, c) == [p \in MCPrices |-> IF p = 1 THEN a ELSE IF p = 2 THEN b ELSE c]

Queued     == [bids |-> Side(0, 2, 0), asks |-> Side(0, 0, 1)]
AskBelow   == [bids |-> Side(0, 0, 0), asks |-> Side(1, 0, 1)]
BidAbove   == [bids |-> Side(0, 0, 1), asks |-> Side(0, 0, 0)]

MCBooks == {Queued, AskBelow, BidAbove}

MCRequest(market, is_yes, side, type) ==
  [market |-> market, is_yes |-> is_yes, side |-> side, type |-> type, price |-> 2, size |-> 2]

\* What the strategies send (limit bids), a resting ask on the other token, and what
\* the hedger sends (an immediate ask).
OneMarketRequests ==
  {MCRequest(m1, TRUE, "BID", "LIMIT"), MCRequest(m1, FALSE, "ASK", "LIMIT"),
   MCRequest(m1, TRUE, "ASK", "IOC")}

\* Orders on the active market and on one the loop no longer ticks.
TwoMarketRequests ==
  {MCRequest(m1, TRUE, "BID", "LIMIT"), MCRequest(m1, TRUE, "ASK", "IOC"),
   MCRequest(m2, TRUE, "BID", "LIMIT")}

=============================================================================
