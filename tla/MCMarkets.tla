----------------------------- MODULE MCMarkets -----------------------------
(***************************************************************************)
(* Small instances of Markets: two 5-minute markets and a 15-minute one    *)
(* that YES, NO and YES win, on a clock of a few ticks.                    *)
(***************************************************************************)
EXTENDS Markets

CONSTANTS c1, c2, c3

MCStart == [c \in Conds |-> 1]

MCEnd == [c \in Conds |-> 3]

MCResult == [c \in Conds |-> c # c2]

Pair(id, cond) == [id |-> id, cond |-> cond]

\* The collector derives each market id from the condition id.
Derived == {Pair(1, c1), Pair(2, c2), Pair(3, c3)}

\* The collector is pinned to one id, first for one market and then for the next.
Pinned == {Pair(1, c1), Pair(1, c2)}

=============================================================================
