----------------------------- MODULE StratStats -----------------------------
(***************************************************************************)
(* The counters of each strategy, analytics/pt_strategy_stats.c, and the   *)
(* file they are saved to and loaded from.  Amounts of money and averages  *)
(* are left out; would_trade counts what signals counts.                   *)
(***************************************************************************)
EXTENDS Integers

Strategies == {"A", "B"}

StratCounters ==
  [signals : Nat, risk_approved : Nat, orders_submitted : Nat,
   fills : Nat, wins : Nat, losses : Nat]

NoCounts ==
  [signals |-> 0, risk_approved |-> 0, orders_submitted |-> 0,
   fills |-> 0, wins |-> 0, losses |-> 0]

ZeroStats == [s \in Strategies |-> NoCounts]

One(condition) == IF condition THEN 1 ELSE 0

record_signal(st, s, is_approved) ==
  [st EXCEPT ![s].signals = @ + 1, ![s].risk_approved = @ + One(is_approved)]

record_order(st, s) == [st EXCEPT ![s].orders_submitted = @ + 1]

\* Seeded fault: a partial fill counts too.
CountedAlways(st, s, is_partial) == [st EXCEPT ![s].fills = @ + 1]

\* fills counts the orders filled; the count of partial fills, which is not saved, is left out.
record_fill(st, s, is_partial) == [st EXCEPT ![s].fills = @ + One(~is_partial)]

record_settlement(st, s, is_win) ==
  [st EXCEPT ![s].wins = @ + One(is_win), ![s].losses = @ + One(~is_win)]

\* Seeded fault: the results are left out of the file.
SavedWithoutResults(st) == [s \in Strategies |-> [st[s] EXCEPT !.wins = 0, !.losses = 0]]

\* pt_strat_stats_save writes every counter kept here.
strat_stats_save(st) == st

\* pt_strat_stats_load: a file that is not there, or not whole, leaves the counters at zero.
strat_stats_load(file) == IF file.whole THEN file.stats ELSE ZeroStats

Settlements(st) ==
  st["A"].wins + st["A"].losses + st["B"].wins + st["B"].losses

=============================================================================
