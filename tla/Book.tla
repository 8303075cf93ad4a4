-------------------------------- MODULE Book --------------------------------
(***************************************************************************)
(* One side of an order book as orderbook/pt_book.c keeps it: an array of  *)
(* levels in ascending order of price, searched by bisection.              *)
(***************************************************************************)
EXTENDS Integers, Sequences, SequencesExt, FiniteSets

CONSTANT MaxLevels  \* PT_BOOK_MAX_LEVELS (64 in the code)

ASSUME BookAssumption == MaxLevels \in Nat \ {0}

Level == [price : Nat, size : Nat \ {0}]

\* Seeded fault: the bisection stops one short.
FoundShort(side, price) ==
  LET S == {i \in 1 .. Len(side) - 1 : side[i].price < price} IN Cardinality(S) + 1

\* side_find: the index at which the price is, or would be inserted.
side_find(side, price) ==
  LET ends == 1 .. Len(side) + 1
      search[b \in [lo : ends, hi : ends]] ==
        IF b.lo >= b.hi THEN b.lo
        ELSE LET mid == (b.lo + b.hi) \div 2
             IN  search[IF side[mid].price < price THEN [b EXCEPT !.lo = mid + 1]
                                                   ELSE [b EXCEPT !.hi = mid]]
  IN  search[[lo |-> 1, hi |-> Len(side) + 1]]

Exact(side, price) ==
  LET i == side_find(side, price) IN i <= Len(side) /\ side[i].price = price

\* pt_book_get_level_size
level_size(side, price) ==
  IF price > 0 /\ Exact(side, price) THEN side[side_find(side, price)].size ELSE 0

\* Seeded fault: the length of the array is not looked at.
NeverRefused(side, price, amount) == FALSE

\* side_apply refuses a new level when the array is full.
Refused(side, price, amount) ==
  ~Exact(side, price) /\ amount > 0 /\ Len(side) >= MaxLevels

\* side_apply, as pt_book_update calls it.
side_apply(side, price, amount, is_delta) ==
  LET i    == side_find(side, price)
      next == IF is_delta THEN side[i].size + amount ELSE amount
  IN  CASE Exact(side, price) /\ next <= 0 -> RemoveAt(side, i)
        [] Exact(side, price) /\ next > 0  -> [side EXCEPT ![i].size = next]
        [] ~Exact(side, price) /\ amount > 0 /\ ~Refused(side, price, amount) ->
             InsertAt(side, i, [price |-> price, size |-> amount])
        [] OTHER -> side

Ascending(l, m) == l.price < m.price

\* qsort
InOrder(levels) ==
  CHOOSE s \in [1 .. Cardinality(levels) -> levels] :
    \A i, j \in DOMAIN s : i < j => Ascending(s[i], s[j])

\* pt_book_snapshot of one side: sorted, without its empty levels.
pt_book_snapshot(levels) == InOrder({l \in levels : l.size > 0})

=============================================================================
