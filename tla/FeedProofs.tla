----------------------------- MODULE FeedProofs -----------------------------
(***************************************************************************)
(* Proofs about what the engine makes of the feed: its order book, for     *)
(* sides of any length, any prices, sizes and snapshots; the recording and *)
(* its replay, for any number of events, crashes and restarts; and the     *)
(* connection that carries the feed, for buffers, reads and queues of any  *)
(* size and any number of connections, losses and crashes.                 *)
(***************************************************************************)
EXTENDS Recording, FeedLink, Sums, SequenceTheorems, TLAPS

-----------------------------------------------------------------------------
(***************************************************************************)
(* The bisection. Any function that does what the loop does, from any      *)
(* span, finds the first level that is not cheaper; the shortest span it   *)
(* failed on would have a shorter one it fails on.                         *)
(***************************************************************************)

\* The levels are in ascending order of price.
Sorted(s) ==
  /\ s \in Seq(Level)
  /\ \A i, j \in 1 .. Len(s) : i < j => s[i].price < s[j].price

\* Where a bisection may be.
Spans(s) == [lo : 1 .. Len(s) + 1, hi : 1 .. Len(s) + 1]

\* What a turn of the loop leaves to search.
Halved(s, price, b) ==
  IF s[(b.lo + b.hi) \div 2].price < price THEN [b EXCEPT !.lo = (b.lo + b.hi) \div 2 + 1]
                                              ELSE [b EXCEPT !.hi = (b.lo + b.hi) \div 2]

\* A function that does what the loop does, from any span.
Searches(s, price, search) ==
  search = [b \in Spans(s) |-> IF b.lo >= b.hi THEN b.lo ELSE search[Halved(s, price, b)]]

\* The levels of the span below i are cheaper and the next one, if it is in the span, is not.
Rank(s, price, b, i) ==
  /\ i \in b.lo .. b.hi
  /\ \A k \in b.lo .. b.hi : k < i => s[k].price < price
  /\ i < b.hi => s[i].price >= price

LEMMA FindMeans ==
  ASSUME NEW s, NEW price
  PROVE  side_find(s, price) =
           (CHOOSE search : Searches(s, price, search))[[lo |-> 1, hi |-> Len(s) + 1]]
BY Zenon DEF side_find, Searches, Spans, Halved

LEMMA SpanType ==
  ASSUME NEW s, Sorted(s), NEW b \in Spans(s)
  PROVE  /\ Len(s) \in Nat /\ b.lo \in Nat /\ b.hi \in Nat
         /\ 1 <= b.lo /\ b.hi <= Len(s) + 1 /\ b.lo <= Len(s) + 1 /\ 1 <= b.hi
         /\ \A k \in 1 .. Len(s) : s[k] \in Level /\ s[k].price \in Nat
<1>1. s \in Seq(Level)
  BY DEF Sorted
<1>2. Len(s) \in Nat
  BY <1>1, LenProperties
<1>3. \A k \in 1 .. Len(s) : s[k] \in Level
  BY <1>1, ElementOfSeq
<1>. QED
  BY <1>2, <1>3 DEF Spans, Level

\* Half a span is a shorter one, and what is found in it is what is found in the whole.
LEMMA HalfRank ==
  ASSUME NEW s, Sorted(s), NEW price \in Nat, NEW b \in Spans(s), b.lo < b.hi
  PROVE  /\ Halved(s, price, b) \in Spans(s)
         /\ Halved(s, price, b).lo <= Halved(s, price, b).hi
         /\ Halved(s, price, b).hi - Halved(s, price, b).lo < b.hi - b.lo
         /\ \A i : Rank(s, price, Halved(s, price, b), i) => Rank(s, price, b, i)
<1>. DEFINE mid == (b.lo + b.hi) \div 2
<1>0. /\ Len(s) \in Nat /\ b.lo \in Nat /\ b.hi \in Nat
      /\ 1 <= b.lo /\ b.hi <= Len(s) + 1
      /\ \A k \in 1 .. Len(s) : s[k] \in Level /\ s[k].price \in Nat
  BY SpanType
<1>1. mid \in Nat /\ b.lo <= mid /\ mid < b.hi
  BY <1>0
<1>2. b = [lo |-> b.lo, hi |-> b.hi]
  BY DEF Spans
<1>3. Halved(s, price, b) =
        IF s[mid].price < price THEN [lo |-> mid + 1, hi |-> b.hi] ELSE [lo |-> b.lo, hi |-> mid]
  BY <1>2 DEF Halved
<1>4. \A i, j \in 1 .. Len(s) : i < j => s[i].price < s[j].price
  BY DEF Sorted
<1>. DEFINE h == Halved(s, price, b)
<1>. HIDE DEF mid, h
<1>5. CASE s[mid].price < price
  <2>1. h = [lo |-> mid + 1, hi |-> b.hi]
    BY <1>3, <1>5 DEF h
  <2>2. h \in Spans(s) /\ h.lo = mid + 1 /\ h.hi = b.hi
    BY <1>0, <1>1, <2>1 DEF Spans
  <2>3. ASSUME NEW i, Rank(s, price, h, i) PROVE Rank(s, price, b, i)
    <3>1. i \in mid + 1 .. b.hi /\ (i < b.hi => s[i].price >= price)
      BY <2>2, <2>3 DEF Rank
    <3>2. ASSUME NEW k \in b.lo .. b.hi, k < i PROVE s[k].price < price
      <4>1. CASE k >= mid + 1
        BY <2>2, <2>3, <3>2, <4>1, <1>0, <1>1 DEF Rank
      <4>2. CASE k = mid
        BY <1>5, <4>2
      <4>3. CASE k < mid
        BY <1>0, <1>1, <1>4, <1>5, <4>3
      <4>. QED
        BY <1>0, <1>1, <4>1, <4>2, <4>3
    <3>. QED
      BY <1>0, <1>1, <3>1, <3>2 DEF Rank
  <2>. QED
    BY <1>0, <1>1, <2>2, <2>3 DEF h
<1>6. CASE ~(s[mid].price < price)
  <2>1. h = [lo |-> b.lo, hi |-> mid]
    BY <1>3, <1>6 DEF h
  <2>2. h \in Spans(s) /\ h.lo = b.lo /\ h.hi = mid
    BY <1>0, <1>1, <2>1 DEF Spans
  <2>3. ASSUME NEW i, Rank(s, price, h, i) PROVE Rank(s, price, b, i)
    <3>1. i \in b.lo .. mid /\ (i < mid => s[i].price >= price)
      BY <2>2, <2>3 DEF Rank
    <3>2. s[mid].price >= price
      BY <1>0, <1>1, <1>6
    <3>3. \A k \in b.lo .. b.hi : k < i => s[k].price < price
      BY <1>0, <1>1, <2>2, <2>3, <3>1 DEF Rank
    <3>. QED
      BY <1>0, <1>1, <3>1, <3>2, <3>3 DEF Rank
  <2>. QED
    BY <1>0, <1>1, <2>2, <2>3 DEF h
<1>. QED
  BY <1>5, <1>6

\* Only one index is what a search looks for, and there is one.
LEMMA RankExists ==
  ASSUME NEW s, Sorted(s), NEW price \in Nat, NEW b \in Spans(s), b.lo <= b.hi
  PROVE  /\ \E i : Rank(s, price, b, i)
         /\ \A i, j : Rank(s, price, b, i) /\ Rank(s, price, b, j) => i = j
<1>0. /\ Len(s) \in Nat /\ b.lo \in Nat /\ b.hi \in Nat
      /\ 1 <= b.lo /\ b.hi <= Len(s) + 1
      /\ \A k \in 1 .. Len(s) : s[k] \in Level /\ s[k].price \in Nat
  BY SpanType
<1>. DEFINE T == {i \in b.lo .. b.hi : i = b.hi \/ s[i].price >= price}
<1>1. b.hi \in T /\ T \subseteq Nat
  BY <1>0
<1>2. PICK i \in T : \A m \in T : i <= m
  BY <1>1, LeastNumber
<1>3. Rank(s, price, b, i)
  <2>1. i \in b.lo .. b.hi /\ (i < b.hi => s[i].price >= price)
    BY <1>0, <1>2
  <2>2. ASSUME NEW k \in b.lo .. b.hi, k < i PROVE s[k].price < price
    <3>1. k \notin T /\ k # b.hi
      BY <1>0, <1>2, <2>1, <2>2
    <3>2. ~(s[k].price >= price) /\ k \in 1 .. Len(s)
      BY <1>0, <3>1
    <3>. QED
      BY <1>0, <3>2
  <2>. QED
    BY <2>1, <2>2 DEF Rank
<1>4. ASSUME NEW x, NEW y, Rank(s, price, b, x), Rank(s, price, b, y), x < y PROVE FALSE
  <2>1. x \in b.lo .. b.hi /\ y \in b.lo .. b.hi /\ s[x].price < price /\ s[x].price >= price
    BY <1>0, <1>4 DEF Rank
  <2>2. x \in 1 .. Len(s)
    BY <1>0, <1>4, <2>1
  <2>. QED
    BY <1>0, <2>1, <2>2
<1>5. ASSUME NEW x, NEW y, Rank(s, price, b, x), Rank(s, price, b, y) PROVE x = y
  <2>1. x \in Int /\ y \in Int
    BY <1>5 DEF Rank
  <2>2. ~(x < y) /\ ~(y < x)
    BY <1>4, <1>5
  <2>. QED
    BY <2>1, <2>2
<1>. QED
  BY <1>3, <1>5

\* There is a function that searches: the one that knows the answers.
LEMMA SearchExists ==
  ASSUME NEW s, Sorted(s), NEW price \in Nat
  PROVE  \E search : Searches(s, price, search)
<1>. DEFINE W == [b \in Spans(s) |-> IF b.lo >= b.hi THEN b.lo ELSE CHOOSE i : Rank(s, price, b, i)]
<1>1. \A b \in Spans(s) : b.lo \in Nat /\ b.hi \in Nat
  BY SpanType
<1>2. ASSUME NEW b \in Spans(s), b.lo <= b.hi PROVE Rank(s, price, b, W[b])
  <2>1. CASE b.lo < b.hi
    <3>1. W[b] = CHOOSE i : Rank(s, price, b, i)
      BY <1>1, <2>1
    <3>2. \E i : Rank(s, price, b, i)
      BY <1>1, <1>2, RankExists
    <3>. HIDE DEF W
    <3>. QED
      BY <3>1, <3>2, Zenon
  <2>2. CASE b.lo = b.hi
    <3>1. W[b] = b.lo
      BY <1>1, <2>2
    <3>. HIDE DEF W
    <3>. QED
      BY <1>1, <2>2, <3>1 DEF Rank
  <2>. QED
    BY <1>1, <1>2, <2>1, <2>2
<1>3. ASSUME NEW b \in Spans(s)
      PROVE  W[b] = IF b.lo >= b.hi THEN b.lo ELSE W[Halved(s, price, b)]
  <2>1. CASE b.lo >= b.hi
    BY <2>1
  <2>2. CASE ~(b.lo >= b.hi)
    <3>. DEFINE h == Halved(s, price, b)
    <3>1. b.lo < b.hi /\ b.lo <= b.hi
      BY <1>1, <2>2
    <3>2. h \in Spans(s) /\ h.lo <= h.hi /\ \A i : Rank(s, price, h, i) => Rank(s, price, b, i)
      BY <3>1, HalfRank
    <3>. HIDE DEF h, W
    <3>3. Rank(s, price, b, W[b]) /\ Rank(s, price, b, W[h])
      BY <1>2, <3>1, <3>2
    <3>4. W[b] = W[h]
      BY <3>1, <3>3, RankExists
    <3>. QED
      BY <2>2, <3>4 DEF h
  <2>. QED
    BY <2>1, <2>2
<1>4. W = [b \in Spans(s) |-> W[b]]
  OBVIOUS
<1>. HIDE DEF W
<1>5. W = [b \in Spans(s) |-> IF b.lo >= b.hi THEN b.lo ELSE W[Halved(s, price, b)]]
  BY <1>3, <1>4, Zenon
<1>. QED
  BY <1>5 DEF Searches

\* Whatever function searches finds that index: the shortest span it fails on would have a
\* shorter one it fails on.
LEMMA SearchFinds ==
  ASSUME NEW s, Sorted(s), NEW price \in Nat, NEW search, Searches(s, price, search),
         NEW b \in Spans(s), b.lo <= b.hi
  PROVE  Rank(s, price, b, search[b])
<1>. DEFINE Fails(c) == c.lo <= c.hi /\ ~Rank(s, price, c, search[c])
            Bad == {n \in Nat : \E c \in Spans(s) : Fails(c) /\ c.hi - c.lo = n}
<1>1. \A c \in Spans(s) : c.lo \in Nat /\ c.hi \in Nat
  BY SpanType
<1>2. \A c \in Spans(s) : search[c] = IF c.lo >= c.hi THEN c.lo ELSE search[Halved(s, price, c)]
  BY DEF Searches
<1>3. Bad = {}
  <2>1. SUFFICES ASSUME Bad # {} PROVE FALSE
    OBVIOUS
  <2>2. PICK n \in Bad : \A m \in Bad : n <= m
    BY <2>1, LeastNumber
  <2>3. PICK c \in Spans(s) : Fails(c) /\ c.hi - c.lo = n
    BY <2>2
  <2>4. CASE c.lo = c.hi
    <3>1. search[c] = c.lo
      BY <1>1, <1>2, <2>4
    <3>. QED
      BY <1>1, <2>3, <2>4, <3>1 DEF Rank
  <2>5. CASE c.lo < c.hi
    <3>. DEFINE h == Halved(s, price, c)
    <3>1. /\ h \in Spans(s) /\ h.lo <= h.hi /\ h.hi - h.lo < c.hi - c.lo
          /\ \A i : Rank(s, price, h, i) => Rank(s, price, c, i)
      BY <2>5, HalfRank
    <3>2. search[c] = search[h]
      BY <1>1, <1>2, <2>5
    <3>. HIDE DEF h
    <3>3. Fails(h)
      BY <2>3, <3>1, <3>2
    <3>4. h.hi - h.lo \in Nat
      BY <1>1, <3>1
    <3>5. h.hi - h.lo \in Bad
      BY <3>1, <3>3, <3>4
    <3>. QED
      BY <1>1, <2>2, <2>3, <3>1, <3>4, <3>5
  <2>. QED
    BY <1>1, <2>3, <2>4, <2>5
<1>4. b.hi - b.lo \in Nat
  BY <1>1
<1>. QED
  BY <1>3, <1>4

\* side_find, for a side in order: every level before the index is cheaper and the one at it,
\* if there is one, is not.
LEMMA SideFound ==
  ASSUME NEW s, Sorted(s), NEW price \in Nat
  PROVE  /\ side_find(s, price) \in 1 .. Len(s) + 1
         /\ \A k \in 1 .. Len(s) : k < side_find(s, price) => s[k].price < price
         /\ \A k \in 1 .. Len(s) : k >= side_find(s, price) => s[k].price >= price
<1>. DEFINE search == CHOOSE search : Searches(s, price, search)
            b == [lo |-> 1, hi |-> Len(s) + 1]
            i == side_find(s, price)
<1>1. Searches(s, price, search)
  BY SearchExists, Zenon
<1>2. i = search[b]
  BY FindMeans, Zenon
<1>. HIDE DEF search
<1>3. Len(s) \in Nat /\ \A k \in 1 .. Len(s) : s[k].price \in Nat
  <2>1. s \in Seq(Level)
    BY DEF Sorted
  <2>2. Len(s) \in Nat /\ \A k \in 1 .. Len(s) : s[k] \in Level
    BY <2>1, LenProperties, ElementOfSeq
  <2>. QED
    BY <2>2 DEF Level
<1>4. b \in Spans(s) /\ b.lo = 1 /\ b.hi = Len(s) + 1 /\ b.lo <= b.hi
  BY <1>3 DEF Spans
<1>. HIDE DEF b, i
<1>5. Rank(s, price, b, i)
  BY <1>1, <1>2, <1>4, SearchFinds
<1>6. /\ i \in 1 .. Len(s) + 1
      /\ \A k \in 1 .. Len(s) + 1 : k < i => s[k].price < price
      /\ i < Len(s) + 1 => s[i].price >= price
  BY <1>4, <1>5 DEF Rank
<1>7. ASSUME NEW k \in 1 .. Len(s), k >= i PROVE s[k].price >= price
  <2>1. i \in 1 .. Len(s) /\ s[i].price >= price
    BY <1>3, <1>6, <1>7
  <2>2. i < k => s[i].price < s[k].price
    BY <1>3, <2>1 DEF Sorted
  <2>. QED
    BY <1>3, <1>6, <1>7, <2>1, <2>2
<1>. QED
  BY <1>3, <1>6, <1>7 DEF i

-----------------------------------------------------------------------------
(***************************************************************************)
(* What a change does to a side.                                           *)
(***************************************************************************)

\* The side has a level of this price and size.
Shows(s, price, size) == \E k \in 1 .. Len(s) : s[k].price = price /\ s[k].size = size

LEMMA SortedType ==
  ASSUME NEW s, Sorted(s)
  PROVE  /\ s \in Seq(Level) /\ Len(s) \in Nat /\ DOMAIN s = 1 .. Len(s)
         /\ \A k \in 1 .. Len(s) : /\ s[k] \in Level /\ s[k].price \in Nat
                                   /\ s[k].size \in Nat \ {0}
<1>1. s \in Seq(Level)
  BY DEF Sorted
<1>2. Len(s) \in Nat /\ DOMAIN s = 1 .. Len(s) /\ \A k \in 1 .. Len(s) : s[k] \in Level
  BY <1>1, LenProperties, ElementOfSeq
<1>. QED
  BY <1>1, <1>2 DEF Level

\* The exact flag: there is a level of the price, and it is the one found.
LEMMA ExactMeans ==
  ASSUME NEW s, Sorted(s), NEW price \in Nat
  PROVE  /\ Exact(s, price) <=> \E k \in 1 .. Len(s) : s[k].price = price
         /\ \A k \in 1 .. Len(s) : s[k].price = price => k = side_find(s, price)
<1>. DEFINE i == side_find(s, price)
<1>1. Len(s) \in Nat /\ \A k \in 1 .. Len(s) : s[k].price \in Nat
  BY SortedType
<1>2. /\ i \in 1 .. Len(s) + 1
      /\ \A k \in 1 .. Len(s) : k < i => s[k].price < price
      /\ \A k \in 1 .. Len(s) : k >= i => s[k].price >= price
  BY SideFound
<1>3. Exact(s, price) <=> i <= Len(s) /\ s[i].price = price
  BY DEF Exact
<1>. HIDE DEF i
<1>4. ASSUME NEW k \in 1 .. Len(s), s[k].price = price PROVE k = i
  <2>1. ~(k < i)
    BY <1>1, <1>2, <1>4
  <2>2. ASSUME i < k PROVE FALSE
    <3>1. i \in 1 .. Len(s)
      BY <1>1, <1>2, <2>2
    <3>2. s[i].price < s[k].price /\ s[i].price >= price
      BY <1>1, <1>2, <2>2, <3>1 DEF Sorted
    <3>. QED
      BY <1>1, <1>4, <3>1, <3>2
  <2>. QED
    BY <1>1, <1>2, <2>1, <2>2
<1>5. Exact(s, price) <=> \E k \in 1 .. Len(s) : s[k].price = price
  BY <1>1, <1>2, <1>3, <1>4
<1>. QED
  BY <1>4, <1>5 DEF i

\* pt_book_get_level_size gives the size of the level, and 0 when there is none.
LEMMA LevelSizeMeans ==
  ASSUME NEW s, Sorted(s), NEW price \in Nat \ {0}
  PROVE  /\ \A n : Shows(s, price, n) => level_size(s, price) = n /\ n \in Nat \ {0}
         /\ (\A n : ~Shows(s, price, n)) => level_size(s, price) = 0
<1>. DEFINE i == side_find(s, price)
<1>1. /\ Len(s) \in Nat
      /\ \A k \in 1 .. Len(s) : s[k].price \in Nat /\ s[k].size \in Nat \ {0}
  BY SortedType
<1>2. /\ Exact(s, price) <=> \E k \in 1 .. Len(s) : s[k].price = price
      /\ \A k \in 1 .. Len(s) : s[k].price = price => k = i
  BY ExactMeans
<1>3. level_size(s, price) = IF Exact(s, price) THEN s[i].size ELSE 0
  BY DEF level_size
<1>. HIDE DEF i
<1>. QED
  BY <1>1, <1>2, <1>3 DEF Shows

LEMMA Removed ==
  ASSUME NEW s, Sorted(s), NEW i \in 1 .. Len(s)
  PROVE  /\ Sorted(RemoveAt(s, i)) /\ Len(RemoveAt(s, i)) = Len(s) - 1
         /\ \A p, n : Shows(RemoveAt(s, i), p, n) <=> Shows(s, p, n) /\ p # s[i].price
<1>. DEFINE a == SubSeq(s, 1, i - 1)
            b == SubSeq(s, i + 1, Len(s))
            t == RemoveAt(s, i)
<1>1. /\ s \in Seq(Level) /\ Len(s) \in Nat
      /\ \A k \in 1 .. Len(s) : s[k] \in Level /\ s[k].price \in Nat
  BY SortedType
<1>2. a \in Seq(Level) /\ Len(a) = i - 1 /\ \A k \in 1 .. i - 1 : a[k] = s[k]
  BY <1>1, SubSeqProperties
<1>3. b \in Seq(Level) /\ Len(b) = Len(s) - i /\ \A k \in 1 .. Len(s) - i : b[k] = s[k + i]
  BY <1>1, SubSeqProperties
<1>4. t = a \o b
  BY DEF RemoveAt
<1>. HIDE DEF a, b, t
<1>5. /\ t \in Seq(Level) /\ Len(t) = Len(s) - 1
      /\ \A k \in 1 .. Len(s) - 1 : t[k] = IF k <= i - 1 THEN a[k] ELSE b[k - (i - 1)]
  <2>1. /\ a \o b \in Seq(Level) /\ Len(a \o b) = Len(a) + Len(b)
        /\ \A k \in 1 .. Len(a) + Len(b) :
             (a \o b)[k] = IF k <= Len(a) THEN a[k] ELSE b[k - Len(a)]
    BY <1>2, <1>3, ConcatProperties
  <2>2. Len(a) + Len(b) = Len(s) - 1
    BY <1>1, <1>2, <1>3
  <2>. QED
    BY <1>2, <1>4, <2>1, <2>2
<1>6. \A k \in 1 .. Len(s) - 1 : t[k] = IF k < i THEN s[k] ELSE s[k + 1]
  <2>. TAKE k \in 1 .. Len(s) - 1
  <2>1. CASE k < i
    BY <1>1, <1>2, <1>5, <2>1
  <2>2. CASE k >= i
    <3>1. k - (i - 1) \in 1 .. Len(s) - i /\ k - (i - 1) + i = k + 1
      BY <1>1, <2>2
    <3>2. b[k - (i - 1)] = s[k + 1]
      BY <1>3, <3>1
    <3>. QED
      BY <1>1, <1>5, <2>2, <3>2
  <2>. QED
    BY <1>1, <2>1, <2>2
<1>7. \A j, k \in 1 .. Len(s) : j < k => s[j].price < s[k].price
  BY DEF Sorted
<1>8. \A j, k \in 1 .. Len(t) : j < k => t[j].price < t[k].price
  <2>. TAKE j, k \in 1 .. Len(t)
  <2>. HAVE j < k
  <2>1. /\ j \in 1 .. Len(s) /\ k \in 1 .. Len(s) /\ j + 1 \in 1 .. Len(s) /\ k + 1 \in 1 .. Len(s)
        /\ j \in 1 .. Len(s) - 1 /\ k \in 1 .. Len(s) - 1
    BY <1>1, <1>5
  <2>2. t[j] = s[j] \/ (t[j] = s[j + 1] /\ j >= i)
    BY <1>6, <2>1
  <2>3. t[k] = s[k + 1] \/ (t[k] = s[k] /\ k < i)
    BY <1>6, <2>1
  <2>4. CASE t[k] = s[k + 1]
    <3>1. t[j] = s[j] \/ t[j] = s[j + 1]
      BY <2>2
    <3>2. s[j].price < s[k + 1].price /\ s[j + 1].price < s[k + 1].price
      BY <1>7, <2>1
    <3>. QED
      BY <2>4, <3>1, <3>2
  <2>5. CASE t[k] = s[k] /\ k < i
    <3>1. t[j] = s[j] /\ s[j].price < s[k].price
      BY <1>7, <2>1, <2>2, <2>5
    <3>. QED
      BY <2>5, <3>1
  <2>. QED
    BY <2>3, <2>4, <2>5
<1>9. ASSUME NEW p, NEW n, Shows(t, p, n) PROVE Shows(s, p, n) /\ p # s[i].price
  <2>1. PICK k \in 1 .. Len(t) : t[k].price = p /\ t[k].size = n
    BY <1>9 DEF Shows
  <2>2. k \in 1 .. Len(s) /\ k + 1 \in 1 .. Len(s) /\ k \in 1 .. Len(s) - 1
    BY <1>1, <1>5
  <2>3. CASE k < i
    <3>1. t[k] = s[k] /\ s[k].price < s[i].price
      BY <1>6, <1>7, <2>2, <2>3
    <3>. QED
      BY <1>1, <2>1, <2>2, <3>1 DEF Shows
  <2>4. CASE ~(k < i)
    <3>1. t[k] = s[k + 1] /\ s[i].price < s[k + 1].price
      BY <1>6, <1>7, <2>2, <2>4
    <3>. QED
      BY <1>1, <2>1, <2>2, <3>1 DEF Shows
  <2>. QED
    BY <2>3, <2>4
<1>10. ASSUME NEW p, NEW n, Shows(s, p, n), p # s[i].price PROVE Shows(t, p, n)
  <2>1. PICK k \in 1 .. Len(s) : s[k].price = p /\ s[k].size = n
    BY <1>10 DEF Shows
  <2>2. k # i
    BY <1>10, <2>1
  <2>3. CASE k < i
    <3>1. k \in 1 .. Len(t) /\ t[k] = s[k]
      BY <1>1, <1>5, <1>6, <2>3
    <3>. QED
      BY <2>1, <3>1 DEF Shows
  <2>4. CASE k > i
    <3>1. k - 1 \in 1 .. Len(t) /\ k - 1 \in 1 .. Len(s) - 1 /\ ~(k - 1 < i) /\ k - 1 + 1 = k
      BY <1>1, <1>5, <2>4
    <3>2. t[k - 1] = s[k]
      BY <1>6, <3>1
    <3>. QED
      BY <2>1, <3>1, <3>2 DEF Shows
  <2>. QED
    BY <1>1, <2>2, <2>3, <2>4
<1>11. Sorted(t)
  BY <1>5, <1>8 DEF Sorted
<1>. QED
  BY <1>5, <1>9, <1>10, <1>11 DEF t

LEMMA Resized ==
  ASSUME NEW s, Sorted(s), NEW i \in 1 .. Len(s), NEW size \in Nat \ {0}
  PROVE  /\ Sorted([s EXCEPT ![i].size = size]) /\ Len([s EXCEPT ![i].size = size]) = Len(s)
         /\ \A p, n : Shows([s EXCEPT ![i].size = size], p, n)
                      <=> IF p = s[i].price THEN n = size ELSE Shows(s, p, n)
<1>. DEFINE l == [s[i] EXCEPT !.size = size]
            t == [s EXCEPT ![i] = l]
<1>1. /\ s \in Seq(Level) /\ Len(s) \in Nat /\ DOMAIN s = 1 .. Len(s)
      /\ \A k \in 1 .. Len(s) : s[k] \in Level /\ s[k].price \in Nat
  BY SortedType
<1>2. l \in Level /\ l.price = s[i].price /\ l.size = size
  BY <1>1 DEF Level
<1>3. [s EXCEPT ![i].size = size] = t
  BY <1>1
<1>. HIDE DEF l
<1>4. /\ t \in Seq(Level) /\ Len(t) = Len(s)
      /\ \A k \in 1 .. Len(s) : t[k] = IF k = i THEN l ELSE s[k]
  BY <1>1, <1>2, ExceptSeq
<1>. HIDE DEF t
<1>5. \A k \in 1 .. Len(s) : t[k].price = s[k].price
  BY <1>2, <1>4
<1>6. Sorted(t)
  BY <1>1, <1>4, <1>5 DEF Sorted
<1>7. \A k \in 1 .. Len(s) : s[k].price = s[i].price => k = i
  <2>1. \A j, k \in 1 .. Len(s) : j < k => s[j].price < s[k].price
    BY DEF Sorted
  <2>. TAKE k \in 1 .. Len(s)
  <2>2. k < i \/ i < k \/ k = i
    BY <1>1
  <2>. QED
    BY <1>1, <2>1, <2>2
<1>8. \A p, n : Shows(t, p, n) <=> IF p = s[i].price THEN n = size ELSE Shows(s, p, n)
  <2>. TAKE p, n
  <2>1. CASE p = s[i].price
    BY <1>2, <1>4, <1>5, <1>7, <2>1 DEF Shows
  <2>2. CASE p # s[i].price
    BY <1>2, <1>4, <1>5, <1>7, <2>2 DEF Shows
  <2>. QED
    BY <2>1, <2>2
<1>. QED
  BY <1>3, <1>4, <1>6, <1>8

LEMMA Inserted ==
  ASSUME NEW s, Sorted(s), NEW l \in Level, NEW i \in 1 .. Len(s) + 1,
         \A k \in 1 .. Len(s) : k < i => s[k].price < l.price,
         \A k \in 1 .. Len(s) : k >= i => l.price < s[k].price
  PROVE  /\ Sorted(InsertAt(s, i, l)) /\ Len(InsertAt(s, i, l)) = Len(s) + 1
         /\ \A p, n : Shows(InsertAt(s, i, l), p, n)
                      <=> IF p = l.price THEN n = l.size ELSE Shows(s, p, n)
<1>. DEFINE a == SubSeq(s, 1, i - 1)
            b == SubSeq(s, i, Len(s))
            c == a \o <<l>>
            t == InsertAt(s, i, l)
<1>1. /\ s \in Seq(Level) /\ Len(s) \in Nat /\ l.price \in Nat
      /\ \A k \in 1 .. Len(s) : s[k] \in Level /\ s[k].price \in Nat
  BY SortedType DEF Level
<1>2. a \in Seq(Level) /\ Len(a) = i - 1 /\ \A k \in 1 .. i - 1 : a[k] = s[k]
  BY <1>1, SubSeqProperties
<1>3. b \in Seq(Level) /\ Len(b) = Len(s) - i + 1 /\ \A k \in 1 .. Len(s) - i + 1 : b[k] = s[i + k - 1]
  BY <1>1, SubSeqProperties
<1>4. <<l>> \in Seq(Level) /\ Len(<<l>>) = 1 /\ <<l>>[1] = l
  OBVIOUS
<1>5. t = c \o b
  BY DEF InsertAt
<1>. HIDE DEF a, b, t
<1>. DEFINE d == <<l>>
<1>6. d \in Seq(Level) /\ Len(d) = 1 /\ d[1] = l /\ c = a \o d
  BY <1>4
<1>. HIDE DEF d, c
<1>7. /\ c \in Seq(Level) /\ Len(c) = i
      /\ \A k \in 1 .. i : c[k] = IF k <= i - 1 THEN a[k] ELSE d[k - (i - 1)]
  <2>1. /\ a \o d \in Seq(Level) /\ Len(a \o d) = Len(a) + Len(d)
        /\ \A k \in 1 .. Len(a) + Len(d) :
             (a \o d)[k] = IF k <= Len(a) THEN a[k] ELSE d[k - Len(a)]
    BY <1>2, <1>6, ConcatProperties
  <2>2. Len(a) + Len(d) = i
    BY <1>1, <1>2, <1>6
  <2>. QED
    BY <1>2, <1>6, <2>1, <2>2
<1>8. \A k \in 1 .. i : c[k] = IF k < i THEN s[k] ELSE l
  <2>. TAKE k \in 1 .. i
  <2>1. CASE k < i
    BY <1>1, <1>2, <1>7, <2>1
  <2>2. CASE k = i
    <3>1. k - (i - 1) = 1 /\ ~(k <= i - 1)
      BY <2>2
    <3>2. c[k] = d[1]
      BY <1>7, <3>1
    <3>. QED
      BY <1>6, <2>2, <3>2
  <2>. QED
    BY <2>1, <2>2
<1>9. /\ t \in Seq(Level) /\ Len(t) = Len(s) + 1
      /\ \A k \in 1 .. Len(s) + 1 : t[k] = IF k <= i THEN c[k] ELSE b[k - i]
  <2>1. /\ c \o b \in Seq(Level) /\ Len(c \o b) = Len(c) + Len(b)
        /\ \A k \in 1 .. Len(c) + Len(b) :
             (c \o b)[k] = IF k <= Len(c) THEN c[k] ELSE b[k - Len(c)]
    BY <1>3, <1>7, ConcatProperties
  <2>2. Len(c) + Len(b) = Len(s) + 1
    BY <1>1, <1>3, <1>7
  <2>. QED
    BY <1>5, <1>7, <2>1, <2>2
<1>10. \A k \in 1 .. Len(s) + 1 : t[k] = IF k < i THEN s[k] ELSE IF k = i THEN l ELSE s[k - 1]
  <2>. TAKE k \in 1 .. Len(s) + 1
  <2>1. CASE k <= i
    BY <1>1, <1>8, <1>9, <2>1
  <2>2. CASE k > i
    <3>1. k - i \in 1 .. Len(s) - i + 1 /\ i + (k - i) - 1 = k - 1
      BY <1>1, <2>2
    <3>2. b[k - i] = s[k - 1]
      BY <1>3, <3>1
    <3>. QED
      BY <1>1, <1>9, <2>2, <3>2
  <2>. QED
    BY <1>1, <2>1, <2>2
<1>11. \A j, k \in 1 .. Len(s) : j < k => s[j].price < s[k].price
  BY DEF Sorted
<1>12. \A j, k \in 1 .. Len(t) : j < k => t[j].price < t[k].price
  <2>. TAKE j, k \in 1 .. Len(t)
  <2>. HAVE j < k
  <2>0. j \in 1 .. Len(s) + 1 /\ k \in 1 .. Len(s) + 1
    BY <1>9
  <2>1. CASE k < i
    <3>1. t[j] = s[j] /\ t[k] = s[k] /\ j \in 1 .. Len(s) /\ k \in 1 .. Len(s)
      BY <1>1, <1>10, <2>0, <2>1
    <3>. QED
      BY <1>11, <3>1
  <2>2. CASE k = i
    <3>1. t[j] = s[j] /\ t[k] = l /\ j \in 1 .. Len(s) /\ j < i
      BY <1>1, <1>10, <2>0, <2>2
    <3>. QED
      BY <3>1
  <2>3. CASE k > i
    <3>1. t[k] = s[k - 1] /\ k - 1 \in 1 .. Len(s) /\ k - 1 >= i
      BY <1>1, <1>10, <2>0, <2>3
    <3>2. CASE j < i
      <4>1. t[j] = s[j] /\ j \in 1 .. Len(s) /\ j < k - 1
        BY <1>1, <1>10, <2>0, <2>3, <3>2
      <4>. QED
        BY <1>11, <3>1, <4>1
    <3>3. CASE j = i
      BY <1>10, <2>0, <3>1, <3>3
    <3>4. CASE j > i
      <4>1. t[j] = s[j - 1] /\ j - 1 \in 1 .. Len(s) /\ j - 1 < k - 1
        BY <1>1, <1>10, <2>0, <2>3, <3>4
      <4>. QED
        BY <1>11, <3>1, <4>1
    <3>. QED
      BY <1>1, <2>0, <3>2, <3>3, <3>4
  <2>. QED
    BY <1>1, <2>0, <2>1, <2>2, <2>3
<1>13. \A k \in 1 .. Len(s) : s[k].price # l.price
  BY <1>1
<1>14. ASSUME NEW p, NEW n, Shows(t, p, n)
       PROVE  IF p = l.price THEN n = l.size ELSE Shows(s, p, n)
  <2>1. PICK k \in 1 .. Len(s) + 1 : t[k].price = p /\ t[k].size = n
    BY <1>9, <1>14 DEF Shows
  <2>2. t[k] = l \/ \E j \in 1 .. Len(s) : t[k] = s[j]
    BY <1>1, <1>10
  <2>. QED
    BY <1>13, <2>1, <2>2 DEF Shows
<1>15. ASSUME NEW p, NEW n, IF p = l.price THEN n = l.size ELSE Shows(s, p, n)
       PROVE  Shows(t, p, n)
  <2>1. \A k \in 1 .. Len(s) : \E j \in 1 .. Len(t) : t[j] = s[k]
    <3>. TAKE k \in 1 .. Len(s)
    <3>1. CASE k < i
      BY <1>1, <1>9, <1>10, <3>1
    <3>2. CASE k >= i
      <4>1. k + 1 \in 1 .. Len(s) + 1 /\ ~(k + 1 < i) /\ k + 1 # i /\ k + 1 - 1 = k
        BY <1>1, <3>2
      <4>2. t[k + 1] = s[k]
        BY <1>10, <4>1
      <4>. QED
        BY <1>9, <4>1, <4>2
    <3>. QED
      BY <1>1, <3>1, <3>2
  <2>2. i \in 1 .. Len(t) /\ t[i] = l
    BY <1>9, <1>10
  <2>. QED
    BY <1>15, <2>1, <2>2 DEF Shows
<1>16. Sorted(t)
  BY <1>9, <1>12 DEF Sorted
<1>. QED
  BY <1>9, <1>14, <1>15, <1>16 DEF t

\* Two sides with the same levels of a price give it the same size.
LEMMA SameSize ==
  ASSUME NEW s, NEW t, Sorted(s), Sorted(t), NEW price \in Nat \ {0},
         \A n : Shows(s, price, n) <=> Shows(t, price, n)
  PROVE  level_size(s, price) = level_size(t, price)
<1>1. CASE \E n : Shows(s, price, n)
  <2>1. PICK n : Shows(s, price, n)
    BY <1>1
  <2>2. level_size(s, price) = n /\ level_size(t, price) = n
    BY <2>1, LevelSizeMeans
  <2>. QED
    BY <2>2
<1>2. CASE \A n : ~Shows(s, price, n)
  <2>1. level_size(s, price) = 0 /\ level_size(t, price) = 0
    BY <1>2, LevelSizeMeans
  <2>. QED
    BY <2>1
<1>. QED
  BY <1>1, <1>2

\* side_apply keeps a side in order and within its array, leaves the other prices as they were
\* and gives the price what was asked for, unless the array has no room.
LEMMA Applied ==
  ASSUME NEW s, Sorted(s), Len(s) <= MaxLevels, NEW price \in Nat \ {0}, NEW amount \in Nat,
         NEW is_delta \in BOOLEAN
  PROVE  /\ Sorted(side_apply(s, price, amount, is_delta))
         /\ Len(side_apply(s, price, amount, is_delta)) <= MaxLevels
         /\ Len(side_apply(s, price, amount, is_delta)) >= Len(s) \/ (~is_delta /\ amount = 0)
         /\ \A p \in Nat \ {0} : p # price =>
              level_size(side_apply(s, price, amount, is_delta), p) = level_size(s, p)
         /\ level_size(side_apply(s, price, amount, is_delta), price) =
              IF Refused(s, price, amount) THEN 0
              ELSE IF is_delta THEN level_size(s, price) + amount ELSE amount
         /\ Refused(s, price, amount) => Len(s) = MaxLevels
<1>. DEFINE i == side_find(s, price)
            t == side_apply(s, price, amount, is_delta)
            next == IF is_delta THEN s[i].size + amount ELSE amount
            l == [price |-> price, size |-> amount]
<1>1. /\ s \in Seq(Level) /\ Len(s) \in Nat /\ MaxLevels \in Nat \ {0}
      /\ \A k \in 1 .. Len(s) : s[k].price \in Nat /\ s[k].size \in Nat \ {0}
  BY SortedType, BookAssumption
<1>2. /\ i \in 1 .. Len(s) + 1
      /\ \A k \in 1 .. Len(s) : k < i => s[k].price < price
      /\ \A k \in 1 .. Len(s) : k >= i => s[k].price >= price
  BY SideFound
<1>3. /\ Exact(s, price) <=> \E k \in 1 .. Len(s) : s[k].price = price
      /\ \A k \in 1 .. Len(s) : s[k].price = price => k = i
  BY ExactMeans
<1>4. t = CASE Exact(s, price) /\ next <= 0 -> RemoveAt(s, i)
            [] Exact(s, price) /\ next > 0  -> [s EXCEPT ![i].size = next]
            [] ~Exact(s, price) /\ amount > 0 /\ ~Refused(s, price, amount) -> InsertAt(s, i, l)
            [] OTHER -> s
  BY DEF side_apply
<1>5. Refused(s, price, amount) <=> ~Exact(s, price) /\ amount > 0 /\ Len(s) >= MaxLevels
  BY DEF Refused
<1>6. ASSUME NEW x, Sorted(x), NEW p \in Nat \ {0}, \A n : ~Shows(x, p, n)
      PROVE  level_size(x, p) = 0
  BY <1>6, LevelSizeMeans
<1>7. ASSUME NEW x, Sorted(x), NEW p \in Nat \ {0}, NEW n, Shows(x, p, n)
      PROVE  level_size(x, p) = n
  BY <1>7, LevelSizeMeans
<1>. HIDE DEF t, i
<1>8. CASE Exact(s, price)
  <2>1. i \in 1 .. Len(s) /\ s[i].price = price /\ Shows(s, price, s[i].size)
    BY <1>3, <1>8 DEF Shows
  <2>2. level_size(s, price) = s[i].size
    BY <1>7, <2>1
  <2>3. next \in Nat /\ ~Refused(s, price, amount)
    BY <1>1, <1>5, <1>8, <2>1
  <2>. HIDE DEF next
  <2>4. CASE next = 0
    <3>1. t = RemoveAt(s, i)
      BY <1>4, <1>8, <2>4
    <3>2. /\ Sorted(t) /\ Len(t) = Len(s) - 1
          /\ \A p, n : Shows(t, p, n) <=> Shows(s, p, n) /\ p # price
      BY <2>1, <3>1, Removed
    <3>3. ~is_delta /\ amount = 0
      BY <1>1, <2>1, <2>4 DEF next
    <3>4. level_size(t, price) = 0
      BY <1>6, <3>2
    <3>5. \A p \in Nat \ {0} : p # price => level_size(t, p) = level_size(s, p)
      BY <3>2, SameSize
    <3>. QED
      BY <1>1, <2>3, <3>2, <3>3, <3>4, <3>5 DEF t
  <2>5. CASE next > 0
    <3>1. t = [s EXCEPT ![i].size = next]
      BY <1>4, <1>8, <2>3, <2>5
    <3>0. next \in Nat \ {0}
      BY <2>3, <2>5
    <3>2. /\ Sorted(t) /\ Len(t) = Len(s)
          /\ \A p, n : Shows(t, p, n) <=> IF p = s[i].price THEN n = next ELSE Shows(s, p, n)
      BY <2>1, <3>0, <3>1, Resized, Zenon
    <3>3. level_size(t, price) = next
      BY <1>7, <2>1, <3>2
    <3>4. \A p \in Nat \ {0} : p # price => level_size(t, p) = level_size(s, p)
      BY <2>1, <3>2, SameSize
    <3>5. next = IF is_delta THEN level_size(s, price) + amount ELSE amount
      BY <2>2 DEF next
    <3>. QED
      BY <1>1, <2>3, <3>2, <3>3, <3>4, <3>5 DEF t
  <2>. QED
    BY <2>3, <2>4, <2>5
<1>9. CASE ~Exact(s, price)
  <2>1. level_size(s, price) = 0
    BY <1>3, <1>6, <1>9 DEF Shows
  <2>2. CASE amount > 0 /\ ~Refused(s, price, amount)
    <3>1. t = InsertAt(s, i, l)
      BY <1>4, <1>9, <2>2
    <3>2. l \in Level /\ l.price = price /\ l.size = amount
      BY <2>2 DEF Level
    <3>3. \A k \in 1 .. Len(s) : k >= i => price < s[k].price
      BY <1>1, <1>2, <1>3, <1>9
    <3>. HIDE DEF l
    <3>4. /\ Sorted(t) /\ Len(t) = Len(s) + 1
          /\ \A p, n : Shows(t, p, n) <=> IF p = price THEN n = amount ELSE Shows(s, p, n)
      BY <1>2, <3>1, <3>2, <3>3, Inserted
    <3>5. level_size(t, price) = amount
      BY <1>7, <3>4
    <3>6. \A p \in Nat \ {0} : p # price => level_size(t, p) = level_size(s, p)
      BY <3>4, SameSize
    <3>7. Len(s) < MaxLevels
      BY <1>1, <1>5, <1>9, <2>2
    <3>. QED
      BY <1>1, <2>1, <2>2, <3>4, <3>5, <3>6, <3>7 DEF t
  <2>3. CASE ~(amount > 0 /\ ~Refused(s, price, amount))
    <3>1. t = s
      BY <1>4, <1>9, <2>3
    <3>2. Refused(s, price, amount) \/ amount = 0
      BY <2>3
    <3>. QED
      BY <1>1, <1>5, <1>9, <2>1, <3>1, <3>2 DEF t
  <2>. QED
    BY <2>2, <2>3
<1>. QED
  BY <1>8, <1>9

-----------------------------------------------------------------------------
(***************************************************************************)
(* A snapshot.                                                             *)
(***************************************************************************)

\* What the exchange may show: sizes by price, one to a price.
OneToAPrice(levels) ==
  /\ IsFiniteSet(levels)
  /\ levels \subseteq [price : Nat, size : Nat]
  /\ \A l, m \in levels : l.price = m.price => l = m

\* s lists the levels by price.
Lists(s, levels) ==
  /\ s \in [1 .. Cardinality(levels) -> levels]
  /\ \A i, j \in DOMAIN s : i < j => Ascending(s[i], s[j])

\* There is such a list: the cheapest level, then a list of the others.
LEMMA ListExists ==
  ASSUME NEW levels, OneToAPrice(levels)
  PROVE  \E s : Lists(s, levels)
<1>. DEFINE Fails(S) == \A s : ~Lists(s, S)
            Bad == {n \in Nat : \E S \in SUBSET levels : Cardinality(S) = n /\ Fails(S)}
<1>1. \A S \in SUBSET levels : IsFiniteSet(S) /\ Cardinality(S) \in Nat
  BY FS_Subset, FS_CardinalityType DEF OneToAPrice
<1>2. SUFFICES Bad = {}
  BY <1>1
<1>3. SUFFICES ASSUME Bad # {} PROVE FALSE
  OBVIOUS
<1>4. PICK n \in Bad : \A m \in Bad : n <= m
  BY <1>3, LeastNumber
<1>5. PICK S \in SUBSET levels : Cardinality(S) = n /\ Fails(S)
  BY <1>4
<1>6. n \in Nat /\ IsFiniteSet(S)
  BY <1>1, <1>5
<1>7. CASE n = 0
  <2>. DEFINE s == [k \in 1 .. 0 |-> 0]
  <2>1. s \in [1 .. 0 -> S] /\ DOMAIN s = {}
    OBVIOUS
  <2>. HIDE DEF s
  <2>2. Lists(s, S)
    BY <1>5, <1>7, <2>1 DEF Lists
  <2>. QED
    BY <1>5, <2>2
<1>8. CASE n > 0
  <2>1. S # {}
    BY <1>5, <1>8, FS_EmptySet
  <2>2. \A l \in S : l.price \in Nat
    BY DEF OneToAPrice
  <2>. DEFINE P == {l.price : l \in S}
  <2>3. P # {} /\ P \subseteq Nat
    BY <2>1, <2>2
  <2>4. PICK p \in P : \A q \in P : p <= q
    BY <2>3, LeastNumber
  <2>5. PICK l \in S : l.price = p
    BY <2>4
  <2>6. \A m \in S \ {l} : Ascending(l, m)
    <3>. TAKE m \in S \ {l}
    <3>1. l.price <= m.price /\ l.price # m.price
      BY <2>4, <2>5 DEF OneToAPrice
    <3>. QED
      BY <2>2, <3>1 DEF Ascending
  <2>. DEFINE R == S \ {l}
  <2>7. Cardinality(R) = n - 1 /\ n - 1 \in Nat /\ R \in SUBSET levels
    <3>1. Cardinality(R) = IF l \in S THEN Cardinality(S) - 1 ELSE Cardinality(S)
      BY <1>6, FS_RemoveElement
    <3>2. R \in SUBSET levels
      OBVIOUS
    <3>. HIDE DEF R
    <3>. QED
      BY <1>5, <1>6, <1>8, <2>5, <3>1, <3>2
  <2>8. PICK r : Lists(r, R)
    BY <1>4, <2>7
  <2>9. /\ r \in [1 .. n - 1 -> R]
        /\ \A i, j \in 1 .. n - 1 : i < j => Ascending(r[i], r[j])
    BY <2>7, <2>8 DEF Lists
  <2>. DEFINE s == [k \in 1 .. n |-> IF k = 1 THEN l ELSE r[k - 1]]
  <2>10. s \in [1 .. n -> S] /\ DOMAIN s = 1 .. n
    BY <1>6, <2>9
  <2>11. ASSUME NEW i \in 1 .. n, NEW j \in 1 .. n, i < j PROVE Ascending(s[i], s[j])
    <3>1. j - 1 \in 1 .. n - 1 /\ s[j] = r[j - 1] /\ r[j - 1] \in R
      BY <1>6, <2>9, <2>11
    <3>2. CASE i = 1
      BY <2>6, <3>1, <3>2
    <3>3. CASE i # 1
      <4>1. i - 1 \in 1 .. n - 1 /\ s[i] = r[i - 1] /\ i - 1 < j - 1
        BY <1>6, <2>11, <3>3
      <4>. QED
        BY <2>9, <3>1, <4>1
    <3>. QED
      BY <3>2, <3>3
  <2>. HIDE DEF s
  <2>12. Lists(s, S)
    BY <1>5, <2>10, <2>11 DEF Lists
  <2>. QED
    BY <1>5, <2>12
<1>. QED
  BY <1>6, <1>7, <1>8

\* qsort lists every level: a list in ascending order repeats none, so as long as the set it
\* leaves none out.
LEMMA Listed ==
  ASSUME NEW levels, OneToAPrice(levels)
  PROVE  /\ Lists(InOrder(levels), levels)
         /\ \A l \in levels : \E k \in 1 .. Cardinality(levels) : InOrder(levels)[k] = l
<1>. DEFINE s == InOrder(levels)
            n == Cardinality(levels)
<1>1. Lists(s, levels)
  <2>1. s = CHOOSE x : Lists(x, levels)
    BY Zenon DEF InOrder, Lists
  <2>. HIDE DEF s
  <2>. QED
    BY <2>1, ListExists, Zenon
<1>2. IsFiniteSet(levels) /\ n \in Nat
  BY FS_CardinalityType DEF OneToAPrice
<1>. HIDE DEF s, n
<1>3. s \in [1 .. n -> levels] /\ \A i, j \in 1 .. n : i < j => s[i].price < s[j].price
  BY <1>1 DEF Lists, Ascending, n
<1>4. \A l \in levels : l.price \in Nat
  BY DEF OneToAPrice
<1>5. ASSUME NEW i \in 1 .. n, NEW j \in 1 .. n, s[i] = s[j] PROVE i = j
  <2>1. s[i].price \in Nat /\ ~(s[i].price < s[i].price)
    BY <1>3, <1>4
  <2>. QED
    BY <1>2, <1>3, <1>5, <2>1
<1>6. s \in Injection(1 .. n, levels)
  BY <1>3, <1>5 DEF Injection, IsInjective
<1>7. Cardinality(1 .. n) = n
  BY <1>2, FS_Interval
<1>8. s \in Surjection(1 .. n, levels)
  BY <1>2, <1>6, <1>7, FS_Injection DEF n
<1>9. \A l \in levels : \E k \in 1 .. n : s[k] = l
  BY <1>8 DEF Surjection
<1>. QED
  BY <1>1, <1>9 DEF s, n

\* pt_book_snapshot gives the levels that are not empty, and only those, in order.
LEMMA SnapshotShown ==
  ASSUME NEW levels, OneToAPrice(levels)
  PROVE  /\ Sorted(pt_book_snapshot(levels))
         /\ Len(pt_book_snapshot(levels)) <= Cardinality(levels)
         /\ \A p, n : Shows(pt_book_snapshot(levels), p, n)
                      <=> \E l \in levels : l.price = p /\ l.size = n /\ l.size > 0
<1>. DEFINE kept == {l \in levels : l.size > 0}
            s == pt_book_snapshot(levels)
            n == Cardinality(kept)
<1>1. /\ OneToAPrice(kept) /\ n \in Nat /\ n <= Cardinality(levels)
      /\ kept \subseteq Level
  <2>1. kept \in SUBSET levels /\ IsFiniteSet(levels)
    BY DEF OneToAPrice
  <2>2. IsFiniteSet(kept) /\ n <= Cardinality(levels) /\ n \in Nat
    BY <2>1, FS_Subset, FS_CardinalityType
  <2>. QED
    BY <2>1, <2>2 DEF OneToAPrice, Level
<1>2. s = InOrder(kept)
  BY DEF pt_book_snapshot
<1>. HIDE DEF s
<1>3. /\ s \in [1 .. n -> kept] /\ \A i, j \in 1 .. n : i < j => s[i].price < s[j].price
      /\ \A l \in kept : \E k \in 1 .. n : s[k] = l
  <2>1. Lists(s, kept) /\ \A l \in kept : \E k \in 1 .. n : s[k] = l
    BY <1>1, <1>2, Listed
  <2>. QED
    BY <2>1 DEF Lists, Ascending
<1>. HIDE DEF n, kept
<1>4. s \in Seq(Level) /\ Len(s) = n
  <2>1. s \in [1 .. n -> Level]
    BY <1>1, <1>3
  <2>. QED
    BY <1>1, <2>1
<1>5. Sorted(s)
  BY <1>3, <1>4 DEF Sorted
<1>6. \A p, x : Shows(s, p, x) <=> \E l \in kept : l.price = p /\ l.size = x
  BY <1>3, <1>4 DEF Shows
<1>. QED
  BY <1>1, <1>4, <1>5, <1>6 DEF s, kept

-----------------------------------------------------------------------------
(***************************************************************************)
(* The engine's book, and the file.                                        *)
(***************************************************************************)

\* What the bridge records.
Recordable == [price : Prices, size : LevelSizes]

\* The book is in order and within its array, and gives each price the size the feed last
\* said, or nothing if there was no room for it.
BookInv ==
  /\ Sorted(side) /\ Len(side) <= MaxLevels
  /\ fed \in [Prices -> Nat] /\ refused \subseteq Prices
  /\ \A p \in Prices : level_size(side, p) = IF p \in refused THEN 0 ELSE fed[p]

\* The file counts no event until its writer closes it, and then all that were recorded.
FileInv ==
  /\ recorded \in Seq(Recordable)
  /\ disk \in [total : Nat, events : Seq(Recordable)]
  /\ disk.total # 0 => ~running /\ disk.total = Len(recorded) /\ disk.events = recorded
  /\ running \in BOOLEAN /\ runs \in Nat

RecInv == BookInv /\ FileInv

LEMMA RecInitInv == RecInit => RecInv
<1>. SUFFICES ASSUME RecInit PROVE RecInv
  OBVIOUS
<1>1. side = <<>> /\ Sorted(side) /\ Len(side) = 0
  BY DEF RecInit, Sorted
<1>2. \A p \in Prices : level_size(side, p) = 0
  <2>. TAKE p \in Prices
  <2>1. p \in Nat \ {0} /\ \A n : ~Shows(side, p, n)
    BY <1>1, RecordingAssumption DEF Shows
  <2>. QED
    BY <1>1, <2>1, LevelSizeMeans
<1>3. BookInv
  BY <1>1, <1>2, BookAssumption DEF RecInit, BookInv
<1>4. FileInv
  BY DEF RecInit, FileInv, EmptyFile
<1>. QED
  BY <1>3, <1>4 DEF RecInv

\* An absolute size sets the size of its price, and of no other.
LEMMA UpdateKeeps ==
  ASSUME BookInv, NEW price \in Prices, NEW size \in LevelSizes, Update(price, size)
  PROVE  BookInv'
<1>. DEFINE absolute == FALSE
            t == side_apply(side, price, size, absolute)
<1>0. absolute \in BOOLEAN
  OBVIOUS
<1>1. price \in Nat \ {0} /\ size \in Nat /\ Prices \subseteq Nat \ {0}
  BY RecordingAssumption
<1>2. Sorted(side) /\ Len(side) <= MaxLevels
  BY DEF BookInv
<1>3. /\ Sorted(t) /\ Len(t) <= MaxLevels
      /\ \A p \in Nat \ {0} : p # price => level_size(t, p) = level_size(side, p)
      /\ level_size(t, price) = IF Refused(side, price, size) THEN 0 ELSE size
  <2>. HIDE DEF absolute
  <2>1. /\ Sorted(t) /\ Len(t) <= MaxLevels
        /\ \A p \in Nat \ {0} : p # price => level_size(t, p) = level_size(side, p)
        /\ level_size(t, price) =
             IF Refused(side, price, size) THEN 0
             ELSE IF absolute THEN level_size(side, price) + size ELSE size
    BY <1>0, <1>1, <1>2, Applied
  <2>. HIDE DEF t
  <2>. QED
    BY <2>1 DEF absolute
<1>4. /\ side' = t /\ fed' = [fed EXCEPT ![price] = size]
      /\ refused' = IF Refused(side, price, size) THEN refused \cup {price}
                                                  ELSE refused \ {price}
  BY DEF Update
<1>. HIDE DEF t
<1>5. fed' \in [Prices -> Nat] /\ refused' \subseteq Prices
  BY <1>1, <1>4 DEF BookInv
<1>6. \A p \in Prices : level_size(t, p) = IF p \in refused' THEN 0 ELSE fed'[p]
  <2>. TAKE p \in Prices
  <2>1. CASE p = price
    BY <1>3, <1>4, <2>1 DEF BookInv
  <2>2. CASE p # price
    <3>1. level_size(t, p) = level_size(side, p) /\ fed'[p] = fed[p]
      BY <1>1, <1>3, <1>4, <2>2 DEF BookInv
    <3>2. p \in refused' <=> p \in refused
      BY <1>4, <2>2
    <3>. QED
      BY <3>1, <3>2 DEF BookInv
  <2>. QED
    BY <2>1, <2>2
<1>7. \A p \in Prices : level_size(side', p) = IF p \in refused' THEN 0 ELSE fed'[p]
  BY <1>4, <1>6
<1>8. Sorted(side') /\ Len(side') <= MaxLevels
  BY <1>3, <1>4
<1>9. BookInv' = /\ Sorted(side') /\ Len(side') <= MaxLevels
                 /\ fed' \in [Prices -> Nat] /\ refused' \subseteq Prices
                 /\ \A p \in Prices : level_size(side', p) = IF p \in refused' THEN 0 ELSE fed'[p]
  BY DEF BookInv
<1>. QED
  BY <1>5, <1>7, <1>8, <1>9

\* A snapshot replaces the whole side.
LEMMA SnapshotKeeps ==
  ASSUME NEW levels \in Snapshots, BookSnapshot(levels)
  PROVE  BookInv'
<1>. DEFINE t == pt_book_snapshot(levels)
            At(p) == CHOOSE l \in levels : l.price = p
<1>1. /\ OneToAPrice(levels) /\ Cardinality(levels) <= MaxLevels
      /\ levels \subseteq [price : Nat, size : Nat]
      /\ Prices \subseteq Nat \ {0}
  BY RecordingAssumption DEF OneToAPrice
<1>2. /\ Sorted(t) /\ Len(t) <= Cardinality(levels)
      /\ \A p, n : Shows(t, p, n) <=> \E l \in levels : l.price = p /\ l.size = n /\ l.size > 0
  BY <1>1, SnapshotShown
<1>3. Len(t) <= MaxLevels
  BY <1>1, <1>2, SortedType, BookAssumption, FS_CardinalityType DEF OneToAPrice
<1>4. /\ side' = t /\ refused' = {}
      /\ fed' = [p \in Prices |-> IF \E l \in levels : l.price = p THEN At(p).size ELSE 0]
  BY DEF BookSnapshot
<1>5. ASSUME NEW p \in Prices, NEW l \in levels, l.price = p PROVE At(p) = l
  <2>1. At(p) \in levels /\ At(p).price = p
    BY <1>5
  <2>. QED
    BY <1>1, <1>5, <2>1 DEF OneToAPrice
<1>. HIDE DEF t, At
<1>6. ASSUME NEW p \in Prices
      PROVE  fed'[p] \in Nat /\ level_size(t, p) = fed'[p]
  <2>0. p \in Nat \ {0}
    BY <1>1
  <2>1. CASE \E l \in levels : l.price = p
    <3>1. PICK l \in levels : l.price = p
      BY <2>1
    <3>2. At(p) = l /\ l.size \in Nat /\ fed'[p] = l.size
      BY <1>1, <1>4, <1>5, <2>1, <3>1
    <3>3. CASE l.size > 0
      <4>1. Shows(t, p, l.size)
        BY <1>2, <3>1, <3>3
      <4>. QED
        BY <1>2, <2>0, <3>2, <4>1, LevelSizeMeans
    <3>4. CASE l.size = 0
      <4>1. \A n : ~Shows(t, p, n)
        BY <1>1, <1>2, <3>1, <3>4 DEF OneToAPrice
      <4>. QED
        BY <1>2, <2>0, <3>2, <3>4, <4>1, LevelSizeMeans
    <3>. QED
      BY <3>2, <3>3, <3>4
  <2>2. CASE ~\E l \in levels : l.price = p
    <3>1. \A n : ~Shows(t, p, n)
      BY <1>2, <2>2
    <3>2. fed'[p] = 0
      BY <1>4, <2>2
    <3>. QED
      BY <1>2, <2>0, <3>1, <3>2, LevelSizeMeans
  <2>. QED
    BY <2>1, <2>2
<1>7. fed' \in [Prices -> Nat]
  BY <1>4, <1>6
<1>8. BookInv' = /\ Sorted(side') /\ Len(side') <= MaxLevels
                 /\ fed' \in [Prices -> Nat] /\ refused' \subseteq Prices
                 /\ \A p \in Prices : level_size(side', p) = IF p \in refused' THEN 0 ELSE fed'[p]
  BY DEF BookInv
<1>9. \A p \in Prices : level_size(side', p) = IF p \in refused' THEN 0 ELSE fed'[p]
  BY <1>4, <1>6
<1>10. Sorted(side') /\ Len(side') <= MaxLevels /\ refused' \subseteq Prices
  BY <1>2, <1>3, <1>4
<1>. QED
  BY <1>7, <1>8, <1>9, <1>10

\* Every step keeps both.
LEMMA RecStep == RecInv /\ [RecNext]_rec_vars => RecInv'
<1>. SUFFICES ASSUME RecInv, [RecNext]_rec_vars PROVE RecInv'
  OBVIOUS
<1>0. BookInv /\ FileInv
  BY DEF RecInv
<1>. DEFINE SameBook == UNCHANGED <<side, fed, refused>>
            SameFile == UNCHANGED <<recorded, disk, running, runs>>
<1>a. SameBook => BookInv'
  BY <1>0 DEF BookInv
<1>b. SameFile => FileInv'
  BY <1>0 DEF FileInv
<1>1. ASSUME NEW p \in Prices, NEW n \in LevelSizes, PriceChange(p, n) PROVE RecInv'
  <2>1. Update(p, n) /\ SameFile
    BY <1>1 DEF PriceChange
  <2>2. BookInv'
    BY <1>0, <2>1, UpdateKeeps
  <2>. QED
    BY <1>b, <2>1, <2>2 DEF RecInv
<1>2. ASSUME NEW p \in Prices, NEW n \in LevelSizes, BookMessage(p, n) PROVE RecInv'
  <2>1. /\ Update(p, n) /\ UNCHANGED <<disk, running, runs>>
        /\ recorded' = Append(recorded, [price |-> p, size |-> n])
    BY <1>2 DEF BookMessage
  <2>2. BookInv'
    BY <1>0, <2>1, UpdateKeeps
  <2>3. running
    BY <2>1 DEF Update
  <2>4. recorded' \in Seq(Recordable)
    BY <1>0, <2>1, AppendProperties DEF FileInv, Recordable
  <2>5. FileInv'
    BY <1>0, <2>1, <2>3, <2>4 DEF FileInv
  <2>. QED
    BY <2>2, <2>5 DEF RecInv
<1>3. ASSUME NEW levels \in Snapshots, BookSnapshot(levels) PROVE RecInv'
  <2>1. SameFile
    BY <1>3 DEF BookSnapshot
  <2>2. BookInv'
    BY <1>3, SnapshotKeeps
  <2>. QED
    BY <1>b, <2>1, <2>2 DEF RecInv
<1>4. ASSUME Flush PROVE RecInv'
  <2>1. PICK n \in Len(disk.events) + 1 .. Len(recorded) :
          disk' = [disk EXCEPT !.events = SubSeq(recorded, 1, n)]
    BY <1>4 DEF Flush
  <2>2. running /\ SameBook /\ UNCHANGED <<recorded, running, runs>>
    BY <1>4 DEF Flush
  <2>3. /\ recorded \in Seq(Recordable) /\ disk \in [total : Nat, events : Seq(Recordable)]
        /\ disk.events \in Seq(Recordable) /\ disk.total = 0
    BY <1>0, <2>2 DEF FileInv
  <2>4. Len(disk.events) \in Nat /\ Len(recorded) \in Nat /\ n \in Nat
    BY <2>1, <2>3, LenProperties
  <2>5. SubSeq(recorded, 1, n) \in Seq(Recordable)
    BY <2>1, <2>3, <2>4, SubSeqProperties
  <2>6. disk' \in [total : Nat, events : Seq(Recordable)] /\ disk'.total = 0
    BY <2>1, <2>3, <2>5
  <2>7. FileInv'
    BY <1>0, <2>2, <2>6 DEF FileInv
  <2>. QED
    BY <1>a, <2>2, <2>7 DEF RecInv
<1>5. ASSUME CloseRecording PROVE RecInv'
  <2>1. /\ disk' = [total |-> Len(recorded), events |-> recorded]
        /\ running' = FALSE /\ SameBook /\ UNCHANGED <<recorded, runs>>
    BY <1>5 DEF CloseRecording, TotalOfClose
  <2>2. recorded \in Seq(Recordable) /\ Len(recorded) \in Nat /\ runs \in Nat
    BY <1>0, LenProperties DEF FileInv
  <2>3. FileInv'
    BY <2>1, <2>2 DEF FileInv
  <2>. QED
    BY <1>a, <2>1, <2>3 DEF RecInv
<1>6. ASSUME Crash PROVE RecInv'
  <2>1. running /\ running' = FALSE /\ SameBook /\ UNCHANGED <<recorded, disk, runs>>
    BY <1>6 DEF Crash
  <2>2. FileInv'
    BY <1>0, <2>1 DEF FileInv
  <2>. QED
    BY <1>a, <2>1, <2>2 DEF RecInv
<1>7. ASSUME Restart PROVE RecInv'
  <2>1. /\ side' = <<>> /\ fed' = [p \in Prices |-> 0] /\ refused' = {}
        /\ recorded' = <<>> /\ disk' = EmptyFile /\ running' = TRUE /\ runs' = runs + 1
    BY <1>7 DEF Restart
  <2>2. \A p \in Prices : level_size(side', p) = 0
    <3>. TAKE p \in Prices
    <3>1. Sorted(<<>>) /\ p \in Nat \ {0} /\ \A n : ~Shows(<<>>, p, n)
      BY RecordingAssumption DEF Shows, Sorted
    <3>. QED
      BY <2>1, <3>1, LevelSizeMeans
  <2>3. Sorted(side') /\ Len(side') <= MaxLevels
    BY <2>1, BookAssumption DEF Sorted
  <2>4. BookInv'
    BY <2>1, <2>2, <2>3 DEF BookInv
  <2>5. FileInv'
    BY <1>0, <2>1 DEF FileInv, EmptyFile
  <2>. QED
    BY <2>4, <2>5 DEF RecInv
<1>8. ASSUME UNCHANGED rec_vars PROVE RecInv'
  <2>1. SameBook /\ SameFile
    BY <1>8 DEF rec_vars
  <2>. QED
    BY <1>a, <1>b, <2>1 DEF RecInv
<1>. QED
  BY <1>1, <1>2, <1>3, <1>4, <1>5, <1>6, <1>7, <1>8 DEF RecNext

\* The book and the file are what the feed and the recording say, in every state.
THEOREM RecInvariant == RecSpec => []RecInv
<1>. QED
  BY RecInitInv, RecStep, PTL DEF RecSpec

\* Every variable of the recording keeps its type, and the book its array.
THEOREM RecTypeCorrect == RecSpec => []RecTypeOK
<1>1. Recordable \subseteq Event
  BY RecordingAssumption DEF Recordable, Event
<1>2. ASSUME NEW s \in Seq(Recordable) PROVE s \in Seq(Event)
  BY <1>1
<1>3. BookInv /\ FileInv => RecTypeOK
  BY <1>2 DEF BookInv, FileInv, RecTypeOK, Sorted
<1>. QED
  BY <1>3, RecInvariant, PTL DEF RecInv

\* The bisection keeps the side in order and finds every level: the book follows the feed.
THEOREM BookAlwaysFollowsFeed == RecSpec => []BookFollowsFeed
<1>1. BookInv => BookFollowsFeed
  BY SortedType DEF BookInv, BookFollowsFeed, Sorted
<1>. QED
  BY <1>1, RecInvariant, PTL DEF RecInv

-----------------------------------------------------------------------------
(***************************************************************************)
(* A replay.                                                               *)
(***************************************************************************)

\* What event k of a recording makes of a side.
Added(seq, s, k) == side_apply(s, seq[k].price, seq[k].size, TRUE)

\* The last of some events, and those before it.
Latest(S) == CHOOSE x \in S : \A y \in S : x >= y
Before(S) == S \ {Latest(S)}

\* F is what a replay of any of the events leaves.
Replays(F, seq) ==
  F = [S \in SUBSET DOMAIN seq |->
         IF S = {} THEN <<>> ELSE Added(seq, F[Before(S)], Latest(S))]

\* The fold over the events, unfolded.
LEMMA ReplayIsComputed ==
  ASSUME NEW seq
  PROVE  FoldLeft(LAMBDA s, e : side_apply(s, e.price, e.size, TRUE), <<>>, seq)
           = (CHOOSE F : Replays(F, seq))[DOMAIN seq]
BY DEF FoldLeft, MapThenFoldSet, Replays, Added, Latest, Before, Max

\* The latest of some events is one of them.
LEMMA LatestExists ==
  ASSUME NEW n \in Nat, NEW S \in SUBSET (1 .. n), S # {}
  PROVE  Latest(S) \in S /\ \A y \in S : Latest(S) >= y
<1>. DEFINE T == {n - x : x \in S}
<1>0. \A x \in S : x \in Nat /\ x <= n /\ n - x \in Nat
  OBVIOUS
<1>1. T \subseteq Nat /\ T # {}
  BY <1>0
<1>2. PICK m \in T : \A k \in T : m <= k
  BY <1>1, LeastNumber
<1>3. PICK x \in S : m = n - x
  BY <1>2
<1>4. \A y \in S : x >= y
  <2>. TAKE y \in S
  <2>1. n - x <= n - y
    BY <1>2, <1>3
  <2>. QED
    BY <1>0, <2>1
<1>. QED
  BY <1>4 DEF Latest

\* There is such a function: one for the sets up to each size.
LEMMA ReplayExists ==
  ASSUME NEW seq, NEW n \in Nat, DOMAIN seq = 1 .. n
  PROVE  \E F : Replays(F, seq)
<1>. DEFINE D == 1 .. n
            Good(F, k) == /\ F = [S \in SUBSET D |-> F[S]]
                          /\ \A S \in SUBSET D : Cardinality(S) <= k =>
                               F[S] = IF S = {} THEN <<>>
                                      ELSE Added(seq, F[Before(S)], Latest(S))
            Bad == {k \in Nat : ~\E F : Good(F, k)}
<1>0. IsFiniteSet(D)
  BY FS_Interval
<1>1. \A S \in SUBSET D : /\ IsFiniteSet(S) /\ Cardinality(S) \in Nat
                          /\ Cardinality(S) <= Cardinality(D)
                          /\ S # {} => /\ Before(S) \in SUBSET D
                                       /\ Cardinality(Before(S)) = Cardinality(S) - 1
                          /\ Cardinality(S) = 0 <=> S = {}
  <2>. TAKE S \in SUBSET D
  <2>1. IsFiniteSet(S) /\ Cardinality(S) \in Nat /\ Cardinality(S) <= Cardinality(D)
    BY <1>0, FS_Subset, FS_CardinalityType
  <2>2. ASSUME S # {}
        PROVE  Before(S) \in SUBSET D /\ Cardinality(Before(S)) = Cardinality(S) - 1
    <3>1. Latest(S) \in S
      BY <2>2, LatestExists
    <3>. QED
      BY <2>1, <3>1, FS_RemoveElement DEF Before
  <2>. QED
    BY <2>1, <2>2, FS_EmptySet
<1>. HIDE DEF D
<1>2. Good([S \in SUBSET D |-> <<>>], 0)
  <2>1. ASSUME NEW S \in SUBSET D, Cardinality(S) <= 0 PROVE S = {}
    BY <1>1, <2>1
  <2>. QED
    BY <2>1
<1>3. ASSUME NEW k \in Nat, NEW F, Good(F, k)
      PROVE  \E G : Good(G, k + 1)
  <2>. DEFINE G == [S \in SUBSET D |-> IF S = {} THEN <<>>
                                       ELSE Added(seq, F[Before(S)], Latest(S))]
  <2>1. ASSUME NEW S \in SUBSET D, Cardinality(S) <= k + 1, S # {}
        PROVE  F[Before(S)] = G[Before(S)]
    <3>1. Before(S) \in SUBSET D /\ Cardinality(Before(S)) <= k
      BY <1>1, <2>1
    <3>. QED
      BY <1>3, <3>1
  <2>2. ASSUME NEW S \in SUBSET D, Cardinality(S) <= k + 1
        PROVE  G[S] = IF S = {} THEN <<>> ELSE Added(seq, G[Before(S)], Latest(S))
    BY <2>1, <2>2
  <2>. WITNESS G
  <2>. QED
    BY <2>2
<1>4. Bad = {}
  <2>1. SUFFICES ASSUME Bad # {} PROVE FALSE
    OBVIOUS
  <2>2. PICK k \in Bad : \A m \in Bad : k <= m
    BY <2>1, LeastNumber, Bad \subseteq Nat, Zenon
  <2>. HIDE DEF Good
  <2>3. k # 0
    BY <1>2, <2>2
  <2>4. k \in Nat /\ k - 1 \in Nat /\ (k - 1) \notin Bad
    BY <2>2, <2>3
  <2>5. \E F : Good(F, k - 1)
    BY <2>4
  <2>6. \E G : Good(G, (k - 1) + 1)
    BY <1>3, <2>4, <2>5
  <2>. QED
    BY <2>2, <2>4, <2>6
<1>5. Cardinality(D) \in Nat
  BY <1>0, FS_CardinalityType
<1>6. PICK F : Good(F, Cardinality(D))
  BY <1>4, <1>5
<1>7. \A S \in SUBSET D : F[S] = IF S = {} THEN <<>> ELSE Added(seq, F[Before(S)], Latest(S))
  BY <1>1, <1>6
<1>8. Replays(F, seq)
  BY <1>6, <1>7 DEF Replays, D
<1>. QED
  BY <1>8

\* The replay of the first n events has every level that any of them showed, as large at
\* least, unless the array is full: no change takes from a level, and the array never shrinks.
Keeps(seq, s, n) ==
  /\ Sorted(s) /\ Len(s) <= MaxLevels
  /\ \A k \in 1 .. n : seq[k].size > 0 =>
       level_size(s, seq[k].price) >= seq[k].size \/ Len(s) = MaxLevels

LEMMA AddedKeeps ==
  ASSUME NEW seq \in Seq(Recordable), NEW n \in Nat, n + 1 \in 1 .. Len(seq),
         NEW s, Keeps(seq, s, n)
  PROVE  Keeps(seq, Added(seq, s, n + 1), n + 1)
<1>. DEFINE delta == TRUE
            price == seq[n + 1].price
            size == seq[n + 1].size
            t == side_apply(s, price, size, delta)
<1>1. /\ Len(seq) \in Nat
      /\ \A k \in 1 .. Len(seq) : /\ seq[k] \in Recordable /\ seq[k].size \in Nat
                                  /\ seq[k].price \in Nat \ {0}
  <2>1. Len(seq) \in Nat /\ \A k \in 1 .. Len(seq) : seq[k] \in Recordable
    BY LenProperties, ElementOfSeq
  <2>. QED
    BY <2>1, RecordingAssumption DEF Recordable
<1>2. Sorted(s) /\ Len(s) <= MaxLevels /\ Len(s) \in Nat /\ MaxLevels \in Nat
  BY SortedType, BookAssumption DEF Keeps
<1>3. price \in Nat \ {0} /\ size \in Nat /\ delta \in BOOLEAN
  BY <1>1
<1>4. Added(seq, s, n + 1) = t
  BY DEF Added
<1>. HIDE DEF price, size, delta
<1>5. /\ Sorted(t) /\ Len(t) <= MaxLevels
      /\ Len(t) >= Len(s) \/ (~delta /\ size = 0)
      /\ \A p \in Nat \ {0} : p # price => level_size(t, p) = level_size(s, p)
      /\ level_size(t, price) = IF Refused(s, price, size) THEN 0
                                ELSE IF delta THEN level_size(s, price) + size ELSE size
      /\ Refused(s, price, size) => Len(s) = MaxLevels
  <2>1. Sorted(t) /\ Len(t) <= MaxLevels
    BY <1>2, <1>3, Applied
  <2>0. ASSUME NEW p \in Nat \ {0}, p # price PROVE level_size(t, p) = level_size(s, p)
    BY <1>2, <1>3, <2>0, Applied
  <2>2. Len(t) >= Len(s) \/ (~delta /\ size = 0)
    BY <1>2, <1>3, Applied
  <2>3. level_size(t, price) = IF Refused(s, price, size) THEN 0
                                ELSE IF delta THEN level_size(s, price) + size ELSE size
    BY <1>2, <1>3, Applied
  <2>4. Refused(s, price, size) => Len(s) = MaxLevels
    BY <1>2, <1>3, Applied
  <2>. QED
    BY <2>0, <2>1, <2>2, <2>3, <2>4, Zenon
<1>6. ASSUME NEW p \in Nat \ {0} PROVE level_size(s, p) \in Nat
  <2>1. CASE \E m : Shows(s, p, m)
    BY <1>2, <2>1, LevelSizeMeans
  <2>2. CASE \A m : ~Shows(s, p, m)
    BY <1>2, <2>2, LevelSizeMeans
  <2>. QED
    BY <2>1, <2>2
<1>. HIDE DEF t
<1>7. Len(t) \in Nat /\ Len(t) >= Len(s) /\ (Len(s) = MaxLevels => Len(t) = MaxLevels)
  BY <1>2, <1>5, SortedType DEF delta
<1>8. ~Refused(s, price, size) => level_size(t, price) = level_size(s, price) + size
  BY <1>5 DEF delta
<1>9. ASSUME NEW k \in 1 .. n + 1, seq[k].size > 0
      PROVE  level_size(t, seq[k].price) >= seq[k].size \/ Len(t) = MaxLevels
  <2>0. k \in 1 .. Len(seq) /\ seq[k].size \in Nat /\ seq[k].price \in Nat \ {0}
    BY <1>1
  <2>1. CASE Refused(s, price, size)
    BY <1>5, <1>7, <2>1
  <2>2. CASE k = n + 1 /\ ~Refused(s, price, size)
    <3>1. seq[k].price = price /\ seq[k].size = size
      BY <2>2 DEF price, size
    <3>. QED
      BY <1>3, <1>6, <1>8, <2>2, <3>1
  <2>3. CASE k \in 1 .. n /\ ~Refused(s, price, size)
    <3>1. level_size(s, seq[k].price) >= seq[k].size \/ Len(s) = MaxLevels
      BY <1>9, <2>3 DEF Keeps
    <3>2. CASE seq[k].price = price
      BY <1>3, <1>6, <1>7, <1>8, <2>0, <2>3, <3>1, <3>2
    <3>3. CASE seq[k].price # price
      BY <1>5, <1>7, <2>0, <3>1, <3>3
    <3>. QED
      BY <3>2, <3>3
  <2>. QED
    BY <2>1, <2>2, <2>3
<1>. QED
  BY <1>4, <1>5, <1>9 DEF Keeps

\* A whole recording, replayed.
Replay(seq) == FoldLeft(LAMBDA s, e : side_apply(s, e.price, e.size, TRUE), <<>>, seq)

LEMMA ReplayKeeps ==
  ASSUME NEW seq \in Seq(Recordable)
  PROVE  Keeps(seq, Replay(seq), Len(seq))
<1>. DEFINE F == CHOOSE F : Replays(F, seq)
            n == Len(seq)
            Bad == {k \in Nat : k <= n /\ ~Keeps(seq, F[1 .. k], k)}
<1>1. n \in Nat /\ DOMAIN seq = 1 .. n
  BY LenProperties
<1>2. Replays(F, seq)
  BY <1>1, ReplayExists, Zenon
<1>3. Replay(seq) = F[1 .. n]
  BY <1>1, ReplayIsComputed, Zenon DEF Replay
<1>. HIDE DEF F, n
<1>4. F[{}] = <<>>
  BY <1>2 DEF Replays
<1>5. \A S \in SUBSET (1 .. n) : S # {} => F[S] = Added(seq, F[Before(S)], Latest(S))
  BY <1>1, <1>2 DEF Replays
<1>6. Keeps(seq, F[1 .. 0], 0)
  <2>1. 1 .. 0 = {} /\ Sorted(<<>>) /\ Len(<<>>) <= MaxLevels
    BY BookAssumption DEF Sorted
  <2>. QED
    BY <1>4, <2>1 DEF Keeps
<1>7. ASSUME NEW k \in Nat, k + 1 <= n, Keeps(seq, F[1 .. k], k)
      PROVE  Keeps(seq, F[1 .. k + 1], k + 1)
  <2>. DEFINE S == 1 .. k + 1
  <2>1. S \in SUBSET (1 .. n) /\ S \in SUBSET (1 .. k + 1) /\ S # {} /\ k + 1 \in Nat
    BY <1>1, <1>7
  <2>2. Latest(S) \in S /\ \A y \in S : Latest(S) >= y
    BY <2>1, LatestExists
  <2>3. Latest(S) = k + 1
    BY <2>2
  <2>4. Before(S) = 1 .. k
    BY <2>3 DEF Before
  <2>5. F[S] = Added(seq, F[1 .. k], k + 1)
    BY <1>5, <2>1, <2>3, <2>4
  <2>6. k + 1 \in 1 .. Len(seq)
    BY <1>1, <1>7 DEF n
  <2>. HIDE DEF S
  <2>7. Keeps(seq, Added(seq, F[1 .. k], k + 1), k + 1)
    BY <1>7, <2>6, AddedKeeps
  <2>. QED
    BY <2>5, <2>7 DEF S
<1>8. Bad = {}
  <2>1. SUFFICES ASSUME Bad # {} PROVE FALSE
    OBVIOUS
  <2>2. PICK k \in Bad : \A m \in Bad : k <= m
    BY <2>1, LeastNumber, Bad \subseteq Nat, Zenon
  <2>3. k \in Nat /\ k <= n /\ ~Keeps(seq, F[1 .. k], k) /\ k # 0
    BY <1>6, <2>2
  <2>4. k - 1 \in Nat /\ (k - 1) + 1 = k /\ (k - 1) \notin Bad
    BY <2>2, <2>3
  <2>5. Keeps(seq, F[1 .. k - 1], k - 1)
    BY <1>1, <2>3, <2>4
  <2>6. Keeps(seq, F[1 .. (k - 1) + 1], (k - 1) + 1)
    BY <1>7, <2>3, <2>4, <2>5
  <2>. QED
    BY <2>3, <2>4, <2>6
<1>9. Keeps(seq, F[1 .. n], n)
  BY <1>1, <1>8
<1>. QED
  BY <1>3, <1>9 DEF n

\* A file replays as nothing until its writer has closed it; then it replays as every event
\* that was recorded, and as the sizes are added up no level ever shrinks or goes.
THEOREM ReplayAlwaysAddsUp == RecSpec => []ReplayAddsUp
<1>1. ASSUME FileInv PROVE ReplayAddsUp
  <2>1. SUFFICES ASSUME Readable # <<>>
                 PROVE  /\ ~running /\ Readable = recorded
                        /\ \A e \in ToSet(recorded) : e.size > 0 =>
                             level_size(Replayed, e.price) >= e.size \/ Len(Replayed) = MaxLevels
    BY Zenon DEF ReplayAddsUp
  <2>2. recorded \in Seq(Recordable) /\ disk.events \in Seq(Recordable) /\ disk.total \in Nat
    BY <1>1 DEF FileInv
  <2>3. disk.total # 0
    BY <2>1, <2>2 DEF Readable
  <2>4. ~running /\ disk.total = Len(recorded) /\ disk.events = recorded
    BY <1>1, <2>3 DEF FileInv
  <2>5. Readable = recorded
    BY <2>2, <2>4 DEF Readable
  <2>6. Replayed = Replay(recorded)
    BY <2>5, Zenon DEF Replayed, Replay
  <2>7. Keeps(recorded, Replayed, Len(recorded))
    BY <2>2, <2>6, ReplayKeeps
  <2>8. ASSUME NEW e \in ToSet(recorded), e.size > 0
        PROVE  level_size(Replayed, e.price) >= e.size \/ Len(Replayed) = MaxLevels
    <3>1. PICK k \in 1 .. Len(recorded) : e = recorded[k]
      BY <2>2 DEF ToSet
    <3>. QED
      BY <2>7, <2>8, <3>1 DEF Keeps
  <2>. QED
    BY <2>4, <2>5, <2>8
<1>. QED
  BY <1>1, RecInvariant, PTL DEF RecInv

-----------------------------------------------------------------------------
(***************************************************************************)
(* The ends of lines.                                                      *)
(***************************************************************************)

\* F is how the ends are found.
Finds(F, ps) ==
  F = [n \in 0 .. Len(ps) |-> IF n = 0 THEN <<>>
                              ELSE IF IsEnd(ps[n]) THEN Append(F[n - 1], n)
                              ELSE F[n - 1]]

LEMMA EndsMean ==
  ASSUME NEW ps
  PROVE  Ends(ps) = (CHOOSE F : Finds(F, ps))[Len(ps)]
BY Zenon DEF Ends, Finds

\* There is such a function: one for every number of pieces.
LEMMA FindsExists ==
  ASSUME NEW ps, Len(ps) \in Nat
  PROVE  \E F : Finds(F, ps)
<1>. DEFINE D == 0 .. Len(ps)
            Good(F, k) == /\ F = [n \in D |-> F[n]]
                          /\ \A n \in D : n <= k =>
                               F[n] = IF n = 0 THEN <<>>
                                      ELSE IF IsEnd(ps[n]) THEN Append(F[n - 1], n)
                                      ELSE F[n - 1]
            Bad == {k \in Nat : ~\E F : Good(F, k)}
<1>1. Good([n \in D |-> <<>>], 0)
  OBVIOUS
<1>2. ASSUME NEW k \in Nat, NEW F, Good(F, k)
      PROVE  \E G : Good(G, k + 1)
  <2>. DEFINE G == [n \in D |-> IF n = 0 THEN <<>>
                                ELSE IF IsEnd(ps[n]) THEN Append(F[n - 1], n)
                                ELSE F[n - 1]]
  <2>1. ASSUME NEW n \in D, n <= k + 1, n # 0
        PROVE  F[n - 1] = G[n - 1]
    <3>1. n - 1 \in D /\ n - 1 <= k
      BY <2>1
    <3>. QED
      BY <1>2, <3>1
  <2>2. ASSUME NEW n \in D, n <= k + 1
        PROVE  G[n] = IF n = 0 THEN <<>>
                      ELSE IF IsEnd(ps[n]) THEN Append(G[n - 1], n)
                      ELSE G[n - 1]
    BY <2>1, <2>2
  <2>. WITNESS G
  <2>. QED
    BY <2>2
<1>3. Bad = {}
  <2>1. SUFFICES ASSUME Bad # {} PROVE FALSE
    OBVIOUS
  <2>2. PICK k \in Bad : \A m \in Bad : k <= m
    BY <2>1, LeastNumber, Bad \subseteq Nat, Zenon
  <2>. HIDE DEF Good
  <2>3. k # 0
    BY <1>1, <2>2
  <2>4. k \in Nat /\ k - 1 \in Nat /\ (k - 1) \notin Bad
    BY <2>2, <2>3
  <2>5. \E F : Good(F, k - 1)
    BY <2>4
  <2>6. \E G : Good(G, (k - 1) + 1)
    BY <1>2, <2>4, <2>5
  <2>. QED
    BY <2>2, <2>4, <2>6
<1>4. PICK F : Good(F, Len(ps))
  BY <1>3
<1>5. \A n \in D : n <= Len(ps)
  OBVIOUS
<1>6. Finds(F, ps)
  BY <1>4, <1>5 DEF Finds
<1>. QED
  BY <1>6

\* e are the places below n at which a line ends, in order.
AreEnds(e, ps, n) ==
  /\ e \in Seq(1 .. n)
  /\ \A i, j \in 1 .. Len(e) : i < j => e[i] < e[j]
  /\ \A i \in 1 .. Len(e) : IsEnd(ps[e[i]])
  /\ \A k \in 1 .. n : IsEnd(ps[k]) => \E i \in 1 .. Len(e) : e[i] = k

LEMMA EndsFound ==
  ASSUME NEW ps, Len(ps) \in Nat
  PROVE  AreEnds(Ends(ps), ps, Len(ps))
<1>. DEFINE F == CHOOSE F : Finds(F, ps)
            Bad == {n \in 0 .. Len(ps) : ~AreEnds(F[n], ps, n)}
<1>1. Finds(F, ps)
  BY FindsExists, Zenon
<1>2. Ends(ps) = F[Len(ps)]
  BY EndsMean, Zenon
<1>. HIDE DEF F
<1>3. /\ F[0] = <<>>
      /\ \A n \in 1 .. Len(ps) : F[n] = IF IsEnd(ps[n]) THEN Append(F[n - 1], n) ELSE F[n - 1]
  <2>1. \A n \in 0 .. Len(ps) : F[n] = IF n = 0 THEN <<>>
                                      ELSE IF IsEnd(ps[n]) THEN Append(F[n - 1], n)
                                      ELSE F[n - 1]
    BY <1>1, Zenon DEF Finds
  <2>2. 0 \in 0 .. Len(ps) /\ \A n \in 1 .. Len(ps) : n \in 0 .. Len(ps) /\ n # 0
    OBVIOUS
  <2>. QED
    BY <2>1, <2>2
<1>4. AreEnds(F[0], ps, 0)
  BY <1>3 DEF AreEnds
<1>5. ASSUME NEW n \in 1 .. Len(ps), AreEnds(F[n - 1], ps, n - 1)
      PROVE  AreEnds(F[n], ps, n)
  <2>. DEFINE e == F[n - 1]
              f == F[n]
  <2>1. /\ e \in Seq(1 .. n - 1) /\ Len(e) \in Nat
        /\ \A i \in 1 .. Len(e) : e[i] \in 1 .. n - 1
    BY <1>5, LenProperties, ElementOfSeq DEF AreEnds
  <2>2. e \in Seq(1 .. n)
    BY <2>1
  <2>3. f = IF IsEnd(ps[n]) THEN Append(e, n) ELSE e
    BY <1>3
  <2>4. AreEnds(e, ps, n - 1)
    BY <1>5
  <2>. HIDE DEF e, f
  <2>5. CASE IsEnd(ps[n])
    <3>1. /\ f \in Seq(1 .. n) /\ Len(f) = Len(e) + 1 /\ f[Len(e) + 1] = n
          /\ \A i \in 1 .. Len(e) : f[i] = e[i]
      BY <2>2, <2>3, <2>5, AppendProperties
    <3>2. \A i, j \in 1 .. Len(f) : i < j => f[i] < f[j]
      <4>. TAKE i, j \in 1 .. Len(f)
      <4>. HAVE i < j
      <4>a. Len(f) = Len(e) + 1 /\ Len(e) \in Nat
        BY <2>1, <3>1
      <4>0. i \in 1 .. Len(e) /\ (j = Len(e) + 1 \/ j \in 1 .. Len(e))
        BY <4>a
      <4>b. e[i] \in 1 .. n - 1 /\ f[i] = e[i]
        BY <2>1, <3>1, <4>0
      <4>1. f[i] = e[i] /\ e[i] < n
        BY <4>b
      <4>2. CASE j = Len(e) + 1
        BY <3>1, <4>1, <4>2
      <4>3. CASE j \in 1 .. Len(e)
        BY <2>4, <3>1, <4>0, <4>1, <4>3 DEF AreEnds
      <4>. QED
        BY <4>0, <4>2, <4>3
    <3>3. \A i \in 1 .. Len(f) : IsEnd(ps[f[i]])
      <4>. TAKE i \in 1 .. Len(f)
      <4>1. i = Len(e) + 1 \/ i \in 1 .. Len(e)
        BY <2>1, <3>1
      <4>. QED
        BY <2>4, <2>5, <3>1, <4>1 DEF AreEnds
    <3>4. \A k \in 1 .. n : IsEnd(ps[k]) => \E i \in 1 .. Len(f) : f[i] = k
      <4>. TAKE k \in 1 .. n
      <4>. HAVE IsEnd(ps[k])
      <4>1. CASE k = n
        <5>1. Len(e) + 1 \in 1 .. Len(f)
          BY <2>1, <3>1
        <5>. QED
          BY <3>1, <4>1, <5>1
      <4>2. CASE k # n
        <5>1. k \in 1 .. n - 1
          BY <4>2
        <5>2. PICK i \in 1 .. Len(e) : e[i] = k
          BY <2>4, <5>1 DEF AreEnds
        <5>. QED
          BY <2>1, <3>1, <5>2
      <4>. QED
        BY <4>1, <4>2
    <3>5. AreEnds(f, ps, n)
      BY <3>1, <3>2, <3>3, <3>4 DEF AreEnds
    <3>. QED
      BY <3>5 DEF f
  <2>6. CASE ~IsEnd(ps[n])
    <3>1. \A k \in 1 .. n : IsEnd(ps[k]) => k \in 1 .. n - 1
      BY <2>6
    <3>2. AreEnds(e, ps, n)
      BY <2>2, <2>4, <3>1 DEF AreEnds
    <3>. QED
      BY <2>3, <2>6, <3>2 DEF f
  <2>. QED
    BY <2>5, <2>6
<1>6. Bad = {}
  <2>1. SUFFICES ASSUME Bad # {} PROVE FALSE
    OBVIOUS
  <2>2. PICK n \in Bad : \A m \in Bad : n <= m
    BY <2>1, LeastNumber, Bad \subseteq Nat, Zenon
  <2>3. n \in 1 .. Len(ps) /\ ~AreEnds(F[n], ps, n)
    BY <1>4, <2>2
  <2>4. n - 1 \in 0 .. Len(ps) /\ (n - 1) \notin Bad
    BY <2>2, <2>3
  <2>5. AreEnds(F[n - 1], ps, n - 1)
    BY <2>4
  <2>. QED
    BY <1>5, <2>3, <2>5
<1>. QED
  BY <1>2, <1>6

LEMMA EndsType ==
  ASSUME NEW e, NEW ps, NEW n \in Nat, AreEnds(e, ps, n)
  PROVE  /\ e \in Seq(1 .. n) /\ Len(e) \in Nat /\ DOMAIN e = 1 .. Len(e)
         /\ \A i \in 1 .. Len(e) : e[i] \in 1 .. n
<1>1. e \in Seq(1 .. n)
  BY DEF AreEnds
<1>2. Len(e) \in Nat /\ DOMAIN e = 1 .. Len(e)
  BY <1>1, LenProperties
<1>3. \A i \in 1 .. Len(e) : e[i] \in 1 .. n
  BY <1>1, ElementOfSeq
<1>. QED
  BY <1>1, <1>2, <1>3

\* The ends up to i are the same: the first that was not would be missing from one of the two.
LEMMA SameEndsSoFar ==
  ASSUME NEW ps, NEW n \in Nat, NEW e, NEW f, AreEnds(e, ps, n), AreEnds(f, ps, n),
         NEW i \in 1 .. Len(e)
  PROVE  i <= Len(f) /\ e[i] = f[i]
<1>. DEFINE Bad == {k \in 1 .. Len(e) : ~(k <= Len(f) /\ e[k] = f[k])}
<1>1. /\ Len(e) \in Nat /\ Len(f) \in Nat
      /\ \A k \in 1 .. Len(e) : e[k] \in 1 .. n /\ e[k] \in Nat
      /\ \A k \in 1 .. Len(f) : f[k] \in 1 .. n /\ f[k] \in Nat
  BY EndsType
<1>2. /\ \A j, k \in 1 .. Len(e) : j < k => e[j] < e[k]
      /\ \A j, k \in 1 .. Len(f) : j < k => f[j] < f[k]
  BY DEF AreEnds
<1>3. /\ \A k \in 1 .. Len(e) : \E j \in 1 .. Len(f) : f[j] = e[k]
      /\ \A k \in 1 .. Len(f) : \E j \in 1 .. Len(e) : e[j] = f[k]
  BY <1>1 DEF AreEnds
<1>4. SUFFICES ASSUME Bad # {} PROVE FALSE
  OBVIOUS
<1>5. PICK k \in Bad : \A m \in Bad : k <= m
  BY <1>4, LeastNumber, Bad \subseteq Nat, Zenon
<1>6. k \in 1 .. Len(e) /\ ~(k <= Len(f) /\ e[k] = f[k])
  BY <1>5
<1>7. \A m \in 1 .. Len(e) : m < k => m \in 1 .. Len(f) /\ e[m] = f[m]
  BY <1>1, <1>5, <1>6
<1>8. PICK j \in 1 .. Len(f) : f[j] = e[k]
  BY <1>3, <1>6
<1>. HIDE DEF Bad
<1>9. ~(j < k)
  <2>1. SUFFICES ASSUME j < k PROVE FALSE
    OBVIOUS
  <2>2. j \in 1 .. Len(e)
    BY <1>1, <1>6, <2>1
  <2>3. e[j] = f[j] /\ e[j] < e[k]
    BY <1>2, <1>6, <1>7, <2>1, <2>2
  <2>. QED
    BY <1>1, <1>6, <1>8, <2>3
<1>10. ~(k < j)
  <2>1. SUFFICES ASSUME k < j PROVE FALSE
    OBVIOUS
  <2>2. k \in 1 .. Len(f)
    BY <1>1, <1>6, <2>1
  <2>3. f[k] < f[j]
    BY <1>2, <2>1, <2>2
  <2>4. PICK m \in 1 .. Len(e) : e[m] = f[k]
    BY <1>3, <2>2
  <2>5. e[m] < e[k]
    BY <1>8, <2>3, <2>4
  <2>6. m < k
    BY <1>1, <1>2, <1>6, <2>5
  <2>7. m \in 1 .. Len(f) /\ e[m] = f[m] /\ f[m] < f[k]
    BY <1>2, <1>7, <2>2, <2>6
  <2>. QED
    BY <1>1, <2>2, <2>4, <2>7
<1>11. j = k
  BY <1>1, <1>6, <1>9, <1>10
<1>. QED
  BY <1>1, <1>6, <1>8, <1>11

\* Only one sequence lists the ends.
LEMMA EndsUnique ==
  ASSUME NEW ps, NEW n \in Nat, NEW e, NEW f, AreEnds(e, ps, n), AreEnds(f, ps, n)
  PROVE  e = f
<1>1. /\ e \in Seq(1 .. n) /\ f \in Seq(1 .. n) /\ Len(e) \in Nat /\ Len(f) \in Nat
  BY EndsType
<1>2. \A i \in 1 .. Len(e) : i <= Len(f) /\ e[i] = f[i]
  BY SameEndsSoFar
<1>3. \A i \in 1 .. Len(f) : i <= Len(e) /\ f[i] = e[i]
  BY SameEndsSoFar
<1>4. Len(e) = Len(f)
  <2>1. ~(Len(f) < Len(e))
    <3>1. SUFFICES ASSUME Len(f) < Len(e) PROVE FALSE
      OBVIOUS
    <3>2. Len(e) \in 1 .. Len(e)
      BY <1>1, <3>1
    <3>. QED
      BY <1>1, <1>2, <3>1, <3>2
  <2>2. ~(Len(e) < Len(f))
    <3>1. SUFFICES ASSUME Len(e) < Len(f) PROVE FALSE
      OBVIOUS
    <3>2. Len(f) \in 1 .. Len(f)
      BY <1>1, <3>1
    <3>. QED
      BY <1>1, <1>3, <3>1, <3>2
  <2>. QED
    BY <1>1, <2>1, <2>2
<1>. QED
  BY <1>1, <1>2, <1>4, SeqEqual

\* The messages whose lines end in a sequence of pieces.
Messaged(ps) == [i \in DOMAIN Ends(ps) |-> ps[Ends(ps)[i]].msg]

LEMMA MessagedType ==
  ASSUME NEW ps \in Seq(Piece)
  PROVE  /\ Messaged(ps) \in Seq(Messages) /\ Len(Messaged(ps)) = Len(Ends(ps))
         /\ \A i \in 1 .. Len(Ends(ps)) : Messaged(ps)[i] = ps[Ends(ps)[i]].msg
<1>1. Len(ps) \in Nat /\ \A k \in 1 .. Len(ps) : ps[k] \in Piece
  BY LenProperties, ElementOfSeq
<1>. DEFINE e == Ends(ps)
<1>2. Len(e) \in Nat /\ DOMAIN e = 1 .. Len(e) /\ \A i \in 1 .. Len(e) : e[i] \in 1 .. Len(ps)
  BY <1>1, EndsFound, EndsType
<1>. HIDE DEF e
<1>3. \A i \in 1 .. Len(e) : ps[e[i]].msg \in Messages
  BY <1>1, <1>2 DEF Piece
<1>4. [i \in DOMAIN e |-> ps[e[i]].msg] \in Seq(Messages)
  BY <1>2, <1>3
<1>5. Messaged(ps) = [i \in DOMAIN e |-> ps[e[i]].msg]
  BY DEF Messaged, e
<1>. QED
  BY <1>2, <1>4, <1>5 DEF e

\* Without an end there is no message.
LEMMA NoneMessaged ==
  ASSUME NEW ps \in Seq(Piece), \A k \in 1 .. Len(ps) : ~IsEnd(ps[k])
  PROVE  Ends(ps) = <<>> /\ Messaged(ps) = <<>>
<1>1. Len(ps) \in Nat
  BY LenProperties
<1>2. AreEnds(<<>>, ps, Len(ps))
  BY <1>1 DEF AreEnds
<1>3. Ends(ps) = <<>>
  BY <1>1, <1>2, EndsFound, EndsUnique
<1>. QED
  BY <1>3 DEF Messaged

\* What is messaged by one sequence after the other.
LEMMA MessagedConcat ==
  ASSUME NEW a \in Seq(Piece), NEW b \in Seq(Piece)
  PROVE  Messaged(a \o b) = Messaged(a) \o Messaged(b)
<1>. DEFINE c == a \o b
            e == Ends(a)
            f == Ends(b)
            h == [i \in 1 .. Len(f) |-> f[i] + Len(a)]
            g == e \o h
<1>1. Len(a) \in Nat /\ Len(b) \in Nat
  BY LenProperties
<1>2. /\ c \in Seq(Piece) /\ Len(c) = Len(a) + Len(b)
      /\ \A k \in 1 .. Len(a) + Len(b) : c[k] = IF k <= Len(a) THEN a[k] ELSE b[k - Len(a)]
  BY ConcatProperties
<1>3. AreEnds(e, a, Len(a)) /\ AreEnds(f, b, Len(b))
  BY <1>1, EndsFound
<1>4. /\ e \in Seq(1 .. Len(a)) /\ Len(e) \in Nat
      /\ \A i \in 1 .. Len(e) : e[i] \in 1 .. Len(a)
      /\ f \in Seq(1 .. Len(b)) /\ Len(f) \in Nat
      /\ \A i \in 1 .. Len(f) : f[i] \in 1 .. Len(b)
  BY <1>1, <1>3, EndsType
<1>. HIDE DEF c, e, f
<1>5. e \in Seq(1 .. Len(a) + Len(b))
  BY <1>1, <1>4
<1>6. /\ h \in Seq(1 .. Len(a) + Len(b)) /\ Len(h) = Len(f)
      /\ \A i \in 1 .. Len(f) : h[i] = f[i] + Len(a)
  BY <1>1, <1>4
<1>. HIDE DEF h
<1>7. /\ g \in Seq(1 .. Len(a) + Len(b)) /\ Len(g) = Len(e) + Len(f)
      /\ \A i \in 1 .. Len(e) + Len(f) : g[i] = IF i <= Len(e) THEN e[i] ELSE f[i - Len(e)] + Len(a)
  <2>. DEFINE N == 1 .. Len(a) + Len(b)
  <2>0. e \in Seq(N) /\ h \in Seq(N)
    BY <1>5, <1>6
  <2>. HIDE DEF N
  <2>1. /\ e \o h \in Seq(N) /\ Len(e \o h) = Len(e) + Len(h)
        /\ \A i \in 1 .. Len(e) + Len(h) : (e \o h)[i] = IF i <= Len(e) THEN e[i] ELSE h[i - Len(e)]
    BY <2>0, ConcatProperties
  <2>. USE DEF N
  <2>2. \A i \in 1 .. Len(e) + Len(f) : ~(i <= Len(e)) => i - Len(e) \in 1 .. Len(f)
    BY <1>4
  <2>. QED
    BY <1>6, <2>1, <2>2
<1>. HIDE DEF g
<1>8. /\ \A i \in 1 .. Len(e) : g[i] = e[i]
      /\ \A i \in 1 .. Len(f) : g[Len(e) + i] = f[i] + Len(a)
  <2>1. \A i \in 1 .. Len(e) : g[i] = e[i]
    BY <1>4, <1>7
  <2>2. ASSUME NEW i \in 1 .. Len(f) PROVE g[Len(e) + i] = f[i] + Len(a)
    <3>1. Len(e) + i \in 1 .. Len(e) + Len(f) /\ ~(Len(e) + i <= Len(e)) /\ Len(e) + i - Len(e) = i
      BY <1>4
    <3>. QED
      BY <1>7, <3>1
  <2>. QED
    BY <2>1, <2>2
<1>9. /\ \A k \in 1 .. Len(a) : c[k] = a[k]
      /\ \A k \in 1 .. Len(b) : c[k + Len(a)] = b[k]
  <2>1. \A k \in 1 .. Len(a) : c[k] = a[k]
    BY <1>1, <1>2
  <2>2. ASSUME NEW k \in 1 .. Len(b) PROVE c[k + Len(a)] = b[k]
    <3>1. k + Len(a) \in 1 .. Len(a) + Len(b) /\ ~(k + Len(a) <= Len(a)) /\ k + Len(a) - Len(a) = k
      BY <1>1
    <3>. QED
      BY <1>2, <3>1
  <2>. QED
    BY <2>1, <2>2
<1>10. \A i \in 1 .. Len(g) : i \in 1 .. Len(e) \/ \E j \in 1 .. Len(f) : i = Len(e) + j
  <2>. TAKE i \in 1 .. Len(g)
  <2>1. CASE i <= Len(e)
    BY <1>4, <1>7, <2>1
  <2>2. CASE i > Len(e)
    <3>1. i - Len(e) \in 1 .. Len(f) /\ i = Len(e) + (i - Len(e))
      BY <1>4, <1>7, <2>2
    <3>. QED
      BY <3>1
  <2>. QED
    BY <1>4, <2>1, <2>2
<1>11. AreEnds(g, c, Len(a) + Len(b))
  <2>1. ASSUME NEW i \in 1 .. Len(g), NEW j \in 1 .. Len(g), i < j PROVE g[i] < g[j]
    <3>1. CASE i \in 1 .. Len(e) /\ j \in 1 .. Len(e)
      BY <1>3, <1>8, <2>1, <3>1 DEF AreEnds
    <3>2. CASE i \in 1 .. Len(e) /\ ~(j \in 1 .. Len(e))
      <4>1. PICK k \in 1 .. Len(f) : j = Len(e) + k
        BY <1>10, <3>2
      <4>2. g[i] = e[i] /\ g[j] = f[k] + Len(a) /\ e[i] \in 1 .. Len(a) /\ f[k] \in 1 .. Len(b)
        BY <1>4, <1>8, <3>2, <4>1
      <4>. QED
        BY <1>1, <4>2
    <3>3. CASE ~(i \in 1 .. Len(e))
      <4>1. PICK k \in 1 .. Len(f) : i = Len(e) + k
        BY <1>10, <3>3
      <4>2. ~(j \in 1 .. Len(e))
        BY <1>4, <2>1, <4>1
      <4>3. PICK m \in 1 .. Len(f) : j = Len(e) + m
        BY <1>10, <4>2
      <4>4. k < m
        BY <1>4, <2>1, <4>1, <4>3
      <4>5. f[k] < f[m]
        BY <1>3, <4>4 DEF AreEnds
      <4>6. g[i] = f[k] + Len(a) /\ g[j] = f[m] + Len(a)
        BY <1>8, <4>1, <4>3
      <4>7. f[k] \in Nat /\ f[m] \in Nat
        BY <1>4
      <4>. QED
        BY <1>1, <4>5, <4>6, <4>7
    <3>. QED
      BY <3>1, <3>2, <3>3
  <2>2. ASSUME NEW i \in 1 .. Len(g) PROVE IsEnd(c[g[i]])
    <3>1. CASE i \in 1 .. Len(e)
      <4>1. c[g[i]] = a[e[i]]
        BY <1>4, <1>8, <1>9, <3>1
      <4>. QED
        BY <1>3, <3>1, <4>1 DEF AreEnds
    <3>2. CASE ~(i \in 1 .. Len(e))
      <4>1. PICK j \in 1 .. Len(f) : i = Len(e) + j
        BY <1>10, <3>2
      <4>2. c[g[i]] = b[f[j]]
        BY <1>4, <1>8, <1>9, <4>1
      <4>. QED
        BY <1>3, <4>1, <4>2 DEF AreEnds
    <3>. QED
      BY <3>1, <3>2
  <2>3. ASSUME NEW k \in 1 .. Len(a) + Len(b), IsEnd(c[k])
        PROVE  \E i \in 1 .. Len(g) : g[i] = k
    <3>1. CASE k <= Len(a)
      <4>1. k \in 1 .. Len(a) /\ c[k] = a[k]
        BY <1>1, <1>9, <3>1
      <4>2. PICK i \in 1 .. Len(e) : e[i] = k
        BY <1>3, <2>3, <4>1 DEF AreEnds
      <4>3. i \in 1 .. Len(g)
        BY <1>4, <1>7
      <4>. QED
        BY <1>8, <4>2, <4>3
    <3>2. CASE k > Len(a)
      <4>1. k - Len(a) \in 1 .. Len(b) /\ k = k - Len(a) + Len(a)
        BY <1>1, <3>2
      <4>2. c[k] = b[k - Len(a)]
        BY <1>2, <1>1, <3>2
      <4>3. PICK j \in 1 .. Len(f) : f[j] = k - Len(a)
        BY <1>3, <2>3, <4>1, <4>2 DEF AreEnds
      <4>4. Len(e) + j \in 1 .. Len(g)
        BY <1>4, <1>7
      <4>5. g[Len(e) + j] = k
        BY <1>8, <4>1, <4>3
      <4>. QED
        BY <4>4, <4>5
    <3>. QED
      BY <1>1, <3>1, <3>2
  <2>. QED
    BY <1>7, <2>1, <2>2, <2>3 DEF AreEnds
<1>12. Ends(c) = g
  <2>0. Len(c) \in Nat /\ Len(c) = Len(a) + Len(b)
    BY <1>1, <1>2
  <2>1. AreEnds(Ends(c), c, Len(c))
    BY <2>0, EndsFound
  <2>. QED
    BY <1>11, <2>0, <2>1, EndsUnique
<1>. DEFINE x == Messaged(a)
            y == Messaged(b)
            z == Messaged(c)
<1>13. /\ x \in Seq(Messages) /\ Len(x) = Len(e) /\ \A i \in 1 .. Len(e) : x[i] = a[e[i]].msg
       /\ y \in Seq(Messages) /\ Len(y) = Len(f) /\ \A i \in 1 .. Len(f) : y[i] = b[f[i]].msg
  BY MessagedType DEF e, f
<1>14. z \in Seq(Messages) /\ Len(z) = Len(g) /\ \A i \in 1 .. Len(g) : z[i] = c[g[i]].msg
  BY <1>2, <1>12, MessagedType
<1>. HIDE DEF x, y, z
<1>15. /\ x \o y \in Seq(Messages) /\ Len(x \o y) = Len(x) + Len(y)
       /\ \A i \in 1 .. Len(x) + Len(y) : (x \o y)[i] = IF i <= Len(x) THEN x[i] ELSE y[i - Len(x)]
  <2>1. x \in Seq(Messages) /\ y \in Seq(Messages)
    BY <1>13
  <2>. QED
    BY <2>1, ConcatProperties
<1>16. ASSUME NEW i \in 1 .. Len(g) PROVE z[i] = (x \o y)[i]
  <2>0. i \in 1 .. Len(x) + Len(y)
    BY <1>7, <1>13
  <2>1. CASE i \in 1 .. Len(e)
    <3>1. c[g[i]] = a[e[i]]
      BY <1>4, <1>8, <1>9, <2>1
    <3>2. (x \o y)[i] = x[i]
      BY <1>4, <1>13, <1>15, <2>0, <2>1
    <3>. QED
      BY <1>13, <1>14, <2>1, <3>1, <3>2
  <2>2. CASE ~(i \in 1 .. Len(e))
    <3>1. PICK j \in 1 .. Len(f) : i = Len(e) + j
      BY <1>10, <2>2
    <3>2. c[g[i]] = b[f[j]]
      BY <1>4, <1>8, <1>9, <3>1
    <3>3. ~(i <= Len(x)) /\ i - Len(x) = j
      BY <1>4, <1>13, <3>1
    <3>4. (x \o y)[i] = y[j]
      BY <1>15, <2>0, <3>3
    <3>. QED
      BY <1>13, <1>14, <3>1, <3>2, <3>4
  <2>. QED
    BY <2>1, <2>2
<1>17. z = x \o y
  <2>1. Len(z) = Len(x \o y)
    BY <1>7, <1>13, <1>14, <1>15
  <2>. QED
    BY <1>14, <1>15, <1>16, <2>1, SeqEqual
<1>. QED
  BY <1>17 DEF x, y, z, c

-----------------------------------------------------------------------------
(***************************************************************************)
(* Lines one after the other.                                              *)
(***************************************************************************)

\* What comes after a piece: the next piece of its line, or the first of another.
Follows(p, q) == IF IsEnd(p) THEN q.at = 1 ELSE q.msg = p.msg /\ q.at = p.at + 1

Chain(ps) ==
  /\ ps \in Seq(Piece)
  /\ \A i \in 1 .. Len(ps) : ps[i].at <= Pieces(ps[i].msg)
  /\ \A i \in 1 .. Len(ps) - 1 : Follows(ps[i], ps[i + 1])

\* The chain starts with the start of a line; or with a part of one longer than the buffer.
FromStart(ps) == ps # <<>> => ps[1].at = 1

FromStartOrBook(ps) == ps # <<>> => ps[1].at = 1 \/ ps[1].msg.kind = "book"

\* It ends with the end of a line.
Complete(ps) == ps # <<>> => IsEnd(ps[Len(ps)])

LEMMA PiecesType ==
  ASSUME NEW m \in Messages
  PROVE  /\ Pieces(m) \in Nat \ {0}
         /\ m.kind # "book" => Pieces(m) <= BufMax - ReadMax + 1
BY FeedLinkAssumption DEF Messages, Pieces

LEMMA ChainType ==
  ASSUME NEW ps \in Seq(Piece)
  PROVE  /\ Len(ps) \in Nat
         /\ \A i \in 1 .. Len(ps) :
              /\ ps[i] \in Piece /\ ps[i].msg \in Messages /\ ps[i].at \in Nat \ {0}
              /\ ps[i] = [msg |-> ps[i].msg, at |-> ps[i].at]
              /\ Pieces(ps[i].msg) \in Nat \ {0}
         /\ ps = <<>> <=> Len(ps) = 0
<1>1. Len(ps) \in Nat /\ \A i \in 1 .. Len(ps) : ps[i] \in Piece
  BY LenProperties, ElementOfSeq
<1>2. ps = <<>> <=> Len(ps) = 0
  BY EmptySeq
<1>3. \A p \in Piece : p.msg \in Messages /\ p.at \in Nat \ {0} /\ p = [msg |-> p.msg, at |-> p.at]
  BY DEF Piece
<1>. QED
  BY <1>1, <1>2, <1>3, PiecesType

\* A line is a chain, and is the message it was made of.
LEMMA LineChain ==
  ASSUME NEW m \in Messages
  PROVE  /\ Chain(Line(m)) /\ FromStart(Line(m)) /\ Complete(Line(m))
         /\ Messaged(Line(m)) = <<m>>
<1>. DEFINE n == Pieces(m)
            ps == Line(m)
<1>1. n \in Nat \ {0}
  BY PiecesType
<1>. HIDE DEF n
<1>2. ps = [i \in 1 .. n |-> [msg |-> m, at |-> i]]
  BY DEF Line, n
<1>3. \A i \in 1 .. n : [msg |-> m, at |-> i] \in Piece
  BY DEF Piece
<1>4. /\ ps \in Seq(Piece) /\ Len(ps) = n
      /\ \A i \in 1 .. n : ps[i] = [msg |-> m, at |-> i]
  BY <1>1, <1>2, <1>3
<1>. HIDE DEF ps
<1>5. \A i \in 1 .. n : ps[i].msg = m /\ ps[i].at = i /\ (IsEnd(ps[i]) <=> i = n)
  BY <1>4 DEF IsEnd, n
<1>6. Chain(ps)
  <2>1. ASSUME NEW i \in 1 .. n - 1 PROVE Follows(ps[i], ps[i + 1])
    <3>1. i \in 1 .. n /\ i + 1 \in 1 .. n /\ i # n
      BY <1>1
    <3>. QED
      BY <1>5, <3>1 DEF Follows
  <2>. QED
    BY <1>1, <1>4, <1>5, <2>1 DEF Chain, n
<1>7. FromStart(ps) /\ Complete(ps)
  BY <1>1, <1>4, <1>5 DEF FromStart, Complete
<1>8. AreEnds(<<n>>, ps, n)
  BY <1>1, <1>5 DEF AreEnds
<1>9. Ends(ps) = <<n>>
  BY <1>1, <1>4, <1>8, EndsFound, EndsUnique
<1>10. Messaged(ps) = <<m>>
  <2>1. Messaged(ps) \in Seq(Messages) /\ Len(Messaged(ps)) = 1 /\ Messaged(ps)[1] = m
    <3>1. Len(Ends(ps)) = 1 /\ Ends(ps)[1] = n
      BY <1>9
    <3>. QED
      BY <1>1, <1>4, <1>5, <3>1, MessagedType
  <2>. QED
    BY <2>1
<1>. QED
  BY <1>6, <1>7, <1>10 DEF ps

\* Whole lines may be appended to whole lines.
LEMMA ChainConcat ==
  ASSUME NEW a, NEW b, Chain(a), Complete(a), Chain(b), FromStart(b)
  PROVE  /\ Chain(a \o b)
         /\ FromStart(a) => FromStart(a \o b)
         /\ FromStartOrBook(a) => FromStartOrBook(a \o b)
         /\ Complete(b) => Complete(a \o b)
<1>. DEFINE c == a \o b
<1>0. a \in Seq(Piece) /\ b \in Seq(Piece)
  BY DEF Chain
<1>1. /\ Len(a) \in Nat /\ Len(b) \in Nat
      /\ a = <<>> <=> Len(a) = 0
      /\ b = <<>> <=> Len(b) = 0
  BY <1>0, ChainType
<1>2. /\ c \in Seq(Piece) /\ Len(c) = Len(a) + Len(b)
      /\ \A k \in 1 .. Len(a) + Len(b) : c[k] = IF k <= Len(a) THEN a[k] ELSE b[k - Len(a)]
  BY <1>0, ConcatProperties
<1>. HIDE DEF c
<1>3. /\ \A k \in 1 .. Len(a) : c[k] = a[k]
      /\ \A k \in 1 .. Len(b) : c[Len(a) + k] = b[k]
  <2>1. \A k \in 1 .. Len(a) : c[k] = a[k]
    BY <1>1, <1>2
  <2>2. ASSUME NEW k \in 1 .. Len(b) PROVE c[Len(a) + k] = b[k]
    <3>1. Len(a) + k \in 1 .. Len(a) + Len(b) /\ ~(Len(a) + k <= Len(a)) /\ Len(a) + k - Len(a) = k
      BY <1>1
    <3>. QED
      BY <1>2, <3>1
  <2>. QED
    BY <2>1, <2>2
<1>4. \A i \in 1 .. Len(c) : i \in 1 .. Len(a) \/ \E k \in 1 .. Len(b) : i = Len(a) + k
  <2>. TAKE i \in 1 .. Len(c)
  <2>1. CASE i <= Len(a)
    BY <1>1, <1>2, <2>1
  <2>2. CASE i > Len(a)
    <3>1. i - Len(a) \in 1 .. Len(b) /\ i = Len(a) + (i - Len(a))
      BY <1>1, <1>2, <2>2
    <3>. QED
      BY <3>1
  <2>. QED
    BY <1>1, <2>1, <2>2
<1>5. \A i \in 1 .. Len(c) : c[i].at <= Pieces(c[i].msg)
  <2>. TAKE i \in 1 .. Len(c)
  <2>1. (\E k \in 1 .. Len(a) : c[i] = a[k]) \/ (\E k \in 1 .. Len(b) : c[i] = b[k])
    BY <1>3, <1>4
  <2>. QED
    BY <2>1 DEF Chain
<1>6. ASSUME NEW i \in 1 .. Len(c) - 1 PROVE Follows(c[i], c[i + 1])
  <2>1. CASE i + 1 <= Len(a)
    <3>1. i \in 1 .. Len(a) - 1 /\ c[i] = a[i] /\ c[i + 1] = a[i + 1]
      BY <1>1, <1>3, <2>1
    <3>. QED
      BY <3>1 DEF Chain
  <2>2. CASE i = Len(a)
    <3>1. 1 \in 1 .. Len(b) /\ b # <<>> /\ a # <<>>
      BY <1>1, <1>2, <2>2
    <3>2. c[i] = a[Len(a)] /\ c[i + 1] = b[1]
      BY <1>1, <1>3, <2>2, <3>1
    <3>. QED
      BY <3>1, <3>2 DEF Complete, FromStart, Follows
  <2>3. CASE i > Len(a)
    <3>. DEFINE k == i - Len(a)
    <3>1. k \in 1 .. Len(b) - 1 /\ k \in 1 .. Len(b) /\ k + 1 \in 1 .. Len(b)
          /\ Len(a) + k = i /\ Len(a) + (k + 1) = i + 1
      BY <1>1, <1>2, <2>3
    <3>. HIDE DEF k
    <3>2. c[i] = b[k] /\ c[i + 1] = b[k + 1]
      BY <1>3, <3>1
    <3>. QED
      BY <3>1, <3>2 DEF Chain
  <2>. QED
    BY <1>1, <1>2, <2>1, <2>2, <2>3
<1>7. Chain(c)
  BY <1>2, <1>5, <1>6 DEF Chain
<1>8. c # <<>> => c[1] = IF a # <<>> THEN a[1] ELSE b[1]
  <2>. HAVE c # <<>>
  <2>1. CASE a # <<>>
    <3>1. 1 \in 1 .. Len(a)
      BY <1>1, <2>1
    <3>. QED
      BY <1>3, <2>1, <3>1
  <2>2. CASE a = <<>>
    <3>1. Len(a) = 0 /\ Len(b) # 0
      BY <1>1, <1>2, <2>2, ChainType
    <3>2. 1 \in 1 .. Len(b) /\ Len(a) + 1 = 1
      BY <1>1, <3>1
    <3>. QED
      BY <1>3, <2>2, <3>2
  <2>. QED
    BY <2>1, <2>2
<1>9. c # <<>> /\ a = <<>> => b # <<>>
  BY <1>1, <1>2, ChainType
<1>10. c # <<>> => c[Len(c)] = IF b # <<>> THEN b[Len(b)] ELSE a[Len(a)]
  <2>. HAVE c # <<>>
  <2>1. CASE b # <<>>
    <3>1. Len(b) \in 1 .. Len(b)
      BY <1>1, <2>1
    <3>. QED
      BY <1>2, <1>3, <2>1, <3>1
  <2>2. CASE b = <<>>
    <3>1. Len(c) = Len(a) /\ Len(a) # 0
      BY <1>1, <1>2, <2>2, ChainType
    <3>2. Len(a) \in 1 .. Len(a)
      BY <1>1, <3>1
    <3>. QED
      BY <1>3, <2>2, <3>1, <3>2
  <2>. QED
    BY <2>1, <2>2
<1>11. c # <<>> /\ b = <<>> => a # <<>>
  BY <1>1, <1>2, ChainType
<1>12. FromStart(a) => FromStart(c)
  BY <1>8, <1>9 DEF FromStart
<1>13. FromStartOrBook(a) => FromStartOrBook(c)
  BY <1>8, <1>9 DEF FromStart, FromStartOrBook
<1>14. Complete(b) => Complete(c)
  BY <1>10, <1>11 DEF Complete
<1>. QED
  BY <1>7, <1>12, <1>13, <1>14 DEF c

\* A part of a chain is one.
LEMMA ChainPart ==
  ASSUME NEW ps, Chain(ps), NEW m \in 1 .. Len(ps) + 1, NEW n \in m - 1 .. Len(ps)
  PROVE  /\ Chain(SubSeq(ps, m, n)) /\ Len(SubSeq(ps, m, n)) = n - m + 1
         /\ \A k \in 1 .. n - m + 1 : SubSeq(ps, m, n)[k] = ps[m + k - 1]
         /\ n = Len(ps) /\ Complete(ps) => Complete(SubSeq(ps, m, n))
<1>. DEFINE c == SubSeq(ps, m, n)
<1>1. ps \in Seq(Piece) /\ Len(ps) \in Nat
  BY LenProperties DEF Chain
<1>2. /\ c \in Seq(Piece) /\ Len(c) = n - m + 1
      /\ \A k \in 1 .. n - m + 1 : c[k] = ps[m + k - 1]
  BY <1>1, SubSeqProperties
<1>. HIDE DEF c
<1>3. \A k \in 1 .. Len(c) : c[k].at <= Pieces(c[k].msg)
  <2>. TAKE k \in 1 .. Len(c)
  <2>1. m + k - 1 \in 1 .. Len(ps) /\ c[k] = ps[m + k - 1]
    BY <1>1, <1>2
  <2>. QED
    BY <2>1 DEF Chain
<1>4. \A k \in 1 .. Len(c) - 1 : Follows(c[k], c[k + 1])
  <2>. TAKE k \in 1 .. Len(c) - 1
  <2>1. /\ m + k - 1 \in 1 .. Len(ps) - 1 /\ (m + k - 1) + 1 = m + (k + 1) - 1
        /\ k \in 1 .. n - m + 1 /\ k + 1 \in 1 .. n - m + 1
    BY <1>1, <1>2
  <2>2. c[k] = ps[m + k - 1] /\ c[k + 1] = ps[(m + k - 1) + 1]
    BY <1>2, <2>1
  <2>. QED
    BY <2>1, <2>2 DEF Chain
<1>5. Chain(c)
  BY <1>2, <1>3, <1>4 DEF Chain
<1>6. n = Len(ps) /\ Complete(ps) => Complete(c)
  <2>. HAVE n = Len(ps) /\ Complete(ps)
  <2>1. SUFFICES ASSUME c # <<>> PROVE IsEnd(c[Len(c)])
    BY DEF Complete
  <2>2. Len(c) # 0 /\ Len(c) \in Nat
    BY <1>2, <2>1, ChainType
  <2>3. Len(c) \in 1 .. n - m + 1 /\ m + Len(c) - 1 = Len(ps) /\ Len(ps) # 0
    BY <1>1, <1>2, <2>2
  <2>4. c[Len(c)] = ps[Len(ps)]
    BY <1>2, <2>3
  <2>5. ps # <<>>
    BY <1>1, <2>3, ChainType
  <2>. QED
    BY <2>4, <2>5 DEF Complete
<1>. QED
  BY <1>2, <1>5, <1>6 DEF c

\* Up to the next end the pieces are those of one line, counted one by one.
LEMMA Running ==
  ASSUME NEW ps, Chain(ps), NEW p \in 1 .. Len(ps), NEW q \in p .. Len(ps),
         \A k \in p .. q - 1 : ~IsEnd(ps[k])
  PROVE  ps[q].msg = ps[p].msg /\ ps[q].at = ps[p].at + (q - p)
<1>. DEFINE Good(k) == ps[k].msg = ps[p].msg /\ ps[k].at = ps[p].at + (k - p)
            Bad == {k \in p .. q : ~Good(k)}
<1>1. ps \in Seq(Piece)
  BY DEF Chain
<1>2. Len(ps) \in Nat /\ \A k \in 1 .. Len(ps) : ps[k].at \in Nat
  BY <1>1, ChainType
<1>3. Bad \subseteq Nat
  BY <1>2
<1>0. q \in p .. q
  BY <1>2
<1>4. SUFFICES ASSUME Bad # {} PROVE FALSE
  BY <1>0, Zenon
<1>5. PICK k \in Bad : \A m \in Bad : k <= m
  BY <1>3, <1>4, LeastNumber
<1>6. k \in p .. q /\ ~Good(k)
  BY <1>5
<1>7. k # p
  BY <1>2, <1>6
<1>8. k - 1 \in p .. q - 1 /\ k - 1 \in p .. q /\ k - 1 \in 1 .. Len(ps) - 1 /\ (k - 1) + 1 = k
  BY <1>2, <1>6, <1>7
<1>9. Good(k - 1)
  BY <1>2, <1>5, <1>8
<1>10. Follows(ps[k - 1], ps[k]) /\ ~IsEnd(ps[k - 1])
  <2>1. Follows(ps[k - 1], ps[(k - 1) + 1])
    BY <1>8 DEF Chain
  <2>. QED
    BY <1>8, <2>1
<1>11. ps[k].msg = ps[k - 1].msg /\ ps[k].at = ps[k - 1].at + 1
  BY <1>10 DEF Follows
<1>12. ps[k - 1].msg = ps[p].msg /\ ps[k - 1].at = ps[p].at + (k - 1 - p)
  BY <1>9
<1>13. ps[p].at \in Nat
  BY <1>2
<1>14. ps[k].at = ps[p].at + (k - p)
  <2>. DEFINE x == ps[p].at
              y == ps[k - 1].at
              z == ps[k].at
  <2>1. x \in Nat /\ y = x + (k - 1 - p) /\ z = y + 1
    BY <1>11, <1>12, <1>13
  <2>2. k \in Nat /\ p \in Nat
    BY <1>2, <1>6
  <2>. HIDE DEF x, y, z
  <2>3. z = x + (k - p)
    BY <2>1, <2>2
  <2>. QED
    BY <2>3 DEF x, z
<1>15. Good(k)
  BY <1>11, <1>12, <1>14
<1>. QED
  BY <1>6, <1>15

\* The reader makes of each line its message: however little of a line longer than the buffer
\* is left, all of it is of that line.
LEMMA HeardWhole ==
  ASSUME NEW ps, Chain(ps), FromStartOrBook(ps)
  PROVE  Dispatched(ps) = Messaged(ps)
<1>. DEFINE e == Ends(ps)
            Start(i) == IF i = 1 THEN 1 ELSE e[i - 1] + 1
<1>1. ps \in Seq(Piece)
  BY DEF Chain
<1>2. /\ Len(ps) \in Nat
      /\ \A k \in 1 .. Len(ps) : /\ ps[k].at \in Nat \ {0} /\ ps[k].msg \in Messages
                                 /\ ps[k] = [msg |-> ps[k].msg, at |-> ps[k].at]
      /\ ps = <<>> <=> Len(ps) = 0
  BY <1>1, ChainType
<1>3. AreEnds(e, ps, Len(ps))
  BY <1>2, EndsFound
<1>4. Len(e) \in Nat /\ DOMAIN e = 1 .. Len(e) /\ \A i \in 1 .. Len(e) : e[i] \in 1 .. Len(ps)
  BY <1>2, <1>3, EndsType
<1>5. Dispatched(ps) = [i \in DOMAIN e |-> Parsed(SubSeq(ps, Start(i), e[i]))]
  BY DEF Dispatched
<1>6. Messaged(ps) = [i \in DOMAIN e |-> ps[e[i]].msg]
  BY DEF Messaged
<1>. HIDE DEF e
<1>7. ASSUME NEW i \in 1 .. Len(e) PROVE Parsed(SubSeq(ps, Start(i), e[i])) = ps[e[i]].msg
  <2>. DEFINE p == Start(i)
              q == e[i]
              sec == SubSeq(ps, p, q)
  <2>1. /\ q \in 1 .. Len(ps) /\ IsEnd(ps[q])
        /\ p \in 1 .. q /\ (p # 1 => p - 1 \in 1 .. Len(ps) - 1 /\ IsEnd(ps[p - 1]))
    <3>1. q \in 1 .. Len(ps) /\ IsEnd(ps[q])
      BY <1>3, <1>4 DEF AreEnds
    <3>2. CASE i = 1
      BY <3>1, <3>2
    <3>3. CASE i # 1
      <4>1. i - 1 \in 1 .. Len(e) /\ i - 1 < i
        BY <1>4, <3>3
      <4>2. e[i - 1] < e[i] /\ IsEnd(ps[e[i - 1]]) /\ e[i - 1] \in 1 .. Len(ps)
        BY <1>3, <1>4, <4>1 DEF AreEnds
      <4>3. p = e[i - 1] + 1 /\ p - 1 = e[i - 1]
        BY <3>3, <4>2
      <4>. HIDE DEF p, q
      <4>4. e[i - 1] < q
        BY <4>2 DEF q
      <4>. QED
        BY <1>2, <3>1, <4>2, <4>3, <4>4
    <3>. QED
      BY <3>2, <3>3
  <2>2. \A k \in p .. q - 1 : ~IsEnd(ps[k])
    <3>1. SUFFICES ASSUME NEW k \in p .. q - 1, IsEnd(ps[k]) PROVE FALSE
      OBVIOUS
    <3>2. k \in 1 .. Len(ps)
      BY <1>2, <2>1
    <3>3. PICK j \in 1 .. Len(e) : e[j] = k
      BY <1>3, <3>1, <3>2 DEF AreEnds
    <3>4. j < i
      <4>1. ~(i < j) /\ i # j
        <5>1. i < j => e[i] < e[j]
          BY <1>3 DEF AreEnds
        <5>. QED
          BY <1>4, <2>1, <3>1, <3>3, <5>1
      <4>. QED
        BY <1>4, <4>1
    <3>5. i - 1 \in 1 .. Len(e) /\ i # 1 /\ (j < i - 1 \/ j = i - 1)
      BY <1>4, <3>4
    <3>6. p = e[i - 1] + 1 /\ e[j] <= e[i - 1]
      <4>1. j < i - 1 => e[j] < e[i - 1]
        BY <1>3, <3>5 DEF AreEnds
      <4>. QED
        BY <1>4, <3>5, <4>1
    <3>. QED
      BY <1>4, <3>1, <3>3, <3>5, <3>6
  <2>. HIDE DEF p, q
  <2>3. /\ Chain(sec) /\ Len(sec) = q - p + 1
        /\ \A k \in 1 .. q - p + 1 : sec[k] = ps[p + k - 1]
    <3>1. p \in 1 .. Len(ps) + 1 /\ q \in p - 1 .. Len(ps)
      BY <1>2, <2>1
    <3>. QED
      BY <3>1, ChainPart
  <2>4. \A k \in p .. q : ps[k].msg = ps[p].msg /\ ps[k].at = ps[p].at + (k - p)
    <3>. TAKE k \in p .. q
    <3>1. p \in 1 .. Len(ps) /\ k \in p .. Len(ps) /\ \A j \in p .. k - 1 : ~IsEnd(ps[j])
      BY <1>2, <2>1, <2>2
    <3>. QED
      BY <3>1, Running
  <2>. DEFINE m == ps[q].msg
  <2>5. p \in p .. q /\ q \in p .. q
    BY <2>1
  <2>6. m = ps[p].msg /\ ps[p].at \in Nat \ {0} /\ Pieces(m) = ps[p].at + (q - p) /\ m \in Messages
    <3>1. m = ps[p].msg /\ ps[q].at = ps[p].at + (q - p)
      BY <2>4, <2>5
    <3>2. ps[q].at = Pieces(m)
      BY <2>1 DEF IsEnd
    <3>3. p \in 1 .. Len(ps)
      BY <1>2, <2>1
    <3>. QED
      BY <1>2, <2>1, <3>1, <3>2, <3>3
  <2>7. Last(sec) = ps[q]
    <3>1. q - p + 1 \in 1 .. q - p + 1 /\ p + (q - p + 1) - 1 = q
      BY <2>1
    <3>. QED
      BY <2>3, <3>1 DEF Last
  <2>8. ASSUME ps[p].at = 1 PROVE Parsed(sec) = m
    <3>1. Pieces(m) = q - p + 1
      BY <2>1, <2>6, <2>8
    <3>2. sec \in Seq(Piece)
      BY <2>3 DEF Chain
    <3>3. \A k \in 1 .. q - p + 1 : sec[k] = [msg |-> m, at |-> k]
      <4>. TAKE k \in 1 .. q - p + 1
      <4>. DEFINE j == p + k - 1
      <4>1. j \in p .. q /\ j \in 1 .. Len(ps) /\ 1 + (j - p) = k
        BY <1>2, <2>1
      <4>2. sec[k] = ps[j]
        BY <2>3
      <4>. HIDE DEF j, sec, m
      <4>3. ps[j].msg = ps[p].msg /\ ps[j].at = ps[p].at + (j - p)
        BY <2>4, <4>1
      <4>4. ps[j].msg = m /\ ps[j].at = k
        BY <2>6, <2>8, <4>1, <4>3
      <4>. QED
        BY <1>2, <4>1, <4>2, <4>4
    <3>4. sec = [k \in 1 .. q - p + 1 |-> sec[k]]
      BY <2>3, <3>2
    <3>5. sec = Line(m)
      BY <3>1, <3>3, <3>4, Zenon DEF Line
    <3>. HIDE DEF sec
    <3>. QED
      BY <2>7, <3>5, Zenon DEF Parsed
  <2>9. ASSUME ps[p].at # 1 PROVE Parsed(sec) = m
    <3>1. p = 1
      <4>1. SUFFICES ASSUME p # 1 PROVE FALSE
        OBVIOUS
      <4>2. Follows(ps[p - 1], ps[(p - 1) + 1]) /\ (p - 1) + 1 = p
        BY <2>1, <4>1 DEF Chain
      <4>. QED
        BY <2>1, <2>9, <4>1, <4>2 DEF Follows
    <3>2. ps # <<>>
      BY <1>2, <2>1
    <3>3. m.kind = "book"
      BY <2>6, <2>9, <3>1, <3>2 DEF FromStartOrBook
    <3>4. \A k \in 1 .. q - p + 1 : sec[k].msg = m
      <4>. TAKE k \in 1 .. q - p + 1
      <4>1. p + k - 1 \in p .. q
        BY <2>1
      <4>. QED
        BY <2>3, <2>4, <2>6, <4>1
    <3>5. DOMAIN sec = 1 .. q - p + 1
      BY <2>3 DEF Chain
    <3>. HIDE DEF sec
    <3>. QED
      BY <2>7, <3>3, <3>4, <3>5 DEF Parsed
  <2>10. Parsed(sec) = m
    BY <2>8, <2>9
  <2>. QED
    BY <2>10 DEF p, q
<1>. QED
  BY <1>4, <1>5, <1>6, <1>7

\* Where the last line ends: what is left has no end, and starts a line unless none ended.
LEMMA LastEndMeans ==
  ASSUME NEW ps \in Seq(Piece)
  PROVE  /\ LastEnd(ps) \in 0 .. Len(ps)
         /\ LastEnd(ps) > 0 => IsEnd(ps[LastEnd(ps)])
         /\ \A k \in 1 .. Len(ps) : IsEnd(ps[k]) => k <= LastEnd(ps)
<1>. DEFINE e == Ends(ps)
<1>1. Len(ps) \in Nat
  BY ChainType
<1>2. AreEnds(e, ps, Len(ps))
  BY <1>1, EndsFound
<1>3. Len(e) \in Nat /\ e \in Seq(1 .. Len(ps)) /\ \A i \in 1 .. Len(e) : e[i] \in 1 .. Len(ps)
  BY <1>1, <1>2, EndsType
<1>4. LastEnd(ps) = IF e = <<>> THEN 0 ELSE e[Len(e)]
  BY DEF LastEnd, Last
<1>. HIDE DEF e
<1>5. CASE e = <<>>
  <2>1. Len(e) = 0
    BY <1>5
  <2>. QED
    BY <1>1, <1>2, <1>4, <1>5, <2>1 DEF AreEnds
<1>6. CASE e # <<>>
  <2>1. Len(e) # 0
    BY <1>3, <1>6, EmptySeq
  <2>2. Len(e) \in 1 .. Len(e)
    BY <1>3, <2>1
  <2>3. LastEnd(ps) = e[Len(e)] /\ e[Len(e)] \in 1 .. Len(ps) /\ IsEnd(ps[e[Len(e)]])
    BY <1>2, <1>3, <1>4, <1>6, <2>2 DEF AreEnds
  <2>4. ASSUME NEW k \in 1 .. Len(ps), IsEnd(ps[k]) PROVE k <= LastEnd(ps)
    <3>1. PICK i \in 1 .. Len(e) : e[i] = k
      BY <1>2, <2>4 DEF AreEnds
    <3>2. i = Len(e) \/ i < Len(e)
      BY <1>3
    <3>3. i < Len(e) => e[i] < e[Len(e)]
      BY <1>2, <2>2 DEF AreEnds
    <3>. QED
      BY <1>1, <1>3, <2>3, <3>1, <3>2, <3>3
  <2>. QED
    BY <1>1, <2>3, <2>4
<1>. QED
  BY <1>5, <1>6

\* A sequence after another.
LEMMA Joined ==
  ASSUME NEW S, NEW a \in Seq(S), NEW b \in Seq(S), NEW c, c = a \o b
  PROVE  /\ c \in Seq(S) /\ Len(c) = Len(a) + Len(b)
         /\ Len(a) \in Nat /\ Len(b) \in Nat
         /\ \A k \in 1 .. Len(a) : c[k] = a[k]
         /\ \A k \in 1 .. Len(b) : c[Len(a) + k] = b[k]
<1>1. Len(a) \in Nat /\ Len(b) \in Nat
  BY LenProperties
<1>2. /\ c \in Seq(S) /\ Len(c) = Len(a) + Len(b)
      /\ \A k \in 1 .. Len(a) + Len(b) : c[k] = IF k <= Len(a) THEN a[k] ELSE b[k - Len(a)]
  BY ConcatProperties
<1>3. \A k \in 1 .. Len(a) : c[k] = a[k]
  BY <1>1, <1>2
<1>4. ASSUME NEW k \in 1 .. Len(b) PROVE c[Len(a) + k] = b[k]
  <2>1. Len(a) + k \in 1 .. Len(a) + Len(b) /\ ~(Len(a) + k <= Len(a)) /\ Len(a) + k - Len(a) = k
    BY <1>1
  <2>. QED
    BY <1>2, <2>1
<1>. QED
  BY <1>1, <1>2, <1>3, <1>4

\* The two parts of a concatenation.
LEMMA Cut ==
  ASSUME NEW S, NEW a \in Seq(S), NEW b \in Seq(S), NEW c, c = a \o b
  PROVE  SubSeq(c, 1, Len(a)) = a /\ SubSeq(c, Len(a) + 1, Len(c)) = b
<1>. DEFINE x == SubSeq(c, 1, Len(a))
            y == SubSeq(c, Len(a) + 1, Len(c))
<1>1. /\ c \in Seq(S) /\ Len(c) = Len(a) + Len(b) /\ Len(a) \in Nat /\ Len(b) \in Nat
      /\ \A k \in 1 .. Len(a) : c[k] = a[k]
      /\ \A k \in 1 .. Len(b) : c[Len(a) + k] = b[k]
  BY Joined
<1>2. \A k \in 1 .. Len(c) : c[k] \in S
  BY <1>1, ElementOfSeq
<1>3. x = a
  <2>1. \A k \in 1 .. Len(a) : c[k] \in S
    BY <1>1, <1>2
  <2>2. /\ x \in Seq(S) /\ Len(x) = IF 1 <= Len(a) THEN Len(a) - 1 + 1 ELSE 0
        /\ \A k \in 1 .. Len(a) - 1 + 1 : x[k] = c[1 + k - 1]
    BY <1>1, <2>1, SubSeqProperties
  <2>. HIDE DEF x
  <2>3. Len(x) = Len(a) /\ \A k \in 1 .. Len(x) : x[k] = a[k]
    BY <1>1, <2>2
  <2>. QED
    BY <2>2, <2>3, SeqEqual
<1>4. y = b
  <2>1. \A k \in Len(a) + 1 .. Len(c) : c[k] \in S
    BY <1>1, <1>2
  <2>2. /\ y \in Seq(S)
        /\ Len(y) = IF Len(a) + 1 <= Len(c) THEN Len(c) - (Len(a) + 1) + 1 ELSE 0
        /\ \A k \in 1 .. Len(c) - (Len(a) + 1) + 1 : y[k] = c[Len(a) + 1 + k - 1]
    BY <1>1, <2>1, SubSeqProperties
  <2>. HIDE DEF y
  <2>3. Len(y) = Len(b)
    BY <1>1, <2>2
  <2>4. ASSUME NEW k \in 1 .. Len(y) PROVE y[k] = b[k]
    <3>1. k \in 1 .. Len(b) /\ Len(a) + 1 + k - 1 = Len(a) + k
          /\ k \in 1 .. Len(c) - (Len(a) + 1) + 1
      BY <1>1, <2>3
    <3>. QED
      BY <1>1, <2>2, <3>1
  <2>. QED
    BY <2>2, <2>3, <2>4, SeqEqual
<1>. QED
  BY <1>3, <1>4

-----------------------------------------------------------------------------
(***************************************************************************)
(* A read.                                                                 *)
(***************************************************************************)

\* What is buffered, and what is on the way after it.
Reading(b, q) ==
  /\ b \in Seq(Piece) /\ q \in Seq(Piece) /\ Len(b) <= BufMax
  /\ Chain(b \o q) /\ Complete(b \o q) /\ FromStartOrBook(b \o q)
  /\ \A k \in 1 .. Len(b) : ~IsEnd(b[k])

\* When the buffer would overflow there is a part of a line longer than it in it; no line
\* ends in what is thrown away, and what comes after is more of the same line.
LEMMA Overflow ==
  ASSUME NEW b, NEW q, Reading(b, q), NEW n \in 1 .. ReadMax, n <= Len(q), Len(b) + n > BufMax
  PROVE  /\ Chain(q) /\ Complete(q) /\ FromStartOrBook(q)
         /\ Messaged(b \o q) = Messaged(q)
<1>. DEFINE w == b \o q
            i == Len(b)
<1>1. ReadMax \in Nat \ {0} /\ BufMax \in Nat /\ BufMax > ReadMax
  BY FeedLinkAssumption
<1>2. b \in Seq(Piece) /\ q \in Seq(Piece)
  BY DEF Reading
<1>3. /\ w \in Seq(Piece) /\ Len(w) = Len(b) + Len(q)
      /\ Len(b) \in Nat /\ Len(q) \in Nat
      /\ \A k \in 1 .. Len(b) : w[k] = b[k]
      /\ \A k \in 1 .. Len(q) : w[Len(b) + k] = q[k]
      /\ SubSeq(w, Len(b) + 1, Len(w)) = q
  BY <1>2, Joined, Cut
<1>4. Chain(w) /\ Complete(w) /\ FromStartOrBook(w) /\ \A k \in 1 .. Len(b) : ~IsEnd(b[k])
  BY DEF Reading
<1>. HIDE DEF w
<1>5. i >= 1 /\ i \in 1 .. Len(w) /\ 1 \in 1 .. Len(w) /\ i + 1 \in 1 .. Len(w) /\ i \in 1 .. Len(w) - 1
  BY <1>1, <1>3
<1>6. Chain(q) /\ Complete(q)
  <2>1. Len(b) + 1 \in 1 .. Len(w) + 1 /\ Len(w) \in (Len(b) + 1) - 1 .. Len(w)
    BY <1>3
  <2>2. /\ Chain(SubSeq(w, Len(b) + 1, Len(w)))
        /\ Complete(w) => Complete(SubSeq(w, Len(b) + 1, Len(w)))
    BY <1>4, <2>1, ChainPart
  <2>. QED
    BY <1>3, <1>4, <2>2
<1>7. w[i].msg = w[1].msg /\ w[i].at = w[1].at + (i - 1) /\ ~IsEnd(w[i])
  <2>0. \A k \in 1 .. Len(b) : ~IsEnd(w[k])
    BY <1>3, <1>4
  <2>1. \A k \in 1 .. i - 1 : ~IsEnd(w[k])
    <3>1. Len(b) \in Nat /\ \A k \in 1 .. Len(b) - 1 : k \in 1 .. Len(b)
      BY <1>3
    <3>. QED
      BY <2>0, <3>1
  <2>2. ~IsEnd(w[i])
    <3>1. Len(b) \in 1 .. Len(b)
      BY <1>3, <1>5
    <3>. QED
      BY <2>0, <3>1
  <2>3. i \in 1 .. Len(w)
    BY <1>5
  <2>4. 1 \in 1 .. Len(w) /\ i \in 1 .. Len(w)
    BY <1>5
  <2>5. w[i].msg = w[1].msg /\ w[i].at = w[1].at + (i - 1)
    <3>. HIDE DEF i
    <3>1. i \in 1 .. Len(w)
      BY <2>3
    <3>. QED
      BY <1>4, <2>1, <2>4, <3>1, Running
  <2>. QED
    BY <2>2, <2>5, Zenon
<1>8. w[1].at \in Nat \ {0} /\ w[1].msg \in Messages /\ w # <<>>
  <2>1. w \in Seq(Piece) /\ 1 \in 1 .. Len(w)
    BY <1>3, <1>5
  <2>2. w[1].at \in Nat \ {0} /\ w[1].msg \in Messages
    <3>. HIDE DEF i
    <3>. QED
      BY <2>1, ChainType
  <2>. QED
    BY <2>1, <2>2
<1>. DEFINE m == w[1].msg
<1>9. w[i].at < Pieces(m)
  <2>1. w[i].at <= Pieces(w[i].msg) /\ w[i].at # Pieces(w[i].msg)
    BY <1>4, <1>5, <1>7 DEF Chain, IsEnd
  <2>2. Pieces(m) \in Nat /\ w[i].at \in Nat
    BY <1>3, <1>5, <1>8, ChainType, PiecesType
  <2>. QED
    BY <1>7, <2>1, <2>2
<1>10. m.kind = "book"
  <2>1. SUFFICES ASSUME m.kind # "book" PROVE FALSE
    OBVIOUS
  <2>2. w[1].at = 1
    BY <1>4, <1>8, <2>1 DEF FromStartOrBook
  <2>3. Pieces(m) \in Nat /\ Pieces(m) <= BufMax - ReadMax + 1
    BY <1>8, <2>1, PiecesType
  <2>. QED
    BY <1>1, <1>3, <1>7, <1>9, <2>2, <2>3
<1>11. FromStartOrBook(q)
  <2>1. Follows(w[i], w[i + 1])
    BY <1>4, <1>5 DEF Chain
  <2>2. w[i + 1].msg = w[i].msg
    BY <1>7, <2>1 DEF Follows
  <2>3. 1 \in 1 .. Len(q)
    BY <1>3
  <2>4. w[i + 1] = q[1]
    BY <1>3, <2>3
  <2>. QED
    BY <1>7, <1>10, <2>2, <2>4 DEF FromStartOrBook
<1>12. Messaged(w) = Messaged(q)
  <2>1. Messaged(w) = Messaged(b) \o Messaged(q)
    BY <1>2, MessagedConcat DEF w
  <2>2. Messaged(b) = <<>>
    BY <1>2, <1>4, NoneMessaged
  <2>3. Messaged(q) \in Seq(Messages)
    BY <1>2, MessagedType
  <2>. QED
    BY <2>1, <2>2, <2>3, ConcatEmptySeq
<1>. QED
  BY <1>6, <1>11, <1>12 DEF w


\* A sequence cut in two.
LEMMA Halves ==
  ASSUME NEW S, NEW s \in Seq(S), NEW l \in 0 .. Len(s)
  PROVE  /\ SubSeq(s, 1, l) \in Seq(S) /\ SubSeq(s, l + 1, Len(s)) \in Seq(S)
         /\ Len(SubSeq(s, 1, l)) = l /\ Len(SubSeq(s, l + 1, Len(s))) = Len(s) - l
         /\ SubSeq(s, 1, l) \o SubSeq(s, l + 1, Len(s)) = s
<1>1. Len(s) \in Nat /\ \A k \in 1 .. Len(s) : s[k] \in S
  BY LenProperties, ElementOfSeq
<1>2. SubSeq(s, 1, l) \in Seq(S) /\ Len(SubSeq(s, 1, l)) = l
  <2>1. \A k \in 1 .. l : s[k] \in S
    BY <1>1
  <2>2. /\ SubSeq(s, 1, l) \in Seq(S)
        /\ Len(SubSeq(s, 1, l)) = IF 1 <= l THEN l - 1 + 1 ELSE 0
    BY <1>1, <2>1, SubSeqProperties
  <2>. QED
    BY <1>1, <2>2
<1>3. SubSeq(s, l + 1, Len(s)) \in Seq(S) /\ Len(SubSeq(s, l + 1, Len(s))) = Len(s) - l
  <2>1. \A k \in l + 1 .. Len(s) : s[k] \in S
    BY <1>1
  <2>2. /\ SubSeq(s, l + 1, Len(s)) \in Seq(S)
        /\ Len(SubSeq(s, l + 1, Len(s))) = IF l + 1 <= Len(s) THEN Len(s) - (l + 1) + 1 ELSE 0
    BY <1>1, <2>1, SubSeqProperties
  <2>. QED
    BY <1>1, <2>2
<1>4. SubSeq(s, 1, l) \o SubSeq(s, l + 1, Len(s)) = SubSeq(s, 1, Len(s))
  <2>1. 1 \in 1 .. Len(s) + 1 /\ l \in 1 - 1 .. Len(s) /\ Len(s) \in l .. Len(s)
    BY <1>1
  <2>. QED
    BY <2>1, ConcatAdjacentSubSeq
<1>. QED
  BY <1>2, <1>3, <1>4, SubSeqFull

\* What the buffer holds after a read is still followed by what is on the way, and messages
\* the same lines.
LEMMA Gathered ==
  ASSUME NEW b, NEW chunk \in Seq(Piece), NEW rest \in Seq(Piece), Reading(b, chunk \o rest),
         Len(chunk) \in 1 .. ReadMax, NEW got, got = Buffered(b, chunk)
  PROVE  /\ got \in Seq(Piece) /\ Len(got) <= BufMax
         /\ Chain(got \o rest) /\ Complete(got \o rest) /\ FromStartOrBook(got \o rest)
         /\ Messaged(got \o rest) = Messaged(b \o (chunk \o rest))
<1>. DEFINE q == chunk \o rest
            n == Len(chunk)
<1>1. ReadMax \in Nat \ {0} /\ BufMax \in Nat /\ BufMax > ReadMax
  BY FeedLinkAssumption
<1>0. Reading(b, q)
  OBVIOUS
<1>2. b \in Seq(Piece) /\ q \in Seq(Piece) /\ Len(b) \in Nat
  BY LenProperties DEF Reading
<1>3. n \in 1 .. ReadMax /\ n <= Len(q)
  BY Joined
<1>4. got = IF Len(b) + n > BufMax THEN chunk ELSE b \o chunk
  BY DEF Buffered
<1>5. CASE Len(b) + n > BufMax
  <2>1. got = chunk
    BY <1>4, <1>5
  <2>2. Len(chunk) <= BufMax
    BY <1>1
  <2>. HIDE DEF n
  <2>3. Chain(q) /\ Complete(q) /\ FromStartOrBook(q) /\ Messaged(b \o q) = Messaged(q)
    BY <1>0, <1>3, <1>5, Overflow
  <2>. QED
    BY <2>1, <2>2, <2>3, Zenon
<1>6. CASE ~(Len(b) + n > BufMax)
  <2>1. got = b \o chunk
    BY <1>4, <1>6
  <2>2. (b \o chunk) \o rest = b \o q
    <3>1. b \in Seq(Piece)
      BY <1>2
    <3>. HIDE DEF n
    <3>. QED
      BY <3>1, ConcatAssociative
  <2>3. got \in Seq(Piece) /\ Len(got) = Len(b) + n
    BY <1>2, <2>1, ConcatProperties
  <2>4. Len(b) + n <= BufMax
    BY <1>1, <1>2, <1>3, <1>6
  <2>5. Chain(b \o q) /\ Complete(b \o q) /\ FromStartOrBook(b \o q)
    BY DEF Reading
  <2>6. got \o rest = b \o q
    BY <2>1, <2>2
  <2>7. Len(got) <= BufMax
    BY <2>3, <2>4
  <2>. QED
    BY <2>3, <2>5, <2>6, <2>7, Zenon
<1>. QED
  BY <1>5, <1>6

\* What comes after the last end is the start of a line, or more of one longer than the buffer.
LEMMA Remains ==
  ASSUME NEW head \in Seq(Piece), NEW left \in Seq(Piece), NEW rest \in Seq(Piece),
         NEW got, got = head \o left, Len(left) <= BufMax,
         Len(head) > 0 => IsEnd(head[Len(head)]),
         \A k \in 1 .. Len(got) : IsEnd(got[k]) => k <= Len(head),
         Chain(got \o rest), Complete(got \o rest), FromStartOrBook(got \o rest)
  PROVE  Reading(left, rest)
<1>. DEFINE l == Len(head)
            w == got \o rest
            tail == left \o rest
<1>1. /\ w = got \o rest /\ w = head \o tail /\ tail \in Seq(Piece)
      /\ Chain(w) /\ Complete(w) /\ FromStartOrBook(w)
  <2>1. tail \in Seq(Piece)
    BY ConcatProperties
  <2>2. (head \o left) \o rest = head \o (left \o rest)
    BY ConcatAssociative
  <2>. QED
    BY <2>1, <2>2
<1>. HIDE DEF w, tail
<1>2. /\ got \in Seq(Piece) /\ l \in Nat /\ Len(left) \in Nat /\ Len(got) = l + Len(left)
      /\ \A k \in 1 .. l : got[k] = head[k]
      /\ \A k \in 1 .. Len(left) : got[l + k] = left[k]
  BY Joined
<1>3. /\ l > 0 => IsEnd(got[l])
      /\ \A k \in 1 .. Len(got) : IsEnd(got[k]) => k <= l
  <2>1. l > 0 => l \in 1 .. l
    BY <1>2
  <2>. QED
    BY <1>2, <2>1
<1>4. /\ w \in Seq(Piece) /\ Len(w) = Len(got) + Len(rest) /\ Len(rest) \in Nat
      /\ \A k \in 1 .. Len(got) : w[k] = got[k]
  <2>1. got \in Seq(Piece) /\ w = got \o rest
    BY <1>1, <1>2
  <2>. QED
    BY <2>1, Joined
<1>5. /\ Len(tail) \in Nat /\ Len(w) = l + Len(tail)
      /\ \A k \in 1 .. Len(tail) : w[l + k] = tail[k]
      /\ SubSeq(w, l + 1, Len(w)) = tail
  <2>1. /\ Len(tail) \in Nat /\ Len(w) = l + Len(tail)
        /\ \A k \in 1 .. Len(tail) : w[l + k] = tail[k]
    BY <1>1, Joined
  <2>2. SubSeq(w, l + 1, Len(w)) = tail
    BY <1>1, Cut
  <2>. QED
    BY <2>1, <2>2
<1>. HIDE DEF l
<1>6. \A k \in 1 .. Len(left) : ~IsEnd(left[k])
  <2>. TAKE k \in 1 .. Len(left)
  <2>1. l + k \in 1 .. Len(got) /\ ~(l + k <= l)
    BY <1>2
  <2>2. left[k] = got[l + k]
    BY <1>2
  <2>. QED
    BY <1>3, <2>1, <2>2
<1>7. Chain(tail) /\ Complete(tail)
  <2>1. Len(w) \in Nat
    BY <1>2, <1>5
  <2>2. l + 1 \in 1 .. Len(w) + 1 /\ Len(w) \in (l + 1) - 1 .. Len(w)
    BY <1>2, <1>5
  <2>3. /\ Chain(SubSeq(w, l + 1, Len(w)))
        /\ Complete(w) => Complete(SubSeq(w, l + 1, Len(w)))
    BY <1>1, <2>2, ChainPart
  <2>. QED
    BY <1>1, <1>5, <2>3
<1>8. FromStartOrBook(tail)
  <2>1. SUFFICES ASSUME tail # <<>> PROVE tail[1].at = 1 \/ tail[1].msg.kind = "book"
    BY DEF FromStartOrBook
  <2>2. Len(tail) # 0
    BY <1>1, <2>1, EmptySeq
  <2>3. 1 \in 1 .. Len(tail)
    BY <1>5, <2>2
  <2>4. w[l + 1] = tail[1]
    BY <1>5, <2>3
  <2>5. CASE l = 0
    <3>1. w[1] = tail[1]
      BY <2>4, <2>5
    <3>2. w # <<>>
      <4>1. Len(w) # 0
        BY <1>2, <1>5, <2>2
      <4>. QED
        BY <1>4, <4>1, EmptySeq
    <3>. QED
      BY <1>1, <3>1, <3>2 DEF FromStartOrBook
  <2>6. CASE l # 0
    <3>1. l > 0 /\ l \in 1 .. Len(got)
      BY <1>2, <2>6
    <3>2. l \in 1 .. Len(w) - 1
      BY <1>2, <1>5, <2>2, <2>6
    <3>3. Follows(w[l], w[l + 1])
      BY <1>1, <3>2 DEF Chain
    <3>4. IsEnd(w[l])
      BY <1>3, <1>4, <3>1
    <3>. QED
      BY <2>4, <3>3, <3>4 DEF Follows
  <2>. QED
    BY <2>5, <2>6
<1>. QED
  BY <1>6, <1>7, <1>8 DEF Reading, tail

\* The beginning of a chain.
LEMMA ChainHead ==
  ASSUME NEW a \in Seq(Piece), NEW c \in Seq(Piece), Chain(a \o c), FromStartOrBook(a \o c)
  PROVE  Chain(a) /\ FromStartOrBook(a)
<1>. DEFINE w == a \o c
<1>1. /\ w \in Seq(Piece) /\ Len(w) = Len(a) + Len(c)
      /\ Len(a) \in Nat /\ Len(c) \in Nat
      /\ \A k \in 1 .. Len(a) : w[k] = a[k]
      /\ SubSeq(w, 1, Len(a)) = a
  BY Joined, Cut
<1>2. Chain(w) /\ FromStartOrBook(w)
  OBVIOUS
<1>. HIDE DEF w
<1>3. Chain(a)
  <2>1. 1 \in 1 .. Len(w) + 1 /\ Len(a) \in 1 - 1 .. Len(w)
    BY <1>1
  <2>2. Chain(SubSeq(w, 1, Len(a)))
    BY <1>2, <2>1, ChainPart
  <2>. QED
    BY <1>1, <2>2
<1>4. FromStartOrBook(a)
  <2>1. SUFFICES ASSUME a # <<>> PROVE a[1].at = 1 \/ a[1].msg.kind = "book"
    BY DEF FromStartOrBook
  <2>2. Len(a) # 0
    BY <2>1, EmptySeq
  <2>3. 1 \in 1 .. Len(a) /\ Len(w) # 0
    BY <1>1, <2>2
  <2>4. w[1] = a[1] /\ w # <<>>
    BY <1>1, <2>3
  <2>. QED
    BY <1>2, <2>4 DEF FromStartOrBook
<1>. QED
  BY <1>3, <1>4

\* What was read dispatches the messages of the lines that end in it.
LEMMA Read ==
  ASSUME NEW got \in Seq(Piece), NEW rest \in Seq(Piece), NEW left \in Seq(Piece), Reading(left, rest),
         Chain(got \o rest), FromStartOrBook(got \o rest)
  PROVE  /\ Dispatched(got) \in Seq(Messages) /\ Messaged(left \o rest) \in Seq(Messages)
         /\ Messaged(got \o rest) = Dispatched(got) \o Messaged(left \o rest)
<1>1. Dispatched(got) = Messaged(got)
  BY ChainHead, HeardWhole
<1>2. /\ Messaged(got) \in Seq(Messages) /\ Messaged(rest) \in Seq(Messages)
      /\ Messaged(got \o rest) = Messaged(got) \o Messaged(rest)
  BY MessagedType, MessagedConcat
<1>3. Messaged(left \o rest) = Messaged(rest)
  <2>1. Messaged(left \o rest) = Messaged(left) \o Messaged(rest)
    BY MessagedConcat
  <2>2. Messaged(left) = <<>>
    <3>1. \A k \in 1 .. Len(left) : ~IsEnd(left[k])
      BY DEF Reading
    <3>. QED
      BY <3>1, NoneMessaged
  <2>. QED
    BY <1>2, <2>1, <2>2, ConcatEmptySeq
<1>4. Messaged(got \o rest) = Dispatched(got) \o Messaged(left \o rest)
  BY <1>1, <1>2, <1>3
<1>5. Dispatched(got) \in Seq(Messages) /\ Messaged(left \o rest) \in Seq(Messages)
  BY <1>1, <1>2, <1>3
<1>. QED
  BY <1>4, <1>5

-----------------------------------------------------------------------------
(***************************************************************************)
(* The link.                                                               *)
(***************************************************************************)

\* Whole lines.
Whole(ps) == Chain(ps) /\ FromStart(ps) /\ Complete(ps)

LEMMA WholeNothing == Whole(<<>>)
<1>1. <<>> \in Seq(Piece) /\ Len(<<>>) = 0
  OBVIOUS
<1>. QED
  BY <1>1 DEF Whole, Chain, FromStart, Complete

LEMMA WholeAdded ==
  ASSUME NEW a, Whole(a), NEW m \in Messages
  PROVE  Whole(a \o Line(m))
<1>1. Chain(a) /\ FromStart(a) /\ Complete(a)
  BY DEF Whole
<1>2. Chain(Line(m)) /\ FromStart(Line(m)) /\ Complete(Line(m))
  BY LineChain
<1>3. Chain(a \o Line(m)) /\ FromStart(a \o Line(m)) /\ Complete(a \o Line(m))
  BY <1>1, <1>2, ChainConcat
<1>. QED
  BY <1>3 DEF Whole

\* A connection just accepted.
LEMMA WholeReading ==
  ASSUME NEW a, Whole(a)
  PROVE  Reading(<<>>, a)
<1>1. Chain(a) /\ FromStart(a) /\ Complete(a) /\ a \in Seq(Piece)
  BY DEF Whole, Chain
<1>2. <<>> \o a = a
  BY <1>1, ConcatEmptySeq
<1>3. FromStartOrBook(a)
  BY <1>1 DEF FromStart, FromStartOrBook
<1>4. <<>> \in Seq(Piece) /\ Len(<<>>) = 0 /\ 0 <= BufMax
  BY FeedLinkAssumption
<1>. QED
  BY <1>1, <1>2, <1>3, <1>4 DEF Reading

\* A line written to the connection the engine reads.
LEMMA LineAdded ==
  ASSUME NEW b, NEW q, Reading(b, q), NEW m \in Messages
  PROVE  /\ Reading(b, q \o Line(m))
         /\ Messaged(b \o (q \o Line(m))) = Append(Messaged(b \o q), m)
<1>1. /\ b \in Seq(Piece) /\ q \in Seq(Piece) /\ Len(b) <= BufMax
      /\ Chain(b \o q) /\ Complete(b \o q) /\ FromStartOrBook(b \o q)
      /\ \A k \in 1 .. Len(b) : ~IsEnd(b[k])
  BY DEF Reading
<1>2. /\ Chain(Line(m)) /\ FromStart(Line(m)) /\ Complete(Line(m))
      /\ Messaged(Line(m)) = <<m>> /\ Line(m) \in Seq(Piece)
  BY LineChain DEF Chain
<1>3. (b \o q) \o Line(m) = b \o (q \o Line(m))
  BY <1>1, <1>2, ConcatAssociative
<1>4. b \o q \in Seq(Piece) /\ q \o Line(m) \in Seq(Piece)
  BY <1>1, <1>2, ConcatProperties
<1>5. /\ Chain((b \o q) \o Line(m)) /\ Complete((b \o q) \o Line(m))
      /\ FromStartOrBook((b \o q) \o Line(m))
  BY <1>1, <1>2, ChainConcat
<1>6. Reading(b, q \o Line(m))
  BY <1>1, <1>3, <1>4, <1>5 DEF Reading
<1>7. Messaged((b \o q) \o Line(m)) = Messaged(b \o q) \o <<m>>
  BY <1>2, <1>4, MessagedConcat
<1>8. Messaged(b \o q) \in Seq(Messages)
  BY <1>4, MessagedType
<1>9. Messaged(b \o q) \o <<m>> = Append(Messaged(b \o q), m)
  BY <1>8, AppendIsConcat
<1>. QED
  BY <1>3, <1>6, <1>7, <1>9

\* A read takes the messages it dispatches from the front of those on the way.
LEMMA ReadOn ==
  ASSUME NEW b, NEW chunk \in Seq(Piece), NEW rest \in Seq(Piece), Reading(b, chunk \o rest),
         Len(chunk) \in 1 .. ReadMax, NEW got, got = Buffered(b, chunk)
  PROVE  /\ Reading(SubSeq(got, LastEnd(got) + 1, Len(got)), rest)
         /\ \E k \in 0 .. Len(Messaged(b \o (chunk \o rest))) :
              /\ Dispatched(got) = SubSeq(Messaged(b \o (chunk \o rest)), 1, k)
              /\ Messaged(SubSeq(got, LastEnd(got) + 1, Len(got)) \o rest)
                   = SubSeq(Messaged(b \o (chunk \o rest)), k + 1,
                            Len(Messaged(b \o (chunk \o rest))))
<1>. DEFINE head == SubSeq(got, 1, LastEnd(got))
            left == SubSeq(got, LastEnd(got) + 1, Len(got))
            queue == Messaged(b \o (chunk \o rest))
            new == Messaged(left \o rest)
            said == Dispatched(got)
<1>1. /\ got \in Seq(Piece) /\ Len(got) <= BufMax
      /\ Chain(got \o rest) /\ Complete(got \o rest) /\ FromStartOrBook(got \o rest)
  BY Gathered
<1>2. Messaged(got \o rest) = queue
  BY Gathered
<1>3. LastEnd(got) \in 0 .. Len(got)
  BY <1>1, LastEndMeans
<1>4. /\ head \in Seq(Piece) /\ left \in Seq(Piece) /\ Len(head) = LastEnd(got)
      /\ head \o left = got
  BY <1>1, <1>3, Halves
<1>. HIDE DEF head, left
<1>5. Reading(left, rest)
  <2>. DEFINE l == LastEnd(got)
  <2>1. /\ l > 0 => IsEnd(got[l])
        /\ \A k \in 1 .. Len(got) : IsEnd(got[k]) => k <= l
    BY <1>1, LastEndMeans
  <2>2. l \in Nat /\ Len(head) = l
    BY <1>3, <1>4
  <2>. HIDE DEF l
  <2>3. /\ Len(got) = Len(head) + Len(left) /\ Len(head) \in Nat /\ Len(left) \in Nat
        /\ \A k \in 1 .. Len(head) : got[k] = head[k]
    BY <1>4, Joined
  <2>4. Len(left) <= BufMax
    BY <1>1, <2>3, FeedLinkAssumption
  <2>5. Len(head) > 0 => IsEnd(head[Len(head)])
    <3>1. Len(head) > 0 => Len(head) \in 1 .. Len(head)
      BY <2>3
    <3>. QED
      BY <2>1, <2>2, <2>3, <3>1
  <2>6. \A k \in 1 .. Len(got) : IsEnd(got[k]) => k <= Len(head)
    BY <2>1, <2>2
  <2>. QED
    BY <1>1, <1>4, <2>4, <2>5, <2>6, Remains
<1>6. /\ said \in Seq(Messages) /\ new \in Seq(Messages)
       /\ queue = said \o new
  <2>1. /\ Dispatched(got) \in Seq(Messages) /\ Messaged(left \o rest) \in Seq(Messages)
        /\ Messaged(got \o rest) = Dispatched(got) \o Messaged(left \o rest)
    BY <1>1, <1>4, <1>5, Read
  <2>. QED
    BY <1>2, <2>1
<1>. HIDE DEF queue, new, said
<1>7. /\ Len(said) \in Nat /\ Len(new) \in Nat /\ Len(queue) = Len(said) + Len(new)
       /\ said = SubSeq(queue, 1, Len(said))
       /\ new = SubSeq(queue, Len(said) + 1, Len(queue))
  <2>1. Len(said) \in Nat /\ Len(new) \in Nat /\ Len(queue) = Len(said) + Len(new)
    BY <1>6, Joined
  <2>2. SubSeq(queue, 1, Len(said)) = said /\ SubSeq(queue, Len(said) + 1, Len(queue)) = new
    BY <1>6, Cut
  <2>. QED
    BY <2>1, <2>2
<1>8. Len(said) \in 0 .. Len(queue)
  BY <1>7
<1>9. \E k \in 0 .. Len(queue) :
         said = SubSeq(queue, 1, k) /\ new = SubSeq(queue, k + 1, Len(queue))
  BY <1>7, <1>8
<1>. QED
  BY <1>5, <1>9 DEF queue, new, said, left

\* What is on the way is whole lines, up to the end, and starts a line unless it continues what
\* is buffered.
LinkInv ==
  /\ client \in [open : BOOLEAN, inq : Seq(Piece)]
  /\ \A i \in 1 .. Len(backlog) : Whole(backlog[i])
  /\ client.open => Reading(buf, client.inq)

FeedInv == FeedTypeOK /\ LinkInv

\* The messages on the way, as the channel sees them.
Queue == IF client.open THEN Messaged(buf \o client.inq) ELSE <<>>

LEMMA MessageTypes ==
  /\ \A m \in Markets : Discovery(m) \in Messages /\ Resolution(m) \in Messages
  /\ \A kind \in {"tick", "book"} : FeedMessage(kind) \in Messages
BY DEF Discovery, Resolution, FeedMessage, Messages

LEMMA LineType ==
  ASSUME NEW m \in Messages
  PROVE  Line(m) \in Seq(Piece)
BY LineChain DEF Chain

\* What sending leaves as it was meant to be, with whichever of its outcomes.
Sent ==
  /\ writer \in {"none", "open", "dead", "reset"}
  /\ connecting \in 0 .. MaxConnects
  /\ writer = "none" => connecting > 0
  /\ backlog \in Seq(Seq(Piece))
  /\ client.open \in BOOLEAN /\ client.inq \in Seq(Piece)
  /\ writer = "open" => up /\ (client.open \/ backlog # <<>>)

LEMMA FeedInitInv == FeedInit => FeedInv
<1>. SUFFICES ASSUME FeedInit PROVE FeedInv
  OBVIOUS
<1>1. <<>> \in Seq(Piece) /\ Len(<<>>) = 0 /\ <<>> \in Seq(Seq(Piece))
  OBVIOUS
<1>2. client = [open |-> FALSE, inq |-> <<>>] /\ client.open = FALSE /\ client.inq = <<>>
  BY DEF FeedInit, NoClient
<1>3. FeedTypeOK
  BY <1>1, <1>2, FeedLinkAssumption DEF FeedInit, FeedTypeOK
<1>4. LinkInv
  BY <1>1, <1>2 DEF FeedInit, LinkInv
<1>. QED
  BY <1>3, <1>4 DEF FeedInv

\* A line written goes to the end of what is on the way to the engine, or to that of a
\* connection not yet accepted.
LEMMA WrittenKept ==
  ASSUME FeedInv, NEW m \in Messages, Written(Line(m)),
         UNCHANGED <<up, buf, heard, known, session, faults>>
  PROVE  /\ Sent' /\ LinkInv'
         /\ Queue' = Append(Queue, m) \/ Queue' = Queue
<1>1. Line(m) \in Seq(Piece)
  BY LineType
<1>2. /\ backlog \in Seq(Seq(Piece)) /\ client.inq \in Seq(Piece)
      /\ writer = "open" /\ UNCHANGED <<writer, connecting>> /\ up' = up /\ buf' = buf
      /\ writer \in {"none", "open", "dead", "reset"} /\ connecting \in 0 .. MaxConnects
      /\ up /\ (client.open \/ backlog # <<>>)
      /\ client \in [open : BOOLEAN, inq : Seq(Piece)]
      /\ \A i \in 1 .. Len(backlog) : Whole(backlog[i])
      /\ client.open => Reading(buf, client.inq)
  BY DEF FeedInv, FeedTypeOK, LinkInv, Written
<1>3. CASE backlog = <<>>
  <2>1. /\ client' = [client EXCEPT !.inq = client.inq \o Line(m)] /\ backlog' = backlog
        /\ client.open
    BY <1>2, <1>3 DEF Written
  <2>2. client.inq \o Line(m) \in Seq(Piece)
    BY <1>1, <1>2, ConcatProperties
  <2>3. /\ client' \in [open : BOOLEAN, inq : Seq(Piece)]
        /\ client'.open = client.open /\ client'.inq = client.inq \o Line(m)
    BY <1>2, <2>1, <2>2
  <2>4. /\ Reading(buf, client.inq \o Line(m))
        /\ Messaged(buf \o (client.inq \o Line(m))) = Append(Messaged(buf \o client.inq), m)
    BY <1>2, <2>1, LineAdded
  <2>5. Sent'
    BY <1>2, <2>1, <2>2, <2>3 DEF Sent
  <2>6. LinkInv'
    <3>1. Reading(buf', client'.inq)
      BY <1>2, <2>3, <2>4
    <3>2. \A i \in 1 .. Len(backlog') : Whole(backlog'[i])
      BY <1>2, <2>1
    <3>. QED
      BY <2>3, <3>1, <3>2 DEF LinkInv
  <2>7. Queue' = Append(Queue, m)
    <3>1. Queue = Messaged(buf \o client.inq)
      BY <2>1 DEF Queue
    <3>2. Queue' = Messaged(buf' \o client'.inq)
      BY <2>1, <2>3 DEF Queue
    <3>. QED
      BY <1>2, <2>3, <2>4, <3>1, <3>2
  <2>. QED
    BY <2>5, <2>6, <2>7
<1>4. CASE backlog # <<>>
  <2>. DEFINE n == Len(backlog)
  <2>1. n \in Nat /\ n # 0 /\ DOMAIN backlog = 1 .. n
        /\ \A i \in 1 .. n : backlog[i] \in Seq(Piece)
    <3>. DEFINE T == Seq(Piece)
    <3>1. backlog \in Seq(T)
      BY <1>2
    <3>. HIDE DEF T
    <3>2. /\ Len(backlog) \in Nat /\ Len(backlog) # 0 /\ DOMAIN backlog = 1 .. Len(backlog)
          /\ \A i \in 1 .. Len(backlog) : backlog[i] \in T
      BY <1>4, <3>1, EmptySeq, LenProperties, ElementOfSeq
    <3>. QED
      BY <3>2 DEF T
  <2>2. n \in 1 .. n
    BY <2>1
  <2>3. backlog' = [backlog EXCEPT ![n] = backlog[n] \o Line(m)] /\ client' = client
    BY <1>4 DEF Written
  <2>4. Whole(backlog[n]) /\ Whole(backlog[n] \o Line(m)) /\ backlog[n] \o Line(m) \in Seq(Piece)
    <3>1. Whole(backlog[n])
      BY <1>2, <2>2
    <3>. HIDE DEF n
    <3>2. Whole(backlog[n] \o Line(m))
      BY <3>1, WholeAdded
    <3>. QED
      BY <3>1, <3>2 DEF Whole, Chain
  <2>. HIDE DEF n
  <2>5. /\ backlog' = [i \in 1 .. n |-> IF i = n THEN backlog[n] \o Line(m) ELSE backlog[i]]
        /\ \A i \in 1 .. n : backlog'[i] \in Seq(Piece) /\ Whole(backlog'[i])
    <3>1. backlog' = [i \in 1 .. n |-> IF i = n THEN backlog[n] \o Line(m) ELSE backlog[i]]
      BY <2>1, <2>3
    <3>2. ASSUME NEW i \in 1 .. n PROVE backlog'[i] \in Seq(Piece) /\ Whole(backlog'[i])
      <4>1. backlog'[i] = IF i = n THEN backlog[n] \o Line(m) ELSE backlog[i]
        BY <3>1
      <4>2. backlog[i] \in Seq(Piece) /\ Whole(backlog[i])
        BY <1>2, <2>1 DEF n
      <4>. QED
        BY <2>4, <4>1, <4>2
    <3>. QED
      BY <3>1, <3>2
  <2>6. backlog' \in Seq(Seq(Piece)) /\ Len(backlog') = n /\ backlog' # <<>>
    <3>. DEFINE T == Seq(Piece)
    <3>1. \A i \in 1 .. n : (IF i = n THEN backlog[n] \o Line(m) ELSE backlog[i]) \in T
      BY <2>1, <2>4
    <3>. HIDE DEF T
    <3>2. backlog' \in Seq(T) /\ Len(backlog') = n
      BY <2>1, <2>5, <3>1
    <3>3. backlog' # <<>>
      BY <2>1, <3>2
    <3>. QED
      BY <3>2, <3>3 DEF T
  <2>7. Sent'
    BY <1>2, <2>3, <2>6 DEF Sent
  <2>8. LinkInv'
    <3>1. \A i \in 1 .. Len(backlog') : Whole(backlog'[i])
      BY <2>5, <2>6
    <3>. QED
      BY <1>2, <2>3, <3>1 DEF LinkInv
  <2>9. Queue' = Queue
    BY <1>2, <2>3 DEF Queue
  <2>. QED
    BY <2>7, <2>8, <2>9
<1>. QED
  BY <1>3, <1>4

LEMMA SendKept ==
  ASSUME FeedInv, NEW m \in Messages, Send(m)
  PROVE  /\ Sent' /\ LinkInv'
         /\ Queue' = Append(Queue, m) \/ Queue' = Queue
<1>1. /\ backlog \in Seq(Seq(Piece)) /\ client.inq \in Seq(Piece) /\ client.open \in BOOLEAN
      /\ writer \in {"none", "open", "dead", "reset"} /\ connecting \in 0 .. MaxConnects
      /\ writer = "none" => connecting > 0
      /\ LinkInv
  BY DEF FeedInv, FeedTypeOK
<1>2. UNCHANGED <<up, buf, heard, known, session, faults>> /\ MaxConnects \in Nat
  BY FeedLinkAssumption DEF Send
<1>3. CASE Written(Line(m))
  BY <1>2, <1>3, WrittenKept
<1>4. ASSUME UNCHANGED <<backlog, client>>
      PROVE  LinkInv' /\ Queue' = Queue
  BY <1>1, <1>2, <1>4 DEF LinkInv, Queue
<1>5. CASE Raised
  <2>1. /\ UNCHANGED <<backlog, client>> /\ writer' = "none" /\ connecting' \in 1 .. MaxConnects
    BY <1>5 DEF Raised
  <2>2. connecting' \in 0 .. MaxConnects /\ connecting' > 0
    BY <1>2, <2>1
  <2>3. Sent'
    BY <1>1, <2>1, <2>2 DEF Sent
  <2>. QED
    BY <1>4, <2>1, <2>3
<1>6. CASE Unnoticed
  <2>1. UNCHANGED <<connecting, backlog, client>> /\ writer' = "reset"
    BY <1>6 DEF Unnoticed
  <2>2. Sent'
    BY <1>1, <2>1 DEF Sent
  <2>. QED
    BY <1>4, <2>1, <2>2
<1>7. CASE writer = "none" /\ UNCHANGED <<writer, connecting, backlog, client>>
  <2>1. Sent'
    BY <1>1, <1>7 DEF Sent
  <2>. QED
    BY <1>4, <1>7, <2>1
<1>. QED
  BY <1>3, <1>5, <1>6, <1>7 DEF Send

\* A step of the channel, or none.
Lined ==
  \/ \E m \in Messages : Queue' = Append(Queue, m) /\ UNCHANGED <<heard, session>>
  \/ \E k \in 0 .. Len(Queue) : /\ heard' = SubSeq(Queue, 1, k)
                                /\ Queue' = SubSeq(Queue, k + 1, Len(Queue))
                                /\ UNCHANGED session
  \/ session' = 1 - session /\ Queue' \in Seq(Messages) /\ heard' = <<>>
  \/ UNCHANGED <<Queue, heard, session>>

LEMMA SendStep ==
  ASSUME FeedInv, NEW m \in Messages, Send(m),
         active' \in Markets \cup {NoMarket}, pending' \subseteq over', over' \subseteq Markets
  PROVE  FeedInv' /\ Lined
<1>1. /\ Sent' /\ LinkInv'
      /\ Queue' = Append(Queue, m) \/ Queue' = Queue
  BY SendKept
<1>2. UNCHANGED <<up, buf, heard, known, session, faults>>
  BY DEF Send
<1>3. FeedTypeOK'
  <2>1. /\ up \in BOOLEAN /\ buf \in Seq(Piece) /\ Len(buf) <= BufMax /\ known \subseteq Markets
        /\ session \in {0, 1} /\ faults \in Nat
    BY DEF FeedInv, FeedTypeOK
  <2>. QED
    BY <1>1, <1>2, <2>1 DEF Sent, FeedTypeOK
<1>4. Lined
  BY <1>1, <1>2 DEF Lined
<1>. QED
  BY <1>1, <1>3, <1>4 DEF FeedInv

LEMMA ConnectStep ==
  ASSUME FeedInv, ConnectToEngine
  PROVE  FeedInv' /\ Lined
<1>1. /\ connecting > 0 /\ up /\ connecting' = connecting - 1 /\ writer' = "open"
      /\ backlog' = Append(backlog, Greeting(active))
      /\ UNCHANGED <<active, pending, over, up, client, buf, heard, known, session, faults>>
  BY DEF ConnectToEngine, collector_vars, engine_vars
<1>2. Whole(Greeting(active)) /\ Greeting(active) \in Seq(Piece)
  <2>1. CASE active = NoMarket
    BY <2>1, WholeNothing DEF Greeting, Whole, Chain
  <2>2. CASE active # NoMarket
    <3>1. Discovery(active) \in Messages
      BY <2>2, MessageTypes DEF FeedInv, FeedTypeOK
    <3>2. Greeting(active) = Line(Discovery(active))
      BY <2>2 DEF Greeting
    <3>. HIDE DEF Greeting
    <3>3. Whole(Line(Discovery(active))) /\ Line(Discovery(active)) \in Seq(Piece)
      BY <3>1, LineChain, LineType DEF Whole
    <3>. QED
      BY <3>2, <3>3
  <2>. QED
    BY <2>1, <2>2
<1>3. /\ backlog' \in Seq(Seq(Piece)) /\ backlog' # <<>>
      /\ \A i \in 1 .. Len(backlog') : Whole(backlog'[i])
  <2>. DEFINE T == Seq(Piece)
              g == Greeting(active)
  <2>1. backlog \in Seq(T) /\ g \in T /\ \A i \in 1 .. Len(backlog) : Whole(backlog[i])
    BY <1>2 DEF FeedInv, FeedTypeOK, LinkInv
  <2>2. Whole(g) /\ backlog' = Append(backlog, g)
    BY <1>1, <1>2
  <2>. HIDE DEF T, g
  <2>3. /\ Append(backlog, g) \in Seq(T) /\ Len(Append(backlog, g)) = Len(backlog) + 1
        /\ Len(backlog) \in Nat /\ Append(backlog, g) # <<>>
        /\ \A i \in 1 .. Len(backlog) : Append(backlog, g)[i] = backlog[i]
        /\ Append(backlog, g)[Len(backlog) + 1] = g
    BY <2>1, AppendProperties, LenProperties
  <2>4. ASSUME NEW i \in 1 .. Len(backlog') PROVE Whole(backlog'[i])
    <3>1. i \in 1 .. Len(backlog) \/ i = Len(backlog) + 1
      BY <2>2, <2>3
    <3>. QED
      BY <2>1, <2>2, <2>3, <3>1
  <2>. QED
    BY <2>2, <2>3, <2>4 DEF T
<1>4. FeedTypeOK'
  <2>1. FeedTypeOK
    BY DEF FeedInv
  <2>2. connecting' \in 0 .. MaxConnects
    BY <1>1, <2>1, FeedLinkAssumption DEF FeedTypeOK
  <2>. QED
    BY <1>1, <1>3, <2>1, <2>2 DEF FeedTypeOK
<1>5. LinkInv' /\ Lined
  BY <1>1, <1>3 DEF FeedInv, LinkInv, Lined, Queue
<1>. QED
  BY <1>4, <1>5 DEF FeedInv

LEMMA AcceptStep ==
  ASSUME FeedInv, OnAccept
  PROVE  FeedInv' /\ Lined
<1>1. /\ up /\ backlog # <<>> /\ client' = [open |-> TRUE, inq |-> Head(backlog)]
      /\ backlog' = Tail(backlog) /\ buf' = <<>> /\ heard' = <<>> /\ session' = 1 - session
      /\ UNCHANGED <<active, pending, over, writer, connecting, up, known, faults>>
  BY DEF OnAccept, Emptied, collector_vars
<1>2. /\ Head(backlog) \in Seq(Piece) /\ Whole(Head(backlog))
      /\ Tail(backlog) \in Seq(Seq(Piece))
      /\ \A i \in 1 .. Len(Tail(backlog)) : Whole(Tail(backlog)[i])
  <2>. DEFINE T == Seq(Piece)
  <2>1. backlog \in Seq(T) /\ \A i \in 1 .. Len(backlog) : Whole(backlog[i])
    BY DEF FeedInv, FeedTypeOK, LinkInv
  <2>. HIDE DEF T
  <2>2. /\ Len(backlog) \in Nat \ {0} /\ Head(backlog) \in T /\ Head(backlog) = backlog[1]
        /\ Tail(backlog) \in Seq(T) /\ Len(Tail(backlog)) = Len(backlog) - 1
        /\ \A i \in 1 .. Len(Tail(backlog)) : Tail(backlog)[i] = backlog[i + 1]
    BY <1>1, <2>1, HeadTailProperties, EmptySeq, LenProperties
  <2>3. ASSUME NEW i \in 1 .. Len(Tail(backlog)) PROVE Whole(Tail(backlog)[i])
    <3>1. i + 1 \in 1 .. Len(backlog)
      BY <2>2
    <3>. QED
      BY <2>1, <2>2, <3>1
  <2>4. 1 \in 1 .. Len(backlog)
    BY <2>2
  <2>. QED
    BY <2>1, <2>2, <2>3, <2>4 DEF T
<1>3. client'.open = TRUE /\ client'.inq = Head(backlog)
  BY <1>1
<1>4. Reading(buf', client'.inq)
  BY <1>1, <1>2, <1>3, WholeReading
<1>5. session' \in {0, 1}
  BY <1>1 DEF FeedInv, FeedTypeOK
<1>6. FeedTypeOK'
  <2>1. FeedTypeOK
    BY DEF FeedInv
  <2>2. <<>> \in Seq(Piece) /\ Len(<<>>) <= BufMax
    BY FeedLinkAssumption
  <2>. QED
    BY <1>1, <1>2, <1>3, <1>5, <2>1, <2>2 DEF FeedTypeOK
<1>7. LinkInv'
  <2>1. client' \in [open : BOOLEAN, inq : Seq(Piece)]
    BY <1>1, <1>2
  <2>2. \A i \in 1 .. Len(backlog') : Whole(backlog'[i])
    BY <1>1, <1>2
  <2>. QED
    BY <1>4, <2>1, <2>2 DEF LinkInv
<1>8. Queue' \in Seq(Messages)
  <2>1. buf' \o client'.inq \in Seq(Piece)
    BY <1>4 DEF Reading, Chain
  <2>2. Messaged(buf' \o client'.inq) \in Seq(Messages)
    BY <2>1, MessagedType
  <2>3. Queue' = Messaged(buf' \o client'.inq)
    BY <1>3 DEF Queue
  <2>. QED
    BY <2>2, <2>3
<1>. QED
  BY <1>1, <1>6, <1>7, <1>8 DEF FeedInv, Lined

LEMMA DataStep ==
  ASSUME FeedInv, NEW n \in 1 .. ReadMax, OnClientData(n)
  PROVE  FeedInv' /\ Lined
<1>. DEFINE got == Buffered(buf, SubSeq(client.inq, 1, n))
            q == client.inq
            queue == Messaged(buf \o q)
<1>1. /\ up /\ client.open /\ n <= Len(q)
      /\ client' = [client EXCEPT !.inq = SubSeq(q, n + 1, Len(q))]
      /\ heard' = Dispatched(got)
      /\ known' = known \cup {m \in Markets : \E i \in DOMAIN heard' : heard'[i] = Discovery(m)}
      /\ buf' = SubSeq(got, LastEnd(got) + 1, Len(got))
      /\ UNCHANGED <<active, pending, over, writer, connecting, up, backlog, session, faults>>
  BY DEF OnClientData, collector_vars
<1>2. Reading(buf, q)
  BY <1>1 DEF FeedInv, LinkInv
<1>3. /\ SubSeq(q, 1, n) \in Seq(Piece) /\ SubSeq(q, n + 1, Len(q)) \in Seq(Piece)
      /\ Len(SubSeq(q, 1, n)) = n /\ SubSeq(q, 1, n) \o SubSeq(q, n + 1, Len(q)) = q
  <2>1. q \in Seq(Piece)
    BY <1>2 DEF Reading
  <2>2. n \in 0 .. Len(q)
    BY <1>1, <2>1, LenProperties, FeedLinkAssumption
  <2>. QED
    BY <2>1, <2>2, Halves
<1>4. /\ Reading(SubSeq(got, LastEnd(got) + 1, Len(got)), SubSeq(q, n + 1, Len(q)))
      /\ \E k \in 0 .. Len(Messaged(buf \o q)) :
           /\ Dispatched(got) = SubSeq(Messaged(buf \o q), 1, k)
           /\ Messaged(SubSeq(got, LastEnd(got) + 1, Len(got)) \o SubSeq(q, n + 1, Len(q)))
                = SubSeq(Messaged(buf \o q), k + 1, Len(Messaged(buf \o q)))
  <2>. DEFINE chunk == SubSeq(q, 1, n)
              rest == SubSeq(q, n + 1, Len(q))
              b == buf
              all == chunk \o rest
  <2>1. /\ chunk \in Seq(Piece) /\ rest \in Seq(Piece) /\ Reading(b, chunk \o rest)
        /\ Len(chunk) \in 1 .. ReadMax /\ got = Buffered(b, chunk) /\ all = chunk \o rest
    BY <1>2, <1>3
  <2>2. q = all
    BY <1>3
  <2>. HIDE DEF chunk, rest, got, b, q, all
  <2>3. /\ Reading(SubSeq(got, LastEnd(got) + 1, Len(got)), rest)
        /\ \E k \in 0 .. Len(Messaged(b \o all)) :
             /\ Dispatched(got) = SubSeq(Messaged(b \o all), 1, k)
             /\ Messaged(SubSeq(got, LastEnd(got) + 1, Len(got)) \o rest)
                  = SubSeq(Messaged(b \o all), k + 1, Len(Messaged(b \o all)))
    <3>1. Reading(SubSeq(got, LastEnd(got) + 1, Len(got)), rest)
      BY <2>1, ReadOn
    <3>2. \E k \in 0 .. Len(Messaged(b \o all)) :
            /\ Dispatched(got) = SubSeq(Messaged(b \o all), 1, k)
            /\ Messaged(SubSeq(got, LastEnd(got) + 1, Len(got)) \o rest)
                 = SubSeq(Messaged(b \o all), k + 1, Len(Messaged(b \o all)))
      BY <2>1, ReadOn
    <3>. QED
      BY <3>1, <3>2
  <2>. QED
    BY <2>2, <2>3 DEF b, rest
<1>. HIDE DEF got, q
<1>5. client' = [client EXCEPT !.inq = SubSeq(q, n + 1, Len(q))]
  BY <1>1
<1>6. /\ client' \in [open : BOOLEAN, inq : Seq(Piece)]
      /\ client'.open = client.open /\ client'.inq = SubSeq(q, n + 1, Len(q))
  <2>1. client \in [open : BOOLEAN, inq : Seq(Piece)]
    BY DEF FeedInv, LinkInv
  <2>2. SubSeq(q, n + 1, Len(q)) \in Seq(Piece)
    BY <1>4 DEF Reading
  <2>. QED
    BY <1>5, <2>1, <2>2
<1>7. Reading(buf', client'.inq)
  BY <1>1, <1>4, <1>6
<1>8. FeedTypeOK'
  <2>1. FeedTypeOK
    BY DEF FeedInv
  <2>2. client'.open \in BOOLEAN /\ client'.inq \in Seq(Piece)
        /\ buf' \in Seq(Piece) /\ Len(buf') <= BufMax
    BY <1>6, <1>7 DEF Reading
  <2>3. known' \subseteq Markets
    BY <1>1, <2>1 DEF FeedTypeOK
  <2>4. /\ UNCHANGED <<active, pending, over, writer, connecting, up, backlog, session, faults>>
        /\ client'.open = client.open
    BY <1>1, <1>6
  <2>. QED
    BY <2>1, <2>2, <2>3, <2>4 DEF FeedTypeOK
<1>9. LinkInv'
  BY <1>1, <1>6, <1>7 DEF FeedInv, LinkInv
<1>10. Lined
  <2>1. Queue = Messaged(buf \o q)
    BY <1>1 DEF Queue, q
  <2>2. Queue' = Messaged(SubSeq(got, LastEnd(got) + 1, Len(got)) \o SubSeq(q, n + 1, Len(q)))
    BY <1>1, <1>6 DEF Queue
  <2>3. PICK k \in 0 .. Len(Queue) :
           /\ Dispatched(got) = SubSeq(Queue, 1, k)
           /\ Queue' = SubSeq(Queue, k + 1, Len(Queue))
    BY <1>4, <2>1, <2>2
  <2>4. heard' = SubSeq(Queue, 1, k) /\ session' = session
    BY <1>1, <2>3
  <2>. QED
    BY <2>3, <2>4 DEF Lined
<1>. QED
  BY <1>8, <1>9, <1>10 DEF FeedInv

LEMMA LostStep ==
  ASSUME FeedInv, ConnectionLost \/ EngineCrash
  PROVE  FeedInv' /\ Lined
<1>1. client' = [open |-> FALSE, inq |-> <<>>] /\ heard' = <<>> /\ session' = 1 - session
  BY DEF ConnectionLost, EngineCrash, NoClient
<1>2. client'.open = FALSE /\ client'.inq = <<>> /\ client' \in [open : BOOLEAN, inq : Seq(Piece)]
  BY <1>1
<1>3. /\ session' \in {0, 1} /\ <<>> \in Seq(Piece) /\ Len(<<>>) <= BufMax
      /\ <<>> \in Seq(Seq(Piece))
  BY <1>1, FeedLinkAssumption DEF FeedInv, FeedTypeOK
<1>4. FeedTypeOK
  BY DEF FeedInv
<1>5. CASE ConnectionLost
  <2>1. /\ faults' = faults + 1
        /\ IF writer = "open" /\ backlog = <<>> THEN writer' \in {"dead", "reset"}
                                                ELSE writer' = writer
        /\ UNCHANGED <<active, pending, over, connecting, up, backlog, buf, known>>
    BY <1>5 DEF ConnectionLost, collector_vars
  <2>2. /\ writer' \in {"none", "open", "dead", "reset"}
        /\ writer' = "none" => writer = "none"
        /\ writer' = "open" => up /\ backlog # <<>>
    BY <1>4, <2>1 DEF FeedTypeOK
  <2>3. faults' \in Nat
    BY <1>4, <2>1 DEF FeedTypeOK
  <2>. QED
    BY <1>1, <1>2, <1>3, <1>4, <2>1, <2>2, <2>3 DEF FeedTypeOK, FeedInv, LinkInv, Lined, Queue
<1>6. CASE EngineCrash
  <2>1. /\ faults' = faults + 1 /\ up' = FALSE /\ backlog' = <<>> /\ buf' = <<>> /\ known' = {}
        /\ writer' = IF writer = "open" THEN "dead" ELSE writer
        /\ UNCHANGED <<active, pending, over, connecting>>
    BY <1>6 DEF EngineCrash, collector_vars
  <2>2. faults' \in Nat
    BY <1>4, <2>1 DEF FeedTypeOK
  <2>3. FeedTypeOK'
    <3>1. /\ writer' \in {"none", "dead", "reset"}
          /\ writer' = "none" => writer = "none"
      BY <1>4, <2>1 DEF FeedTypeOK
    <3>. QED
      BY <1>1, <1>2, <1>3, <1>4, <2>1, <2>2, <3>1 DEF FeedTypeOK
  <2>4. LinkInv'
    BY <1>2, <2>1 DEF LinkInv
  <2>5. Lined
    BY <1>1, <1>2 DEF Lined, Queue
  <2>. QED
    BY <2>3, <2>4, <2>5 DEF FeedInv
<1>. QED
  BY <1>5, <1>6

LEMMA FeedStep ==
  ASSUME FeedInv, [FeedNext]_feed_vars
  PROVE  FeedInv' /\ Lined
<1>1. CASE ConnectToEngine
  BY <1>1, ConnectStep
<1>2. ASSUME NEW m \in Markets, NewMarket(m)
      PROVE  FeedInv' /\ Lined
  <2>1. Discovery(m) \in Messages /\ Send(Discovery(m))
    BY <1>2, MessageTypes DEF NewMarket
  <2>2. active' \in Markets \cup {NoMarket} /\ pending' \subseteq over' /\ over' \subseteq Markets
    BY <1>2 DEF NewMarket, FeedInv, FeedTypeOK
  <2>. QED
    BY <2>1, <2>2, SendStep
<1>3. ASSUME NEW m \in Markets, ReportResolution(m)
      PROVE  FeedInv' /\ Lined
  <2>1. Resolution(m) \in Messages /\ Send(Resolution(m))
    BY <1>3, MessageTypes DEF ReportResolution
  <2>2. active' \in Markets \cup {NoMarket} /\ pending' \subseteq over' /\ over' \subseteq Markets
    BY <1>3 DEF ReportResolution, FeedInv, FeedTypeOK
  <2>. QED
    BY <2>1, <2>2, SendStep
<1>4. CASE MarketExpired
  <2>1. /\ active' = NoMarket /\ pending' = pending \cup {active} /\ over' = over \cup {active}
        /\ active # NoMarket
        /\ UNCHANGED <<writer, connecting, backlog, up, client, buf, heard, known, session, faults>>
    BY <1>4 DEF MarketExpired, engine_vars
  <2>. QED
    BY <2>1 DEF FeedInv, FeedTypeOK, LinkInv, Lined, Queue
<1>5. ASSUME NEW kind \in {"tick", "book"}, Forward(kind)
      PROVE  FeedInv' /\ Lined
  <2>1. FeedMessage(kind) \in Messages /\ Send(FeedMessage(kind))
    BY <1>5, MessageTypes DEF Forward
  <2>2. active' \in Markets \cup {NoMarket} /\ pending' \subseteq over' /\ over' \subseteq Markets
    BY <1>5 DEF Forward, collector_vars, FeedInv, FeedTypeOK
  <2>. QED
    BY <2>1, <2>2, SendStep
<1>6. CASE OnAccept
  BY <1>6, AcceptStep
<1>7. ASSUME NEW n \in 1 .. ReadMax, OnClientData(n)
      PROVE  FeedInv' /\ Lined
  BY <1>7, DataStep
<1>8. CASE ConnectionLost \/ EngineCrash
  BY <1>8, LostStep
<1>9. CASE EngineStart
  BY <1>9 DEF EngineStart, collector_vars, FeedInv, FeedTypeOK, LinkInv, Lined, Queue
<1>10. CASE UNCHANGED feed_vars
  BY <1>10 DEF feed_vars, collector_vars, engine_vars, FeedInv, FeedTypeOK, LinkInv, Lined, Queue
<1>. QED
  BY <1>1, <1>2, <1>3, <1>4, <1>5, <1>6, <1>7, <1>8, <1>9, <1>10 DEF FeedNext

\* No fairness is needed.
LEMMA FeedAlways == FeedInit /\ [][FeedNext]_feed_vars => []FeedInv
<1>1. FeedInv /\ [FeedNext]_feed_vars => FeedInv'
  BY FeedStep
<1>. QED
  BY <1>1, FeedInitInv, PTL

\* Whatever is written, lost or accepted, what is on the way to the engine is whole lines.
THEOREM FeedInvariant == FeedSpec => []FeedInv
<1>. QED
  BY FeedAlways, PTL DEF FeedSpec

\* The link keeps its types: the buffer never holds more than it has room for, an open writer
\* has a connection that is read or will be, and a collector without a writer is connecting.
THEOREM FeedTypeCorrect == FeedSpec => []FeedTypeOK
<1>1. FeedInv => FeedTypeOK
  BY DEF FeedInv
<1>. QED
  BY <1>1, FeedInvariant, PTL

\* The engine's connection is a channel of lines.
THEOREM LinesAlwaysHeard == FeedSpec => LinesHeard
<1>1. FeedInit => Channel!Init
  BY DEF FeedInit, NoClient, Channel!Init
<1>2. FeedInv /\ [FeedNext]_feed_vars
        => [Channel!Next]_<<IF client.open THEN InTransit ELSE <<>>, heard, session>>
  <2>1. SUFFICES ASSUME FeedInv, [FeedNext]_feed_vars
                 PROVE  [Channel!Next]_<<IF client.open THEN InTransit ELSE <<>>, heard, session>>
    OBVIOUS
  <2>2. Lined
    BY <2>1, FeedStep
  <2>3. /\ Queue = IF client.open THEN InTransit ELSE <<>>
        /\ Queue' = (IF client.open THEN InTransit ELSE <<>>)'
    BY Zenon DEF Queue, InTransit, Messaged
  <2>. QED
    BY <2>2, <2>3 DEF Lined, Channel!Next, Channel!Write, Channel!Hear, Channel!Change
<1>. QED
  BY <1>1, <1>2, FeedInvariant, PTL DEF FeedSpec, LinesHeard, Channel!Spec

=============================================================================
